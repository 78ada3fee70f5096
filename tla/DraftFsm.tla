------------------------------- MODULE DraftFsm -------------------------------
(***************************************************************************)
(* The state machines of a support draft and of its outbox row:            *)
(* packages/types/src/support/state-machines/draft-state-machine.ts and    *)
(* draft-dispatch-state-machine.ts.                                        *)
(*                                                                         *)
(* A machine is the set of its edges <<from, event, to>>.  defineFsm       *)
(* throws on an event that is not declared for the current state, so an    *)
(* event is legal exactly when an edge leaves the state under it.  The     *)
(* payload of an event (error text, actor, Slack ts) is left out; the one  *)
(* payload that selects the target, sendFailed.retryable, splits the event *)
(* in two.                                                                 *)
(***************************************************************************)

\* DRAFT_STATUS
DraftStatus ==
  { "GENERATING", "AWAITING_APPROVAL", "APPROVED", "SENDING", "SENT",
    "DELIVERY_UNKNOWN", "SEND_FAILED", "DISMISSED", "FAILED" }

\* draftFsm.states
DraftEdges ==
  { <<"GENERATING",        "generated",           "AWAITING_APPROVAL">>,
    <<"GENERATING",        "failed",              "FAILED">>,
    <<"AWAITING_APPROVAL", "approve",             "APPROVED">>,
    <<"AWAITING_APPROVAL", "dismiss",             "DISMISSED">>,
    <<"APPROVED",          "startSending",        "SENDING">>,
    <<"APPROVED",          "failed",              "FAILED">>,
    <<"SENDING",           "sendSucceeded",       "SENT">>,
    <<"SENDING",           "sendFailedRetryable", "DELIVERY_UNKNOWN">>,
    <<"SENDING",           "sendFailedPermanent", "SEND_FAILED">>,
    <<"SENDING",           "deliveryUnknown",     "DELIVERY_UNKNOWN">>,
    <<"DELIVERY_UNKNOWN",  "reconcileFound",      "SENT">>,
    <<"DELIVERY_UNKNOWN",  "reconcileRetry",      "SENDING">>,
    <<"DELIVERY_UNKNOWN",  "failed",              "SEND_FAILED">>,
    <<"SEND_FAILED",       "retry",               "APPROVED">>,
    <<"FAILED",            "retry",               "GENERATING">> }

DraftAllows(status, event) == \E to \in DraftStatus : <<status, event, to>> \in DraftEdges

\* The row of the outbox; "NONE" while approveDraft has not inserted it.
DispatchStatus == { "NONE", "PENDING", "DISPATCHED", "FAILED" }

\* dispatchFsm.states
DispatchEdges ==
  { <<"PENDING", "dispatched",     "DISPATCHED">>,
    <<"PENDING", "dispatchFailed", "FAILED">> }

DispatchAllows(status, event) ==
  \E to \in DispatchStatus : <<status, event, to>> \in DispatchEdges
===============================================================================
