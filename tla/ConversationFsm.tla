---------------------------- MODULE ConversationFsm ----------------------------
(***************************************************************************)
(* The state machine of a support conversation:                            *)
(* packages/types/src/support/state-machines/conversation-state-machine.ts *)
(*                                                                         *)
(* A machine is the set of its edges <<from, event, to>>; an event without *)
(* an edge throws.  operatorSetDone stands for the event that carries      *)
(* deliveryConfirmed = true, without it the handler throws.                *)
(***************************************************************************)

\* SUPPORT_CONVERSATION_STATUS
ConversationStatus == { "UNREAD", "IN_PROGRESS", "STALE", "DONE" }

\* operatorMoves: legal from every status, the target depends on the event alone.
OperatorMoves ==
  { <<"operatorSetUnread",       "UNREAD">>,
    <<"operatorSetInProgress",   "IN_PROGRESS">>,
    <<"operatorSetStale",        "STALE">>,
    <<"operatorSetDone",         "DONE">>,
    <<"operatorOverrideDone",    "DONE">>,
    <<"operatorCloseAsNoAction", "DONE">> }

\* conversationFsm.states
ConversationEdges ==
  { <<from, move[1], move[2]>> : from \in ConversationStatus, move \in OperatorMoves }
  \cup
  { <<"UNREAD",      "customerMessageReceived", "UNREAD">>,
    <<"UNREAD",      "operatorReplied",         "IN_PROGRESS">>,
    <<"UNREAD",      "markStale",               "STALE">>,
    <<"UNREAD",      "analysisEscalated",       "IN_PROGRESS">>,
    <<"IN_PROGRESS", "customerMessageReceived", "IN_PROGRESS">>,
    <<"IN_PROGRESS", "operatorReplied",         "IN_PROGRESS">>,
    <<"IN_PROGRESS", "markStale",               "STALE">>,
    <<"IN_PROGRESS", "analysisEscalated",       "IN_PROGRESS">>,
    <<"STALE",       "customerMessageReceived", "UNREAD">>,
    <<"STALE",       "operatorReplied",         "IN_PROGRESS">>,
    <<"STALE",       "analysisEscalated",       "IN_PROGRESS">>,
    <<"DONE",        "customerMessageReceived", "UNREAD">>,
    <<"DONE",        "operatorReplied",         "DONE">> }

\* transitionConversation: the statuses an event may lead to, none if it throws.
Transitions(status, event) ==
  { to \in ConversationStatus : <<status, event, to>> \in ConversationEdges }
===============================================================================
