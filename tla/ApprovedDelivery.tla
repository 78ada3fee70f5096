--------------------------- MODULE ApprovedDelivery ---------------------------
(***************************************************************************)
(* What draft delivery promises, without workflow, retries or sweep: a     *)
(* draft is opened for delivery by an approval, Slack is asked to post it  *)
(* only while it is or was open, at most MaxRequests requests reach Slack, *)
(* and the outcome recorded for it is given once and is never "delivered"  *)
(* without a request Slack accepted.                                       *)
(***************************************************************************)
EXTENDS Naturals

CONSTANTS Draft, MaxRequests

VARIABLES outcome,  \* "NONE" before approval, "PENDING" while open, then the result
          requests  \* post requests Slack accepted

promiseVars == <<outcome, requests>>

Init ==
  /\ outcome = [d \in Draft |-> "NONE"]
  /\ requests = [d \in Draft |-> 0]

Approve(d) ==
  /\ outcome[d] = "NONE"
  /\ outcome' = [outcome EXCEPT ![d] = "PENDING"]
  /\ UNCHANGED requests

\* A request that a timeout abandoned may land after the outcome was recorded.
Accept(d) ==
  /\ outcome[d] # "NONE"
  /\ requests[d] < MaxRequests
  /\ requests' = [requests EXCEPT ![d] = @ + 1]
  /\ UNCHANGED outcome

Deliver(d) ==
  /\ outcome[d] = "PENDING"
  /\ requests[d] > 0
  /\ outcome' = [outcome EXCEPT ![d] = "DISPATCHED"]
  /\ UNCHANGED requests

GiveUp(d) ==
  /\ outcome[d] = "PENDING"
  /\ outcome' = [outcome EXCEPT ![d] = "FAILED"]
  /\ UNCHANGED requests

Next == \E d \in Draft : Approve(d) \/ Accept(d) \/ Deliver(d) \/ GiveUp(d)

Spec == Init /\ [][Next]_promiseVars
===============================================================================
