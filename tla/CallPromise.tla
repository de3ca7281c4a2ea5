---------------------------- MODULE CallPromise ----------------------------
(***************************************************************************)
(* What WsClient.call promises its callers, with no sockets, timers or     *)
(* maps: a call that was sent is settled at most once and stays so; it is  *)
(* told an outcome only if the backend gave that outcome, and is rejected  *)
(* otherwise.  WsClient implements this specification.                     *)
(***************************************************************************)
CONSTANTS Calls

VARIABLES
  outcome,   \* what each call was told
  answer     \* what the backend answered to each call, heard or not

vars == <<outcome, answer>>

Answers    == {"result", "error"}
Rejections == {"closed", "timeout"}
Outcomes   == {"unused", "waiting"} \union Answers \union Rejections

Init ==
  /\ outcome = [c \in Calls |-> "unused"]
  /\ answer = [c \in Calls |-> "none"]

Issue(c) ==
  /\ outcome[c] = "unused"
  /\ outcome' = [outcome EXCEPT ![c] = "waiting"]
  /\ UNCHANGED answer

Answer(c, a) ==
  /\ outcome[c] # "unused"
  /\ answer[c] = "none"
  /\ answer' = [answer EXCEPT ![c] = a]
  /\ UNCHANGED outcome

Tell(c) ==
  /\ outcome[c] = "waiting"
  /\ answer[c] # "none"
  /\ outcome' = [outcome EXCEPT ![c] = answer[c]]
  /\ UNCHANGED answer

\* calls given up together, for one reason
Reject(cs, why) ==
  /\ \A c \in cs : outcome[c] = "waiting"
  /\ outcome' = [c \in Calls |-> IF c \in cs THEN why ELSE outcome[c]]
  /\ UNCHANGED answer

Next ==
  \/ \E c \in Calls : Issue(c) \/ Tell(c) \/ \E a \in Answers : Answer(c, a)
  \/ \E cs \in SUBSET Calls, why \in Rejections : Reject(cs, why)

Spec == Init /\ [][Next]_vars
=============================================================================
