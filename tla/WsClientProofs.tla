--------------------------- MODULE WsClientProofs ---------------------------
(***************************************************************************)
(* Proofs about WsClient, for every number of sockets and of calls and     *)
(* whatever the bounds: the invariant IInv is inductive, the client        *)
(* implements CallPromise, and the connection it reports is the one it has.*)
(***************************************************************************)
EXTENDS WsClient, TLAPS

(* The client starts with the invariant true. *)
LEMMA InitInv == Init => IInv
<1> SUFFICES ASSUME Init PROVE IInv
  OBVIOUS
<1> USE ClientAssumption
<1>1. outcome \in [Calls -> P!Outcomes]
      /\ answer \in [Calls -> P!Answers \union {"none"}]
  BY DEF Init, P!Init, P!Outcomes, P!Answers
<1>2. FlagsOK
  BY DEF Init, FlagsOK
<1>3. TypeOK
  BY <1>1, <1>2 DEF Init, TypeOK, ReadyStates
<1>4. CallInv
  BY DEF Init, P!Init, CallInv, Calls
<1>5. AnswerInv
  BY DEF Init, P!Init, AnswerInv, Calls
<1>6. QED
  BY <1>3, <1>4, <1>5 DEF IInv

(* Every event keeps a flag a flag. *)
LEMMA StepFlags == TypeOK /\ [Next]_vars => FlagsOK'
<1> SUFFICES ASSUME TypeOK, [Next]_vars PROVE FlagsOK'
  OBVIOUS
<1> USE DEF TypeOK, FlagsOK, netVars, callVars, sessionVars, shownVars,
        notifyConnection, ScheduleReconnect
<1>1. CASE Connect
  <2>1. /\ overlapped' \in BOOLEAN /\ stopped' \in BOOLEAN
        /\ lost' \in BOOLEAN
    BY <1>1 DEF Connect
  <2>2. reconnectTimer' \in BOOLEAN /\ reconnecting' \in BOOLEAN
    BY <1>1 DEF Connect
  <2>3. connected' \in BOOLEAN /\ console' \in BOOLEAN
    BY <1>1 DEF Connect
  <2>4. UNCHANGED <<up, urlOk, hadFirstOpen, spurious>>
    BY <1>1 DEF Connect
  <2>5. QED
    BY <2>1, <2>2, <2>3, <2>4
<1>2. CASE Reconnect
  BY <1>2 DEF Reconnect
<1>3. CASE disconnect
  BY <1>3 DEF disconnect
<1>4. CASE call \/ Flip \/ \E c \in Calls : Timeout(c)
  <2>1. CASE call
    BY <2>1 DEF call
  <2>2. CASE Flip
    BY <2>2 DEF Flip
  <2>3. CASE \E c \in Calls : Timeout(c)
    BY <2>3 DEF Timeout
  <2>4. QED
    BY <1>4, <2>1, <2>2, <2>3
<1>5. ASSUME NEW s \in Sockets, OnOpen(s) PROVE FlagsOK'
  BY <1>5 DEF OnOpen
<1>6. ASSUME NEW s \in Sockets, OnClose(s) PROVE FlagsOK'
  BY <1>6 DEF OnClose
<1>7. ASSUME NEW s \in Sockets, NEW c \in Calls,
             HandleMessage(s, c) \/ \E a \in P!Answers : Answer(s, c, a)
      PROVE FlagsOK'
  BY <1>7 DEF HandleMessage, Answer
<1>8. CASE UNCHANGED vars
  BY <1>8 DEF vars
<1>9. QED
  BY <1>1, <1>2, <1>3, <1>4, <1>5, <1>6, <1>7, <1>8 DEF Next

(* Every event keeps the type of every variable: one case per action. *)
LEMMA StepType == IInv /\ [Next]_vars => TypeOK'
<1> SUFFICES ASSUME IInv, [Next]_vars PROVE TypeOK'
  OBVIOUS
<1> USE ClientAssumption, StepFlags DEF IInv, TypeOK, netVars, callVars,
        wireVars, sessionVars, shownVars
<1>1. CASE Connect \/ Reconnect
  <2>1. attempt' \in 0..AttemptCap
    BY <1>1 DEF Connect, Reconnect, ScheduleReconnect
  <2>2. /\ readyState' \in [Sockets -> ReadyStates]
        /\ ws' \in Sockets \union {NoSocket}
        /\ UNCHANGED <<asked, inbox>>
    BY <1>1 DEF Connect, Reconnect, Open, ReadyStates
  <2>3. sessions' \in 0..MaxSessions
    BY <1>1 DEF Connect, Reconnect
  <2>4. QED
    BY <1>1, <2>1, <2>2, <2>3 DEF Connect, Reconnect
<1>2. CASE disconnect
  BY <1>2 DEF disconnect, ReadyStates
<1>3. CASE call
  <2>1. requestId' \in Calls /\ requestId' \in 0..MaxCalls
    BY <1>3 DEF call, Calls
  <2>2. outcome' \in [Calls -> P!Outcomes]
    BY <1>3, <2>1 DEF call, P!Outcomes
  <2>3. asked' \in [Sockets -> SUBSET Calls]
    BY <1>3, <2>1 DEF call
  <2>4. QED
    BY <1>3, <2>1, <2>2, <2>3 DEF call
<1>4. CASE Flip
  BY <1>4 DEF Flip
<1>5. ASSUME NEW s \in Sockets, OnOpen(s) PROVE TypeOK'
  BY <1>5 DEF OnOpen, ReadyStates
<1>6. ASSUME NEW s \in Sockets, OnClose(s) PROVE TypeOK'
  <2>1. outcome' \in [Calls -> P!Outcomes]
    BY <1>6 DEF OnClose, RejectPending, P!Outcomes, P!Rejections
  <2>2. readyState' \in [Sockets -> ReadyStates]
    BY <1>6 DEF OnClose, ReadyStates
  <2>3. attempt' \in 0..AttemptCap
    BY <1>6 DEF OnClose, ScheduleReconnect
  <2>4. QED
    BY <1>6, <2>1, <2>2, <2>3 DEF OnClose, RejectPending
<1>7. ASSUME NEW s \in Sockets, NEW c \in Calls, HandleMessage(s, c)
      PROVE TypeOK'
  <2>1. outcome' \in [Calls -> P!Outcomes]
    <3>1. c \in inbox[s] => answer[c] \in P!Outcomes
      BY DEF AnswerInv, P!Outcomes
    <3>2. QED
      BY <1>7, <3>1 DEF HandleMessage
  <2>2. QED
    BY <1>7, <2>1 DEF HandleMessage
<1>8. ASSUME NEW s \in Sockets, NEW c \in Calls, NEW a \in P!Answers,
             Answer(s, c, a)
      PROVE TypeOK'
  BY <1>8 DEF Answer
<1>9. ASSUME NEW c \in Calls, Timeout(c) PROVE TypeOK'
  BY <1>9 DEF Timeout, P!Outcomes, P!Rejections
<1>10. CASE UNCHANGED vars
  BY <1>10 DEF vars
<1>11. QED
  BY <1>1, <1>2, <1>3, <1>4, <1>5, <1>6, <1>7, <1>8, <1>9, <1>10 DEF Next

(* Every event keeps what is known of the calls and of their answers. *)
LEMMA StepCalls == IInv /\ [Next]_vars => CallInv' /\ AnswerInv'
<1> SUFFICES ASSUME TypeOK, CallInv, AnswerInv, [Next]_vars
             PROVE  CallInv' /\ AnswerInv'
  BY DEF IInv
<1>1. CASE call
  <2>1. requestId' \in Calls /\ outcome[requestId'] = "unused"
    BY <1>1, ClientAssumption DEF call, CallInv, Calls, TypeOK
  <2>2. pending' = {c \in Calls : outcome'[c] = "waiting"}
    BY <1>1, <2>1 DEF call, CallInv, TypeOK
  <2>3. \A c \in Calls : outcome'[c] = "unused" <=> c > requestId'
    BY <1>1, <2>1, ClientAssumption DEF call, CallInv, TypeOK, Calls
  <2>4. timers' = pending'
    BY <1>1 DEF call, CallInv
  <2>5. AnswerInv'
    BY <1>1, <2>1, ClientAssumption
    DEF call, CallInv, AnswerInv, TypeOK, Calls
  <2>6. QED
    BY <2>2, <2>3, <2>4, <2>5 DEF CallInv
<1>2. ASSUME NEW s \in Sockets, OnClose(s) PROVE CallInv' /\ AnswerInv'
  BY <1>2 DEF OnClose, RejectPending, TypeOK, CallInv, AnswerInv, Calls
<1>3. ASSUME NEW s \in Sockets, NEW c \in Calls, HandleMessage(s, c)
      PROVE CallInv' /\ AnswerInv'
  <2>1. answer[c] # "none" /\ answer[c] \in {"result", "error"}
    BY <1>3 DEF HandleMessage, P!Answers, TypeOK, AnswerInv
  <2>2. pending' = {d \in Calls : outcome'[d] = "waiting"}
    BY <1>3, <2>1 DEF HandleMessage, CallInv, TypeOK
  <2>3. \A d \in Calls : outcome'[d] = "unused" <=> d > requestId'
    BY <1>3, <2>1 DEF HandleMessage, CallInv, TypeOK, Calls
  <2>4. timers' = pending'
    BY <1>3 DEF HandleMessage, CallInv
  <2>5. AnswerInv'
    BY <1>3 DEF HandleMessage, TypeOK, AnswerInv
  <2>6. QED
    BY <2>2, <2>3, <2>4, <2>5 DEF CallInv
<1>4. ASSUME NEW s \in Sockets, NEW c \in Calls, NEW a \in P!Answers,
             Answer(s, c, a)
      PROVE CallInv' /\ AnswerInv'
  BY <1>4 DEF Answer, P!Answers, TypeOK, CallInv, AnswerInv, Calls
<1>5. ASSUME NEW c \in Calls, Timeout(c) PROVE CallInv' /\ AnswerInv'
  BY <1>5 DEF Timeout, TypeOK, CallInv, AnswerInv, Calls, wireVars
<1>6. ASSUME UNCHANGED <<callVars, asked, inbox>>
      PROVE  CallInv' /\ AnswerInv'
  BY <1>6 DEF callVars, CallInv, AnswerInv, Calls
<1>7. CASE Connect \/ Reconnect
  BY <1>6, <1>7 DEF Connect, Reconnect, Open, wireVars
<1>8. CASE disconnect
  BY <1>8 DEF disconnect, callVars, TypeOK, CallInv, AnswerInv, Calls
<1>9. CASE Flip \/ UNCHANGED vars \/ \E s \in Sockets : OnOpen(s)
  BY <1>6, <1>9 DEF Flip, vars, wireVars, OnOpen
<1>10. QED
  BY <1>1, <1>2, <1>3, <1>4, <1>5, <1>7, <1>8, <1>9 DEF Next

(* In every reachable state a call waits exactly as long as it is pending  *)
(* and its timer runs, whatever the order of answers, timers and closes.   *)
THEOREM Invariance == Spec => []IInv
<1>1. IInv /\ [Next]_vars => IInv'
  BY StepType, StepCalls DEF IInv
<1>2. QED
  BY InitInv, <1>1, PTL DEF Spec

-----------------------------------------------------------------------------

(* One event of the client is one step of the promise, or none. *)
LEMMA StepPromise == IInv /\ [Next]_vars => [P!Next]_(P!vars)
<1> SUFFICES ASSUME IInv, [Next]_vars PROVE [P!Next]_(P!vars)
  OBVIOUS
<1> USE DEF IInv, TypeOK, callVars
<1>1. CASE call
  <2>1. requestId' \in Calls /\ outcome[requestId'] = "unused"
    BY <1>1, ClientAssumption DEF call, CallInv, Calls
  <2>2. P!Issue(requestId')
    BY <1>1, <2>1 DEF call, P!Issue
  <2>3. QED
    BY <2>1, <2>2 DEF P!Next
<1>2. ASSUME NEW s \in Sockets, OnClose(s) PROVE [P!Next]_(P!vars)
  <2>1. P!Reject(pending, "closed")
    BY <1>2 DEF OnClose, RejectPending, P!Reject, CallInv
  <2>2. pending \in SUBSET Calls /\ "closed" \in P!Rejections
    BY DEF P!Rejections
  <2>3. QED
    BY <2>1, <2>2 DEF P!Next
<1>3. ASSUME NEW s \in Sockets, NEW c \in Calls, HandleMessage(s, c)
      PROVE [P!Next]_(P!vars)
  <2>1. CASE c \in pending
    <3>1. outcome[c] = "waiting" /\ answer[c] # "none"
      BY <1>3, <2>1 DEF HandleMessage, CallInv, AnswerInv
    <3>2. P!Tell(c)
      BY <1>3, <2>1, <3>1 DEF HandleMessage, P!Tell
    <3>3. QED
      BY <3>2 DEF P!Next
  <2>2. CASE c \notin pending
    BY <1>3, <2>2 DEF HandleMessage, P!vars
  <2>3. QED
    BY <2>1, <2>2
<1>4. ASSUME NEW s \in Sockets, NEW c \in Calls, NEW a \in P!Answers,
             Answer(s, c, a)
      PROVE [P!Next]_(P!vars)
  <2>1. answer[c] = "none" /\ outcome[c] # "unused"
    BY <1>4 DEF Answer, AnswerInv, CallInv, Calls
  <2>2. P!Answer(c, a)
    BY <1>4, <2>1 DEF Answer, P!Answer
  <2>3. QED
    BY <2>2 DEF P!Next
<1>5. ASSUME NEW c \in Calls, Timeout(c) PROVE [P!Next]_(P!vars)
  <2>1. outcome[c] = "waiting"
    BY <1>5 DEF Timeout, CallInv
  <2>2. outcome' = [d \in Calls |-> IF d \in {c} THEN "timeout" ELSE outcome[d]]
    BY <1>5 DEF Timeout
  <2>3. P!Reject({c}, "timeout") /\ "timeout" \in P!Rejections
    BY <1>5, <2>1, <2>2 DEF Timeout, P!Reject, P!Rejections
  <2>4. QED
    BY <2>3 DEF P!Next
<1>6. CASE Connect \/ Reconnect \/ disconnect \/ Flip
           \/ \E s \in Sockets : OnOpen(s)
  BY <1>6 DEF Connect, Reconnect, disconnect, Flip, OnOpen, P!vars
<1>7. CASE UNCHANGED vars
  BY <1>7 DEF vars, P!vars
<1>8. QED
  BY <1>1, <1>2, <1>3, <1>4, <1>5, <1>6, <1>7 DEF Next

(* The client keeps what CallPromise states: a call that was sent is       *)
(* settled once, with the backend's own answer or a rejection, whatever    *)
(* the sockets and the timers do.                                          *)
THEOREM Promise == Spec => KeepsPromise
<1>1. Init => P!Init
  BY DEF Init
<1>2. QED
  BY <1>1, StepPromise, Invariance, PTL DEF Spec, KeepsPromise, P!Spec

-----------------------------------------------------------------------------

(* The connection is told as it is at the start. *)
LEMMA InitConnection == Init => OneConnection
BY ClientAssumption DEF Init, OneConnection, Snapshot

(* Every event keeps it so. *)
LEMMA StepConnection ==
  IInv /\ OneConnection /\ [Next]_vars => OneConnection'
<1> SUFFICES ASSUME IInv, OneConnection, [Next]_vars PROVE OneConnection'
  OBVIOUS
<1> USE ClientAssumption DEF IInv, TypeOK, OneConnection, netVars, callVars,
        wireVars, sessionVars, shownVars, emitState, notifyConnection,
        Snapshot, ReadyStates, BannerReads, FlagsOK
<1>1. CASE Connect
  <2>1. CASE \E s \in Sockets : Open(s) /\ UNCHANGED <<reconnectTimer, shownVars>>
    BY <1>1, <2>1 DEF Connect, Open
  <2>2. CASE /\ ~urlOk /\ ScheduleReconnect /\ emitState
             /\ UNCHANGED <<wireVars, ws, connected, console>>
    BY <1>1, <2>2 DEF Connect, ScheduleReconnect
  <2>3. QED
    BY <1>1, <2>1, <2>2 DEF Connect
<1>2. CASE Reconnect
  <2>1. CASE \E s \in Sockets : Open(s)
    BY <1>2, <2>1 DEF Reconnect, Open
  <2>2. CASE ~ \E s \in Sockets : Open(s)
    <3>1. /\ reconnecting' = TRUE /\ emitState
          /\ UNCHANGED <<wireVars, ws, connected, console, reconnectTimer>>
          /\ stopped' = FALSE /\ UNCHANGED <<overlapped, pending>>
      BY <1>2, <2>2 DEF Reconnect
    <3>2. reconnectTimer
      BY <1>2 DEF Reconnect
    <3>3. QED
      BY <3>1, <3>2
  <2>3. QED
    BY <2>1, <2>2
<1>3. CASE disconnect
  BY <1>3 DEF disconnect
<1>4. CASE call
  BY <1>4 DEF call
<1>5. CASE Flip
  BY <1>5 DEF Flip
<1>6. ASSUME NEW s \in Sockets, OnOpen(s) PROVE OneConnection'
  BY <1>6 DEF OnOpen
<1>7. ASSUME NEW s \in Sockets, OnClose(s) PROVE OneConnection'
  BY <1>7 DEF OnClose, RejectPending, ScheduleReconnect
<1>8. ASSUME NEW s \in Sockets, NEW c \in Calls, HandleMessage(s, c)
      PROVE OneConnection'
  BY <1>8 DEF HandleMessage
<1>9. ASSUME NEW s \in Sockets, NEW c \in Calls, NEW a \in P!Answers,
             Answer(s, c, a)
      PROVE OneConnection'
  BY <1>9 DEF Answer
<1>10. ASSUME NEW c \in Calls, Timeout(c) PROVE OneConnection'
  BY <1>10 DEF Timeout
<1>11. CASE UNCHANGED vars
  BY <1>11 DEF vars
<1>12. QED
  BY <1>1, <1>2, <1>3, <1>4, <1>5, <1>6, <1>7, <1>8, <1>9, <1>10, <1>11
  DEF Next

(* No call is left waiting without a socket, and, as long as no session    *)
(* overlaps the end of another, the client has one connection and reports  *)
(* it as it is.                                                            *)
THEOREM Connection == Spec => []OneConnection
BY InitConnection, StepConnection, Invariance, PTL DEF Spec
=============================================================================
