------------------------------ MODULE WsClient ------------------------------
(***************************************************************************)
(* The browser's JSON-RPC client: calls that wait for an answer, a socket  *)
(* that is opened again when it is lost, and what is told to those who     *)
(* watch the connection.                                                   *)
(*                                                                         *)
(* The client is one JavaScript thread: a handler runs to its end before   *)
(* the next event.  A socket the client closes itself, or whose opening    *)
(* fails, reports the close in a later event, by when the client may have  *)
(* opened another: so there are several sockets, each with the handlers    *)
(* of connect().                                                           *)
(*                                                                         *)
(* Left out: notifications (see RunSync), the length of a delay, and calls *)
(* made with timeoutMs = 0, of which the program has none.  A call on a    *)
(* socket that is not open is rejected at once and changes nothing.        *)
(***************************************************************************)
EXTENDS Naturals

CONSTANTS
  Sockets,      \* bound: sockets that exist at a time
  NoSocket,
  MaxCalls,     \* bound: calls made
  MaxFlips,     \* bound: times the server goes away or comes back
  MaxSessions,  \* bound: times connect() is called by the program
  AttemptCap    \* attempts counted; the delay is the same from the fifth on

ASSUME ClientAssumption ==
  /\ NoSocket \notin Sockets
  /\ MaxCalls \in Nat /\ MaxFlips \in Nat /\ MaxSessions \in Nat
  /\ AttemptCap \in Nat

VARIABLES
  \* outside: the server can be reached; the url is one WebSocket accepts;
  \* of each socket its readyState, the calls the server has yet to answer
  \* and the answers on their way
  up, urlOk, readyState, asked, inbox,
  \* WsClient's fields; ws is the socket it holds
  ws, requestId, pending, timers, reconnectTimer, connected, reconnecting,
  attempt, stopped, hadFirstOpen,
  \* what the subscribers were last told: onConnectionState (the banner) and
  \* onConnection (the console)
  banner, console,
  \* history: what each call was told and what the server answered; a session
  \* was begun while a socket of an earlier one had not reported its close;
  \* an open connection of this session was lost; handlers of onReconnect ran
  \* in a session that had lost none
  outcome, answer, overlapped, lost, spurious,
  \* bounds
  flips, sessions

netVars     == <<up, urlOk, flips>>
callVars    == <<requestId, pending, timers, outcome, answer>>
wireVars    == <<readyState, asked, inbox>>
sessionVars == <<stopped, hadFirstOpen, sessions, overlapped, lost, spurious>>
shownVars   == <<connected, reconnecting, attempt, banner, console>>
vars == <<netVars, callVars, wireVars, sessionVars, shownVars, ws,
          reconnectTimer>>

Calls == 1..MaxCalls

P == INSTANCE CallPromise

\* a socket that has reported its close is free to stand for a new one
ReadyStates == {"free", "connecting", "open", "closing"}

Snapshot == [connected |-> connected, reconnecting |-> reconnecting,
             attempt |-> attempt]

Init ==
  /\ up \in BOOLEAN /\ urlOk \in BOOLEAN
  /\ readyState = [s \in Sockets |-> "free"]
  /\ asked = [s \in Sockets |-> {}]
  /\ inbox = [s \in Sockets |-> {}]
  /\ ws = NoSocket
  /\ requestId = 0 /\ pending = {} /\ timers = {}
  /\ reconnectTimer = FALSE
  /\ connected = FALSE /\ reconnecting = FALSE /\ attempt = 0
  /\ stopped = FALSE /\ hadFirstOpen = FALSE
  /\ banner = Snapshot /\ console = FALSE
  /\ P!Init
  /\ overlapped = FALSE /\ lost = FALSE /\ spurious = FALSE
  /\ flips = 0 /\ sessions = 0

-----------------------------------------------------------------------------
(* Telling the subscribers.                                                *)

emitState == banner' = Snapshot'

notifyConnection == console' = connected' /\ emitState

\* what the banner over the page reads
BannerReads ==
  IF banner.connected THEN "nothing"
  ELSE IF banner.reconnecting THEN "reconnecting" ELSE "disconnected"

-----------------------------------------------------------------------------
(* Connecting.                                                             *)

\* MUTANT of ScheduleReconnect: asks whether it is reconnecting, which stays
\* so while the attempt is made, instead of whether the timer runs
ScheduleReconnect_flag ==
  IF reconnecting \/ stopped'
  THEN UNCHANGED <<reconnectTimer, reconnecting, attempt>>
  ELSE /\ reconnectTimer' = TRUE
       /\ reconnecting' = TRUE
       /\ attempt' = IF attempt < AttemptCap THEN attempt + 1 ELSE attempt

ScheduleReconnect ==
  IF reconnectTimer \/ stopped'
  THEN UNCHANGED <<reconnectTimer, reconnecting, attempt>>
  ELSE /\ reconnectTimer' = TRUE
       /\ reconnecting' = TRUE
       /\ attempt' = IF attempt < AttemptCap THEN attempt + 1 ELSE attempt

\* the WebSocket constructor gives a socket that is connecting
Open(s) ==
  /\ urlOk
  /\ readyState[s] = "free"
  /\ readyState' = [readyState EXCEPT ![s] = "connecting"]
  /\ ws' = s
  /\ UNCHANGED <<asked, inbox>>

\* connect(), called by the program: at its start, or after disconnect()
Connect ==
  /\ ws = NoSocket /\ ~reconnectTimer
  /\ sessions < MaxSessions
  /\ sessions' = sessions + 1
  /\ stopped' = FALSE
  /\ lost' = FALSE
  /\ overlapped' = (overlapped \/ \E s \in Sockets : readyState[s] # "free")
  /\ \/ /\ \E s \in Sockets : Open(s)
        /\ UNCHANGED <<reconnectTimer, shownVars>>
     \/ /\ ~urlOk
        /\ UNCHANGED <<wireVars, ws, connected, console>>
        /\ ScheduleReconnect
        /\ emitState
  /\ UNCHANGED <<netVars, callVars, hadFirstOpen, spurious>>

\* the reconnect timer runs out: connect() again.  A constructor that throws
\* sets the timer anew.
Reconnect ==
  /\ reconnectTimer
  /\ stopped' = FALSE
  /\ \/ /\ \E s \in Sockets : Open(s)
        /\ reconnectTimer' = FALSE
        /\ UNCHANGED shownVars
     \/ /\ ~urlOk
        /\ attempt' = IF attempt < AttemptCap THEN attempt + 1 ELSE attempt
        /\ reconnecting' = TRUE
        /\ UNCHANGED <<wireVars, ws, connected, console, reconnectTimer>>
        /\ emitState
  /\ UNCHANGED <<netVars, callVars, sessions, hadFirstOpen, overlapped, lost,
                 spurious>>

OnOpen(s) ==
  /\ up /\ readyState[s] = "connecting"
  /\ readyState' = [readyState EXCEPT ![s] = "open"]
  /\ hadFirstOpen' = TRUE
  /\ connected' = TRUE /\ reconnecting' = FALSE /\ attempt' = 0
  /\ notifyConnection
  /\ spurious' = (spurious \/ (hadFirstOpen /\ ~lost))
  /\ UNCHANGED <<netVars, callVars, asked, inbox, ws, reconnectTimer, stopped,
                 sessions, overlapped, lost>>

-----------------------------------------------------------------------------
(* Closing.                                                                *)

\* MUTANT of RejectPending: the timers of the rejected calls stay
RejectPending_timers ==
  /\ outcome' = [c \in Calls |-> IF c \in pending THEN "closed" ELSE outcome[c]]
  /\ pending' = {}
  /\ UNCHANGED timers

\* MUTANT of RejectPending: the calls are forgotten, their callers not told
RejectPending_forgets ==
  /\ pending' = {}
  /\ timers' = timers \ pending
  /\ UNCHANGED outcome

RejectPending ==
  /\ outcome' = [c \in Calls |-> IF c \in pending THEN "closed" ELSE outcome[c]]
  /\ pending' = {}
  /\ timers' = timers \ pending

\* MUTANT of OnClose: the subscribers are told before the field is cleared
OnClose_told(s) ==
  /\ \/ readyState[s] \in {"connecting", "open"} /\ ~up
     \/ readyState[s] = "closing"
  /\ readyState' = [readyState EXCEPT ![s] = "free"]
  /\ asked' = [asked EXCEPT ![s] = {}]
  /\ inbox' = [inbox EXCEPT ![s] = {}]
  /\ lost' = (lost \/ (readyState[s] = "open" /\ s = ws))
  /\ console' = connected
  /\ connected' = FALSE
  /\ RejectPending
  /\ stopped' = stopped
  /\ ScheduleReconnect
  /\ banner' = [Snapshot' EXCEPT !.connected = connected]
  /\ UNCHANGED <<netVars, requestId, answer, ws, hadFirstOpen, sessions,
                 overlapped, spurious>>

\* onclose of a socket that the server dropped, that could not be opened, or
\* that disconnect() closed.  What was on its way is lost.
OnClose(s) ==
  /\ \/ readyState[s] \in {"connecting", "open"} /\ ~up
     \/ readyState[s] = "closing"
  /\ readyState' = [readyState EXCEPT ![s] = "free"]
  /\ asked' = [asked EXCEPT ![s] = {}]
  /\ inbox' = [inbox EXCEPT ![s] = {}]
  /\ lost' = (lost \/ (readyState[s] = "open" /\ s = ws))
  /\ connected' = FALSE
  /\ RejectPending
  /\ stopped' = stopped
  /\ ScheduleReconnect
  /\ notifyConnection
  /\ UNCHANGED <<netVars, requestId, answer, ws, hadFirstOpen, sessions,
                 overlapped, spurious>>

\* a closing socket delivers no more messages
disconnect ==
  /\ sessions > 0
  /\ stopped' = TRUE
  /\ reconnectTimer' = FALSE
  /\ readyState' = [s \in Sockets |->
       IF s = ws /\ readyState[s] # "free" THEN "closing" ELSE readyState[s]]
  /\ inbox' = [s \in Sockets |-> IF s = ws THEN {} ELSE inbox[s]]
  /\ ws' = NoSocket
  /\ connected' = FALSE /\ reconnecting' = FALSE
  /\ hadFirstOpen' = FALSE
  /\ UNCHANGED <<netVars, callVars, asked, attempt, console, sessions,
                 overlapped, lost, spurious>>
  /\ emitState

-----------------------------------------------------------------------------
(* Calls.                                                                  *)

call ==
  /\ ws # NoSocket /\ readyState[ws] = "open"
  /\ requestId < MaxCalls
  /\ requestId' = requestId + 1
  /\ pending' = pending \union {requestId'}
  /\ timers' = timers \union {requestId'}
  /\ asked' = [asked EXCEPT ![ws] = @ \union {requestId'}]
  /\ outcome' = [outcome EXCEPT ![requestId'] = "waiting"]
  /\ UNCHANGED <<netVars, answer, readyState, inbox, sessionVars, shownVars,
                 ws, reconnectTimer>>

\* MUTANT of HandleMessage: the timer of an answered call stays
HandleMessage_timer(s, c) ==
  /\ readyState[s] = "open" /\ c \in inbox[s]
  /\ inbox' = [inbox EXCEPT ![s] = @ \ {c}]
  /\ IF c \in pending
     THEN /\ pending' = pending \ {c}
          /\ outcome' = [outcome EXCEPT ![c] = answer[c]]
     ELSE UNCHANGED <<pending, outcome>>
  /\ UNCHANGED <<netVars, requestId, answer, readyState, asked, sessionVars,
                 shownVars, ws, reconnectTimer, timers>>

\* an answer arrives; that of a call no longer pending is dropped
HandleMessage(s, c) ==
  /\ readyState[s] = "open" /\ c \in inbox[s]
  /\ inbox' = [inbox EXCEPT ![s] = @ \ {c}]
  /\ IF c \in pending
     THEN /\ timers' = timers \ {c}
          /\ pending' = pending \ {c}
          /\ outcome' = [outcome EXCEPT ![c] = answer[c]]
     ELSE UNCHANGED <<timers, pending, outcome>>
  /\ UNCHANGED <<netVars, requestId, answer, readyState, asked, sessionVars,
                 shownVars, ws, reconnectTimer>>

\* the timer does not ask whether the call is still pending
Timeout(c) ==
  /\ c \in timers
  /\ timers' = timers \ {c}
  /\ pending' = pending \ {c}
  /\ outcome' = [outcome EXCEPT ![c] = "timeout"]
  /\ UNCHANGED <<netVars, requestId, answer, wireVars, sessionVars, shownVars,
                 ws, reconnectTimer>>

-----------------------------------------------------------------------------
(* The server and the network.                                             *)

\* the server answers each call once, in any order, or not at all
Answer(s, c, a) ==
  /\ up /\ readyState[s] = "open" /\ c \in asked[s]
  /\ asked' = [asked EXCEPT ![s] = @ \ {c}]
  /\ inbox' = [inbox EXCEPT ![s] = @ \union {c}]
  /\ answer' = [answer EXCEPT ![c] = a]
  /\ UNCHANGED <<netVars, requestId, pending, timers, outcome, readyState,
                 sessionVars, shownVars, ws, reconnectTimer>>

Flip ==
  /\ flips < MaxFlips
  /\ flips' = flips + 1
  /\ up' = ~up
  /\ UNCHANGED <<urlOk, callVars, wireVars, sessionVars, shownVars, ws,
                 reconnectTimer>>

Next ==
  \/ Connect \/ Reconnect \/ disconnect \/ call \/ Flip
  \/ \E s \in Sockets :
       \/ OnOpen(s) \/ OnClose(s)
       \/ \E c \in Calls : \/ HandleMessage(s, c)
                           \/ \E a \in P!Answers : Answer(s, c, a)
  \/ \E c \in Calls : Timeout(c)

(* The browser runs its timers, and delivers what happens to a socket.     *)
(* The program owes no call, and the server no answer.                     *)
Fairness ==
  /\ WF_vars(Reconnect)
  /\ \A s \in Sockets : WF_vars(OnOpen(s)) /\ WF_vars(OnClose(s))
  /\ \A c \in Calls : WF_vars(Timeout(c))

Spec == Init /\ [][Next]_vars /\ Fairness

-----------------------------------------------------------------------------
(* Properties.                                                             *)

FlagsOK ==
  /\ up \in BOOLEAN /\ urlOk \in BOOLEAN
  /\ reconnectTimer \in BOOLEAN /\ connected \in BOOLEAN
  /\ reconnecting \in BOOLEAN /\ stopped \in BOOLEAN
  /\ hadFirstOpen \in BOOLEAN /\ console \in BOOLEAN
  /\ overlapped \in BOOLEAN /\ lost \in BOOLEAN /\ spurious \in BOOLEAN

(* The banner's type is what OneConnection says of it.                     *)
TypeOK ==
  /\ FlagsOK
  /\ readyState \in [Sockets -> ReadyStates]
  /\ asked \in [Sockets -> SUBSET Calls]
  /\ inbox \in [Sockets -> SUBSET Calls]
  /\ ws \in Sockets \union {NoSocket}
  /\ requestId \in 0..MaxCalls
  /\ pending \in SUBSET Calls /\ timers \in SUBSET Calls
  /\ attempt \in 0..AttemptCap
  /\ outcome \in [Calls -> P!Outcomes]
  /\ answer \in [Calls -> P!Answers \union {"none"}]
  /\ flips \in 0..MaxFlips /\ sessions \in 0..MaxSessions

(* A call waits exactly as long as it is pending, and its timer runs       *)
(* exactly as long: so whatever comes first, an answer, the timer or the   *)
(* close of the socket, settles it, and nothing settles it again.          *)
CallInv ==
  /\ timers = pending
  /\ pending = {c \in Calls : outcome[c] = "waiting"}
  /\ \A c \in Calls : outcome[c] = "unused" <=> c > requestId

(* Each call is asked on one socket at most, and an answer on its way is   *)
(* one the server gave: what a call is told is what it was answered.       *)
AnswerInv ==
  /\ \A s \in Sockets, c \in Calls :
       /\ c \in asked[s] => answer[c] = "none" /\ c <= requestId
       /\ c \in inbox[s] => answer[c] # "none"
       /\ \A t \in Sockets : c \in asked[s] \intersect asked[t] => s = t
  /\ \A c \in Calls : answer[c] # "none" => c <= requestId

(* Callers are promised one outcome per call, the one the backend gave or  *)
(* a rejection (WsClient.ts:226-235).                                      *)
KeepsPromise == P!Spec

(* What each call is told, and what keeps it from being told twice.        *)
IInv == TypeOK /\ CallInv /\ AnswerInv

(* A call is never left waiting with no socket it could be answered or     *)
(* rejected by.  The banner shows what the client holds to be so; and      *)
(* while no session overlaps the end of another, the client holds itself   *)
(* connected exactly while its socket, the only one it has, is open, runs  *)
(* the reconnect timer only when it has none and the banner says so, and   *)
(* the console agrees but for the time between disconnect() and the close  *)
(* it waits for.                                                           *)
OneConnection ==
  /\ pending # {} => \E s \in Sockets : readyState[s] \in {"open", "closing"}
  /\ banner = Snapshot
  /\ ~overlapped =>
       /\ connected <=> (ws # NoSocket /\ readyState[ws] = "open")
       /\ reconnectTimer => BannerReads = "reconnecting"
       /\ console # connected => \E s \in Sockets : readyState[s] = "closing"
       /\ \A s \in Sockets :
            /\ readyState[s] # "free" => s = ws \/ readyState[s] = "closing"
            /\ reconnectTimer => readyState[s] = "free"
            /\ readyState[s] = "closing" => ws = NoSocket /\ stopped

(* A client that is not stopped comes back once the server can be reached  *)
(* for good, however often it failed before.                               *)
ComesBack ==
  <>[](up /\ urlOk /\ ~stopped /\ sessions > 0) => <>[]connected

(* No call waits for ever: not on a server that never answers, and not on  *)
(* a connection that is gone.                                              *)
EveryCallSettles ==
  \A c \in Calls : outcome[c] = "waiting" ~> outcome[c] # "waiting"

(* WsClient.ts:361: "Explicit disconnect ends the session; a later         *)
(* connect() is a fresh one, not a reconnect, so don't fire reconcile      *)
(* handlers."                                                              *)
FreshIsNoReconnect == ~spurious
=============================================================================
