--------------------------- MODULE PreviewsProofs ---------------------------
(***************************************************************************)
(* Proof that a thumbnail at rest is of the node's path and, once the      *)
(* client has seen the run that wrote the file last at work on the node,   *)
(* of that run.                                                            *)
(*                                                                         *)
(* Two invariants.  The first is about what is on its way from the worker  *)
(* to the client: it says that no event of a run the client has seen past  *)
(* is shown, so a node shown done, when the run last seen at it is the     *)
(* latest, is done, and its file will not be written again in that run.    *)
(* The second, about the hook, rests on that.                              *)
(***************************************************************************)
EXTENDS Previews, SequenceTheorems, TLAPS

-----------------------------------------------------------------------------
(* What is on its way.                                                     *)

EntryStatuses == {"none", "skipped", "running", "done", "error"}

PreviewMessages ==
  [type : {"started", "status", "snapshot"}, run : Nat, status : EntryStatuses]

LinkTypeOK ==
  /\ incoming \in Seq(PreviewMessages) /\ broadcasts \in Seq(PreviewMessages)
  /\ \A i \in 1..Len(broadcasts) : broadcasts[i].type = "status"
  /\ runs \in Nat /\ seen \in Nat /\ currentRunId \in Nat
  /\ onDisk \in [Files -> Nat]
  /\ entry \in EntryStatuses

\* nothing is of a run that has not started
StartedInv ==
  /\ seen <= runs
  /\ \A i \in 1..Len(incoming) : incoming[i].run <= runs
  /\ \A i \in 1..Len(broadcasts) : broadcasts[i].run <= runs

\* m may come ahead of n: an event deferred before a run was named is sent
\* after its name, and in nothing else is the order of the runs broken
Ahead(m, n) == m.type = "status" \/ n.type # "status" => m.run <= n.run

InOrder(q) == \A i, j \in 1..Len(q) : i < j => Ahead(q[i], q[j])

OrderInv ==
  /\ InOrder(incoming) /\ InOrder(broadcasts)
  /\ \A i \in 1..Len(incoming), j \in 1..Len(broadcasts) :
       Ahead(incoming[i], broadcasts[j])

\* no run earlier than the one seen is named, and the events of one are
\* either not to come or filtered
SeenInv ==
  /\ \A i \in 1..Len(incoming) : incoming[i].type # "status" => incoming[i].run >= seen
  /\ \/ currentRunId >= seen
     \/ /\ \A i \in 1..Len(incoming) : incoming[i].run >= seen
        /\ \A i \in 1..Len(broadcasts) : broadcasts[i].run >= seen

\* m says that the latest run is done with the node
SaysDone(m) == m.status = "done" /\ m.run = runs

\* and so it is, or the node is shown done though the client has seen that run
DoneInv ==
  \/ worker = "ended"
  \/ /\ \A i \in 1..Len(incoming) : ~SaysDone(incoming[i])
     /\ \A i \in 1..Len(broadcasts) : ~SaysDone(broadcasts[i])
     /\ entry # "done"
     /\ status = "done" => seen # runs

WireInv == LinkTypeOK /\ StartedInv /\ OrderInv /\ SeenInv /\ DoneInv

(* At first nothing is on its way.                                         *)
LEMMA WireInitInv == PreviewInit => WireInv
<1> SUFFICES ASSUME PreviewInit PROVE WireInv
  OBVIOUS
<1>1. /\ incoming = <<>> /\ broadcasts = <<>> /\ runs = 0 /\ seen = 0
      /\ currentRunId = 0 /\ worker = "ended" /\ entry = "none"
      /\ onDisk = [f \in Files |-> 0]
  BY DEF PreviewInit
<1>2. 1..Len(<<>>) = {}
  BY EmptySeq
<1>3. LinkTypeOK
  BY <1>1, <1>2, EmptySeq DEF LinkTypeOK, EntryStatuses
<1>4. StartedInv /\ OrderInv /\ SeenInv /\ DoneInv
  BY <1>1, <1>2 DEF StartedInv, OrderInv, InOrder, SeenInv, DoneInv
<1>5. QED
  BY <1>3, <1>4 DEF WireInv

(* What a message appended to a queue leaves of it.                        *)
LEMMA Appended ==
  ASSUME NEW q \in Seq(PreviewMessages), NEW m \in PreviewMessages
  PROVE  /\ Append(q, m) \in Seq(PreviewMessages)
         /\ Len(q) \in Nat
         /\ Len(Append(q, m)) = Len(q) + 1
         /\ \A i \in 1..Len(q) : Append(q, m)[i] = q[i]
         /\ Append(q, m)[Len(q) + 1] = m
  BY AppendProperties, LenProperties

(* What taking the head of a queue leaves of it.                           *)
LEMMA Taken ==
  ASSUME NEW q \in Seq(PreviewMessages), q # <<>>
  PROVE  /\ Tail(q) \in Seq(PreviewMessages)
         /\ Len(q) \in Nat /\ Len(q) >= 1
         /\ Len(Tail(q)) = Len(q) - 1
         /\ \A i \in 1..Len(Tail(q)) : Tail(q)[i] = q[i + 1]
         /\ Head(q) = q[1]
         /\ Head(q) \in PreviewMessages
  BY HeadTailProperties, LenProperties, EmptySeq

(* Every message in a queue names a run.                                   *)
LEMMA RunsAreNumbers ==
  ASSUME LinkTypeOK
  PROVE  /\ \A i \in 1..Len(incoming) : incoming[i].run \in Nat
         /\ \A i \in 1..Len(broadcasts) : broadcasts[i].run \in Nat
<1>1. ASSUME NEW q \in Seq(PreviewMessages), NEW i \in 1..Len(q)
      PROVE  q[i].run \in Nat
  <2>1. q[i] \in PreviewMessages
    BY <1>1
  <2>2. QED
    BY <2>1 DEF PreviewMessages
<1>2. QED
  BY <1>1 DEF LinkTypeOK

(* What dropping the first k of a queue leaves of it.                      *)
LEMMA Dropped ==
  ASSUME NEW q \in Seq(PreviewMessages), NEW k \in 0..Len(q)
  PROVE  LET r == SubSeq(q, k + 1, Len(q)) IN
         /\ r \in Seq(PreviewMessages)
         /\ k \in Nat /\ Len(q) \in Nat
         /\ Len(r) = Len(q) - k
         /\ \A i \in 1..Len(r) : r[i] = q[i + k]
<1>1. Len(q) \in Nat /\ k \in Nat
  BY LenProperties
<1>2. CASE k = Len(q)
  <2>1. SubSeq(q, k + 1, Len(q)) = <<>>
    BY <1>1, <1>2, SubSeqProperties, EmptySeq
  <2>2. QED
    BY <1>1, <1>2, <2>1, EmptySeq
<1>3. CASE k < Len(q)
  BY <1>1, <1>3, SubSeqProperties
<1>4. QED
  BY <1>1, <1>2, <1>3

\* the parts that speak of the queues and of what was seen
QueuesInv == LinkTypeOK /\ StartedInv /\ OrderInv /\ SeenInv

(* The name of the latest run is sent.                                     *)
LEMMA NameSent ==
  ASSUME QueuesInv, NEW m \in PreviewMessages, m.type # "status",
         incoming' = Append(incoming, m), broadcasts' = broadcasts,
         runs' \in Nat, runs <= runs', m.run = runs', entry' \in EntryStatuses,
         UNCHANGED <<seen, currentRunId, onDisk>>
  PROVE  QueuesInv'
<1>0. LinkTypeOK /\ StartedInv /\ OrderInv /\ SeenInv
  BY DEF QueuesInv
<1>1. incoming \in Seq(PreviewMessages)
  BY <1>0 DEF LinkTypeOK
<1>2. /\ incoming' \in Seq(PreviewMessages)
      /\ Len(incoming) \in Nat /\ Len(incoming') = Len(incoming) + 1
      /\ \A i \in 1..Len(incoming) : incoming'[i] = incoming[i]
      /\ incoming'[Len(incoming) + 1] = m
  BY <1>1, Appended
<1>3. \A i \in 1..Len(incoming') :
        i = Len(incoming) + 1 \/ i \in 1..Len(incoming)
  BY <1>2
<1>4. /\ \A i \in 1..Len(incoming) : incoming[i].run \in Nat
      /\ \A i \in 1..Len(broadcasts) : broadcasts[i].run \in Nat
  BY <1>0, RunsAreNumbers
<1>5. LinkTypeOK'
  BY <1>0, <1>2 DEF LinkTypeOK
<1>6. StartedInv'
  <2>1. seen' <= runs'
    BY <1>0 DEF StartedInv, LinkTypeOK
  <2>2. \A i \in 1..Len(incoming') : incoming'[i].run <= runs'
    BY <1>0, <1>2, <1>3, <1>4 DEF StartedInv, LinkTypeOK
  <2>3. \A i \in 1..Len(broadcasts) : broadcasts[i].run <= runs'
    BY <1>0, <1>4 DEF StartedInv, LinkTypeOK
  <2>4. QED
    BY <2>1, <2>2, <2>3 DEF StartedInv
<1>7. OrderInv'
  <2>1. \A i \in 1..Len(incoming) : incoming[i].run <= m.run
    BY <1>0, <1>4 DEF StartedInv, LinkTypeOK
  <2>2. InOrder(incoming')
    BY <1>0, <1>2, <1>3, <2>1 DEF InOrder, OrderInv, Ahead
  <2>3. \A j : Ahead(m, broadcasts[j]) \/ j \notin 1..Len(broadcasts)
    BY <1>0 DEF Ahead, LinkTypeOK
  <2>4. QED
    BY <1>0, <1>2, <1>3, <2>2, <2>3 DEF OrderInv
<1>8. SeenInv'
  <2>1. m.run >= seen
    BY <1>0 DEF StartedInv, LinkTypeOK
  <2>2. QED
    BY <1>0, <1>2, <1>3, <2>1 DEF SeenInv
<1>9. QED
  BY <1>5, <1>6, <1>7, <1>8 DEF QueuesInv

(* The worker reports a status of the latest run.                          *)
LEMMA StatusReported ==
  ASSUME QueuesInv, NEW s \in EntryStatuses, Notify(s)
  PROVE  QueuesInv'
<1> DEFINE m == Message("status", runs, s)
<1>0. LinkTypeOK /\ StartedInv /\ OrderInv /\ SeenInv
  BY DEF QueuesInv
<1>1. /\ broadcasts \in Seq(PreviewMessages) /\ incoming \in Seq(PreviewMessages)
      /\ runs \in Nat /\ seen \in Nat
  BY <1>0 DEF LinkTypeOK
<1>2. m \in PreviewMessages /\ m.type = "status" /\ m.run = runs
  BY <1>1 DEF Message, PreviewMessages
<1>3. /\ broadcasts' = Append(broadcasts, m) /\ entry' = s
      /\ UNCHANGED <<incoming, runs, seen, currentRunId, onDisk>>
  BY DEF Notify, nodeVars
<1> HIDE DEF m
<1>4. /\ broadcasts' \in Seq(PreviewMessages)
      /\ Len(broadcasts) \in Nat /\ Len(broadcasts') = Len(broadcasts) + 1
      /\ \A i \in 1..Len(broadcasts) : broadcasts'[i] = broadcasts[i]
      /\ broadcasts'[Len(broadcasts) + 1] = m
  BY <1>1, <1>2, <1>3, Appended
<1>5. \A i \in 1..Len(broadcasts') :
        i = Len(broadcasts) + 1 \/ i \in 1..Len(broadcasts)
  BY <1>4
<1>6. LinkTypeOK'
  BY <1>0, <1>2, <1>3, <1>4, <1>5 DEF LinkTypeOK
<1>7. StartedInv'
  BY <1>0, <1>1, <1>2, <1>3, <1>4, <1>5 DEF StartedInv
<1>8. OrderInv'
  <2>1. InOrder(broadcasts')
    BY <1>0, <1>2, <1>4, <1>5 DEF InOrder, OrderInv, StartedInv, Ahead
  <2>2. \A i \in 1..Len(incoming) : Ahead(incoming[i], m)
    BY <1>0, <1>2 DEF StartedInv, Ahead
  <2>3. QED
    BY <1>0, <1>3, <1>4, <1>5, <2>1, <2>2 DEF OrderInv
<1>9. SeenInv'
  <2>1. m.run >= seen
    BY <1>0, <1>1, <1>2 DEF StartedInv
  <2>2. QED
    BY <1>0, <1>3, <1>4, <1>5, <2>1 DEF SeenInv
<1>10. QED
  BY <1>6, <1>7, <1>8, <1>9 DEF QueuesInv

(* A deferred event is sent.                                               *)
LEMMA EventPublished == ASSUME QueuesInv, PublishEvent PROVE QueuesInv'
<1> DEFINE m == Head(broadcasts)
<1>0. LinkTypeOK /\ StartedInv /\ OrderInv /\ SeenInv
  BY DEF QueuesInv
<1>1. /\ broadcasts \in Seq(PreviewMessages) /\ incoming \in Seq(PreviewMessages)
      /\ broadcasts # <<>> /\ broadcasts' = Tail(broadcasts)
      /\ incoming' = Append(incoming, m)
      /\ UNCHANGED <<runs, entry, seen, currentRunId, onDisk>>
  BY <1>0 DEF LinkTypeOK, PublishEvent, Transmit, nodeVars, serverVars
<1>2. /\ broadcasts' \in Seq(PreviewMessages)
      /\ Len(broadcasts) \in Nat /\ Len(broadcasts) >= 1
      /\ Len(broadcasts') = Len(broadcasts) - 1
      /\ \A i \in 1..Len(broadcasts') : broadcasts'[i] = broadcasts[i + 1]
      /\ m = broadcasts[1] /\ m \in PreviewMessages
  BY <1>1, Taken
<1> HIDE DEF m
<1>3. /\ incoming' \in Seq(PreviewMessages)
      /\ Len(incoming) \in Nat /\ Len(incoming') = Len(incoming) + 1
      /\ \A i \in 1..Len(incoming) : incoming'[i] = incoming[i]
      /\ incoming'[Len(incoming) + 1] = m
  BY <1>1, <1>2, Appended
<1>4. \A i \in 1..Len(incoming') :
        i = Len(incoming) + 1 \/ i \in 1..Len(incoming)
  BY <1>3
<1>5. /\ 1 \in 1..Len(broadcasts) /\ m.type = "status"
      /\ \A i \in 1..Len(broadcasts') :
           i + 1 \in 1..Len(broadcasts) /\ 1 < i + 1
  BY <1>0, <1>2 DEF LinkTypeOK
<1>6. LinkTypeOK'
  BY <1>0, <1>1, <1>2, <1>3, <1>5 DEF LinkTypeOK
<1>7. StartedInv'
  BY <1>0, <1>1, <1>2, <1>3, <1>4, <1>5 DEF StartedInv
<1>8. OrderInv'
  <2>1. InOrder(broadcasts')
    BY <1>0, <1>2, <1>5 DEF InOrder, OrderInv
  <2>2. InOrder(incoming')
    BY <1>0, <1>2, <1>3, <1>4, <1>5 DEF InOrder, OrderInv
  <2>3. \A j \in 1..Len(broadcasts') : Ahead(m, broadcasts'[j])
    BY <1>0, <1>2, <1>5 DEF InOrder, OrderInv
  <2>4. \A i \in 1..Len(incoming), j \in 1..Len(broadcasts') :
          Ahead(incoming[i], broadcasts'[j])
    BY <1>0, <1>2, <1>5 DEF OrderInv
  <2>5. QED
    BY <1>3, <1>4, <2>1, <2>2, <2>3, <2>4 DEF OrderInv
<1>9. SeenInv'
  BY <1>0, <1>1, <1>2, <1>3, <1>4, <1>5 DEF SeenInv
<1>10. QED
  BY <1>6, <1>7, <1>8, <1>9 DEF QueuesInv

(* What an outage leaves.                                                  *)
LEMMA OutageQueues == ASSUME QueuesInv, Reconnects PROVE QueuesInv'
<1>0. LinkTypeOK /\ StartedInv /\ OrderInv /\ SeenInv
  BY DEF QueuesInv
<1>1. PICK k \in 0..Len(broadcasts) :
        broadcasts' = SubSeq(broadcasts, k + 1, Len(broadcasts))
  BY DEF Reconnects
<1>2. /\ incoming' = <<>>
      /\ UNCHANGED <<runs, entry, seen, currentRunId, onDisk>>
  BY DEF Reconnects, nodeVars, serverVars
<1>3. broadcasts \in Seq(PreviewMessages)
  BY <1>0 DEF LinkTypeOK
<1>4. /\ broadcasts' \in Seq(PreviewMessages)
      /\ k \in Nat /\ Len(broadcasts) \in Nat
      /\ Len(broadcasts') = Len(broadcasts) - k
      /\ \A i \in 1..Len(broadcasts') : broadcasts'[i] = broadcasts[i + k]
  BY <1>1, <1>3, Dropped
<1>5. \A i \in 1..Len(broadcasts') : i + k \in 1..Len(broadcasts)
  BY <1>4
<1>6. /\ incoming' \in Seq(PreviewMessages) /\ 1..Len(incoming') = {}
  BY <1>2, EmptySeq
<1>7. LinkTypeOK'
  BY <1>0, <1>2, <1>4, <1>5, <1>6 DEF LinkTypeOK
<1>8. StartedInv'
  BY <1>0, <1>2, <1>4, <1>5, <1>6 DEF StartedInv
<1>9. OrderInv'
  <2>1. \A i, j \in 1..Len(broadcasts') : i < j => i + k < j + k
    BY <1>4
  <2>2. InOrder(broadcasts')
    BY <1>0, <1>4, <1>5, <2>1 DEF InOrder, OrderInv
  <2>3. QED
    BY <1>6, <2>2 DEF OrderInv, InOrder
<1>10. SeenInv'
  BY <1>0, <1>2, <1>4, <1>5, <1>6 DEF SeenInv
<1>11. QED
  BY <1>7, <1>8, <1>9, <1>10 DEF QueuesInv

(* The client takes a message in: what it shows is of a run no earlier     *)
(* than the one it has seen.                                               *)
LEMMA MessageTaken == ASSUME WireInv, TakesIn PROVE WireInv'
<1> DEFINE m == Head(incoming)
<1>0. LinkTypeOK /\ StartedInv /\ OrderInv /\ SeenInv /\ DoneInv
  BY DEF WireInv
<1>1. /\ incoming \in Seq(PreviewMessages)
      /\ incoming # <<>> /\ incoming' = Tail(incoming)
      /\ UNCHANGED <<broadcasts, runs, entry, worker, onDisk>>
  BY <1>0 DEF LinkTypeOK, TakesIn, serverVars
<1>2. /\ incoming' \in Seq(PreviewMessages)
      /\ Len(incoming) \in Nat /\ Len(incoming) >= 1
      /\ Len(incoming') = Len(incoming) - 1
      /\ \A i \in 1..Len(incoming') : incoming'[i] = incoming[i + 1]
      /\ m = incoming[1] /\ m \in PreviewMessages
  BY <1>1, Taken
<1>3. /\ 1 \in 1..Len(incoming)
      /\ \A i \in 1..Len(incoming') :
           i + 1 \in 1..Len(incoming) /\ 1 < i + 1
  BY <1>2
<1>4. /\ m.run \in Nat /\ m.run <= runs
      /\ runs \in Nat /\ seen \in Nat /\ currentRunId \in Nat /\ seen <= runs
  BY <1>0, <1>2, <1>3 DEF PreviewMessages, StartedInv, LinkTypeOK
<1>5. \/ /\ m.type = "status" /\ currentRunId \in {0, m.run}
         /\ currentRunId' = currentRunId /\ updateNodeStatus(m)
      \/ /\ m.type # "status" /\ currentRunId' = m.run
         /\ updateNodeStatus(m) \/ UNCHANGED <<status, seen>>
      \/ UNCHANGED <<status, seen, currentRunId>>
  BY DEF TakesIn
<1> HIDE DEF m
<1>6. ASSUME ~UNCHANGED <<status, seen>> PROVE m.run >= seen
  <2>1. CASE m.type = "status"
    BY <1>0, <1>2, <1>3, <1>4, <1>5, <1>6, <2>1 DEF SeenInv
  <2>2. CASE m.type # "status"
    BY <1>0, <1>2, <1>3, <2>2 DEF SeenInv
  <2>3. QED
    BY <2>1, <2>2
<1>7. seen' = seen \/ (seen' = m.run /\ status' # "done")
  BY <1>5 DEF updateNodeStatus
<1>8. LinkTypeOK'
  BY <1>0, <1>1, <1>2, <1>4, <1>5, <1>7 DEF LinkTypeOK
<1>9. StartedInv'
  BY <1>0, <1>1, <1>2, <1>3, <1>4, <1>7 DEF StartedInv
<1>10. OrderInv'
  <2>1. \A i, j \in 1..Len(incoming') : i < j => i + 1 < j + 1
    BY <1>2
  <2>2. InOrder(incoming')
    BY <1>0, <1>2, <1>3, <2>1 DEF OrderInv, InOrder
  <2>3. QED
    BY <1>0, <1>1, <1>2, <1>3, <2>2 DEF OrderInv, InOrder
<1>11. SeenInv'
  <2>1. /\ \A i \in 1..Len(incoming') : Ahead(m, incoming'[i])
        /\ \A i \in 1..Len(broadcasts) : Ahead(m, broadcasts[i])
    BY <1>0, <1>2, <1>3 DEF OrderInv, InOrder
  <2>2. CASE UNCHANGED <<seen, currentRunId>>
    BY <1>0, <1>1, <1>2, <1>3, <2>2 DEF SeenInv
  <2>3. CASE m.type = "status" /\ seen' = m.run
    BY <1>1, <2>1, <2>3 DEF SeenInv, Ahead
  <2>4. CASE m.type # "status" /\ currentRunId' = m.run
    <3>1. m.run >= seen
      BY <1>0, <1>2, <1>3, <2>4 DEF SeenInv
    <3>2. \A i \in 1..Len(incoming') : incoming'[i].type # "status" =>
            incoming'[i].run >= m.run /\ incoming'[i].run >= seen
      BY <1>0, <1>2, <1>3, <1>4, <2>1, <2>4 DEF SeenInv, Ahead
    <3>3. QED
      BY <1>4, <1>7, <2>4, <3>1, <3>2 DEF SeenInv
  <2>5. QED
    BY <1>5, <1>7, <2>2, <2>3, <2>4
<1>12. DoneInv'
  <2> SUFFICES ASSUME worker # "ended" PROVE DoneInv'
    BY <1>1 DEF DoneInv
  <2>1. /\ \A i \in 1..Len(incoming) : ~SaysDone(incoming[i])
        /\ \A i \in 1..Len(broadcasts) : ~SaysDone(broadcasts[i])
        /\ entry # "done" /\ (status = "done" => seen # runs)
    BY <1>0 DEF DoneInv
  <2>2. /\ \A i \in 1..Len(incoming') : ~SaysDone(incoming[i + 1])
        /\ ~SaysDone(m)
    BY <1>2, <1>3, <2>1
  <2>3. status' = "done" => seen' # runs
    <3>1. CASE UNCHANGED <<status, seen>>
      BY <2>1, <3>1
    <3>2. CASE ~UNCHANGED <<status, seen>> /\ status' = "done"
      <4>1. m.status = "done" /\ seen' = seen
        BY <1>5, <3>2 DEF updateNodeStatus
      <4>2. m.run # runs
        BY <2>2, <4>1 DEF SaysDone
      <4>3. m.run >= seen
        BY <1>6, <3>2
      <4>4. QED
        BY <1>4, <4>1, <4>2, <4>3
    <3>3. QED
      BY <3>1, <3>2
  <2>4. /\ \A i \in 1..Len(incoming') : ~SaysDone(incoming[i])'
        /\ \A i \in 1..Len(broadcasts') : ~SaysDone(broadcasts[i])'
    BY <1>1, <1>2, <2>1, <2>2 DEF SaysDone
  <2>5. QED
    BY <1>1, <2>1, <2>3, <2>4 DEF DoneInv
<1>13. QED
  BY <1>8, <1>9, <1>10, <1>11, <1>12 DEF WireInv

(* Every other step keeps DoneInv: only a worker at the node says it is    *)
(* done, and then it has ended with it.                                    *)
LEMMA DoneKept ==
  ASSUME WireInv, QueuesInv', worker' # "ended" => worker # "ended",
         entry' = entry \/ entry' # "done",
         UNCHANGED <<status, seen, runs>>,
         \A i \in 1..Len(incoming') :
           \/ ~SaysDone(incoming'[i])
           \/ \E j \in 1..Len(incoming) : incoming'[i] = incoming[j]
           \/ \E j \in 1..Len(broadcasts) : incoming'[i] = broadcasts[j],
         \A i \in 1..Len(broadcasts') :
           \/ ~SaysDone(broadcasts'[i])
           \/ \E j \in 1..Len(broadcasts) : broadcasts'[i] = broadcasts[j]
  PROVE  DoneInv'
<1> SUFFICES ASSUME worker' # "ended" PROVE DoneInv'
  BY DEF DoneInv
<1>1. /\ \A i \in 1..Len(incoming) : ~SaysDone(incoming[i])
      /\ \A i \in 1..Len(broadcasts) : ~SaysDone(broadcasts[i])
      /\ entry # "done" /\ (status = "done" => seen # runs)
  BY DEF WireInv, DoneInv
<1>2. /\ \A i \in 1..Len(incoming') : ~SaysDone(incoming'[i])
      /\ \A i \in 1..Len(broadcasts') : ~SaysDone(broadcasts'[i])
  BY <1>1
<1>3. /\ \A i \in 1..Len(incoming') : ~SaysDone(incoming[i])'
      /\ \A i \in 1..Len(broadcasts') : ~SaysDone(broadcasts[i])'
  BY <1>2 DEF SaysDone
<1>4. QED
  BY <1>1, <1>3 DEF DoneInv

(* A run starts: what is on its way is of the runs before it.              *)
LEMMA StartKeeps == ASSUME WireInv, RunStarts PROVE WireInv'
<1> DEFINE m == Message("started", runs', "none")
<1>0. LinkTypeOK /\ StartedInv /\ QueuesInv
  BY DEF WireInv, QueuesInv
<1>1. /\ runs \in Nat /\ runs' = runs + 1 /\ entry' = "none"
      /\ incoming' = Append(incoming, m)
      /\ UNCHANGED <<broadcasts, seen, currentRunId, onDisk, status>>
  BY <1>0 DEF RunStarts, Transmit, LinkTypeOK, nodeVars
<1>2. m \in PreviewMessages /\ m.type # "status" /\ m.run = runs' /\ m.status = "none"
  BY <1>1 DEF Message, PreviewMessages, EntryStatuses
<1> HIDE DEF m
<1>3. QueuesInv'
  BY <1>0, <1>1, <1>2, NameSent DEF EntryStatuses
<1>4. DoneInv'
  <2>1. incoming \in Seq(PreviewMessages)
    BY <1>0 DEF LinkTypeOK
  <2>2. /\ Len(incoming) \in Nat /\ Len(incoming') = Len(incoming) + 1
        /\ \A i \in 1..Len(incoming) : incoming'[i] = incoming[i]
        /\ incoming'[Len(incoming) + 1] = m
    BY <1>1, <1>2, <2>1, Appended
  <2>3. \A i \in 1..Len(incoming') :
          i = Len(incoming) + 1 \/ i \in 1..Len(incoming)
    BY <2>2
  <2>4. /\ \A i \in 1..Len(incoming) : incoming[i].run \in Nat
        /\ \A i \in 1..Len(broadcasts) : broadcasts[i].run \in Nat
    BY <1>0, RunsAreNumbers
  <2>5. \A i \in 1..Len(incoming') : ~SaysDone(incoming[i])'
    <3>1. \A i \in 1..Len(incoming) : incoming[i].run # runs'
      BY <1>0, <1>1, <2>4 DEF StartedInv
    <3>2. QED
      BY <1>2, <2>2, <2>3, <3>1 DEF SaysDone
  <2>6. \A i \in 1..Len(broadcasts') : ~SaysDone(broadcasts[i])'
    <3>1. \A i \in 1..Len(broadcasts) : broadcasts[i].run # runs'
      BY <1>0, <1>1, <2>4 DEF StartedInv
    <3>2. QED
      BY <1>1, <3>1 DEF SaysDone
  <2>7. seen' # runs'
    BY <1>0, <1>1 DEF StartedInv, LinkTypeOK
  <2>8. QED
    BY <1>1, <2>5, <2>6, <2>7 DEF DoneInv
<1>5. QED
  BY <1>3, <1>4 DEF WireInv, QueuesInv

(* The worker reports, and is then done with the node or not.              *)
LEMMA NotifyKeeps ==
  ASSUME WireInv, NEW s \in EntryStatuses, Notify(s),
         worker' = "ended" \/ (worker # "ended" /\ s # "done")
  PROVE  WireInv'
<1>1. QueuesInv
  BY DEF WireInv, QueuesInv
<1>2. QueuesInv'
  BY <1>1, StatusReported
<1>3. CASE worker' = "ended"
  BY <1>2, <1>3 DEF WireInv, QueuesInv, DoneInv
<1>4. CASE worker # "ended" /\ s # "done"
  <2> DEFINE m == Message("status", runs, s)
  <2>1. broadcasts \in Seq(PreviewMessages) /\ runs \in Nat
    BY <1>1 DEF QueuesInv, LinkTypeOK
  <2>2. m \in PreviewMessages /\ ~SaysDone(m)
    BY <1>4, <2>1 DEF Message, PreviewMessages, SaysDone
  <2>3. /\ broadcasts' = Append(broadcasts, m) /\ entry' = s
        /\ UNCHANGED <<incoming, status, seen, runs>>
    BY DEF Notify, nodeVars
  <2> HIDE DEF m
  <2>4. /\ Len(broadcasts) \in Nat /\ Len(broadcasts') = Len(broadcasts) + 1
        /\ \A i \in 1..Len(broadcasts) : broadcasts'[i] = broadcasts[i]
        /\ broadcasts'[Len(broadcasts) + 1] = m
    BY <2>1, <2>2, <2>3, Appended
  <2>5. \A i \in 1..Len(broadcasts') :
          \/ ~SaysDone(broadcasts'[i])
          \/ \E j \in 1..Len(broadcasts) : broadcasts'[i] = broadcasts[j]
    <3>1. \A i \in 1..Len(broadcasts') :
            i = Len(broadcasts) + 1 \/ i \in 1..Len(broadcasts)
      BY <2>4
    <3>2. QED
      BY <2>2, <2>4, <3>1
  <2>6. \A i \in 1..Len(incoming') :
          \E j \in 1..Len(incoming) : incoming'[i] = incoming[j]
    BY <2>3
  <2>7. DoneInv'
    BY <1>2, <1>4, <2>3, <2>5, <2>6, DoneKept
  <2>8. QED
    BY <1>2, <2>7 DEF WireInv, QueuesInv
<1>5. QED
  BY <1>3, <1>4

(* The link brings, loses or answers.                                      *)
LEMMA ConnectionKeeps == ASSUME WireInv, Connection PROVE WireInv'
<1>0. LinkTypeOK /\ QueuesInv
  BY DEF WireInv, QueuesInv
<1>1. broadcasts \in Seq(PreviewMessages) /\ incoming \in Seq(PreviewMessages)
  BY <1>0 DEF LinkTypeOK
<1>2. UNCHANGED <<status, seen, currentRunId, runs, worker, entry, onDisk>>
  BY DEF Connection, PublishEvent, Reconnects, AnswersState, nodeVars, serverVars
<1>3. ASSUME QueuesInv', DoneInv' PROVE WireInv'
  BY <1>3 DEF WireInv, QueuesInv
<1>4. CASE PublishEvent
  <2> DEFINE m == Head(broadcasts)
  <2>1. QueuesInv'
    BY <1>0, <1>4, EventPublished
  <2>2. broadcasts # <<>> /\ broadcasts' = Tail(broadcasts)
        /\ incoming' = Append(incoming, m)
    BY <1>4 DEF PublishEvent, Transmit
  <2>3. /\ Len(broadcasts) \in Nat /\ Len(broadcasts) >= 1
        /\ Len(broadcasts') = Len(broadcasts) - 1
        /\ \A i \in 1..Len(broadcasts') : broadcasts'[i] = broadcasts[i + 1]
        /\ m = broadcasts[1] /\ m \in PreviewMessages
    BY <1>1, <2>2, Taken
  <2> HIDE DEF m
  <2>4. /\ Len(incoming) \in Nat /\ Len(incoming') = Len(incoming) + 1
        /\ \A i \in 1..Len(incoming) : incoming'[i] = incoming[i]
        /\ incoming'[Len(incoming) + 1] = m
    BY <1>1, <2>2, <2>3, Appended
  <2>5. /\ 1 \in 1..Len(broadcasts)
        /\ \A i \in 1..Len(broadcasts') : i + 1 \in 1..Len(broadcasts)
        /\ \A i \in 1..Len(incoming') :
             i = Len(incoming) + 1 \/ i \in 1..Len(incoming)
    BY <2>3, <2>4
  <2>6. \A i \in 1..Len(incoming') :
          \/ \E j \in 1..Len(incoming) : incoming'[i] = incoming[j]
          \/ \E j \in 1..Len(broadcasts) : incoming'[i] = broadcasts[j]
    BY <2>3, <2>4, <2>5
  <2>7. \A i \in 1..Len(broadcasts') :
          \E j \in 1..Len(broadcasts) : broadcasts'[i] = broadcasts[j]
    BY <2>3, <2>5
  <2>8. DoneInv'
    BY <1>2, <2>1, <2>6, <2>7, DoneKept
  <2>9. QED
    BY <1>3, <2>1, <2>8
<1>5. CASE Reconnects
  <2>1. QueuesInv'
    BY <1>0, <1>5, OutageQueues
  <2>2. PICK k \in 0..Len(broadcasts) :
          broadcasts' = SubSeq(broadcasts, k + 1, Len(broadcasts))
    BY <1>5 DEF Reconnects
  <2>3. /\ k \in Nat /\ Len(broadcasts) \in Nat
        /\ Len(broadcasts') = Len(broadcasts) - k
        /\ \A i \in 1..Len(broadcasts') : broadcasts'[i] = broadcasts[i + k]
    BY <1>1, <2>2, Dropped
  <2>4. \A i \in 1..Len(broadcasts') : i + k \in 1..Len(broadcasts)
    BY <2>3
  <2>5. \A i \in 1..Len(broadcasts') :
          \E j \in 1..Len(broadcasts) : broadcasts'[i] = broadcasts[j]
    BY <2>3, <2>4
  <2>6. 1..Len(incoming') = {}
    BY <1>5, EmptySeq DEF Reconnects
  <2>7. DoneInv'
    BY <1>2, <2>1, <2>5, <2>6, DoneKept
  <2>8. QED
    BY <1>3, <2>1, <2>7
<1>6. CASE AnswersState
  <2> DEFINE m == Message("snapshot", runs, entry)
  <2>1. /\ incoming' = Append(incoming, m) /\ broadcasts' = broadcasts
    BY <1>6 DEF AnswersState, Transmit
  <2>2. /\ m \in PreviewMessages /\ m.type # "status" /\ m.run = runs
        /\ m.status = entry /\ runs \in Nat /\ entry \in EntryStatuses
    BY <1>0 DEF Message, PreviewMessages, LinkTypeOK
  <2> HIDE DEF m
  <2>3. QueuesInv'
    BY <1>0, <1>2, <2>1, <2>2, NameSent
  <2>4. CASE worker = "ended"
    BY <1>2, <1>3, <2>3, <2>4 DEF DoneInv
  <2>5. CASE worker # "ended"
    <3>1. ~SaysDone(m)
      BY <2>2, <2>5 DEF WireInv, DoneInv, SaysDone
    <3>2. /\ Len(incoming) \in Nat /\ Len(incoming') = Len(incoming) + 1
          /\ \A i \in 1..Len(incoming) : incoming'[i] = incoming[i]
          /\ incoming'[Len(incoming) + 1] = m
      BY <1>1, <2>1, <2>2, Appended
    <3>3. \A i \in 1..Len(incoming') :
            i = Len(incoming) + 1 \/ i \in 1..Len(incoming)
      BY <3>2
    <3>4. \A i \in 1..Len(incoming') :
            \/ ~SaysDone(incoming'[i])
            \/ \E j \in 1..Len(incoming) : incoming'[i] = incoming[j]
      BY <3>1, <3>2, <3>3
    <3>5. \A i \in 1..Len(broadcasts') :
            \E j \in 1..Len(broadcasts) : broadcasts'[i] = broadcasts[j]
      BY <2>1
    <3>6. DoneInv'
      BY <1>2, <2>3, <3>4, <3>5, DoneKept
    <3>7. QED
      BY <1>3, <2>3, <3>6
  <2>6. QED
    BY <2>4, <2>5
<1>7. QED
  BY <1>4, <1>5, <1>6 DEF Connection

(* Saving the file says nothing of the node.                               *)
LEMMA SaveKeeps == ASSUME WireInv, NodeSaves PROVE WireInv'
<1>1. /\ UNCHANGED <<incoming, broadcasts, runs, seen, currentRunId, entry, status>>
      /\ worker # "ended"
  BY DEF NodeSaves, linkVars, nodeVars
<1>2. PICK f \in Files : onDisk' = [onDisk EXCEPT ![f] = runs]
  BY DEF NodeSaves
<1>3. LinkTypeOK'
  BY <1>1, <1>2 DEF WireInv, LinkTypeOK
<1>4. StartedInv' /\ OrderInv' /\ SeenInv'
  BY <1>1 DEF WireInv, StartedInv, OrderInv, InOrder, SeenInv
<1>5. DoneInv'
  BY <1>1 DEF WireInv, DoneInv, SaysDone
<1>6. QED
  BY <1>3, <1>4, <1>5 DEF WireInv

(* Every step keeps what is said of the way from the worker to the client. *)
LEMMA WireStep == WireInv /\ [PreviewNext]_previewVars => WireInv'
<1> SUFFICES ASSUME WireInv, [PreviewNext]_previewVars PROVE WireInv'
  OBVIOUS
<1>1. ASSUME UNCHANGED <<incoming, broadcasts, runs, seen, currentRunId, entry,
                         status, onDisk>>,
             worker' = worker \/ worker' = "ended"
      PROVE  WireInv'
  <2>1. LinkTypeOK' /\ StartedInv' /\ OrderInv' /\ SeenInv'
    BY <1>1 DEF WireInv, LinkTypeOK, StartedInv, OrderInv, InOrder, SeenInv
  <2>2. DoneInv'
    BY <1>1 DEF WireInv, DoneInv, SaysDone
  <2>3. QED
    BY <2>1, <2>2 DEF WireInv
<1>2. CASE Server
  <2>1. CASE RunStarts
    BY <2>1, StartKeeps
  <2>2. CASE NodeSkipped
    BY <2>2, NotifyKeeps DEF NodeSkipped, EntryStatuses
  <2>3. CASE NodeRuns
    BY <2>3, NotifyKeeps DEF NodeRuns, EntryStatuses
  <2>4. CASE NodeSaves
    BY <2>4, SaveKeeps
  <2>5. ASSUME NEW s \in {"done", "error"}, NodeEnds(s) PROVE WireInv'
    BY <2>5, NotifyKeeps DEF NodeEnds, EntryStatuses
  <2>6. CASE NodeSuppressed
    BY <1>1, <2>6 DEF NodeSuppressed, linkVars, nodeVars
  <2>7. QED
    BY <1>2, <2>1, <2>2, <2>3, <2>4, <2>5, <2>6 DEF Server
<1>3. CASE Connection
  BY <1>3, ConnectionKeeps
<1>4. ASSUME NEW f \in Files \union {NoFile}, EditPath(f) PROVE WireInv'
  BY <1>1, <1>4 DEF EditPath, serverVars, linkVars
<1>5. CASE TakesIn
  BY <1>5, MessageTaken
<1>6. CASE ResetTimer \/ DebounceTimer
  BY <1>1, <1>6 DEF ResetTimer, DebounceTimer, nodeVars, serverVars, linkVars
<1>7. ASSUME NEW c \in previewCalls,
             ServerReads(c) \/ (\E ok \in BOOLEAN : PreviewAnswer(c, ok))
      PROVE  WireInv'
  BY <1>1, <1>7 DEF ServerReads, PreviewAnswer, nodeVars, serverVars, linkVars
<1>8. CASE UNCHANGED previewVars
  BY <1>1, <1>8 DEF previewVars, nodeVars, serverVars, linkVars
<1>9. QED
  BY <1>2, <1>3, <1>4, <1>5, <1>6, <1>7, <1>8 DEF PreviewNext

-----------------------------------------------------------------------------
(* The hook.                                                               *)

Wanted == Enabled /\ filePath # NoFile

Live(c) == c.effect = effect.no

\* what a thumbnail read when run r had written the file last has to be
UpToDate(r) ==
  previewOf = "saveImage" /\ seen >= onDisk[filePath] => r = onDisk[filePath]

ThumbTypeOK ==
  /\ previewOf \in {"inputImage", "saveImage"}
  /\ filePath \in Files \union {NoFile}
  /\ effect.no \in Nat
  /\ \A c \in previewCalls :
       /\ c \in [effect : Nat, file : Files, read : BOOLEAN, run : Nat]
       /\ c.effect <= effect.no

\* the effect in force is for the present path, and makes one call
EffectInv ==
  /\ effect.deps = Deps
  /\ debounce # NoFile =>
       /\ Wanted /\ debounce = filePath
       /\ \A c \in previewCalls : ~Live(c)
  /\ resetDue => ~Wanted
  /\ \A c \in previewCalls : Live(c) =>
       /\ Wanted /\ c.file = filePath
       /\ c.read => UpToDate(c.run)
  /\ \A c, d \in previewCalls : Live(c) /\ Live(d) => c = d

\* when it has nothing more to do it has shown what it was run for
ThumbShownInv ==
  /\ Wanted /\ debounce = NoFile /\ (\A c \in previewCalls : ~Live(c)) =>
       /\ ~loading
       /\ \/ previewError /\ preview = NoImage
          \/ ~previewError /\ preview.file = filePath /\ UpToDate(preview.run)
  /\ ~Wanted /\ ~resetDue => ~loading /\ preview = NoImage /\ ~previewError

HookInv == ThumbTypeOK /\ EffectInv /\ ThumbShownInv

PreviewInv == WireInv /\ HookInv

(* At first there is no thumbnail, and one is due if it is wanted.         *)
LEMMA HookInitInv == PreviewInit => HookInv
<1> SUFFICES ASSUME PreviewInit PROVE HookInv
  OBVIOUS
<1>1. /\ effect.no = 0 /\ effect.deps = Deps /\ previewCalls = {}
      /\ preview = NoImage /\ ~loading /\ ~previewError
  BY DEF PreviewInit
<1>2. /\ debounce = IF Enabled THEN filePath ELSE NoFile
      /\ resetDue <=> debounce = NoFile
  BY DEF PreviewInit
<1>3. debounce # NoFile <=> Wanted
  BY <1>2 DEF Wanted
<1>4. ThumbTypeOK
  BY <1>1 DEF PreviewInit, ThumbTypeOK
<1>5. EffectInv
  BY <1>1, <1>2, <1>3 DEF EffectInv, Wanted
<1>6. ThumbShownInv
  BY <1>1, <1>2, <1>3 DEF ThumbShownInv
<1>7. QED
  BY <1>4, <1>5, <1>6 DEF HookInv

(* When what the effect depends on has changed, the effect in force is a   *)
(* new one, which has made no call.                                        *)
LEMMA NewEffect ==
  ASSUME HookInv, PreviewEffect, Deps' # Deps, ThumbTypeOK',
         previewCalls' = previewCalls
  PROVE  HookInv'
<1>1. /\ effect' = [no |-> effect.no + 1, deps |-> Deps']
      /\ IF Wanted' THEN debounce' = filePath' /\ ~resetDue'
                    ELSE debounce' = NoFile /\ resetDue'
  BY DEF PreviewEffect, HookInv, EffectInv, Wanted
<1>2. \A c \in previewCalls' : ~Live(c)'
  BY <1>1 DEF HookInv, ThumbTypeOK, Live
<1>3. effect'.deps = Deps'
  BY <1>1
<1>4. EffectInv'
  BY <1>1, <1>2, <1>3 DEF EffectInv
<1>5. ThumbShownInv'
  BY <1>1, <1>2 DEF ThumbShownInv, Wanted
<1>6. QED
  BY <1>4, <1>5 DEF HookInv

(* When it has not, and a thumbnail that is wanted is no less up to date,  *)
(* nothing changes.                                                        *)
LEMMA SameEffect ==
  ASSUME HookInv, UNCHANGED hookVars, Deps' = Deps, ThumbTypeOK',
         Wanted => \A r : UpToDate(r) => UpToDate(r)'
  PROVE  HookInv'
<1>1. filePath' = filePath /\ Enabled' = Enabled
  BY DEF Deps
<1>2. Wanted' = Wanted
  BY <1>1 DEF Wanted
<1>3. /\ UNCHANGED <<effect, debounce, resetDue, previewCalls>>
      /\ UNCHANGED <<preview, loading, previewError>>
  BY DEF hookVars
<1>4. EffectInv'
  BY <1>1, <1>2, <1>3 DEF HookInv, EffectInv, Live
<1>5. ThumbShownInv'
  <2>1. Wanted /\ UpToDate(preview.run) => UpToDate(preview.run)'
    BY <1>3
  <2>2. QED
    BY <1>1, <1>2, <1>3, <2>1 DEF HookInv, ThumbShownInv, Live
<1>6. QED
  BY <1>4, <1>5 DEF HookInv

(* When the panel's effect is looked at again, nothing written since, the  *)
(* hook keeps its invariant.                                               *)
LEMMA EffectKeeps ==
  ASSUME HookInv, PreviewEffect, UNCHANGED <<previewOf, onDisk>>,
         filePath' \in Files \union {NoFile},
         seen' = seen \/ (previewOf = "saveImage" => ~Wanted')
  PROVE  HookInv'
<1>1. previewCalls' = previewCalls /\ effect'.no \in {effect.no, effect.no + 1}
  BY DEF PreviewEffect, hookVars
<1>2. ThumbTypeOK'
  <2>1. effect.no \in Nat
    BY DEF HookInv, ThumbTypeOK
  <2>2. \A c \in previewCalls :
          /\ c \in [effect : Nat, file : Files, read : BOOLEAN, run : Nat]
          /\ c.effect \in Nat /\ c.effect <= effect.no
    BY DEF HookInv, ThumbTypeOK
  <2>3. \A c \in previewCalls : c.effect <= effect'.no
    BY <1>1, <2>1, <2>2
  <2>4. QED
    BY <1>1, <2>1, <2>2, <2>3 DEF HookInv, ThumbTypeOK
<1>3. CASE Deps' # Deps
  BY <1>1, <1>2, <1>3, NewEffect
<1>4. CASE Deps' = Deps
  <2>1. UNCHANGED hookVars
    BY <1>4 DEF PreviewEffect, HookInv, EffectInv
  <2>2. filePath' = filePath /\ Wanted' = Wanted
    BY <1>4 DEF Deps, Wanted
  <2>3. Wanted => \A r : UpToDate(r) => UpToDate(r)'
    BY <2>2 DEF UpToDate
  <2>4. QED
    BY <1>2, <1>4, <2>1, <2>3, SameEffect
<1>5. QED
  BY <1>3, <1>4

(* The worker writes the file while the client shows the node done: then   *)
(* it has not seen it at work in this run.                                 *)
LEMMA SaveKeepsHook == ASSUME WireInv, HookInv, NodeSaves PROVE HookInv'
<1>1. UNCHANGED hookVars /\ UNCHANGED <<previewOf, filePath, status, seen>>
      /\ worker # "ended"
  BY DEF NodeSaves, nodeVars
<1>2. PICK f \in Files : onDisk' = [onDisk EXCEPT ![f] = runs]
  BY DEF NodeSaves
<1>3. Deps' = Deps
  BY <1>1 DEF Deps, Enabled
<1>4. ThumbTypeOK'
  BY <1>1 DEF HookInv, ThumbTypeOK, hookVars
<1>5. ASSUME Wanted, previewOf = "saveImage"
      PROVE  /\ filePath \in Files
             /\ seen < runs /\ runs \in Nat /\ seen \in Nat
  <2>1. status = "done"
    BY <1>5 DEF Wanted, Enabled
  <2>2. seen # runs /\ seen <= runs /\ runs \in Nat /\ seen \in Nat
    BY <1>1, <2>1 DEF WireInv, DoneInv, StartedInv, LinkTypeOK
  <2>3. QED
    BY <1>5, <2>2 DEF HookInv, ThumbTypeOK, Wanted
<1>6. Wanted => \A r : UpToDate(r) => UpToDate(r)'
  <2> SUFFICES ASSUME Wanted, previewOf = "saveImage", NEW r, UpToDate(r)
               PROVE  UpToDate(r)'
    BY <1>1 DEF UpToDate
  <2>1. onDisk \in [Files -> Nat] /\ filePath \in Files
    BY <1>5 DEF WireInv, LinkTypeOK
  <2>2. CASE f = filePath
    <3>1. onDisk'[filePath] = runs
      BY <1>2, <2>1, <2>2
    <3>2. ~(seen >= runs)
      BY <1>5
    <3>3. QED
      BY <1>1, <3>1, <3>2 DEF UpToDate
  <2>3. CASE f # filePath
    <3>1. onDisk'[filePath] = onDisk[filePath]
      BY <1>2, <2>1, <2>3
    <3>2. QED
      BY <1>1, <3>1 DEF UpToDate
  <2>4. QED
    BY <2>2, <2>3
<1>7. QED
  BY <1>1, <1>3, <1>4, <1>6, SameEffect

(* Every step keeps the invariant of the hook.                             *)
LEMMA HookStep ==
  WireInv /\ HookInv /\ [PreviewNext]_previewVars => HookInv'
<1> SUFFICES ASSUME WireInv, HookInv, [PreviewNext]_previewVars PROVE HookInv'
  OBVIOUS
<1>0. ThumbTypeOK /\ EffectInv /\ ThumbShownInv
  BY DEF HookInv
<1>1. ASSUME UNCHANGED hookVars,
             UNCHANGED <<previewOf, filePath, status, seen, onDisk>>
      PROVE  HookInv'
  <2>1. Deps' = Deps /\ ThumbTypeOK'
    BY <1>0, <1>1 DEF Deps, Enabled, ThumbTypeOK, hookVars
  <2>2. \A r : UpToDate(r) => UpToDate(r)'
    BY <1>1 DEF UpToDate
  <2>3. QED
    BY <1>1, <2>1, <2>2, SameEffect
<1>2. ASSUME NEW f \in Files \union {NoFile}, EditPath(f) PROVE HookInv'
  BY <1>2, EffectKeeps DEF EditPath, serverVars
<1>3. CASE TakesIn
  <2>1. /\ PreviewEffect /\ UNCHANGED <<previewOf, onDisk, filePath>>
    BY <1>3 DEF TakesIn, serverVars
  <2>2. seen' = seen \/ status' # "done"
    BY <1>3 DEF TakesIn, updateNodeStatus
  <2>3. seen' = seen \/ (previewOf = "saveImage" => ~Wanted')
    BY <2>1, <2>2 DEF Wanted, Enabled
  <2>4. filePath' \in Files \union {NoFile}
    BY <1>0, <2>1 DEF ThumbTypeOK
  <2>5. QED
    BY <2>1, <2>3, <2>4, EffectKeeps
<1>4. CASE Server
  <2>1. CASE NodeSaves
    BY <2>1, SaveKeepsHook
  <2>2. CASE ~NodeSaves
    BY <1>1, <1>4, <2>2 DEF Server, RunStarts, NodeSkipped, NodeRuns, NodeEnds,
       NodeSuppressed, Notify, nodeVars
  <2>3. QED
    BY <2>1, <2>2
<1>5. CASE Connection
  BY <1>1, <1>5 DEF Connection, PublishEvent, Reconnects, AnswersState, nodeVars,
     serverVars
<1>6. ASSUME UNCHANGED <<nodeVars, serverVars, effect>>
      PROVE  /\ Wanted' = Wanted /\ Deps' = Deps
             /\ UNCHANGED <<previewOf, filePath, effect>>
             /\ \A c : Live(c)' = Live(c)
             /\ \A r : UpToDate(r)' = UpToDate(r)
  BY <1>6 DEF Wanted, Enabled, Deps, Live, UpToDate, nodeVars, serverVars
<1>7. CASE ResetTimer
  <2>1. ~Wanted /\ UNCHANGED <<nodeVars, serverVars, effect>>
        /\ UNCHANGED <<previewCalls, debounce>> /\ ~resetDue'
        /\ preview' = NoImage /\ ~previewError' /\ ~loading'
    BY <1>0, <1>7 DEF ResetTimer, EffectInv
  <2>2. ThumbTypeOK'
    BY <1>0, <1>6, <2>1 DEF ThumbTypeOK
  <2>3. EffectInv'
    BY <1>0, <1>6, <2>1 DEF EffectInv
  <2>4. ThumbShownInv'
    BY <1>6, <2>1 DEF ThumbShownInv
  <2>5. QED
    BY <2>2, <2>3, <2>4 DEF HookInv
<1>8. CASE DebounceTimer
  <2> DEFINE call == [effect |-> effect.no, file |-> debounce,
                      read |-> FALSE, run |-> 0]
  <2>1. /\ debounce # NoFile /\ debounce' = NoFile
        /\ previewCalls' = previewCalls \union {call}
        /\ UNCHANGED <<nodeVars, serverVars, effect>>
        /\ UNCHANGED resetDue
    BY <1>8 DEF DebounceTimer
  <2>2. Wanted /\ debounce = filePath /\ \A c \in previewCalls : ~Live(c)
    BY <1>0, <2>1 DEF EffectInv
  <2>3. ThumbTypeOK'
    <3>1. effect.no \in Nat /\ debounce \in Files
      BY <1>0, <2>2 DEF ThumbTypeOK, Wanted
    <3>2. /\ call \in [effect : Nat, file : Files, read : BOOLEAN, run : Nat]
          /\ call.effect <= effect.no
      BY <3>1
    <3> HIDE DEF call
    <3>3. QED
      BY <1>0, <1>6, <2>1, <3>2 DEF ThumbTypeOK
  <2>4. Live(call) /\ call.file = filePath /\ ~call.read
    BY <2>2 DEF Live
  <2> HIDE DEF call
  <2>5. EffectInv'
    BY <1>0, <1>6, <2>1, <2>2, <2>4 DEF EffectInv
  <2>6. ThumbShownInv'
    BY <1>6, <2>1, <2>2, <2>4 DEF ThumbShownInv
  <2>7. QED
    BY <2>3, <2>5, <2>6 DEF HookInv
<1>9. ASSUME NEW c \in previewCalls, ServerReads(c) PROVE HookInv'
  <2> DEFINE d == [c EXCEPT !.read = TRUE, !.run = onDisk[c.file]]
  <2>1. /\ previewCalls' = (previewCalls \ {c}) \union {d}
        /\ UNCHANGED <<nodeVars, serverVars, effect>>
        /\ UNCHANGED <<resetDue, debounce, preview, loading, previewError>>
    BY <1>9 DEF ServerReads
  <2>2. /\ c \in [effect : Nat, file : Files, read : BOOLEAN, run : Nat]
        /\ c.effect <= effect.no
    BY <1>0 DEF ThumbTypeOK
  <2>3. onDisk[c.file] \in Nat
    BY <2>2 DEF WireInv, LinkTypeOK
  <2>4. /\ d \in [effect : Nat, file : Files, read : BOOLEAN, run : Nat]
        /\ d.effect = c.effect /\ d.file = c.file /\ d.run = onDisk[c.file]
    BY <2>2, <2>3
  <2> HIDE DEF d
  <2>5. ThumbTypeOK'
    BY <1>0, <1>6, <2>1, <2>2, <2>4 DEF ThumbTypeOK
  <2>6. Live(d) <=> Live(c)
    BY <2>4 DEF Live
  <2>7. Live(d) => Wanted /\ d.file = filePath /\ UpToDate(d.run)
    BY <1>0, <2>4, <2>6 DEF EffectInv, UpToDate
  <2>8. EffectInv'
    BY <1>0, <1>6, <2>1, <2>6, <2>7 DEF EffectInv
  <2>9. ThumbShownInv'
    BY <1>0, <1>6, <2>1, <2>6 DEF ThumbShownInv
  <2>10. QED
    BY <2>5, <2>8, <2>9 DEF HookInv
<1>10. ASSUME NEW c \in previewCalls, NEW ok \in BOOLEAN, PreviewAnswer(c, ok)
       PROVE  HookInv'
  <2>1. /\ previewCalls' = previewCalls \ {c} /\ (ok => c.read)
        /\ UNCHANGED <<nodeVars, serverVars, effect>>
        /\ UNCHANGED <<resetDue, debounce>>
    BY <1>10 DEF PreviewAnswer
  <2>2. ThumbTypeOK'
    BY <1>0, <1>6, <2>1 DEF ThumbTypeOK
  <2>3. EffectInv'
    BY <1>0, <1>6, <2>1 DEF EffectInv
  <2>4. CASE Cancelled(c)
    <3>1. ~Live(c) /\ UNCHANGED <<preview, loading, previewError>>
      BY <1>10, <2>4 DEF PreviewAnswer, Cancelled, Live
    <3>2. ThumbShownInv'
      BY <1>0, <1>6, <2>1, <3>1 DEF ThumbShownInv
    <3>3. QED
      BY <2>2, <2>3, <3>2 DEF HookInv
  <2>5. CASE ~Cancelled(c)
    <3>1. Live(c) /\ ~loading' /\ previewError' = ~ok
      BY <1>10, <2>5 DEF PreviewAnswer, Cancelled, Live
    <3>2. preview' = IF ok THEN [file |-> c.file, run |-> c.run] ELSE NoImage
      BY <1>10, <2>5 DEF PreviewAnswer
    <3>3. Wanted /\ c.file = filePath /\ (c.read => UpToDate(c.run))
      BY <1>0, <3>1 DEF EffectInv
    <3>4. \/ previewError' /\ preview' = NoImage
          \/ ~previewError' /\ preview'.file = filePath /\ UpToDate(preview'.run)
      BY <2>1, <3>1, <3>2, <3>3
    <3>5. Wanted' /\ filePath' = filePath
          /\ UpToDate(preview'.run) = UpToDate(preview.run)'
      BY <1>6, <2>1, <3>3 DEF UpToDate, nodeVars, serverVars
    <3>6. ThumbShownInv'
      BY <3>1, <3>4, <3>5 DEF ThumbShownInv
    <3>7. QED
      BY <2>2, <2>3, <3>6 DEF HookInv
  <2>6. QED
    BY <2>4, <2>5
<1>11. CASE UNCHANGED previewVars
  BY <1>1, <1>11 DEF previewVars, nodeVars, serverVars
<1>12. QED
  BY <1>2, <1>3, <1>4, <1>5, <1>7, <1>8, <1>9, <1>10, <1>11 DEF PreviewNext

-----------------------------------------------------------------------------
(* At rest a thumbnail is of the node's path, and a saved image as the run *)
(* that wrote it last left it, once the client has seen that run at the    *)
(* node, whatever was lost.                                                *)
(* (useImagePreview.ts 39-79, PropertiesPanel.tsx 378-386,                 *)
(* WorkflowRunner.ts 107-111, 172-229, executor.cpp 286-321)               *)
THEOREM ThumbnailsRight == PreviewSpec => []PreviewIsOfThePath
<1>1. PreviewInit => PreviewInv
  BY WireInitInv, HookInitInv DEF PreviewInv
<1>2. PreviewInv /\ [PreviewNext]_previewVars => PreviewInv'
  BY WireStep, HookStep DEF PreviewInv
<1>3. PreviewInv => PreviewIsOfThePath
  BY DEF PreviewInv, HookInv, EffectInv, ThumbShownInv, PreviewIsOfThePath,
     PreviewAtRest, Wanted, Live, UpToDate
<1>4. QED
  BY <1>1, <1>2, <1>3, PTL DEF PreviewSpec
=============================================================================
