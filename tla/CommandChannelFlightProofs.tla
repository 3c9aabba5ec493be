---------------------- MODULE CommandChannelFlightProofs ----------------------
(***************************************************************************)
(* Theorems about what travels on the link of CommandChannel: the chunks   *)
(* of requests, the requests and answers under way, and the answers that   *)
(* are taken.  For every set of tasks, every set of jobs, every MTU, every *)
(* response length and any number of calls.                                *)
(***************************************************************************)
EXTENDS CommandChannelProofs

-----------------------------------------------------------------------------
(* The inductive invariants. *)

(* Tasks have not sent a request that is not yet numbered; a task that waits to
   start a job has collected nothing, one that waits for an answer has written
   a whole frame, and one between two commands has collected something. *)
StageInv ==
  \A t \in Tasks :
    /\ request[t] < nextId
    /\ pc[t] = "queued" => results[t] = <<>>
    /\ pc[t] = "awaiting" => sent[t] = Chunks
    /\ pc[t] = "holding" => results[t] # <<>>

(* The last chunk on the link is the last one of the task that is writing; it
   ends a frame, or its request was given up, or its task is still writing. *)
WireInv ==
  /\ wire.id < nextId
  /\ \A t \in Tasks :
       /\ pc[t] = "writing" /\ sent[t] = 0 => wire.id < request[t]
       /\ pc[t] = "writing" /\ sent[t] > 0 =>
            wire.id = request[t] /\ wire.chunk = sent[t]
  /\ \/ wire.chunk \in {0, Chunks}
     \/ wire.id \in abandoned
     \/ \E t \in Tasks : pc[t] = "writing" /\ sent[t] > 0

(* A request is at most once with the device or its answer on the way back, and
   the fragments of an answer are in order. *)
QueueInv ==
  /\ \A i, j \in 1..Len(rx) : rx[i].id = rx[j].id => i = j
  /\ \A i \in 1..Len(rx), j \in 1..Len(tx) : rx[i].id # tx[j].frame.id
  /\ \A i, j \in 1..Len(tx) :
       i < j /\ tx[i].frame.id = tx[j].frame.id => tx[i].part < tx[j].part

(* The identity is of a request that was sent and is not being written. *)
Written(x) == x < nextId /\ \A t \in Tasks : pc[t] = "writing" => request[t] # x

(* What is under way is the request of the task that waits for its answer, or
   was given up. *)
FlightInv ==
  \A x \in InFlight :
    /\ Written(x)
    /\ x \in abandoned \/ \E t \in Tasks : pc[t] = "awaiting" /\ request[t] = x

(* An answer in the future is under way no more, and it answers the future's
   request or one that was given up. *)
FutureInv ==
  Resolved =>
    LET x == response_future.frame.id IN
    /\ Written(x) /\ x \notin InFlight
    /\ x = response_future.id \/ x \in abandoned

(* The same for an answer that was taken, which is in the future no more. *)
ResultInv ==
  \A t \in Tasks : \A k \in 1..Len(results[t]) :
    LET x == results[t][k].frame.id IN
    /\ Written(x) /\ x \notin InFlight
    /\ x = results[t][k].asked \/ x \in abandoned
    /\ Resolved => response_future.frame.id # x

-----------------------------------------------------------------------------
(* What the pieces of the actions change. *)

(* A command that begins: its task writes a request no one has sent before, and
   the future is empty. *)
LEMMA BeginSendFacts ==
  ASSUME TypeOK, NEW t \in Tasks, BeginSend(t)
  PROVE  /\ pc'[t] = "writing" /\ request'[t] = nextId /\ sent'[t] = 0
         /\ nextId' = nextId + 1
         /\ ~Resolved'
         /\ \A u \in Tasks \ {t} :
              pc'[u] = pc[u] /\ request'[u] = request[u] /\ sent'[u] = sent[u]
  BY DEF TypeOK, BeginSend, Resolved

(* A command that ends: its request is given up, or its answer is there. *)
LEMMA SettleFacts ==
  ASSUME NEW t \in Tasks, Settle(t)
  PROVE  /\ abandoned \subseteq abandoned'
         /\ \/ request[t] \in abandoned'
            \/ Resolved /\ response_future.frame.id = request[t]
  BY DEF Settle

(* The record Take adds to the results of its task. *)
Taken(t) == [frame |-> response_future.frame, asked |-> request[t]]

(* An answer that is taken: the future is empty afterwards, and the task leaves,
   waits between two commands, or writes the next request. *)
LEMMA TakeFacts ==
  ASSUME TypeOK, NEW t \in Tasks, Take(t)
  PROVE  /\ ~Resolved'
         /\ \/ /\ pc'[t] \in {"idle", "holding"}
               /\ nextId' = nextId /\ request' = request /\ sent' = sent
            \/ /\ pc'[t] = "writing" /\ request'[t] = nextId /\ sent'[t] = 0
               /\ nextId' = nextId + 1
         /\ \A u \in Tasks \ {t} :
              pc'[u] = pc[u] /\ request'[u] = request[u] /\ sent'[u] = sent[u]
         /\ \/ results' = results /\ pc'[t] = "idle"
            \/ results' = [results EXCEPT ![t] = Append(@, Taken(t))]
  <1> DEFINE added == results' = [results EXCEPT ![t] = Append(@, Taken(t))]
  <1>1. CASE /\ \E why \in Outcomes : Release(t, why)
             /\ response_future' = None
             /\ UNCHANGED <<request, sent, nextId>>
             /\ results' = results \/ added
    BY <1>1 DEF TypeOK, Release, Resolved
  <1>2. CASE /\ pc' = [pc EXCEPT ![t] = "holding"]
             /\ response_future' = None
             /\ UNCHANGED <<request, sent, nextId>>
             /\ added
    BY <1>2 DEF TypeOK, Resolved
  <1>3. CASE BeginSend(t) /\ added
    BY <1>3, BeginSendFacts
  <1> QED
    BY <1>1, <1>2, <1>3 DEF Take, Outcomes, Taken

(* The results after an answer was taken. *)
LEMMA TakenResults ==
  ASSUME TypeOK, NEW t \in Tasks, Taken(t) \in [frame : Frames, asked : Ids],
         results' = [results EXCEPT ![t] = Append(@, Taken(t))]
  PROVE  /\ results'[t] # <<>>
         /\ Len(results[t]) \in Nat /\ Len(results'[t]) = Len(results[t]) + 1
         /\ results'[t][Len(results[t]) + 1] = Taken(t)
         /\ \A m \in 1..Len(results[t]) : results'[t][m] = results[t][m]
         /\ \A u \in Tasks \ {t} : results'[u] = results[u]
  <1> DEFINE R == [frame : Frames, asked : Ids]
  <1>1. results \in [Tasks -> Seq(R)] /\ Taken(t) \in R
    BY DEF TypeOK
  <1> HIDE DEF R
  <1>2. results[t] \in Seq(R) /\ results'[t] = Append(results[t], Taken(t))
        /\ \A u \in Tasks \ {t} : results'[u] = results[u]
    BY <1>1
  <1>3. /\ Len(results[t]) \in Nat
        /\ Len(results'[t]) = Len(results[t]) + 1
        /\ results'[t][Len(results[t]) + 1] = Taken(t)
        /\ \A m \in 1..Len(results[t]) : results'[t][m] = results[t][m]
    BY <1>1, <1>2, AppendProperties
  <1>4. Len(<<>>) = 0 /\ Len(results'[t]) # 0
    BY <1>3
  <1>5. results'[t] # <<>>
    BY <1>4, Zenon
  <1> QED
    BY <1>2, <1>3, <1>5

(* A frame in the future can be taken. *)
LEMMA TakenType ==
  ASSUME TypeOK, FutureOwner, NEW t \in Tasks, pc[t] \in {"writing", "awaiting"},
         Resolved
  PROVE  Taken(t) \in [frame : Frames, asked : Ids] /\ request[t] = response_future.id
  BY RequestType DEF Taken, Resolved, Futures, FutureOwner

(* A chunk on the link. *)
LEMMA DeliverFacts ==
  ASSUME TypeOK, NEW t \in Tasks, request[t] \in Ids, CurrentCmd(t) \in Commands,
         Deliver(t)
  PROVE  /\ wire'.task = t /\ wire'.id = request[t] /\ wire'.chunk = sent[t] + 1
         /\ \/ rx' = rx
            \/ /\ sent[t] + 1 = Chunks
               /\ Len(rx) \in Nat /\ Len(rx') = Len(rx) + 1
               /\ \A i \in 1..Len(rx) : rx'[i] = rx[i]
               /\ rx'[Len(rx) + 1].id = request[t]
  <1> DEFINE R == [id : Ids, cmd : Commands]
             r == [id |-> request[t], cmd |-> CurrentCmd(t)]
  <1>1. wire'.task = t /\ wire'.id = request[t] /\ wire'.chunk = sent[t] + 1
    BY DEF Deliver
  <1>2. CASE rx' = rx
    BY <1>1, <1>2
  <1>3. CASE sent[t] + 1 = Chunks /\ rx' = Append(rx, r)
    <2>1. rx \in Seq(R) /\ r \in R /\ r.id = request[t]
      BY DEF TypeOK
    <2> HIDE DEF R, r
    <2>2. /\ Len(rx) \in Nat /\ Len(rx') = Len(rx) + 1
          /\ \A i \in 1..Len(rx) : rx'[i] = rx[i]
          /\ rx'[Len(rx) + 1] = r
      BY <1>3, <2>1, AppendProperties
    <2> QED
      BY <1>1, <1>3, <2>1, <2>2
  <1> QED
    BY <1>2, <1>3 DEF Deliver

(* What an action changes on the way to the device and back. *)
LEMMA AnswerFacts ==
  ASSUME TypeOK, NEW ok \in BOOLEAN, Answer(ok)
  PROVE  /\ Len(rx) \in Nat \ {0} /\ Len(rx') = Len(rx) - 1
         /\ \A i \in 1..(Len(rx) - 1) : rx'[i] = rx[i + 1]
         /\ Len(tx) \in Nat /\ Len(tx') = Len(tx) + Fragments
         /\ \A i \in 1..Len(tx) : tx'[i] = tx[i]
         /\ \A i \in 1..Fragments : /\ tx'[Len(tx) + i].frame.id = rx[1].id
                                    /\ tx'[Len(tx) + i].part = i
  <1> DEFINE Q == [id : Ids, cmd : Commands]
             R == [frame : Frames, part : 1..Fragments]
             new == [i \in 1..Fragments |->
                      [frame |-> [id |-> Head(rx).id, cmd |-> Head(rx).cmd, ok |-> ok],
                       part |-> i]]
  <1>1. rx \in Seq(Q) /\ rx # <<>> /\ rx' = Tail(rx) /\ tx \in Seq(R)
        /\ tx' = tx \o new
    BY DEF TypeOK, Answer
  <1>2. /\ Len(rx) \in Nat \ {0} /\ Len(rx') = Len(rx) - 1
        /\ \A i \in 1..(Len(rx) - 1) : rx'[i] = rx[i + 1]
        /\ Head(rx) = rx[1] /\ rx[1] \in Q
    <2> HIDE DEF Q
    <2> QED
      BY <1>1, HeadTailProperties, ElementOfSeq
  <1>3. new \in Seq(R) /\ Len(new) = Fragments
    <2>1. \A i \in 1..Fragments : new[i] \in R
      BY <1>2 DEF Frames
    <2>2. new \in [1..Fragments -> R]
      BY <2>1
    <2> HIDE DEF new, R
    <2> QED
      BY <2>2, FragmentsAssumption
  <1>4. /\ Len(tx) \in Nat /\ Len(tx') = Len(tx) + Fragments
        /\ \A i \in 1..Len(tx) : tx'[i] = tx[i]
        /\ \A i \in 1..Fragments : tx'[Len(tx) + i] = new[i]
    <2> HIDE DEF new, R
    <2>1. Len(tx) \in Nat /\ Len(tx \o new) = Len(tx) + Len(new)
          /\ \A i \in 1..(Len(tx) + Len(new)) : (tx \o new)[i] =
               IF i <= Len(tx) THEN tx[i] ELSE new[i - Len(tx)]
      BY <1>1, <1>3, ConcatProperties
    <2> QED
      BY <1>1, <1>3, <2>1, FragmentsAssumption
  <1>5. \A i \in 1..Fragments : new[i].frame.id = rx[1].id /\ new[i].part = i
    BY <1>2
  <1> HIDE DEF new
  <1> QED
    BY <1>2, <1>4, <1>5

(* A request the firmware drops. *)
LEMMA SilentFacts ==
  ASSUME TypeOK, StaySilent
  PROVE  /\ Len(rx) \in Nat \ {0} /\ Len(rx') = Len(rx) - 1
         /\ \A i \in 1..(Len(rx) - 1) : rx'[i] = rx[i + 1]
  <1> DEFINE Q == [id : Ids, cmd : Commands]
  <1>1. rx \in Seq(Q) /\ rx # <<>> /\ rx' = Tail(rx)
    BY DEF TypeOK, StaySilent
  <1> HIDE DEF Q
  <1> QED
    BY <1>1, HeadTailProperties

(* A fragment that is notified leaves the link; when it completes a frame that
   a future waits for, it is the last fragment. *)
LEMMA NotifyFacts ==
  ASSUME TypeOK, NEW stale \in BOOLEAN, Notify(stale)
  PROVE  /\ Len(tx) \in Nat \ {0} /\ Len(tx') = Len(tx) - 1
         /\ \A i \in 1..(Len(tx) - 1) : tx'[i] = tx[i + 1]
         /\ \A i \in 1..Len(tx) : tx[i].part \in 1..Fragments
         /\ \/ response_future' = response_future
            \/ /\ response_future \in Futures /\ ~Resolved /\ tx[1].part = Fragments
               /\ response_future'.frame = tx[1].frame
               /\ response_future'.id = response_future.id
  <1> DEFINE R == [frame : Frames, part : 1..Fragments]
  <1>1. tx \in Seq(R) /\ tx # <<>> /\ tx' = Tail(tx)
    BY DEF TypeOK, Notify
  <1>2. /\ Len(tx) \in Nat \ {0} /\ Len(tx') = Len(tx) - 1
        /\ \A i \in 1..(Len(tx) - 1) : tx'[i] = tx[i + 1]
        /\ Head(tx) = tx[1]
        /\ \A i \in 1..Len(tx) : tx[i] \in R
    <2> HIDE DEF R
    <2> QED
      BY <1>1, HeadTailProperties, ElementOfSeq
  <1>3. CASE response_future' = response_future
    BY <1>2, <1>3
  <1>4. CASE /\ Head(tx).part = Fragments
             /\ response_future # None /\ ~Resolved
             /\ response_future' = [response_future EXCEPT !.frame = Head(tx).frame]
    BY <1>2, <1>4 DEF TypeOK, Futures
  <1> QED
    BY <1>3, <1>4 DEF Notify

-----------------------------------------------------------------------------
(* Stages and the wire. *)

(* A task that writes a chunk is inside the lock alone. *)
LEMMA AloneInside ==
  ASSUME LockInv, NEW t \in Tasks, pc[t] \in Busy
  PROVE  \A u \in Tasks \ {t} : pc[u] \notin Busy
  BY BusyIsHolder

(* How far tasks have come: one step per action. *)
LEMMA StageStep ==
  ASSUME Inv, StageInv, [Next]_vars
  PROVE  StageInv'
  <1> USE DEF Inv
  <1> DEFINE Stage(u) ==
        /\ request'[u] < nextId'
        /\ pc'[u] = "queued" => results'[u] = <<>>
        /\ pc'[u] = "awaiting" => sent'[u] = Chunks
        /\ pc'[u] = "holding" => results'[u] # <<>>
  <1>0. /\ nextId \in Nat /\ \A u \in Tasks : request[u] \in Nat
        /\ \A u \in Tasks : request[u] < nextId
    BY DEF TypeOK, Ids, StageInv
  (* A task of which the step changes nothing. *)
  <1>1. ASSUME NEW u \in Tasks, pc'[u] = pc[u], request'[u] = request[u],
               sent'[u] = sent[u], results'[u] = results[u],
               nextId' \in {nextId, nextId + 1}
        PROVE  Stage(u)
    BY <1>0, <1>1 DEF StageInv
  <1>2. ASSUME NEW t \in Tasks, BeginSend(t), UNCHANGED results
        PROVE  \A u \in Tasks : Stage(u)
    BY <1>0, <1>1, <1>2, BeginSendFacts
  <1>3. ASSUME NEW t \in Tasks, NEW why \in Outcomes, Release(t, why),
               UNCHANGED <<request, sent, results, nextId>>
        PROVE  \A u \in Tasks : Stage(u)
    BY <1>0, <1>1, <1>3 DEF Release, TypeOK
  <1>4. ASSUME NEW t \in Tasks, pc[t] \in {"writing", "awaiting"}, Resolved, Take(t)
        PROVE  \A u \in Tasks : Stage(u)
    <2>1. \A u \in Tasks \ {t} : results'[u] = results[u]
      BY <1>4, TakeFacts, TakenType, TakenResults
    <2>2. pc'[t] = "holding" => results'[t] # <<>>
      BY <1>4, TakeFacts, TakenType, TakenResults
    <2>3. \A u \in Tasks \ {t} : Stage(u)
      BY <1>0, <1>1, <1>4, <2>1, TakeFacts
    <2>4. Stage(t)
      BY <1>0, <1>4, <2>2, TakeFacts
    <2> QED
      BY <2>3, <2>4
  <1>5. ASSUME NEW t \in Tasks, NEW j \in Jobs, Call(t, j)
        PROVE  \A u \in Tasks : Stage(u)
    <2>1. results'[t] = <<>> /\ \A u \in Tasks \ {t} : results'[u] = results[u]
      BY <1>5 DEF Call, TypeOK
    <2>2. CASE BeginSend(t)
      BY <1>0, <1>1, <2>1, <2>2, BeginSendFacts
    <2>3. CASE pc' = [pc EXCEPT ![t] = "queued"] /\ UNCHANGED <<request, sent, nextId>>
      <3>1. \A u \in Tasks \ {t} : Stage(u)
        BY <1>1, <2>1, <2>3
      <3>2. Stage(t)
        BY <1>0, <2>1, <2>3 DEF TypeOK
      <3> QED
        BY <3>1, <3>2
    <2> QED
      BY <1>5, <2>2, <2>3 DEF Call
  <1>6. ASSUME NEW t \in Tasks, Wake(t)
        PROVE  \A u \in Tasks : Stage(u)
    BY <1>2, <1>6 DEF Wake
  <1>7. ASSUME NEW t \in Tasks, Write(t)
        PROVE  \A u \in Tasks : Stage(u)
    <2>1. CASE /\ \/ sent[t] + 1 < Chunks /\ UNCHANGED pc
                  \/ sent[t] + 1 = Chunks /\ pc' = [pc EXCEPT ![t] = "awaiting"]
               /\ sent' = [sent EXCEPT ![t] = @ + 1]
               /\ UNCHANGED <<results, request, nextId>>
      <3>1. \A u \in Tasks \ {t} : Stage(u)
        BY <1>1, <2>1 DEF TypeOK
      <3>2. pc[t] = "writing" /\ request'[t] < nextId'
        BY <1>0, <1>7, <2>1 DEF Write
      <3>3. pc'[t] = "writing" \/ (pc'[t] = "awaiting" /\ sent'[t] = Chunks)
        BY <2>1, <3>2 DEF TypeOK
      <3> QED
        BY <3>1, <3>2, <3>3
    <2>2. CASE Resolved /\ Take(t)
      BY <1>4, <1>7, <2>2 DEF Write
    <2> QED
      BY <1>7, <2>1, <2>2 DEF Write
  <1>8. ASSUME NEW t \in Tasks, NEW why \in Outcomes,
               LeaveWrite(t, why) \/ LeaveAwait(t, why)
        PROVE  \A u \in Tasks : Stage(u)
    BY <1>3, <1>8 DEF LeaveWrite, LeaveAwait
  <1>9. ASSUME NEW t \in Tasks, HoldOver(t)
        PROVE  \A u \in Tasks : Stage(u)
    BY <1>2, <1>9 DEF HoldOver
  <1>10. ASSUME NEW t \in Tasks, CancelQueued(t)
         PROVE  \A u \in Tasks : Stage(u)
    <2>1. pc' = [pc EXCEPT ![t] = "idle"]
          /\ UNCHANGED <<request, sent, results, nextId>>
      BY <1>10 DEF CancelQueued, history
    <2> QED
      BY <1>0, <1>1, <2>1 DEF TypeOK
  <1>11. ASSUME NEW t \in Tasks, CancelHolding(t)
         PROVE  \A u \in Tasks : Stage(u)
    BY <1>3, <1>11 DEF CancelHolding, history, Outcomes
  <1>12. ASSUME NEW t \in Tasks, Resume(t)
         PROVE  \A u \in Tasks : Stage(u)
    BY <1>4, <1>12 DEF Resume
  <1>13. ASSUME Environment \/ UNCHANGED vars
         PROVE  \A u \in Tasks : Stage(u)
    BY <1>1, <1>13
       DEF Environment, Answer, StaySilent, Notify, LinkLost, vars, local, history
  <1>14. \A u \in Tasks : Stage(u)
    BY <1>5, <1>6, <1>7, <1>8, <1>9, <1>10, <1>11, <1>12, <1>13
       DEF Next, TaskStep, Progress, WriteFails, Timeout, Cancel, Outcomes
  <1> QED
    BY <1>14 DEF StageInv

(* A write is one of the current command. *)
LEMMA WritingType ==
  ASSUME Inv, NEW t \in Tasks, pc[t] = "writing"
  PROVE  /\ request[t] \in Ids /\ CurrentCmd(t) \in Commands
         /\ sent[t] \in Nat /\ sent[t] < Chunks
  <1>1. CurrentCmd(t) \in Commands
    BY CurrentCmdType DEF Inv
  <1>2. request[t] \in Ids
    BY RequestType DEF Inv
  <1>3. sent[t] \in 0..Chunks /\ sent[t] < Chunks
    BY DEF Inv, TypeOK, JobInv
  <1> QED
    BY <1>1, <1>2, <1>3, ChunksAssumption

(* A sequence keeps the wire: one step per action. *)
LEMMA HoldsWireStep ==
  ASSUME Inv, StageInv, SequenceHoldsWire, [Next]_vars
  PROVE  SequenceHoldsWire'
  <1> USE DEF Inv
  <1> DEFINE Holds(u) ==
        pc'[u] \in Busy /\ (sent'[u] > 0 \/ results'[u] # <<>>) => wire'.task = u
  <1>0. \A u \in Tasks :
          pc[u] \in Busy /\ (sent[u] > 0 \/ results[u] # <<>>) => wire.task = u
    BY DEF SequenceHoldsWire, Inside, Busy
  (* Whoever steps inside the lock is there alone. *)
  <1>1. ASSUME NEW t \in Tasks, \A u \in Tasks \ {t} : pc[u] \notin Busy,
               \A u \in Tasks \ {t} : pc'[u] = pc[u], Holds(t)
        PROVE  \A u \in Tasks : Holds(u)
    BY <1>1
  <1>2. ASSUME NEW t \in Tasks, BeginSend(t), pc[t] \in Busy,
               results[t] # <<>>, UNCHANGED wire
        PROVE  \A u \in Tasks : Holds(u)
    BY <1>0, <1>1, <1>2, AloneInside, BeginSendFacts
  <1>3. ASSUME NEW t \in Tasks, BeginSend(t), holder = None, results'[t] = <<>>
        PROVE  \A u \in Tasks : Holds(u)
    <2>1. \A u \in Tasks : pc[u] \notin Busy
      BY <1>3, NoneAssumption DEF LockInv
    <2>2. Holds(t)
      BY <1>3, BeginSendFacts
    <2> QED
      BY <1>1, <1>3, <2>1, <2>2, BeginSendFacts
  <1>4. ASSUME NEW t \in Tasks, NEW why \in Outcomes, Release(t, why), pc[t] \in Busy
        PROVE  \A u \in Tasks : Holds(u)
    BY <1>1, <1>4, AloneInside DEF Release, TypeOK, Busy
  <1>5. ASSUME NEW t \in Tasks, pc[t] \in {"writing", "awaiting"}, Take(t),
               wire'.task = t
        PROVE  \A u \in Tasks : Holds(u)
    BY <1>1, <1>5, AloneInside, TakeFacts DEF Busy
  <1>6. ASSUME NEW t \in Tasks, NEW j \in Jobs, Call(t, j)
        PROVE  \A u \in Tasks : Holds(u)
    <2>1. results'[t] = <<>> /\ \A u \in Tasks \ {t} : results'[u] = results[u]
      BY <1>6 DEF Call, TypeOK
    <2>2. CASE LockIsFree /\ BeginSend(t)
      BY <1>3, <2>1, <2>2 DEF LockIsFree
    <2>3. CASE pc' = [pc EXCEPT ![t] = "queued"] /\ UNCHANGED sent
      BY <1>0, <1>6, <2>1, <2>3 DEF Call, TypeOK, Busy
    <2> QED
      BY <1>6, <2>2, <2>3 DEF Call
  <1>7. ASSUME NEW t \in Tasks, Wake(t)
        PROVE  \A u \in Tasks : Holds(u)
    <2>1. 1 \in 1..Len(waiters) /\ t = waiters[1]
      BY <1>7 DEF Wake, TypeOK
    <2>2. results[t] = <<>>
      BY <2>1 DEF LockInv, StageInv
    <2> QED
      BY <1>3, <1>7, <2>2 DEF Wake
  <1>8. ASSUME NEW t \in Tasks, Write(t)
        PROVE  \A u \in Tasks : Holds(u)
    <2>1. pc[t] = "writing" /\ wire'.task = t
      BY <1>8, WritingType, DeliverFacts DEF Write
    <2>2. CASE UNCHANGED pc \/ pc' = [pc EXCEPT ![t] = "awaiting"]
      BY <1>1, <2>1, <2>2, AloneInside DEF TypeOK, Busy
    <2> QED
      BY <1>5, <1>8, <2>1, <2>2 DEF Write
  <1>9. ASSUME NEW t \in Tasks, NEW why \in Outcomes,
               LeaveWrite(t, why) \/ LeaveAwait(t, why)
        PROVE  \A u \in Tasks : Holds(u)
    BY <1>4, <1>9 DEF LeaveWrite, LeaveAwait, Busy
  <1>10. ASSUME NEW t \in Tasks, Resume(t)
         PROVE  \A u \in Tasks : Holds(u)
    <2>1. pc[t] = "awaiting" /\ sent[t] > 0
      BY <1>10, ChunksAssumption DEF Resume, StageInv
    <2> QED
      BY <1>0, <1>5, <1>10, <2>1 DEF Resume, Busy
  <1>11. ASSUME NEW t \in Tasks, HoldOver(t)
         PROVE  \A u \in Tasks : Holds(u)
    BY <1>2, <1>11 DEF HoldOver, StageInv, Busy
  <1>12. ASSUME NEW t \in Tasks, CancelHolding(t)
         PROVE  \A u \in Tasks : Holds(u)
    BY <1>4, <1>12 DEF CancelHolding, Outcomes, Busy
  <1>13. ASSUME UNCHANGED <<sent, results, wire>>,
                \A u \in Tasks : pc'[u] \in Busy => pc[u] \in Busy
         PROVE  \A u \in Tasks : Holds(u)
    BY <1>0, <1>13
  <1>14. ASSUME NEW t \in Tasks, CancelQueued(t)
         PROVE  \A u \in Tasks : Holds(u)
    BY <1>13, <1>14 DEF CancelQueued, history, TypeOK, Busy
  <1>15. ASSUME Environment \/ UNCHANGED vars
         PROVE  \A u \in Tasks : Holds(u)
    BY <1>13, <1>15
       DEF Environment, Answer, StaySilent, Notify, LinkLost, vars, local, history
  <1>16. \A u \in Tasks : Holds(u)
    BY <1>6, <1>7, <1>8, <1>9, <1>10, <1>11, <1>12, <1>14, <1>15
       DEF Next, TaskStep, Progress, WriteFails, Timeout, Cancel, Outcomes
  <1> QED
    BY <1>16 DEF SequenceHoldsWire, Inside, Busy

-----------------------------------------------------------------------------
(* Requests and answers under way. *)

(* What was given up stays given up. *)
LEMMA AbandonedGrows ==
  ASSUME [Next]_vars
  PROVE  abandoned \subseteq abandoned'
  <1>1. \A t \in Tasks : Take(t) => abandoned \subseteq abandoned'
    BY SettleFacts DEF Take
  <1>2. ASSUME NEW t \in Tasks, NEW why \in Outcomes,
               LeaveWrite(t, why) \/ LeaveAwait(t, why)
        PROVE  abandoned \subseteq abandoned'
    BY <1>2, SettleFacts DEF LeaveWrite, LeaveAwait
  <1>3. ASSUME NEW t \in Tasks, Write(t) \/ Resume(t)
        PROVE  abandoned \subseteq abandoned'
    BY <1>1, <1>3 DEF Write, Resume
  <1>4. ASSUME NEW t \in Tasks,
               Wake(t) \/ HoldOver(t) \/ CancelQueued(t) \/ CancelHolding(t)
        PROVE  abandoned \subseteq abandoned'
    BY <1>4 DEF Wake, HoldOver, CancelQueued, CancelHolding, history
  <1>5. ASSUME NEW t \in Tasks, NEW j \in Jobs, Call(t, j)
        PROVE  abandoned \subseteq abandoned'
    BY <1>5 DEF Call
  <1>6. ASSUME Environment \/ UNCHANGED vars
        PROVE  abandoned \subseteq abandoned'
    BY <1>6 DEF Environment, Answer, StaySilent, Notify, LinkLost, vars, history
  <1> QED
    BY <1>2, <1>3, <1>4, <1>5, <1>6
       DEF Next, TaskStep, Progress, WriteFails, Timeout, Cancel, Outcomes

(* What a step does to a task: it stays where it was with its request, or it
   goes somewhere else, and a request it then starts to write is new. *)
LEMMA WhereTasksGo ==
  ASSUME Inv, [Next]_vars
  PROVE  /\ nextId' \in {nextId, nextId + 1}
         /\ \A u \in Tasks :
              \/ request'[u] = request[u] /\ (pc'[u] = "writing" => pc[u] = "writing")
              \/ pc'[u] = "writing" /\ request'[u] = nextId /\ nextId' = nextId + 1
  <1> USE DEF Inv
  <1> DEFINE Goes ==
        /\ nextId' \in {nextId, nextId + 1}
        /\ \A u \in Tasks :
             \/ request'[u] = request[u] /\ (pc'[u] = "writing" => pc[u] = "writing")
             \/ pc'[u] = "writing" /\ request'[u] = nextId /\ nextId' = nextId + 1
  <1>1. ASSUME NEW t \in Tasks, BeginSend(t)
        PROVE  Goes
    BY <1>1, BeginSendFacts
  <1>2. ASSUME NEW t \in Tasks, UNCHANGED <<request, nextId>>,
               NEW p \in {"idle", "queued", "awaiting", "holding"},
               pc' = [pc EXCEPT ![t] = p]
        PROVE  Goes
    BY <1>2 DEF TypeOK
  <1>3. ASSUME UNCHANGED <<pc, request, nextId>>
        PROVE  Goes
    BY <1>3
  <1>4. ASSUME NEW t \in Tasks, Take(t)
        PROVE  Goes
    BY <1>4, TakeFacts
  <1>5. ASSUME NEW t \in Tasks, NEW j \in Jobs, Call(t, j)
        PROVE  Goes
    BY <1>1, <1>2, <1>5 DEF Call
  <1>6. ASSUME NEW t \in Tasks, Wake(t) \/ HoldOver(t)
        PROVE  Goes
    BY <1>1, <1>6 DEF Wake, HoldOver
  <1>7. ASSUME NEW t \in Tasks, Write(t)
        PROVE  Goes
    BY <1>2, <1>3, <1>4, <1>7 DEF Write
  <1>8. ASSUME NEW t \in Tasks, NEW why \in Outcomes,
               LeaveWrite(t, why) \/ LeaveAwait(t, why)
        PROVE  Goes
    BY <1>2, <1>8 DEF LeaveWrite, LeaveAwait, Release
  <1>9. ASSUME NEW t \in Tasks, CancelQueued(t) \/ CancelHolding(t)
        PROVE  Goes
    BY <1>2, <1>9 DEF CancelQueued, CancelHolding, Release, history
  <1>10. ASSUME NEW t \in Tasks, Resume(t)
         PROVE  Goes
    BY <1>4, <1>10 DEF Resume
  <1>11. ASSUME Environment \/ UNCHANGED vars
         PROVE  Goes
    BY <1>3, <1>11
       DEF Environment, Answer, StaySilent, Notify, LinkLost, vars, local, history
  <1> QED
    BY <1>5, <1>6, <1>7, <1>8, <1>9, <1>10, <1>11
       DEF Next, TaskStep, Progress, WriteFails, Timeout, Cancel, Outcomes

(* A request that was written is never written again. *)
LEMMA WrittenStays ==
  ASSUME Inv, [Next]_vars, NEW x \in Nat, Written(x)
  PROVE  Written(x)'
  <1>1. nextId \in Nat
    BY DEF Inv, TypeOK, Ids
  <1> QED
    BY <1>1, WhereTasksGo DEF Written

(* A wait ends with its answer, or its request is given up. *)
LEMMA WaitEnds ==
  ASSUME Inv, FutureInv, [Next]_vars, NEW u \in Tasks, pc[u] = "awaiting"
  PROVE  \/ pc'[u] = "awaiting" /\ request'[u] = request[u]
         \/ request[u] \in abandoned'
         \/ request[u] \notin InFlight
  <1> USE DEF Inv
  <1> DEFINE Ends == \/ pc'[u] = "awaiting" /\ request'[u] = request[u]
                     \/ request[u] \in abandoned'
                     \/ request[u] \notin InFlight
  <1>1. ASSUME Settle(u)
        PROVE  Ends
    BY <1>1, SettleFacts DEF FutureInv
  <1>2. ASSUME NEW t \in Tasks \ {u}, NEW p, pc' = [pc EXCEPT ![t] = p],
               \/ UNCHANGED request
               \/ request' = [request EXCEPT ![t] = nextId]
        PROVE  Ends
    BY <1>2 DEF TypeOK
  <1>3. ASSUME UNCHANGED <<pc, request>>
        PROVE  Ends
    BY <1>3
  <1>4. \A t \in Tasks : pc[t] \in Busy => t = u
    BY AloneInside DEF Busy
  <1>5. ASSUME NEW t \in Tasks, NEW j \in Jobs, Call(t, j)
        PROVE  Ends
    BY <1>2, <1>5 DEF Call, BeginSend
  <1>6. ASSUME NEW t \in Tasks, Wake(t)
        PROVE  Ends
    BY <1>6, NoneAssumption DEF Wake, LockInv, Busy
  <1>7. ASSUME NEW t \in Tasks,
               Write(t) \/ HoldOver(t) \/ CancelHolding(t)
        PROVE  Ends
    BY <1>4, <1>7 DEF Write, HoldOver, CancelHolding, Busy
  <1>8. ASSUME NEW t \in Tasks, NEW why \in Outcomes,
               LeaveWrite(t, why) \/ LeaveAwait(t, why)
        PROVE  Ends
    BY <1>1, <1>4, <1>8 DEF LeaveWrite, LeaveAwait, Busy
  <1>9. ASSUME NEW t \in Tasks, CancelQueued(t)
        PROVE  Ends
    BY <1>2, <1>9 DEF CancelQueued
  <1>10. ASSUME NEW t \in Tasks, Resume(t)
         PROVE  Ends
    BY <1>1, <1>4, <1>10 DEF Resume, Take, Busy
  <1>11. ASSUME Environment \/ UNCHANGED vars
         PROVE  Ends
    BY <1>3, <1>11
       DEF Environment, Answer, StaySilent, Notify, LinkLost, vars, local
  <1> QED
    BY <1>5, <1>6, <1>7, <1>8, <1>9, <1>10, <1>11
       DEF Next, TaskStep, Progress, WriteFails, Timeout, Cancel, Outcomes

(* A chunk brings at most its own request on the way. *)
LEMMA SentFlight ==
  ASSUME Inv, NEW t \in Tasks, pc[t] = "writing", Deliver(t), tx' = tx,
         NEW x \in InFlight', x \notin InFlight
  PROVE  x = request[t]
  <1>1. CASE rx' = rx
    BY <1>1 DEF InFlight
  <1>2. CASE /\ Len(rx) \in Nat /\ Len(rx') = Len(rx) + 1
             /\ \A i \in 1..Len(rx) : rx'[i] = rx[i]
             /\ rx'[Len(rx) + 1].id = request[t]
    BY <1>2 DEF InFlight
  <1> QED
    BY <1>1, <1>2, WritingType, DeliverFacts DEF Inv

(* The device and the link bring no request on the way. *)
LEMMA EnvironmentFlight ==
  ASSUME Inv, Environment
  PROVE  InFlight' \subseteq InFlight
  <1> USE DEF Inv
  <1>1. ASSUME NEW ok \in BOOLEAN, Answer(ok)
        PROVE  InFlight' \subseteq InFlight
    <2>1. ASSUME NEW i \in 1..Len(rx')
          PROVE  rx'[i].id \in InFlight
      <3>1. i + 1 \in 1..Len(rx) /\ rx'[i] = rx[i + 1]
        BY <1>1, AnswerFacts
      <3> QED
        BY <3>1 DEF InFlight
    <2>2. ASSUME NEW i \in 1..Len(tx')
          PROVE  tx'[i].frame.id \in InFlight
      <3>1. CASE i \in 1..Len(tx)
        BY <1>1, <3>1, AnswerFacts DEF InFlight
      <3>2. CASE i \notin 1..Len(tx)
        <4>1. i - Len(tx) \in 1..Fragments /\ i = Len(tx) + (i - Len(tx))
          BY <1>1, <3>2, AnswerFacts, FragmentsAssumption
        <4>2. tx'[i].frame.id = rx[1].id /\ 1 \in 1..Len(rx)
          BY <1>1, <4>1, AnswerFacts
        <4> QED
          BY <4>2 DEF InFlight
      <3> QED
        BY <3>1, <3>2
    <2> QED
      BY <2>1, <2>2 DEF InFlight
  <1>2. CASE StaySilent
    <2>1. tx' = tx /\ \A i \in 1..Len(rx') : i + 1 \in 1..Len(rx) /\ rx'[i] = rx[i + 1]
      BY <1>2, SilentFacts DEF StaySilent
    <2> QED
      BY <2>1 DEF InFlight
  <1>3. ASSUME NEW stale \in BOOLEAN, Notify(stale)
        PROVE  InFlight' \subseteq InFlight
    <2>1. rx' = rx /\ \A i \in 1..Len(tx') : i + 1 \in 1..Len(tx) /\ tx'[i] = tx[i + 1]
      BY <1>3, NotifyFacts DEF Notify
    <2> QED
      BY <2>1 DEF InFlight
  <1>4. CASE LinkLost
    <2>1. Len(rx') = 0 /\ Len(tx') = 0
      BY <1>4 DEF LinkLost
    <2> QED
      BY <2>1 DEF InFlight
  <1> QED
    BY <1>1, <1>2, <1>3, <1>4 DEF Environment

(* A request that gets on the way was being written; from then on its task waits
   for the answer, or the request is given up. *)
LEMMA FlightGrows ==
  ASSUME Inv, StageInv, FutureInv, [Next]_vars,
         NEW x \in InFlight', x \notin InFlight
  PROVE  \E t \in Tasks :
           /\ pc[t] = "writing" /\ request[t] = x
           /\ \/ pc'[t] = "awaiting" /\ request'[t] = x
              \/ pc'[t] # "writing" /\ x \in abandoned'
              \/ request'[t] = nextId /\ x \in abandoned'
  <1> USE DEF Inv
  <1> DEFINE Begun(t) == /\ pc[t] = "writing" /\ request[t] = x
                         /\ \/ pc'[t] = "awaiting" /\ request'[t] = x
                            \/ pc'[t] # "writing" /\ x \in abandoned'
                            \/ request'[t] = nextId /\ x \in abandoned'
  <1>1. ASSUME UNCHANGED <<rx, tx>>
        PROVE  FALSE
    BY <1>1 DEF InFlight
  (* No answer to a request that is being written is there. *)
  <1>2. ASSUME NEW t \in Tasks, pc[t] = "writing", Settle(t)
        PROVE  request[t] \in abandoned'
    BY <1>2, SettleFacts DEF FutureInv, Written
  <1>3. ASSUME NEW t \in Tasks, Write(t)
        PROVE  Begun(t)
    <2>1. pc[t] = "writing" /\ x = request[t]
      BY <1>3, SentFlight DEF Write
    <2>2. sent[t] + 1 = Chunks
      BY <1>3, <2>1, <1>1, WritingType, DeliverFacts DEF Write
    <2>3. CASE pc' = [pc EXCEPT ![t] = "awaiting"] /\ UNCHANGED request
      BY <2>1, <2>3 DEF TypeOK
    <2>4. CASE Take(t)
      BY <1>2, <2>1, <2>4, TakeFacts DEF Take
    <2>5. sent[t] \in Nat
      BY <2>1, WritingType
    <2> QED
      BY <1>3, <2>2, <2>3, <2>4, <2>5, ChunksAssumption DEF Write
  <1>4. ASSUME NEW t \in Tasks, NEW why \in Outcomes, LeaveWrite(t, why)
        PROVE  Begun(t)
    <2>1. pc[t] = "writing" /\ tx' = tx /\ (Deliver(t) \/ rx' = rx)
      BY <1>4 DEF LeaveWrite
    <2>2. x = request[t]
      BY <1>1, <2>1, SentFlight
    <2>3. pc'[t] # "writing"
      BY <1>4 DEF LeaveWrite, Release, TypeOK
    <2> QED
      BY <1>2, <1>4, <2>1, <2>2, <2>3 DEF LeaveWrite
  <1>5. ASSUME NEW t \in Tasks, NEW j \in Jobs, Call(t, j)
        PROVE  FALSE
    BY <1>1, <1>5 DEF Call, link
  <1>6. ASSUME NEW t \in Tasks,
               \/ Wake(t) \/ HoldOver(t) \/ CancelQueued(t) \/ CancelHolding(t)
               \/ Resume(t) \/ \E why \in Outcomes : LeaveAwait(t, why)
        PROVE  FALSE
    BY <1>1, <1>6
       DEF Wake, HoldOver, CancelQueued, CancelHolding, Resume, LeaveAwait, link
  <1>7. ~Environment
    BY EnvironmentFlight
  <1>8. ~UNCHANGED vars
    BY <1>1 DEF vars, link
  <1> QED
    BY <1>3, <1>4, <1>5, <1>6, <1>7, <1>8
       DEF Next, TaskStep, Progress, WriteFails, Timeout, Cancel, Outcomes

(* What is under way: a request that goes on its way has a task that waits, and
   one that was on its way keeps it or is given up. *)
LEMMA FlightStep ==
  ASSUME Inv, StageInv, FutureInv, FlightInv, [Next]_vars
  PROVE  FlightInv'
  <1> USE DEF Inv
  <1> SUFFICES ASSUME NEW x \in InFlight'
               PROVE  /\ Written(x)'
                      /\ \/ x \in abandoned'
                         \/ \E t \in Tasks : pc'[t] = "awaiting" /\ request'[t] = x
    BY DEF FlightInv
  <1>1. InFlight \subseteq Nat
    <2>1. \A i \in 1..Len(rx) : rx[i].id \in Nat
      <3>1. \A i \in 1..Len(rx) : rx[i] \in [id : Ids, cmd : Commands]
        BY ElementOfSeq DEF TypeOK
      <3> QED
        BY <3>1 DEF Ids
    <2>2. \A i \in 1..Len(tx) : tx[i].frame.id \in Nat
      <3>1. \A i \in 1..Len(tx) : tx[i] \in [frame : Frames, part : 1..Fragments]
        BY ElementOfSeq DEF TypeOK
      <3> QED
        BY <3>1 DEF Frames, Ids
    <2> QED
      BY <2>1, <2>2 DEF InFlight
  <1>2. CASE x \in InFlight
    <2>1. Written(x)'
      BY <1>1, <1>2, WrittenStays DEF FlightInv
    <2>2. CASE x \in abandoned
      BY <2>1, <2>2, AbandonedGrows
    <2>3. ASSUME NEW t \in Tasks, pc[t] = "awaiting", request[t] = x
          PROVE  x \in abandoned' \/ (pc'[t] = "awaiting" /\ request'[t] = x)
      BY <1>2, <2>3, WaitEnds
    <2> QED
      BY <1>2, <2>1, <2>2, <2>3 DEF FlightInv
  <1>3. CASE x \notin InFlight
    <2> PICK t \in Tasks :
          /\ pc[t] = "writing" /\ request[t] = x
          /\ \/ pc'[t] = "awaiting" /\ request'[t] = x
             \/ pc'[t] # "writing" /\ x \in abandoned'
             \/ request'[t] = nextId /\ x \in abandoned'
      BY <1>3, FlightGrows
    <2>1. x \in Nat /\ nextId \in Nat /\ x < nextId
      BY WritingType DEF StageInv, TypeOK, Ids
    <2>2. \A u \in Tasks : pc'[u] = "writing" => request'[u] # x
      <3>1. \A u \in Tasks \ {t} : pc'[u] = "writing" => request'[u] = nextId
        BY WhereTasksGo, AloneInside DEF Busy
      <3> QED
        BY <2>1, <3>1
    <2>3. x < nextId'
      BY <2>1, WhereTasksGo
    <2> QED
      BY <2>2, <2>3 DEF Written
  <1> QED
    BY <1>2, <1>3

(* The queues: a chunk may add the request being written, which is not there
   yet; an answer takes the place of its request. *)
LEMMA QueueStep ==
  ASSUME Inv, FlightInv, QueueInv, [Next]_vars
  PROVE  QueueInv'
  <1> USE DEF Inv
  <1>1. ASSUME UNCHANGED <<rx, tx>>
        PROVE  QueueInv'
    BY <1>1 DEF QueueInv
  <1>2. ASSUME NEW t \in Tasks, pc[t] = "writing", Deliver(t), tx' = tx
        PROVE  QueueInv'
    <2>1. CASE rx' = rx
      BY <1>1, <1>2, <2>1
    <2>2. CASE /\ Len(rx) \in Nat /\ Len(rx') = Len(rx) + 1
               /\ \A i \in 1..Len(rx) : rx'[i] = rx[i]
               /\ rx'[Len(rx) + 1].id = request[t]
      <3>1. request[t] \notin InFlight
        BY <1>2 DEF FlightInv, Written
      <3>2. /\ \A i \in 1..Len(rx) : rx[i].id # request[t]
            /\ \A i \in 1..Len(tx) : tx[i].frame.id # request[t]
        BY <3>1 DEF InFlight
      <3>3. \A i \in 1..Len(rx') : i \in 1..Len(rx) \/ i = Len(rx) + 1
        BY <2>2
      <3>4. \A i, j \in 1..Len(rx') : rx'[i].id = rx'[j].id => i = j
        BY <2>2, <3>2, <3>3 DEF QueueInv
      <3>5. \A i \in 1..Len(rx'), j \in 1..Len(tx) : rx'[i].id # tx[j].frame.id
        BY <2>2, <3>2, <3>3 DEF QueueInv
      <3> QED
        BY <1>2, <3>4, <3>5 DEF QueueInv
    <2> QED
      BY <1>2, <2>1, <2>2, WritingType, DeliverFacts
  <1>3. ASSUME NEW ok \in BOOLEAN, Answer(ok)
        PROVE  QueueInv'
    <2>1. /\ Len(rx) \in Nat \ {0} /\ Len(rx') = Len(rx) - 1
          /\ \A i \in 1..(Len(rx) - 1) : rx'[i] = rx[i + 1]
      BY <1>3, AnswerFacts
    <2>2. /\ Len(tx) \in Nat /\ Len(tx') = Len(tx) + Fragments
          /\ \A i \in 1..Len(tx) : tx'[i] = tx[i]
          /\ \A i \in 1..Fragments : /\ tx'[Len(tx) + i].frame.id = rx[1].id
                                     /\ tx'[Len(tx) + i].part = i
      BY <1>3, AnswerFacts
    <2>3. \A i \in 1..Len(rx') : i + 1 \in 1..Len(rx) /\ i + 1 # 1 /\ rx'[i] = rx[i + 1]
      BY <2>1
    <2>4. 1 \in 1..Len(rx)
      BY <2>1
    (* A fragment that is not an old one is one of the answer. *)
    <2>5. \A j \in 1..Len(tx') : j \notin 1..Len(tx) =>
            /\ j > Len(tx) /\ tx'[j].frame.id = rx[1].id
            /\ tx'[j].part = j - Len(tx)
      <3>1. ASSUME NEW j \in 1..Len(tx'), j \notin 1..Len(tx)
            PROVE  /\ j > Len(tx) /\ tx'[j].frame.id = rx[1].id
                   /\ tx'[j].part = j - Len(tx)
        <4>1. j > Len(tx) /\ j - Len(tx) \in 1..Fragments /\ j = Len(tx) + (j - Len(tx))
          BY <2>2, <3>1, FragmentsAssumption
        <4> QED
          BY <2>2, <4>1
      <3> QED
        BY <3>1
    <2>6. \A i, j \in 1..Len(rx') : rx'[i].id = rx'[j].id => i = j
      <3>1. ASSUME NEW i \in 1..Len(rx'), NEW j \in 1..Len(rx'), rx'[i].id = rx'[j].id
            PROVE  i = j
        <4>1. /\ i + 1 \in 1..Len(rx) /\ j + 1 \in 1..Len(rx)
              /\ rx[i + 1].id = rx[j + 1].id
          BY <2>3, <3>1
        <4>2. i + 1 = j + 1
          BY <4>1 DEF QueueInv
        <4> QED
          BY <4>2
      <3> QED
        BY <3>1
    <2>7. \A i \in 1..Len(rx'), j \in 1..Len(tx') : rx'[i].id # tx'[j].frame.id
      <3>1. ASSUME NEW i \in 1..Len(rx'), NEW j \in 1..Len(tx')
            PROVE  rx'[i].id # tx'[j].frame.id
        <4>1. CASE j \in 1..Len(tx)
          BY <2>2, <2>3, <4>1 DEF QueueInv
        <4>2. CASE j \notin 1..Len(tx)
          BY <2>3, <2>4, <2>5, <4>2 DEF QueueInv
        <4> QED
          BY <4>1, <4>2
      <3> QED
        BY <3>1
    <2>8. \A i, j \in 1..Len(tx') :
            i < j /\ tx'[i].frame.id = tx'[j].frame.id => tx'[i].part < tx'[j].part
      <3>1. ASSUME NEW i \in 1..Len(tx'), NEW j \in 1..Len(tx'), i < j,
                   tx'[i].frame.id = tx'[j].frame.id
            PROVE  tx'[i].part < tx'[j].part
        <4>1. CASE j \in 1..Len(tx)
          <5>1. i \in 1..Len(tx)
            BY <2>2, <3>1, <4>1
          <5> QED
            BY <2>2, <3>1, <4>1, <5>1 DEF QueueInv
        <4>2. CASE i \in 1..Len(tx) /\ j \notin 1..Len(tx)
          <5>1. tx[i].frame.id = rx[1].id
            BY <2>2, <2>5, <3>1, <4>2
          <5> QED
            BY <2>4, <4>2, <5>1 DEF QueueInv
        <4>3. CASE i \notin 1..Len(tx) /\ j \notin 1..Len(tx)
          BY <2>2, <2>5, <3>1, <4>3
        <4> QED
          BY <4>1, <4>2, <4>3
      <3> QED
        BY <3>1
    <2> QED
      BY <2>6, <2>7, <2>8 DEF QueueInv
  <1>4. CASE StaySilent
    <2>1. \A i \in 1..Len(rx') : i + 1 \in 1..Len(rx) /\ rx'[i] = rx[i + 1]
      BY <1>4, SilentFacts
    <2>2. tx' = tx
      BY <1>4 DEF StaySilent
    <2>3. \A i, j \in 1..Len(rx') : rx'[i].id = rx'[j].id => i = j
      <3>1. ASSUME NEW i \in 1..Len(rx'), NEW j \in 1..Len(rx'), rx'[i].id = rx'[j].id
            PROVE  i = j
        <4>1. /\ i + 1 \in 1..Len(rx) /\ j + 1 \in 1..Len(rx)
              /\ rx[i + 1].id = rx[j + 1].id
          BY <2>1, <3>1
        <4>2. i + 1 = j + 1
          BY <4>1 DEF QueueInv
        <4> QED
          BY <4>2
      <3> QED
        BY <3>1
    <2> QED
      BY <2>1, <2>2, <2>3 DEF QueueInv
  <1>5. ASSUME NEW stale \in BOOLEAN, Notify(stale)
        PROVE  QueueInv'
    <2>1. \A i \in 1..Len(tx') : i + 1 \in 1..Len(tx) /\ tx'[i] = tx[i + 1]
      BY <1>5, NotifyFacts
    <2>2. rx' = rx
      BY <1>5 DEF Notify
    <2>3. ASSUME NEW i \in 1..Len(tx'), NEW j \in 1..Len(tx'), i < j,
                 tx'[i].frame.id = tx'[j].frame.id
          PROVE  tx'[i].part < tx'[j].part
      <3>1. i + 1 < j + 1
        BY <2>3
      <3> QED
        BY <2>1, <2>3, <3>1 DEF QueueInv
    <2>4. ASSUME NEW i \in 1..Len(rx'), NEW j \in 1..Len(tx')
          PROVE  rx'[i].id # tx'[j].frame.id
      <3>1. j + 1 \in 1..Len(tx) /\ tx'[j] = tx[j + 1] /\ i \in 1..Len(rx)
        BY <2>1, <2>2
      <3>2. rx[i].id # tx[j + 1].frame.id
        BY <3>1 DEF QueueInv
      <3> QED
        BY <2>2, <3>1, <3>2
    <2>5. \A i, j \in 1..Len(rx') : rx'[i].id = rx'[j].id => i = j
      BY <2>2 DEF QueueInv
    <2> QED
      BY <2>3, <2>4, <2>5, Zenon DEF QueueInv
  <1>6. CASE LinkLost
    <2>1. Len(rx') = 0 /\ Len(tx') = 0
      BY <1>6 DEF LinkLost
    <2> QED
      BY <2>1 DEF QueueInv
  <1>7. ASSUME NEW t \in Tasks, NEW j \in Jobs, Call(t, j)
        PROVE  QueueInv'
    BY <1>1, <1>7 DEF Call, link
  <1>8. ASSUME NEW t \in Tasks,
               \/ Wake(t) \/ HoldOver(t) \/ CancelQueued(t) \/ CancelHolding(t)
               \/ Resume(t) \/ \E why \in Outcomes : LeaveAwait(t, why)
        PROVE  QueueInv'
    BY <1>1, <1>8
       DEF Wake, HoldOver, CancelQueued, CancelHolding, Resume, LeaveAwait, link
  <1>9. ASSUME NEW t \in Tasks, Write(t) \/ \E why \in Outcomes : LeaveWrite(t, why)
        PROVE  QueueInv'
    BY <1>1, <1>2, <1>9 DEF Write, LeaveWrite
  <1>10. CASE UNCHANGED vars
    BY <1>1, <1>10 DEF vars, link
  <1> QED
    BY <1>3, <1>4, <1>5, <1>6, <1>7, <1>8, <1>9, <1>10
       DEF Next, TaskStep, Progress, Environment, WriteFails, Timeout, Cancel, Outcomes

-----------------------------------------------------------------------------
(* Answers. *)

(* A frame gets into the future by a notification only, and leaves it for good
   when the command ends. *)
LEMMA FutureMoves ==
  ASSUME Inv, [Next]_vars, Resolved'
  PROVE  \/ response_future' = response_future
         \/ \E stale \in BOOLEAN : Notify(stale)
  <1> USE DEF Inv
  <1>1. \A t \in Tasks : ~BeginSend(t) /\ ~Take(t)
    BY BeginSendFacts, TakeFacts
  <1>2. response_future' # None
    BY DEF Resolved
  <1>3. ASSUME NEW t \in Tasks, NEW j \in Jobs, Call(t, j)
        PROVE  response_future' = response_future
    BY <1>1, <1>3 DEF Call, device
  <1>4. ASSUME NEW t \in Tasks, TaskStep(t), \A j \in Jobs : ~Call(t, j)
        PROVE  response_future' = response_future
    BY <1>1, <1>2, <1>4
       DEF TaskStep, Progress, Wake, Write, WriteFails, LeaveWrite, Resume, Timeout,
           LeaveAwait, HoldOver, Cancel, CancelQueued, CancelHolding, device
  <1>5. ASSUME Answer(TRUE) \/ Answer(FALSE) \/ StaySilent \/ LinkLost
               \/ UNCHANGED vars
        PROVE  response_future' = response_future
    BY <1>5 DEF Answer, StaySilent, LinkLost, vars, device
  <1> QED
    BY <1>3, <1>4, <1>5 DEF Next, Environment

(* An answer that is handed to a future was under way and no longer is. *)
LEMMA Notified ==
  ASSUME Inv, QueueInv, NEW stale \in BOOLEAN, Notify(stale),
         response_future' # response_future
  PROVE  /\ response_future'.frame.id \in InFlight
         /\ response_future'.frame.id \notin InFlight'
         /\ response_future'.id = response_future.id /\ response_future # None
         /\ ~Resolved
  <1> USE DEF Inv
  <1>1. /\ response_future \in Futures /\ ~Resolved /\ tx[1].part = Fragments
        /\ response_future'.frame = tx[1].frame
        /\ response_future'.id = response_future.id
    BY NotifyFacts
  <1>2. 1 \in 1..Len(tx)
    BY NotifyFacts
  <1>3. ASSUME NEW i \in 1..Len(tx')
        PROVE  tx'[i].frame.id # tx[1].frame.id
    <2>1. i + 1 \in 1..Len(tx) /\ 1 < i + 1 /\ tx'[i] = tx[i + 1]
      BY NotifyFacts
    <2>2. tx[i + 1].part \in 1..Fragments
      BY <2>1, NotifyFacts
    <2>3. ~(tx[1].part < tx[i + 1].part)
      BY <1>1, <2>2, FragmentsAssumption
    <2> QED
      BY <1>2, <2>1, <2>3 DEF QueueInv
  <1>4. \A i \in 1..Len(rx') : rx'[i].id # tx[1].frame.id
    BY <1>2 DEF QueueInv, Notify
  <1> QED
    BY <1>1, <1>2, <1>3, <1>4, NoneAssumption DEF InFlight

(* The answer in the future. *)
LEMMA FutureInvStep ==
  ASSUME Inv, StageInv, QueueInv, FlightInv, FutureInv, [Next]_vars
  PROVE  FutureInv'
  <1> USE DEF Inv
  <1>1. ASSUME Resolved'
        PROVE  response_future'.frame.id \in Nat
    <2>1. response_future' \in Futures /\ response_future'.frame \in Frames
      BY <1>1, TypeStep DEF Resolved, TypeOK, Futures
    <2> QED
      BY <2>1 DEF Frames, Ids
  <1> SUFFICES ASSUME Resolved', NEW x \in Nat, x = response_future'.frame.id
               PROVE  /\ Written(x)' /\ x \notin InFlight'
                      /\ x = response_future'.id \/ x \in abandoned'
    BY <1>1, Zenon DEF FutureInv
  <1>2. CASE response_future' = response_future
    <2>1. Resolved /\ x = response_future.frame.id
      BY <1>2 DEF Resolved
    <2>2. Written(x) /\ x \notin InFlight
          /\ (x = response_future.id \/ x \in abandoned)
      BY <2>1 DEF FutureInv
    <2>3. Written(x)'
      BY <2>2, WrittenStays
    <2>4. x \notin InFlight'
      BY <2>2, FlightGrows DEF Written
    <2> QED
      BY <1>2, <2>2, <2>3, <2>4, AbandonedGrows
  <1>3. ASSUME NEW stale \in BOOLEAN, Notify(stale), response_future' # response_future
        PROVE  /\ Written(x)' /\ x \notin InFlight'
               /\ x = response_future'.id \/ x \in abandoned'
    <2>1. /\ x \in InFlight /\ x \notin InFlight'
          /\ response_future'.id = response_future.id
      BY <1>3, Notified
    <2>2. Written(x)'
      BY <2>1, WrittenStays DEF FlightInv
    <2>3. x \in abandoned \/ \E t \in Tasks : pc[t] = "awaiting" /\ request[t] = x
      BY <2>1 DEF FlightInv
    <2>4. x \in abandoned \/ x = response_future.id
      BY <2>3 DEF FutureOwner
    <2> QED
      BY <2>1, <2>2, <2>4, AbandonedGrows
  <1> QED
    BY <1>2, <1>3, FutureMoves

(* The entry of the results was there before. *)
Kept(u, m) == m \in 1..Len(results[u]) /\ results'[u][m] = results[u][m]

(* The entry of the results is the answer that was in the future. *)
JustTaken(u, m) ==
  /\ Resolved /\ ~Resolved'
  /\ pc[u] \in Busy /\ m = Len(results[u]) + 1
  /\ results'[u][m] = Taken(u) /\ request[u] = response_future.id

(* A result is an old one or the answer the future held for its task. *)
LEMMA ResultMoves ==
  ASSUME Inv, [Next]_vars
  PROVE  \A u \in Tasks : \A m \in 1..Len(results'[u]) : Kept(u, m) \/ JustTaken(u, m)
  <1> USE DEF Inv
  <1> DEFINE Fine == \A u \in Tasks : \A m \in 1..Len(results'[u]) :
                       Kept(u, m) \/ JustTaken(u, m)
  <1>1. ASSUME UNCHANGED results
        PROVE  Fine
    BY <1>1 DEF Kept
  <1>2. ASSUME NEW t \in Tasks, pc[t] \in {"writing", "awaiting"}, Resolved, Take(t)
        PROVE  Fine
    <2>1. CASE results' = results
      BY <1>1, <2>1
    <2>2. CASE results' = [results EXCEPT ![t] = Append(@, Taken(t))]
      <3>1. /\ Len(results[t]) \in Nat /\ Len(results'[t]) = Len(results[t]) + 1
            /\ results'[t][Len(results[t]) + 1] = Taken(t)
            /\ \A m \in 1..Len(results[t]) : results'[t][m] = results[t][m]
            /\ \A u \in Tasks \ {t} : results'[u] = results[u]
        BY <1>2, <2>2, TakenType, TakenResults
      <3>2. \A u \in Tasks \ {t} : \A m \in 1..Len(results'[u]) : Kept(u, m)
        BY <3>1 DEF Kept
      <3>3. ASSUME NEW m \in 1..Len(results'[t])
            PROVE  Kept(t, m) \/ JustTaken(t, m)
        <4>1. CASE m \in 1..Len(results[t])
          BY <3>1, <4>1 DEF Kept
        <4>2. CASE m = Len(results[t]) + 1
          BY <1>2, <3>1, <4>2, TakeFacts, TakenType DEF JustTaken, Busy
        <4> QED
          BY <3>1, <4>1, <4>2
      <3> QED
        BY <3>2, <3>3
    <2> QED
      BY <1>2, <2>1, <2>2, TakeFacts
  <1>3. ASSUME NEW t \in Tasks, NEW j \in Jobs, Call(t, j)
        PROVE  Fine
    <2>1. Len(results'[t]) = 0 /\ \A u \in Tasks \ {t} : results'[u] = results[u]
      BY <1>3 DEF Call, TypeOK
    <2> QED
      BY <2>1 DEF Kept
  <1>4. ASSUME NEW t \in Tasks, Write(t) \/ Resume(t)
        PROVE  Fine
    BY <1>1, <1>2, <1>4 DEF Write, Resume
  <1>5. ASSUME NEW t \in Tasks,
               \/ Wake(t) \/ HoldOver(t) \/ CancelQueued(t) \/ CancelHolding(t)
               \/ \E why \in Outcomes : LeaveWrite(t, why) \/ LeaveAwait(t, why)
        PROVE  Fine
    BY <1>1, <1>5
       DEF Wake, HoldOver, CancelQueued, CancelHolding, LeaveWrite, LeaveAwait
  <1>6. ASSUME Environment \/ UNCHANGED vars
        PROVE  Fine
    BY <1>1, <1>6
       DEF Environment, Answer, StaySilent, Notify, LinkLost, vars, local
  <1> QED
    BY <1>3, <1>4, <1>5, <1>6
       DEF Next, TaskStep, Progress, WriteFails, Timeout, Cancel, Outcomes

(* Results have the identity of a request. *)
LEMMA ResultType ==
  ASSUME Inv, NEW u \in Tasks, NEW m \in 1..Len(results[u])
  PROVE  results[u][m] \in [frame : Frames, asked : Ids]
         /\ results[u][m].frame.id \in Nat
  <1> DEFINE R == [frame : Frames, asked : Ids]
  <1>1. results[u][m] \in R
    <2>1. results[u] \in Seq(R)
      BY DEF Inv, TypeOK
    <2> HIDE DEF R
    <2> QED
      BY <2>1, ElementOfSeq
  <1> QED
    BY <1>1 DEF Frames, Ids

(* The answers that were taken. *)
LEMMA ResultInvStep ==
  ASSUME Inv, StageInv, QueueInv, FlightInv, FutureInv, ResultInv, [Next]_vars
  PROVE  ResultInv'
  <1> SUFFICES ASSUME NEW u \in Tasks, NEW m \in 1..Len(results'[u]),
                      NEW x, x = results'[u][m].frame.id
               PROVE  /\ Written(x)' /\ x \notin InFlight'
                      /\ x = results'[u][m].asked \/ x \in abandoned'
                      /\ Resolved' => response_future'.frame.id # x
    BY Zenon DEF ResultInv
  (* Nothing that was written and is not under way gets under way again. *)
  <1>1. ASSUME x \in Nat, Written(x), x \notin InFlight
        PROVE  Written(x)' /\ x \notin InFlight'
    <2>1. Written(x)'
      BY <1>1, WrittenStays
    <2>2. x \notin InFlight'
      BY <1>1, FlightGrows DEF Written
    <2> QED
      BY <2>1, <2>2
  <1>2. CASE Kept(u, m)
    <2>1. /\ m \in 1..Len(results[u]) /\ x = results[u][m].frame.id
          /\ results'[u][m].asked = results[u][m].asked
      BY <1>2 DEF Kept
    <2>2. /\ Written(x) /\ x \notin InFlight
          /\ x = results[u][m].asked \/ x \in abandoned
          /\ Resolved => response_future.frame.id # x
      BY <2>1 DEF ResultInv
    <2>3. Written(x)' /\ x \notin InFlight'
      BY <1>1, <2>1, <2>2, ResultType
    <2>4. ASSUME Resolved'
          PROVE  response_future'.frame.id # x
      <3>1. CASE response_future' = response_future
        BY <2>2, <2>4, <3>1 DEF Resolved
      <3>2. CASE response_future' # response_future
        BY <2>2, <2>4, <3>2, FutureMoves, Notified
      <3> QED
        BY <3>1, <3>2
    <2> QED
      BY <2>1, <2>2, <2>3, <2>4, AbandonedGrows
  <1>3. CASE JustTaken(u, m)
    <2>1. /\ Resolved /\ ~Resolved'
          /\ x = response_future.frame.id
          /\ results'[u][m].asked = response_future.id
      BY <1>3 DEF JustTaken, Taken
    <2>2. x \in Nat
      BY <2>1 DEF Inv, TypeOK, Futures, Frames, Ids, Resolved
    <2>3. /\ Written(x) /\ x \notin InFlight
          /\ x = response_future.id \/ x \in abandoned
      BY <2>1 DEF FutureInv
    <2> QED
      BY <1>1, <2>1, <2>2, <2>3, AbandonedGrows
  <1> QED
    BY <1>2, <1>3, ResultMoves

(* No answer is taken twice: the one in the future is none of those taken. *)
LEMMA NotTakenTwiceStep ==
  ASSUME Inv, ResultInv, NoAnswerTakenTwice, [Next]_vars
  PROVE  NoAnswerTakenTwice'
  <1> SUFFICES ASSUME NEW t \in Tasks, NEW u \in Tasks,
                      NEW k \in 1..Len(results'[t]), NEW m \in 1..Len(results'[u]),
                      results'[t][k].frame.id = results'[u][m].frame.id
               PROVE  t = u /\ k = m
    BY DEF NoAnswerTakenTwice
  <1>1. CASE Kept(t, k) /\ Kept(u, m)
    BY <1>1 DEF Kept, NoAnswerTakenTwice
  <1>2. CASE Kept(t, k) /\ JustTaken(u, m)
    BY <1>2 DEF Kept, JustTaken, Taken, ResultInv
  <1>3. CASE JustTaken(t, k) /\ Kept(u, m)
    BY <1>3 DEF Kept, JustTaken, Taken, ResultInv
  <1>4. CASE JustTaken(t, k) /\ JustTaken(u, m)
    BY <1>4, BusyIsHolder DEF JustTaken, Inv
  <1> QED
    BY <1>1, <1>2, <1>3, <1>4, ResultMoves

-----------------------------------------------------------------------------
(* Chunks. *)

(* A chunk is the next one of the frame on the link, or the first of a new frame
   on a link whose last frame is complete or was given up. *)
NextChunk ==
  \/ wire'.id = wire.id /\ wire'.chunk = wire.chunk + 1
  \/ /\ wire'.id > wire.id /\ wire'.chunk = 1
     /\ wire.chunk \in {0, Chunks} \/ wire.id \in abandoned

LEMMA DeliversNextChunk ==
  ASSUME Inv, WireInv, NEW t \in Tasks, pc[t] = "writing", Deliver(t)
  PROVE  NextChunk
  <1>1. wire'.id = request[t] /\ wire'.chunk = sent[t] + 1
    BY WritingType, DeliverFacts DEF Inv
  <1>2. sent[t] \in Nat /\ wire.id \in Nat /\ request[t] \in Nat
    BY WritingType DEF Inv, TypeOK
  <1>3. CASE sent[t] > 0
    BY <1>1, <1>3 DEF WireInv, NextChunk
  <1>4. CASE sent[t] = 0
    <2>1. \A u \in Tasks : ~(pc[u] = "writing" /\ sent[u] > 0)
      BY <1>4, AloneInside DEF Inv, Busy
    <2>2. wire.id < request[t]
      BY <1>4 DEF WireInv
    <2>3. wire.chunk \in {0, Chunks} \/ wire.id \in abandoned
      BY <2>1 DEF WireInv
    <2> QED
      BY <1>1, <1>2, <1>4, <2>2, <2>3 DEF NextChunk
  <1> QED
    BY <1>2, <1>3, <1>4

(* The wire changes by chunks only. *)
LEMMA WireMoves ==
  ASSUME Inv, [Next]_vars
  PROVE  wire' = wire \/ \E t \in Tasks : pc[t] = "writing" /\ Deliver(t)
  <1>1. ASSUME NEW t \in Tasks, NEW j \in Jobs, Call(t, j)
        PROVE  wire' = wire
    BY <1>1 DEF Call
  <1>2. ASSUME NEW t \in Tasks,
               \/ Wake(t) \/ HoldOver(t) \/ CancelQueued(t) \/ CancelHolding(t)
               \/ Resume(t) \/ \E why \in Outcomes : LeaveAwait(t, why)
        PROVE  wire' = wire
    BY <1>2
       DEF Wake, HoldOver, CancelQueued, CancelHolding, Resume, LeaveAwait, history
  <1>3. ASSUME NEW t \in Tasks, Write(t) \/ \E why \in Outcomes : LeaveWrite(t, why)
        PROVE  wire' = wire \/ (pc[t] = "writing" /\ Deliver(t))
    BY <1>3 DEF Write, LeaveWrite
  <1>4. ASSUME Environment \/ UNCHANGED vars
        PROVE  wire' = wire
    BY <1>4 DEF Environment, Answer, StaySilent, Notify, LinkLost, vars, history
  <1> QED
    BY <1>1, <1>2, <1>3, <1>4
       DEF Next, TaskStep, Progress, WriteFails, Timeout, Cancel, Outcomes

(* The frame on the wire: one step per action. *)
LEMMA WireStep ==
  ASSUME Inv, StageInv, FutureInv, WireInv, [Next]_vars
  PROVE  WireInv'
  <1> USE DEF Inv
  (* The frame on the link is over for everybody. *)
  <1> DEFINE Over == /\ wire'.chunk \in {0, Chunks} \/ wire'.id \in abandoned'
                     /\ wire'.id \in Nat /\ wire'.id < nextId
  <1>0. /\ nextId \in Nat /\ wire.id \in Nat /\ wire.id < nextId
        /\ \A u \in Tasks : request[u] \in Nat /\ request[u] < nextId
        /\ \A u \in Tasks : sent[u] \in Nat
    BY ChunksAssumption DEF TypeOK, Ids, StageInv, WireInv
  <1>1. abandoned \subseteq abandoned' /\ nextId' \in {nextId, nextId + 1}
    BY AbandonedGrows, WhereTasksGo
  (* Nobody writes, or whoever does has a new request. *)
  <1>2. ASSUME Over,
               \A u \in Tasks : pc'[u] = "writing" => request'[u] = nextId /\ sent'[u] = 0
        PROVE  WireInv'
    BY <1>0, <1>1, <1>2 DEF WireInv
  (* Nobody was in the middle of a frame. *)
  <1>3. ASSUME wire' = wire, \A u \in Tasks : pc[u] # "writing"
        PROVE  Over
    BY <1>0, <1>1, <1>3 DEF WireInv
  <1>4. ASSUME UNCHANGED <<pc, request, sent, wire>>
        PROVE  WireInv'
    BY <1>0, <1>1, <1>4 DEF WireInv
  <1>5. \A u \in Tasks : pc[u] \in Busy => \A v \in Tasks \ {u} : pc[v] # "writing"
    BY AloneInside DEF Busy
  <1>6. ASSUME NEW t \in Tasks, pc[t] \in {"writing", "awaiting"}, Take(t), Over
        PROVE  WireInv'
    BY <1>2, <1>5, <1>6, TakeFacts DEF Busy
  <1>7. ASSUME NEW t \in Tasks, NEW j \in Jobs, Call(t, j)
        PROVE  WireInv'
    <2>1. wire' = wire
      BY <1>7 DEF Call
    <2>2. CASE LockIsFree /\ BeginSend(t)
      <3>1. \A u \in Tasks : pc[u] # "writing"
        BY <2>2, NoneAssumption DEF LockIsFree, LockInv, Busy
      <3> QED
        BY <1>2, <1>3, <2>1, <2>2, <3>1, BeginSendFacts
    <2>3. CASE pc' = [pc EXCEPT ![t] = "queued"] /\ UNCHANGED <<request, sent, nextId>>
      <3>1. pc[t] = "idle" /\ abandoned' = abandoned
        BY <1>7 DEF Call
      <3>2. \A u \in Tasks : pc'[u] = "writing" <=> pc[u] = "writing"
        BY <2>3, <3>1 DEF TypeOK
      <3> QED
        BY <2>1, <2>3, <3>1, <3>2 DEF WireInv
    <2> QED
      BY <1>7, <2>2, <2>3 DEF Call
  <1>8. ASSUME NEW t \in Tasks, Wake(t)
        PROVE  WireInv'
    <2>1. \A u \in Tasks : pc[u] # "writing"
      BY <1>8, NoneAssumption DEF Wake, LockInv, Busy
    <2> QED
      BY <1>2, <1>3, <1>8, <2>1, BeginSendFacts DEF Wake
  <1>9. ASSUME NEW t \in Tasks, HoldOver(t)
        PROVE  WireInv'
    <2>1. \A u \in Tasks : pc[u] # "writing"
      BY <1>5, <1>9 DEF HoldOver, Busy
    <2> QED
      BY <1>2, <1>3, <1>9, <2>1, BeginSendFacts DEF HoldOver
  <1>10. ASSUME NEW t \in Tasks, Write(t)
         PROVE  WireInv'
    <2>1. pc[t] = "writing" /\ wire'.id = request[t] /\ wire'.chunk = sent[t] + 1
      BY <1>10, WritingType, DeliverFacts DEF Write
    <2>2. CASE sent[t] + 1 < Chunks /\ UNCHANGED <<pc, request>>
               /\ sent' = [sent EXCEPT ![t] = @ + 1]
      <3>1. sent'[t] = sent[t] + 1 /\ \A u \in Tasks \ {t} : pc'[u] # "writing"
        BY <1>5, <2>1, <2>2 DEF TypeOK, Busy
      <3> QED
        BY <1>0, <1>1, <2>1, <2>2, <3>1 DEF WireInv
    <2>3. CASE sent[t] + 1 = Chunks
      <3>1. Over
        BY <1>0, <2>1, <2>3
      <3>2. CASE pc' = [pc EXCEPT ![t] = "awaiting"]
        <4>1. \A u \in Tasks : pc'[u] # "writing"
          BY <1>5, <2>1, <3>2 DEF TypeOK, Busy
        <4> QED
          BY <1>2, <3>1, <4>1
      <3>3. CASE Take(t)
        BY <1>6, <2>1, <3>1, <3>3
      <3> QED
        BY <1>0, <1>10, <2>3, <3>2, <3>3, ChunksAssumption DEF Write
    <2> QED
      BY <1>10, <2>2, <2>3 DEF Write
  <1>11. ASSUME NEW t \in Tasks, NEW why \in Outcomes, LeaveWrite(t, why)
         PROVE  WireInv'
    <2>1. pc[t] = "writing" /\ Settle(t)
      BY <1>11 DEF LeaveWrite
    <2>2. request[t] \in abandoned'
      BY <2>1, SettleFacts DEF FutureInv, Written
    <2>3. \A u \in Tasks : pc'[u] # "writing"
      BY <1>5, <1>11 DEF LeaveWrite, Release, TypeOK, Busy
    <2>4. Over
      <3>1. CASE Deliver(t)
        BY <1>0, <2>1, <2>2, <3>1, WritingType, DeliverFacts
      <3>2. CASE wire' = wire
        <4>1. CASE sent[t] > 0
          BY <1>0, <2>1, <2>2, <3>2, <4>1 DEF WireInv
        <4>2. CASE ~(sent[t] > 0)
          <5>1. \A u \in Tasks : ~(pc[u] = "writing" /\ sent[u] > 0)
            BY <1>5, <2>1, <4>2 DEF Busy
          <5> QED
            BY <1>0, <1>1, <3>2, <5>1 DEF WireInv
        <4> QED
          BY <4>1, <4>2
      <3> QED
        BY <1>11, <3>1, <3>2 DEF LeaveWrite
    <2> QED
      BY <1>2, <2>3, <2>4
  <1>12. ASSUME NEW t \in Tasks, NEW why \in Outcomes, LeaveAwait(t, why)
         PROVE  WireInv'
    <2>1. pc[t] = "awaiting" /\ wire' = wire
      BY <1>12 DEF LeaveAwait
    <2>2. \A u \in Tasks : pc[u] # "writing" /\ pc'[u] # "writing"
      BY <1>5, <1>12, <2>1 DEF LeaveAwait, Release, TypeOK, Busy
    <2> QED
      BY <1>2, <1>3, <2>1, <2>2
  <1>13. ASSUME NEW t \in Tasks, Resume(t)
         PROVE  WireInv'
    <2>1. pc[t] = "awaiting" /\ wire' = wire
      BY <1>13 DEF Resume
    <2>2. \A u \in Tasks : pc[u] # "writing"
      BY <1>5, <2>1 DEF Busy
    <2> QED
      BY <1>3, <1>6, <1>13, <2>1, <2>2 DEF Resume
  <1>14. ASSUME NEW t \in Tasks, CancelQueued(t) \/ CancelHolding(t)
         PROVE  WireInv'
    <2>1. UNCHANGED <<request, sent, nextId, abandoned, wire>>
          /\ \A u \in Tasks : pc'[u] = "writing" <=> pc[u] = "writing"
      BY <1>14 DEF CancelQueued, CancelHolding, Release, history, TypeOK
    <2> QED
      BY <2>1 DEF WireInv
  <1>15. ASSUME Environment \/ UNCHANGED vars
         PROVE  WireInv'
    BY <1>4, <1>15
       DEF Environment, Answer, StaySilent, Notify, LinkLost, vars, local, history
  <1> QED
    BY <1>7, <1>8, <1>9, <1>10, <1>11, <1>12, <1>13, <1>14, <1>15
       DEF Next, TaskStep, Progress, WriteFails, Timeout, Cancel, Outcomes

-----------------------------------------------------------------------------
(* Theorems. *)

(* What is on the link, under way, in the future and in the results. *)
FlightSafe ==
  /\ StageInv /\ SequenceHoldsWire /\ WireInv
  /\ QueueInv /\ FlightInv /\ FutureInv /\ ResultInv /\ NoAnswerTakenTwice

(* Nothing was sent. *)
LEMMA FlightInit == Init => FlightSafe
  <1> SUFFICES ASSUME Init PROVE FlightSafe
    OBVIOUS
  <1>1. Len(rx) = 0 /\ Len(tx) = 0 /\ \A t \in Tasks : Len(results[t]) = 0
    BY DEF Init
  <1>2. InFlight = {}
    BY <1>1 DEF InFlight
  <1>3. StageInv /\ SequenceHoldsWire /\ WireInv
    BY ChunksAssumption DEF Init, StageInv, SequenceHoldsWire, Inside, WireInv
  <1>4. QueueInv /\ FlightInv /\ FutureInv
    BY <1>1, <1>2 DEF Init, QueueInv, FlightInv, FutureInv, Resolved
  <1>5. ResultInv /\ NoAnswerTakenTwice
    BY <1>1 DEF ResultInv, NoAnswerTakenTwice
  <1> QED
    BY <1>3, <1>4, <1>5 DEF FlightSafe

(* The invariant is inductive. *)
LEMMA FlightSafeStep == Inv /\ FlightSafe /\ [Next]_vars => FlightSafe'
  BY StageStep, HoldsWireStep, WireStep, QueueStep, FlightStep, FutureInvStep,
     ResultInvStep, NotTakenTwiceStep DEF FlightSafe

(* Which requests and answers are under way, and what the device's answers are
   taken for, is what send_command promises in every state. *)
THEOREM FlightInvariance == Spec => []FlightSafe
  BY FlightInit, FlightSafeStep, Invariance, PTL DEF Spec

(* The job of a task is atomic on the wire. *)
THEOREM SequencesAreAtomic == Spec => []SequenceHoldsWire
  BY FlightInvariance, PTL DEF FlightSafe

(* Of the requests nobody gave up at most one is under way, with the device or
   with its answer on the way back. *)
THEOREM OneAtATime == Spec => []OneCommandInFlight
  <1>1. Inv /\ FlightSafe => OneCommandInFlight
    <2> SUFFICES ASSUME Inv, FlightSafe,
                        NEW x \in InFlight \ abandoned, NEW y \in InFlight \ abandoned
                 PROVE  x = y
      BY DEF OneCommandInFlight
    <2>1. PICK t \in Tasks : pc[t] = "awaiting" /\ request[t] = x
      BY DEF FlightSafe, FlightInv
    <2>2. PICK u \in Tasks : pc[u] = "awaiting" /\ request[u] = y
      BY DEF FlightSafe, FlightInv
    <2>3. t = u
      BY <2>1, <2>2, BusyIsHolder DEF Inv, Busy
    <2> QED
      BY <2>1, <2>2, <2>3
  <1> QED
    BY <1>1, Invariance, FlightInvariance, PTL

(* Responses carry no identity, yet a caller gets the answer to another request
   only when that request was given up. *)
THEOREM CorrelatedUnlessAbandoned == Spec => []MisdeliveryNeedsAbandon
  <1>1. FlightSafe => MisdeliveryNeedsAbandon
    BY Zenon DEF FlightSafe, ResultInv, MisdeliveryNeedsAbandon
  <1> QED
    BY <1>1, FlightInvariance, PTL

(* No answer is handed to two commands. *)
THEOREM AnswersTakenOnce == Spec => []NoAnswerTakenTwice
  BY FlightInvariance, PTL DEF FlightSafe

(* Frames are not interleaved on the link, however writes fail and tasks are
   cancelled. *)
THEOREM FramesInOnePiece == Spec => FramesNotInterleaved
  <1>1. Inv /\ FlightSafe /\ [Next]_vars => [wire' # wire => NextChunk]_vars
    BY WireMoves, DeliversNextChunk DEF FlightSafe
  <1> QED
    BY <1>1, Invariance, FlightInvariance, PTL
       DEF Spec, FramesNotInterleaved, NextChunk
=============================================================================
