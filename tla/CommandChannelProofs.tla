------------------------ MODULE CommandChannelProofs ------------------------
(***************************************************************************)
(* Theorems about CommandChannel, for every set of tasks, every set of     *)
(* jobs, every MTU, every response length and any number of calls.         *)
(***************************************************************************)
EXTENDS CommandChannel, SequenceTheorems, TLAPS

-----------------------------------------------------------------------------
(* Sequences. *)

LEMMA RemoveAtProps ==
  ASSUME NEW S, NEW s \in Seq(S), NEW i \in 1..Len(s)
  PROVE  /\ RemoveAt(s, i) \in Seq(S)
         /\ Len(RemoveAt(s, i)) = Len(s) - 1
         /\ \A j \in 1..(Len(s) - 1) :
              RemoveAt(s, i)[j] = IF j < i THEN s[j] ELSE s[j + 1]
  <1> DEFINE front == SubSeq(s, 1, i - 1)
             back == SubSeq(s, i + 1, Len(s))
  <1>1. front \in Seq(S) /\ Len(front) = i - 1
        /\ \A j \in 1..(i - 1) : front[j] = s[j]
    BY SubSeqProperties
  <1>2. back \in Seq(S) /\ Len(back) = Len(s) - i
        /\ \A j \in 1..(Len(s) - i) : back[j] = s[i + j]
    BY SubSeqProperties
  <1>3. RemoveAt(s, i) = front \o back
    BY DEF RemoveAt
  <1> HIDE DEF front, back
  <1>4. front \o back \in Seq(S)
        /\ Len(front \o back) = Len(front) + Len(back)
        /\ \A j \in 1..(Len(front) + Len(back)) : (front \o back)[j] =
             IF j <= Len(front) THEN front[j] ELSE back[j - Len(front)]
    BY <1>1, <1>2, ConcatProperties, Zenon
  <1>5. Len(s) \in Nat /\ Len(front) + Len(back) = Len(s) - 1
    BY <1>1, <1>2
  <1>6. ASSUME NEW j \in 1..(Len(s) - 1)
        PROVE  (front \o back)[j] = IF j < i THEN s[j] ELSE s[j + 1]
    <2>1. CASE j < i
      BY <1>1, <1>4, <1>5, <2>1
    <2>2. CASE ~(j < i)
      <3>1. (front \o back)[j] = back[j - (i - 1)]
        BY <1>1, <1>4, <1>5, <2>2
      <3>2. back[j - (i - 1)] = s[i + (j - (i - 1))]
        BY <1>2, <1>5, <2>2
      <3> QED
        BY <1>5, <2>2, <3>1, <3>2
    <2> QED
      BY <2>1, <2>2
  <1> QED
    BY <1>3, <1>4, <1>5, <1>6

-----------------------------------------------------------------------------
(* Types. *)

(* A task that is not idle has a job and a command of it still to run, and one
   that is writing has a chunk of it still to write. *)
JobInv ==
  \A t \in Tasks :
    /\ pc[t] # "idle" =>
         job[t] \in Jobs /\ Len(results[t]) < Len(job[t].cmds)
    /\ pc[t] = "writing" => sent[t] < Chunks

(* What a busy task does next is one of the commands. *)
LEMMA CurrentCmdType ==
  ASSUME TypeOK, JobInv, NEW t \in Tasks, pc[t] # "idle"
  PROVE  CurrentCmd(t) \in Commands
  <1>1. job[t] \in Jobs /\ Len(results[t]) < Len(job[t].cmds)
    BY DEF JobInv
  <1>2. job[t].cmds \in Seq(Commands)
    BY <1>1, JobsAssumption
  <1>3. Len(results[t]) \in Nat
    BY DEF TypeOK
  <1>4. Len(results[t]) + 1 \in 1..Len(job[t].cmds)
    BY <1>1, <1>2, <1>3
  <1> QED
    BY <1>2, <1>4 DEF CurrentCmd

(* Starting a command keeps the types: the task waits on a new request. *)
LEMMA BeginSendType ==
  ASSUME TypeOK, NEW t \in Tasks, BeginSend(t)
  PROVE  /\ pc' \in [Tasks -> {"idle", "queued", "writing", "awaiting", "holding"}]
         /\ request' \in [Tasks -> Nat]
         /\ sent' \in [Tasks -> 0..Chunks]
         /\ response_future' \in Futures \union {None}
         /\ partial' \in 0..(Fragments - 1)
         /\ nextId' \in Ids
  <1> USE DEF TypeOK, BeginSend
  <1>1. pc' \in [Tasks -> {"idle", "queued", "writing", "awaiting", "holding"}]
    OBVIOUS
  <1>2. request' \in [Tasks -> Nat]
    BY DEF Ids
  <1>3. sent' \in [Tasks -> 0..Chunks]
    BY ChunksAssumption
  <1>4. response_future' \in Futures \union {None}
    BY DEF Futures
  <1>5. partial' \in 0..(Fragments - 1)
    BY FragmentsAssumption
  <1>6. nextId' \in Ids
    BY DEF Ids
  <1> QED
    BY <1>1, <1>2, <1>3, <1>4, <1>5, <1>6

(* Releasing the lock hands it to the oldest waiter or to nobody. *)
LEMMA ReleaseType ==
  ASSUME TypeOK, NEW t \in Tasks, NEW why \in Outcomes, Release(t, why)
  PROVE  /\ pc' \in [Tasks -> {"idle", "queued", "writing", "awaiting", "holding"}]
         /\ outcome' \in [Tasks -> Outcomes]
         /\ holder' \in Tasks \union {None}
  BY DEF TypeOK, Release

(* The finally block of _send_locked. *)
LEMMA SettleType ==
  ASSUME TypeOK, NEW t \in Tasks, request[t] \in Ids, Settle(t)
  PROVE  abandoned' \subseteq Ids
  BY DEF TypeOK, Settle

(* The lock and its queue: a task is busy exactly while it holds the lock, and
   the queue has no task twice and only tasks that wait. *)
Busy == {"writing", "awaiting", "holding"}

LockInv ==
  /\ \A t \in Tasks : pc[t] \in Busy <=> holder = t
  /\ \A i \in 1..Len(waiters) : pc[waiters[i]] = "queued"
  /\ \A i, j \in 1..Len(waiters) : waiters[i] = waiters[j] => i = j

Inv == TypeOK /\ JobInv /\ LockInv /\ FutureOwner

(* A task that writes or waits has a request, which is the future's. *)
LEMMA RequestType ==
  ASSUME TypeOK, FutureOwner, NEW t \in Tasks, pc[t] \in {"writing", "awaiting"}
  PROVE  request[t] \in Ids /\ response_future \in Futures
  BY DEF TypeOK, FutureOwner, Futures

(* What a caller does with a frame it has taken, or with an exception. *)
LEMMA TakeType ==
  ASSUME TypeOK, JobInv, FutureOwner, NEW t \in Tasks,
         pc[t] \in {"writing", "awaiting"}, Resolved, Take(t)
  PROVE  /\ pc' \in [Tasks -> {"idle", "queued", "writing", "awaiting", "holding"}]
         /\ results' \in [Tasks -> Seq([frame : Frames, asked : Ids])]
         /\ outcome' \in [Tasks -> Outcomes]
         /\ request' \in [Tasks -> Nat]
         /\ sent' \in [Tasks -> 0..Chunks]
         /\ holder' \in Tasks \union {None}
         /\ response_future' \in Futures \union {None}
         /\ partial' \in 0..(Fragments - 1)
         /\ nextId' \in Ids
         /\ abandoned' \subseteq Ids
         /\ job' = job /\ waiters' = waiters
  <1>1. request[t] \in Ids /\ response_future \in Futures
    BY RequestType
  <1>2. response_future.frame \in Frames
    BY <1>1 DEF Resolved, Futures
  <1>3. abandoned' \subseteq Ids /\ job' = job /\ waiters' = waiters
    BY <1>1, SettleType DEF Take
  <1>4. results' \in [Tasks -> Seq([frame : Frames, asked : Ids])]
    <2>1. [frame |-> response_future.frame, asked |-> request[t]]
            \in [frame : Frames, asked : Ids]
      BY <1>1, <1>2
    <2>2. CASE results' = results
      BY <2>2 DEF TypeOK
    <2>3. CASE results' = [results EXCEPT ![t] =
                 Append(@, [frame |-> response_future.frame, asked |-> request[t]])]
      <3> DEFINE R == [frame : Frames, asked : Ids]
                 r == [frame |-> response_future.frame, asked |-> request[t]]
      <3>1. results \in [Tasks -> Seq(R)] /\ results[t] \in Seq(R) /\ r \in R
        BY <2>1 DEF TypeOK
      <3>2. results' = [results EXCEPT ![t] = Append(results[t], r)]
        BY <2>3
      <3> HIDE DEF R, r
      <3>3. results' \in [Tasks -> Seq(R)]
        BY <3>1, <3>2, AppendProperties
      <3> QED
        BY <3>3 DEF R
    <2> QED
      BY <2>2, <2>3 DEF Take
  <1>5. CASE /\ \E why \in {"mismatch", "status", "ok"} : Release(t, why)
             /\ response_future' = None
             /\ UNCHANGED <<request, sent, partial, nextId>>
    BY <1>3, <1>4, <1>5, ReleaseType DEF TypeOK, Outcomes
  <1>6. CASE /\ pc' = [pc EXCEPT ![t] = "holding"]
             /\ response_future' = None
             /\ UNCHANGED <<outcome, holder, request, sent, partial, nextId>>
    BY <1>3, <1>4, <1>6 DEF TypeOK
  <1>7. CASE BeginSend(t) /\ UNCHANGED <<outcome, holder>>
    BY <1>3, <1>4, <1>7, BeginSendType DEF TypeOK
  <1> QED
    BY <1>5, <1>6, <1>7 DEF Take

(* A notification resolves the pending future or none. *)
LEMMA DeliverType ==
  ASSUME TypeOK, JobInv, NEW t \in Tasks, pc[t] = "writing", sent[t] < Chunks,
         Deliver(t)
  PROVE  /\ wire' \in [task : Tasks \union {None}, id : Nat, chunk : 0..Chunks]
         /\ request[t] \in Ids => rx' \in Seq([id : Ids, cmd : Commands])
  <1>1. CurrentCmd(t) \in Commands
    BY CurrentCmdType
  <1>2. wire' \in [task : Tasks \union {None}, id : Nat, chunk : 0..Chunks]
    BY ChunksAssumption, SMTT(60) DEF TypeOK, Deliver
  <1>3. ASSUME request[t] \in Ids
        PROVE  rx' \in Seq([id : Ids, cmd : Commands])
    <2>1. [id |-> request[t], cmd |-> CurrentCmd(t)] \in [id : Ids, cmd : Commands]
      BY <1>1, <1>3
    <2> DEFINE R == [id : Ids, cmd : Commands]
               r == [id |-> request[t], cmd |-> CurrentCmd(t)]
    <2>2. rx \in Seq(R) /\ r \in R /\ (rx' = Append(rx, r) \/ rx' = rx)
      BY <2>1 DEF TypeOK, Deliver
    <2> HIDE DEF R, r
    <2>3. rx' \in Seq(R)
      BY <2>2, AppendProperties
    <2> QED
      BY <2>3 DEF R
  <1> QED
    BY <1>2, <1>3

(* Types: one step per action. *)
LEMMA TypeStep ==
  ASSUME Inv, [Next]_vars
  PROVE  TypeOK'
  <1> USE DEF Inv
  <1>1. ASSUME NEW t \in Tasks, NEW j \in Jobs, Call(t, j)
        PROVE  TypeOK'
    <2>1. results' \in [Tasks -> Seq([frame : Frames, asked : Ids])]
      <3> DEFINE R == [frame : Frames, asked : Ids]
      <3>1. results \in [Tasks -> Seq(R)] /\ results' = [results EXCEPT ![t] = <<>>]
        BY <1>1 DEF TypeOK, Call
      <3> HIDE DEF R
      <3>2. results' \in [Tasks -> Seq(R)]
        BY <3>1
      <3> QED
        BY <3>2 DEF R
    <2>2. /\ job' \in [Tasks -> Jobs \union {None}]
          /\ outcome' \in [Tasks -> Outcomes]
          /\ calls' \in Nat
          /\ UNCHANGED <<connected, rx, tx, abandoned, wire>>
      BY <1>1 DEF TypeOK, Call, link, Outcomes
    <2>3. CASE LockIsFree /\ holder' = t /\ BeginSend(t) /\ UNCHANGED waiters
      BY <2>1, <2>2, <2>3, BeginSendType DEF TypeOK
    <2>4. CASE /\ waiters' = Append(waiters, t)
               /\ pc' = [pc EXCEPT ![t] = "queued"]
               /\ UNCHANGED <<holder, request, sent, device, nextId>>
      <3>1. waiters' \in Seq(Tasks)
        BY <2>4, AppendProperties DEF TypeOK
      <3>2. pc' \in [Tasks -> {"idle", "queued", "writing", "awaiting", "holding"}]
        BY <2>4 DEF TypeOK
      <3> QED
        BY <2>1, <2>2, <2>4, <3>1, <3>2 DEF TypeOK, device
    <2> QED
      BY <1>1, <2>3, <2>4 DEF Call
  <1>2. ASSUME NEW t \in Tasks, Wake(t)
        PROVE  TypeOK'
    <2>1. waiters' \in Seq(Tasks)
      BY <1>2, HeadTailProperties DEF TypeOK, Wake
    <2> QED
      BY <1>2, <2>1, BeginSendType DEF TypeOK, Wake, link
  <1>3. ASSUME NEW t \in Tasks, Write(t)
        PROVE  TypeOK'
    <2>1. pc[t] = "writing" /\ sent[t] < Chunks /\ request[t] \in Ids
      BY <1>3, RequestType DEF Write, JobInv
    <2>2. /\ wire' \in [task : Tasks \union {None}, id : Nat, chunk : 0..Chunks]
          /\ rx' \in Seq([id : Ids, cmd : Commands])
      BY <1>3, <2>1, DeliverType DEF Write
    <2>3. CASE /\ \E p \in {"writing", "awaiting"} : pc' = [pc EXCEPT ![t] = p]
               /\ sent' = [sent EXCEPT ![t] = @ + 1]
               /\ UNCHANGED <<job, results, outcome, request, lock, device,
                              nextId, abandoned>>
      <3>1. UNCHANGED <<connected, tx, calls>>
        BY <1>3 DEF Write
      <3>2. sent' \in [Tasks -> 0..Chunks]
        BY <2>1, <2>3, ChunksAssumption, SMTT(60) DEF TypeOK
      <3>3. pc' \in [Tasks -> {"idle", "queued", "writing", "awaiting", "holding"}]
        BY <2>3 DEF TypeOK
      <3> QED
        BY <2>2, <2>3, <3>1, <3>2, <3>3 DEF TypeOK, lock, device
    <2>4. CASE Resolved /\ Take(t)
      <3>1. UNCHANGED <<connected, tx, calls>>
        BY <1>3 DEF Write
      <3> QED
        BY <2>1, <2>2, <2>4, <3>1, TakeType DEF TypeOK
    <2>5. pc[t] = "writing" => pc = [pc EXCEPT ![t] = "writing"]
      BY DEF TypeOK
    <2> QED
      BY <1>3, <2>1, <2>3, <2>4, <2>5 DEF Write
  <1>4. ASSUME NEW t \in Tasks, NEW why \in Outcomes, LeaveWrite(t, why)
        PROVE  TypeOK'
    <2>1. pc[t] = "writing" /\ sent[t] < Chunks /\ request[t] \in Ids
      BY <1>4, RequestType DEF LeaveWrite, JobInv
    <2>2. /\ wire' \in [task : Tasks \union {None}, id : Nat, chunk : 0..Chunks]
          /\ rx' \in Seq([id : Ids, cmd : Commands])
      <3>1. CASE Deliver(t)
        BY <2>1, <3>1, DeliverType
      <3>2. CASE UNCHANGED <<rx, wire>>
        BY <3>2 DEF TypeOK
      <3> QED
        BY <1>4, <3>1, <3>2 DEF LeaveWrite
    <2>3. abandoned' \subseteq Ids
      BY <1>4, <2>1, SettleType DEF LeaveWrite
    <2> QED
      BY <1>4, <2>2, <2>3, ReleaseType DEF TypeOK, LeaveWrite, device
  <1>5. ASSUME NEW t \in Tasks, Resume(t)
        PROVE  TypeOK'
    BY <1>5, TakeType DEF TypeOK, Resume, link
  <1>6. ASSUME NEW t \in Tasks, NEW why \in Outcomes, LeaveAwait(t, why)
        PROVE  TypeOK'
    <2>1. request[t] \in Ids
      BY <1>6, RequestType DEF LeaveAwait
    <2>2. abandoned' \subseteq Ids
      BY <1>6, <2>1, SettleType DEF LeaveAwait
    <2> QED
      BY <1>6, <2>2, ReleaseType DEF TypeOK, LeaveAwait, link
  <1>7. ASSUME NEW t \in Tasks, HoldOver(t)
        PROVE  TypeOK'
    BY <1>7, BeginSendType DEF TypeOK, HoldOver, lock, link
  <1>8. ASSUME NEW t \in Tasks, CancelQueued(t)
        PROVE  TypeOK'
    <2>1. waiters' \in Seq(Tasks)
      BY <1>8, RemoveAtProps DEF TypeOK, CancelQueued
    <2> QED
      BY <1>8, <2>1 DEF TypeOK, CancelQueued, device, link, history, Outcomes
  <1>9. ASSUME NEW t \in Tasks, CancelHolding(t)
        PROVE  TypeOK'
    BY <1>9, ReleaseType DEF TypeOK, CancelHolding, device, link, history, Outcomes
  <1>10. ASSUME NEW ok \in BOOLEAN, Answer(ok)
         PROVE  TypeOK'
    <2> DEFINE Q == [id : Ids, cmd : Commands]
               R == [frame : Frames, part : 1..Fragments]
               new == [i \in 1..Fragments |->
                        [frame |-> [id |-> Head(rx).id, cmd |-> Head(rx).cmd, ok |-> ok],
                         part |-> i]]
    <2>1. rx \in Seq(Q) /\ rx # <<>> /\ rx' = Tail(rx) /\ tx \in Seq(R)
          /\ tx' = tx \o new
      BY <1>10 DEF TypeOK, Answer
    <2>2. Head(rx) \in Q /\ rx' \in Seq(Q)
      <3> HIDE DEF Q
      <3> QED
        BY <2>1, HeadTailProperties
    <2>3. \A i \in 1..Fragments : new[i] \in R
      BY <2>2 DEF Frames
    <2>4. new \in Seq(R)
      <3>1. new \in [1..Fragments -> R]
        BY <2>3
      <3> HIDE DEF new, R
      <3> QED
        BY <3>1, FragmentsAssumption
    <2>5. tx' \in Seq(R)
      <3> HIDE DEF new, R
      <3> QED
        BY <2>1, <2>4, ConcatProperties
    <2> QED
      BY <1>10, <2>2, <2>5 DEF TypeOK, Answer, local, lock, device, history
  <1>11. CASE StaySilent
    <2> DEFINE Q == [id : Ids, cmd : Commands]
    <2>1. rx' \in Seq(Q)
      <3>1. rx \in Seq(Q) /\ rx # <<>> /\ rx' = Tail(rx)
        BY <1>11 DEF TypeOK, StaySilent
      <3> HIDE DEF Q
      <3> QED
        BY <3>1, HeadTailProperties
    <2> QED
      BY <1>11, <2>1 DEF TypeOK, StaySilent, local, lock, device, history
  <1>12. ASSUME NEW stale \in BOOLEAN, Notify(stale)
         PROVE  TypeOK'
    <2> DEFINE R == [frame : Frames, part : 1..Fragments]
               have == IF stale THEN 0 ELSE partial
    <2>1. Head(tx) \in R /\ tx' \in Seq(R)
      <3>1. tx \in Seq(R) /\ tx # <<>> /\ tx' = Tail(tx)
        BY <1>12 DEF TypeOK, Notify
      <3> HIDE DEF R
      <3> QED
        BY <3>1, HeadTailProperties
    <2>2. Head(tx).frame \in Frames /\ Head(tx).part \in 1..Fragments
      BY <2>1
    <2>3. partial' \in 0..(Fragments - 1)
      <3>1. partial' = Assembled(have, Head(tx).part)
        BY <1>12 DEF Notify
      <3>2. have \in 0..(Fragments - 1)
        BY FragmentsAssumption DEF TypeOK
      <3> HIDE DEF have
      <3> QED
        BY <2>2, <3>1, <3>2, FragmentsAssumption DEF Assembled
    <2>4. response_future' \in Futures \union {None}
      <3>1. CASE response_future' = response_future
        BY <3>1 DEF TypeOK
      <3>2. CASE response_future # None
                 /\ response_future' = [response_future EXCEPT !.frame = Head(tx).frame]
        BY <2>2, <3>2 DEF TypeOK, Futures
      <3> QED
        BY <1>12, <3>1, <3>2 DEF Notify
    <2>5. UNCHANGED <<local, lock, connected, rx, calls, history>>
      BY <1>12 DEF Notify
    <2> QED
      BY <2>1, <2>3, <2>4, <2>5 DEF TypeOK, local, lock, history
  <1>13. CASE LinkLost
    <2>1. \A S : <<>> \in Seq(S)
      BY EmptySeq
    <2>2. UNCHANGED <<local, lock, device, calls, history>>
      BY <1>13 DEF LinkLost
    <2>3. connected' = FALSE /\ rx' = <<>> /\ tx' = <<>>
      BY <1>13 DEF LinkLost
    <2> QED
      BY <2>1, <2>2, <2>3 DEF TypeOK, local, lock, device, history
  <1>14. CASE UNCHANGED vars
    BY <1>14 DEF TypeOK, vars, local, lock, device, link, history
  <1> QED
    BY <1>1, <1>2, <1>3, <1>4, <1>5, <1>6, <1>7, <1>8, <1>9, <1>10, <1>11,
       <1>12, <1>13, <1>14
       DEF Next, TaskStep, Progress, Environment, WriteFails, Timeout, Cancel,
           Outcomes
-----------------------------------------------------------------------------
(* The lock, the jobs and the future. *)

(* What a task does on its way out of _send_locked: it stays the holder and
   goes on, or it releases the lock and is idle. *)
LEMMA TakeCases ==
  ASSUME TypeOK, NEW t \in Tasks, Take(t)
  PROVE  \/ /\ \E why \in Outcomes : Release(t, why)
            /\ UNCHANGED <<job, waiters, request, sent>>
         \/ /\ pc' = [pc EXCEPT ![t] = "holding"]
            /\ Len(results[t]) + 1 # Len(job[t].cmds)
            /\ results' = [results EXCEPT ![t] =
                 Append(@, [frame |-> response_future.frame, asked |-> request[t]])]
            /\ UNCHANGED <<job, waiters, holder, request, sent>>
         \/ /\ BeginSend(t)
            /\ Len(results[t]) + 1 # Len(job[t].cmds)
            /\ results' = [results EXCEPT ![t] =
                 Append(@, [frame |-> response_future.frame, asked |-> request[t]])]
            /\ UNCHANGED <<job, waiters, holder>>
  BY DEF Take, Outcomes

(* A task inside the lock is its holder. *)
LEMMA BusyIsHolder ==
  ASSUME LockInv, NEW t \in Tasks, NEW u \in Tasks, pc[t] \in Busy, pc[u] \in Busy
  PROVE  t = u
  BY DEF LockInv

(* A step of the holder keeps the lock's invariant: it stays inside or leaves. *)
LEMMA HolderStep ==
  ASSUME TypeOK, LockInv, NEW t \in Tasks, pc[t] \in Busy, waiters' = waiters,
         NEW p, pc' = [pc EXCEPT ![t] = p],
         \/ p \in Busy /\ holder' = holder
         \/ p = "idle" /\ holder' = None
  PROVE  LockInv'
  <1>1. holder = t
    BY DEF LockInv
  <1>2. \A u \in Tasks : pc'[u] = IF u = t THEN p ELSE pc[u]
    BY DEF TypeOK
  <1>3. \A u \in Tasks : pc'[u] \in Busy <=> holder' = u
    BY <1>1, <1>2, NoneAssumption DEF LockInv, Busy
  <1>4. \A i \in 1..Len(waiters) : pc[waiters[i]] = "queued" /\ waiters[i] \in Tasks
    BY ElementOfSeq DEF LockInv, TypeOK
  <1>5. \A i \in 1..Len(waiters) : pc'[waiters[i]] = "queued"
    BY <1>2, <1>4 DEF Busy
  <1> QED
    BY <1>3, <1>5 DEF LockInv

(* The lock: one step per action. *)
LEMMA LockStep ==
  ASSUME Inv, [Next]_vars
  PROVE  LockInv'
  <1> USE DEF Inv
  <1>1. ASSUME NEW t \in Tasks, NEW j \in Jobs, Call(t, j)
        PROVE  LockInv'
    <2>1. pc[t] = "idle"
      BY <1>1 DEF Call
    <2>2. \A i \in 1..Len(waiters) : waiters[i] \in Tasks /\ waiters[i] # t
      BY <2>1, ElementOfSeq DEF LockInv, TypeOK
    <2>3. CASE LockIsFree /\ holder' = t /\ BeginSend(t) /\ UNCHANGED waiters
      <3>1. \A u \in Tasks : pc'[u] = IF u = t THEN "writing" ELSE pc[u]
        BY <2>3 DEF TypeOK, BeginSend
      <3>2. \A u \in Tasks : pc[u] \notin Busy
        BY <2>3, NoneAssumption DEF LockInv, LockIsFree
      <3>3. waiters' = <<>>
        BY <2>3 DEF LockIsFree
      <3> QED
        BY <2>3, <3>1, <3>2, <3>3 DEF LockInv, Busy
    <2>4. CASE /\ waiters' = Append(waiters, t)
               /\ pc' = [pc EXCEPT ![t] = "queued"]
               /\ holder' = holder
      <3>1. \A u \in Tasks : pc'[u] = IF u = t THEN "queued" ELSE pc[u]
        BY <2>4 DEF TypeOK
      <3>2. /\ Len(waiters) \in Nat /\ Len(waiters') = Len(waiters) + 1
            /\ \A i \in 1..Len(waiters) : waiters'[i] = waiters[i]
            /\ waiters'[Len(waiters) + 1] = t
        BY <2>4, AppendProperties DEF TypeOK
      <3>3. \A u \in Tasks : pc'[u] \in Busy <=> holder' = u
        BY <2>1, <2>4, <3>1 DEF LockInv, Busy
      <3>4. \A i \in 1..Len(waiters') : pc'[waiters'[i]] = "queued"
        BY <2>2, <3>1, <3>2 DEF LockInv
      <3>5. \A i, k \in 1..Len(waiters') : waiters'[i] = waiters'[k] => i = k
        BY <2>2, <3>2 DEF LockInv
      <3> QED
        BY <3>3, <3>4, <3>5 DEF LockInv
    <2> QED
      BY <1>1, <2>3, <2>4 DEF Call
  <1>2. ASSUME NEW t \in Tasks, Wake(t)
        PROVE  LockInv'
    <2>1. /\ Len(waiters) \in Nat /\ Len(waiters) >= 1
          /\ t = waiters[1] /\ holder = None /\ holder' = t
          /\ Len(waiters') = Len(waiters) - 1
          /\ \A i \in 1..(Len(waiters) - 1) : waiters'[i] = waiters[i + 1]
      BY <1>2, HeadTailProperties DEF TypeOK, Wake
    <2>2. \A u \in Tasks : pc'[u] = IF u = t THEN "writing" ELSE pc[u]
      BY <1>2 DEF TypeOK, Wake, BeginSend
    <2>3. \A u \in Tasks : pc'[u] \in Busy <=> holder' = u
      BY <2>1, <2>2, NoneAssumption DEF LockInv, Busy
    <2>4. \A i \in 1..Len(waiters') : pc'[waiters'[i]] = "queued"
      <3>1. ASSUME NEW i \in 1..Len(waiters')
            PROVE  pc'[waiters'[i]] = "queued"
        <4>1. i + 1 \in 1..Len(waiters) /\ 1 \in 1..Len(waiters) /\ i + 1 # 1
              /\ waiters'[i] = waiters[i + 1]
          BY <2>1
        <4>2. waiters[i + 1] \in Tasks /\ waiters[i + 1] # t
          BY <2>1, <4>1, ElementOfSeq DEF LockInv, TypeOK
        <4> QED
          BY <2>2, <4>1, <4>2 DEF LockInv
      <3> QED
        BY <3>1
    <2>5. \A i, k \in 1..Len(waiters') : waiters'[i] = waiters'[k] => i = k
      BY <2>1 DEF LockInv
    <2> QED
      BY <2>3, <2>4, <2>5 DEF LockInv
  <1>3. ASSUME NEW t \in Tasks, pc[t] \in {"writing", "awaiting"}, Take(t)
        PROVE  LockInv'
    <2>1. waiters' = waiters /\ pc[t] \in Busy
      BY <1>3 DEF Take, Busy
    <2>2. CASE \E why \in Outcomes : Release(t, why)
      BY <2>1, <2>2, HolderStep DEF Release
    <2>3. CASE pc' = [pc EXCEPT ![t] = "holding"] /\ holder' = holder
      BY <2>1, <2>3, HolderStep DEF Busy
    <2>4. CASE BeginSend(t) /\ holder' = holder
      BY <2>1, <2>4, HolderStep DEF BeginSend, Busy
    <2> QED
      BY <1>3, <2>2, <2>3, <2>4, TakeCases
  <1>4. ASSUME NEW t \in Tasks, Write(t)
        PROVE  LockInv'
    <2>1. CASE /\ \/ UNCHANGED pc
                  \/ pc' = [pc EXCEPT ![t] = "awaiting"]
               /\ UNCHANGED lock
      <3>1. pc[t] = "writing" /\ pc[t] \in Busy
        BY <1>4 DEF Write, Busy
      <3>2. CASE pc' = [pc EXCEPT ![t] = "awaiting"]
        BY <2>1, <3>1, <3>2, HolderStep DEF lock, Busy
      <3>3. CASE UNCHANGED pc
        BY <2>1, <3>3 DEF lock, LockInv
      <3> QED
        BY <2>1, <3>2, <3>3
    <2> QED
      BY <1>3, <1>4, <2>1 DEF Write
  <1>5. ASSUME NEW t \in Tasks, NEW why \in Outcomes, LeaveWrite(t, why)
        PROVE  LockInv'
    BY <1>5, HolderStep DEF LeaveWrite, Release, Busy
  <1>6. ASSUME NEW t \in Tasks, NEW why \in Outcomes, LeaveAwait(t, why)
        PROVE  LockInv'
    BY <1>6, HolderStep DEF LeaveAwait, Release, Busy
  <1>7. ASSUME NEW t \in Tasks, HoldOver(t)
        PROVE  LockInv'
    BY <1>7, HolderStep DEF HoldOver, BeginSend, lock, Busy
  <1>8. ASSUME NEW t \in Tasks, CancelQueued(t)
        PROVE  LockInv'
    <2> PICK n \in 1..Len(waiters) : waiters[n] = t /\ waiters' = RemoveAt(waiters, n)
      BY <1>8 DEF CancelQueued
    <2>1. /\ Len(waiters) \in Nat /\ Len(waiters') = Len(waiters) - 1
          /\ \A i \in 1..(Len(waiters) - 1) :
               waiters'[i] = IF i < n THEN waiters[i] ELSE waiters[i + 1]
      <3>1. waiters \in Seq(Tasks) /\ Len(waiters) \in Nat
        BY DEF TypeOK
      <3> QED
        BY <3>1, RemoveAtProps, Zenon
    <2>2. \A u \in Tasks : pc'[u] = IF u = t THEN "idle" ELSE pc[u]
      BY <1>8 DEF TypeOK, CancelQueued
    <2>3. pc[t] = "queued" /\ holder' = holder
      BY <1>8 DEF CancelQueued
    <2>4. \A u \in Tasks : pc'[u] \in Busy <=> holder' = u
      BY <2>2, <2>3 DEF LockInv, Busy
    <2>5. ASSUME NEW i \in 1..Len(waiters')
          PROVE  \E k \in 1..Len(waiters) :
                   k # n /\ waiters'[i] = waiters[k] /\ k = IF i < n THEN i ELSE i + 1
      BY <2>1
    <2>6. \A i \in 1..Len(waiters') : pc'[waiters'[i]] = "queued"
      <3>1. ASSUME NEW i \in 1..Len(waiters')
            PROVE  pc'[waiters'[i]] = "queued"
        <4> PICK k \in 1..Len(waiters) : k # n /\ waiters'[i] = waiters[k]
          BY <2>5
        <4>1. waiters[k] \in Tasks /\ waiters[k] # t
          BY ElementOfSeq DEF LockInv, TypeOK
        <4> QED
          BY <2>2, <4>1 DEF LockInv
      <3> QED
        BY <3>1
    <2>7. \A i, k \in 1..Len(waiters') : waiters'[i] = waiters'[k] => i = k
      <3>1. ASSUME NEW i \in 1..Len(waiters'), NEW k \in 1..Len(waiters'),
                   waiters'[i] = waiters'[k]
            PROVE  i = k
        <4>1. PICK x \in 1..Len(waiters) :
                waiters'[i] = waiters[x] /\ x = IF i < n THEN i ELSE i + 1
          BY <2>5
        <4>2. PICK y \in 1..Len(waiters) :
                waiters'[k] = waiters[y] /\ y = IF k < n THEN k ELSE k + 1
          BY <2>5
        <4>3. x = y
          BY <3>1, <4>1, <4>2 DEF LockInv
        <4> QED
          BY <2>1, <4>1, <4>2, <4>3
      <3> QED
        BY <3>1
    <2> QED
      BY <2>4, <2>6, <2>7 DEF LockInv
  <1>9. ASSUME NEW t \in Tasks, CancelHolding(t)
        PROVE  LockInv'
    BY <1>9, HolderStep DEF CancelHolding, Release, Busy
  <1>10. CASE UNCHANGED <<pc, lock>>
    BY <1>10 DEF LockInv, lock
  <1>11. CASE Environment
    BY <1>10, <1>11
       DEF Environment, Answer, StaySilent, Notify, LinkLost, local
  <1>12. CASE UNCHANGED vars
    BY <1>10, <1>12 DEF vars, local
  <1>13. ASSUME NEW t \in Tasks, Resume(t)
         PROVE  LockInv'
    BY <1>3, <1>13 DEF Resume
  <1> QED
    BY <1>1, <1>2, <1>4, <1>5, <1>6, <1>7, <1>8, <1>9, <1>11, <1>12, <1>13
       DEF Next, TaskStep, Progress, WriteFails, Timeout, Cancel, Outcomes

(* Progress through a job: one step per action. *)
LEMMA JobStep ==
  ASSUME Inv, [Next]_vars
  PROVE  JobInv'
  <1> USE DEF Inv
  (* What a step of t leaves true of the other tasks. *)
  <1> DEFINE Fine(u) ==
        /\ pc'[u] # "idle" =>
             job'[u] \in Jobs /\ Len(results'[u]) < Len(job'[u].cmds)
        /\ pc'[u] = "writing" => sent'[u] < Chunks
  <1>1. \A u \in Tasks :
          pc'[u] = pc[u] /\ job'[u] = job[u] /\ results'[u] = results[u]
            /\ sent'[u] = sent[u]
          => Fine(u)
    BY DEF JobInv
  <1>2. ASSUME NEW t \in Tasks, BeginSend(t), UNCHANGED <<job, results>>,
               pc[t] # "idle"
        PROVE  \A u \in Tasks : Fine(u)
    BY <1>2, ChunksAssumption DEF TypeOK, JobInv, BeginSend
  <1>3. ASSUME NEW t \in Tasks, NEW why \in Outcomes, Release(t, why),
               UNCHANGED <<job, sent>>,
               \A u \in Tasks : u # t => results'[u] = results[u]
        PROVE  \A u \in Tasks : Fine(u)
    BY <1>3 DEF TypeOK, JobInv, Release
  <1>4. ASSUME NEW t \in Tasks, pc[t] \in {"writing", "awaiting"}, Take(t)
        PROVE  \A u \in Tasks : Fine(u)
    <2> DEFINE R == [frame : Frames, asked : Ids]
               r == [frame |-> response_future.frame, asked |-> request[t]]
    <2>1. \A u \in Tasks : u # t => results'[u] = results[u]
      BY <1>4 DEF TypeOK, Take
    <2>2. CASE \E why \in Outcomes : Release(t, why) /\ UNCHANGED <<job, sent>>
      BY <1>3, <2>1, <2>2
    <2>3. CASE /\ \/ pc' = [pc EXCEPT ![t] = "holding"] /\ UNCHANGED sent
                  \/ BeginSend(t)
               /\ Len(results[t]) + 1 # Len(job[t].cmds)
               /\ results' = [results EXCEPT ![t] = Append(@, r)]
               /\ job' = job
      <3>1. job[t] \in Jobs /\ Len(results[t]) < Len(job[t].cmds)
        BY <1>4 DEF JobInv
      <3>2. Len(job[t].cmds) \in Nat
        BY <3>1, JobsAssumption
      <3>3. results[t] \in Seq(R) /\ results'[t] = Append(results[t], r)
        BY <2>3 DEF TypeOK
      <3>4. Len(results[t]) \in Nat /\ Len(results'[t]) = Len(results[t]) + 1
        <4> HIDE DEF R, r
        <4> QED
          BY <3>3
      <3>5. Len(results'[t]) < Len(job'[t].cmds) /\ job'[t] \in Jobs
        BY <2>3, <3>1, <3>2, <3>4
      <3>6. \A u \in Tasks : u # t =>
              pc'[u] = pc[u] /\ job'[u] = job[u] /\ sent'[u] = sent[u]
        BY <2>3 DEF TypeOK, BeginSend
      <3>7. pc'[t] = "writing" => sent'[t] < Chunks
        BY <2>3, ChunksAssumption DEF TypeOK, BeginSend
      <3> QED
        BY <1>1, <2>1, <3>5, <3>6, <3>7
    <2> QED
      BY <1>4, <2>2, <2>3, TakeCases
  <1>5. ASSUME NEW t \in Tasks, NEW j \in Jobs, Call(t, j)
        PROVE  \A u \in Tasks : Fine(u)
    <2>1. \A u \in Tasks :
            /\ job'[u] = IF u = t THEN j ELSE job[u]
            /\ results'[u] = IF u = t THEN <<>> ELSE results[u]
      BY <1>5 DEF TypeOK, Call
    <2>2. Len(j.cmds) \in Nat /\ 0 < Len(j.cmds) /\ Len(<<>>) = 0
      BY JobsAssumption
    <2>3. \A u \in Tasks : u # t => pc'[u] = pc[u] /\ sent'[u] = sent[u]
      BY <1>5 DEF TypeOK, Call, BeginSend
    <2>4. pc'[t] = "writing" => sent'[t] < Chunks
      BY <1>5, ChunksAssumption DEF TypeOK, Call, BeginSend
    <2> QED
      BY <1>1, <2>1, <2>2, <2>3, <2>4
  <1>6. ASSUME NEW t \in Tasks, Wake(t)
        PROVE  \A u \in Tasks : Fine(u)
    <2>1. 1 \in 1..Len(waiters) /\ t = waiters[1]
      BY <1>6 DEF Wake, TypeOK
    <2>2. pc[t] # "idle"
      BY <2>1 DEF LockInv
    <2> QED
      BY <1>2, <1>6, <2>2 DEF Wake
  <1>7. ASSUME NEW t \in Tasks, Write(t)
        PROVE  \A u \in Tasks : Fine(u)
    <2>1. CASE sent[t] + 1 < Chunks /\ sent' = [sent EXCEPT ![t] = @ + 1]
               /\ UNCHANGED <<pc, job, results>>
      BY <2>1 DEF TypeOK, JobInv
    <2>2. CASE /\ pc' = [pc EXCEPT ![t] = "awaiting"]
               /\ sent' = [sent EXCEPT ![t] = @ + 1]
               /\ UNCHANGED <<job, results>>
      BY <1>7, <2>2 DEF TypeOK, JobInv, Write
    <2> QED
      BY <1>4, <1>7, <2>1, <2>2 DEF Write
  <1>8. ASSUME NEW t \in Tasks, NEW why \in Outcomes,
               LeaveWrite(t, why) \/ LeaveAwait(t, why)
        PROVE  \A u \in Tasks : Fine(u)
    BY <1>3, <1>8 DEF LeaveWrite, LeaveAwait
  <1>9. ASSUME NEW t \in Tasks, HoldOver(t)
        PROVE  \A u \in Tasks : Fine(u)
    BY <1>2, <1>9 DEF HoldOver
  <1>10. ASSUME NEW t \in Tasks, CancelQueued(t)
         PROVE  \A u \in Tasks : Fine(u)
    BY <1>10 DEF TypeOK, JobInv, CancelQueued
  <1>11. ASSUME NEW t \in Tasks, CancelHolding(t)
         PROVE  \A u \in Tasks : Fine(u)
    BY <1>3, <1>11 DEF CancelHolding, Outcomes
  <1>12. ASSUME UNCHANGED local
         PROVE  \A u \in Tasks : Fine(u)
    BY <1>1, <1>12 DEF local
  <1>13. ASSUME Environment
         PROVE  \A u \in Tasks : Fine(u)
    BY <1>12, <1>13 DEF Environment, Answer, StaySilent, Notify, LinkLost
  <1>14. ASSUME UNCHANGED vars
         PROVE  \A u \in Tasks : Fine(u)
    BY <1>12, <1>14 DEF vars
  <1>15. ASSUME NEW t \in Tasks, Resume(t)
         PROVE  \A u \in Tasks : Fine(u)
    BY <1>4, <1>15 DEF Resume
  <1>16. \A u \in Tasks : Fine(u)
    BY <1>5, <1>6, <1>7, <1>8, <1>9, <1>10, <1>11, <1>13, <1>14, <1>15
       DEF Next, TaskStep, Progress, WriteFails, Timeout, Cancel, Outcomes
  <1> QED
    BY <1>16 DEF JobInv

(* Ownership of the response future: one step per action. *)
LEMMA FutureStep ==
  ASSUME Inv, [Next]_vars
  PROVE  FutureOwner'
  <1> USE DEF Inv
  <1> DEFINE Owned(u) ==
        pc'[u] \in {"writing", "awaiting"} =>
          response_future' # None /\ response_future'.id = request'[u]
  (* A new future belongs to the only task that is then writing. *)
  <1>1. ASSUME NEW t \in Tasks, BeginSend(t), \A u \in Tasks : u # t => pc[u] \notin Busy
        PROVE  \A u \in Tasks : Owned(u)
    <2>1. \A u \in Tasks : u # t => pc'[u] \notin Busy
      BY <1>1 DEF TypeOK, BeginSend
    <2>2. nextId \in Ids /\ response_future' = [id |-> nextId, frame |-> None]
          /\ request'[t] = nextId
      BY <1>1 DEF TypeOK, BeginSend
    <2>3. response_future' \in Futures
      BY <2>2 DEF Futures
    <2> QED
      BY <2>1, <2>2, <2>3, NoneAssumption DEF Busy
  (* A task that stays where it is, or waits, leaves the future alone. *)
  <1>2. ASSUME UNCHANGED <<request, response_future>>,
               \A u \in Tasks :
                 pc'[u] \in {"writing", "awaiting"} => pc[u] \in {"writing", "awaiting"}
        PROVE  \A u \in Tasks : Owned(u)
    BY <1>2 DEF FutureOwner
  (* A task that stops using the future is the only one that did. *)
  <1>3. ASSUME NEW t \in Tasks, pc[t] \in Busy,
               NEW p \in {"idle", "holding"}, pc' = [pc EXCEPT ![t] = p]
        PROVE  \A u \in Tasks : Owned(u)
    <2>1. \A u \in Tasks : pc'[u] = IF u = t THEN p ELSE pc[u]
      BY <1>3 DEF TypeOK
    <2> QED
      BY <1>3, <2>1, BusyIsHolder DEF Busy
  <1>4. ASSUME NEW t \in Tasks, pc[t] \in Busy, BeginSend(t)
        PROVE  \A u \in Tasks : Owned(u)
    BY <1>1, <1>4, BusyIsHolder
  <1>5. ASSUME NEW t \in Tasks, pc[t] \in {"writing", "awaiting"}, Take(t)
        PROVE  \A u \in Tasks : Owned(u)
    <2>1. pc[t] \in Busy
      BY <1>5 DEF Busy
    <2> QED
      BY <1>3, <1>4, <1>5, <2>1, TakeCases DEF Release
  <1>6. ASSUME NEW t \in Tasks, NEW j \in Jobs, Call(t, j)
        PROVE  \A u \in Tasks : Owned(u)
    <2>1. CASE LockIsFree /\ BeginSend(t)
      BY <1>1, <2>1, NoneAssumption DEF LockIsFree, LockInv
    <2>2. CASE pc' = [pc EXCEPT ![t] = "queued"] /\ UNCHANGED <<request, device>>
      BY <1>2, <2>2 DEF TypeOK, device
    <2> QED
      BY <1>6, <2>1, <2>2 DEF Call
  <1>7. ASSUME NEW t \in Tasks, Wake(t)
        PROVE  \A u \in Tasks : Owned(u)
    BY <1>1, <1>7, NoneAssumption DEF Wake, LockInv
  <1>8. ASSUME NEW t \in Tasks, Write(t)
        PROVE  \A u \in Tasks : Owned(u)
    <2>1. CASE /\ UNCHANGED pc \/ pc' = [pc EXCEPT ![t] = "awaiting"]
               /\ UNCHANGED <<request, response_future>>
      BY <1>2, <1>8, <2>1 DEF TypeOK, Write
    <2> QED
      BY <1>5, <1>8, <2>1 DEF Write, device
  <1>9. ASSUME NEW t \in Tasks, NEW why \in Outcomes,
               LeaveWrite(t, why) \/ LeaveAwait(t, why)
        PROVE  \A u \in Tasks : Owned(u)
    BY <1>3, <1>9 DEF LeaveWrite, LeaveAwait, Release, Busy
  <1>10. ASSUME NEW t \in Tasks, HoldOver(t)
         PROVE  \A u \in Tasks : Owned(u)
    BY <1>4, <1>10 DEF HoldOver, Busy
  <1>11. ASSUME NEW t \in Tasks, CancelQueued(t)
         PROVE  \A u \in Tasks : Owned(u)
    BY <1>2, <1>11 DEF TypeOK, CancelQueued, device
  <1>12. ASSUME NEW t \in Tasks, CancelHolding(t)
         PROVE  \A u \in Tasks : Owned(u)
    BY <1>3, <1>12 DEF CancelHolding, Release, Busy
  <1>13. ASSUME UNCHANGED <<local, response_future>>
         PROVE  \A u \in Tasks : Owned(u)
    BY <1>2, <1>13 DEF local
  (* A notification fills the future in and does not change whose it is. *)
  <1>14. ASSUME NEW stale \in BOOLEAN, Notify(stale)
         PROVE  \A u \in Tasks : Owned(u)
    <2>1. UNCHANGED local
      BY <1>14 DEF Notify
    <2>2. CASE response_future' = response_future
      BY <1>13, <2>1, <2>2
    <2>3. CASE /\ response_future # None
               /\ response_future' =
                    [response_future EXCEPT !.frame = Head(tx).frame]
               /\ Head(tx).frame \in Frames
      <3>1. response_future \in Futures /\ response_future' \in Futures
            /\ response_future'.id = response_future.id
        BY <2>3 DEF TypeOK, Futures
      <3> QED
        BY <2>1, <3>1, NoneAssumption DEF local, FutureOwner
    <2>4. Head(tx).frame \in Frames
      <3> DEFINE R == [frame : Frames, part : 1..Fragments]
      <3>1. Head(tx) \in R
        <4>1. tx \in Seq(R) /\ tx # <<>>
          BY <1>14 DEF TypeOK, Notify
        <4> HIDE DEF R
        <4> QED
          BY <4>1, HeadTailProperties
      <3> QED
        BY <3>1
    <2> QED
      BY <1>14, <2>2, <2>3, <2>4 DEF Notify
  <1>15. ASSUME NEW t \in Tasks, Resume(t)
         PROVE  \A u \in Tasks : Owned(u)
    BY <1>5, <1>15 DEF Resume
  <1>16. ASSUME Environment \/ UNCHANGED vars
         PROVE  \A u \in Tasks : Owned(u)
    BY <1>13, <1>14, <1>16
       DEF Environment, Answer, StaySilent, LinkLost, vars, device
  <1>17. \A u \in Tasks : Owned(u)
    BY <1>6, <1>7, <1>8, <1>9, <1>10, <1>11, <1>12, <1>15, <1>16
       DEF Next, TaskStep, Progress, WriteFails, Timeout, Cancel, Outcomes
  <1> QED
    BY <1>17 DEF FutureOwner

(* Nothing is queued, held or pending at the start. *)
LEMMA InvInit == Init => Inv
  <1> SUFFICES ASSUME Init PROVE Inv
    OBVIOUS
  <1>1. \A S : <<>> \in Seq(S)
    BY EmptySeq
  <1>2. TypeOK
    BY <1>1, ChunksAssumption, FragmentsAssumption DEF Init, TypeOK, Ids, Outcomes
  <1>3. Len(waiters) = 0
    BY DEF Init
  <1>4. LockInv
    BY <1>3, NoneAssumption DEF Init, LockInv, Busy
  <1> QED
    BY <1>2, <1>4 DEF Init, Inv, JobInv, FutureOwner

(* The invariant is inductive. *)
LEMMA InvStep == Inv /\ [Next]_vars => Inv'
  BY TypeStep, LockStep, JobStep, FutureStep DEF Inv

(* The types and what the command lock, the job loop and the response future of
   _send_locked keep true hold in every state. *)
THEOREM Invariance == Spec => []Inv
  BY InvInit, InvStep, PTL DEF Spec

(* Every variable keeps its type: in particular a response is never taken from
   a future that is gone. *)
THEOREM TypeCorrect == Spec => []TypeOK
  BY Invariance, PTL DEF Inv

(* The command lock serializes the transport: a task is between acquiring and
   releasing it exactly when it is the holder. *)
THEOREM Serialized == Spec => []MutualExclusion
  <1>1. Inv => MutualExclusion
    <2> SUFFICES ASSUME Inv PROVE MutualExclusion
      OBVIOUS
    <2>1. \A t \in Tasks : t \in Inside <=> holder = t
      BY DEF Inv, LockInv, Busy, Inside
    <2>2. holder \in Tasks \union {None} /\ Inside \subseteq Tasks
      BY DEF Inv, TypeOK, Inside
    <2> QED
      BY <2>1, <2>2, NoneAssumption DEF MutualExclusion
  <1> QED
    BY <1>1, Invariance, PTL

(* The future a task writes for or waits on is its own. *)
THEOREM FutureOwned == Spec => []FutureOwner
  BY Invariance, PTL DEF Inv

-----------------------------------------------------------------------------
(* The channel implements the FIFO service. *)

(* A queue with somebody put in front of it. *)
LEMMA InFront ==
  ASSUME NEW S, NEW h \in S, NEW w \in Seq(S)
  PROVE  /\ <<h>> \o w \in Seq(S) /\ Len(<<h>> \o w) = Len(w) + 1
         /\ (<<h>> \o w)[1] = h
         /\ \A i \in 1..Len(w) : (<<h>> \o w)[i + 1] = w[i]
  <1>1. <<h>> \in Seq(S) /\ Len(<<h>>) = 1 /\ <<h>>[1] = h /\ Len(w) \in Nat
    OBVIOUS
  <1> DEFINE one == <<h>>
  <1> HIDE DEF one
  <1>2. /\ one \o w \in Seq(S) /\ Len(one \o w) = Len(one) + Len(w)
        /\ \A i \in 1..(Len(one) + Len(w)) : (one \o w)[i] =
             IF i <= Len(one) THEN one[i] ELSE w[i - Len(one)]
    BY <1>1, ConcatProperties DEF one
  <1>3. one \in Seq(S) /\ Len(one) = 1 /\ one[1] = h
    BY <1>1 DEF one
  <1>4. /\ one \o w \in Seq(S) /\ Len(one \o w) = Len(w) + 1
        /\ (one \o w)[1] = h
        /\ \A i \in 1..Len(w) : (one \o w)[i + 1] = w[i]
    BY <1>1, <1>2, <1>3
  <1> QED
    BY <1>4 DEF one

(* The one in front leaves. *)
LEMMA FrontLeaves ==
  ASSUME NEW S, NEW h \in S, NEW w \in Seq(S)
  PROVE  /\ <<h>> \o w # <<>> /\ Head(<<h>> \o w) = h /\ Tail(<<h>> \o w) = w
  <1> DEFINE line == <<h>> \o w
  <1>1. /\ line \in Seq(S) /\ Len(line) = Len(w) + 1 /\ line[1] = h
        /\ \A i \in 1..Len(w) : line[i + 1] = w[i]
        /\ Len(w) \in Nat
    BY InFront
  <1> HIDE DEF line
  <1>2. line # <<>>
    <2>1. Len(<<>>) = 0 /\ Len(line) # 0
      BY <1>1
    <2> QED
      BY <2>1, Zenon
  <1>3. /\ Head(line) = line[1] /\ Tail(line) \in Seq(S)
        /\ Len(Tail(line)) = Len(line) - 1
        /\ \A i \in 1..Len(Tail(line)) : Tail(line)[i] = line[i + 1]
    BY <1>1, <1>2, HeadTailProperties
  <1>4. Tail(line) = w
    <2>1. Len(Tail(line)) = Len(w)
      BY <1>1, <1>3
    <2>2. \A i \in 1..Len(Tail(line)) : Tail(line)[i] = w[i]
      BY <1>1, <1>3, <2>1
    <2> QED
      BY <1>3, <2>1, <2>2, SeqEqual, Zenon
  <1>5. line # <<>> /\ Head(line) = h /\ Tail(line) = w
    BY <1>1, <1>2, <1>3, <1>4
  <1> QED
    BY <1>5 DEF line

(* Somebody joins the end of the queue behind the one in front. *)
LEMMA JoinsBehind ==
  ASSUME NEW S, NEW h \in S, NEW w \in Seq(S), NEW t \in S
  PROVE  <<h>> \o Append(w, t) = Append(<<h>> \o w, t)
  <1> DEFINE line == <<h>> \o w
             longer == <<h>> \o Append(w, t)
  <1>1. /\ line \in Seq(S) /\ Len(line) = Len(w) + 1 /\ line[1] = h
        /\ \A i \in 1..Len(w) : line[i + 1] = w[i]
        /\ Len(w) \in Nat
    BY InFront
  <1>2. /\ Append(w, t) \in Seq(S) /\ Len(Append(w, t)) = Len(w) + 1
        /\ \A i \in 1..Len(w) : Append(w, t)[i] = w[i]
        /\ Append(w, t)[Len(w) + 1] = t
    BY AppendProperties
  <1>3. /\ longer \in Seq(S) /\ Len(longer) = Len(Append(w, t)) + 1
        /\ longer[1] = h
        /\ \A i \in 1..Len(Append(w, t)) : longer[i + 1] = Append(w, t)[i]
    BY <1>2, InFront
  <1> HIDE DEF line, longer
  <1>4. /\ Append(line, t) \in Seq(S) /\ Len(Append(line, t)) = Len(line) + 1
        /\ \A i \in 1..Len(line) : Append(line, t)[i] = line[i]
        /\ Append(line, t)[Len(line) + 1] = t
    BY <1>1, AppendProperties
  <1>5. Len(longer) = Len(Append(line, t))
    BY <1>1, <1>2, <1>3, <1>4
  <1>6. ASSUME NEW i \in 1..Len(longer)
        PROVE  longer[i] = Append(line, t)[i]
    <2>1. CASE i = 1
      BY <1>1, <1>3, <1>4, <2>1
    <2>2. CASE i \in 2..(Len(w) + 1)
      <3>1. i - 1 \in 1..Len(w) /\ i = (i - 1) + 1
        BY <1>1, <2>2
      <3>2. longer[i] = w[i - 1]
        BY <1>1, <1>2, <1>3, <3>1
      <3>3. Append(line, t)[i] = w[i - 1]
        BY <1>1, <1>4, <2>2, <3>1
      <3> QED
        BY <3>2, <3>3
    <2>3. CASE i = Len(w) + 2
      <3>1. Len(w) + 1 \in 1..Len(Append(w, t)) /\ i = (Len(w) + 1) + 1
        BY <1>1, <1>2, <2>3
      <3>2. longer[i] = t
        BY <1>2, <1>3, <3>1
      <3>3. i = Len(line) + 1
        BY <1>1, <2>3
      <3> QED
        BY <1>4, <3>2, <3>3
    <2> QED
      BY <1>1, <1>2, <1>3, <2>1, <2>2, <2>3
  <1>7. longer = Append(line, t)
    BY <1>3, <1>4, <1>5, <1>6, SeqEqual, Zenon
  <1> QED
    BY <1>7 DEF line, longer

(* The oldest in the queue comes to the front. *)
LEMMA ComesToFront ==
  ASSUME NEW S, NEW w \in Seq(S), w # <<>>
  PROVE  <<Head(w)>> \o Tail(w) = w
  <1>1. /\ Head(w) \in S /\ Head(w) = w[1] /\ Tail(w) \in Seq(S)
        /\ Len(Tail(w)) = Len(w) - 1 /\ Len(w) \in Nat \ {0}
        /\ \A i \in 1..Len(Tail(w)) : Tail(w)[i] = w[i + 1]
    BY HeadTailProperties
  <1> DEFINE line == <<Head(w)>> \o Tail(w)
  <1>2. /\ line \in Seq(S) /\ Len(line) = Len(Tail(w)) + 1 /\ line[1] = Head(w)
        /\ \A i \in 1..Len(Tail(w)) : line[i + 1] = Tail(w)[i]
    BY <1>1, InFront
  <1> HIDE DEF line
  <1>3. Len(line) = Len(w)
    BY <1>1, <1>2
  <1>4. ASSUME NEW i \in 1..Len(line)
        PROVE  line[i] = w[i]
    <2>1. CASE i = 1
      BY <1>1, <1>2, <2>1
    <2>2. CASE i # 1
      <3>1. i - 1 \in 1..Len(Tail(w)) /\ i = (i - 1) + 1
        BY <1>1, <1>3, <2>2
      <3> QED
        BY <1>1, <1>2, <3>1
    <2> QED
      BY <2>1, <2>2
  <1>5. line = w
    BY <1>2, <1>3, <1>4, SeqEqual, Zenon
  <1> QED
    BY <1>5 DEF line

(* Somebody leaves the queue behind the one in front. *)
LEMMA LeavesBehind ==
  ASSUME NEW S, NEW h \in S, NEW w \in Seq(S), NEW n \in 1..Len(w)
  PROVE  /\ n + 1 \in 1..Len(<<h>> \o w) /\ (<<h>> \o w)[n + 1] = w[n]
         /\ <<h>> \o RemoveAt(w, n) = RemoveAt(<<h>> \o w, n + 1)
  <1> DEFINE line == <<h>> \o w
             rest == RemoveAt(w, n)
             shorter == <<h>> \o rest
  <1>1. /\ line \in Seq(S) /\ Len(line) = Len(w) + 1 /\ line[1] = h
        /\ \A i \in 1..Len(w) : line[i + 1] = w[i]
        /\ Len(w) \in Nat
    BY InFront
  <1>2. /\ rest \in Seq(S) /\ Len(rest) = Len(w) - 1
        /\ \A i \in 1..(Len(w) - 1) : rest[i] = IF i < n THEN w[i] ELSE w[i + 1]
    BY RemoveAtProps
  <1> HIDE DEF rest
  <1>3. /\ shorter \in Seq(S) /\ Len(shorter) = Len(rest) + 1 /\ shorter[1] = h
        /\ \A i \in 1..Len(rest) : shorter[i + 1] = rest[i]
    BY <1>2, InFront
  <1> HIDE DEF line, shorter
  <1>4. n + 1 \in 1..Len(line) /\ line[n + 1] = w[n]
    BY <1>1
  <1>5. /\ RemoveAt(line, n + 1) \in Seq(S)
        /\ Len(RemoveAt(line, n + 1)) = Len(line) - 1
        /\ \A i \in 1..(Len(line) - 1) :
             RemoveAt(line, n + 1)[i] = IF i < n + 1 THEN line[i] ELSE line[i + 1]
    BY <1>1, <1>4, RemoveAtProps
  <1>6. Len(shorter) = Len(RemoveAt(line, n + 1))
    BY <1>1, <1>2, <1>3, <1>5
  <1>7. ASSUME NEW i \in 1..Len(shorter)
        PROVE  shorter[i] = RemoveAt(line, n + 1)[i]
    <2>1. i \in 1..Len(w) /\ Len(line) - 1 = Len(w)
      BY <1>1, <1>2, <1>3
    <2>2. CASE i = 1
      BY <1>1, <1>3, <1>5, <2>1, <2>2
    <2>3. CASE i # 1
      <3>1. i - 1 \in 1..Len(rest) /\ i - 1 \in 1..(Len(w) - 1) /\ i = (i - 1) + 1
        BY <1>1, <1>2, <2>1, <2>3
      <3>2. shorter[i] = IF i - 1 < n THEN w[i - 1] ELSE w[(i - 1) + 1]
        BY <1>2, <1>3, <3>1
      <3>3. RemoveAt(line, n + 1)[i] = IF i < n + 1 THEN line[i] ELSE line[i + 1]
        BY <1>5, <2>1
      <3>4. line[i] = w[i - 1] /\ line[i + 1] = w[i]
        BY <1>1, <2>1, <3>1
      <3> QED
        BY <2>1, <3>1, <3>2, <3>3, <3>4
    <2> QED
      BY <2>2, <2>3
  <1>8. shorter = RemoveAt(line, n + 1)
    BY <1>3, <1>5, <1>6, <1>7, SeqEqual, Zenon
  <1> QED
    BY <1>4, <1>8 DEF line, shorter, rest

(* The line and the replies of the service, as the channel has them. *)
Line == IF holder = None THEN waiters ELSE <<holder>> \o waiters
Reply == [t \in Tasks |-> IF outcome[t] \in {"none", "ok"} THEN outcome[t]
                          ELSE "error"]

(* The reply of a task whose outcome is set. *)
LEMMA ReplyStep ==
  ASSUME TypeOK, NEW t \in Tasks, NEW why, outcome' = [outcome EXCEPT ![t] = why]
  PROVE  Reply' = [Reply EXCEPT ![t] = IF why \in {"none", "ok"} THEN why
                                       ELSE "error"]
  BY DEF TypeOK, Reply

(* The lock is released: the holder is served. *)
LEMMA ReleaseServes ==
  ASSUME Inv, NEW t \in Tasks, NEW why \in Outcomes \ {"none"}, pc[t] \in Busy,
         Release(t, why), waiters' = waiters
  PROVE  Service!Serve(t)
  <1> USE DEF Inv
  <1>1. holder = t /\ holder' = None /\ waiters \in Seq(Tasks) /\ t # None
    BY NoneAssumption DEF LockInv, Release, TypeOK
  <1>2. Line = <<t>> \o waiters /\ Line' = waiters
    BY <1>1 DEF Line
  <1>3. Line # <<>> /\ Head(Line) = t /\ Tail(Line) = waiters
    BY <1>1, <1>2, FrontLeaves
  <1>4. \E r \in {"ok", "error"} : Reply' = [Reply EXCEPT ![t] = r]
    BY ReplyStep DEF Release
  <1> QED
    BY <1>2, <1>3, <1>4 DEF Service!Serve, Line, Reply

(* Nothing the service shows has changed. *)
LEMMA Stutters ==
  ASSUME UNCHANGED <<holder, waiters, outcome>>
  PROVE  UNCHANGED Service!service
  BY DEF Service!service

(* An answer that is taken ends the visit or leaves the line as it is. *)
LEMMA TakeServes ==
  ASSUME Inv, NEW t \in Tasks, pc[t] \in Busy, Take(t)
  PROVE  [Service!Next]_(Service!service)
  <1>1. CASE \E why \in {"mismatch", "status", "ok"} : Release(t, why)
    <2>1. Service!Serve(t)
      BY <1>1, ReleaseServes DEF Take, Outcomes
    <2> QED
      BY <2>1 DEF Service!Next
  <1>2. CASE UNCHANGED <<holder, outcome>>
    BY <1>2, Stutters DEF Take
  <1> QED
    BY <1>1, <1>2 DEF Take

(* A call joins the end of the line. *)
LEMMA CallJoins ==
  ASSUME Inv, NEW t \in Tasks, NEW j \in Jobs, Call(t, j)
  PROVE  Service!Join(t)
  <1> USE DEF Inv
  <1>1. Reply' = [Reply EXCEPT ![t] = "none"]
    BY ReplyStep DEF Call
  <1>2. waiters \in Seq(Tasks) /\ holder \in Tasks \union {None}
    BY DEF TypeOK
  <1>3. holder # t /\ \A i \in 1..Len(waiters) : waiters[i] # t
    BY DEF Call, LockInv, Busy
  <1>4. /\ \A i \in 1..Len(Line) : Line[i] # t
        /\ Line' = Append(Line, t)
    <2>1. CASE LockIsFree /\ holder' = t /\ waiters' = waiters
      <3>1. Line = <<>> /\ Line' = <<t>> \o <<>>
        BY <2>1, NoneAssumption DEF LockIsFree, Line
      <3>2. Len(<<>>) = 0 /\ <<t>> \o <<>> = <<t>> /\ Append(<<>>, t) = <<t>>
        OBVIOUS
      <3> QED
        BY <3>1, <3>2
    <2>2. CASE holder = None /\ holder' = holder /\ waiters' = Append(waiters, t)
      BY <1>3, <2>2 DEF Line
    <2>3. CASE holder # None /\ holder' = holder /\ waiters' = Append(waiters, t)
      <3>1. Line = <<holder>> \o waiters /\ Line' = <<holder>> \o Append(waiters, t)
        BY <2>3 DEF Line
      <3>2. Line' = Append(Line, t)
        BY <1>2, <2>3, <3>1, JoinsBehind
      <3>3. ASSUME NEW i \in 1..Len(Line)
            PROVE  Line[i] # t
        <4>1. /\ Len(Line) = Len(waiters) + 1 /\ Line[1] = holder
              /\ \A k \in 1..Len(waiters) : Line[k + 1] = waiters[k]
              /\ Len(waiters) \in Nat
          BY <1>2, <2>3, <3>1, InFront
        <4>2. CASE i = 1
          BY <1>3, <4>1, <4>2
        <4>3. CASE i # 1
          <5>1. i - 1 \in 1..Len(waiters) /\ i = (i - 1) + 1
            BY <4>1, <4>3
          <5> QED
            BY <1>3, <4>1, <5>1
        <4> QED
          BY <4>2, <4>3
      <3> QED
        BY <3>2, <3>3
    <2> QED
      BY <2>1, <2>2, <2>3 DEF Call
  <1> QED
    BY <1>1, <1>4 DEF Service!Join, Line, Reply

(* The oldest waiter comes to the front of the line, where it already is. *)
LEMMA WakeStutters ==
  ASSUME Inv, NEW t \in Tasks, Wake(t)
  PROVE  UNCHANGED Service!service
  <1>1. waiters \in Seq(Tasks) /\ waiters # <<>> /\ holder = None
        /\ holder' = Head(waiters) /\ waiters' = Tail(waiters) /\ holder' # None
        /\ outcome' = outcome
    BY NoneAssumption DEF Inv, TypeOK, Wake
  <1>2. Line = waiters /\ Line' = <<Head(waiters)>> \o Tail(waiters)
    BY <1>1 DEF Line
  <1>3. Line' = Line /\ Reply' = Reply
    BY <1>1, <1>2, ComesToFront DEF Reply
  <1> QED
    BY <1>3 DEF Service!service, Line, Reply

(* A waiter that is cancelled gives up. *)
LEMMA CancelQueuedGivesUp ==
  ASSUME Inv, NEW t \in Tasks, CancelQueued(t)
  PROVE  Service!GiveUp(t)
  <1> PICK n \in 1..Len(waiters) : waiters[n] = t /\ waiters' = RemoveAt(waiters, n)
    BY DEF CancelQueued
  <1>1. Reply' = [Reply EXCEPT ![t] = "error"]
    BY ReplyStep DEF CancelQueued, Inv
  <1>2. waiters \in Seq(Tasks) /\ holder \in Tasks \union {None} /\ holder' = holder
    BY DEF Inv, TypeOK, CancelQueued
  <1>3. \E i \in 1..Len(Line) : Line[i] = t /\ Line' = RemoveAt(Line, i)
    <2>1. CASE holder = None
      BY <1>2, <2>1 DEF Line
    <2>2. CASE holder # None
      <3>1. Line = <<holder>> \o waiters /\ Line' = <<holder>> \o RemoveAt(waiters, n)
        BY <1>2, <2>2 DEF Line
      <3>2. holder \in Tasks
        BY <1>2, <2>2
      <3>3. /\ n + 1 \in 1..Len(<<holder>> \o waiters)
            /\ (<<holder>> \o waiters)[n + 1] = waiters[n]
            /\ <<holder>> \o RemoveAt(waiters, n) = RemoveAt(<<holder>> \o waiters, n + 1)
        BY <1>2, <3>2, LeavesBehind, SMTT(60)
      <3> QED
        BY <3>1, <3>3, Zenon
    <2> QED
      BY <2>1, <2>2
  <1> QED
    BY <1>1, <1>3 DEF Service!GiveUp, Service!RemoveAt, RemoveAt, Line, Reply

(* Every step of the channel is one of the service or leaves it unchanged. *)
LEMMA ServiceStep ==
  ASSUME Inv, [Next]_vars
  PROVE  [Service!Next]_(Service!service)
  <1>1. ASSUME NEW t \in Tasks, NEW j \in Jobs, Call(t, j)
        PROVE  Service!Next
    BY <1>1, CallJoins DEF Service!Next
  <1>2. ASSUME NEW t \in Tasks, Wake(t)
        PROVE  UNCHANGED Service!service
    BY <1>2, WakeStutters
  <1>3. ASSUME NEW t \in Tasks, Write(t) \/ Resume(t)
        PROVE  [Service!Next]_(Service!service)
    <2>1. pc[t] \in Busy
      BY <1>3 DEF Write, Resume, Busy
    <2>2. CASE Take(t)
      BY <2>1, <2>2, TakeServes
    <2>3. CASE UNCHANGED <<outcome, lock>>
      BY <2>3, Stutters DEF lock
    <2> QED
      BY <1>3, <2>2, <2>3 DEF Write, Resume
  <1>4. ASSUME NEW t \in Tasks, NEW why \in Outcomes \ {"none"},
               LeaveWrite(t, why) \/ LeaveAwait(t, why)
        PROVE  Service!Next
    <2>1. Service!Serve(t)
      BY <1>4, ReleaseServes DEF LeaveWrite, LeaveAwait, Busy
    <2> QED
      BY <2>1 DEF Service!Next
  <1>5. ASSUME NEW t \in Tasks, HoldOver(t)
        PROVE  UNCHANGED Service!service
    BY <1>5, Stutters DEF HoldOver, lock
  <1>6. ASSUME NEW t \in Tasks, CancelQueued(t)
        PROVE  Service!Next
    BY <1>6, CancelQueuedGivesUp DEF Service!Next
  <1>7. ASSUME NEW t \in Tasks, CancelHolding(t)
        PROVE  Service!Next
    <2>1. Service!Serve(t)
      BY <1>7, ReleaseServes DEF CancelHolding, Outcomes, Busy
    <2> QED
      BY <2>1 DEF Service!Next
  <1>8. ASSUME Environment \/ UNCHANGED vars
        PROVE  UNCHANGED Service!service
    BY <1>8, Stutters
       DEF Environment, Answer, StaySilent, Notify, LinkLost, vars, local, lock
  <1> QED
    BY <1>1, <1>2, <1>3, <1>4, <1>5, <1>6, <1>7, <1>8
       DEF Next, TaskStep, Progress, WriteFails, Timeout, Cancel, Outcomes

(* The channel starts as the service does. *)
LEMMA ServiceInit == Init => Service!Init
  BY DEF Init, Service!Init

(* The safety part of the refinement: callers of the channel are served one at a
   time in the order they came, each once per call, whatever fails, times out or
   is cancelled. *)
THEOREM ServesInOrder == Spec => Service!Spec
  BY ServiceInit, ServiceStep, Invariance, PTL DEF Spec, Service!Spec
=============================================================================
