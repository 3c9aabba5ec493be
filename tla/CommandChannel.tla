--------------------------- MODULE CommandChannel ---------------------------
(***************************************************************************)
(* The command transport of one connection: ChameleonUltraDevice in        *)
(* device.py, the asyncio tasks that call it, the BLE link and the device  *)
(* at its other end.                                                       *)
(*                                                                         *)
(* asyncio runs one task at a time and switches only at an await, so an    *)
(* action is everything a task does from one await to the next.  A job is  *)
(* one entry into the command lock: send_command is a job of one command,  *)
(* send_command_sequence a job of several, and the unlock button a job of  *)
(* two commands with a sleep between them.                                 *)
(*                                                                         *)
(* Payload bytes are abstracted: a request carries its command code and a  *)
(* response the code, whether its status is a known error, and (history)   *)
(* the identity of the request it answers, which the wire format lacks.    *)
(***************************************************************************)
EXTENDS Naturals, Sequences, SequencesExt

CONSTANTS
  Tasks,      \* the coroutines that share the device object
  Commands,   \* command codes
  Jobs,       \* the jobs a task may start: [cmds, hold]
  Chunks,     \* ATT writes one request frame takes at the negotiated MTU
  Fragments,  \* notifications one response frame arrives in
  MaxCalls,   \* bound: jobs started on this connection
  None

ASSUME ChunksAssumption == Chunks \in Nat \ {0}
ASSUME FragmentsAssumption == Fragments \in Nat \ {0}
ASSUME MaxCallsAssumption == MaxCalls \in Nat
ASSUME JobsAssumption ==
  \A j \in Jobs : /\ j.cmds \in Seq(Commands) /\ j.cmds # <<>>
                  /\ j.hold \in BOOLEAN

Ids == Nat \ {0}
Frames == [id : Ids, cmd : Commands, ok : BOOLEAN]
Futures == [id : Ids, frame : Frames \union {None}]

ASSUME NoneAssumption ==
  None \notin Tasks /\ None \notin Frames /\ None \notin Futures

VARIABLES
  pc,               \* where each task is suspended
  job,              \* the job each task runs
  results,          \* frames collected so far, with the request each was taken for
  outcome,          \* how the last job of each task ended
  request,          \* identity of the request each task sent last
  sent,             \* chunks of it written so far
  holder,           \* the task inside _command_lock, or None
  waiters,          \* tasks suspended in its acquire(), oldest first
  response_future,  \* _response_future: [id, frame], frame = None while pending
  partial,          \* fragments of a response held by the FrameAssembler
  connected,        \* the BLE link is up
  rx,               \* complete requests the device has not looked at
  tx,               \* response fragments not yet notified
  calls,            \* jobs started
  nextId,           \* history: identity of the next request
  abandoned,        \* history: requests given up without their own answer
  wire              \* history: the last chunk the link accepted

local == <<pc, job, results, outcome, request, sent>>
lock == <<holder, waiters>>
device == <<response_future, partial>>
link == <<connected, rx, tx>>
history == <<nextId, abandoned, wire>>
vars == <<local, lock, device, link, calls, history>>

Outcomes == {"none", "ok", "timeout", "mismatch", "status", "write", "cancelled"}

(* Tasks suspended inside "async with self._command_lock". *)
Inside == {t \in Tasks : pc[t] \in {"writing", "awaiting", "holding"}}

(* The command a task is at: one result has been collected per earlier one. *)
CurrentCmd(t) == job[t].cmds[Len(results[t]) + 1]

Init ==
  /\ pc = [t \in Tasks |-> "idle"]
  /\ job = [t \in Tasks |-> None]
  /\ results = [t \in Tasks |-> <<>>]
  /\ outcome = [t \in Tasks |-> "none"]
  /\ request = [t \in Tasks |-> 0]
  /\ sent = [t \in Tasks |-> 0]
  /\ holder = None
  /\ waiters = <<>>
  /\ response_future = None
  /\ partial = 0
  /\ connected = TRUE
  /\ rx = <<>>
  /\ tx = <<>>
  /\ calls = 0
  /\ nextId = 1
  /\ abandoned = {}
  /\ wire = [task |-> None, id |-> 0, chunk |-> 0]

-----------------------------------------------------------------------------
(* The pieces the actions are made of. *)

(* A send that keeps a future it finds instead of creating its own. *)
BeginSendReuses(t) ==
  /\ pc' = [pc EXCEPT ![t] = "writing"]
  /\ request' = [request EXCEPT ![t] = nextId]
  /\ sent' = [sent EXCEPT ![t] = 0]
  /\ response_future' = IF response_future = None
                        THEN [id |-> nextId, frame |-> None] ELSE response_future
  /\ partial' = 0
  /\ nextId' = nextId + 1

(* The start of _send_locked: a fresh future replaces whatever was there and
   the assembler forgets a half-received frame; the next await is a write. *)
BeginSend(t) ==
  /\ pc' = [pc EXCEPT ![t] = "writing"]
  /\ request' = [request EXCEPT ![t] = nextId]
  /\ sent' = [sent EXCEPT ![t] = 0]
  /\ response_future' = [id |-> nextId, frame |-> None]
  /\ partial' = 0
  /\ nextId' = nextId + 1

(* No lock at all; a lock that ignores its holder; a lock given up for the
   sleep between the commands of an unlock. *)
NoLock == TRUE
LockIgnoresHolder == waiters = <<>>
LockFreeInHold == waiters = <<>> /\ (holder # None => pc[holder] = "holding")

(* asyncio.Lock.acquire() succeeds without suspending only when the lock is
   free and nobody is queued for it. *)
LockIsFree == holder = None /\ waiters = <<>>

(* Leaving "async with": release() hands over to the oldest waiter. *)
Release(t, why) ==
  /\ pc' = [pc EXCEPT ![t] = "idle"]
  /\ outcome' = [outcome EXCEPT ![t] = why]
  /\ holder' = None

(* The future of the current request was resolved with a frame. *)
Resolved == response_future # None /\ response_future.frame # None

(* The command in progress ends; its own answer, if not yet seen, is stray. *)
Settle(t) ==
  abandoned' = IF Resolved /\ response_future.frame.id = request[t]
               THEN abandoned ELSE abandoned \union {request[t]}

(* wait_for returned a frame: the checks at the end of _send_locked, and what
   its caller does with the frame. *)
Take(t) ==
  LET frame == response_future.frame
      last  == Len(results[t]) + 1 = Len(job[t].cmds) IN
  /\ Settle(t)
  /\ UNCHANGED <<job, waiters>>
  /\ \/ /\ frame.cmd # CurrentCmd(t)
        /\ Release(t, "mismatch")
        /\ response_future' = None
        /\ UNCHANGED <<results, request, sent, partial, nextId>>
     \/ /\ frame.cmd = CurrentCmd(t) /\ ~frame.ok
        /\ Release(t, "status")
        /\ response_future' = None
        /\ UNCHANGED <<results, request, sent, partial, nextId>>
     \/ /\ frame.cmd = CurrentCmd(t) /\ frame.ok
        /\ results' = [results EXCEPT ![t] =
                         Append(@, [frame |-> frame, asked |-> request[t]])]
        /\ \/ /\ last
              /\ Release(t, "ok")
              /\ response_future' = None
              /\ UNCHANGED <<request, sent, partial, nextId>>
           \/ /\ ~last /\ job[t].hold
              /\ pc' = [pc EXCEPT ![t] = "holding"]
              /\ response_future' = None
              /\ UNCHANGED <<outcome, holder, request, sent, partial, nextId>>
           \/ /\ ~last /\ ~job[t].hold
              /\ BeginSend(t)
              /\ UNCHANGED <<outcome, holder>>

-----------------------------------------------------------------------------
(* Steps of the calling tasks. *)

(* A task enters send_command, send_command_sequence or the unlock button's
   critical section: it gets the lock at once or queues for it. *)
Call(t, j) ==
  /\ pc[t] = "idle"
  /\ calls < MaxCalls
  /\ calls' = calls + 1
  /\ job' = [job EXCEPT ![t] = j]
  /\ results' = [results EXCEPT ![t] = <<>>]
  /\ outcome' = [outcome EXCEPT ![t] = "none"]
  /\ UNCHANGED <<link, abandoned, wire>>
  /\ \/ /\ LockIsFree
        /\ holder' = t
        /\ BeginSend(t)
        /\ UNCHANGED waiters
     \/ /\ ~LockIsFree
        /\ waiters' = Append(waiters, t)
        /\ pc' = [pc EXCEPT ![t] = "queued"]
        /\ UNCHANGED <<holder, request, sent, device, nextId>>

(* A lock that wakes any waiter. *)
WakeAny(t) ==
  /\ holder = None
  /\ \E i \in 1..Len(waiters) : /\ waiters[i] = t
                                /\ waiters' = RemoveAt(waiters, i)
  /\ holder' = t
  /\ BeginSend(t)
  /\ UNCHANGED <<job, results, outcome, link, calls, abandoned, wire>>

(* The oldest waiter resumes inside the lock and starts its first command. *)
Wake(t) ==
  /\ holder = None
  /\ waiters # <<>>
  /\ Head(waiters) = t
  /\ holder' = t
  /\ waiters' = Tail(waiters)
  /\ BeginSend(t)
  /\ UNCHANGED <<job, results, outcome, link, calls, abandoned, wire>>

(* What reaches the device when the link takes the next chunk of t's frame. *)
Deliver(t) ==
  /\ wire' = [task |-> t, id |-> request[t], chunk |-> sent[t] + 1]
  /\ rx' = IF sent[t] + 1 = Chunks
           THEN Append(rx, [id |-> request[t], cmd |-> CurrentCmd(t)])
           ELSE rx

(* write_gatt_char returns: on to the next chunk, or to waiting for the
   response, which takes no time if the future is already resolved. *)
Write(t) ==
  /\ pc[t] = "writing"
  /\ connected
  /\ Deliver(t)
  /\ UNCHANGED <<connected, tx, calls>>
  /\ \/ /\ sent[t] + 1 < Chunks
        /\ sent' = [sent EXCEPT ![t] = @ + 1]
        /\ UNCHANGED <<pc, job, results, outcome, request, lock, device,
                       nextId, abandoned>>
     \/ /\ sent[t] + 1 = Chunks /\ ~Resolved
        /\ pc' = [pc EXCEPT ![t] = "awaiting"]
        /\ sent' = [sent EXCEPT ![t] = @ + 1]
        /\ UNCHANGED <<job, results, outcome, request, lock, device,
                       nextId, abandoned>>
     \/ /\ sent[t] + 1 = Chunks /\ Resolved
        /\ Take(t)

(* The write in progress raises, or its task is cancelled there; the link may
   have taken the chunk all the same.  _response_future is left behind. *)
LeaveWrite(t, why) ==
  /\ pc[t] = "writing"
  /\ \/ connected /\ Deliver(t)
     \/ UNCHANGED <<rx, wire>>
  /\ Release(t, why)
  /\ Settle(t)
  /\ UNCHANGED <<job, results, request, sent, waiters, device, connected, tx,
                 calls, nextId>>

WriteFails(t) == LeaveWrite(t, "write")

(* The response arrived and the task runs again. *)
Resume(t) ==
  /\ pc[t] = "awaiting"
  /\ Resolved
  /\ Take(t)
  /\ UNCHANGED <<link, calls, wire>>

(* wait_for raises: the timer fired, or the task was cancelled.  A frame that
   arrived in the same round of the event loop is lost. *)
LeaveAwait(t, why) ==
  /\ pc[t] = "awaiting"
  /\ Release(t, why)
  /\ Settle(t)
  /\ response_future' = None
  /\ UNCHANGED <<job, results, request, sent, waiters, partial, link, calls,
                 nextId, wire>>

(* A wait without a timer: it ends only once the answer is there. *)
TimeoutNever(t) == Resolved /\ LeaveAwait(t, "timeout")

Timeout(t) == LeaveAwait(t, "timeout")

(* asyncio.sleep(hold_time) between the two commands of the unlock is over. *)
HoldOver(t) ==
  /\ pc[t] = "holding"
  /\ BeginSend(t)
  /\ UNCHANGED <<job, results, outcome, lock, link, calls, abandoned, wire>>

(* Task.cancel() at any await. *)
CancelQueued(t) ==
  /\ pc[t] = "queued"
  /\ \E i \in 1..Len(waiters) : /\ waiters[i] = t
                                /\ waiters' = RemoveAt(waiters, i)
  /\ pc' = [pc EXCEPT ![t] = "idle"]
  /\ outcome' = [outcome EXCEPT ![t] = "cancelled"]
  /\ UNCHANGED <<job, results, request, sent, holder, device, link, calls,
                 history>>

CancelHolding(t) ==
  /\ pc[t] = "holding"
  /\ Release(t, "cancelled")
  /\ UNCHANGED <<job, results, request, sent, waiters, device, link, calls,
                 history>>

Cancel(t) ==
  \/ CancelQueued(t)
  \/ LeaveWrite(t, "cancelled")
  \/ LeaveAwait(t, "cancelled")
  \/ CancelHolding(t)

-----------------------------------------------------------------------------
(* The device, the link and the notification callback. *)

(* The firmware executes the oldest request and answers it. *)
Answer(ok) ==
  /\ rx # <<>>
  /\ rx' = Tail(rx)
  /\ tx' = tx \o [i \in 1..Fragments |->
                    [frame |-> [id |-> Head(rx).id, cmd |-> Head(rx).cmd, ok |-> ok],
                     part |-> i]]
  /\ UNCHANGED <<local, lock, device, connected, calls, history>>

(* The firmware leaves the oldest request without an answer. *)
StaySilent ==
  /\ rx # <<>>
  /\ rx' = Tail(rx)
  /\ UNCHANGED <<local, lock, device, connected, tx, calls, history>>

(* Fragments of the frame being received once the given part has come in: an
   assembler that keeps a complete frame, and the one of the code. *)
AssembledKeeps(have, part) == IF part = have + 1 THEN part ELSE have
Assembled(have, part) ==
  IF part # have + 1 THEN have ELSE IF part < Fragments THEN part ELSE 0

(* on_notification: feed the assembler (which first drops a partial frame that
   has grown stale) and give a completed frame to a pending future. *)
Notify(stale) ==
  /\ tx # <<>>
  /\ stale => partial > 0
  /\ tx' = Tail(tx)
  /\ LET have == IF stale THEN 0 ELSE partial
         next == Head(tx) IN
     /\ partial' = Assembled(have, next.part)
     /\ response_future' =
          IF /\ next.part = have + 1 /\ next.part = Fragments
             /\ response_future # None /\ ~Resolved
          THEN [response_future EXCEPT !.frame = next.frame]
          ELSE response_future
  /\ UNCHANGED <<local, lock, connected, rx, calls, history>>

(* The connection drops.  Nothing tells the tasks: a pending future stays
   pending and later writes fail. *)
LinkLost ==
  /\ connected
  /\ connected' = FALSE
  /\ rx' = <<>>
  /\ tx' = <<>>
  /\ UNCHANGED <<local, lock, device, calls, history>>

-----------------------------------------------------------------------------
Progress(t) ==
  Wake(t) \/ Write(t) \/ WriteFails(t) \/ Resume(t) \/ Timeout(t) \/ HoldOver(t)

TaskStep(t) ==
  \/ \E j \in Jobs : Call(t, j)
  \/ Progress(t)
  \/ Cancel(t)

Environment ==
  \/ \E ok \in BOOLEAN : Answer(ok)
  \/ StaySilent
  \/ \E stale \in BOOLEAN : Notify(stale)
  \/ LinkLost

Next == (\E t \in Tasks : TaskStep(t)) \/ Environment

Spec == Init /\ [][Next]_vars

(* The event loop runs every task that can run: a write returns or raises, a
   timer fires, a woken waiter resumes.  Nothing is assumed of the device or
   the link, of new calls or of cancellation. *)
FairSpec == Spec /\ \A t \in Tasks : WF_vars(Progress(t))

-----------------------------------------------------------------------------
(* Properties. *)

TypeOK ==
  /\ pc \in [Tasks -> {"idle", "queued", "writing", "awaiting", "holding"}]
  /\ job \in [Tasks -> Jobs \union {None}]
  /\ results \in [Tasks -> Seq([frame : Frames, asked : Ids])]
  /\ outcome \in [Tasks -> Outcomes]
  /\ request \in [Tasks -> Nat]
  /\ sent \in [Tasks -> 0..Chunks]
  /\ holder \in Tasks \union {None}
  /\ waiters \in Seq(Tasks)
  /\ response_future \in Futures \union {None}
  /\ partial \in 0..(Fragments - 1)
  /\ connected \in BOOLEAN
  /\ rx \in Seq([id : Ids, cmd : Commands])
  /\ tx \in Seq([frame : Frames, part : 1..Fragments])
  /\ calls \in Nat
  /\ nextId \in Ids
  /\ abandoned \subseteq Ids
  /\ wire \in [task : Tasks \union {None}, id : Nat, chunk : 0..Chunks]

(* The lock serializes: a task is between the acquire and the release of
   _command_lock exactly when it is the holder, so never two of them. *)
MutualExclusion == Inside = IF holder = None THEN {} ELSE {holder}

(* A task that is writing a request or waiting for its response finds in
   _response_future the future it created for that request, whatever failed,
   was cancelled or was notified before. *)
FutureOwner ==
  \A t \in Tasks : pc[t] \in {"writing", "awaiting"} =>
    response_future # None /\ response_future.id = request[t]

(* A sequence is atomic on the wire: from the first chunk a task writes until
   it leaves the lock, the last chunk on the link is its own, so no poll gets
   between enabling and disabling in an unlock. *)
SequenceHoldsWire ==
  \A t \in Inside : sent[t] > 0 \/ results[t] # <<>> => wire.task = t

(* Chunks of two requests are never interleaved on the link: the chunk that
   follows is the next one of the same frame, or the first of a new frame
   after a frame that was complete or had been given up. *)
FramesNotInterleaved ==
  [][wire' # wire =>
       \/ wire'.id = wire.id /\ wire'.chunk = wire.chunk + 1
       \/ /\ wire'.id > wire.id /\ wire'.chunk = 1
          /\ wire.chunk \in {0, Chunks} \/ wire.id \in abandoned]_vars

(* Requests whose answer, or whose execution, is still under way. *)
InFlight == {rx[i].id : i \in 1..Len(rx)} \union {tx[i].frame.id : i \in 1..Len(tx)}

(* Only one command is in flight, as send_command promises, as long as no
   earlier one was given up: what else is under way answers a request whose
   caller has left. *)
OneCommandInFlight ==
  \A i, j \in InFlight \ abandoned : i = j

(* A caller gets the answer to another request only if that request had been
   given up before its answer came (a timeout, a write that raised, a
   cancellation, or an answer already mistaken): with every request answered
   in time, responses are correlated although frames carry no identity. *)
MisdeliveryNeedsAbandon ==
  \A t \in Tasks : \A k \in 1..Len(results[t]) :
    LET r == results[t][k] IN r.frame.id # r.asked => r.frame.id \in abandoned

(* One response frame is handed to one command: no two results, of one task or
   of two, come from the same answer. *)
NoAnswerTakenTwice ==
  \A t, u \in Tasks : \A k \in 1..Len(results[t]), m \in 1..Len(results[u]) :
    results[t][k].frame.id = results[u][m].frame.id => t = u /\ k = m

(* Every command comes to an end, by an answer or by an error, whether or not
   the device answers and the link stays up. *)
EveryCallReturns ==
  \A t \in Tasks : pc[t] # "idle" ~> pc[t] = "idle"

(* device.py says that this class handles response correlation: each response
   a caller is given answers the request it made. *)
AnswersCorrelated ==
  \A t \in Tasks : \A k \in 1..Len(results[t]) :
    results[t][k].frame.id = results[t][k].asked

(* The lock, the futures and the link together are a FIFO service: callers are
   served one at a time in the order they came, and the line keeps moving. *)
Service == INSTANCE FifoService WITH
  line <- IF holder = None THEN waiters ELSE <<holder>> \o waiters,
  reply <- [t \in Tasks |-> IF outcome[t] \in {"none", "ok"} THEN outcome[t]
                            ELSE "error"]

ImplementsFifoService == Service!FairSpec
=============================================================================
