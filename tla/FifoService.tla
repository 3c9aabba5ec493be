---------------------------- MODULE FifoService ----------------------------
(***************************************************************************)
(* What the command lock of ChameleonUltraDevice promises its callers,     *)
(* with nothing said about frames, futures or timeouts: callers stand in   *)
(* one line, are served one at a time in the order in which they came,     *)
(* and each of them is served exactly once per visit.  CommandChannel is   *)
(* shown to implement this specification.                                  *)
(***************************************************************************)
EXTENDS Naturals, Sequences, SequencesExt

CONSTANT Tasks

VARIABLES
  line,     \* the callers being served (its head) and waiting, in arrival order
  reply     \* what the last visit of each caller came to

service == <<line, reply>>

Replies == {"none", "ok", "error"}

Init ==
  /\ line = <<>>
  /\ reply = [t \in Tasks |-> "none"]

(* A caller that is not in the line joins its end. *)
Join(t) ==
  /\ \A i \in 1..Len(line) : line[i] # t
  /\ line' = Append(line, t)
  /\ reply' = [reply EXCEPT ![t] = "none"]

(* The caller at the head is served and leaves with a reply. *)
Serve(t) ==
  /\ line # <<>>
  /\ Head(line) = t
  /\ line' = Tail(line)
  /\ \E r \in {"ok", "error"} : reply' = [reply EXCEPT ![t] = r]

(* A caller further back is cancelled and leaves the line. *)
GiveUp(t) ==
  \E i \in 1..Len(line) :
    /\ line[i] = t
    /\ line' = RemoveAt(line, i)
    /\ reply' = [reply EXCEPT ![t] = "error"]

Next == \E t \in Tasks : Join(t) \/ Serve(t) \/ GiveUp(t)

Spec == Init /\ [][Next]_service

(* The line moves: whoever is at its head is eventually served. *)
FairSpec == Spec /\ WF_service(\E t \in Tasks : Serve(t))
=============================================================================
