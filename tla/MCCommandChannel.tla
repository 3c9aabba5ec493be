-------------------------- MODULE MCCommandChannel --------------------------
(* Values of the constants of CommandChannel for TLC. *)
EXTENDS CommandChannel, TLC

CONSTANTS t1, t2, t3, get, sense

MCTasks2 == {t1, t2}
MCTasks3 == {t1, t2, t3}
MCCommands == {get, sense}

(* send_command, send_command_sequence, and the unlock button, whose two
   commands have the same code. *)
Single == [cmds |-> <<get>>, hold |-> FALSE]
Sequence == [cmds |-> <<get, get>>, hold |-> FALSE]
Unlock == [cmds |-> <<sense, sense>>, hold |-> TRUE]

MCJobs == {Single, Sequence, Unlock}
MCPlainJobs == {Single, Sequence}
MCSingleJobs == {Single}

Symmetry2 == Permutations(MCTasks2)
=============================================================================
