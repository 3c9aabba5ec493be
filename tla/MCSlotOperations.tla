-------------------------- MODULE MCSlotOperations --------------------------
(* Values of the constants of SlotOperations for TLC. *)
EXTENDS SlotOperations, TLC

CONSTANTS t1, t2, card, badge, x, y, zero

MCTasks == {t1, t2}
MCDumps == {card, badge}
MCBytes == {x, y, zero}

(* The card has three blocks: the last one twice, half of it the second time, and
   the one before not at all.  The badge has five blocks and a half, two more than
   a slot and than there are numbers for. *)
MCFiles ==
  [d \in MCDumps |->
     IF d = card
     THEN [suffix |-> ".nfc",
           lines |-> <<[num |-> 2, data |-> <<x, y>>], [num |-> 0, data |-> <<y, x>>],
                       [num |-> 2, data |-> <<y>>]>>]
     ELSE [suffix |-> ".bin", bytes |-> <<x, x, y, y, x, x, y, x, y, x, y>>]]

Symmetry == Permutations(MCTasks)
=============================================================================
