----------------------------- MODULE MessageLog -----------------------------
(***************************************************************************)
(* What the error reports of src/common.c promise: every message reported  *)
(* since the last flush is printed by the next one, once and in order.     *)
(***************************************************************************)
EXTENDS Sequences

CONSTANT Messages

VARIABLES
  pending,      \* reported and not printed yet
  printed       \* what the last flush printed

Init == pending = <<>> /\ printed = <<>>

Report(m) == pending' = Append(pending, m) /\ UNCHANGED printed

Flush == pending # <<>> /\ printed' = pending /\ pending' = <<>>

Spec == Init /\ [][(\E m \in Messages : Report(m)) \/ Flush]_<<pending, printed>>
=============================================================================
