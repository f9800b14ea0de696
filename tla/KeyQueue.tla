----------------------------- MODULE KeyQueue -----------------------------
(***************************************************************************)
(* What the keyboard driver promises: a bounded first-in first-out queue   *)
(* of characters.  A character that does not fit is dropped.               *)
(***************************************************************************)
EXTENDS Naturals, Sequences

CONSTANTS Chars, Capacity

VARIABLE keys

KeyInit == keys = <<>>

Put(c) == Len(keys) < Capacity /\ keys' = Append(keys, c)
Get == keys # <<>> /\ keys' = Tail(keys)

KeySpec == KeyInit /\ [][Get \/ \E c \in Chars : Put(c)]_keys
=============================================================================
