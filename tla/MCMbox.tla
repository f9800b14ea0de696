------------------------------- MODULE MCMbox -------------------------------
(***************************************************************************)
(* Small mailboxes.  The bytes of the longer message do not divide the     *)
(* buffer, so that messages and headers wrap around at every offset.       *)
(***************************************************************************)
EXTENDS Mbox, TLC

CONSTANTS short, long
MCMessages == {short, long}
MCContentSize == [m \in MCMessages |-> IF m = short THEN 0 ELSE 1]

Symmetry == Permutations(Senders) \cup Permutations(Receivers \ Openers)
=============================================================================
