--------------------------- MODULE MCUserThreads ---------------------------
(***************************************************************************)
(* UserThreads on small pools: a shell of one page and a program of two.   *)
(***************************************************************************)
EXTENDS UserThreads

MCPrograms == {"shell", "hello"}
MCShell == "shell"
MCpages == [shell |-> 1, hello |-> 2]
=============================================================================
