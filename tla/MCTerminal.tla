----------------------------- MODULE MCTerminal -----------------------------
(***************************************************************************)
(* A small terminal; a program writes a letter, or tabs.                   *)
(***************************************************************************)
EXTENDS Terminal

MCGreeting == <<"g", "newline">>
MCPrompt == <<">", " ">>
MCTexts == {<<"p", "return">>, <<"tab", "tab", "tab", "p">>}
=============================================================================
