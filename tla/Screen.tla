------------------------------- MODULE Screen -------------------------------
(***************************************************************************)
(* The text screen of kernel/drivers/vga.cpp, as operators on its state:   *)
(* the cells of the video memory and the cursor, whose position the        *)
(* hardware cursor follows.  A tab does not look for the end of the row,   *)
(* and cursor_x is a signed char, so that the model also has the memory    *)
(* on both sides of the screen.  Characters are one-character strings, the *)
(* control characters are named; there is no case for a backspace, which   *)
(* is drawn like a letter.                                                 *)
(***************************************************************************)
EXTENDS Integers, SequencesExt

CONSTANTS
    VGA_WIDTH, VGA_HEIGHT,      \* 80 and 25
    TabSize,                    \* 8
    CharMax                     \* a char is in -CharMax .. CharMax - 1 (128)

ASSUME ScreenAssumption ==
    /\ TabSize \in Nat \ {0} /\ VGA_WIDTH \in Nat \ {0} /\ VGA_HEIGHT \in Nat \ {0}
    /\ CharMax \in Nat /\ VGA_WIDTH < CharMax

Area == VGA_WIDTH * VGA_HEIGHT

init_vga == [cells |-> [i \in -CharMax .. Area + CharMax |-> " "], x |-> 0, y |-> 0]

Char(n) == ((n + CharMax) % (2 * CharMax)) - CharMax

\* Mutant: the cursor wraps one column late.
Wraps_late(x) == x > VGA_WIDTH
Wraps(x) == x >= VGA_WIDTH

Draw(v, c) ==
    [cells |-> [v.cells EXCEPT ![v.y * VGA_WIDTH + v.x] = c],
     x |-> IF Wraps(Char(v.x + 1)) THEN 0 ELSE Char(v.x + 1),
     y |-> IF Wraps(Char(v.x + 1)) THEN v.y + 1 ELSE v.y]

vga_put_char(v, c) ==
    LET w == CASE c = "newline" -> [v EXCEPT !.x = 0, !.y = @ + 1]
               [] c = "return"  -> [v EXCEPT !.x = 0]
               [] c = "tab"     -> [v EXCEPT !.x = Char(((@ + TabSize) \div TabSize) * TabSize)]
               [] OTHER         -> Draw(v, c)
    IN  [w EXCEPT !.y = IF @ >= VGA_HEIGHT THEN 0 ELSE @]

vga_write(v, text) == FoldLeft(vga_put_char, v, text)

\* fd_printf_internal, for a text that is already formatted: 1 is the serial line, 2
\* the screen, 3 both.
fd_printf_internal(v, fd, text) == IF fd = 1 THEN v ELSE vga_write(v, text)

\* The last n characters before the cursor, across the ends of rows and of the screen.
Before(v, n) ==
    [i \in 1 .. n |-> v.cells[(v.y * VGA_WIDTH + v.x - n + i - 1) % Area]]
=============================================================================
