----------------------------- MODULE Terminal -----------------------------
(***************************************************************************)
(* A session at the terminal: the keyboard interrupt handler and the ring  *)
(* buffer of kernel/drivers/keyboard.cpp, the shell of user/shell.cpp that *)
(* reads it through system calls and echoes on the screen, and a program   *)
(* that writes to the same screen.  The handler and the system calls run   *)
(* with interrupts disabled and are one step each; a key may be pressed    *)
(* and the program may write between any two system calls of the shell.    *)
(***************************************************************************)
EXTENDS Screen

CONSTANTS
    KBD_BUFFER_SIZE,    \* 64
    LineSize,           \* the size of the shell's line (128)
    DrainLimit,         \* how many characters are discarded at the start (256)
    Letters,            \* the printable characters
    Greeting, Prompt,   \* what the shell writes at its start and before each line
    Texts,              \* what a program may write
    MaxKeys, MaxWrites  \* bounds: how many keys are pressed and texts written

ASSUME SizesAssumption ==
    /\ KBD_BUFFER_SIZE \in Nat \ {0, 1} /\ LineSize \in Nat \ {0}
    /\ DrainLimit \in Nat /\ MaxKeys \in Nat /\ MaxWrites \in Nat
    /\ Len(Prompt) <= Area

\* What scancode_map makes of a key: a printable character, one of two control
\* characters that the shell knows, one that it does not (Tab), or 0 (unmapped).
Chars == Letters \cup {"newline", "backspace", "tab"}
Keys == Chars \cup {"unmapped", "key-up"}

VARIABLES
    kbd_buffer, kbd_head, kbd_tail,
    pc,         \* where the shell is
    drained,    \* the characters that it has discarded
    c,          \* the character it has read
    line,       \* line[0 .. len-1], as a sequence
    vga,        \* the screen
    pressed, writes,    \* the number of keys pressed and of texts written
    read,       \* history: what the shell has read since the last newline
    execs,      \* history: the line of the last call_exec and what was read for it
    clean       \* history: since the prompt only the shell has written, on the screen

shell == <<pc, drained, c, line, read, execs>>
output == <<vga, writes, clean>>
vars == <<kbd_buffer, kbd_head, kbd_tail, shell, pressed, output>>

Slots == 0 .. KBD_BUFFER_SIZE - 1

Init ==
    /\ kbd_buffer = [i \in Slots |-> "unmapped"]
    /\ kbd_head = 0 /\ kbd_tail = 0
    /\ pc = "drain" /\ drained = 0
    /\ c = "unmapped"
    /\ line = <<>>
    /\ vga = vga_write(init_vga, <<"newline">>)         \* kernel_main has said hello
    /\ pressed = 0 /\ writes = 0
    /\ read = <<>>
    /\ execs = [line |-> <<>>, read |-> <<>>]
    /\ clean = FALSE
-----------------------------------------------------------------------------
Succ(i) == (i + 1) % KBD_BUFFER_SIZE

\* Mutant: the handler overwrites the oldest character.
Full_never == FALSE
Full == Succ(kbd_head) = kbd_tail

\* keyboard_handler_c: releases and unmapped keys change nothing, and neither does a
\* key when the buffer is full.
keyboard_handler_c(k) ==
    /\ pressed < MaxKeys
    /\ pressed' = pressed + 1
    /\ \/ /\ k \in {"key-up", "unmapped"} \/ Full
          /\ UNCHANGED <<kbd_buffer, kbd_head>>
       \/ /\ k \in Chars /\ ~Full
          /\ kbd_buffer' = [kbd_buffer EXCEPT ![kbd_head] = k]
          /\ kbd_head' = Succ(kbd_head)
    /\ UNCHANGED <<kbd_tail, shell, output>>

\* kbd_getchar, which returns -1 when the buffer is empty.
\* Mutant: one character counts as none.
Empty_at_one == kbd_head \in {kbd_tail, Succ(kbd_tail)}
Empty == kbd_head = kbd_tail
kbd_getchar ==
    /\ ~Empty
    /\ kbd_tail' = Succ(kbd_tail)
    /\ UNCHANGED <<kbd_buffer, kbd_head, pressed>>
none == Empty /\ UNCHANGED <<kbd_buffer, kbd_head, kbd_tail, pressed>>
-----------------------------------------------------------------------------
\* The first loop of the shell.
Drain ==
    /\ pc = "drain"
    /\ \/ /\ kbd_getchar
          /\ drained' = drained + 1
          /\ pc' = IF drained + 1 >= DrainLimit THEN "greet" ELSE "drain"
       \/ none /\ pc' = "greet" /\ UNCHANGED drained
    /\ UNCHANGED <<c, line, read, execs, output>>

\* shell_write(text) as a step of its own.
Write(from, text, to) ==
    /\ pc = from
    /\ vga' = fd_printf_internal(vga, 3, text)
    /\ pc' = to
    /\ clean' = (text = Prompt /\ vga.x \in 0 .. VGA_WIDTH - 1)
    /\ UNCHANGED <<kbd_buffer, kbd_head, kbd_tail, pressed, drained, c, line, read, execs, writes>>

\* The head of the main loop.  Without a character the shell yields and asks again.
GetChar ==
    /\ pc = "getchar"
    /\ \/ /\ kbd_getchar
          /\ c' = kbd_buffer[kbd_tail]
          /\ read' = Append(read, c')
          /\ pc' = "char"
          /\ UNCHANGED <<drained, line, execs>>
       \/ none /\ UNCHANGED shell
    /\ UNCHANGED output

\* Mutant: backspace erases the line.
Erased_any(l) == IF l = <<>> THEN l ELSE <<>>
Room == Len(line) < LineSize - 1
Erased(l) == IF l = <<>> THEN l ELSE Front(l)

\* The rest of the loop, up to the call_exec after a newline.
Edit ==
    /\ pc = "char"
    /\ \/ /\ c = "tab"
          /\ pc' = "getchar"
          /\ UNCHANGED <<line, read, execs, vga>>
       \/ /\ c = "backspace"
          /\ line' = Erased(line)
          /\ vga' = IF line = <<>> THEN vga
                    ELSE fd_printf_internal(vga, 3, <<"backspace", " ", "backspace">>)
          /\ pc' = "getchar"
          /\ UNCHANGED <<read, execs>>
       \/ /\ c = "newline"
          /\ vga' = fd_printf_internal(vga, 2, <<c>>)
          /\ pc' = "exec"
          /\ UNCHANGED <<line, read, execs>>
       \/ /\ c \in Letters
          /\ vga' = fd_printf_internal(vga, 2, <<c>>)
          /\ line' = IF Room THEN Append(line, c) ELSE line
          /\ pc' = "getchar"
          /\ UNCHANGED <<read, execs>>
    /\ c' = "unmapped"
    /\ UNCHANGED <<kbd_buffer, kbd_head, kbd_tail, pressed, drained, writes, clean>>

\* call_exec, unless the line is empty, and a new line.
Exec ==
    /\ pc = "exec"
    /\ execs' = IF line = <<>> THEN execs ELSE [line |-> line, read |-> read]
    /\ line' = <<>> /\ read' = <<>>
    /\ pc' = "prompt"
    /\ UNCHANGED <<kbd_buffer, kbd_head, kbd_tail, pressed, drained, c, output>>

_start ==
    \/ Drain \/ Write("greet", Greeting, "prompt") \/ Write("prompt", Prompt, "getchar")
    \/ GetChar \/ Edit \/ Exec

\* call_write of a program that the shell has started.
call_write(text) ==
    /\ execs.line # <<>> /\ writes < MaxWrites
    /\ writes' = writes + 1
    /\ vga' = fd_printf_internal(vga, 2, text)
    /\ clean' = FALSE
    /\ UNCHANGED <<kbd_buffer, kbd_head, kbd_tail, shell, pressed>>

Next ==
    \/ _start
    \/ \E k \in Keys : keyboard_handler_c(k)
    \/ \E text \in Texts : call_write(text)

\* The shell is in the ready queue for ever, and round-robin lets it run.
Spec == Init /\ [][Next]_vars /\ WF_vars(_start)
-----------------------------------------------------------------------------
\* The characters in the buffer, oldest first.
Buffered ==
    [i \in 1 .. (kbd_head - kbd_tail) % KBD_BUFFER_SIZE |->
        kbd_buffer[(kbd_tail + i - 1) % KBD_BUFFER_SIZE]]

K == INSTANCE KeyQueue WITH keys <- Buffered, Capacity <- KBD_BUFFER_SIZE - 1

\* The ring buffer is a queue of KBD_BUFFER_SIZE - 1 characters: nothing that was
\* accepted is lost, overtaken or read twice, wherever the indices wrap.
ImplementsKeyQueue == K!KeySpec

\* What a line editor makes of the characters cs: the reference for the shell's loop.
Typed(cs) ==
    FoldLeft(LAMBDA l, k : IF k = "backspace" THEN SubSeq(l, 1, Len(l) - 1)
                           ELSE IF k \in Letters /\ Len(l) < LineSize - 1 THEN Append(l, k)
                           ELSE l,
             <<>>, cs)

\* call_exec gets what was typed after the last prompt and nothing of an earlier line,
\* and the line with its terminator fits into its array.
ExecsWhatWasTyped == execs.line = Typed(execs.read) /\ Len(line) < LineSize

\* The user sees what they type: as long as nobody else writes and nothing is erased,
\* the prompt and the letters stand before the cursor, wherever the line crosses the
\* end of a row or of the screen.  Two things are excepted: an erased character stays
\* on the screen, since vga_put_char draws the backspace, and the prompt is lost when
\* tabs of a program have left the cursor beside the screen.
EchoShowsLine ==
    LET shown == Prompt \o SelectSeq(read, LAMBDA k : k \in Letters)
        n == Min({Len(shown), Area})
    IN  pc = "getchar" /\ clean /\ "backspace" \notin Range(read) =>
            Before(vga, n) = SubSeq(shown, Len(shown) - n + 1, Len(shown))

\* Every character that the driver accepts is read.
EveryKeyIsRead ==
    \A i \in Slots : (kbd_tail = i /\ kbd_head # i) ~> kbd_tail # i
=============================================================================
