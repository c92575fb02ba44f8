---- MODULE Console ----
(***************************************************************************)
(* console.c: the input buffer with its read, write and edit indices, the  *)
(* interrupt handler that edits the line and readers that sleep for one;   *)
(* the cursor and the scrolling of the screen; and kbd.c's decoding of     *)
(* scan codes.                                                             *)
(***************************************************************************)
EXTENDS Integers, FiniteSets, Sequences

CONSTANTS INPUT_BUF, IDX,        \* indices count modulo IDX, a multiple of INPUT_BUF
          ConReaders,
          COLS, ROWS              \* 80 and 24; the CGA memory has one row more

ASSUME ConAssumption == /\ {INPUT_BUF, IDX, COLS, ROWS} \subseteq Nat \ {0}
                        /\ IDX % INPUT_BUF = 0 /\ INPUT_BUF < IDX

VARIABLES input,        \* buf, r, w, e
          con,          \* each reader: pc, n and target of consoleread, killed
          screen,       \* crt (TRUE: a character) and the cursor's position pos
          kbd,          \* kbdgetc's shift, as a set of flags
          down          \* the keys that are held down

conVars == <<input, con>>

At(i) == input.buf[i % INPUT_BUF]
Dist(a, b) == (b - a) % IDX            \* from index a to index b
NoRead == [pc |-> "user", n |-> 0, target |-> 0, killed |-> FALSE]

ConInit == /\ input = [buf |-> [i \in 0..(INPUT_BUF - 1) |-> "x"], r |-> 0, w |-> 0, e |-> 0]
           /\ con = [p \in ConReaders |-> NoRead]

WakeReaders_One == con' = LET p == CHOOSE q \in ConReaders : (\E r \in ConReaders : con[r].pc = "asleep") => con[q].pc = "asleep"
                         IN [con EXCEPT ![p].pc = IF @ = "asleep" THEN "test" ELSE @]
WakeReaders == con' = [p \in ConReaders |-> IF con[p].pc = "asleep" THEN [con[p] EXCEPT !.pc = "test"] ELSE con[p]]

\* How far Control-U goes back: to the last newline, or to w.
Killed == LET stops == {i \in 0..Dist(input.w, input.e) :
                           i = Dist(input.w, input.e) \/ At(input.e - i - 1) = "\n"}
          IN CHOOSE i \in stops : \A j \in stops : i <= j

Space(e) == Dist(input.r, e) < INPUT_BUF
Finishes_NoFull(c, e) == c \in {"\n", "^D"}
\* What makes the line available to readers.
Finishes(c, e) == c \in {"\n", "^D"} \/ e = (input.r + INPUT_BUF) % IDX

\* consoleintr, for one character; cons.lock is held, so no reader is in between.
consoleintr(c) ==
    /\ \A p \in ConReaders : con[p].pc # "copy"
    /\ CASE c = "^U" -> input' = [input EXCEPT !.e = (@ - Killed) % IDX] /\ UNCHANGED con
         [] c = "^H" -> input.e # input.w /\ input' = [input EXCEPT !.e = (@ - 1) % IDX] /\ UNCHANGED con
         [] OTHER ->
              LET ch == IF c = "\r" THEN "\n" ELSE c
                  e == (input.e + 1) % IDX
              IN /\ Space(input.e)
                 /\ input' = [input EXCEPT !.buf[input.e % INPUT_BUF] = ch, !.e = e,
                                           !.w = IF Finishes(ch, e) THEN e ELSE @]
                 /\ IF Finishes(ch, e) THEN WakeReaders ELSE UNCHANGED con

\* consoleread: the loop is entered, and repeated, with cons.lock held; "copy"
\* stands for holding it.
consoleread(p, n) ==
    /\ con[p].pc = "user" /\ ~con[p].killed
    /\ con' = [con EXCEPT ![p] = [con[p] EXCEPT !.pc = "test", !.n = n, !.target = n]]
    /\ UNCHANGED input

Returned(p) == con' = [con EXCEPT ![p] = [NoRead EXCEPT !.killed = con[p].killed]]
consoleread_test(p) ==
    /\ con[p].pc = "test" /\ \A q \in ConReaders : con[q].pc # "copy"
    /\ IF input.r # input.w THEN con' = [con EXCEPT ![p].pc = "copy"]
       ELSE IF con[p].killed THEN Returned(p)
       ELSE con' = [con EXCEPT ![p].pc = "asleep"]
    /\ UNCHANGED input

\* A ^D after other characters stays for the next read.
TakesEof(p) == con[p].n = con[p].target

consoleread_copy(p) ==
    LET c == At(input.r)
        more == c \notin {"^D", "\n"} /\ con[p].n > 1
    IN /\ con[p].pc = "copy"
       /\ input' = [input EXCEPT !.r = IF c # "^D" \/ TakesEof(p) THEN (@ + 1) % IDX ELSE @]
       /\ IF ~more THEN Returned(p)
          ELSE con' = [con EXCEPT ![p] = [con[p] EXCEPT !.n = @ - 1, !.pc = IF input'.r # input.w THEN "copy" ELSE "test"]]

\* kill marks a reader and makes it runnable.
con_kill(p) == /\ ~con[p].killed
               /\ con' = [con EXCEPT ![p] = [con[p] EXCEPT !.killed = TRUE, !.pc = IF @ = "asleep" THEN "test" ELSE @]]
               /\ UNCHANGED input

ConNext == \/ \E c \in {"x", "\n", "\r", "^D", "^U", "^H"} : consoleintr(c)
           \/ \E p \in ConReaders : \/ \E n \in {1, 3} : consoleread(p, n)
                                 \/ consoleread_test(p) \/ consoleread_copy(p) \/ con_kill(p)

Part(a, b) == [i \in 1..Dist(a, b) |-> At(a + i - 1)]
Term == INSTANCE Terminal WITH Size <- INPUT_BUF, Letters <- {"x"}, Ends <- {"\n", "^D"},
            ready <- Part(input.r, input.w), line <- Part(input.w, input.e)

\* console.c:191-271: through wrapping indices, editing and readers that take
\* lines apart, the buffer is a queue of finished lines and one being edited.
ImplementsTerminal == Term!Spec

\* console.c:244-250: a reader sleeps only while no finished line is there to
\* read: no line's wakeup is lost, whoever took the line before.
ReadersSleepOnNothing == \A p \in ConReaders : con[p].pc = "asleep" => input.r = input.w

----
\* The cell's characters and blanks after cgaputc's scrolling by one row.
Scrolled(crt, pos) == [k \in DOMAIN crt |-> IF k >= pos - COLS /\ k < ROWS * COLS THEN FALSE
                                            ELSE IF k < (ROWS - 1) * COLS THEN crt[k + COLS] ELSE crt[k]]
ScreenInit == screen = [crt |-> [k \in 0..((ROWS + 1) * COLS - 1) |-> FALSE], pos |-> 0]

\* Where c moves the cursor, before scrolling.
Advance(c, pos) == CASE c = "\n" -> pos + (COLS - (pos % COLS))
                     [] c = "BACKSPACE" -> IF pos > 0 THEN pos - 1 ELSE pos
                     [] OTHER -> pos + 1

cgaputc(c) ==
    LET pos == Advance(c, screen.pos)
        crt == IF c = "x" THEN [screen.crt EXCEPT ![screen.pos] = TRUE] ELSE screen.crt
        end == IF pos \div COLS >= ROWS THEN pos - COLS ELSE pos
    IN screen' = [pos |-> end,
                  crt |-> [IF pos \div COLS >= ROWS THEN Scrolled(crt, pos) ELSE crt EXCEPT ![end] = FALSE]]
ScreenNext == \E c \in {"x", "\n", "BACKSPACE"} : cgaputc(c)

\* console.c:149-162: the cursor stays in the rows that are shown, so that "pos
\* under/overflow" is never reached, and nothing is left behind the cursor.
CursorOnScreen == /\ screen.pos \in 0..(ROWS * COLS - 1)
                  /\ \A k \in DOMAIN screen.crt : screen.crt[k] => k < screen.pos

----
\* The right-hand control and alt keys send a prefix byte E0 before the code of
\* the left-hand ones; so do other keys, whose codes are then no modifiers.
Keys == {"ctl", "alt", "shift", "caps", "d"}
shiftcode(key) == CASE key = "ctl" -> {"CTL"} [] key = "alt" -> {"ALT"} [] key = "shift" -> {"SHIFT"} [] OTHER -> {}
togglecode(key) == IF key = "caps" THEN {"CAPSLOCK"} ELSE {}
Prefixed(right) == IF right THEN kbd \cup {"E0ESC"} ELSE kbd
\* With the prefix, codes of keys other than control and alt mean no modifier.
Meant(shift, key) == IF "E0ESC" \in shift /\ key \notin {"ctl", "alt"} THEN "d" ELSE key

KbdInit == kbd = {} /\ down = {}

Released(shift, key) == shift \ (shiftcode(key) \cup {"E0ESC"})
kbdgetc_release(key, right) ==
    /\ <<key, right>> \in down
    /\ kbd' = Released(Prefixed(right), Meant(Prefixed(right), key))
    /\ down' = down \ {<<key, right>>}

\* A key goes down, or repeats.
kbdgetc_press(key, right) ==
    LET k == Meant(Prefixed(right), key)
        shift == (Prefixed(right) \ {"E0ESC"}) \cup shiftcode(k)
    IN /\ kbd' = (shift \ togglecode(k)) \cup (togglecode(k) \ shift)
       /\ down' = down \cup {<<key, right>>}

KbdNext == \/ \E key \in Keys, right \in BOOLEAN : kbdgetc_press(key, right)
           \/ \E key \in Keys, right \in BOOLEAN : kbdgetc_release(key, right)

\* kbd.c:23-35: no modifier and no prefix is ever stuck: once no key is held
\* down, only the caps lock is left in shift, whichever of a pair went up first.
NoStuckModifier == down = {} => kbd \subseteq {"CAPSLOCK"}

\* console.c, kbd.c: the driver's readers, cursor and modifiers are right.
ConsoleSound == ReadersSleepOnNothing /\ CursorOnScreen /\ NoStuckModifier
====
