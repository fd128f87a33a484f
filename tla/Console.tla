------------------------------ MODULE Console -------------------------------
(***************************************************************************)
(* The consoles of kernel/console.c: each has ConLines lines of the video  *)
(* memory, of which a window of ScrLines is shown when it is the current   *)
(* one.  A console that reached its end begins again at its top with the   *)
(* last screen, and is full from then on.                                  *)
(*                                                                         *)
(* Two threads use them: the task TTY, in ring 1, which prints on any      *)
(* console, scrolls and selects, and the system call printx (sys_printx of *)
(* kernel/tty.c), in ring 0 on behalf of any process, which prints on      *)
(* console 0.  Nothing keeps the clock from switching processes while TTY  *)
(* is in console.c, so a printx may come between any two accesses of TTY   *)
(* to a console; TTY does not run before printx is over.  A step is one    *)
(* access, as the compiled code makes them: ++ and += load and store.      *)
(* Accesses share a step only where a printx between them does what it     *)
(* does before them or after them.                                         *)
(*                                                                         *)
(* The cursor is kept as line and column, crtc_start as a line; both are   *)
(* relative to orig.                                                       *)
(***************************************************************************)
EXTENDS Integers, FiniteSets

CONSTANTS
  NR_CONSOLES,
  SCR_WIDTH,    \* columns
  ScrLines,     \* SCR_SIZE / SCR_WIDTH
  ConLines,     \* con_size / SCR_WIDTH
  Spare,        \* cells between the consoles, lost to rounding con_size
  BootLines,    \* the line of disp_pos, where the boot messages end
  Printed,      \* a bound: the consoles on which something is printed
  MaxHit,       \* a bound: at how many Spoilers a printx comes
  MaxAstray     \* a bound: how far a window leaves its console

ASSUME ConsoleAssumption ==
  /\ NR_CONSOLES \in Nat \ {0} /\ SCR_WIDTH \in Nat \ {0, 1} /\ Spare \in Nat
  /\ ScrLines \in Nat \ {0, 1} /\ ConLines \in Nat /\ ConLines >= ScrLines
  /\ BootLines \in 0 .. ScrLines - 1 /\ Printed \subseteq 0 .. NR_CONSOLES - 1
  /\ MaxHit \in Nat /\ MaxAstray \in 1 .. ScrLines

Consoles == 0 .. NR_CONSOLES - 1
Threads == {"tty", "printx"}
Chars == {"newline", "backspace", "char"}
\* The places of TTY where a printx can do harm, see ScreenShowsCurrent.
Spoilers == {"test", "retest", "load", "wrap", "cursor", "crtc"}

VARIABLES
  con,              \* console_table[]
  current_console,
  crtc,             \* the registers of the CRT controller: cursor and start address
  thread,           \* what each thread is doing, with the local variables
  strays,           \* the cells outside its console the last step wrote
  hit               \* at which Spoilers TTY was when a printx came, on console 0

convars == <<con, current_console, crtc, thread, strays, hit>>

\* y and x: a cursor that was read; top: a crtc_start; then: what follows flush.
AtRest == [pc |-> "rest", con |-> 0, ch |-> "char", dir |-> "up", then |-> "rest",
           y |-> 0, x |-> 0, top |-> 0, oldest |-> 0, clean |-> FALSE]

\* The video memory: cell x of line y of console c.
Orig(c) == c * (ConLines * SCR_WIDTH + Spare)
Cell(c, y, x) == Orig(c) + y * SCR_WIDTH + x
Area(c) == Orig(c) .. Orig(c) + ConLines * SCR_WIDTH - 1
Cells(from, n) == from .. from + n - 1
Writes(c, cells) == strays' = cells \ Area(c)
Line(c) == Cells(Cell(c, con[c].y, con[c].x), SCR_WIDTH)

CursorOf(c, y, x) == [con |-> c, y |-> y, x |-> x]
StartOf(c, top) == [con |-> c, top |-> top]
Registers(c, k) == [cursor |-> CursorOf(c, k.y, k.x), start |-> StartOf(c, k.top)]
Shown(c) == Registers(c, con[c])

\* The loop of out_char asks both; crtc_start is unsigned, and 0 is the orig of
\* console 0.
Below(y, top) == y >= top + ScrLines
Above(y, top) == y < top \/ top < 0
InWindow(k) == ~Below(k.y, k.top) /\ ~Above(k.y, k.top)

\* init_screen: console 0 goes on after the boot messages, the others show
\* their name in the first line; task_tty selects console 0.
ConInit ==
  /\ con = [c \in Consoles |-> [y |-> IF c = 0 THEN BootLines ELSE 1, x |-> 0,
                                top |-> 0, full |-> FALSE]]
  /\ current_console = 0
  /\ crtc = Shown(0)
  /\ thread = [t \in Threads |-> AtRest]
  /\ strays = {}
  /\ hit = {}

-----------------------------------------------------------------------------
\* Thread t may run.
Runs(t) == /\ thread["printx"] = AtRest \/ t = "printx"
           /\ \A u \in Threads : thread[u].pc # "halt"

At(t, pc) == Runs(t) /\ thread[t].pc = pc
\* Its next place, with a value for each local variable it still uses.
Goto(t, pc) == thread' = [thread EXCEPT ![t] =
                            [@ EXCEPT !.pc = pc, !.y = 0, !.x = 0, !.top = 0, !.oldest = 0]]
GotoWith(t, pc, y, x, top, oldest) ==
  thread' = [thread EXCEPT ![t] =
               [@ EXCEPT !.pc = pc, !.y = y, !.x = x, !.top = top, !.oldest = oldest]]
Quiet == strays' = {} /\ UNCHANGED <<con, current_console, crtc, hit>>

-----------------------------------------------------------------------------
\* out_char begins: the place of the cursor is read, and asserted.  No string
\* given to printx has a backspace.
Begin(t, c, ch) ==
  LET inside == t = "printx" /\ thread["tty"].pc # "rest" /\ thread["tty"].con = 0
      h == [AtRest EXCEPT !.pc = IF con[c].y < ConLines THEN "place" ELSE "halt",
                          !.con = c, !.ch = ch, !.y = con[c].y, !.x = con[c].x,
                          !.clean = InWindow(con[c])]
  IN  /\ At(t, "rest")
      /\ t = "printx" => c = 0 /\ ch # "backspace"
      /\ thread' = [u \in Threads |-> IF u = t THEN h
                                      ELSE IF inside THEN [thread[u] EXCEPT !.clean = FALSE]
                                      ELSE thread[u]]
      /\ hit' = IF inside THEN hit \union ({thread["tty"].pc} \intersect Spoilers) ELSE hit
      /\ Cardinality(hit') <= MaxHit
      /\ strays' = {}
      /\ UNCHANGED <<con, current_console, crtc>>

\* The line after line y, one cell further, one cell back.
NewLine(k) == [k EXCEPT !.y = @ + 1, !.x = 0]
Right(k) == IF k.x = SCR_WIDTH - 1 THEN NewLine(k) ELSE [k EXCEPT !.x = @ + 1]
Left(k) == IF k.x > 0 THEN [k EXCEPT !.x = @ - 1] ELSE [k EXCEPT !.y = @ - 1, !.x = SCR_WIDTH - 1]

Moved(ch, k) == CASE ch = "newline" -> NewLine(k)
                  [] ch = "backspace" -> Left(k)
                  [] ch = "char" -> Right(k)

\* Mutant: a backspace in the first cell of the console.
AtOrigMut(k) == FALSE

AtOrig(k) == k.y = 0 /\ k.x = 0

\* The cell is written where the cursor was when out_char began, or before it;
\* the cursor is read again, to be moved.  (After the test of a backspace a
\* printx moves the cursor on, but never back to the first cell.)
Place(t) ==
  LET h == thread[t]
      k == con[h.con]
      here == Cell(h.con, h.y, h.x)
  IN  /\ At(t, "place")
      /\ IF h.ch = "backspace" /\ AtOrig(k)
         THEN strays' = {} /\ Goto(t, "wrap")
         ELSE /\ Writes(h.con, CASE h.ch = "newline" -> {}
                                 [] h.ch = "backspace" -> {here - 1}
                                 [] h.ch = "char" -> {here})
              /\ GotoWith(t, "move", k.y, k.x, 0, 0)
      /\ UNCHANGED <<con, current_console, crtc, hit>>

\* The store of the cursor.
Move(t) ==
  LET h == thread[t]
  IN  /\ At(t, "move")
      /\ con' = [con EXCEPT ![h.con] = Moved(h.ch, [@ EXCEPT !.y = h.y, !.x = h.x])]
      /\ Goto(t, "wrap")
      /\ strays' = {}
      /\ UNCHANGED <<current_console, crtc, hit>>

\* The assertion before the loop.
Asserted(c) == IF con'[c].y < ConLines THEN "loop" ELSE "halt"

\* At the end of the console its last lines are copied to its top, and the
\* cursor goes to the line after them.  (A printx that comes before the cursor
\* is stored fails its assertion, wherever it comes.)
Wrap(t) ==
  LET c == thread[t].con
  IN  /\ At(t, "wrap")
      /\ IF con[c].y >= ConLines
         THEN /\ con' = [con EXCEPT ![c].y = ScrLines - 1, ![c].top = 0]
              /\ Writes(c, Cells(Orig(c), (ScrLines - 1) * SCR_WIDTH))
              /\ Goto(t, "wipe")
         ELSE strays' = {} /\ UNCHANGED con /\ Goto(t, Asserted(c))
      /\ UNCHANGED <<current_console, crtc, hit>>

\* That line is cleared, and is_full set.
Wipe(t) ==
  /\ At(t, "wipe")
  /\ Writes(thread[t].con, Line(thread[t].con))
  /\ Goto(t, "full")
  /\ UNCHANGED <<con, current_console, crtc, hit>>

Full(t) ==
  LET c == thread[t].con
  IN  /\ At(t, "full")
      /\ con' = [con EXCEPT ![c].full = TRUE]
      /\ Goto(t, Asserted(c))
      /\ strays' = {}
      /\ UNCHANGED <<current_console, crtc, hit>>

\* While the cursor is below the window or above it, the screen scrolls up ...
ReadCursor(t) ==
  LET k == con[thread[t].con]
  IN  /\ \/ At(t, "loop") /\ GotoWith(t, "below", k.y, 0, 0, 0)
         \/ At(t, "again") /\ GotoWith(t, "above", k.y, 0, 0, 0)
      /\ Quiet

ScrollUp(t) ==
  thread' = [thread EXCEPT ![t] = [@ EXCEPT !.pc = "newest", !.then = "clear", !.y = 0]]

Compare(t) ==
  LET h == thread[t]
      k == con[h.con]
  IN  /\ \/ At(t, "below") /\ (IF Below(h.y, k.top) THEN ScrollUp(t) ELSE Goto(t, "again"))
         \/ At(t, "above") /\ (IF Above(h.y, k.top) THEN ScrollUp(t) ELSE Goto(t, "flush"))
      /\ Quiet

\* ... and a line from the cursor on is cleared.
Clear(t) ==
  /\ At(t, "clear")
  /\ Writes(thread[t].con, Line(thread[t].con))
  /\ thread' = [thread EXCEPT ![t] = [@ EXCEPT !.pc = "loop", !.then = "rest"]]
  /\ UNCHANGED <<con, current_console, crtc, hit>>

-----------------------------------------------------------------------------
\* scroll_screen(con, dir).  What TTY does with Shift+Down and Shift+Up, on the
\* console that was the current one when keyboard_read was called.
ScrollKey(c, dir) ==
  /\ At("tty", "rest")
  /\ thread' = [thread EXCEPT !["tty"] = [AtRest EXCEPT !.pc = "newest", !.con = c, !.dir = dir]]
  /\ Quiet

\* newest, oldest and scr_top, as lines.
Locals(t) ==
  LET h == thread[t]
      k == con[h.con]
  IN  /\ \/ At(t, "newest") /\ GotoWith(t, "oldest", k.y, 0, 0, 0)
         \/ At(t, "oldest") /\ GotoWith(t, "scr_top", h.y, 0, 0,
                                        IF k.full THEN (h.y + 1) % ConLines ELSE 0)
         \/ At(t, "scr_top") /\ GotoWith(t, "test", h.y, 0, k.top, h.oldest)
      /\ Quiet

\* A console that is not full scrolls up to the line of the cursor, and down to
\* its first line.
Scrolls(h) == IF h.dir = "up" THEN h.y >= h.top + ScrLines ELSE h.top > 0

Test(t) ==
  LET h == thread[t]
  IN  /\ At(t, "test")
      /\ IF ~con[h.con].full /\ Scrolls(h)
         THEN Goto(t, "load")
         ELSE GotoWith(t, "retest", h.y, 0, h.top, h.oldest)
      /\ Quiet

\* Mutant: at the end of the memory the window stays.
ScrollsFullMut(h) ==
  IF h.dir = "up" THEN h.top + ScrLines \notin {h.y + 1, ConLines} ELSE h.top # h.oldest

\* One that is full, until the line of the cursor is the last that is shown, or
\* the oldest line the first.
ScrollsFull(h) == IF h.dir = "up" THEN h.top + ScrLines - 1 # h.y ELSE h.top # h.oldest

\* Mutant: after the end of the memory the window goes on.
EndShownMut(h) == FALSE

EndShown(h) == h.top + ScrLines = ConLines

\* After the end of the memory comes its top.
Retest(t) ==
  LET h == thread[t]
  IN  /\ At(t, "retest")
      /\ IF con[h.con].full /\ ScrollsFull(h)
         THEN CASE h.dir = "down" -> Goto(t, "side")
                [] h.dir = "up" /\ EndShown(h) -> GotoWith(t, "store", 0, 0, 0, 0)
                [] h.dir = "up" /\ ~EndShown(h) -> Goto(t, "load")
         ELSE Goto(t, "flush")
      /\ Quiet

\* Down: where the cursor is in the last screen of the memory the window stops
\* at the top of it, otherwise its end comes before its top.
Side(t) ==
  LET k == con[thread[t].con]
  IN  /\ \/ At(t, "side") /\ Goto(t, IF k.y >= ConLines - ScrLines THEN "low" ELSE "high")
         \/ At(t, "low") /\ Goto(t, IF k.top # 0 THEN "load" ELSE "flush")
         \/ At(t, "high") /\ (IF k.top = 0 THEN GotoWith(t, "store", 0, 0, ConLines - ScrLines, 0)
                                           ELSE Goto(t, "load"))
      /\ Quiet

\* += and -=: crtc_start is read again, and stored.
Load(t) ==
  LET h == thread[t]
      top == con[h.con].top + (IF h.dir = "up" THEN 1 ELSE -1)
  IN  /\ At(t, "load")
      /\ top \in -MaxAstray .. ConLines - ScrLines + MaxAstray
      /\ GotoWith(t, "store", 0, 0, top, 0)
      /\ Quiet

Store(t) ==
  LET h == thread[t]
  IN  /\ At(t, "store")
      /\ con' = [con EXCEPT ![h.con].top = h.top]
      /\ Goto(t, "flush")
      /\ strays' = {}
      /\ UNCHANGED <<current_console, crtc, hit>>

-----------------------------------------------------------------------------
\* select_console: what TTY does with Alt+F1 .. Alt+F12.
Select(n) ==
  /\ At("tty", "rest")
  /\ current_console' = n
  /\ thread' = [thread EXCEPT !["tty"] = [AtRest EXCEPT !.pc = "flush", !.con = n]]
  /\ strays' = {}
  /\ UNCHANGED <<con, crtc, hit>>

\* flush returns, to the loop of out_char or to where TTY reads its input.
Return(t) == IF thread[t].then = "clear" THEN Goto(t, "clear")
                                         ELSE thread' = [thread EXCEPT ![t] = AtRest]

\* flush, of the current console only, reads the cursor ...
Flush(t) ==
  LET c == thread[t].con
  IN  /\ At(t, "flush")
      /\ IF c = current_console THEN GotoWith(t, "cursor", con[c].y, con[c].x, 0, 0) ELSE Return(t)
      /\ Quiet

\* ... set_cursor writes it, with interrupts disabled ...
set_cursor(t) ==
  LET h == thread[t]
  IN  /\ At(t, "cursor")
      /\ crtc' = [crtc EXCEPT !.cursor = CursorOf(h.con, h.y, h.x)]
      /\ Goto(t, "start")
      /\ strays' = {}
      /\ UNCHANGED <<con, current_console, hit>>

\* ... and the same with crtc_start.
FlushStart(t) ==
  /\ At(t, "start")
  /\ GotoWith(t, "crtc", 0, 0, con[thread[t].con].top, 0)
  /\ Quiet

set_video_start_addr(t) ==
  LET h == thread[t]
  IN  /\ At(t, "crtc")
      /\ crtc' = [crtc EXCEPT !.start = StartOf(h.con, h.top)]
      /\ Return(t)
      /\ strays' = {}
      /\ UNCHANGED <<con, current_console, hit>>

-----------------------------------------------------------------------------
out_char(t) == \/ Place(t) \/ Move(t) \/ Wrap(t) \/ Wipe(t) \/ Full(t)
               \/ ReadCursor(t) \/ Compare(t) \/ Clear(t)
scroll_screen(t) == Locals(t) \/ Test(t) \/ Retest(t) \/ Side(t) \/ Load(t) \/ Store(t)
flush(t) == Flush(t) \/ set_cursor(t) \/ FlushStart(t) \/ set_video_start_addr(t)
Step(t) == out_char(t) \/ scroll_screen(t) \/ flush(t)

ConNext ==
  \/ \E c \in Consoles : Select(c) \/ \E dir \in {"up", "down"} : ScrollKey(c, dir)
  \/ \E t \in Threads : Step(t) \/ \E c \in Printed, ch \in Chars : Begin(t, c, ch)

ConSpec == ConInit /\ [][ConNext]_convars

\* A system call goes on to its end, and the scheduler lets TTY run.
ConFair == \A t \in Threads : WF_convars(Step(t))

-----------------------------------------------------------------------------
WindowInConsole(c) == con[c].top \in 0 .. ConLines - ScrLines
Free == thread = [t \in Threads |-> AtRest]

\* What a printx spoils that comes while TTY uses the same console, and what it
\* never does.  The window leaves console 0 only if one came between the test of
\* scroll_screen and its load of crtc_start, and no other console ever: what is
\* shown is memory of the console.  An assertion of out_char stops the system
\* only if one came between the store of a cursor at the end of the console and
\* the test for it.  And when nobody is in console.c the registers show the
\* window and the cursor of the current console, unless one came between a read
\* of flush and its write.
ScreenShowsCurrent ==
  /\ \A c \in Consoles : c # 0 \/ hit \intersect {"test", "retest", "load"} = {}
                           => WindowInConsole(c)
  /\ "wrap" \notin hit => \A t \in Threads : thread[t].pc # "halt"
  /\ Free /\ hit \intersect {"cursor", "crtc"} = {} => crtc = Shown(current_console)

\* out_char writes cells of its own console only, if the cursor was in the
\* window when it began, and no printx came inside.  (A user who scrolled the
\* cursor away makes it clear a line that begins at the cursor, and may end in
\* the next console.)
WritesStayInConsole ==
  \A t \in Threads : Runs(t) /\ thread[t].clean => strays = {}

Ends(t) ==
  thread[t].pc # "rest" ~>
    \/ thread[t].pc = "rest"
    \/ \E u \in Threads : thread[u].pc = "halt"
    \/ \E c \in Consoles : (~con[c].full /\ con[c].y < con[c].top) \/ ~WindowInConsole(c)

\* A printx comes to its end wherever in TTY it came, and so does all that TTY
\* does, if there are not for ever more printx: they can keep the loop of out_char
\* comparing an old cursor with a new window.  Two exceptions: backspaces took
\* the cursor above the window of a console that is not full, where scrolling up
\* has no effect, and a window outside its console.
OutCharEnds == Ends("printx") /\ (<>[](thread["printx"].pc = "rest") => Ends("tty"))
=============================================================================
