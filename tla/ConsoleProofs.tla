--------------------------- MODULE ConsoleProofs ----------------------------
(***************************************************************************)
(* Proofs about the consoles of module Console, for any number of consoles *)
(* of any size: the inductive invariant CInv, and the safety properties    *)
(* that follow from it; and about the codes of module Keyboard, for a ring *)
(* buffer of any size and any number of keys: the inductive invariants     *)
(* KeysWhole, of where the codes of a key begin and end, and               *)
(* KeysExplained, of what the codes on their way ask for.                  *)
(***************************************************************************)
EXTENDS Keyboard, SequenceTheorems, TLAPS

Places == {"rest", "halt", "place", "move", "wrap", "wipe", "full", "loop", "below", "again", "above",
           "clear", "newest", "oldest", "scr_top", "test", "retest", "side", "low", "high", "load",
           "store", "flush", "cursor", "start", "crtc"}

\* Where a thread is in scroll_screen or flush, or behind them in the loop.
Inner == {"newest", "oldest", "scr_top", "test", "retest", "side", "low", "high", "load", "store",
          "flush", "cursor", "start", "crtc", "clear"}

ConRecord == [y : 0 .. ConLines, x : 0 .. SCR_WIDTH - 1, top : Int, full : BOOLEAN]
ThreadRecord == [pc : Places, con : Consoles, ch : Chars, dir : {"up", "down"},
                 then : {"rest", "clear"}, y : 0 .. ConLines, x : 0 .. SCR_WIDTH - 1,
                 top : Int, oldest : Int, clean : BOOLEAN]

\* The type, and that a printx prints on console 0.
ConType ==
  /\ con \in [Consoles -> ConRecord]
  /\ current_console \in Consoles
  /\ crtc \in [cursor : [con : Consoles, y : 0 .. ConLines, x : 0 .. SCR_WIDTH - 1],
               start : [con : Consoles, top : Int]]
  /\ thread \in [Threads -> ThreadRecord]
  /\ \A t \in Threads : thread[t].pc = "rest" => thread[t] = AtRest
  /\ thread["printx"].con = 0

Active(t) == thread[t].pc # "rest"
NotHalted == \A t \in Threads : thread[t].pc # "halt"
Wrapping(t, c) == thread[t].pc = "wrap" /\ thread[t].con = c

\* The cursor is at the end of a console only before the thread that moved it
\* there has wrapped it: TTY on console 0 before a printx may begin.
Lines ==
  \A c \in Consoles : con[c].y = ConLines =>
    /\ con[c].x = 0
    /\ \/ ~NotHalted
       \/ Wrapping("printx", c)
       \/ Wrapping("tty", c) /\ (c # 0 \/ ~Active("printx"))

\* A printx that is inside TTY, on its console, has left its trace.
Overtaken ==
  Active("printx") /\ Active("tty") /\ thread["tty"].con = 0 =>
    ~thread["tty"].clean /\ {thread["tty"].pc} \intersect Spoilers \subseteq hit

\* No printx came where it can move a window out of its console, or spoil the
\* registers.
Safe(c) == c # 0 \/ hit \intersect {"test", "retest", "load"} = {}
Shows == hit \intersect {"cursor", "crtc"} = {}

\* A line that begins at the cursor of k lies in the console; so it does when
\* the cursor of k leaves the window.
LineFits(k) == k.x = 0 \/ k.y < ConLines - 1
Clears(k) == InWindow(k) \/ LineFits(k)

\* What a thread knows of its console k: of a printx inside it, clean tells.
Fits(h, k) ==
  /\ h.pc \in {"place", "move", "oldest", "scr_top", "test", "retest"} => h.y < ConLines
  /\ h.pc = "move" /\ h.ch = "backspace" => ~AtOrig(h)
  /\ h.pc \in {"side", "low", "high"} => h.dir = "down"
  /\ h.pc = "clear" => h.then = "clear"
  /\ h.then = "clear" => h.pc \in Inner
  /\ h.clean =>
       /\ h.pc \in {"place", "move"} => h.y = k.y /\ h.x = k.x /\ InWindow(k)
       /\ h.pc \in {"wrap", "loop", "below", "again", "above"} => Clears(k)
       /\ h.pc \in {"below", "above"} => h.y = k.y
       /\ h.pc \in {"wipe", "full"} => k.x = 0
       /\ h.then = "clear" => LineFits(k)

\* What it knows of the window, while it scrolls it.
WindowFits(h, k) ==
  /\ h.pc \in {"test", "retest"} => h.top = k.top
  /\ h.pc = "load" => IF h.dir = "up" THEN k.top + ScrLines < ConLines ELSE k.top > 0
  /\ h.pc = "store" => h.top \in 0 .. ConLines - ScrLines

\* What it has of the registers r, while it writes them.
RegistersFit(h, k, r) ==
  /\ h.pc \in {"start", "crtc"} => r.cursor = CursorOf(h.con, k.y, k.x)
  /\ h.pc = "crtc" => h.top = k.top

\* Nobody is, or was at the place that matters, in the console of t.
Alone(t, h, place) == t = "printx" \/ h.con # 0 \/ place \notin hit

Knows(t, h, k) ==
  /\ Fits(h, k)
  /\ Safe(h.con) => WindowFits(h, k)
  /\ h.pc \in {"cursor", "start", "crtc"} => h.con = current_console
  /\ h.pc = "cursor" /\ Alone(t, h, "cursor") => h.y = k.y /\ h.x = k.x
  /\ t = "printx" \/ h.con # 0 \/ (Shows /\ ~Active("printx")) => RegistersFit(h, k, crtc)

\* The inductive invariant.
CInv ==
  /\ ConType /\ Lines /\ Overtaken
  /\ "wrap" \notin hit => NotHalted
  /\ \A c \in Consoles : Safe(c) => WindowInConsole(c)
  /\ \A t \in Threads : Knows(t, thread[t], con[thread[t].con])
  /\ Shows => \/ crtc = Shown(current_console)
              \/ \E t \in Threads : Active(t) /\ thread[t].con = current_console
  /\ WritesStayInConsole

\* A cursor of k put elsewhere; what thread record r is after Goto and GotoWith.
CursorAt(k, y, x) == [k EXCEPT !.y = y, !.x = x]
Local(r, pc, y, x, top, oldest) ==
  [r EXCEPT !.pc = pc, !.y = y, !.x = x, !.top = top, !.oldest = oldest]

-----------------------------------------------------------------------------
\* Lines of cells follow each other: line y ends before line z begins.
LEMMA LineOrder ==
  ASSUME NEW y \in Nat, NEW z \in Nat, y < z
  PROVE  /\ y * SCR_WIDTH \in Nat /\ z * SCR_WIDTH \in Nat
         /\ y * SCR_WIDTH + SCR_WIDTH <= z * SCR_WIDTH
<1>1. SCR_WIDTH \in Nat
  BY ConsoleAssumption
<1>2. PICK d \in Nat : z = y + 1 + d
  <2>1. z - y - 1 \in Nat /\ z = y + 1 + (z - y - 1)
    OBVIOUS
  <2> QED BY <2>1
<1>3. z * SCR_WIDTH = y * SCR_WIDTH + SCR_WIDTH + d * SCR_WIDTH
  BY <1>1, <1>2
<1>4. d * SCR_WIDTH \in Nat /\ y * SCR_WIDTH \in Nat
  BY <1>1
<1> QED BY <1>1, <1>3, <1>4

\* The cells that out_char writes lie in its console: the one at a cursor, the
\* one before it, and the line from it on, unless it is the last and the cursor
\* is not at its beginning.
LEMMA CellsInArea ==
  ASSUME NEW c \in Consoles, NEW y \in 0 .. ConLines - 1, NEW x \in 0 .. SCR_WIDTH - 1
  PROVE  /\ Cell(c, y, x) \in Area(c)
         /\ x > 0 \/ y > 0 => Cell(c, y, x) - 1 \in Area(c)
         /\ x = 0 \/ y < ConLines - 1 => Cells(Cell(c, y, x), SCR_WIDTH) \subseteq Area(c)
<1> DEFINE o == Orig(c)
           w == y * SCR_WIDTH
           all == ConLines * SCR_WIDTH
<1>1. SCR_WIDTH \in Nat /\ SCR_WIDTH > 1 /\ ConLines \in Nat /\ y \in Nat /\ y < ConLines /\ x \in Nat
  BY ConsoleAssumption
<1>2. all \in Nat /\ w \in Nat /\ w + SCR_WIDTH <= all
  BY <1>1, LineOrder
<1>3. o \in Int
  BY <1>1, <1>2, ConsoleAssumption DEF Orig, Consoles
<1>4. y > 0 => w >= SCR_WIDTH
  BY <1>1, LineOrder, 0 * SCR_WIDTH = 0
<1>5. y < ConLines - 1 => w + 2 * SCR_WIDTH <= all
  <2> SUFFICES ASSUME y < ConLines - 1 PROVE w + 2 * SCR_WIDTH <= all
    OBVIOUS
  <2>1. (y + 1) * SCR_WIDTH + SCR_WIDTH <= all
    BY <1>1, LineOrder
  <2>2. (y + 1) * SCR_WIDTH = w + SCR_WIDTH
    BY <1>1
  <2> QED BY <1>1, <1>2, <2>1, <2>2
<1>6. Area(c) = o .. o + all - 1 /\ Cell(c, y, x) = o + w + x
  BY DEF Area, Cell
<1>7. Cells(Cell(c, y, x), SCR_WIDTH) = o + w + x .. o + w + x + SCR_WIDTH - 1
  BY <1>6 DEF Cells
<1> HIDE DEF o, w, all
<1>8. o + w + x \in o .. o + all - 1
  BY <1>1, <1>2, <1>3
<1>9. x > 0 \/ y > 0 => o + w + x - 1 \in o .. o + all - 1
  BY <1>1, <1>2, <1>3, <1>4
<1>10. x = 0 \/ y < ConLines - 1 =>
         o + w + x .. o + w + x + SCR_WIDTH - 1 \subseteq o .. o + all - 1
  BY <1>1, <1>2, <1>3, <1>5
<1>11. Cell(c, y, x) \in Area(c)
  BY <1>6, <1>8
<1>12. x > 0 \/ y > 0 => Cell(c, y, x) - 1 \in Area(c)
  <2>1. Cell(c, y, x) - 1 = o + w + x - 1
    BY <1>1, <1>2, <1>3, <1>6
  <2> QED BY <1>6, <1>9, <2>1, Zenon
<1>13. x = 0 \/ y < ConLines - 1 => Cells(Cell(c, y, x), SCR_WIDTH) \subseteq Area(c)
  BY <1>6, <1>7, <1>10, Zenon
<1> QED BY <1>11, <1>12, <1>13

\* So do those that the end of a console makes it write: the lines copied to
\* the top, and the one behind them.
LEMMA TopInArea ==
  ASSUME NEW c \in Consoles
  PROVE  Cells(Orig(c), (ScrLines - 1) * SCR_WIDTH) \union Cells(Cell(c, ScrLines - 1, 0), SCR_WIDTH)
           \subseteq Area(c)
<1> DEFINE o == Orig(c)
           w == (ScrLines - 1) * SCR_WIDTH
           all == ConLines * SCR_WIDTH
<1>1. /\ SCR_WIDTH \in Nat /\ SCR_WIDTH > 1 /\ ConLines \in Nat
      /\ ScrLines - 1 \in Nat /\ ScrLines - 1 < ConLines
  BY ConsoleAssumption
<1>2. all \in Nat /\ w \in Nat /\ w + SCR_WIDTH <= all
  BY <1>1, LineOrder
<1>3. o \in Int
  BY <1>1, <1>2, ConsoleAssumption DEF Orig, Consoles
<1>4. Area(c) = o .. o + all - 1 /\ Cells(Orig(c), w) = o .. o + w - 1
  BY DEF Area, Cells
<1>5. o .. o + w - 1 \subseteq o .. o + all - 1
  <2> HIDE DEF o, w, all
  <2> QED BY <1>1, <1>2, <1>3
<1>6. ScrLines - 1 \in 0 .. ConLines - 1 /\ 0 \in 0 .. SCR_WIDTH - 1
  BY <1>1
<1>7. Cells(Cell(c, ScrLines - 1, 0), SCR_WIDTH) \subseteq Area(c)
  BY <1>6, CellsInArea
<1> QED BY <1>4, <1>5, <1>7

-----------------------------------------------------------------------------
\* The fields of a thread record after a step.
LEMMA LocalIs ==
  ASSUME NEW r \in ThreadRecord, NEW pc, NEW y, NEW x, NEW top, NEW oldest
  PROVE  LET g == Local(r, pc, y, x, top, oldest)
         IN  /\ g.pc = pc /\ g.y = y /\ g.x = x /\ g.top = top
             /\ g.con = r.con /\ g.ch = r.ch /\ g.dir = r.dir /\ g.then = r.then /\ g.clean = r.clean
BY DEF Local, ThreadRecord

LEMMA LocalTyped ==
  ASSUME NEW r \in ThreadRecord, NEW pc \in Places, NEW y \in 0 .. ConLines,
         NEW x \in 0 .. SCR_WIDTH - 1, NEW top \in Int, NEW oldest \in Int
  PROVE  Local(r, pc, y, x, top, oldest) \in ThreadRecord
BY DEF Local, ThreadRecord

\* The cursor is put somewhere.
LEMMA RecordChanged ==
  ASSUME NEW k \in ConRecord, NEW line \in 0 .. ConLines, NEW column \in 0 .. SCR_WIDTH - 1
  PROVE  LET m == CursorAt(k, line, column)
         IN m \in ConRecord /\ m.x = column /\ m.y = line /\ m.top = k.top /\ m.full = k.full
BY DEF ConRecord, CursorAt

\* Where the cursor goes.
LEMMA CursorMoves ==
  ASSUME NEW k \in ConRecord, k.y < ConLines, NEW ch \in Chars, ch = "backspace" => ~AtOrig(k)
  PROVE  /\ Moved(ch, k) \in ConRecord /\ Moved(ch, k).top = k.top
         /\ Moved(ch, k).y = ConLines => Moved(ch, k).x = 0
         /\ InWindow(k) => Clears(Moved(ch, k))
<1>1. /\ k.y \in Int /\ 0 <= k.y /\ k.x \in Int /\ 0 <= k.x /\ k.x <= SCR_WIDTH - 1 /\ k.top \in Int
      /\ SCR_WIDTH \in Int /\ SCR_WIDTH > 1 /\ ConLines \in Int /\ ScrLines \in Int
  BY ConsoleAssumption DEF ConRecord
<1> DEFINE M(y, x) == CursorAt(k, y, x)
<1>2. \A y \in 0 .. ConLines, x \in 0 .. SCR_WIDTH - 1 :
        M(y, x) \in ConRecord /\ M(y, x).y = y /\ M(y, x).x = x /\ M(y, x).top = k.top
  BY RecordChanged
<1>3. k = [k EXCEPT !.y = k.y, !.x = k.x]
  BY DEF ConRecord
<1>4. /\ NewLine(k) = M(k.y + 1, 0)
      /\ k.x # SCR_WIDTH - 1 => Right(k) = M(k.y, k.x + 1)
      /\ k.x = SCR_WIDTH - 1 => Right(k) = NewLine(k)
      /\ k.x > 0 => Left(k) = M(k.y, k.x - 1)
      /\ ~(k.x > 0) => Left(k) = M(k.y - 1, SCR_WIDTH - 1)
  BY <1>3 DEF Right, Left, NewLine, ConRecord, CursorAt
<1> HIDE DEF M
<1>5. /\ k.y \in 0 .. ConLines /\ k.y + 1 \in 0 .. ConLines /\ 0 \in 0 .. SCR_WIDTH - 1
      /\ k.x # SCR_WIDTH - 1 => k.x + 1 \in 0 .. SCR_WIDTH - 1
      /\ k.x > 0 => k.x - 1 \in 0 .. SCR_WIDTH - 1
      /\ k.y > 0 => k.y - 1 \in 0 .. ConLines
      /\ SCR_WIDTH - 1 \in 0 .. SCR_WIDTH - 1
  BY <1>1
<1>6. /\ NewLine(k) \in ConRecord /\ NewLine(k).top = k.top
      /\ NewLine(k).y = k.y + 1 /\ NewLine(k).x = 0
  BY <1>2, <1>4, <1>5
<1>7. /\ Right(k) \in ConRecord /\ Right(k).top = k.top
      /\ \/ Right(k).y = k.y + 1 /\ Right(k).x = 0
         \/ Right(k).y = k.y
  BY <1>2, <1>4, <1>5, <1>6
<1>8. ~AtOrig(k) => /\ Left(k) \in ConRecord /\ Left(k).top = k.top
                    /\ Left(k).y = k.y \/ Left(k).y = k.y - 1
  BY <1>1, <1>2, <1>4, <1>5 DEF AtOrig
<1>9. InWindow(k) => /\ Clears(NewLine(k)) /\ Clears(Right(k))
                     /\ ~AtOrig(k) => Clears(Left(k))
  BY <1>1, <1>6, <1>7, <1>8 DEF Clears, LineFits, InWindow, Below, Above
<1> QED BY <1>1, <1>6, <1>7, <1>8, <1>9 DEF Moved, Chars

\* What follows from the assumption on the constants, and the two threads.
LEMMA ConsoleIndices ==
  /\ "tty" \in Threads /\ "printx" \in Threads /\ \A t \in Threads : t = "tty" \/ t = "printx"
  /\ 0 \in Consoles /\ \A c \in Consoles : c \in Int
  /\ ConLines \in Nat /\ ScrLines \in Nat /\ SCR_WIDTH \in Nat /\ SCR_WIDTH > 1
  /\ ScrLines > 1 /\ ScrLines <= ConLines
  /\ 0 \in 0 .. ConLines /\ 0 \in 0 .. SCR_WIDTH - 1 /\ 0 \in Int
BY ConsoleAssumption DEF Threads, Consoles

\* A thread at rest knows nothing.
LEMMA RestKnows == ASSUME NEW t, NEW k PROVE Knows(t, AtRest, k)
BY DEF Knows, Fits, WindowFits, RegistersFit, AtRest

\* The record of a thread at rest.
LEMMA RestIs == /\ AtRest \in ThreadRecord /\ AtRest.pc = "rest" /\ AtRest.con = 0
                /\ AtRest.then = "rest" /\ AtRest.clean = FALSE /\ AtRest.dir = "up"
BY ConsoleIndices DEF AtRest, ThreadRecord, Places, Chars

\* The consoles begin apart, each with its cursor in its window.
LEMMA InitEstablishes == ConInit => CInv
<1> SUFFICES ASSUME ConInit PROVE CInv
  OBVIOUS
<1> USE ConsoleIndices
<1>1. /\ BootLines \in 0 .. ConLines /\ BootLines < ConLines /\ 1 \in 0 .. ConLines /\ 1 < ConLines
      /\ 0 \in 0 .. ConLines - ScrLines
  BY ConsoleAssumption
<1>2. \A c \in Consoles : con[c] \in ConRecord /\ con[c].y < ConLines /\ con[c].top = 0
  BY <1>1 DEF ConInit, ConRecord
<1>3. con = [c \in Consoles |-> con[c]]
  BY DEF ConInit
<1>4. \A t \in Threads : thread[t] = AtRest
  BY DEF ConInit
<1>5. ConType
  <2>1. con \in [Consoles -> ConRecord]
    BY <1>2, <1>3
  <2>2. thread \in [Threads -> ThreadRecord]
    BY RestIs DEF ConInit
  <2>3. /\ crtc.cursor = [con |-> 0, y |-> con[0].y, x |-> con[0].x]
        /\ crtc.start = [con |-> 0, top |-> con[0].top]
        /\ crtc = [cursor |-> crtc.cursor, start |-> crtc.start]
    BY DEF ConInit, Shown, Registers, CursorOf, StartOf
  <2>4. /\ crtc.cursor \in [con : Consoles, y : 0 .. ConLines, x : 0 .. SCR_WIDTH - 1]
        /\ crtc.start \in [con : Consoles, top : Int]
    BY <1>2, <2>3 DEF ConRecord
  <2> QED BY <1>4, <2>1, <2>2, <2>3, <2>4, RestIs DEF ConType, ConInit
<1>6. Lines
  <2>1. \A c \in Consoles : con[c].y # ConLines
    BY <1>2
  <2> QED BY <2>1 DEF Lines
<1>7. NotHalted /\ Overtaken
  BY <1>4, RestIs DEF NotHalted, Overtaken, Active
<1>8. \A c \in Consoles : WindowInConsole(c)
  BY <1>1, <1>2 DEF WindowInConsole
<1>9. \A t \in Threads : Knows(t, thread[t], con[thread[t].con])
  BY <1>4, RestKnows
<1>10. crtc = Shown(current_console) /\ WritesStayInConsole
  BY DEF ConInit, WritesStayInConsole
<1> QED BY <1>5, <1>6, <1>7, <1>8, <1>9, <1>10 DEF CInv

\* The cursor of a console that no thread is about to wrap is not at its end.
LEMMA NoWrap ==
  ASSUME ConType, Lines, NotHalted, NEW c \in Consoles, \A t \in Threads : ~Wrapping(t, c)
  PROVE  con[c] \in ConRecord /\ con[c].y < ConLines
<1> USE ConsoleIndices
<1>1. con[c] \in ConRecord /\ con[c].y # ConLines
  BY DEF ConType, Lines
<1> QED BY <1>1 DEF ConRecord

\* What a thread that runs has: its console, whose cursor is not at the end
\* but before Wrap, and what it knows of it.
LEMMA Running ==
  ASSUME CInv, NEW t \in Threads, Runs(t), Active(t)
  PROVE  LET h == thread[t]
             k == con[h.con]
         IN  /\ h \in ThreadRecord /\ h.con \in Consoles /\ k \in ConRecord
             /\ con = [con EXCEPT ![h.con] = k] /\ crtc = crtc
             /\ h.pc # "wrap" => k.y < ConLines
             /\ Knows(t, h, k)
             /\ t = "tty" => thread["printx"] = AtRest /\ ~Active("printx")
             /\ t = "printx" => h.con = 0
             /\ NotHalted
             /\ Safe(h.con) => k.top \in 0 .. ConLines - ScrLines
<1> USE ConsoleIndices
<1> DEFINE h == thread[t]
           k == con[h.con]
<1>1. /\ h \in ThreadRecord /\ h.con \in Consoles /\ k \in ConRecord
      /\ con = [con EXCEPT ![h.con] = k]
  BY DEF CInv, ConType, ThreadRecord
<1>2. NotHalted /\ (t = "tty" => thread["printx"] = AtRest /\ ~Active("printx"))
  BY RestIs DEF Runs, NotHalted, Active
<1>3. t = "printx" => h.con = 0
  BY DEF CInv, ConType
<1>4. ASSUME h.pc # "wrap" PROVE k.y < ConLines
  <2>1. k.y # ConLines
    BY <1>1, <1>2, <1>3, <1>4 DEF CInv, Lines, Wrapping, Active
  <2> QED BY <1>1, <2>1 DEF ConRecord
<1>5. Knows(t, h, k) /\ (Safe(h.con) => k.top \in 0 .. ConLines - ScrLines)
  BY <1>1 DEF CInv, WindowInConsole
<1> QED BY <1>1, <1>2, <1>3, <1>4, <1>5

\* What a thread knows, if it is not writing the registers.
LEMMA KnowsPlain ==
  ASSUME NEW t \in Threads, NEW h, NEW k, UNCHANGED hit,
         h.pc \notin {"cursor", "start", "crtc"},
         Fits(h, k), Safe(h.con) => WindowFits(h, k)
  PROVE  Knows(t, h, k)'
BY DEF Knows, Fits, Safe, WindowFits, RegistersFit

\* A step of thread t, to record h and console k, keeps the invariant, if it
\* keeps what t promises.
LEMMA Kept ==
  ASSUME CInv, NEW t \in Threads, Runs(t), Active(t),
         NEW h \in ThreadRecord, thread' = [thread EXCEPT ![t] = h],
         NEW k \in ConRecord, con' = [con EXCEPT ![thread[t].con] = k],
         UNCHANGED <<current_console, hit>>,
         crtc' = crtc \/ thread[t].con = current_console,
         crtc' \in [cursor : [con : Consoles, y : 0 .. ConLines, x : 0 .. SCR_WIDTH - 1],
                    start : [con : Consoles, top : Int]],
         \/ h.con = thread[t].con /\ h.clean = thread[t].clean /\ h.pc # "rest"
         \/ h = AtRest /\ strays' = {},
         thread[t].clean => strays' = {},
         h.pc # "halt",
         k.y = ConLines => k.x = 0 /\ h.pc = "wrap",
         Safe(thread[t].con) => k.top \in 0 .. ConLines - ScrLines,
         Knows(t, h, k)',
         h = AtRest /\ thread[t].con = current_console /\ (t = "printx" \/ thread[t].con # 0 \/ Shows)
           => crtc' = Registers(thread[t].con, k)
  PROVE  CInv'
<1> USE ConsoleIndices
<1> DEFINE c == thread[t].con
<1>1. /\ c \in Consoles /\ NotHalted /\ (t = "printx" => c = 0)
      /\ t = "tty" => thread["printx"] = AtRest /\ ~Active("printx")
  BY Running
<1>2. /\ thread'[t] = h /\ \A u \in Threads \ {t} : thread'[u] = thread[u]
      /\ con'[c] = k /\ \A d \in Consoles \ {c} : con'[d] = con[d]
      /\ con' \in [Consoles -> ConRecord] /\ thread' \in [Threads -> ThreadRecord]
  BY <1>1 DEF CInv, ConType
<1>3. ConType'
  BY <1>1, <1>2, RestIs DEF CInv, ConType
<1>4. NotHalted'
  BY <1>1, <1>2 DEF NotHalted
<1>5. Lines'
  <2> SUFFICES ASSUME NEW d \in Consoles, con'[d].y = ConLines
               PROVE  /\ con'[d].x = 0
                      /\ \/ Wrapping("printx", d)'
                         \/ Wrapping("tty", d)' /\ (d # 0 \/ ~Active("printx")')
    BY DEF Lines
  <2>1. CASE d = c
    <3>1. k.x = 0 /\ h.pc = "wrap" /\ h.con = c
      BY <1>2, <2>1, RestIs
    <3>2. t = "tty" => ~Active("printx")'
      BY <1>1, <1>2 DEF Active
    <3> QED BY <1>2, <2>1, <3>1, <3>2 DEF Wrapping
  <2>2. CASE d # c
    <3>1. con[d].y = ConLines /\ con'[d].x = con[d].x
      BY <1>2, <2>2
    <3>2. /\ con[d].x = 0
          /\ Wrapping("printx", d) \/ (Wrapping("tty", d) /\ (d # 0 \/ ~Active("printx")))
      BY <1>1, <3>1 DEF CInv, Lines
    <3>3. \A u \in Threads : Wrapping(u, d) => Wrapping(u, d)'
      BY <1>2, <2>2 DEF Wrapping
    <3>4. d # 0 \/ (t = "tty" /\ ~Active("printx")')
      BY <1>1, <1>2, <2>2 DEF Active
    <3> QED BY <3>1, <3>2, <3>3, <3>4
  <2> QED BY <2>1, <2>2
<1>6. Overtaken'
  <2>1. CASE t = "tty"
    BY <1>1, <1>2, <2>1 DEF Overtaken, Active
  <2>2. CASE t = "printx"
    BY <1>2, <2>2 DEF CInv, Overtaken, Active
  <2> QED BY <2>1, <2>2
<1>7. \A d \in Consoles : Safe(d)' => WindowInConsole(d)'
  BY <1>2 DEF CInv, WindowInConsole, Safe
<1>8. Knows(t, thread[t], con[thread[t].con])'
  <2>1. CASE h = AtRest
    BY <1>2, <2>1 DEF Knows, Fits, WindowFits, RegistersFit, AtRest
  <2>2. CASE h # AtRest
    BY <1>2, <2>2
  <2> QED BY <2>1, <2>2
<1>9. ASSUME NEW u \in Threads \ {t} PROVE Knows(u, thread[u], con[thread[u].con])'
  <2> DEFINE g == thread[u]
             m == con[g.con]
  <2>1. Knows(u, g, m) /\ thread'[u] = g /\ g.con \in Consoles
    BY <1>2 DEF CInv, ConType, ThreadRecord
  <2>2. CASE ~Active(u)
    <3>1. thread'[u] = AtRest
      BY <2>1, <2>2 DEF CInv, ConType, Active
    <3> QED BY <3>1 DEF Knows, Fits, WindowFits, RegistersFit, AtRest
  <2>3. CASE g.con # c
    <3>1. con'[g.con] = m
      BY <1>2, <2>1, <2>3
    <3>2. u = "tty" => g.con # 0
      BY <1>1, <2>3
    <3>3. g.pc \in {"cursor", "start", "crtc"} => crtc' = crtc
      BY <2>1, <2>3 DEF Knows
    <3>4. RegistersFit(g, m, crtc) /\ UNCHANGED <<hit, current_console>>
      BY <2>1, <3>2 DEF Knows
    <3>5. RegistersFit(g, m, crtc')
      BY <3>3, <3>4 DEF RegistersFit
    <3> HIDE DEF g, m
    <3> QED BY <2>1, <3>1, <3>4, <3>5 DEF Knows, Fits, Safe, WindowFits, RegistersFit, Alone
  <2>4. CASE g.con = c /\ Active(u)
    <3>1. t = "printx" /\ u = "tty" /\ c = 0 /\ Active("printx")
      BY <1>1, <2>4
    <3>2. ~g.clean /\ {g.pc} \intersect Spoilers \subseteq hit
      BY <2>4, <3>1 DEF CInv, Overtaken
    <3>3. Fits(g, k)
      BY <2>1, <3>2 DEF Knows, Fits
    <3>4. Safe(0) => WindowFits(g, k)
      BY <2>1, <2>4, <3>1, <3>2 DEF Knows, WindowFits, Safe, Spoilers
    <3>5. Shows /\ ~Active("printx")' => RegistersFit(g, k, crtc')
      <4> SUFFICES ASSUME Shows, ~Active("printx")', g.pc \in {"start", "crtc"}
                   PROVE  g.pc = "start" /\ crtc'.cursor = CursorOf(g.con, k.y, k.x)
        BY DEF RegistersFit
      <4>1. g.pc # "crtc" /\ g.con = current_console
        BY <2>1, <3>2 DEF Shows, Spoilers, Knows
      <4>2. h = AtRest
        BY <1>2, <3>1 DEF Active
      <4> QED BY <2>4, <3>1, <4>1, <4>2 DEF Registers
    <3>6. g.pc = "cursor" => "cursor" \in hit
      BY <3>2 DEF Spoilers
    <3>7. UNCHANGED <<hit, current_console>> /\ con'[g.con] = k
      BY <1>2, <2>4
    <3>8. g.pc \in {"cursor", "start", "crtc"} => g.con = current_console
      BY <2>1 DEF Knows
    <3>9. g.con = 0 /\ u = "tty" /\ thread'[u] = g
      BY <2>1, <2>4, <3>1
    <3> HIDE DEF g, m
    <3> QED BY <3>3, <3>4, <3>5, <3>6, <3>7, <3>8, <3>9
            DEF Knows, Fits, Safe, WindowFits, RegistersFit, Alone, Shows
  <2> QED BY <2>2, <2>3, <2>4
<1>10. ASSUME Shows'
       PROVE  \/ crtc' = Shown(current_console)'
              \/ \E u \in Threads : Active(u)' /\ thread'[u].con = current_console'
  <2>0. Shows
    BY <1>10 DEF Shows
  <2>1. CASE c = current_console
    BY <1>2, <2>0, <2>1 DEF Active, Shown
  <2>2. CASE c # current_console
    <3>1. Shown(current_console)' = Shown(current_console) /\ crtc' = crtc
      BY <1>2, <2>2 DEF Shown, Registers, CInv, ConType
    <3>2. ASSUME NEW u \in Threads, Active(u), thread[u].con = current_console
          PROVE  Active(u)' /\ thread'[u].con = current_console'
      BY <1>2, <2>2, <3>2 DEF Active
    <3> QED BY <2>0, <3>1, <3>2 DEF CInv
  <2> QED BY <2>1, <2>2
<1>11. WritesStayInConsole'
  <2> SUFFICES ASSUME NEW u \in Threads, Runs(u)', thread'[u].clean PROVE strays' = {}
    BY DEF WritesStayInConsole
  <2>1. CASE u = t
    BY <1>2, <2>1
  <2>2. CASE u # t
    <3>1. t = "printx" => h = AtRest
      BY <1>2, <2>2, RestIs DEF Runs
    <3>2. t = "tty" => ~thread'[u].clean
      BY <1>1, <1>2, <2>2, RestIs
    <3> QED BY <3>1, <3>2, RestIs
  <2> QED BY <2>1, <2>2
<1> QED BY <1>3, <1>4, <1>5, <1>6, <1>7, <1>8, <1>9, <1>10, <1>11 DEF CInv

\* A step that writes local variables, or the video memory.
LEMMA Looked ==
  ASSUME CInv, NEW t \in Threads, Runs(t), Active(t),
         UNCHANGED <<con, current_console, crtc, hit>>, thread[t].clean => strays' = {},
         NEW h \in ThreadRecord, thread' = [thread EXCEPT ![t] = h],
         h.con = thread[t].con, h.clean = thread[t].clean, h.pc \notin {"rest", "halt"},
         thread[t].pc = "wrap" => con[thread[t].con].y < ConLines,
         NEW k, k = con[thread[t].con], Knows(t, h, k)'
  PROVE  CInv'
<1>1. /\ k \in ConRecord /\ con' = [con EXCEPT ![thread[t].con] = k] /\ k.y < ConLines
      /\ Safe(thread[t].con) => k.top \in 0 .. ConLines - ScrLines
  BY Running
<1>2. crtc' \in [cursor : [con : Consoles, y : 0 .. ConLines, x : 0 .. SCR_WIDTH - 1],
                 start : [con : Consoles, top : Int]]
  BY DEF CInv, ConType
<1>3. k.y # ConLines /\ h # AtRest
  BY <1>1, RestIs, ConsoleIndices DEF ConRecord
<1> QED BY <1>1, <1>2, <1>3, Kept

\* The same, by Goto or GotoWith, to a place outside flush.
LEMMA Passed ==
  ASSUME CInv, NEW t \in Threads, Runs(t), Active(t),
         UNCHANGED <<con, current_console, crtc, hit>>, thread[t].clean => strays' = {},
         NEW pc \in Places \ {"rest", "halt", "cursor", "start", "crtc"}, NEW y \in 0 .. ConLines,
         NEW x \in 0 .. SCR_WIDTH - 1, NEW top \in Int, NEW oldest \in Int,
         GotoWith(t, pc, y, x, top, oldest),
         thread[t].pc = "wrap" => con[thread[t].con].y < ConLines,
         NEW h, h = Local(thread[t], pc, y, x, top, oldest),
         NEW k, k = con[thread[t].con],
         Fits(h, k), Safe(thread[t].con) => WindowFits(h, k)
  PROVE  CInv'
<1>1. thread[t] \in ThreadRecord
  BY Running
<1>2. thread' = [thread EXCEPT ![t] = h]
  BY DEF GotoWith, Local
<1>3. /\ h \in ThreadRecord /\ h.pc = pc
      /\ h.con = thread[t].con /\ h.clean = thread[t].clean
  BY <1>1, LocalIs, LocalTyped
<1>4. Knows(t, h, k)'
  BY <1>3, KnowsPlain
<1> QED BY <1>2, <1>3, <1>4, Looked

\* A step by Goto that writes the console.
LEMMA Stored ==
  ASSUME CInv, NEW t \in Threads, Runs(t), Active(t),
         NEW m \in ConRecord, con' = [con EXCEPT ![thread[t].con] = m],
         UNCHANGED <<current_console, crtc, hit>>, thread[t].clean => strays' = {},
         NEW pc \in Places \ {"rest", "halt", "cursor", "start", "crtc"}, Goto(t, pc),
         NEW g, g = Local(thread[t], pc, 0, 0, 0, 0), Fits(g, m),
         m.y = ConLines => m.x = 0 /\ pc = "wrap",
         Safe(thread[t].con) => WindowFits(g, m) /\ m.top \in 0 .. ConLines - ScrLines
  PROVE  CInv'
<1>1. thread[t] \in ThreadRecord
  BY Running
<1>2. thread' = [thread EXCEPT ![t] = g]
  BY DEF Goto, Local
<1>3. g \in ThreadRecord /\ g.pc = pc /\ g.con = thread[t].con /\ g.clean = thread[t].clean
  BY <1>1, LocalIs, LocalTyped, ConsoleIndices
<1>4. Knows(t, g, m)' /\ g # AtRest
  BY <1>3, KnowsPlain, RestIs
<1>5. crtc' \in [cursor : [con : Consoles, y : 0 .. ConLines, x : 0 .. SCR_WIDTH - 1],
                 start : [con : Consoles, top : Int]]
  BY DEF CInv, ConType
<1> QED BY <1>2, <1>3, <1>4, <1>5, Kept

LEMMA GotoIs == ASSUME NEW t, NEW pc PROVE Goto(t, pc) <=> GotoWith(t, pc, 0, 0, 0, 0)
BY DEF Goto, GotoWith

\* What Running says of a thread that is at pc.
LEMMA IsAt ==
  ASSUME CInv, NEW t \in Threads, NEW pc \in Places \ {"rest"}, At(t, pc)
  PROVE  LET h == thread[t]
             k == con[h.con]
         IN  /\ Runs(t) /\ Active(t) /\ h.pc = pc
             /\ h \in ThreadRecord /\ h.con \in Consoles /\ k \in ConRecord
             /\ pc # "wrap" => k.y < ConLines
             /\ Fits(h, k) /\ (Safe(h.con) => WindowFits(h, k))
             /\ h.y \in 0 .. ConLines /\ h.x \in 0 .. SCR_WIDTH - 1 /\ h.top \in Int /\ h.oldest \in Int
             /\ k.y \in 0 .. ConLines /\ k.x \in 0 .. SCR_WIDTH - 1 /\ k.top \in Int
             /\ Safe(h.con) => k.top \in 0 .. ConLines - ScrLines
<1>1. Runs(t) /\ Active(t) /\ thread[t].pc = pc
  BY DEF At, Active
<1> QED BY <1>1, Running DEF Knows, ThreadRecord, ConRecord

LEMMA PlaceKeeps == ASSUME CInv, NEW t \in Threads, Place(t) PROVE CInv'
<1> DEFINE h == thread[t]
           k == con[h.con]
           here == Cell(h.con, h.y, h.x)
<1> USE ConsoleIndices
<1>1. /\ Runs(t) /\ Active(t) /\ h.pc = "place" /\ h \in ThreadRecord /\ h.con \in Consoles
      /\ k \in ConRecord /\ k.y < ConLines /\ Fits(h, k)
      /\ k.y \in 0 .. ConLines /\ k.x \in 0 .. SCR_WIDTH - 1
      /\ h.y \in 0 .. ConLines /\ h.x \in 0 .. SCR_WIDTH - 1
  BY IsAt DEF Place, Places
<1>2. /\ h.then # "clear" /\ h.y < ConLines
      /\ h.clean => h.y = k.y /\ h.x = k.x /\ InWindow(k)
  BY <1>1 DEF Fits, Inner
<1>3. UNCHANGED <<con, current_console, crtc, hit>>
  BY DEF Place
<1>4. CASE h.ch = "backspace" /\ AtOrig(k)
  <2> DEFINE g == Local(h, "wrap", 0, 0, 0, 0)
  <2>1. g.pc = "wrap" /\ g.clean = h.clean /\ g.then = h.then
    BY <1>1, LocalIs
  <2>2. GotoWith(t, "wrap", 0, 0, 0, 0) /\ strays' = {}
    BY <1>4, GotoIs DEF Place
  <2>3. Fits(g, k) /\ WindowFits(g, k)
    BY <1>2, <2>1 DEF Fits, WindowFits, Clears
  <2> QED BY <1>1, <1>3, <2>2, <2>3, Passed DEF Places
<1>5. CASE ~(h.ch = "backspace" /\ AtOrig(k))
  <2> DEFINE g == Local(h, "move", k.y, k.x, 0, 0)
  <2>1. g.pc = "move" /\ g.clean = h.clean /\ g.then = h.then /\ g.y = k.y /\ g.x = k.x /\ g.ch = h.ch
    BY <1>1, LocalIs
  <2>2. GotoWith(t, "move", k.y, k.x, 0, 0)
    BY <1>5 DEF Place
  <2>3. Fits(g, k) /\ WindowFits(g, k)
    BY <1>1, <1>2, <1>5, <2>1 DEF Fits, WindowFits, AtOrig
  <2>4. ASSUME h.clean PROVE strays' = {}
    <3>1. here \in Area(h.con) /\ (h.ch = "backspace" => here - 1 \in Area(h.con))
      <4>1. h.y \in 0 .. ConLines - 1
        BY <1>1, <1>2
      <4>2. h.ch = "backspace" => h.x > 0 \/ h.y > 0
        BY <1>1, <1>2, <1>5, <2>4 DEF AtOrig
      <4> QED BY <1>1, <4>1, <4>2, CellsInArea
    <3>2. Writes(h.con, CASE h.ch = "newline" -> {}
                          [] h.ch = "backspace" -> {here - 1}
                          [] h.ch = "char" -> {here})
      BY <1>5 DEF Place
    <3>3. h.ch \in Chars
      BY <1>1 DEF ThreadRecord
    <3> HIDE DEF here
    <3> QED BY <3>1, <3>2, <3>3 DEF Writes, Chars
  <2> QED BY <1>1, <1>3, <2>2, <2>3, <2>4, Passed DEF Places
<1> QED BY <1>4, <1>5

LEMMA MoveKeeps == ASSUME CInv, NEW t \in Threads, Move(t) PROVE CInv'
<1> DEFINE h == thread[t]
           k == con[h.con]
           moved == CursorAt(k, h.y, h.x)
           m == Moved(h.ch, moved)
           g == Local(h, "wrap", 0, 0, 0, 0)
<1> USE ConsoleIndices
<1>1. /\ Runs(t) /\ Active(t) /\ h.pc = "move" /\ h \in ThreadRecord /\ h.con \in Consoles
      /\ k \in ConRecord /\ Fits(h, k)
      /\ h.y \in 0 .. ConLines /\ h.x \in 0 .. SCR_WIDTH - 1
      /\ Safe(h.con) => k.top \in 0 .. ConLines - ScrLines
  BY IsAt DEF Move, Places
<1>2. g.pc = "wrap" /\ g.clean = h.clean /\ g.then = h.then
  BY <1>1, LocalIs
<1>3. /\ Goto(t, "wrap") /\ con' = [con EXCEPT ![h.con] = m]
      /\ strays' = {} /\ UNCHANGED <<current_console, crtc, hit>>
  BY DEF Move, CursorAt
<1>4. h.then # "clear" /\ h.y < ConLines /\ h.ch \in Chars
  BY <1>1 DEF Fits, Inner, ThreadRecord
<1>5. moved \in ConRecord /\ moved.y = h.y /\ moved.x = h.x /\ moved.top = k.top
  BY <1>1 DEF ConRecord, CursorAt
<1>6. /\ h.clean => moved = k /\ InWindow(k)
      /\ h.ch = "backspace" => ~AtOrig(moved)
  BY <1>1, <1>5 DEF Fits, ConRecord, CursorAt, AtOrig
<1>7. /\ m \in ConRecord /\ m.top = k.top /\ (m.y = ConLines => m.x = 0)
      /\ h.clean => Clears(m)
  BY <1>4, <1>5, <1>6, CursorMoves
<1>8. Fits(g, m) /\ WindowFits(g, m)
  BY <1>2, <1>4, <1>7 DEF Fits, WindowFits
<1> HIDE DEF m, moved
<1> QED BY <1>1, <1>3, <1>7, <1>8, Stored DEF Places

LEMMA WrapKeeps == ASSUME CInv, NEW t \in Threads, Wrap(t) PROVE CInv'
<1> DEFINE h == thread[t]
           c == h.con
           k == con[c]
<1> USE ConsoleIndices
<1>1. /\ Runs(t) /\ Active(t) /\ h.pc = "wrap" /\ h \in ThreadRecord /\ c \in Consoles
      /\ k \in ConRecord /\ Fits(h, k) /\ k.y \in 0 .. ConLines
      /\ Safe(c) => k.top \in 0 .. ConLines - ScrLines
      /\ h.y \in 0 .. ConLines
  BY IsAt DEF Wrap, Places
<1>2. h.then # "clear" /\ (h.clean => Clears(k)) /\ UNCHANGED <<current_console, crtc, hit>>
  BY <1>1 DEF Fits, Inner, Wrap
<1>3. CASE k.y >= ConLines
  <2> DEFINE m == [k EXCEPT !.y = ScrLines - 1, !.top = 0]
             g == Local(h, "wipe", 0, 0, 0, 0)
  <2>1. g.pc = "wipe" /\ g.clean = h.clean /\ g.then = h.then
    BY <1>1, LocalIs
  <2>2. Goto(t, "wipe") /\ con' = [con EXCEPT ![c] = m]
    BY <1>3 DEF Wrap
  <2>3. strays' = {}
    <3>1. Cells(Orig(c), (ScrLines - 1) * SCR_WIDTH) \subseteq Area(c)
      BY <1>1, TopInArea
    <3> QED BY <1>3, <3>1 DEF Wrap, Writes
  <2>4. k.y = ConLines /\ k.x = 0
    BY <1>1, <1>3, Running DEF CInv, Lines
  <2>5. m \in ConRecord /\ m.y = ScrLines - 1 /\ m.top = 0 /\ m.x = 0
    <3>1. ScrLines - 1 \in 0 .. ConLines
      OBVIOUS
    <3> QED BY <1>1, <2>4, <3>1 DEF ConRecord
  <2>6. Fits(g, m) /\ WindowFits(g, m)
    BY <1>2, <2>1, <2>5 DEF Fits, WindowFits
  <2>7. m.y # ConLines /\ m.top \in 0 .. ConLines - ScrLines
    BY <2>5
  <2> HIDE DEF m
  <2> QED BY <1>1, <1>2, <2>2, <2>3, <2>5, <2>6, <2>7, Stored DEF Places
<1>4. CASE ~(k.y >= ConLines)
  <2> DEFINE g == Local(h, "loop", 0, 0, 0, 0)
  <2>1. g.pc = "loop" /\ g.clean = h.clean /\ g.then = h.then
    BY <1>1, LocalIs
  <2>2. UNCHANGED con /\ strays' = {} /\ k.y < ConLines
    BY <1>1, <1>4 DEF Wrap
  <2>3. GotoWith(t, "loop", 0, 0, 0, 0)
    BY <1>4, <2>2, GotoIs DEF Wrap, Asserted
  <2>4. Fits(g, k) /\ WindowFits(g, k)
    BY <1>2, <2>1 DEF Fits, WindowFits
  <2> QED BY <1>1, <1>2, <2>2, <2>3, <2>4, Passed DEF Places
<1> QED BY <1>3, <1>4

\* The cells of a line that fits are cells of its console.
LEMMA LineInArea ==
  ASSUME ConType, NEW c \in Consoles, LineFits(con[c]), con[c].y < ConLines, Writes(c, Line(c))
  PROVE  strays' = {}
<1>1. con[c].y \in 0 .. ConLines - 1 /\ con[c].x \in 0 .. SCR_WIDTH - 1
  BY ConsoleIndices DEF ConType, ConRecord
<1>2. Line(c) \subseteq Area(c)
  BY <1>1, CellsInArea DEF Line, LineFits
<1> QED BY <1>2 DEF Writes

LEMMA WipeKeeps == ASSUME CInv, NEW t \in Threads, Wipe(t) PROVE CInv'
<1> DEFINE h == thread[t]
           k == con[h.con]
           g == Local(h, "full", 0, 0, 0, 0)
<1> USE ConsoleIndices
<1>1. /\ Runs(t) /\ Active(t) /\ h.pc = "wipe" /\ h \in ThreadRecord /\ h.con \in Consoles
      /\ k \in ConRecord /\ k.y < ConLines /\ Fits(h, k)
  BY IsAt DEF Wipe, Places
<1>2. /\ UNCHANGED <<con, current_console, crtc, hit>> /\ GotoWith(t, "full", 0, 0, 0, 0)
      /\ Writes(h.con, Line(h.con))
  BY GotoIs DEF Wipe
<1>3. g.pc = "full" /\ g.clean = h.clean /\ g.then = h.then
  BY <1>1, LocalIs
<1>4. h.then # "clear" /\ (h.clean => k.x = 0)
  BY <1>1 DEF Fits, Inner
<1>5. Fits(g, k) /\ WindowFits(g, k)
  BY <1>3, <1>4 DEF Fits, WindowFits
<1>6. h.clean => strays' = {}
  BY <1>1, <1>2, <1>4, LineInArea DEF LineFits, CInv
<1> QED BY <1>1, <1>2, <1>5, <1>6, Passed DEF Places

LEMMA FullKeeps == ASSUME CInv, NEW t \in Threads, Full(t) PROVE CInv'
<1> DEFINE h == thread[t]
           c == h.con
           k == con[c]
           m == [k EXCEPT !.full = TRUE]
           g == Local(h, "loop", 0, 0, 0, 0)
<1> USE ConsoleIndices
<1>1. /\ Runs(t) /\ Active(t) /\ h.pc = "full" /\ h \in ThreadRecord /\ c \in Consoles
      /\ k \in ConRecord /\ k.y < ConLines /\ Fits(h, k) /\ k.y \in 0 .. ConLines
      /\ Safe(c) => k.top \in 0 .. ConLines - ScrLines
  BY IsAt DEF Full, Places
<1>2. m \in ConRecord /\ m.y = k.y /\ m.x = k.x /\ m.top = k.top
  BY <1>1 DEF ConRecord
<1>3. /\ con' = [con EXCEPT ![c] = m] /\ strays' = {} /\ UNCHANGED <<current_console, crtc, hit>>
      /\ con'[c] = m
  BY <1>1 DEF Full, CInv, ConType
<1>4. Goto(t, "loop")
  BY <1>1, <1>2, <1>3 DEF Full, Asserted
<1>5. g.pc = "loop" /\ g.clean = h.clean /\ g.then = h.then
  BY <1>1, LocalIs
<1>6. h.then # "clear" /\ (h.clean => k.x = 0)
  BY <1>1 DEF Fits, Inner
<1>7. Fits(g, m) /\ WindowFits(g, m)
  BY <1>2, <1>5, <1>6 DEF Fits, WindowFits, Clears, LineFits
<1>8. m.y # ConLines
  BY <1>1, <1>2
<1> HIDE DEF m
<1> QED BY <1>1, <1>2, <1>3, <1>4, <1>7, <1>8, Stored DEF Places

LEMMA ReadCursorKeeps == ASSUME CInv, NEW t \in Threads, ReadCursor(t) PROVE CInv'
<1> DEFINE h == thread[t]
           k == con[h.con]
           g(pc) == Local(h, pc, k.y, 0, 0, 0)
<1> USE ConsoleIndices
<1>1. UNCHANGED <<con, current_console, crtc, hit>> /\ strays' = {}
  BY DEF ReadCursor, Quiet
<1>2. ASSUME NEW pc \in {"loop", "again"}, NEW next \in {"below", "above"},
             At(t, pc), GotoWith(t, next, k.y, 0, 0, 0)
      PROVE  CInv'
  <2>1. /\ Runs(t) /\ Active(t) /\ h.pc = pc /\ h \in ThreadRecord
        /\ Fits(h, k) /\ k.y \in 0 .. ConLines
    BY <1>2, IsAt DEF Places
  <2>2. g(next).pc = next /\ g(next).clean = h.clean /\ g(next).then = h.then /\ g(next).y = k.y
    BY <2>1, LocalIs
  <2>3. Fits(g(next), k) /\ WindowFits(g(next), k)
    BY <2>1, <2>2 DEF Fits, WindowFits, Inner
  <2> HIDE DEF g
  <2>4. next \in Places \ {"rest", "halt", "cursor", "start", "crtc"} /\ h.pc # "wrap"
    BY <2>1 DEF Places
  <2> QED BY <1>1, <1>2, <2>1, <2>3, <2>4, Passed DEF g
<1>3. \/ At(t, "loop") /\ GotoWith(t, "below", k.y, 0, 0, 0)
      \/ At(t, "again") /\ GotoWith(t, "above", k.y, 0, 0, 0)
  BY DEF ReadCursor
<1> QED BY <1>2, <1>3

LEMMA CompareKeeps == ASSUME CInv, NEW t \in Threads, Compare(t) PROVE CInv'
<1> DEFINE h == thread[t]
           k == con[h.con]
<1> USE ConsoleIndices
<1>1. UNCHANGED <<con, current_console, crtc, hit>> /\ strays' = {}
  BY DEF Compare, Quiet
<1>2. /\ Runs(t) /\ Active(t) /\ h.pc \in {"below", "above"} /\ h \in ThreadRecord
      /\ h.con \in Consoles /\ k \in ConRecord /\ Fits(h, k)
  BY IsAt DEF Compare, Places
<1>3. /\ h.then # "clear" /\ h.pc # "wrap"
      /\ h.clean => h.y = k.y /\ Clears(k)
  BY <1>2 DEF Fits, Inner
<1>4. CASE ScrollUp(t) /\ (Below(h.y, k.top) \/ Above(h.y, k.top))
  <2> DEFINE g == [h EXCEPT !.pc = "newest", !.then = "clear", !.y = 0]
  <2>1. /\ g \in ThreadRecord /\ g.pc = "newest" /\ g.then = "clear"
        /\ g.con = h.con /\ g.clean = h.clean
    BY <1>2 DEF ThreadRecord, Places
  <2>2. thread' = [thread EXCEPT ![t] = g]
    BY <1>4 DEF ScrollUp
  <2>3. h.clean => LineFits(k)
    BY <1>3, <1>4 DEF Clears, InWindow
  <2>4. Fits(g, k) /\ WindowFits(g, k)
    BY <2>1, <2>3 DEF Fits, WindowFits, Inner
  <2> HIDE DEF g
  <2>5. PICK r, m : r = g /\ m = k
    OBVIOUS
  <2>6. Knows(t, r, m)'
    BY <1>1, <2>1, <2>4, <2>5, KnowsPlain
  <2> QED BY <1>1, <1>2, <1>3, <2>1, <2>2, <2>5, <2>6, Looked
<1>5. ASSUME NEW pc \in {"again", "flush"}, Goto(t, pc) PROVE CInv'
  <2> DEFINE g == Local(h, pc, 0, 0, 0, 0)
  <2>1. g.pc = pc /\ g.clean = h.clean /\ g.then = h.then
    BY <1>2, LocalIs
  <2>2. Fits(g, k) /\ WindowFits(g, k)
    BY <1>3, <2>1 DEF Fits, WindowFits
  <2>3. pc \in Places \ {"rest", "halt", "cursor", "start", "crtc"} /\ GotoWith(t, pc, 0, 0, 0, 0)
    BY <1>5, GotoIs DEF Places
  <2> QED BY <1>1, <1>2, <1>3, <2>2, <2>3, Passed
<1>6. \/ ScrollUp(t) /\ (Below(h.y, k.top) \/ Above(h.y, k.top))
      \/ Goto(t, "again") \/ Goto(t, "flush")
  BY DEF Compare
<1> QED BY <1>4, <1>5, <1>6

LEMMA ClearKeeps == ASSUME CInv, NEW t \in Threads, Clear(t) PROVE CInv'
<1> DEFINE h == thread[t]
           k == con[h.con]
           g == [h EXCEPT !.pc = "loop", !.then = "rest"]
<1> USE ConsoleIndices
<1>1. /\ Runs(t) /\ Active(t) /\ h.pc = "clear" /\ h \in ThreadRecord /\ h.con \in Consoles
      /\ k \in ConRecord /\ k.y < ConLines /\ Fits(h, k)
  BY IsAt DEF Clear, Places
<1>2. /\ UNCHANGED <<con, current_console, crtc, hit>> /\ Writes(h.con, Line(h.con))
      /\ thread' = [thread EXCEPT ![t] = g]
  BY DEF Clear
<1>3. /\ g \in ThreadRecord /\ g.pc = "loop" /\ g.then = "rest"
      /\ g.con = h.con /\ g.clean = h.clean
  BY <1>1 DEF ThreadRecord, Places
<1>4. h.clean => LineFits(k)
  BY <1>1 DEF Fits
<1>5. Fits(g, k) /\ WindowFits(g, k)
  BY <1>3, <1>4 DEF Fits, WindowFits, Clears
<1>6. h.clean => strays' = {}
  BY <1>1, <1>2, <1>4, LineInArea DEF CInv
<1> HIDE DEF g
<1>7. PICK r, m : r = g /\ m = k
  OBVIOUS
<1>8. Knows(t, r, m)'
  BY <1>2, <1>3, <1>5, <1>7, KnowsPlain
<1> QED BY <1>1, <1>2, <1>3, <1>6, <1>7, <1>8, Looked

LEMMA LocalsKeep == ASSUME CInv, NEW t \in Threads, Locals(t) PROVE CInv'
<1> DEFINE h == thread[t]
           k == con[h.con]
<1> USE ConsoleIndices
<1>1. UNCHANGED <<con, current_console, crtc, hit>> /\ strays' = {}
  BY DEF Locals, Quiet
<1>2. /\ Runs(t) /\ Active(t) /\ h.pc \in {"newest", "oldest", "scr_top"} /\ h \in ThreadRecord
      /\ h.con \in Consoles /\ k \in ConRecord /\ k.y < ConLines /\ Fits(h, k)
      /\ h.y \in 0 .. ConLines /\ h.oldest \in Int /\ k.y \in 0 .. ConLines /\ k.top \in Int
  BY IsAt DEF Locals, Places
<1>3. h.pc # "newest" => h.y < ConLines
  BY <1>2 DEF Fits
<1>4. ASSUME NEW pc \in {"oldest", "scr_top", "test"}, NEW y \in 0 .. ConLines, y < ConLines,
             NEW top \in Int, NEW oldest \in Int, GotoWith(t, pc, y, 0, top, oldest),
             pc = "test" => top = k.top
      PROVE  CInv'
  <2> DEFINE g == Local(h, pc, y, 0, top, oldest)
  <2>1. g.pc = pc /\ g.y = y /\ g.top = top /\ g.clean = h.clean /\ g.then = h.then
    BY <1>2, LocalIs
  <2>2. Fits(g, k) /\ WindowFits(g, k)
    BY <1>2, <1>4, <2>1 DEF Fits, WindowFits, Inner
  <2>3. pc \in Places \ {"rest", "halt", "cursor", "start", "crtc"} /\ h.pc # "wrap"
    BY <1>2 DEF Places
  <2> QED BY <1>1, <1>2, <1>4, <2>2, <2>3, Passed
<1>5. CASE h.pc = "newest"
  <2>1. GotoWith(t, "oldest", k.y, 0, 0, 0)
    BY <1>5 DEF Locals, At
  <2> QED BY <1>2, <1>4, <2>1
<1>6. CASE h.pc = "oldest"
  <2>1. GotoWith(t, "scr_top", h.y, 0, 0, IF k.full THEN (h.y + 1) % ConLines ELSE 0)
    BY <1>6 DEF Locals, At
  <2>2. (IF k.full THEN (h.y + 1) % ConLines ELSE 0) \in Int
    BY <1>2
  <2> QED BY <1>2, <1>3, <1>4, <1>6, <2>1, <2>2
<1>7. CASE h.pc = "scr_top"
  <2>1. GotoWith(t, "test", h.y, 0, k.top, h.oldest)
    BY <1>7 DEF Locals, At
  <2> QED BY <1>2, <1>3, <1>4, <1>7, <2>1
<1> QED BY <1>2, <1>5, <1>6, <1>7

\* A step of scroll_screen that only looks.
LEMMA ScrollPasses ==
  ASSUME CInv, NEW t \in Threads, Runs(t), Active(t), Quiet,
         thread[t].pc \in {"test", "retest", "side", "low", "high", "load"},
         NEW pc \in {"retest", "side", "low", "high", "load", "store", "flush"},
         NEW y \in 0 .. ConLines, y < ConLines, NEW top \in Int, NEW oldest \in Int,
         GotoWith(t, pc, y, 0, top, oldest),
         NEW h, h = thread[t], NEW k, k = con[h.con],
         pc \in {"side", "low", "high"} => h.dir = "down",
         Safe(h.con) =>
           /\ pc = "retest" => top = k.top
           /\ pc = "load" => IF h.dir = "up" THEN k.top + ScrLines < ConLines ELSE k.top > 0
           /\ pc = "store" => top \in 0 .. ConLines - ScrLines
  PROVE  CInv'
<1> DEFINE g == Local(h, pc, y, 0, top, oldest)
<1> USE ConsoleIndices
<1>1. h \in ThreadRecord /\ Fits(h, k)
  BY Running DEF Knows
<1>2. /\ g.pc = pc /\ g.y = y /\ g.top = top /\ g.clean = h.clean /\ g.then = h.then
      /\ g.dir = h.dir /\ g.con = h.con
  BY <1>1, LocalIs
<1>3. Fits(g, k) /\ (Safe(h.con) => WindowFits(g, k))
  BY <1>1, <1>2 DEF Fits, WindowFits, Inner
<1>4. /\ UNCHANGED <<con, current_console, crtc, hit>> /\ strays' = {}
      /\ pc \in Places \ {"rest", "halt", "cursor", "start", "crtc"} /\ h.pc # "wrap"
  BY DEF Quiet, Places
<1> QED BY <1>3, <1>4, Passed

LEMMA TestKeeps == ASSUME CInv, NEW t \in Threads, Test(t) PROVE CInv'
<1> DEFINE h == thread[t]
           k == con[h.con]
<1> USE ConsoleIndices
<1>1. Quiet
  BY DEF Test
<1>2. /\ Runs(t) /\ Active(t) /\ h.pc = "test" /\ Fits(h, k) /\ (Safe(h.con) => WindowFits(h, k))
      /\ h.y \in 0 .. ConLines /\ h.top \in Int /\ h.oldest \in Int /\ k.top \in Int
  BY IsAt DEF Test, Places
<1>3. h.y < ConLines /\ (Safe(h.con) => h.top = k.top)
  BY <1>2 DEF Fits, WindowFits
<1>4. CASE ~k.full /\ Scrolls(h)
  <2>1. GotoWith(t, "load", 0, 0, 0, 0)
    BY <1>4, GotoIs DEF Test
  <2>2. Safe(h.con) => IF h.dir = "up" THEN k.top + ScrLines < ConLines ELSE k.top > 0
    BY <1>2, <1>3, <1>4 DEF Scrolls
  <2> QED BY <1>1, <1>2, <2>1, <2>2, ScrollPasses
<1>5. CASE ~(~k.full /\ Scrolls(h))
  <2>1. GotoWith(t, "retest", h.y, 0, h.top, h.oldest)
    BY <1>5 DEF Test
  <2> QED BY <1>1, <1>2, <1>3, <2>1, ScrollPasses
<1> QED BY <1>4, <1>5

LEMMA RetestKeeps == ASSUME CInv, NEW t \in Threads, Retest(t) PROVE CInv'
<1> DEFINE h == thread[t]
           k == con[h.con]
<1> USE ConsoleIndices
<1>1. Quiet
  BY DEF Retest
<1>2. /\ Runs(t) /\ Active(t) /\ h.pc = "retest" /\ h \in ThreadRecord /\ (Safe(h.con) => WindowFits(h, k))
      /\ h.top \in Int /\ k.top \in Int /\ (Safe(h.con) => k.top \in 0 .. ConLines - ScrLines)
  BY IsAt DEF Retest, Places
<1>3. (Safe(h.con) => h.top = k.top) /\ h.dir \in {"up", "down"}
  BY <1>2 DEF WindowFits, ThreadRecord
<1>4. CASE ~(k.full /\ ScrollsFull(h))
  <2>1. GotoWith(t, "flush", 0, 0, 0, 0)
    BY <1>4, GotoIs DEF Retest
  <2> QED BY <1>1, <1>2, <2>1, ScrollPasses
<1>5. CASE k.full /\ ScrollsFull(h) /\ h.dir = "down"
  <2>1. GotoWith(t, "side", 0, 0, 0, 0)
    BY <1>5, GotoIs DEF Retest
  <2> QED BY <1>1, <1>2, <1>5, <2>1, ScrollPasses
<1>6. CASE k.full /\ ScrollsFull(h) /\ h.dir = "up" /\ EndShown(h)
  <2>1. GotoWith(t, "store", 0, 0, 0, 0)
    BY <1>6 DEF Retest
  <2>2. 0 \in 0 .. ConLines - ScrLines
    OBVIOUS
  <2> QED BY <1>1, <1>2, <2>1, <2>2, ScrollPasses
<1>7. CASE k.full /\ ScrollsFull(h) /\ h.dir = "up" /\ ~EndShown(h)
  <2>1. GotoWith(t, "load", 0, 0, 0, 0)
    BY <1>7, GotoIs DEF Retest
  <2>2. Safe(h.con) => k.top + ScrLines < ConLines
    BY <1>2, <1>3, <1>7 DEF EndShown
  <2> QED BY <1>1, <1>2, <1>7, <2>1, <2>2, ScrollPasses
<1> QED BY <1>3, <1>4, <1>5, <1>6, <1>7

LEMMA SideKeeps == ASSUME CInv, NEW t \in Threads, Side(t) PROVE CInv'
<1> DEFINE h == thread[t]
           k == con[h.con]
<1> USE ConsoleIndices
<1>1. Quiet
  BY DEF Side
<1>2. /\ Runs(t) /\ Active(t) /\ h.pc \in {"side", "low", "high"} /\ Fits(h, k)
      /\ k.top \in Int /\ (Safe(h.con) => k.top \in 0 .. ConLines - ScrLines)
  BY IsAt DEF Side, Places
<1>3. h.dir = "down"
  BY <1>2 DEF Fits
<1>4. CASE k.top # 0 /\ Goto(t, "load")
  <2>1. GotoWith(t, "load", 0, 0, 0, 0)
    BY <1>4, GotoIs
  <2>2. Safe(h.con) => k.top > 0
    BY <1>2, <1>4
  <2> QED BY <1>1, <1>2, <1>3, <2>1, <2>2, ScrollPasses
<1>5. ASSUME NEW pc \in {"low", "high", "flush"}, Goto(t, pc) PROVE CInv'
  <2>1. GotoWith(t, pc, 0, 0, 0, 0)
    BY <1>5, GotoIs
  <2> QED BY <1>1, <1>2, <1>3, <2>1, ScrollPasses
<1>6. CASE GotoWith(t, "store", 0, 0, ConLines - ScrLines, 0)
  <2>1. ConLines - ScrLines \in 0 .. ConLines - ScrLines
    OBVIOUS
  <2> QED BY <1>1, <1>2, <1>6, <2>1, ScrollPasses
<1>7. \/ k.top # 0 /\ Goto(t, "load")
      \/ \E pc \in {"low", "high", "flush"} : Goto(t, pc)
      \/ GotoWith(t, "store", 0, 0, ConLines - ScrLines, 0)
  BY DEF Side
<1> QED BY <1>4, <1>5, <1>6, <1>7

LEMMA LoadKeeps == ASSUME CInv, NEW t \in Threads, Load(t) PROVE CInv'
<1> DEFINE h == thread[t]
           k == con[h.con]
           top == k.top + (IF h.dir = "up" THEN 1 ELSE -1)
<1> USE ConsoleIndices
<1>1. Quiet /\ GotoWith(t, "store", 0, 0, top, 0)
  BY DEF Load
<1>2. /\ Runs(t) /\ Active(t) /\ h.pc = "load" /\ (Safe(h.con) => WindowFits(h, k))
      /\ k.top \in Int /\ (Safe(h.con) => k.top \in 0 .. ConLines - ScrLines)
  BY IsAt DEF Load, Places
<1>3. top \in Int /\ (Safe(h.con) => top \in 0 .. ConLines - ScrLines)
  BY <1>2 DEF WindowFits
<1> HIDE DEF top
<1> QED BY <1>1, <1>2, <1>3, ScrollPasses

LEMMA StoreKeeps == ASSUME CInv, NEW t \in Threads, Store(t) PROVE CInv'
<1> DEFINE h == thread[t]
           k == con[h.con]
           m == [k EXCEPT !.top = h.top]
           g == Local(h, "flush", 0, 0, 0, 0)
<1> USE ConsoleIndices
<1>1. /\ Runs(t) /\ Active(t) /\ h.pc = "store" /\ h \in ThreadRecord /\ h.con \in Consoles
      /\ k \in ConRecord /\ k.y < ConLines /\ Fits(h, k) /\ (Safe(h.con) => WindowFits(h, k))
      /\ h.top \in Int /\ k.y \in 0 .. ConLines
  BY IsAt DEF Store, Places
<1>2. m \in ConRecord /\ m.y = k.y /\ m.x = k.x /\ m.top = h.top
  BY <1>1 DEF ConRecord
<1>3. /\ con' = [con EXCEPT ![h.con] = m] /\ strays' = {} /\ UNCHANGED <<current_console, crtc, hit>>
      /\ Goto(t, "flush")
  BY DEF Store
<1>4. g.pc = "flush" /\ g.clean = h.clean /\ g.then = h.then
  BY <1>1, LocalIs
<1>5. Fits(g, m) /\ WindowFits(g, m)
  BY <1>1, <1>2, <1>4 DEF Fits, WindowFits, LineFits, Inner
<1>6. m.y # ConLines /\ (Safe(h.con) => m.top \in 0 .. ConLines - ScrLines)
  BY <1>1, <1>2 DEF WindowFits
<1> HIDE DEF m
<1> QED BY <1>1, <1>2, <1>3, <1>5, <1>6, Stored DEF Places

\* The thread comes to rest: it has written the registers, if it must.
LEMMA Rested ==
  ASSUME CInv, NEW t \in Threads, Runs(t), Active(t), thread[t].pc # "wrap",
         thread' = [thread EXCEPT ![t] = AtRest],
         UNCHANGED <<con, current_console, hit>>, strays' = {},
         crtc' = crtc \/ thread[t].con = current_console,
         crtc' \in [cursor : [con : Consoles, y : 0 .. ConLines, x : 0 .. SCR_WIDTH - 1],
                    start : [con : Consoles, top : Int]],
         NEW k, k = con[thread[t].con],
         thread[t].con = current_console /\ (t = "printx" \/ thread[t].con # 0 \/ Shows)
           => crtc' = Registers(thread[t].con, k)
  PROVE  CInv'
<1>1. /\ k \in ConRecord /\ con' = [con EXCEPT ![thread[t].con] = k] /\ k.y < ConLines
      /\ Safe(thread[t].con) => k.top \in 0 .. ConLines - ScrLines
  BY Running
<1>2. k.y # ConLines
  BY <1>1, ConsoleIndices DEF ConRecord
<1>3. PICK h : h = AtRest
  OBVIOUS
<1>4. /\ h \in ThreadRecord /\ h.pc # "halt" /\ thread' = [thread EXCEPT ![t] = h]
      /\ k.y = ConLines => k.x = 0 /\ h.pc = "wrap"
      /\ UNCHANGED <<current_console, hit>>
  BY <1>2, <1>3, RestIs
<1>5. Knows(t, h, k)'
  BY <1>3 DEF Knows, Fits, WindowFits, RegistersFit, AtRest
<1> QED BY <1>1, <1>3, <1>4, <1>5, Kept

\* The local variables of the rest of the loop of out_char.
LEMMA ClearFits ==
  ASSUME NEW h \in ThreadRecord, NEW k, Fits(h, k), h.then = "clear"
  PROVE  LET g == Local(h, "clear", 0, 0, 0, 0)
         IN  /\ g.pc = "clear" /\ g.con = h.con /\ g.clean = h.clean
             /\ Fits(g, k) /\ WindowFits(g, k)
<1> DEFINE g == Local(h, "clear", 0, 0, 0, 0)
<1>1. g.pc = "clear" /\ g.con = h.con /\ g.clean = h.clean /\ g.then = "clear"
  BY LocalIs
<1>2. Fits(g, k) /\ WindowFits(g, k)
  BY <1>1 DEF Fits, WindowFits, Inner
<1> QED BY <1>1, <1>2

LEMMA FlushKeeps == ASSUME CInv, NEW t \in Threads, Flush(t) PROVE CInv'
<1> DEFINE h == thread[t]
           k == con[h.con]
<1> USE ConsoleIndices
<1>1. UNCHANGED <<con, current_console, crtc, hit>> /\ strays' = {}
  BY DEF Flush, Quiet
<1>2. /\ Runs(t) /\ Active(t) /\ h.pc = "flush" /\ h \in ThreadRecord /\ Fits(h, k)
      /\ k.y \in 0 .. ConLines /\ k.x \in 0 .. SCR_WIDTH - 1
  BY IsAt DEF Flush, Places
<1>3. CASE h.con = current_console
  <2> DEFINE g == Local(h, "cursor", k.y, k.x, 0, 0)
  <2>1. /\ g.pc = "cursor" /\ g.clean = h.clean /\ g.then = h.then /\ g.con = h.con
        /\ g.y = k.y /\ g.x = k.x
    BY <1>2, LocalIs
  <2>2. thread' = [thread EXCEPT ![t] = g]
    BY <1>3 DEF Flush, GotoWith, Local
  <2>3. g \in ThreadRecord
    BY <1>2, LocalTyped DEF Places
  <2>4. Fits(g, k) /\ WindowFits(g, k)
    BY <1>2, <2>1 DEF Fits, WindowFits, Inner
  <2> HIDE DEF g
  <2>5. PICK r, m : r = g /\ m = k
    OBVIOUS
  <2>6. Knows(t, r, m)'
    BY <1>1, <1>3, <2>1, <2>4, <2>5 DEF Knows, RegistersFit
  <2> QED BY <1>1, <1>2, <2>1, <2>2, <2>3, <2>5, <2>6, Looked
<1>4. CASE h.con # current_console /\ h.then = "clear"
  <2>1. GotoWith(t, "clear", 0, 0, 0, 0)
    BY <1>4, GotoIs DEF Flush, Return
  <2> QED BY <1>1, <1>2, <1>4, <2>1, ClearFits, Passed DEF Places
<1>5. CASE h.con # current_console /\ h.then # "clear"
  <2>1. thread' = [thread EXCEPT ![t] = AtRest]
    BY <1>5 DEF Flush, Return
  <2>2. crtc' = crtc /\ crtc' \in [cursor : [con : Consoles, y : 0 .. ConLines, x : 0 .. SCR_WIDTH - 1],
                                   start : [con : Consoles, top : Int]]
    BY <1>1 DEF CInv, ConType
  <2> QED BY <1>1, <1>2, <1>5, <2>1, <2>2, Rested
<1> QED BY <1>3, <1>4, <1>5

LEMMA FlushStartKeeps == ASSUME CInv, NEW t \in Threads, FlushStart(t) PROVE CInv'
<1> DEFINE h == thread[t]
           k == con[h.con]
           g == Local(h, "crtc", 0, 0, k.top, 0)
<1> USE ConsoleIndices
<1>1. UNCHANGED <<con, current_console, crtc, hit>> /\ strays' = {}
  BY DEF FlushStart, Quiet
<1>2. /\ Runs(t) /\ Active(t) /\ h.pc = "start" /\ h \in ThreadRecord /\ Fits(h, k) /\ k.top \in Int
  BY IsAt DEF FlushStart, Places
<1>3. Knows(t, h, k) /\ (t = "tty" => ~Active("printx"))
  BY <1>2, Running
<1>4. /\ g.pc = "crtc" /\ g.clean = h.clean /\ g.then = h.then /\ g.con = h.con /\ g.top = k.top
  BY <1>2, LocalIs
<1>5. thread' = [thread EXCEPT ![t] = g]
  BY DEF FlushStart, GotoWith, Local
<1>6. g \in ThreadRecord
  BY <1>2, LocalTyped DEF Places
<1>7. Fits(g, k) /\ WindowFits(g, k) /\ g.con = current_console
  BY <1>2, <1>3, <1>4 DEF Fits, WindowFits, Inner, Knows
<1>8. t = "printx" \/ g.con # 0 \/ Shows => RegistersFit(g, k, crtc)
  BY <1>2, <1>3, <1>4 DEF RegistersFit, Knows, Threads
<1> HIDE DEF g
<1>9. PICK r, m : r = g /\ m = k
  OBVIOUS
<1>10. Knows(t, r, m)'
  <2>1. Fits(r, m) /\ WindowFits(r, m) /\ r.con = current_console' /\ r.pc = "crtc"
    BY <1>1, <1>4, <1>7, <1>9
  <2>2. t = "printx" \/ r.con # 0 \/ Shows' => RegistersFit(r, m, crtc')
    BY <1>1, <1>8, <1>9 DEF Shows
  <2> QED BY <2>1, <2>2 DEF Knows
<1> QED BY <1>1, <1>2, <1>4, <1>5, <1>6, <1>9, <1>10, Looked

LEMMA CursorKeeps == ASSUME CInv, NEW t \in Threads, set_cursor(t) PROVE CInv'
<1> DEFINE h == thread[t]
           k == con[h.con]
           g == Local(h, "start", 0, 0, 0, 0)
<1> USE ConsoleIndices
<1>1. /\ UNCHANGED <<con, current_console, hit>> /\ strays' = {}
      /\ crtc' = [crtc EXCEPT !.cursor = CursorOf(h.con, h.y, h.x)]
  BY DEF set_cursor
<1>2. /\ Runs(t) /\ Active(t) /\ h.pc = "cursor" /\ h \in ThreadRecord /\ h.con \in Consoles
      /\ h.y \in 0 .. ConLines /\ h.x \in 0 .. SCR_WIDTH - 1 /\ Fits(h, k)
      /\ k \in ConRecord /\ k.y < ConLines /\ k.y \in 0 .. ConLines
  BY IsAt DEF set_cursor, Places
<1>3. /\ Knows(t, h, k) /\ con = [con EXCEPT ![h.con] = k]
      /\ Safe(h.con) => k.top \in 0 .. ConLines - ScrLines
  BY <1>2, Running
<1>4. /\ g.pc = "start" /\ g.clean = h.clean /\ g.then = h.then /\ g.con = h.con
  BY <1>2, LocalIs
<1>5. thread' = [thread EXCEPT ![t] = g]
  BY DEF set_cursor, Goto, Local
<1>6. g \in ThreadRecord
  BY <1>2, LocalTyped DEF Places
<1>7. Fits(g, k) /\ WindowFits(g, k) /\ g.con = current_console
  BY <1>2, <1>3, <1>4 DEF Fits, WindowFits, Inner, Knows
<1>8. crtc'.cursor = CursorOf(h.con, h.y, h.x)
      /\ crtc' \in [cursor : [con : Consoles, y : 0 .. ConLines, x : 0 .. SCR_WIDTH - 1],
                    start : [con : Consoles, top : Int]]
  BY <1>1, <1>2 DEF CInv, ConType, CursorOf
<1>9. t = "printx" \/ g.con # 0 \/ Shows => RegistersFit(g, k, crtc')
  BY <1>2, <1>3, <1>4, <1>8 DEF RegistersFit, Knows, Alone, Shows
<1> HIDE DEF g
<1>10. PICK r, m : r = g /\ m = k
  OBVIOUS
<1>11. Knows(t, r, m)'
  <2>1. Fits(r, m) /\ WindowFits(r, m) /\ r.con = current_console' /\ r.pc = "start"
    BY <1>1, <1>4, <1>7, <1>10
  <2>2. t = "printx" \/ r.con # 0 \/ Shows' => RegistersFit(r, m, crtc')
    BY <1>1, <1>9, <1>10 DEF Shows
  <2> QED BY <2>1, <2>2 DEF Knows
<1>12. k.y # ConLines /\ r # AtRest /\ h.con = current_console
  BY <1>2, <1>4, <1>7, <1>10, RestIs
<1>13. /\ r.con = h.con /\ r.clean = h.clean /\ r.pc = "start" /\ r \in ThreadRecord
       /\ thread' = [thread EXCEPT ![t] = r] /\ m \in ConRecord /\ con' = [con EXCEPT ![h.con] = m]
       /\ m.y # ConLines /\ (Safe(h.con) => m.top \in 0 .. ConLines - ScrLines)
  BY <1>1, <1>2, <1>3, <1>4, <1>5, <1>6, <1>10, <1>12
<1> QED BY <1>1, <1>2, <1>8, <1>11, <1>12, <1>13, Kept

LEMMA VideoStartKeeps == ASSUME CInv, NEW t \in Threads, set_video_start_addr(t) PROVE CInv'
<1> DEFINE h == thread[t]
           k == con[h.con]
<1> USE ConsoleIndices
<1>1. /\ UNCHANGED <<con, current_console, hit>> /\ strays' = {}
      /\ crtc' = [crtc EXCEPT !.start = StartOf(h.con, h.top)] /\ Return(t)
  BY DEF set_video_start_addr
<1>2. /\ Runs(t) /\ Active(t) /\ h.pc = "crtc" /\ h \in ThreadRecord /\ h.con \in Consoles
      /\ h.top \in Int /\ Fits(h, k)
      /\ k \in ConRecord /\ k.y < ConLines /\ k.y \in 0 .. ConLines
  BY IsAt DEF set_video_start_addr, Places
<1>3. /\ Knows(t, h, k) /\ con = [con EXCEPT ![h.con] = k]
      /\ Safe(h.con) => k.top \in 0 .. ConLines - ScrLines
      /\ t = "tty" => ~Active("printx")
  BY <1>2, Running
<1>4. h.con = current_console
  BY <1>2, <1>3 DEF Knows
<1>5. crtc' = [cursor |-> crtc.cursor, start |-> StartOf(h.con, h.top)]
      /\ crtc' \in [cursor : [con : Consoles, y : 0 .. ConLines, x : 0 .. SCR_WIDTH - 1],
                    start : [con : Consoles, top : Int]]
  BY <1>1, <1>2 DEF CInv, ConType, StartOf
<1>6. t = "printx" \/ h.con # 0 \/ Shows => crtc' = Registers(h.con, k)
  <2>1. t = "printx" \/ h.con # 0 \/ Shows => RegistersFit(h, k, crtc)
    BY <1>3 DEF Knows, Threads
  <2> QED BY <1>2, <1>5, <2>1 DEF RegistersFit, Registers
<1>7. CASE h.then = "clear"
  <2> DEFINE g == Local(h, "clear", 0, 0, 0, 0)
  <2>1. thread' = [thread EXCEPT ![t] = g]
    BY <1>1, <1>7 DEF Return, Goto, Local
  <2>2. g \in ThreadRecord
    BY <1>2, LocalTyped DEF Places
  <2>3. g.pc = "clear" /\ g.con = h.con /\ g.clean = h.clean /\ Fits(g, k) /\ WindowFits(g, k)
    BY <1>2, <1>7, ClearFits
  <2> HIDE DEF g
  <2>4. PICK r, m : r = g /\ m = k
    OBVIOUS
  <2>5. Knows(t, r, m)'
    BY <1>1, <2>3, <2>4, KnowsPlain
  <2>6. k.y # ConLines /\ r # AtRest
    BY <1>2, <2>3, <2>4, RestIs
  <2>7. /\ r.con = h.con /\ r.clean = h.clean /\ r.pc = "clear" /\ r \in ThreadRecord
        /\ thread' = [thread EXCEPT ![t] = r] /\ m \in ConRecord /\ con' = [con EXCEPT ![h.con] = m]
        /\ m.y # ConLines /\ (Safe(h.con) => m.top \in 0 .. ConLines - ScrLines)
    BY <1>1, <1>2, <1>3, <2>1, <2>2, <2>3, <2>4, <2>6
  <2> QED BY <1>1, <1>2, <1>4, <1>5, <2>5, <2>6, <2>7, Kept
<1>8. CASE h.then # "clear"
  <2>1. thread' = [thread EXCEPT ![t] = AtRest]
    BY <1>1, <1>8 DEF Return
  <2> QED BY <1>1, <1>2, <1>4, <1>5, <1>6, <2>1, Rested
<1> QED BY <1>7, <1>8

-----------------------------------------------------------------------------
\* TTY begins something.
LEMMA TtyEnters ==
  ASSUME CInv, At("tty", "rest"), NEW h \in ThreadRecord, thread' = [thread EXCEPT !["tty"] = h],
         h.pc \in {"place", "newest", "flush"}, h.then = "rest", Fits(h, con[h.con]),
         UNCHANGED <<con, crtc, hit>>, strays' = {}, current_console' \in Consoles,
         current_console' = current_console \/ h.con = current_console'
  PROVE  CInv'
<1> USE ConsoleIndices
<1>1. thread["tty"] = AtRest /\ thread["printx"] = AtRest /\ NotHalted
  BY RestIs DEF At, Runs, NotHalted, CInv, ConType
<1>2. /\ thread' \in [Threads -> ThreadRecord]
      /\ thread'["tty"] = h /\ thread'["printx"] = AtRest
  BY <1>1 DEF CInv, ConType
<1>3. ConType'
  BY <1>1, <1>2, RestIs DEF CInv, ConType
<1>4. \A d \in Consoles : con[d].y < ConLines
  BY <1>1, NoWrap, RestIs DEF CInv, Wrapping
<1>5. Lines'
  BY <1>4, ConsoleIndices DEF Lines, CInv, ConType, ConRecord
<1>6. Overtaken'
  BY <1>2, RestIs DEF Overtaken, Active
<1>7. NotHalted'
  BY <1>2, RestIs DEF NotHalted
<1>8. \A d \in Consoles : Safe(d)' => WindowInConsole(d)'
  BY DEF CInv, WindowInConsole, Safe
<1>9. Knows("printx", thread["printx"], con[thread["printx"].con])'
  BY <1>2 DEF Knows, Fits, WindowFits, RegistersFit, AtRest
<1>10. Knows("tty", thread["tty"], con[thread["tty"].con])'
  BY <1>2 DEF Knows, Fits, WindowFits, RegistersFit
<1>11. \A u \in Threads : Knows(u, thread[u], con[thread[u].con])'
  BY <1>9, <1>10
<1>12. Shows' => \/ crtc' = Shown(current_console)'
                 \/ \E u \in Threads : Active(u)' /\ thread'[u].con = current_console'
  <2> SUFFICES ASSUME Shows' PROVE \/ crtc' = Shown(current_console)'
                                   \/ \E u \in Threads : Active(u)' /\ thread'[u].con = current_console'
    OBVIOUS
  <2>1. Shows
    BY DEF Shows
  <2>2. crtc = Shown(current_console)
    BY <1>1, <2>1, RestIs DEF CInv, Active
  <2>3. CASE current_console' = current_console
    BY <2>2, <2>3 DEF Shown, Registers
  <2>4. CASE h.con = current_console'
    BY <1>2, <2>4 DEF Active
  <2> QED BY <2>3, <2>4
<1>13. WritesStayInConsole'
  BY DEF WritesStayInConsole
<1> QED BY <1>3, <1>5, <1>6, <1>7, <1>8, <1>11, <1>12, <1>13 DEF CInv

LEMMA ScrollKeyKeeps ==
  ASSUME CInv, NEW c \in Consoles, NEW dir \in {"up", "down"}, ScrollKey(c, dir)
  PROVE  CInv'
<1> DEFINE h == [AtRest EXCEPT !.pc = "newest", !.con = c, !.dir = dir]
<1>1. /\ h \in ThreadRecord /\ h.pc = "newest" /\ h.then = "rest" /\ h.clean = FALSE
  BY RestIs DEF AtRest, ThreadRecord, Places
<1>2. Fits(h, con[h.con])
  BY <1>1 DEF Fits
<1>3. At("tty", "rest") /\ thread' = [thread EXCEPT !["tty"] = h] /\ strays' = {}
      /\ UNCHANGED <<con, current_console, crtc, hit>>
  BY DEF ScrollKey, Quiet
<1>4. current_console' \in Consoles
  BY <1>3 DEF CInv, ConType
<1> HIDE DEF h
<1> QED BY <1>1, <1>2, <1>3, <1>4, TtyEnters

LEMMA SelectKeeps == ASSUME CInv, NEW n \in Consoles, Select(n) PROVE CInv'
<1> DEFINE h == [AtRest EXCEPT !.pc = "flush", !.con = n]
<1>1. /\ h \in ThreadRecord /\ h.pc = "flush" /\ h.con = n /\ h.then = "rest" /\ h.clean = FALSE
  BY RestIs DEF AtRest, ThreadRecord, Places
<1>2. Fits(h, con[h.con])
  BY <1>1 DEF Fits
<1>3. At("tty", "rest") /\ thread' = [thread EXCEPT !["tty"] = h] /\ strays' = {}
      /\ UNCHANGED <<con, crtc, hit>> /\ current_console' = n
  BY DEF Select
<1> HIDE DEF h
<1> QED BY <1>1, <1>2, <1>3, TtyEnters

LEMMA TtyBeginKeeps == ASSUME CInv, NEW c \in Consoles, NEW ch \in Chars, Begin("tty", c, ch) PROVE CInv'
<1> DEFINE k == con[c]
           h == [AtRest EXCEPT !.pc = "place", !.con = c, !.ch = ch, !.y = k.y, !.x = k.x,
                               !.clean = InWindow(k)]
<1> USE ConsoleIndices
<1>1. At("tty", "rest") /\ UNCHANGED <<con, current_console, crtc, hit>> /\ strays' = {}
  BY DEF Begin
<1>2. thread["tty"] = AtRest /\ thread["printx"] = AtRest /\ NotHalted
  BY <1>1, RestIs DEF At, Runs, NotHalted, CInv, ConType
<1>3. k \in ConRecord /\ k.y < ConLines /\ k.y \in 0 .. ConLines /\ k.x \in 0 .. SCR_WIDTH - 1
  <2>1. k \in ConRecord /\ k.y < ConLines
    BY <1>2, NoWrap, RestIs DEF CInv, Wrapping
  <2> QED BY <2>1 DEF ConRecord
<1>4. /\ h \in ThreadRecord /\ h.pc = "place" /\ h.con = c /\ h.then = "rest"
      /\ h.y = k.y /\ h.x = k.x /\ h.clean = InWindow(k)
  BY <1>3, RestIs DEF AtRest, ThreadRecord, Places, InWindow
<1>5. Fits(h, con[h.con])
  BY <1>3, <1>4 DEF Fits
<1>6. thread' = [thread EXCEPT !["tty"] = h]
  <2>1. thread' = [u \in Threads |-> IF u = "tty" THEN h ELSE thread[u]]
    BY <1>3 DEF Begin
  <2> HIDE DEF h
  <2> QED BY <2>1 DEF CInv, ConType
<1>7. current_console' \in Consoles
  BY <1>1 DEF CInv, ConType
<1> HIDE DEF h
<1> QED BY <1>1, <1>4, <1>5, <1>6, <1>7, TtyEnters

\* What TTY knows when a printx comes inside it.
LEMMA PrintxInside ==
  ASSUME CInv, Begin("printx", 0, "newline") \/ Begin("printx", 0, "char")
  PROVE  LET r == thread["tty"]
             g == thread'["tty"]
         IN  /\ g \in ThreadRecord /\ g.con = r.con /\ g.pc = r.pc
             /\ Active("tty") /\ g.con = 0 => ~g.clean /\ {g.pc} \intersect Spoilers \subseteq hit'
             /\ g.pc = "rest" => g = AtRest
             /\ hit \subseteq hit' /\ UNCHANGED con
             /\ ~Active("tty") \/ r.con # 0 => g = r
             /\ g = r \/ g = [r EXCEPT !.clean = FALSE]
<1> DEFINE r == thread["tty"]
           inside == r.pc # "rest" /\ r.con = 0
<1>1. r \in ThreadRecord /\ thread \in [Threads -> ThreadRecord] /\ (r.pc = "rest" => r = AtRest)
  BY ConsoleIndices DEF CInv, ConType
<1>2. /\ thread'["tty"] = IF inside THEN [r EXCEPT !.clean = FALSE] ELSE r
      /\ hit' = IF inside THEN hit \union ({r.pc} \intersect Spoilers) ELSE hit
      /\ UNCHANGED con
  BY ConsoleIndices DEF Begin
<1>3. CASE inside
  <2> DEFINE g == [r EXCEPT !.clean = FALSE]
  <2>1. g \in ThreadRecord /\ g.con = r.con /\ g.pc = r.pc /\ g.clean = FALSE
    BY <1>1 DEF ThreadRecord
  <2> HIDE DEF g
  <2>2. thread'["tty"] = g
    BY <1>2, <1>3 DEF g
  <2>3. g = [r EXCEPT !.clean = FALSE]
    BY DEF g
  <2> QED BY <1>2, <1>3, <2>1, <2>2, <2>3 DEF Active
<1>4. CASE ~inside
  BY <1>1, <1>2, <1>4 DEF Active
<1> QED BY <1>3, <1>4

LEMMA PrintxBeginKeeps ==
  ASSUME CInv, NEW c \in Consoles, NEW ch \in Chars, Begin("printx", c, ch) PROVE CInv'
<1> DEFINE k == con[0]
           h == [AtRest EXCEPT !.pc = IF k.y < ConLines THEN "place" ELSE "halt",
                               !.con = 0, !.ch = ch, !.y = k.y, !.x = k.x, !.clean = InWindow(k)]
           r == thread["tty"]
           g == thread'["tty"]
<1> USE ConsoleIndices
<1>1. /\ c = 0 /\ ch \in {"newline", "char"} /\ At("printx", "rest")
      /\ UNCHANGED <<con, current_console, crtc>> /\ strays' = {}
  BY DEF Begin, Chars
<1>2. /\ thread["printx"] = AtRest /\ NotHalted
  BY <1>1 DEF At, Runs, NotHalted, CInv, ConType
<1>3. k \in ConRecord /\ k.y \in 0 .. ConLines /\ k.x \in 0 .. SCR_WIDTH - 1
  BY DEF CInv, ConType, ConRecord
<1>4. /\ h \in ThreadRecord /\ h.pc = (IF k.y < ConLines THEN "place" ELSE "halt") /\ h.con = 0
      /\ h.then = "rest" /\ h.y = k.y /\ h.x = k.x /\ h.clean = InWindow(k)
  BY <1>3, RestIs DEF AtRest, ThreadRecord, Places, InWindow
<1>5. thread'["printx"] = h /\ thread' = [u \in Threads |-> thread'[u]]
  BY <1>1 DEF Begin
<1>6. /\ g \in ThreadRecord /\ g.con = r.con /\ g.pc = r.pc
      /\ Active("tty") /\ g.con = 0 => ~g.clean /\ {g.pc} \intersect Spoilers \subseteq hit'
      /\ g.pc = "rest" => g = AtRest
      /\ hit \subseteq hit'
      /\ ~Active("tty") \/ r.con # 0 => g = r
      /\ g = r \/ g = [r EXCEPT !.clean = FALSE]
  BY <1>1, PrintxInside
<1> HIDE DEF h, g
<1>7. ConType'
  <2>1. thread' \in [Threads -> ThreadRecord]
    BY <1>4, <1>5, <1>6 DEF g
  <2>2. \A u \in Threads : thread'[u].pc = "rest" => thread'[u] = AtRest
    BY <1>4, <1>5, <1>6 DEF g
  <2> QED BY <1>1, <1>4, <1>5, <2>1, <2>2 DEF CInv, ConType
<1>8. \A d \in Consoles : con[d].y = ConLines => con[d].x = 0 /\ Wrapping("tty", d)
  BY <1>2, RestIs DEF CInv, Lines, Wrapping
<1>9. k.y < ConLines \/ Wrapping("tty", 0)
  <2>1. k.y # ConLines \/ Wrapping("tty", 0)
    BY <1>8
  <2> QED BY <1>3, <2>1
<1>10. Lines'
  <2> SUFFICES ASSUME NEW d \in Consoles, con'[d].y = ConLines
               PROVE  /\ con'[d].x = 0
                      /\ \/ ~NotHalted'
                         \/ Wrapping("tty", d)' /\ d # 0
    BY DEF Lines
  <2>1. con'[d].x = 0 /\ Wrapping("tty", d)'
    BY <1>1, <1>6, <1>8 DEF Wrapping, g
  <2>2. CASE d # 0
    BY <2>1, <2>2
  <2>3. CASE d = 0
    <3>1. h.pc = "halt"
      BY <1>1, <1>3, <1>4, <2>3
    <3> QED BY <1>5, <2>1, <3>1 DEF NotHalted
  <2> QED BY <2>2, <2>3
<1>11. Overtaken'
  BY <1>6 DEF Overtaken, Active, g
<1>12. "wrap" \notin hit' => NotHalted'
  <2> SUFFICES ASSUME "wrap" \notin hit' PROVE NotHalted'
    OBVIOUS
  <2>1. ~Wrapping("tty", 0)
    BY <1>6 DEF Wrapping, Active, Spoilers
  <2>2. h.pc = "place" /\ g.pc # "halt"
    BY <1>2, <1>4, <1>6, <1>9, <2>1 DEF NotHalted
  <2> QED BY <1>5, <2>2 DEF NotHalted, g
<1>13. \A d \in Consoles : Safe(d)' => WindowInConsole(d)'
  BY <1>1, <1>6 DEF CInv, Safe, WindowInConsole
<1>14. Knows("printx", thread["printx"], con[thread["printx"].con])'
  <2>1. Fits(h, k) /\ WindowFits(h, k) /\ h.pc \notin {"cursor", "start", "crtc"}
    BY <1>3, <1>4 DEF Fits, WindowFits
  <2>2. thread'["printx"] = h /\ con'[h.con] = k
    BY <1>1, <1>4, <1>5
  <2> QED BY <2>1, <2>2 DEF Knows, RegistersFit
<1>15. Knows("tty", thread["tty"], con[thread["tty"].con])'
  <2> DEFINE m == con[r.con]
  <2>1. Knows("tty", r, m)
    BY DEF CInv
  <2>2. Fits(g, m)
    <3>1. CASE g = r
      BY <2>1, <3>1 DEF Knows
    <3>2. CASE g = [r EXCEPT !.clean = FALSE]
      <4>1. /\ g.pc = r.pc /\ g.ch = r.ch /\ g.dir = r.dir /\ g.then = r.then /\ g.y = r.y /\ g.x = r.x
            /\ g.clean = FALSE
        BY <3>2 DEF CInv, ConType, ThreadRecord
      <4> QED BY <2>1, <4>1 DEF Knows, Fits, AtOrig
    <3> QED BY <1>6, <3>1, <3>2
  <2>3. /\ g.pc = r.pc /\ g.con = r.con /\ g.dir = r.dir /\ g.y = r.y /\ g.x = r.x /\ g.top = r.top
    <3>1. r \in ThreadRecord
      BY DEF CInv, ConType
    <3> QED BY <1>6, <3>1 DEF ThreadRecord
  <2>4. g.con # 0 \/ hit' \intersect {"test", "retest", "load"} = {} => WindowFits(g, m)
    BY <1>6, <2>1, <2>3 DEF Knows, Safe, WindowFits
  <2>5. g.pc \in {"cursor", "start", "crtc"} => g.con = current_console
    BY <2>1, <2>3 DEF Knows
  <2>6. g.pc = "cursor" /\ (g.con # 0 \/ "cursor" \notin hit') => g.y = m.y /\ g.x = m.x
    BY <1>6, <2>1, <2>3 DEF Knows, Alone
  <2>7. g.con # 0 => RegistersFit(g, m, crtc)
    BY <2>1, <2>3 DEF Knows, RegistersFit
  <2>8. thread'["tty"] = g /\ con'[g.con] = m /\ Active("printx")'
    BY <1>1, <1>4, <1>5, <2>3 DEF g, Active
  <2> HIDE DEF m, r
  <2> QED BY <1>1, <2>2, <2>4, <2>5, <2>6, <2>7, <2>8 DEF Knows, Safe, Alone, RegistersFit
<1>16. \A u \in Threads : Knows(u, thread[u], con[thread[u].con])'
  BY <1>14, <1>15
<1>17. Shows' => \/ crtc' = Shown(current_console)'
                 \/ \E u \in Threads : Active(u)' /\ thread'[u].con = current_console'
  <2> SUFFICES ASSUME Shows' PROVE \/ crtc' = Shown(current_console)'
                                   \/ \E u \in Threads : Active(u)' /\ thread'[u].con = current_console'
    OBVIOUS
  <2>1. Shows
    BY <1>6 DEF Shows
  <2>2. CASE crtc = Shown(current_console)
    BY <1>1, <2>2 DEF Shown, Registers
  <2>3. CASE \E u \in Threads : Active(u) /\ thread[u].con = current_console
    <3>1. Active("tty") /\ r.con = current_console
      BY <1>2, <2>3, RestIs DEF Active
    <3>2. Active("tty")' /\ thread'["tty"].con = current_console'
      BY <1>1, <1>6, <3>1 DEF Active, g
    <3> QED BY <3>2
  <2> QED BY <2>1, <2>2, <2>3 DEF CInv
<1>18. WritesStayInConsole'
  BY <1>1 DEF WritesStayInConsole
<1> QED BY <1>7, <1>10, <1>11, <1>12, <1>13, <1>16, <1>17, <1>18 DEF CInv

LEMMA StutterKeeps == ASSUME CInv, UNCHANGED convars PROVE CInv'
BY DEF CInv, convars, ConType, Lines, Overtaken, NotHalted, Active, Wrapping, Safe, Shows,
       WindowInConsole, Knows, Fits, WindowFits, RegistersFit, Alone, Shown, Registers,
       WritesStayInConsole, Runs

\* Every step keeps the invariant.
LEMMA NextKeeps == CInv /\ [ConNext]_convars => CInv'
<1> SUFFICES ASSUME CInv, [ConNext]_convars PROVE CInv'
  OBVIOUS
<1>1. CASE \E t \in Threads : out_char(t)
  BY <1>1, PlaceKeeps, MoveKeeps, WrapKeeps, WipeKeeps, FullKeeps, ReadCursorKeeps, CompareKeeps,
     ClearKeeps DEF out_char
<1>2. CASE \E t \in Threads : scroll_screen(t)
  BY <1>2, LocalsKeep, TestKeeps, RetestKeeps, SideKeeps, LoadKeeps, StoreKeeps DEF scroll_screen
<1>3. CASE \E t \in Threads : flush(t)
  BY <1>3, FlushKeeps, CursorKeeps, FlushStartKeeps, VideoStartKeeps DEF flush
<1>4. ASSUME NEW t \in Threads, NEW c \in Printed, NEW ch \in Chars, Begin(t, c, ch) PROVE CInv'
  <2>1. c \in Consoles
    BY ConsoleAssumption DEF Consoles
  <2> QED BY <1>4, <2>1, TtyBeginKeeps, PrintxBeginKeeps, ConsoleIndices
<1>5. CASE \E c \in Consoles : Select(c) \/ \E dir \in {"up", "down"} : ScrollKey(c, dir)
  BY <1>5, SelectKeeps, ScrollKeyKeeps
<1>6. CASE UNCHANGED convars
  BY <1>6, StutterKeeps
<1> QED BY <1>1, <1>2, <1>3, <1>4, <1>5, <1>6 DEF ConNext, Step

\* Types, and what a thread knows of its console at every place of out_char,
\* scroll_screen and flush, whatever printx comes inside.
THEOREM CInvHolds == ConSpec => []CInv
BY InitEstablishes, NextKeeps, PTL DEF ConSpec

\* The window leaves console 0, an assertion fails and the registers go stale
\* only where a printx came at a Spoiler, see ScreenShowsCurrent of Console.
THEOREM ScreenCorrect == ConSpec => []ScreenShowsCurrent
<1>1. CInv => ScreenShowsCurrent
  <2> SUFFICES ASSUME CInv PROVE ScreenShowsCurrent
    OBVIOUS
  <2>1. \A c \in Consoles : c # 0 \/ hit \intersect {"test", "retest", "load"} = {}
                              => WindowInConsole(c)
    BY DEF CInv, Safe
  <2>2. "wrap" \notin hit => \A t \in Threads : thread[t].pc # "halt"
    BY DEF CInv, NotHalted
  <2>3. Free /\ hit \intersect {"cursor", "crtc"} = {} => crtc = Shown(current_console)
    <3>1. Free => \A t \in Threads : ~Active(t)
      BY RestIs DEF Free, Active
    <3> QED BY <3>1 DEF CInv, Shows
  <2> QED BY <2>1, <2>2, <2>3 DEF ScreenShowsCurrent
<1> QED BY <1>1, CInvHolds, PTL

\* out_char writes cells of its own console only, if it began with the cursor in
\* the window and no printx came inside.
THEOREM WritesCorrect == ConSpec => []WritesStayInConsole
<1>1. CInv => WritesStayInConsole
  BY DEF CInv
<1> QED BY <1>1, CInvHolds, PTL

-----------------------------------------------------------------------------
(* The codes on their way to keyboard_read.                                *)

\* What the keyboard sends in one piece: the codes of a key, and an
\* acknowledgement.
Groups ==
  ({MakeCodes(k) : k \in AllKeys} \union {BreakCodes(k) : k \in AllKeys} \union {<<ACK>>}) \ {<<>>}

\* The codes keyboard_read has not made a key of yet, oldest first.
Codes == rd.got \o (kb_in \o wire)

\* s has group g after its first b codes.
GroupAt(s, b, g) == b + Len(g) <= Len(s) /\ \A i \in 1 .. Len(g) : s[b + i] = g[i]

\* s is made of whole groups, which end at the places B.
Whole(s, B) ==
  /\ 0 \in B
  /\ \A b \in B : b # Len(s) => \E g \in Groups : GroupAt(s, b, g) /\ b + Len(g) \in B

Parses(s) == \E B \in SUBSET (0 .. Len(s)) : Whole(s, B)

\* Unless a code was dropped, the codes are whole groups, and keyboard_read,
\* which begins with each group anew, has read a part of the first.
KeysWhole ==
  /\ rd = [busy |-> rd.busy, tty |-> rd.tty, got |-> rd.got, key |-> rd.key, make |-> rd.make]
  /\ rd.got \in Seq(Nat) /\ kb_in \in Seq(Nat) /\ wire \in Seq(Nat)
  /\ rd.busy \in BOOLEAN /\ (~rd.busy => rd.got = <<>>) /\ (rd.got # <<>> => More(rd.got))
  /\ Len(kb_in) <= KB_IN_BYTES
  /\ "dropped" \notin spoiled => Parses(Codes)

-----------------------------------------------------------------------------

Begins(s, q) == Len(s) < Len(q) /\ \A i \in 1 .. Len(s) : s[i] = q[i]

LEMMA StrictPrefixes ==
  ASSUME NEW s \in Seq(Nat), NEW q \in Seq(Nat)
  PROVE  IsStrictPrefix(s, q) <=> Begins(s, q)
<1>1. IsPrefix(s, q) <=> Len(s) <= Len(q) /\ \A i \in 1 .. Len(s) : s[i] = q[i]
  BY DEF IsPrefix
<1>2. IsPrefix(s, q) /\ Len(s) = Len(q) => s = q
  BY <1>1
<1> QED BY <1>1, <1>2 DEF IsStrictPrefix, Begins

\* The three codes that keyboard_read knows as a whole.
LEMMA PauseIs ==
  /\ PauseCodes \in Seq(Nat) /\ PauseCodes # <<>>
  /\ Len(PauseCodes) >= 6 /\ Len(PauseCodes) < 7 /\ PauseCodes[1] = 225
BY DEF PauseCodes, E0, E1

LEMMA PrintMakeIs ==
  /\ PrintMake \in Seq(Nat) /\ PrintMake # <<>>
  /\ Len(PrintMake) >= 4 /\ Len(PrintMake) < 5 /\ PrintMake[1] = 224 /\ PrintMake[2] = 42
BY DEF PrintMake, E0

LEMMA PrintBreakIs ==
  /\ PrintBreak \in Seq(Nat) /\ PrintBreak # <<>>
  /\ Len(PrintBreak) >= 4 /\ Len(PrintBreak) < 5 /\ PrintBreak[1] = 224 /\ PrintBreak[2] = 183
BY DEF PrintBreak, E0

LEMMA NotEmpty ==
  ASSUME NEW s \in Seq(Nat)
  PROVE  Len(s) \in Nat /\ (s # <<>> <=> Len(s) >= 1)
<1>1. Len(s) \in Nat /\ (s = <<>> => Len(s) = 0)
  OBVIOUS
<1>2. Len(s) = 0 => s = <<>>
  OBVIOUS
<1> QED BY <1>1, <1>2

LEMMA Joined ==
  ASSUME NEW s \in Seq(Nat), NEW t \in Seq(Nat)
  PROVE  /\ s \o t \in Seq(Nat) /\ Len(s \o t) = Len(s) + Len(t)
         /\ Len(s) \in Nat /\ Len(t) \in Nat
         /\ \A i \in 1 .. Len(s) : (s \o t)[i] = s[i]
         /\ \A i \in 1 .. Len(t) : (s \o t)[Len(s) + i] = t[i]
OBVIOUS

LEMMA MoreBegins ==
  ASSUME NEW s \in Seq(Nat)
  PROVE  More(s) <=> Begins(s, PauseCodes) \/ Begins(s, PrintMake) \/ Begins(s, PrintBreak)
BY StrictPrefixes, PauseIs, PrintMakeIs, PrintBreakIs DEF More

\* What it is after the first codes of a key that is not complete.
LEMMA MoreSays ==
  ASSUME NEW s \in Seq(Nat), s # <<>>, More(s)
  PROVE  /\ s[1] = 224 \/ s[1] = 225
         /\ s[1] = 225 => Len(s) < 6
         /\ s[1] = 224 => Len(s) < 4
         /\ s[1] = 224 /\ Len(s) >= 2 => s[2] \in {42, 183}
<1>1. Len(s) \in Nat /\ 1 \in 1 .. Len(s) /\ (Len(s) >= 2 => 2 \in 1 .. Len(s))
  OBVIOUS
<1>2. CASE Begins(s, PauseCodes)
  <2>1. Len(s) < Len(PauseCodes) /\ s[1] = PauseCodes[1]
    BY <1>1, <1>2 DEF Begins
  <2> QED BY <1>1, <2>1, PauseIs
<1>3. CASE Begins(s, PrintMake)
  <2>1. Len(s) < Len(PrintMake) /\ s[1] = PrintMake[1] /\ (Len(s) >= 2 => s[2] = PrintMake[2])
    BY <1>1, <1>3 DEF Begins
  <2> QED BY <1>1, <2>1, PrintMakeIs
<1>4. CASE Begins(s, PrintBreak)
  <2>1. Len(s) < Len(PrintBreak) /\ s[1] = PrintBreak[1] /\ (Len(s) >= 2 => s[2] = PrintBreak[2])
    BY <1>1, <1>4 DEF Begins
  <2> QED BY <1>1, <2>1, PrintBreakIs
<1> QED BY <1>2, <1>3, <1>4, MoreBegins

\* What tells no key yet told none before.
LEMMA BeginningMore ==
  ASSUME NEW s \in Seq(Nat), NEW t \in Seq(Nat), More(s),
         Len(t) <= Len(s), \A i \in 1 .. Len(t) : t[i] = s[i]
  PROVE  More(t)
<1>1. PICK q \in {PauseCodes, PrintMake, PrintBreak} : Begins(s, q)
  BY MoreBegins
<1>2. q \in Seq(Nat)
  BY PauseIs, PrintMakeIs, PrintBreakIs
<1>3. Len(t) < Len(q)
  BY <1>1, <1>2 DEF Begins
<1>4. \A i \in 1 .. Len(t) : t[i] = q[i]
  BY <1>1 DEF Begins
<1>5. Begins(t, q)
  BY <1>3, <1>4 DEF Begins
<1> QED BY <1>5, MoreBegins

\* g ends exactly where keyboard_read sees that it is complete.
EndsInTime(g) ==
  /\ g \in Seq(Nat) /\ g # <<>> /\ ~More(g)
  /\ \A t \in Seq(Nat) : t # <<>> /\ Begins(t, g) => More(t)

LEMMA OneCode ==
  ASSUME NEW g \in Seq(Nat), g # <<>>, Len(g) < 2, g[1] # 224, g[1] # 225
  PROVE  EndsInTime(g)
<1>1. ~More(g)
  BY MoreSays
<1>2. \A t \in Seq(Nat) : ~(t # <<>> /\ Begins(t, g))
  BY NotEmpty DEF Begins
<1> QED BY <1>1, <1>2 DEF EndsInTime

LEMMA TwoCodes ==
  ASSUME NEW g \in Seq(Nat), Len(g) >= 2, Len(g) < 3, g[1] = 224, g[2] # 42, g[2] # 183
  PROVE  EndsInTime(g)
<1>1. g # <<>>
  BY NotEmpty
<1>2. ~More(g)
  BY <1>1, MoreSays
<1>3. ASSUME NEW t \in Seq(Nat), t # <<>>, Begins(t, g) PROVE More(t)
  <2>1. Len(t) >= 1 /\ Len(t) < 2
    BY <1>3, NotEmpty DEF Begins
  <2>2. 1 \in 1 .. Len(t) /\ \A i \in 1 .. Len(t) : i = 1
    BY <2>1, NotEmpty
  <2>3. t[1] = 224
    BY <1>3, <2>2 DEF Begins
  <2>4. Begins(t, PrintMake)
    BY <2>1, <2>2, <2>3, PrintMakeIs DEF Begins
  <2> QED BY <2>4, MoreBegins
<1> QED BY <1>1, <1>2, <1>3 DEF EndsInTime

LEMMA SpecialEnds ==
  ASSUME NEW q \in {PauseCodes, PrintMake, PrintBreak}
  PROVE  EndsInTime(q)
<1>1. q \in Seq(Nat) /\ q # <<>>
  BY PauseIs, PrintMakeIs, PrintBreakIs
<1>2. ~More(q)
  <2>1. ~More(PauseCodes)
    BY PauseIs, MoreSays, NotEmpty
  <2>2. ~More(PrintMake)
    BY PrintMakeIs, MoreSays, NotEmpty
  <2>3. ~More(PrintBreak)
    BY PrintBreakIs, MoreSays, NotEmpty
  <2> QED BY <2>1, <2>2, <2>3
<1>3. \A t \in Seq(Nat) : Begins(t, q) => More(t)
  BY MoreBegins
<1> QED BY <1>1, <1>2, <1>3 DEF EndsInTime

LEMMA Rows ==
  /\ keymap[30] = <<"a", "A", NONE>> /\ keymap[28] = <<"ENTER", "ENTER", "PAD_ENTER">>
  /\ keymap[42] = <<"SHIFT_L", "SHIFT_L", NONE>> /\ keymap[56] = <<"ALT_L", "ALT_L", "ALT_R">>
  /\ keymap[58] = <<"CAPS_LOCK", "CAPS_LOCK", NONE>>
  /\ keymap[69] = <<"NUM_LOCK", "NUM_LOCK", NONE>>
  /\ keymap[60] = <<"F2", "F2", NONE>> /\ keymap[71] = <<"PAD_7", "7", "HOME">>
  /\ keymap[72] = <<"PAD_8", "8", "UP">> /\ keymap[122] = <<NONE, NONE, NONE>>
BY DEF keymap

LEMMA OneRow ==
  ASSUME NEW r \in 0 .. 127
  PROVE  /\ keymap[r][1] = "a" => r = 30
         /\ keymap[r][1] = "ENTER" => r = 28
         /\ keymap[r][1] = "SHIFT_L" => r = 42
         /\ keymap[r][1] = "ALT_L" => r = 56
         /\ keymap[r][1] = "CAPS_LOCK" => r = 58
         /\ keymap[r][1] = "NUM_LOCK" => r = 69
         /\ keymap[r][1] = "F2" => r = 60
         /\ keymap[r][1] = "PAD_7" => r = 71
<1>1. CASE r \in {30, 28, 42, 56, 58, 69, 60, 71, 72}
  BY <1>1, Rows
<1>2. CASE r \notin {30, 28, 42, 56, 58, 69, 60, 71, 72}
  <2>1. keymap[r] = <<NONE, NONE, NONE>>
    BY <1>2 DEF keymap
  <2> QED BY <2>1 DEF NONE
<1> QED BY <1>1, <1>2

\* The row of a key of one code.
KeyRow == [k \in {"a", "ENTER", "SHIFT_L", "ALT_L", "CAPS_LOCK", "NUM_LOCK", "F2", "PAD_7"} |->
  CASE k = "a" -> 30 [] k = "ENTER" -> 28 [] k = "SHIFT_L" -> 42 [] k = "ALT_L" -> 56
    [] k = "CAPS_LOCK" -> 58 [] k = "NUM_LOCK" -> 69 [] k = "F2" -> 60 [] k = "PAD_7" -> 71]

LEMMA OneCodeSent ==
  ASSUME NEW k \in {"a", "ENTER", "SHIFT_L", "ALT_L", "CAPS_LOCK", "NUM_LOCK", "F2", "PAD_7"}
  PROVE  /\ MakeCodes(k) = <<KeyRow[k]>> /\ BreakCodes(k) = <<KeyRow[k] + 128>>
         /\ KeyRow[k] \in 0 .. 127 /\ KeyRow[k] # 96 /\ KeyRow[k] # 97
<1> DEFINE row == CHOOSE r \in 0 .. 127 : keymap[r][1] = k
<1>1. KeyRow[k] \in 0 .. 127 /\ keymap[KeyRow[k]][1] = k /\ KeyRow[k] # 96 /\ KeyRow[k] # 97
  BY Rows DEF KeyRow
<1>2. row \in 0 .. 127 /\ keymap[row][1] = k
  BY <1>1
<1>3. MakeCodes(k) = <<row>>
  BY DEF MakeCodes
<1> HIDE DEF row
<1>4. row = KeyRow[k]
  BY <1>2, OneRow DEF KeyRow
<1>5. BreakCodes(k) = <<row + 128>>
  <2>1. BreakCodes(k) = Front(<<row>>) \o <<Last(<<row>>) + 128>>
    BY <1>3 DEF BreakCodes, FLAG_BREAK
  <2>2. Front(<<row>>) = <<>> /\ Last(<<row>>) = row
    BY DEF Front, Last
  <2>3. <<>> \o <<row + 128>> = <<row + 128>>
    OBVIOUS
  <2> QED BY <2>1, <2>2, <2>3, Zenon
<1> QED BY <1>1, <1>3, <1>4, <1>5

LEMMA TwoCodesJoined ==
  ASSUME NEW a \in Nat, NEW b \in Nat
  PROVE  Front(<<a, b>>) \o <<Last(<<a, b>>) + 128>> = <<a, b + 128>>
<1>0. PICK c \in Nat : c = b + 128
  OBVIOUS
<1> DEFINE s == <<a, b>>
           t == <<a, c>>
           f == Front(s)
           g == <<c>>
           u == f \o g
<1>1. s \in Seq(Nat) /\ Len(s) = 2 /\ s[1] = a /\ s[2] = b
  OBVIOUS
<1>2. t \in Seq(Nat) /\ Len(t) = 2 /\ t[1] = a /\ t[2] = c
  OBVIOUS
<1>3. g \in Seq(Nat) /\ Len(g) = 1 /\ g[1] = c
  OBVIOUS
<1> HIDE DEF s, t, g
<1>4. f \in Seq(Nat) /\ Len(f) = 1 /\ f[1] = a /\ Last(s) = b
  BY <1>1 DEF Front, Last
<1> HIDE DEF f
<1>5. u \in Seq(Nat) /\ Len(u) = 2 /\ u[1] = a /\ u[2] = c
  <2>1. /\ f \o g \in Seq(Nat) /\ Len(f \o g) = Len(f) + Len(g)
        /\ \A i \in 1 .. Len(f) : (f \o g)[i] = f[i]
        /\ \A i \in 1 .. Len(g) : (f \o g)[Len(f) + i] = g[i]
    BY <1>3, <1>4, Joined
  <2>2. u \in Seq(Nat) /\ Len(u) = 2
    BY <1>3, <1>4, <2>1
  <2>3. u[1] = a
    BY <1>4, <2>1
  <2>4. (f \o g)[Len(f) + 1] = g[1] /\ Len(f) + 1 = 2
    BY <1>3, <1>4, <2>1
  <2> QED BY <1>3, <2>2, <2>3, <2>4
<1> HIDE DEF u
<1>6. u = t
  <2>1. \A i \in 1 .. Len(u) : u[i] = t[i]
    BY <1>2, <1>5
  <2> QED BY <1>2, <1>5, <2>1, SeqEqual
<1>7. Last(s) + 128 = c
  BY <1>0, <1>4
<1>8. Front(s) \o <<Last(s) + 128>> = <<a, c>>
  BY <1>6, <1>7, Zenon DEF t, u, f, g
<1> QED BY <1>0, <1>8, Zenon DEF s

LEMMA TwoCodesSent ==
  ASSUME NEW k \in {"UP", "ALT_R"}, NEW c \in {72, 56}, c = IF k = "UP" THEN 72 ELSE 56
  PROVE  MakeCodes(k) = <<224, c>> /\ BreakCodes(k) = <<224, c + 128>>
<1>1. MakeCodes(k) = <<224, c>>
  BY DEF MakeCodes, E0
<1>2. BreakCodes(k) = Front(<<224, c>>) \o <<Last(<<224, c>>) + 128>>
  BY <1>1 DEF BreakCodes, FLAG_BREAK
<1>3. PICK e \in Nat : e = 224
  OBVIOUS
<1>4. c \in Nat
  OBVIOUS
<1>5. Front(<<e, c>>) \o <<Last(<<e, c>>) + 128>> = <<e, c + 128>>
  BY <1>4, TwoCodesJoined, ZenonT(30)
<1>6. BreakCodes(k) = Front(<<e, c>>) \o <<Last(<<e, c>>) + 128>>
  BY <1>2, <1>3, Zenon
<1>7. BreakCodes(k) = <<e, c + 128>>
  BY <1>5, <1>6, Zenon
<1> QED BY <1>1, <1>3, <1>7

LEMMA OneCodeKeys ==
  ASSUME NEW k \in {"a", "ENTER", "SHIFT_L", "ALT_L", "CAPS_LOCK", "NUM_LOCK", "F2", "PAD_7"}
  PROVE  EndsInTime(MakeCodes(k)) /\ EndsInTime(BreakCodes(k))
<1>1. PICK row \in 0 .. 127 :
        MakeCodes(k) = <<row>> /\ BreakCodes(k) = <<row + 128>> /\ row # 96 /\ row # 97
  BY OneCodeSent
<1>2. EndsInTime(<<row>>)
  <2> DEFINE g == <<row>>
  <2>1. g \in Seq(Nat) /\ g # <<>> /\ Len(g) < 2 /\ g[1] = row
    OBVIOUS
  <2> HIDE DEF g
  <2>2. EndsInTime(g)
    BY <2>1, OneCode
  <2> QED BY <2>2 DEF g
<1>3. EndsInTime(<<row + 128>>)
  <2> DEFINE g == <<row + 128>>
  <2>1. g \in Seq(Nat) /\ g # <<>> /\ Len(g) < 2 /\ g[1] = row + 128
    OBVIOUS
  <2> HIDE DEF g
  <2>2. EndsInTime(g)
    BY <1>1, <2>1, OneCode
  <2> QED BY <2>2 DEF g
<1> QED BY <1>1, <1>2, <1>3

LEMMA TwoCodeKeys ==
  ASSUME NEW k \in {"UP", "ALT_R"}
  PROVE  EndsInTime(MakeCodes(k)) /\ EndsInTime(BreakCodes(k))
<1>1. PICK c \in {72, 56} : MakeCodes(k) = <<224, c>> /\ BreakCodes(k) = <<224, c + 128>>
  BY TwoCodesSent
<1>2. ASSUME NEW d \in Nat, d # 42, d # 183 PROVE EndsInTime(<<224, d>>)
  <2> DEFINE g == <<224, d>>
  <2>1. g \in Seq(Nat) /\ Len(g) >= 2 /\ Len(g) < 3 /\ g[1] = 224 /\ g[2] = d
    OBVIOUS
  <2> HIDE DEF g
  <2>2. EndsInTime(g)
    BY <1>2, <2>1, TwoCodes
  <2> QED BY <2>2 DEF g
<1>3. EndsInTime(<<224, c>>) /\ EndsInTime(<<224, c + 128>>)
  BY <1>2
<1> QED BY <1>1, <1>3

\* Every piece that the keyboard sends ends where keyboard_read sees it end.
LEMMA GroupsEnd ==
  ASSUME NEW g \in Groups
  PROVE  EndsInTime(g)
<1>1. CASE g = <<ACK>>
  <2>1. g \in Seq(Nat) /\ g # <<>> /\ Len(g) < 2 /\ g[1] = 250
    BY <1>1 DEF ACK
  <2> QED BY <2>1, OneCode
<1>2. CASE \E k \in AllKeys : g = MakeCodes(k) \/ g = BreakCodes(k)
  <2>1. PICK k \in AllKeys : g = MakeCodes(k) \/ g = BreakCodes(k)
    BY <1>2
  <2>2. CASE k = "PAUSEBREAK"
    <3>1. g = PauseCodes
      BY <2>1, <2>2 DEF Groups, MakeCodes, BreakCodes
    <3> QED BY <3>1, SpecialEnds
  <2>3. CASE k = "PRINTSCREEN"
    <3>1. g = PrintMake \/ g = PrintBreak
      BY <2>1, <2>3 DEF MakeCodes, BreakCodes
    <3> QED BY <3>1, SpecialEnds
  <2> QED BY <2>1, <2>2, <2>3, OneCodeKeys, TwoCodeKeys DEF AllKeys
<1> QED BY <1>1, <1>2 DEF Groups

-----------------------------------------------------------------------------
(* Codes that are whole groups.                                            *)

LEMMA JoinedTwice ==
  ASSUME NEW s \in Seq(Nat), NEW t \in Seq(Nat), NEW u \in Seq(Nat)
  PROVE  (s \o t) \o u = s \o (t \o u)
BY ConcatAssociative, SMTT(30)

\* The codes are the same when one moves on.
LEMMA OneMovesOn ==
  ASSUME NEW t \in Seq(Nat), NEW u \in Seq(Nat), NEW c \in Nat
  PROVE  Append(t, c) \o u = t \o (<<c>> \o u)
<1>1. <<c>> \in Seq(Nat)
  OBVIOUS
<1>2. Append(t, c) = t \o <<c>>
  BY AppendIsConcat
<1>3. (t \o <<c>>) \o u = t \o (<<c>> \o u)
  BY <1>1, ConcatAssociative
<1> QED BY <1>2, <1>3, Zenon

LEMMA OneAppended ==
  ASSUME NEW t \in Seq(Nat), NEW c \in Nat
  PROVE  Append(t, c) \in Seq(Nat) /\ Len(Append(t, c)) = Len(t) + 1 /\ Append(t, c) # <<>>
BY AppendProperties

LEMMA HeadAndTail ==
  ASSUME NEW s \in Seq(Nat), s # <<>>
  PROVE  Head(s) \in Nat /\ Tail(s) \in Seq(Nat) /\ s = <<Head(s)>> \o Tail(s)
         /\ Len(Tail(s)) = Len(s) - 1
OBVIOUS

\* A group stays where it is when codes follow.
LEMMA GroupStays ==
  ASSUME NEW s \in Seq(Nat), NEW t \in Seq(Nat), NEW h \in Seq(Nat), NEW b \in Nat,
         GroupAt(s, b, h)
  PROVE  GroupAt(s \o t, b, h)
<1> DEFINE w == s \o t
<1>1. Len(w) = Len(s) + Len(t) /\ \A i \in 1 .. Len(s) : w[i] = s[i]
  BY Joined
<1>2. Len(s) \in Nat /\ Len(t) \in Nat /\ Len(h) \in Nat
  OBVIOUS
<1> HIDE DEF w
<1>3. ASSUME NEW i \in 1 .. Len(h) PROVE w[b + i] = h[i]
  <2>1. s[b + i] = h[i] /\ b + Len(h) <= Len(s)
    BY DEF GroupAt
  <2>2. b + i \in 1 .. Len(s)
    BY <1>2, <2>1
  <2> QED BY <1>1, <2>1, <2>2
<1>4. b + Len(h) <= Len(w)
  BY <1>1, <1>2 DEF GroupAt
<1> QED BY <1>3, <1>4 DEF GroupAt, w

\* The group keyboard_read is in has not ended before the codes it has read.
LEMMA NotEndedBefore ==
  ASSUME NEW t \in Seq(Nat), NEW u \in Seq(Nat), More(t),
         NEW g \in Groups, GroupAt(t \o u, 0, g)
  PROVE  Len(g) > Len(t)
<1>1. EndsInTime(g)
  BY GroupsEnd
<1>2. SUFFICES ASSUME Len(g) <= Len(t) PROVE FALSE
  BY <1>1 DEF EndsInTime
<1>3. \A i \in 1 .. Len(g) : g[i] = t[i]
  <2> TAKE i \in 1 .. Len(g)
  <2>1. i \in 1 .. Len(t)
    BY <1>1, <1>2 DEF EndsInTime
  <2>2. (t \o u)[i] = t[i]
    BY <2>1
  <2>3. (t \o u)[0 + i] = g[i] /\ 0 + i = i
    BY <1>1, <1>2 DEF GroupAt
  <2> QED BY <2>2, <2>3
<1>4. More(g)
  BY <1>1, <1>2, <1>3, BeginningMore DEF EndsInTime
<1> QED BY <1>1, <1>4 DEF EndsInTime

\* The group that begins with the codes read is the codes read, when they are
\* more than the beginning of a key.
LEMMA GroupIsRead ==
  ASSUME NEW t \in Seq(Nat), NEW c \in Nat, NEW u \in Seq(Nat),
         t # <<>> => More(t), ~More(Append(t, c)),
         NEW g \in Groups, GroupAt(Append(t, c) \o u, 0, g)
  PROVE  g = Append(t, c)
<1> DEFINE s == Append(t, c)
           w == s \o u
<1>1. /\ s \in Seq(Nat) /\ w \in Seq(Nat) /\ Len(s) = Len(t) + 1 /\ Len(w) = Len(s) + Len(u)
      /\ Len(t) \in Nat /\ Len(u) \in Nat /\ s # <<>>
      /\ \A i \in 1 .. Len(s) : w[i] = s[i]
  <2>1. s \in Seq(Nat) /\ Len(s) = Len(t) + 1 /\ s # <<>>
    BY OneAppended
  <2> HIDE DEF s
  <2> QED BY <2>1, Joined
<1>2. w = t \o (<<c>> \o u) /\ <<c>> \o u \in Seq(Nat)
  <2>1. <<c>> \o u \in Seq(Nat)
    OBVIOUS
  <2> QED BY <2>1, OneMovesOn
<1>3. ~More(s) /\ GroupAt(w, 0, g)
  OBVIOUS
<1> HIDE DEF s, w
<1>4. EndsInTime(g)
  BY GroupsEnd
<1>5. Len(g) > Len(t)
  <2>1. CASE t # <<>>
    BY <1>2, <1>3, <2>1, NotEndedBefore
  <2>2. CASE t = <<>>
    <3>1. g \in Seq(Nat) /\ g # <<>>
      BY <1>4 DEF EndsInTime
    <3>2. Len(g) >= 1
      BY <3>1, NotEmpty
    <3>3. Len(t) = 0
      BY <2>2
    <3> QED BY <3>2, <3>3
  <2> QED BY <2>1, <2>2
<1>6. \A i \in 1 .. Len(g) : w[i] = g[i]
  <2> TAKE i \in 1 .. Len(g)
  <2>1. w[0 + i] = g[i] /\ 0 + i = i
    BY <1>3, <1>4 DEF GroupAt, EndsInTime
  <2> QED BY <2>1
<1>7. ~(Len(g) > Len(s))
  <2> SUFFICES ASSUME Len(g) > Len(s) PROVE FALSE
    OBVIOUS
  <2>1. \A i \in 1 .. Len(s) : s[i] = g[i]
    <3> TAKE i \in 1 .. Len(s)
    <3>1. i \in 1 .. Len(g)
      BY <1>1, <1>4 DEF EndsInTime
    <3> QED BY <1>1, <1>6, <3>1
  <2>2. Begins(s, g)
    BY <2>1 DEF Begins
  <2> QED BY <1>1, <1>3, <1>4, <2>2 DEF EndsInTime
<1>8. Len(g) = Len(s) /\ g \in Seq(Nat)
  BY <1>1, <1>4, <1>5, <1>7 DEF EndsInTime
<1>9. \A i \in 1 .. Len(g) : g[i] = s[i]
  BY <1>1, <1>6, <1>8
<1>10. g = s
  BY <1>1, <1>8, <1>9, SeqEqual
<1> QED BY <1>10 DEF s

\* When the codes read are more than the beginning of a key, a group ends with them.
LEMMA GroupRead ==
  ASSUME NEW t \in Seq(Nat), NEW c \in Nat, NEW u \in Seq(Nat),
         t # <<>> => More(t), ~More(Append(t, c)),
         NEW B \in SUBSET (0 .. Len(Append(t, c) \o u)), Whole(Append(t, c) \o u, B)
  PROVE  Len(t) + 1 \in B
<1> DEFINE s == Append(t, c)
           w == s \o u
<1>1. s \in Seq(Nat) /\ Len(s) = Len(t) + 1 /\ Len(t) \in Nat
  BY OneAppended
<1>2. 0 # Len(w)
  <2> HIDE DEF s
  <2> QED BY <1>1, Joined
<1>3. PICK g \in Groups : GroupAt(w, 0, g) /\ 0 + Len(g) \in B
  BY <1>2 DEF Whole
<1>4. g = s
  BY <1>3, GroupIsRead
<1> HIDE DEF s, w
<1> QED BY <1>1, <1>3, <1>4

\* The codes of one more key.
LEMMA GroupAppended ==
  ASSUME NEW s \in Seq(Nat), NEW g \in Groups,
         NEW B \in SUBSET (0 .. Len(s)), Whole(s, B)
  PROVE  Whole(s \o g, B \union {Len(s) + Len(g)})
<1> DEFINE w == s \o g
           C == B \union {Len(s) + Len(g)}
<1>0. g \in Seq(Nat)
  BY GroupsEnd DEF EndsInTime
<1>1. /\ w \in Seq(Nat) /\ Len(w) = Len(s) + Len(g) /\ Len(s) \in Nat /\ Len(g) \in Nat
      /\ \A i \in 1 .. Len(s) : w[i] = s[i]
      /\ \A i \in 1 .. Len(g) : w[Len(s) + i] = g[i]
  BY <1>0
<1> HIDE DEF w
<1>2. ASSUME NEW b \in B, b # Len(w)
      PROVE  \E h \in Groups : GroupAt(w, b, h) /\ b + Len(h) \in C
  <2>1. CASE b = Len(s)
    BY <1>1, <2>1 DEF GroupAt
  <2>2. CASE b # Len(s)
    <3>1. PICK h \in Groups : GroupAt(s, b, h) /\ b + Len(h) \in B
      BY <2>2 DEF Whole
    <3>2. h \in Seq(Nat) /\ b \in Nat
      BY GroupsEnd DEF EndsInTime
    <3>3. GroupAt(w, b, h)
      BY <1>0, <3>1, <3>2, GroupStays DEF w
    <3> QED BY <3>1, <3>3
  <2> QED BY <2>1, <2>2
<1>3. 0 \in C
  BY DEF Whole
<1>4. Whole(w, C)
  BY <1>1, <1>2, <1>3 DEF Whole
<1> QED BY <1>4 DEF w

\* The codes after a group.
LEMMA GroupTaken ==
  ASSUME NEW s \in Seq(Nat), NEW u \in Seq(Nat),
         NEW B \in SUBSET (0 .. Len(s \o u)), Whole(s \o u, B), Len(s) \in B
  PROVE  Whole(u, {b \in 0 .. Len(u) : Len(s) + b \in B})
<1> DEFINE w == s \o u
           C == {b \in 0 .. Len(u) : Len(s) + b \in B}
<1>1. /\ w \in Seq(Nat) /\ Len(w) = Len(s) + Len(u) /\ Len(s) \in Nat /\ Len(u) \in Nat
      /\ \A i \in 1 .. Len(u) : w[Len(s) + i] = u[i]
  OBVIOUS
<1>2. Whole(w, B)
  OBVIOUS
<1> HIDE DEF w
<1>3. 0 \in C
  BY <1>1
<1>4. ASSUME NEW b \in C, b # Len(u)
      PROVE  \E g \in Groups : GroupAt(u, b, g) /\ b + Len(g) \in C
  <2>1. b \in Nat /\ Len(s) + b \in B /\ Len(s) + b # Len(w)
    BY <1>1, <1>4
  <2>2. PICK g \in Groups : GroupAt(w, Len(s) + b, g) /\ (Len(s) + b) + Len(g) \in B
    BY <1>2, <2>1 DEF Whole
  <2>3. Len(g) \in Nat
    BY GroupsEnd DEF EndsInTime
  <2>4. b + Len(g) <= Len(u)
    BY <1>1, <2>1, <2>2, <2>3 DEF GroupAt
  <2>5. ASSUME NEW i \in 1 .. Len(g) PROVE u[b + i] = g[i]
    <3>3. i \in Nat /\ i >= 1 /\ i <= Len(g)
      BY <2>3
    <3>1. b + i \in 1 .. Len(u) /\ (Len(s) + b) + i = Len(s) + (b + i)
      BY <1>1, <2>1, <2>3, <2>4, <3>3
    <3>2. w[(Len(s) + b) + i] = g[i]
      BY <2>2 DEF GroupAt
    <3> QED BY <1>1, <3>1, <3>2
  <2>6. GroupAt(u, b, g)
    BY <2>4, <2>5 DEF GroupAt
  <2>7. b + Len(g) \in 0 .. Len(u) /\ Len(s) + (b + Len(g)) = (Len(s) + b) + Len(g)
    BY <1>1, <2>1, <2>3, <2>4
  <2> QED BY <2>2, <2>6, <2>7
<1> QED BY <1>3, <1>4 DEF Whole

Acks(n) == [i \in 1 .. n |-> ACK]

\* Acknowledgements are groups.
LEMMA AcksAppended ==
  ASSUME NEW s \in Seq(Nat), NEW n \in Nat,
         NEW B \in SUBSET (0 .. Len(s)), Whole(s, B)
  PROVE  Whole(s \o Acks(n), B \union (Len(s) .. Len(s) + n))
<1> DEFINE w == s \o Acks(n)
           C == B \union (Len(s) .. Len(s) + n)
           g == <<ACK>>
<1>1. Acks(n) \in Seq(Nat) /\ Len(Acks(n)) = n /\ \A i \in 1 .. n : Acks(n)[i] = 250
  BY DEF Acks, ACK
<1>2. /\ w \in Seq(Nat) /\ Len(w) = Len(s) + n /\ Len(s) \in Nat
      /\ \A i \in 1 .. Len(s) : w[i] = s[i]
      /\ \A i \in 1 .. n : w[Len(s) + i] = 250
  <2> DEFINE a == Acks(n)
  <2>1. a \in Seq(Nat) /\ n = Len(a) /\ \A i \in 1 .. n : a[i] = 250
    BY <1>1
  <2> HIDE DEF a
  <2>2. /\ s \o a \in Seq(Nat) /\ Len(s \o a) = Len(s) + Len(a) /\ Len(s) \in Nat
        /\ \A i \in 1 .. Len(s) : (s \o a)[i] = s[i]
        /\ \A i \in 1 .. Len(a) : (s \o a)[Len(s) + i] = a[i]
    BY <2>1, Joined
  <2>3. \A i \in 1 .. n : (s \o a)[Len(s) + i] = 250
    BY <2>1, <2>2
  <2> QED BY <2>1, <2>2, <2>3 DEF a
<1>3. g \in Groups /\ Len(g) = 1 /\ g[1] = 250
  BY DEF Groups, ACK
<1> HIDE DEF w, g
<1>4. ASSUME NEW b \in C, b # Len(w)
      PROVE  \E h \in Groups : GroupAt(w, b, h) /\ b + Len(h) \in C
  <2>1. CASE b \in B /\ b # Len(s)
    <3>1. PICK h \in Groups : GroupAt(s, b, h) /\ b + Len(h) \in B
      BY <2>1 DEF Whole
    <3>2. h \in Seq(Nat) /\ b \in Nat
      BY <2>1, GroupsEnd DEF EndsInTime
    <3>3. GroupAt(w, b, h)
      BY <1>1, <3>1, <3>2, GroupStays DEF w
    <3> QED BY <3>1, <3>3
  <2>2. CASE b \in Len(s) .. Len(s) + n
    <3>4. b \in Nat /\ Len(s) <= b /\ b < Len(s) + n
      BY <1>2, <1>4, <2>2
    <3>1. b + 1 <= Len(w) /\ b + 1 \in C
      BY <1>2, <3>4
    <3>2. w[b + 1] = 250
      <4>1. PICK j \in 1 .. n : Len(s) + j = b + 1
        <5>1. (b + 1) - Len(s) \in 1 .. n /\ Len(s) + ((b + 1) - Len(s)) = b + 1
          BY <1>2, <3>4
        <5> QED BY <5>1
      <4>2. w[Len(s) + j] = 250
        BY <1>2
      <4> QED BY <4>1, <4>2, Zenon
    <3>3. GroupAt(w, b, g)
      BY <1>3, <3>1, <3>2 DEF GroupAt
    <3> QED BY <1>3, <3>1, <3>3
  <2> QED BY <1>4, <2>1, <2>2, <1>2
<1>5. 0 \in C
  BY DEF Whole
<1>6. Whole(w, C)
  BY <1>4, <1>5 DEF Whole
<1> QED BY <1>6 DEF w

LEMMA ParsesMore ==
  ASSUME NEW s \in Seq(Nat), NEW g \in Groups \union {<<>>}, Parses(s)
  PROVE  Parses(s \o g)
<1>1. CASE g = <<>>
  BY <1>1
<1>2. CASE g \in Groups
  <2>1. PICK B \in SUBSET (0 .. Len(s)) : Whole(s, B)
    BY DEF Parses
  <2>2. Whole(s \o g, B \union {Len(s) + Len(g)})
    BY <1>2, <2>1, GroupAppended
  <2>3. g \in Seq(Nat)
    BY <1>2, GroupsEnd DEF EndsInTime
  <2>4. Len(s \o g) = Len(s) + Len(g) /\ Len(s) \in Nat /\ Len(g) \in Nat
    BY <2>3, Joined
  <2>5. \A b \in B \union {Len(s) + Len(g)} : b \in 0 .. Len(s \o g)
    BY <2>4
  <2> QED BY <2>2, <2>5 DEF Parses
<1> QED BY <1>1, <1>2

LEMMA ParsesAcks ==
  ASSUME NEW s \in Seq(Nat), NEW n \in Nat, Parses(s)
  PROVE  Parses(s \o Acks(n))
<1>1. PICK B \in SUBSET (0 .. Len(s)) : Whole(s, B)
  BY DEF Parses
<1>2. Whole(s \o Acks(n), B \union (Len(s) .. Len(s) + n))
  BY <1>1, AcksAppended
<1>3. Acks(n) \in Seq(Nat) /\ n = Len(Acks(n))
  BY DEF Acks, ACK
<1>4. Len(s \o Acks(n)) = Len(s) + Len(Acks(n)) /\ Len(s) \in Nat
  BY <1>3, Joined
<1>5. Len(s \o Acks(n)) = Len(s) + n
  BY <1>3, <1>4
<1>6. \A b \in B \union (Len(s) .. Len(s) + n) : b \in 0 .. Len(s) + n
  BY <1>4
<1>7. B \union (Len(s) .. Len(s) + n) \subseteq 0 .. Len(s \o Acks(n))
  BY <1>5, <1>6
<1> QED BY <1>2, <1>7 DEF Parses

LEMMA ParsesRest ==
  ASSUME NEW t \in Seq(Nat), NEW c \in Nat, NEW u \in Seq(Nat),
         t # <<>> => More(t), ~More(Append(t, c)), Parses(Append(t, c) \o u)
  PROVE  Parses(u)
<1>1. PICK B \in SUBSET (0 .. Len(Append(t, c) \o u)) : Whole(Append(t, c) \o u, B)
  BY DEF Parses
<1>2. Len(t) + 1 \in B
  BY <1>1, GroupRead
<1>3. Append(t, c) \in Seq(Nat) /\ Len(Append(t, c)) \in B
  BY <1>2
<1>4. Whole(u, {b \in 0 .. Len(u) : Len(Append(t, c)) + b \in B})
  BY <1>1, <1>3, GroupTaken
<1> QED BY <1>4 DEF Parses

-----------------------------------------------------------------------------
(* What a step does to the codes.                                          *)

LEMMA CodesSent ==
  ASSUME KeysWhole, wire = <<>>, wire' \in Seq(Nat), rd' = rd, kb_in' = kb_in
  PROVE  Codes \in Seq(Nat) /\ Codes' = Codes \o wire'
<1>1. rd.got \in Seq(Nat) /\ kb_in \in Seq(Nat)
  BY DEF KeysWhole
<1>2. rd.got \o kb_in \in Seq(Nat)
  BY <1>1
<1>3. Codes = rd.got \o kb_in
  BY <1>1 DEF Codes
<1>4. (rd.got \o kb_in) \o wire' = rd.got \o (kb_in \o wire')
  BY <1>1, JoinedTwice
<1>5. Codes' = rd'.got \o (kb_in' \o wire')
  BY DEF Codes
<1> QED BY <1>2, <1>3, <1>4, <1>5, Zenon

LEMMA CodeMoved ==
  ASSUME KeysWhole, keyboard_handler, Room
  PROVE  Codes' = Codes /\ kb_in' \in Seq(Nat) /\ Len(kb_in') <= KB_IN_BYTES
<1> DEFINE h == Head(wire)
           w == Tail(wire)
<1>1. /\ rd' = rd /\ wire' = w /\ h \in Nat /\ w \in Seq(Nat) /\ wire = <<h>> \o w
      /\ rd.got \in Seq(Nat) /\ kb_in \in Seq(Nat)
  BY HeadAndTail DEF KeysWhole, keyboard_handler
<1>2. kb_in' = Append(kb_in, h) /\ kb_in' \in Seq(Nat) /\ Len(kb_in') <= KB_IN_BYTES
  BY <1>1, KeyboardAssumption DEF keyboard_handler, Room
<1>3. Append(kb_in, h) \o w = kb_in \o (<<h>> \o w)
  BY <1>1, OneMovesOn
<1>4. kb_in' \o w = kb_in \o wire
  BY <1>1, <1>2, <1>3, Zenon
<1>5. Codes' = rd'.got \o (kb_in' \o wire')
  BY DEF Codes
<1>6. Codes' = Codes
  BY <1>1, <1>4, <1>5, Zenon DEF Codes
<1> QED BY <1>2, <1>6

LEMMA CallMoves ==
  ASSUME KeysWhole, BeginRead \/ EndRead
  PROVE  Codes' = Codes /\ rd.got = <<>> /\ rd'.got = <<>> /\ rd'.busy \in BOOLEAN
<1>1. /\ kb_in' = kb_in /\ wire' = wire
  BY DEF BeginRead, EndRead
<1>2. rd.got = <<>> /\ rd'.got = <<>> /\ rd'.busy \in BOOLEAN
  <2>1. CASE BeginRead
    BY <2>1 DEF BeginRead, KeysWhole
  <2>2. CASE EndRead
    BY <2>2 DEF EndRead, NoRead
  <2> QED BY <2>1, <2>2
<1>3. Codes' = rd'.got \o (kb_in' \o wire')
  BY DEF Codes
<1>4. Codes' = Codes
  BY <1>1, <1>2, <1>3, Zenon DEF Codes
<1> QED BY <1>2, <1>4

\* Cutting a sequence in its second part.
LEMMA CutInSecond ==
  ASSUME NEW s \in Seq(Nat), NEW a \in Seq(Nat), NEW b \in Seq(Nat), NEW q \in Nat,
         q = Len(s) + Len(b), Len(b) <= Len(a), \A i \in 1 .. Len(b) : a[i] = b[i]
  PROVE  SubSeq(s \o a, 1, q) = s \o b
<1> DEFINE w == s \o a
           y == s \o b
           x == SubSeq(w, 1, q)
<1>1. /\ w \in Seq(Nat) /\ Len(w) = Len(s) + Len(a) /\ Len(s) \in Nat /\ Len(a) \in Nat
      /\ \A i \in 1 .. Len(s) : w[i] = s[i]
      /\ \A i \in 1 .. Len(a) : w[Len(s) + i] = a[i]
  BY Joined
<1>2. /\ y \in Seq(Nat) /\ Len(y) = Len(s) + Len(b) /\ Len(b) \in Nat
      /\ \A i \in 1 .. Len(s) : y[i] = s[i]
      /\ \A i \in 1 .. Len(b) : y[Len(s) + i] = b[i]
  BY Joined
<1> HIDE DEF w, y
<1>3. \A i \in 1 .. q : w[i] \in Nat
  <2> TAKE i \in 1 .. q
  <2>1. i \in 1 .. Len(w)
    BY <1>1, <1>2
  <2> QED BY <1>1, <2>1
<1>4. x \in Seq(Nat) /\ Len(x) = q /\ \A i \in 1 .. q : x[i] = w[i]
  <2>1. /\ x \in Seq(Nat) /\ Len(x) = IF 1 <= q THEN q - 1 + 1 ELSE 0
        /\ \A i \in 1 .. q - 1 + 1 : x[i] = w[1 + i - 1]
    BY <1>3, SubSeqProperties
  <2> HIDE DEF x
  <2> QED BY <2>1
<1> HIDE DEF x
<1>5. ASSUME NEW i \in 1 .. q PROVE w[i] = y[i]
  <2>1. CASE i <= Len(s)
    <3>1. i \in 1 .. Len(s)
      BY <2>1
    <3> QED BY <1>1, <1>2, <3>1
  <2>2. CASE ~(i <= Len(s))
    <3>1. PICK j \in 1 .. Len(b) : i = Len(s) + j
      <4>1. i - Len(s) \in 1 .. Len(b) /\ i = Len(s) + (i - Len(s))
        BY <1>1, <1>2, <2>2
      <4> QED BY <4>1
    <3>4. j \in 1 .. Len(a)
      BY <1>1, <1>2
    <3>2. w[Len(s) + j] = a[j]
      BY <1>1, <3>4
    <3>3. y[Len(s) + j] = b[j] /\ a[j] = b[j]
      BY <1>2
    <3> QED BY <3>1, <3>2, <3>3, Zenon
  <2> QED BY <2>1, <2>2, Zenon
<1>6. x = y
  <2>1. Len(x) = Len(y)
    BY <1>2, <1>4
  <2>2. \A i \in 1 .. Len(x) : x[i] = y[i]
    BY <1>4, <1>5
  <2> QED BY <1>2, <1>4, <2>1, <2>2, SeqEqual
<1> QED BY <1>6 DEF x, w, y

\* The ring after s and n acknowledgements came.
Filled(s, n) ==
  LET all == s \o Acks(n)
  IN  SubSeq(all, 1, IF Len(all) < KB_IN_BYTES THEN Len(all) ELSE KB_IN_BYTES)

LEMMA CutAcks ==
  ASSUME NEW s \in Seq(Nat), NEW n \in Nat, Len(s) <= KB_IN_BYTES
  PROVE  \E m \in 0 .. n : Filled(s, n) = s \o Acks(m) /\ Len(Filled(s, n)) <= KB_IN_BYTES
<1> DEFINE all == s \o Acks(n)
           q == IF Len(all) < KB_IN_BYTES THEN Len(all) ELSE KB_IN_BYTES
           m == q - Len(s)
<1>0. KB_IN_BYTES \in Nat /\ Len(s) \in Nat
  BY KeyboardAssumption
<1>1. \A c \in Nat : Acks(c) \in Seq(Nat) /\ Len(Acks(c)) = c /\ \A i \in 1 .. c : Acks(c)[i] = 250
  BY DEF Acks, ACK
<1>2. Len(all) = Len(s) + n
  <2>1. Acks(n) \in Seq(Nat) /\ Len(Acks(n)) = n
    BY <1>1
  <2>2. Len(all) = Len(s) + Len(Acks(n))
    BY <2>1, Joined
  <2> QED BY <2>1, <2>2
<1>3. q \in Nat /\ m \in 0 .. n /\ q = Len(s) + m /\ q <= KB_IN_BYTES
  <2> HIDE DEF all
  <2> QED BY <1>0, <1>2
<1> HIDE DEF q, m
<1>4. Acks(m) \in Seq(Nat) /\ Acks(n) \in Seq(Nat) /\ q = Len(s) + Len(Acks(m))
      /\ Len(Acks(m)) <= Len(Acks(n)) /\ \A i \in 1 .. Len(Acks(m)) : Acks(n)[i] = Acks(m)[i]
  <2>1. Acks(m) \in Seq(Nat) /\ Len(Acks(m)) = m /\ \A i \in 1 .. m : Acks(m)[i] = 250
    BY <1>1, <1>3
  <2>2. Acks(n) \in Seq(Nat) /\ Len(Acks(n)) = n /\ \A i \in 1 .. n : Acks(n)[i] = 250
    BY <1>1
  <2> QED BY <1>3, <2>1, <2>2
<1>5. SubSeq(s \o Acks(n), 1, q) = s \o Acks(m)
  BY <1>3, <1>4, CutInSecond
<1>6. Len(s \o Acks(m)) <= KB_IN_BYTES
  <2>1. Len(s \o Acks(m)) = Len(s) + Len(Acks(m))
    BY <1>4, Joined
  <2> QED BY <1>3, <1>4, <2>1
<1>7. Filled(s, n) = SubSeq(s \o Acks(n), 1, q)
  BY DEF Filled, q
<1> QED BY <1>3, <1>5, <1>6, <1>7

Read == Append(rd.got, Head(kb_in))

LEMMA CodeTaken ==
  ASSUME KeysWhole, GetByte
  PROVE  /\ Read \in Seq(Nat) /\ Head(kb_in) \in Nat /\ Tail(kb_in) \in Seq(Nat)
         /\ Len(Tail(kb_in)) <= KB_IN_BYTES /\ Tail(kb_in) \o wire \in Seq(Nat)
         /\ Codes = Read \o (Tail(kb_in) \o wire) /\ wire' = wire
<1> DEFINE h == Head(kb_in)
           rest == Tail(kb_in)
<1>1. /\ rd.got \in Seq(Nat) /\ kb_in \in Seq(Nat) /\ wire \in Seq(Nat) /\ kb_in # <<>>
      /\ wire' = wire
  BY DEF KeysWhole, GetByte
<1>2. h \in Nat /\ rest \in Seq(Nat) /\ kb_in = <<h>> \o rest /\ Len(rest) <= KB_IN_BYTES
  <2>1. h \in Nat /\ rest \in Seq(Nat) /\ kb_in = <<h>> \o rest /\ Len(rest) = Len(kb_in) - 1
    BY <1>1, HeadAndTail
  <2>2. Len(kb_in) <= KB_IN_BYTES /\ Len(kb_in) \in Nat /\ KB_IN_BYTES \in Nat
    BY <1>1, KeyboardAssumption DEF KeysWhole
  <2> QED BY <2>1, <2>2
<1>3. Read \in Seq(Nat)
  BY <1>1, <1>2 DEF Read
<1> HIDE DEF h, rest
<1>4. rest \o wire \in Seq(Nat) /\ <<h>> \in Seq(Nat)
  BY <1>1, <1>2
<1>5. Codes = Read \o (rest \o wire)
  <2>1. Append(rd.got, h) \o (rest \o wire) = rd.got \o (<<h>> \o (rest \o wire))
    BY <1>1, <1>2, <1>4, OneMovesOn
  <2>2. (<<h>> \o rest) \o wire = <<h>> \o (rest \o wire)
    BY <1>1, <1>2, <1>4, JoinedTwice
  <2> QED BY <1>2, <2>1, <2>2, Zenon DEF Codes, Read, h
<1> QED BY <1>1, <1>2, <1>3, <1>4, <1>5 DEF h, rest

\* When it does not tell the key yet.
LEMMA MoreRead ==
  ASSUME KeysWhole, GetByte, More(Read)
  PROVE  /\ rd' = [rd EXCEPT !.got = Read] /\ kb_in' = Tail(kb_in) /\ Codes' = Codes
         /\ UNCHANGED <<wire, held, typed, meant, locks, due, wrong, spoiled>> /\ UNCHANGED convars
<1>1. /\ rd' = [rd EXCEPT !.got = Read] /\ kb_in' = Tail(kb_in)
      /\ UNCHANGED <<wire, held, typed, meant, locks, due, wrong, spoiled>> /\ UNCHANGED convars
  BY DEF GetByte, Read
<1>2. rd'.got = Read
  BY <1>1 DEF KeysWhole
<1>3. Codes' = rd'.got \o (kb_in' \o wire')
  BY DEF Codes
<1>4. Codes' = Codes
  BY <1>1, <1>2, <1>3, CodeTaken, Zenon
<1> QED BY <1>1, <1>4

\* When it does, what the keyboard acknowledges comes after the other codes.
LEMMA KeyTaken ==
  ASSUME KeysWhole, GetByte, ~More(Read)
  PROVE  /\ rd'.got = <<>> /\ rd'.busy = rd.busy
         /\ rd' = [busy |-> rd'.busy, tty |-> rd'.tty, got |-> rd'.got, key |-> rd'.key, make |-> rd'.make]
         /\ kb_in' \in Seq(Nat) /\ Len(kb_in') <= KB_IN_BYTES
         /\ \E n \in 0 .. 2 : Codes' = (Tail(kb_in) \o wire) \o Acks(n)
<1> DEFINE rest == Tail(kb_in)
<1>1. /\ wire \in Seq(Nat) /\ wire' = wire /\ rest \in Seq(Nat) /\ Len(rest) <= KB_IN_BYTES
  BY CodeTaken DEF KeysWhole
<1> HIDE DEF rest
<1>2. rd'.got = <<>> /\ rd'.busy = rd.busy
      /\ rd' = [busy |-> rd'.busy, tty |-> rd'.tty, got |-> rd'.got, key |-> rd'.key, make |-> rd'.make]
  BY DEF GetByte, KeysWhole, Read
<1>3. PICK leds \in BOOLEAN : Acknowledged(rest, leds)
  BY DEF GetByte, Read, rest
<1>4. PICK n \in (IF leds /\ wire = <<>> THEN 0 .. 2 ELSE {0}) : kb_in' = Filled(rest, n)
  BY <1>3, Zenon DEF Acknowledged, Acks, Filled
<1>5. n \in 0 .. 2 /\ n \in Nat /\ (n # 0 => wire = <<>>)
  BY <1>4
<1>6. PICK m \in 0 .. n : kb_in' = rest \o Acks(m) /\ Len(kb_in') <= KB_IN_BYTES
  BY <1>1, <1>4, <1>5, CutAcks
<1>7. m \in 0 .. 2 /\ Acks(m) \in Seq(Nat)
  BY <1>5 DEF Acks, ACK
<1>8. kb_in' \in Seq(Nat)
  BY <1>1, <1>6, <1>7, Joined
<1>9. Codes' = kb_in' \o wire
  <2>1. kb_in' \o wire \in Seq(Nat)
    BY <1>1, <1>8
  <2>2. <<>> \o (kb_in' \o wire) = kb_in' \o wire
    BY <2>1, ConcatEmptySeq
  <2>3. Codes' = rd'.got \o (kb_in' \o wire')
    BY DEF Codes
  <2> QED BY <1>1, <1>2, <2>2, <2>3, Zenon
<1>10. Codes' = (rest \o wire) \o Acks(m)
  <2>1. CASE wire = <<>>
    <3>1. rest \o wire = rest /\ kb_in' \o wire = kb_in'
      BY <1>1, <1>8, <2>1, ConcatEmptySeq
    <3> QED BY <1>6, <1>9, <3>1, Zenon
  <2>2. CASE wire # <<>>
    <3>1. m = 0
      BY <1>5, <1>6, <2>2
    <3>2. Acks(m) = <<>>
      BY <3>1 DEF Acks
    <3>3. rest \o Acks(m) = rest
      BY <1>1, <3>2, ConcatEmptySeq
    <3>4. rest \o wire \in Seq(Nat)
      BY <1>1
    <3>5. (rest \o wire) \o <<>> = rest \o wire
      BY <3>4, ConcatEmptySeq
    <3> QED BY <1>6, <1>9, <3>2, <3>3, <3>5, Zenon
  <2> QED BY <2>1, <2>2
<1> QED BY <1>2, <1>6, <1>7, <1>8, <1>10 DEF rest

-----------------------------------------------------------------------------
(* Every step keeps the groups whole.                                      *)

LEMMA KeysInit ==
  ASSUME KbInit
  PROVE  KeysWhole
<1>1. Codes = <<>> /\ rd = NoRead /\ kb_in = <<>> /\ wire = <<>>
  BY DEF KbInit, NoRead, Codes
<1>2. Parses(<<>>)
  <2>1. Whole(<<>>, {0})
    BY DEF Whole
  <2>2. Len(<<>>) = 0
    OBVIOUS
  <2> QED BY <2>1, <2>2 DEF Parses
<1>3. Len(kb_in) <= KB_IN_BYTES
  BY <1>1, KeyboardAssumption
<1> QED BY <1>1, <1>2, <1>3 DEF KeysWhole, NoRead

LEMMA PressKeeps ==
  ASSUME KeysWhole, NEW k \in Keys, Press(k) \/ Release(k)
  PROVE  KeysWhole'
<1>1. /\ wire = <<>> /\ wire' \in {MakeCodes(k), BreakCodes(k)} /\ rd' = rd /\ kb_in' = kb_in
      /\ "dropped" \in spoiled' <=> "dropped" \in spoiled
  BY DEF Press, Release, Due
<1>2. wire' \in Groups \union {<<>>}
  BY <1>1, KeyboardAssumption DEF Groups
<1>3. wire' \in Seq(Nat)
  <2>1. \A g \in Groups : g \in Seq(Nat)
    BY GroupsEnd DEF EndsInTime
  <2>2. <<>> \in Seq(Nat)
    OBVIOUS
  <2> QED BY <1>2, <2>1, <2>2, Zenon
<1>4. Codes \in Seq(Nat) /\ Codes' = Codes \o wire'
  BY <1>1, <1>3, CodesSent
<1>5. "dropped" \notin spoiled => Parses(Codes')
  BY <1>2, <1>4, ParsesMore DEF KeysWhole
<1> QED BY <1>1, <1>3, <1>5 DEF KeysWhole

LEMMA HandlerKeeps ==
  ASSUME KeysWhole, keyboard_handler
  PROVE  KeysWhole'
<1>1. rd' = rd /\ wire' \in Seq(Nat)
  BY HeadAndTail DEF KeysWhole, keyboard_handler
<1>2. CASE Room
  <2>1. spoiled \subseteq spoiled'
    BY DEF keyboard_handler, Due
  <2> QED BY <1>1, <1>2, <2>1, CodeMoved DEF KeysWhole
<1>3. CASE ~Room
  <2>1. kb_in' = kb_in
    BY <1>3 DEF keyboard_handler
  <2>2. Len(kb_in) = KB_IN_BYTES
    <3>1. Len(kb_in) \in Nat /\ Len(kb_in) <= KB_IN_BYTES /\ KB_IN_BYTES \in Nat
      BY KeyboardAssumption DEF KeysWhole
    <3> QED BY <1>3, <3>1 DEF Room
  <2>3. "dropped" \in spoiled'
    BY <2>2 DEF keyboard_handler, Due
  <2> QED BY <1>1, <2>1, <2>3 DEF KeysWhole
<1> QED BY <1>2, <1>3

LEMMA CallKeeps ==
  ASSUME KeysWhole, BeginRead \/ EndRead
  PROVE  KeysWhole'
<1>1. /\ kb_in' = kb_in /\ wire' = wire /\ spoiled' = spoiled
      /\ rd' = [busy |-> rd'.busy, tty |-> rd'.tty, got |-> rd'.got, key |-> rd'.key, make |-> rd'.make]
  BY DEF BeginRead, EndRead, NoRead
<1>2. Codes' = Codes /\ rd'.got = <<>> /\ rd'.busy \in BOOLEAN
  BY CallMoves
<1>3. rd'.got \in Seq(Nat) /\ (~rd.busy => rd.got = <<>>)' /\ (rd.got # <<>> => More(rd.got))'
  BY <1>2
<1>4. ("dropped" \notin spoiled => Parses(Codes))'
  BY <1>1, <1>2 DEF KeysWhole
<1> QED BY <1>1, <1>2, <1>3, <1>4 DEF KeysWhole

LEMMA GetByteKeeps ==
  ASSUME KeysWhole, GetByte
  PROVE  KeysWhole'
<1>1. /\ Read \in Seq(Nat) /\ Head(kb_in) \in Nat /\ Tail(kb_in) \in Seq(Nat)
      /\ Len(Tail(kb_in)) <= KB_IN_BYTES /\ Tail(kb_in) \o wire \in Seq(Nat)
      /\ Codes = Read \o (Tail(kb_in) \o wire) /\ wire' = wire /\ rd.busy
  BY CodeTaken DEF GetByte
<1>2. CASE More(Read)
  <2>1. rd' = [rd EXCEPT !.got = Read] /\ kb_in' = Tail(kb_in) /\ Codes' = Codes /\ spoiled' = spoiled
    BY <1>2, MoreRead
  <2>2. rd'.got = Read /\ rd'.busy = rd.busy
        /\ rd' = [busy |-> rd'.busy, tty |-> rd'.tty, got |-> rd'.got, key |-> rd'.key, make |-> rd'.make]
    BY <2>1 DEF KeysWhole
  <2>3. (rd.got # <<>> => More(rd.got))'
    BY <1>2, <2>2
  <2>4. ("dropped" \notin spoiled => Parses(Codes))'
    BY <2>1 DEF KeysWhole
  <2> QED BY <1>1, <2>1, <2>2, <2>3, <2>4 DEF KeysWhole
<1>3. CASE ~More(Read)
  <2>1. /\ rd'.got = <<>> /\ rd'.busy = rd.busy
        /\ rd' = [busy |-> rd'.busy, tty |-> rd'.tty, got |-> rd'.got, key |-> rd'.key, make |-> rd'.make]
        /\ kb_in' \in Seq(Nat) /\ Len(kb_in') <= KB_IN_BYTES
    BY <1>3, KeyTaken
  <2>2. PICK n \in 0 .. 2 : Codes' = (Tail(kb_in) \o wire) \o Acks(n)
    BY <1>3, KeyTaken
  <2>3. ASSUME "dropped" \notin spoiled' PROVE Parses(Codes')
    <3>1. "dropped" \notin spoiled
      BY <1>3, <2>3 DEF GetByte, Check, Due, Read
    <3>2. Parses(Append(rd.got, Head(kb_in)) \o (Tail(kb_in) \o wire)) /\ ~More(Append(rd.got, Head(kb_in)))
      BY <1>1, <1>3, <3>1 DEF KeysWhole, Read
    <3>3. rd.got \in Seq(Nat) /\ (rd.got # <<>> => More(rd.got))
      BY DEF KeysWhole
    <3>4. Parses(Tail(kb_in) \o wire)
      BY <1>1, <3>2, <3>3, ParsesRest
    <3>5. n \in Nat /\ Tail(kb_in) \o wire \in Seq(Nat)
      BY <1>1
    <3>6. Parses((Tail(kb_in) \o wire) \o Acks(n))
      BY <3>4, <3>5, ParsesAcks
    <3> QED BY <2>2, <3>6, Zenon
  <2>4. (rd.got # <<>> => More(rd.got))' /\ (~rd.busy => rd.got = <<>>)' /\ rd'.got \in Seq(Nat)
    BY <2>1
  <2>5. rd'.busy \in BOOLEAN
    BY <2>1 DEF KeysWhole
  <2>6. ("dropped" \notin spoiled => Parses(Codes))'
    BY <2>3
  <2> QED BY <1>1, <2>1, <2>4, <2>5, <2>6 DEF KeysWhole
<1> QED BY <1>2, <1>3

\* What is on its way from the keyboard to keyboard_read hangs together.
THEOREM KeysWholeHolds == KbSpec => []KeysWhole
<1>1. ConInit /\ KbInit => KeysWhole
  BY KeysInit
<1>2. KeysWhole /\ [KbNext]_<<convars, kbvars>> => KeysWhole'
  <2> SUFFICES ASSUME KeysWhole, [KbNext]_<<convars, kbvars>> PROVE KeysWhole'
    OBVIOUS
  <2>1. CASE UNCHANGED <<convars, kbvars>>
    BY <2>1 DEF kbvars, KeysWhole, Codes
  <2> QED BY <2>1, GetByteKeeps, PressKeeps, HandlerKeeps, CallKeeps DEF KbNext
<1> QED BY <1>1, <1>2, PTL DEF KbSpec

\* Property WaitsForTheKeyboard of run keyboard: get_byte_from_kb_buf waits for a
\* code that the keyboard is about to send, unless one was dropped.
THEOREM WaitsCorrect == KbSpec => []WaitsForTheKeyboard
<1>1. KeysWhole => WaitsForTheKeyboard
  <2> SUFFICES ASSUME KeysWhole, rd.got # <<>>, kb_in = <<>>, wire = <<>>, "dropped" \notin spoiled
               PROVE  FALSE
    BY DEF WaitsForTheKeyboard
  <2> DEFINE t == rd.got
  <2>1. t \in Seq(Nat) /\ More(t) /\ t # <<>>
    BY DEF KeysWhole
  <2>2. Codes = t \o <<>>
    BY DEF Codes
  <2> HIDE DEF t
  <2>3. t \o <<>> = t /\ Len(t) >= 1
    BY <2>1, NotEmpty
  <2>4. PICK B \in SUBSET (0 .. Len(t)) : Whole(t, B)
    BY <2>2, <2>3 DEF KeysWhole, Parses
  <2>5. 0 # Len(t)
    BY <2>3
  <2>6. PICK g \in Groups : GroupAt(t, 0, g) /\ 0 + Len(g) \in B
    BY <2>4, <2>5 DEF Whole
  <2>7. Len(g) > Len(t)
    <3>1. <<>> \in Seq(Nat) /\ GroupAt(t \o <<>>, 0, g)
      BY <2>3, <2>6
    <3> QED BY <2>1, <3>1, NotEndedBefore
  <2>8. Len(g) \in Nat /\ Len(t) \in Nat
    BY <2>1, GroupsEnd DEF EndsInTime
  <2> QED BY <2>6, <2>7, <2>8 DEF GroupAt
<1> QED BY <1>1, KeysWholeHolds, PTL

-----------------------------------------------------------------------------
(* What the codes on their way ask for.                                    *)

\* What the keyboard sends for a key, and the acknowledgement.
Signals == AllKeys \union {"ACK"}

CodesOf(k, down) ==
  IF k = "ACK" THEN <<ACK>> ELSE IF down THEN MakeCodes(k) ELSE BreakCodes(k)

\* What a key depends on: Shift and Alt, the locks, and the current console;
\* as keyboard_read and in_process have it, and as whoever types has it.
Minds == [shift : BOOLEAN, alt : BOOLEAN, caps : BOOLEAN, num : BOOLEAN, tty : Nat]

Seen == [shift |-> locks.shift_l, alt |-> locks.alt_l, caps |-> locks.caps_lock,
         num |-> locks.num_lock, tty |-> current_console]

Meant == [shift |-> Shift, alt |-> Alt, caps |-> meant.caps_lock,
          num |-> meant.num_lock, tty |-> meant.tty]

\* What becomes of it when k goes down or up, and what k asks for.
After(st, k, down) ==
  [shift |-> IF k = "SHIFT_L" THEN down ELSE st.shift,
   alt   |-> IF k \in {"ALT_L", "ALT_R"} THEN down ELSE st.alt,
   caps  |-> IF k = "CAPS_LOCK" /\ down THEN ~st.caps ELSE st.caps,
   num   |-> IF k = "NUM_LOCK" /\ down THEN ~st.num ELSE st.num,
   tty   |-> IF k = "F2" /\ down /\ st.alt THEN 1 ELSE st.tty]

Wishes == [put : {"a", "A", "\n", "7"}, tty : Nat] \union [scroll : {"SCR_DN"}, tty : Nat]
          \union [select : {1}]

Wants(st, k, down) ==
  CASE k = "a" /\ down -> <<[put |-> IF st.shift # st.caps THEN "A" ELSE "a", tty |-> st.tty]>>
    [] k = "ENTER" /\ down -> <<[put |-> "\n", tty |-> st.tty]>>
    [] k = "PAD_7" /\ down /\ (st.shift \/ st.num) -> <<[put |-> "7", tty |-> st.tty]>>
    [] k = "UP" /\ down /\ st.shift -> <<[scroll |-> "SCR_DN", tty |-> st.tty]>>
    [] k = "F2" /\ down /\ st.alt -> <<[select |-> 1]>>
    [] OTHER -> <<>>

\* At place b of s begins what the keyboard sent for one key: M holds what the
\* keys before left, W what this key and the later ones ask for.
SentAt(s, B, M, W, b) ==
  \E k \in Signals, down \in BOOLEAN :
    /\ CodesOf(k, down) # <<>> /\ GroupAt(s, b, CodesOf(k, down))
    /\ b + Len(CodesOf(k, down)) \in B
    /\ M[b + Len(CodesOf(k, down))] = After(M[b], k, down)
    /\ W[b] = Wants(M[b], k, down) \o W[b + Len(CodesOf(k, down))]

Follows(s, B, M, W) ==
  /\ 0 \in B /\ Len(s) \in B /\ W[Len(s)] = <<>>
  /\ \A b \in B : b # Len(s) => SentAt(s, B, M, W, b)

\* The codes s lead from one mind to the other, and ask for wish.
Explains(s, from, wish, to) ==
  \E B \in SUBSET (0 .. Len(s)) : \E M \in [B -> Minds], W \in [B -> Seq(Wishes)] :
    Follows(s, B, M, W) /\ M[0] = from /\ W[0] = wish /\ M[Len(s)] = to

LockTypes == locks \in [shift_l : BOOLEAN, shift_r : {FALSE}, alt_l : BOOLEAN,
                        caps_lock : BOOLEAN, num_lock : BOOLEAN]

\* Unless a key is excused, what is due is what the codes on their way ask for,
\* and after them keyboard_read knows what whoever types has in mind.
KeysExplained ==
  /\ LockTypes
  /\ meant \in [caps_lock : BOOLEAN, num_lock : BOOLEAN, tty : Nat]
  /\ current_console \in Nat /\ rd.tty \in Nat /\ wrong = FALSE
  /\ spoiled = {} => /\ ~({"ALT_L", "ALT_R"} \subseteq held)
                     /\ Explains(Codes, Seen, due, Meant)

-----------------------------------------------------------------------------

LEMMA SignalsSent ==
  ASSUME NEW k \in Signals, NEW down \in BOOLEAN
  PROVE  /\ CodesOf(k, down) \in Seq(Nat)
         /\ CodesOf(k, down) # <<>> => CodesOf(k, down) \in Groups
<1>1. CodesOf(k, down) # <<>> => CodesOf(k, down) \in Groups
  BY DEF CodesOf, Groups, Signals
<1>2. CodesOf(k, down) # <<>> => CodesOf(k, down) \in Seq(Nat)
  BY <1>1, GroupsEnd DEF EndsInTime
<1>3. <<>> \in Seq(Nat)
  OBVIOUS
<1> QED BY <1>1, <1>2, <1>3, Zenon

\* Keys that send codes.
LEMMA CodesToSend ==
  ASSUME NEW k \in AllKeys
  PROVE  /\ CodesOf(k, TRUE) = MakeCodes(k) /\ CodesOf(k, FALSE) = BreakCodes(k)
         /\ MakeCodes(k) # <<>> /\ (k # "PAUSEBREAK" => BreakCodes(k) # <<>>)
         /\ (k = "PAUSEBREAK" => BreakCodes(k) = <<>>)
<1>1. CodesOf(k, TRUE) = MakeCodes(k) /\ CodesOf(k, FALSE) = BreakCodes(k)
  BY DEF CodesOf, AllKeys
<1>2. CASE k = "PAUSEBREAK"
  BY <1>1, <1>2, PauseIs DEF MakeCodes, BreakCodes
<1>3. CASE k = "PRINTSCREEN"
  BY <1>1, <1>3, PrintMakeIs, PrintBreakIs DEF MakeCodes, BreakCodes
<1>4. CASE k \notin {"PAUSEBREAK", "PRINTSCREEN"}
  <2>1. EndsInTime(MakeCodes(k)) /\ EndsInTime(BreakCodes(k))
    BY <1>4, OneCodeKeys, TwoCodeKeys DEF AllKeys
  <2> QED BY <1>1, <1>4, <2>1 DEF EndsInTime
<1> QED BY <1>2, <1>3, <1>4

LEMMA MindAfter ==
  ASSUME NEW st \in Minds, NEW k \in Signals, NEW down \in BOOLEAN
  PROVE  After(st, k, down) \in Minds /\ Wants(st, k, down) \in Seq(Wishes)
<1>1. After(st, k, down) \in Minds
  BY DEF After, Minds
<1>2. \A x \in Wishes : <<x>> \in Seq(Wishes)
  OBVIOUS
<1>3. <<>> \in Seq(Wishes)
  OBVIOUS
<1>4. /\ \A c \in {"a", "A", "\n", "7"}, t \in Nat : [put |-> c, tty |-> t] \in Wishes
      /\ \A t \in Nat : [scroll |-> "SCR_DN", tty |-> t] \in Wishes
      /\ [select |-> 1] \in Wishes
  BY DEF Wishes
<1>5. st.tty \in Nat
  BY DEF Minds
<1>6. Wants(st, k, down) \in Seq(Wishes)
  <2>1. CASE k = "a" /\ down
    BY <1>2, <1>4, <1>5, <2>1 DEF Wants
  <2>2. CASE k = "ENTER" /\ down
    BY <1>2, <1>4, <1>5, <2>2 DEF Wants
  <2>3. CASE k = "PAD_7" /\ down /\ (st.shift \/ st.num)
    BY <1>2, <1>4, <1>5, <2>3 DEF Wants
  <2>4. CASE k = "UP" /\ down /\ st.shift
    BY <1>2, <1>4, <1>5, <2>4 DEF Wants
  <2>5. CASE k = "F2" /\ down /\ st.alt
    BY <1>2, <1>4, <1>5, <2>5 DEF Wants
  <2> QED BY <1>3, <2>1, <2>2, <2>3, <2>4, <2>5, Zenon DEF Wants
<1> QED BY <1>1, <1>6

LEMMA HeldKeys ==
  /\ Shift <=> "SHIFT_L" \in held
  /\ Alt <=> "ALT_L" \in held \/ "ALT_R" \in held
BY DEF Shift, Alt

LEMMA MindsKnown ==
  ASSUME KeysExplained
  PROVE  Seen \in Minds /\ Meant \in Minds
<1>1. Seen \in Minds
  BY DEF KeysExplained, LockTypes, Seen, Minds
<1>2. Shift \in BOOLEAN /\ Alt \in BOOLEAN
  BY HeldKeys DEF Shift, Alt
<1>3. Meant \in Minds
  BY <1>2 DEF KeysExplained, Meant, Minds
<1> QED BY <1>1, <1>3

LEMMA WishTyped ==
  ASSUME NEW s, NEW from, NEW wish, NEW to, Explains(s, from, wish, to)
  PROVE  wish \in Seq(Wishes)
BY DEF Explains, Follows

\* No code asks for nothing.
LEMMA NoneExplained ==
  ASSUME NEW st \in Minds
  PROVE  Explains(<<>>, st, <<>>, st)
<1> DEFINE M == [b \in {0} |-> st]
           W == [b \in {0} |-> <<>>]
<1>1. Len(<<>>) = 0 /\ {0} \in SUBSET (0 .. 0)
  OBVIOUS
<1>2. M \in [{0} -> Minds] /\ W \in [{0} -> Seq(Wishes)] /\ M[0] = st /\ W[0] = <<>>
  <2>1. <<>> \in Seq(Wishes)
    OBVIOUS
  <2> QED BY <2>1
<1> HIDE DEF M, W
<1>3. Follows(<<>>, {0}, M, W)
  BY <1>1, <1>2 DEF Follows
<1> QED BY <1>1, <1>2, <1>3 DEF Explains

\* Where nothing is on its way, nothing is asked for.
LEMMA EmptyExplained ==
  ASSUME NEW from, NEW wish, NEW to, Explains(<<>>, from, wish, to)
  PROVE  from = to /\ wish = <<>>
<1>1. Len(<<>>) = 0
  OBVIOUS
<1> QED BY <1>1 DEF Explains, Follows

LEMMA WishesJoined ==
  ASSUME NEW x \in Seq(Wishes), NEW y \in Seq(Wishes), NEW z \in Seq(Wishes)
  PROVE  /\ x \o y \in Seq(Wishes) /\ (x \o y) \o z = x \o (y \o z)
         /\ x \o <<>> = x /\ <<>> \o x = x
<1>1. (x \o y) \o z = x \o (y \o z)
  BY ConcatAssociative
<1>2. x \o <<>> = x /\ <<>> \o x = x /\ x \o y \in Seq(Wishes)
  BY ConcatEmptySeq
<1> QED BY <1>1, <1>2

\* One more key.
LEMMA OneMoreExplained ==
  ASSUME NEW s \in Seq(Nat), NEW from, NEW wish, NEW to \in Minds, Explains(s, from, wish, to),
         NEW k \in Signals, NEW down \in BOOLEAN, CodesOf(k, down) # <<>>
  PROVE  Explains(s \o CodesOf(k, down), from, wish \o Wants(to, k, down), After(to, k, down))
<1> DEFINE g == CodesOf(k, down)
           x == Wants(to, k, down)
           w == s \o g
           e == Len(s) + Len(g)
<1>1. PICK B \in SUBSET (0 .. Len(s)) : \E M \in [B -> Minds], W \in [B -> Seq(Wishes)] :
        Follows(s, B, M, W) /\ M[0] = from /\ W[0] = wish /\ M[Len(s)] = to
  BY DEF Explains
<1>2. PICK M \in [B -> Minds], W \in [B -> Seq(Wishes)] :
        Follows(s, B, M, W) /\ M[0] = from /\ W[0] = wish /\ M[Len(s)] = to
  BY <1>1
<1> DEFINE C == B \union {e}
           M2 == [b \in C |-> IF b = e THEN After(to, k, down) ELSE M[b]]
           W2 == [b \in C |-> IF b = e THEN <<>> ELSE W[b] \o x]
<1>3. g \in Seq(Nat) /\ g # <<>> /\ Len(g) >= 1 /\ Len(g) \in Nat
  BY SignalsSent, NotEmpty
<1>4. After(to, k, down) \in Minds /\ x \in Seq(Wishes)
  BY MindAfter
<1> HIDE DEF g, x
<1>5. /\ w \in Seq(Nat) /\ Len(w) = e /\ Len(s) \in Nat /\ e \in Nat /\ e > Len(s)
      /\ \A i \in 1 .. Len(g) : w[Len(s) + i] = g[i]
  <2>1. /\ w \in Seq(Nat) /\ Len(w) = Len(s) + Len(g) /\ Len(s) \in Nat
        /\ \A i \in 1 .. Len(g) : w[Len(s) + i] = g[i]
    BY <1>3, Joined
  <2> HIDE DEF w
  <2> QED BY <1>3, <2>1
<1> HIDE DEF w, e
<1>6. \A b \in B : b \in Nat /\ b # e /\ b <= Len(s)
  BY <1>5
<1>7. C \in SUBSET (0 .. Len(w))
  BY <1>5, <1>6
<1>8. \A b \in B : W[b] \in Seq(Wishes) /\ W[b] \o x \in Seq(Wishes)
  BY <1>4, WishesJoined
<1>9. <<>> \in Seq(Wishes)
  OBVIOUS
<1>10. M2 \in [C -> Minds] /\ W2 \in [C -> Seq(Wishes)]
  <2>1. \A b \in C : (IF b = e THEN After(to, k, down) ELSE M[b]) \in Minds
    BY <1>2, <1>4
  <2>2. \A b \in C : (IF b = e THEN <<>> ELSE W[b] \o x) \in Seq(Wishes)
    BY <1>8, <1>9
  <2> QED BY <2>1, <2>2, Zenon
<1>11. /\ M2[e] = After(to, k, down) /\ W2[e] = <<>>
       /\ \A b \in B : M2[b] = M[b] /\ W2[b] = W[b] \o x
  BY <1>6
<1>12. 0 \in B /\ Len(s) \in B /\ W[Len(s)] = <<>>
  BY <1>2 DEF Follows
<1> HIDE DEF M2, W2
<1>13. ASSUME NEW b \in C, b # Len(w) PROVE SentAt(w, C, M2, W2, b)
  <2>1. b \in B
    BY <1>5, <1>13
  <2>2. CASE b = Len(s)
    <3>1. GroupAt(w, b, g) /\ b + Len(g) = e
      <4>1. b + Len(g) = e
        BY <2>2 DEF e
      <4>2. b + Len(g) <= Len(w)
        BY <1>5, <4>1
      <4>3. \A i \in 1 .. Len(g) : w[b + i] = g[i]
        BY <1>5, <2>2
      <4> QED BY <4>1, <4>2, <4>3 DEF GroupAt
    <3>2. W2[b] = x \o W2[e]
      <4>1. W2[b] = <<>> \o x
        BY <1>11, <1>12, <2>2
      <4> QED BY <1>4, <1>11, <4>1, WishesJoined
    <3>3. M2[e] = After(M2[b], k, down) /\ x = Wants(M2[b], k, down)
      BY <1>2, <1>11, <1>12, <2>2 DEF x
    <3>4. e \in C
      OBVIOUS
    <3> QED BY <1>3, <3>1, <3>2, <3>3, <3>4 DEF SentAt, g
  <2>3. CASE b # Len(s)
    <3>1. SentAt(s, B, M, W, b)
      BY <1>2, <2>1, <2>3 DEF Follows
    <3>2. PICK j \in Signals, up \in BOOLEAN :
            /\ CodesOf(j, up) # <<>> /\ GroupAt(s, b, CodesOf(j, up))
            /\ b + Len(CodesOf(j, up)) \in B
            /\ M[b + Len(CodesOf(j, up))] = After(M[b], j, up)
            /\ W[b] = Wants(M[b], j, up) \o W[b + Len(CodesOf(j, up))]
      BY <3>1 DEF SentAt
    <3> DEFINE h == CodesOf(j, up)
               c == b + Len(CodesOf(j, up))
    <3>3. GroupAt(w, b, h)
      <4>1. CodesOf(j, up) \in Seq(Nat) /\ b \in Nat
        BY <1>6, <2>1, SignalsSent
      <4> QED BY <1>3, <3>2, <4>1, GroupStays DEF w
    <3>4. c \in B /\ M[b] \in Minds /\ W[b] \in Seq(Wishes) /\ W[c] \in Seq(Wishes)
      BY <2>1, <3>2
    <3>5. W2[b] = Wants(M[b], j, up) \o W2[c]
      <4>1. Wants(M[b], j, up) \in Seq(Wishes)
        BY <3>4, MindAfter
      <4>2. (Wants(M[b], j, up) \o W[c]) \o x = Wants(M[b], j, up) \o (W[c] \o x)
        BY <1>4, <3>4, <4>1, WishesJoined, SMTT(30)
      <4> QED BY <1>11, <2>1, <3>2, <3>4, <4>2
    <3>6. M2[c] = After(M2[b], j, up) /\ M2[b] = M[b] /\ c \in C
      BY <1>11, <2>1, <3>2, <3>4
    <3> QED BY <3>2, <3>3, <3>5, <3>6 DEF SentAt
  <2> QED BY <2>2, <2>3
<1>14. Follows(w, C, M2, W2)
  BY <1>5, <1>11, <1>12, <1>13 DEF Follows
<1>15. M2[0] = from /\ W2[0] = wish \o x /\ M2[Len(w)] = After(to, k, down)
  BY <1>2, <1>5, <1>11, <1>12
<1>16. Explains(w, from, wish \o x, After(to, k, down))
  BY <1>7, <1>10, <1>14, <1>15 DEF Explains
<1> QED BY <1>16 DEF w, x, g

LEMMA AcksExplained ==
  ASSUME NEW s \in Seq(Nat), NEW from, NEW wish \in Seq(Wishes), NEW to \in Minds,
         Explains(s, from, wish, to), NEW n \in 0 .. 2
  PROVE  Explains(s \o Acks(n), from, wish, to)
<1> DEFINE a == <<ACK>>
<1>1. /\ CodesOf("ACK", TRUE) = a /\ a # <<>> /\ "ACK" \in Signals
      /\ Wants(to, "ACK", TRUE) = <<>> /\ wish \o <<>> = wish /\ a \in Seq(Nat)
  <2>1. CodesOf("ACK", TRUE) = a /\ a # <<>> /\ "ACK" \in Signals
    BY DEF CodesOf, Signals
  <2>2. Wants(to, "ACK", TRUE) = <<>>
    BY DEF Wants
  <2>3. wish \o <<>> = wish
    BY ConcatEmptySeq
  <2>4. a \in Seq(Nat)
    BY DEF ACK
  <2> QED BY <2>1, <2>2, <2>3, <2>4
<1>2. After(to, "ACK", TRUE) = to
  BY DEF After, Minds
<1>3. Explains(s \o a, from, wish, to)
  BY <1>1, <1>2, OneMoreExplained
<1>4. Explains((s \o a) \o a, from, wish, to)
  <2>1. s \o a \in Seq(Nat)
    BY <1>1
  <2> HIDE DEF a
  <2> QED BY <1>1, <1>2, <1>3, <2>1, OneMoreExplained
<1>5. CASE n = 0
  <2>1. Acks(n) = <<>>
    BY <1>5 DEF Acks
  <2> QED BY <2>1, ConcatEmptySeq
<1>6. CASE n = 1
  <2>1. Acks(n) = a
    BY <1>6 DEF Acks, ACK
  <2> QED BY <1>3, <2>1
<1>7. CASE n = 2
  <2>1. Acks(n) = a \o a
    BY <1>7 DEF Acks, ACK
  <2>2. (s \o a) \o a = s \o (a \o a)
    BY <1>1, JoinedTwice
  <2> QED BY <1>4, <2>1, <2>2
<1> QED BY <1>5, <1>6, <1>7

\* s is what was sent for a key, and u leads from what the key leaves to the rest.
KeyFirst(s, u, from, wish, to) ==
  \E k \in Signals, down \in BOOLEAN :
    /\ s = CodesOf(k, down)
    /\ \E rest \in Seq(Wishes) :
         wish = Wants(from, k, down) \o rest /\ Explains(u, After(from, k, down), rest, to)

\* The first key is read: it is one of those sent, and the rest is explained
\* from what it leaves.
LEMMA RestExplained ==
  ASSUME NEW t \in Seq(Nat), NEW c \in Nat, NEW u \in Seq(Nat),
         t # <<>> => More(t), ~More(Append(t, c)),
         NEW from \in Minds, NEW wish \in Seq(Wishes), NEW to \in Minds,
         Explains(Append(t, c) \o u, from, wish, to)
  PROVE  KeyFirst(Append(t, c), u, from, wish, to)
<1> DEFINE s == Append(t, c)
           w == s \o u
<1>1. PICK B \in SUBSET (0 .. Len(w)) : \E M \in [B -> Minds], W \in [B -> Seq(Wishes)] :
        Follows(w, B, M, W) /\ M[0] = from /\ W[0] = wish /\ M[Len(w)] = to
  BY DEF Explains
<1>2. PICK M \in [B -> Minds], W \in [B -> Seq(Wishes)] :
        Follows(w, B, M, W) /\ M[0] = from /\ W[0] = wish /\ M[Len(w)] = to
  BY <1>1
<1>3. s \in Seq(Nat) /\ Len(s) >= 1 /\ Len(s) \in Nat
  <2>1. s \in Seq(Nat) /\ s # <<>>
    BY OneAppended
  <2> HIDE DEF s
  <2> QED BY <2>1, NotEmpty
<1>4. /\ w \in Seq(Nat) /\ Len(w) = Len(s) + Len(u) /\ Len(u) \in Nat
      /\ \A i \in 1 .. Len(u) : w[Len(s) + i] = u[i]
  <2> HIDE DEF s
  <2> QED BY <1>3, Joined
<1>5. 0 \in B /\ 0 # Len(w)
  BY <1>2, <1>3, <1>4 DEF Follows
<1>6. SentAt(w, B, M, W, 0)
  BY <1>2, <1>5 DEF Follows
<1>7. PICK k \in Signals, down \in BOOLEAN :
        /\ CodesOf(k, down) # <<>> /\ GroupAt(w, 0, CodesOf(k, down))
        /\ 0 + Len(CodesOf(k, down)) \in B
        /\ M[0 + Len(CodesOf(k, down))] = After(M[0], k, down)
        /\ W[0] = Wants(M[0], k, down) \o W[0 + Len(CodesOf(k, down))]
  BY <1>6 DEF SentAt
<1>8. CodesOf(k, down) \in Groups
  BY <1>7, SignalsSent
<1>9. CodesOf(k, down) = s
  BY <1>7, <1>8, GroupIsRead
<1> DEFINE l == Len(s)
           C == {b \in 0 .. Len(u) : l + b \in B}
           M2 == [b \in C |-> M[l + b]]
           W2 == [b \in C |-> W[l + b]]
<1>10. l \in B /\ M[l] = After(from, k, down) /\ wish = Wants(from, k, down) \o W[l]
  <2>1. 0 + Len(CodesOf(k, down)) = l
    BY <1>3, <1>9
  <2> QED BY <1>2, <1>7, <2>1
<1>11. l \in Nat /\ Len(w) = l + Len(u) /\ \A i \in 1 .. Len(u) : w[l + i] = u[i]
  BY <1>3, <1>4
<1> HIDE DEF w, l
<1>12. M2 \in [C -> Minds] /\ W2 \in [C -> Seq(Wishes)]
  OBVIOUS
<1>13. 0 \in C /\ Len(u) \in C /\ \A b \in C : b \in Nat /\ M2[b] = M[l + b] /\ W2[b] = W[l + b]
  <2>1. Len(w) \in B
    BY <1>2 DEF Follows
  <2>2. 0 \in C /\ Len(u) \in C
    <3>1. l + 0 = l /\ 0 \in 0 .. Len(u) /\ Len(u) \in 0 .. Len(u)
      BY <1>4, <1>11
    <3> QED BY <1>10, <1>11, <2>1, <3>1
  <2> QED BY <2>2
<1>14. M2[0] = After(from, k, down) /\ W2[0] = W[l] /\ M2[Len(u)] = to /\ W2[Len(u)] = <<>>
  <2>1. W[Len(w)] = <<>> /\ l + 0 = l
    BY <1>2, <1>11 DEF Follows
  <2> HIDE DEF C, M2, W2
  <2> QED BY <1>2, <1>10, <1>11, <1>13, <2>1
<1>20. \A b \in 0 .. Len(u) : l + b \in B => b \in C
  OBVIOUS
<1>21. \A b \in C : l + b \in B
  OBVIOUS
<1>22. C \in SUBSET (0 .. Len(u))
  OBVIOUS
<1> HIDE DEF C, M2, W2
<1>15. ASSUME NEW b \in C, b # Len(u) PROVE SentAt(u, C, M2, W2, b)
  <2>1. b \in Nat /\ l + b \in B /\ l + b # Len(w)
    BY SMTT(30), <1>4, <1>11, <1>13, <1>15, <1>21
  <2>2. SentAt(w, B, M, W, l + b)
    BY <1>2, <2>1 DEF Follows
  <2>3. PICK j \in Signals, up \in BOOLEAN :
          /\ CodesOf(j, up) # <<>> /\ GroupAt(w, l + b, CodesOf(j, up))
          /\ (l + b) + Len(CodesOf(j, up)) \in B
          /\ M[(l + b) + Len(CodesOf(j, up))] = After(M[l + b], j, up)
          /\ W[l + b] = Wants(M[l + b], j, up) \o W[(l + b) + Len(CodesOf(j, up))]
    BY <2>2 DEF SentAt
  <2> DEFINE h == CodesOf(j, up)
  <2>4. Len(h) \in Nat
    BY SignalsSent
  <2>5. b + Len(h) <= Len(u)
    BY <1>4, <1>11, <2>1, <2>3, <2>4 DEF GroupAt
  <2>6. ASSUME NEW i \in 1 .. Len(h) PROVE u[b + i] = h[i]
    <3>3. i \in Nat /\ i >= 1 /\ i <= Len(h)
      BY <2>4
    <3>1. b + i \in 1 .. Len(u) /\ (l + b) + i = l + (b + i)
      BY <1>4, <1>11, <2>1, <2>4, <2>5, <3>3
    <3>2. w[(l + b) + i] = h[i]
      BY <2>3 DEF GroupAt
    <3> QED BY <1>11, <3>1, <3>2
  <2>7. GroupAt(u, b, h)
    BY <2>5, <2>6 DEF GroupAt
  <2>8. b + Len(h) \in 0 .. Len(u) /\ l + (b + Len(h)) = (l + b) + Len(h)
    BY <1>4, <1>11, <2>1, <2>4, <2>5
  <2>9. b + Len(h) \in C /\ M2[b + Len(h)] = M[(l + b) + Len(h)] /\ W2[b + Len(h)] = W[(l + b) + Len(h)]
    BY <1>13, <1>20, <2>3, <2>8
  <2> QED BY <1>13, <2>3, <2>7, <2>9 DEF SentAt
<1>16. Follows(u, C, M2, W2)
  BY <1>13, <1>14, <1>15 DEF Follows
<1>17. Explains(u, After(from, k, down), W[l], to)
  BY <1>12, <1>14, <1>16, <1>22 DEF Explains
<1>18. W[l] \in Seq(Wishes)
  BY <1>10
<1> QED BY <1>9, <1>10, <1>17, <1>18 DEF KeyFirst, s

-----------------------------------------------------------------------------
(* The key that keyboard_read makes of the codes.                          *)

\* What the key depends on in the call that reads it, whose terminal is rd.tty.
Felt == [shift |-> locks.shift_l, alt |-> locks.alt_l, caps |-> locks.caps_lock,
         num |-> locks.num_lock, tty |-> rd.tty]

\* row and make of GetByte, when keyboard_read looks at the codes.
RowOf(s) == ScanCode(s) % FLAG_BREAK

KeyOf(s) == keymap[RowOf(s)][Column(s, RowOf(s))]

MakeOf(s) == ScanCode(s) < FLAG_BREAK

LEMMA NotSpecial ==
  ASSUME NEW s \in Seq(Nat), NEW n \in {1, 2}, Len(s) = n
  PROVE  s \notin {PauseCodes, PrintMake, PrintBreak}
<1>1. ASSUME NEW q, Len(q) >= 4 PROVE s # q
  <2>1. ~(n >= 4)
    OBVIOUS
  <2> QED BY <1>1, <2>1, Zenon
<1>2. Len(PauseCodes) >= 4
  BY PauseIs
<1>3. Len(PrintMake) >= 4 /\ Len(PrintBreak) >= 4
  BY PrintMakeIs, PrintBreakIs
<1> QED BY <1>1, <1>2, <1>3

\* One code tells its row; with E0 before it, its row and the third column.
LEMMA OneCodeRead ==
  ASSUME NEW c \in Nat, c # 225
  PROVE  /\ ScanCode(<<c>>) = c /\ ~CodeWithE0(<<c>>)
         /\ <<c>> \notin {PauseCodes, PrintMake, PrintBreak}
<1>1. ScanCode(<<c>>) = c /\ ~CodeWithE0(<<c>>)
  BY DEF ScanCode, CodeWithE0, Last, E1
<1>2. <<c>> \in Seq(Nat) /\ Len(<<c>>) = 1
  OBVIOUS
<1>4. <<c>> \notin {PauseCodes, PrintMake, PrintBreak}
  BY <1>2, NotSpecial
<1> QED BY <1>1, <1>4

LEMMA TwoCodesRead ==
  ASSUME NEW c \in Nat
  PROVE  /\ ScanCode(<<224, c>>) = c /\ CodeWithE0(<<224, c>>)
         /\ <<224, c>> \notin {PauseCodes, PrintMake, PrintBreak}
<1>1. ScanCode(<<224, c>>) = c /\ CodeWithE0(<<224, c>>)
  BY DEF ScanCode, CodeWithE0, Last, E0, E1
<1>2. <<224, c>> \in Seq(Nat) /\ Len(<<224, c>>) = 2
  OBVIOUS
<1>4. <<224, c>> \notin {PauseCodes, PrintMake, PrintBreak}
  BY <1>2, NotSpecial
<1> QED BY <1>1, <1>4

\* make and the key of each signal that keyboard_read looks at.
LEMMA OneCodeMade ==
  ASSUME NEW k \in {"a", "ENTER", "SHIFT_L", "ALT_L", "CAPS_LOCK", "NUM_LOCK", "F2", "PAD_7"},
         NEW down \in BOOLEAN
  PROVE  /\ MakeOf(CodesOf(k, down)) = down
         /\ KeyOf(CodesOf(k, down)) = keymap[KeyRow[k]][IF Caps(KeyRow[k]) THEN 2 ELSE 1]
         /\ CodesOf(k, down) \notin {PauseCodes, PrintMake, PrintBreak}
<1>1. PICK r \in 0 .. 127 : r = KeyRow[k] /\ r # 97
  BY OneCodeSent
<1>2. CodesOf(k, down) = <<IF down THEN r ELSE r + 128>>
  BY <1>1, OneCodeSent DEF CodesOf
<1>3. PICK c \in Nat : c = (IF down THEN r ELSE r + 128)
  OBVIOUS
<1>4. c # 225 /\ (c < 128 <=> down) /\ c % 128 = r
  BY <1>1, <1>3
<1>5. ScanCode(<<c>>) = c /\ ~CodeWithE0(<<c>>) /\ <<c>> \notin {PauseCodes, PrintMake, PrintBreak}
  BY <1>4, OneCodeRead
<1>6. RowOf(<<c>>) = r /\ MakeOf(<<c>>) = down
  BY <1>4, <1>5 DEF RowOf, MakeOf, FLAG_BREAK
<1>7. KeyOf(<<c>>) = keymap[r][IF Caps(r) THEN 2 ELSE 1]
  BY <1>5, <1>6, Zenon DEF KeyOf, Column
<1> QED BY <1>1, <1>2, <1>3, <1>5, <1>6, <1>7

LEMMA TwoCodesMade ==
  ASSUME NEW k \in {"UP", "ALT_R"}, NEW down \in BOOLEAN
  PROVE  /\ MakeOf(CodesOf(k, down)) = down
         /\ KeyOf(CodesOf(k, down)) = k
         /\ CodesOf(k, down) \notin {PauseCodes, PrintMake, PrintBreak}
<1>1. PICK r \in {56, 72} : r = IF k = "UP" THEN 72 ELSE 56
  OBVIOUS
<1>2. CodesOf(k, down) = <<224, IF down THEN r ELSE r + 128>>
  <2>1. MakeCodes(k) = <<224, r>> /\ BreakCodes(k) = <<224, r + 128>>
    BY <1>1, TwoCodesSent
  <2> QED BY <2>1 DEF CodesOf
<1>3. PICK c \in Nat : c = (IF down THEN r ELSE r + 128)
  OBVIOUS
<1>4. (c < 128 <=> down) /\ c % 128 = r
  BY <1>1, <1>3
<1>5. /\ ScanCode(<<224, c>>) = c /\ CodeWithE0(<<224, c>>)
      /\ <<224, c>> \notin {PauseCodes, PrintMake, PrintBreak}
  BY TwoCodesRead
<1>6. RowOf(<<224, c>>) = r /\ MakeOf(<<224, c>>) = down
  BY <1>4, <1>5 DEF RowOf, MakeOf, FLAG_BREAK
<1>7. KeyOf(<<224, c>>) = keymap[r][3]
  BY <1>5, <1>6, Zenon DEF KeyOf, Column
<1>8. keymap[r][3] = k
  BY <1>1, Rows
<1> QED BY <1>2, <1>3, <1>5, <1>6, <1>7, <1>8

LEMMA AckMade ==
  /\ MakeOf(<<ACK>>) = FALSE /\ KeyOf(<<ACK>>) = NONE
  /\ <<ACK>> \notin {PauseCodes, PrintMake, PrintBreak}
<1>1. /\ ScanCode(<<250>>) = 250 /\ ~CodeWithE0(<<250>>)
      /\ <<250>> \notin {PauseCodes, PrintMake, PrintBreak}
  BY OneCodeRead
<1>2. RowOf(<<250>>) = 122 /\ MakeOf(<<250>>) = FALSE
  BY <1>1 DEF RowOf, MakeOf, FLAG_BREAK
<1>3. Column(<<250>>, 122) \in {1, 2, 3}
  BY <1>1 DEF Column
<1>4. KeyOf(<<250>>) = NONE
  BY <1>2, <1>3, Rows DEF KeyOf
<1> QED BY <1>1, <1>2, <1>4 DEF ACK

LEMMA CapsAre ==
  ASSUME LockTypes
  PROVE  /\ Caps(30) <=> (locks.shift_l # locks.caps_lock)
         /\ Caps(71) <=> locks.shift_l
<1>1. locks.shift_r = FALSE /\ locks.shift_l \in BOOLEAN /\ locks.caps_lock \in BOOLEAN
  BY DEF LockTypes
<1>2. keymap[30][1] = "a" /\ keymap[71][1] # "a"
  BY Rows
<1> QED BY <1>1, <1>2 DEF Caps

\* The key of each signal that keyboard_read looks at.
LEMMA KeysMade ==
  ASSUME LockTypes, NEW k \in Signals \ {"PAUSEBREAK", "PRINTSCREEN"}, NEW down \in BOOLEAN
  PROVE  /\ KeyOf(CodesOf(k, down)) =
              CASE k = "a" -> IF locks.shift_l # locks.caps_lock THEN "A" ELSE "a"
                [] k = "PAD_7" -> IF locks.shift_l THEN "7" ELSE "PAD_7"
                [] k = "ACK" -> NONE
                [] OTHER -> k
         /\ MakeOf(CodesOf(k, down)) = (down /\ k # "ACK")
         /\ CodesOf(k, down) \notin {PauseCodes, PrintMake, PrintBreak}
<1> DEFINE key == KeyOf(CodesOf(k, down))
<1>1. CASE k = "ACK"
  <2>1. CodesOf(k, down) = <<ACK>>
    BY <1>1 DEF CodesOf
  <2> QED BY <1>1, <2>1, AckMade
<1>2. CASE k \in {"UP", "ALT_R"}
  BY <1>2, TwoCodesMade
<1>3. CASE k \in {"a", "ENTER", "SHIFT_L", "ALT_L", "CAPS_LOCK", "NUM_LOCK", "F2", "PAD_7"}
  <2>1. /\ MakeOf(CodesOf(k, down)) = down
        /\ key = keymap[KeyRow[k]][IF Caps(KeyRow[k]) THEN 2 ELSE 1]
        /\ CodesOf(k, down) \notin {PauseCodes, PrintMake, PrintBreak}
    BY <1>3, OneCodeMade
  <2> HIDE DEF key
  <2>2. CASE k = "a"
    <3>1. KeyRow[k] = 30
      BY <2>2 DEF KeyRow
    <3>2. key = IF locks.shift_l # locks.caps_lock THEN "A" ELSE "a"
      BY <2>1, <3>1, Rows, CapsAre
    <3> QED BY <2>1, <2>2, <3>2 DEF key
  <2>3. CASE k = "PAD_7"
    <3>1. KeyRow[k] = 71
      BY <2>3 DEF KeyRow
    <3>2. key = IF locks.shift_l THEN "7" ELSE "PAD_7"
      BY <2>1, <3>1, Rows, CapsAre
    <3> QED BY <2>1, <2>3, <3>2 DEF key
  <2>4. CASE k \in {"ENTER", "SHIFT_L", "ALT_L", "CAPS_LOCK", "NUM_LOCK", "F2"}
    <3>1. keymap[KeyRow[k]][1] = k /\ keymap[KeyRow[k]][2] = k
      BY <2>4, Rows DEF KeyRow
    <3>2. key = k
      BY <2>1, <3>1
    <3> QED BY <2>1, <2>4, <3>2 DEF key
  <2> QED BY <1>3, <2>2, <2>3, <2>4
<1> QED BY <1>1, <1>2, <1>3 DEF Signals, AllKeys

LEMMA LockedTyped ==
  ASSUME LockTypes, NEW key, NEW make \in BOOLEAN
  PROVE  Locked(key, make) \in [shift_l : BOOLEAN, shift_r : {FALSE}, alt_l : BOOLEAN,
                                caps_lock : BOOLEAN, num_lock : BOOLEAN]
<1>1. /\ [locks EXCEPT !.shift_l = make] \in
            [shift_l : BOOLEAN, shift_r : {FALSE}, alt_l : BOOLEAN, caps_lock : BOOLEAN, num_lock : BOOLEAN]
      /\ [locks EXCEPT !.alt_l = make] \in
            [shift_l : BOOLEAN, shift_r : {FALSE}, alt_l : BOOLEAN, caps_lock : BOOLEAN, num_lock : BOOLEAN]
  BY DEF LockTypes
<1>2. /\ [locks EXCEPT !.caps_lock = ~@] \in
            [shift_l : BOOLEAN, shift_r : {FALSE}, alt_l : BOOLEAN, caps_lock : BOOLEAN, num_lock : BOOLEAN]
      /\ [locks EXCEPT !.num_lock = ~@] \in
            [shift_l : BOOLEAN, shift_r : {FALSE}, alt_l : BOOLEAN, caps_lock : BOOLEAN, num_lock : BOOLEAN]
  BY DEF LockTypes
<1>3. CASE key = "SHIFT_L"
  BY <1>1, <1>3 DEF Locked
<1>4. CASE key \in {"ALT_L", "ALT_R"}
  BY <1>1, <1>4 DEF Locked
<1>5. CASE key = "CAPS_LOCK" /\ make
  BY <1>2, <1>5 DEF Locked
<1>6. CASE key = "NUM_LOCK" /\ make
  BY <1>2, <1>6 DEF Locked
<1> QED BY <1>3, <1>4, <1>5, <1>6, Zenon DEF Locked, LockTypes

\* The locks are those of st.
Agree(l, st) ==
  /\ l.shift_l = st.shift /\ l.alt_l = st.alt
  /\ l.caps_lock = st.caps /\ l.num_lock = st.num

\* What it does to the locks.
LEMMA LocksMade ==
  ASSUME LockTypes, NEW k \in Signals \ {"PAUSEBREAK", "PRINTSCREEN"}, NEW down \in BOOLEAN,
         NEW l, l = Locked(KeyOf(CodesOf(k, down)), MakeOf(CodesOf(k, down)))
  PROVE  Agree(l, After(Seen, k, down))
<1> DEFINE key == KeyOf(CodesOf(k, down))
           make == MakeOf(CodesOf(k, down))
           after == After(Seen, k, down)
<1>1. make = (down /\ k # "ACK")
  BY KeysMade
<1>2. key = CASE k = "a" -> IF locks.shift_l # locks.caps_lock THEN "A" ELSE "a"
              [] k = "PAD_7" -> IF locks.shift_l THEN "7" ELSE "PAD_7"
              [] k = "ACK" -> NONE
              [] OTHER -> k
  BY KeysMade
<1>3. l = Locked(key, make)
  OBVIOUS
<1>4. /\ after.shift = IF k = "SHIFT_L" THEN down ELSE locks.shift_l
      /\ after.alt = IF k \in {"ALT_L", "ALT_R"} THEN down ELSE locks.alt_l
      /\ after.caps = IF k = "CAPS_LOCK" /\ down THEN ~locks.caps_lock ELSE locks.caps_lock
      /\ after.num = IF k = "NUM_LOCK" /\ down THEN ~locks.num_lock ELSE locks.num_lock
  BY DEF After, Seen
<1>5. LockTypes
  OBVIOUS
<1> HIDE DEF key, make, after
<1>6. CASE k = "SHIFT_L"
  <2>1. l = [locks EXCEPT !.shift_l = down]
    BY <1>1, <1>2, <1>3, <1>6 DEF Locked
  <2> QED BY <1>4, <1>5, <1>6, <2>1 DEF LockTypes, after, Agree
<1>7. CASE k \in {"ALT_L", "ALT_R"}
  <2>1. l = [locks EXCEPT !.alt_l = down]
    BY <1>1, <1>2, <1>3, <1>7 DEF Locked
  <2> QED BY <1>4, <1>5, <1>7, <2>1 DEF LockTypes, after, Agree
<1>8. CASE k = "CAPS_LOCK" /\ down
  <2>1. l = [locks EXCEPT !.caps_lock = ~locks.caps_lock]
    BY <1>1, <1>2, <1>3, <1>8 DEF Locked
  <2> QED BY <1>4, <1>5, <1>8, <2>1 DEF LockTypes, after, Agree
<1>9. CASE k = "NUM_LOCK" /\ down
  <2>1. l = [locks EXCEPT !.num_lock = ~locks.num_lock]
    BY <1>1, <1>2, <1>3, <1>9 DEF Locked
  <2> QED BY <1>4, <1>5, <1>9, <2>1 DEF LockTypes, after, Agree
<1>10. CASE /\ k \notin {"SHIFT_L", "ALT_L", "ALT_R"}
            /\ ~(k = "CAPS_LOCK" /\ down) /\ ~(k = "NUM_LOCK" /\ down)
  <2>1. key \notin {"SHIFT_L", "ALT_L", "ALT_R"}
    BY <1>2, <1>10 DEF NONE
  <2>2. ~(key = "CAPS_LOCK" /\ make) /\ ~(key = "NUM_LOCK" /\ make)
    BY <1>1, <1>2, <1>10 DEF NONE
  <2>3. l = locks
    BY <1>3, <2>1, <2>2 DEF Locked
  <2> QED BY <1>4, <1>5, <1>10, <2>3 DEF LockTypes, after, Agree
<1> QED BY <1>6, <1>7, <1>8, <1>9, <1>10

\* What in_process does of it.
LEMMA WishMade ==
  ASSUME LockTypes, NEW k \in Signals \ {"PAUSEBREAK", "PRINTSCREEN"}, NEW down \in BOOLEAN
  PROVE  (IF MakeOf(CodesOf(k, down)) THEN Effect(Padded(KeyOf(CodesOf(k, down)))) ELSE <<>>)
           = Wants(Felt, k, down)
<1> DEFINE key == KeyOf(CodesOf(k, down))
           make == MakeOf(CodesOf(k, down))
           done == IF make THEN Effect(Padded(key)) ELSE <<>>
<1>1. make = (down /\ k # "ACK")
  BY KeysMade
<1>2. key = CASE k = "a" -> IF locks.shift_l # locks.caps_lock THEN "A" ELSE "a"
              [] k = "PAD_7" -> IF locks.shift_l THEN "7" ELSE "PAD_7"
              [] k = "ACK" -> NONE
              [] OTHER -> k
  BY KeysMade
<1>3. Shifted = locks.shift_l
  BY DEF Shifted, LockTypes
<1>4. /\ Felt.shift = locks.shift_l /\ Felt.alt = locks.alt_l /\ Felt.caps = locks.caps_lock
      /\ Felt.num = locks.num_lock /\ Felt.tty = rd.tty
  BY DEF Felt
<1> HIDE DEF key, make
<1>5. CASE ~make
  <2>1. Wants(Felt, k, down) = <<>>
    BY <1>1, <1>5 DEF Wants
  <2> QED BY <1>5, <2>1 DEF key, make
<1>6. CASE make
  <2>0. done = Effect(Padded(key)) /\ down
    BY <1>1, <1>6
  <2>1. CASE k = "a"
    <3>1. key \in {"a", "A"} /\ key = IF locks.shift_l # locks.caps_lock THEN "A" ELSE "a"
      BY <1>2, <2>1
    <3>2. Padded(key) = key
      BY <3>1 DEF Padded
    <3>3. Effect(key) = <<[put |-> key, tty |-> rd.tty]>>
      BY <3>1 DEF Effect
    <3>4. Wants(Felt, k, down) = <<[put |-> key, tty |-> rd.tty]>>
      BY <1>4, <2>0, <2>1, <3>1 DEF Wants
    <3> QED BY <2>0, <3>2, <3>3, <3>4 DEF key, make
  <2>2. CASE k = "ENTER"
    <3>1. Padded(key) = "ENTER"
      BY <1>2, <2>2 DEF Padded
    <3>2. Effect("ENTER") = <<[put |-> "\n", tty |-> rd.tty]>>
      BY DEF Effect, NONE
    <3>3. Wants(Felt, k, down) = <<[put |-> "\n", tty |-> rd.tty]>>
      BY <1>4, <2>0, <2>2 DEF Wants
    <3> QED BY <2>0, <3>1, <3>2, <3>3 DEF key, make
  <2>3. CASE k = "PAD_7"
    <3>1. Padded(key) = IF locks.shift_l \/ locks.num_lock THEN "7" ELSE "HOME"
      BY <1>2, <2>3 DEF Padded
    <3>2. Effect("7") = <<[put |-> "7", tty |-> rd.tty]>> /\ Effect("HOME") = <<>>
      BY DEF Effect, NONE
    <3>3. Wants(Felt, k, down) = IF locks.shift_l \/ locks.num_lock
                                 THEN <<[put |-> "7", tty |-> rd.tty]>> ELSE <<>>
      BY <1>4, <2>0, <2>3 DEF Wants
    <3> QED BY <2>0, <3>1, <3>2, <3>3 DEF key, make
  <2>4. CASE k = "UP"
    <3>1. Padded(key) = "UP"
      BY <1>2, <2>4 DEF Padded
    <3>2. Effect("UP") = IF locks.shift_l THEN <<[scroll |-> "SCR_DN", tty |-> rd.tty]>> ELSE <<>>
      BY <1>3 DEF Effect, NONE
    <3>3. Wants(Felt, k, down) = IF locks.shift_l THEN <<[scroll |-> "SCR_DN", tty |-> rd.tty]>>
                                 ELSE <<>>
      BY <1>4, <2>0, <2>4 DEF Wants
    <3> QED BY <2>0, <3>1, <3>2, <3>3 DEF key, make
  <2>5. CASE k = "F2"
    <3>1. Padded(key) = "F2"
      BY <1>2, <2>5 DEF Padded
    <3>2. Effect("F2") = IF locks.alt_l THEN <<[select |-> 1]>> ELSE <<>>
      BY DEF Effect, NONE
    <3>3. Wants(Felt, k, down) = IF locks.alt_l THEN <<[select |-> 1]>> ELSE <<>>
      BY <1>4, <2>0, <2>5 DEF Wants
    <3> QED BY <2>0, <3>1, <3>2, <3>3 DEF key, make
  <2>6. CASE k \in {"SHIFT_L", "ALT_L", "ALT_R", "CAPS_LOCK", "NUM_LOCK"}
    <3>1. key = k /\ Padded(key) = k
      BY <1>2, <2>6 DEF Padded
    <3>2. Effect(k) = <<>>
      BY <2>6 DEF Effect, NONE
    <3>3. Wants(Felt, k, down) = <<>>
      BY <2>6 DEF Wants
    <3> QED BY <2>0, <3>1, <3>2, <3>3 DEF key, make
  <2> QED BY <1>1, <1>6, <2>1, <2>2, <2>3, <2>4, <2>5, <2>6 DEF Signals, AllKeys
<1> QED BY <1>5, <1>6

-----------------------------------------------------------------------------
(* What in_process does of it.                                             *)

\* Pause and PrintScreen; a key that is not looked at; and one that is.
LEMMA KeyCases ==
  ASSUME GetByte, ~More(Read)
  PROVE  \E done, skipped :
           /\ Obey(done) /\ Check(done, skipped) /\ UNCHANGED <<wire, held, typed, meant>>
           /\ \/ /\ Read \in {PauseCodes, PrintMake, PrintBreak}
                 /\ done = <<>> /\ skipped = FALSE /\ locks' = locks
              \/ /\ Read \notin {PauseCodes, PrintMake, PrintBreak}
                 /\ skipped = TRUE /\ locks' = locks
              \/ /\ Read \notin {PauseCodes, PrintMake, PrintBreak}
                 /\ skipped = FALSE /\ locks' = Locked(KeyOf(Read), MakeOf(Read))
                 /\ done = IF MakeOf(Read) THEN Effect(Padded(KeyOf(Read))) ELSE <<>>
<1> DEFINE special == CASE Read = PauseCodes -> "PAUSEBREAK"
                        [] Read \in {PrintMake, PrintBreak} -> "PRINTSCREEN"
                        [] OTHER -> rd.key
           looked == special = "other"
           make == CASE Read = PrintMake -> TRUE
                     [] Read = PrintBreak -> FALSE
                     [] OTHER -> IF looked THEN MakeOf(Read) ELSE rd.make
           key == IF looked THEN KeyOf(Read) ELSE special
           done == IF make THEN Effect(Padded(key)) ELSE <<>>
           skipped == ~looked /\ Read \notin {PauseCodes, PrintMake, PrintBreak}
<1>1. /\ Obey(done) /\ Check(done, skipped) /\ UNCHANGED <<wire, held, typed, meant>>
      /\ locks' = IF looked THEN Locked(key, make) ELSE locks
  BY Zenon DEF GetByte, Read, KeyOf, MakeOf, RowOf
<1>2. CASE Read \in {PauseCodes, PrintMake, PrintBreak}
  <2>1. special \in {"PAUSEBREAK", "PRINTSCREEN"}
    BY <1>2
  <2>2. ~looked /\ key = special /\ skipped = FALSE
    BY <1>2, <2>1
  <2>3. Padded(key) = key /\ Effect(key) = <<>>
    BY <2>1, <2>2 DEF Padded, Effect, NONE
  <2>4. done = <<>>
    BY <2>3
  <2> HIDE DEF done, skipped, looked
  <2> QED BY <1>1, <1>2, <2>2, <2>4
<1>3. CASE Read \notin {PauseCodes, PrintMake, PrintBreak} /\ rd.key # "other"
  <2>1. ~looked /\ skipped = TRUE
    BY <1>3
  <2> HIDE DEF done, skipped, looked
  <2> QED BY <1>1, <1>3, <2>1
<1>4. CASE Read \notin {PauseCodes, PrintMake, PrintBreak} /\ rd.key = "other"
  <2>1. looked /\ skipped = FALSE /\ key = KeyOf(Read) /\ make = MakeOf(Read)
    BY <1>4
  <2>2. done = IF MakeOf(Read) THEN Effect(Padded(KeyOf(Read))) ELSE <<>>
    BY <2>1
  <2> HIDE DEF done, skipped, looked, key, make
  <2> QED BY <1>1, <1>4, <2>1, <2>2
<1> QED BY <1>2, <1>3, <1>4

\* What was due is done.
LEMMA WishDone ==
  ASSUME NEW e, e = <<>> \/ \E x \in Wishes : e = <<x>>,
         NEW rest \in Seq(Wishes), NEW skipped, due = e \o rest,
         Check(e, skipped), spoiled' = {}, wrong = FALSE
  PROVE  /\ due' = rest /\ wrong' = FALSE /\ spoiled = {} /\ ~skipped
         /\ e # <<>> /\ "select" \notin DOMAIN e[1] => rd.tty = current_console
<1>1. /\ due' = IF due # <<>> /\ e # <<>> THEN Tail(due) ELSE due
      /\ wrong' = (wrong \/ (spoiled' = {} /\ e # <<>> /\ (due = <<>> \/ Head(due) # e[1])))
      /\ spoiled = {} /\ ~skipped
      /\ e # <<>> /\ "select" \notin DOMAIN e[1] => rd.tty = current_console
  BY DEF Check, Due
<1>2. CASE e = <<>>
  BY <1>1, <1>2, ConcatEmptySeq
<1>3. CASE e # <<>>
  <2>1. PICK x \in Wishes : e = <<x>>
    BY <1>3
  <2>2. e[1] = x
    BY <2>1
  <2>3. <<x>> \o rest # <<>> /\ Head(<<x>> \o rest) = x /\ Tail(<<x>> \o rest) = rest
    OBVIOUS
  <2>4. due # <<>> /\ Head(due) = x /\ Tail(due) = rest
    BY <2>1, <2>3, Zenon
  <2> QED BY <1>1, <1>3, <2>2, <2>4
<1> QED BY <1>2, <1>3

\* A key asks for one thing at most; the console matters to what is written
\* and scrolled only.
LEMMA OneWish ==
  ASSUME NEW st \in Minds, NEW k \in Signals, NEW down \in BOOLEAN
  PROVE  \/ Wants(st, k, down) = <<>>
         \/ /\ k = "F2" /\ down /\ st.alt
            /\ Wants(st, k, down) = <<[select |-> 1]>>
         \/ /\ ~(k = "F2" /\ down /\ st.alt)
            /\ \E x \in Wishes : Wants(st, k, down) = <<x>> /\ "select" \notin DOMAIN x
<1>1. st.tty \in Nat
  BY DEF Minds
<1>2. /\ \A c \in {"a", "A", "\n", "7"} : [put |-> c, tty |-> st.tty] \in Wishes
      /\ [scroll |-> "SCR_DN", tty |-> st.tty] \in Wishes
  BY <1>1 DEF Wishes
<1>3. /\ \A c \in {"a", "A", "\n", "7"} : "select" \notin DOMAIN [put |-> c, tty |-> st.tty]
      /\ "select" \notin DOMAIN [scroll |-> "SCR_DN", tty |-> st.tty]
  OBVIOUS
<1>4. CASE k = "a" /\ down
  BY <1>2, <1>3, <1>4 DEF Wants
<1>5. CASE k = "ENTER" /\ down
  BY <1>2, <1>3, <1>5 DEF Wants
<1>6. CASE k = "PAD_7" /\ down /\ (st.shift \/ st.num)
  BY <1>2, <1>3, <1>6 DEF Wants
<1>7. CASE k = "UP" /\ down /\ st.shift
  BY <1>2, <1>3, <1>7 DEF Wants
<1>8. CASE k = "F2" /\ down /\ st.alt
  BY <1>8 DEF Wants
<1> QED BY <1>4, <1>5, <1>6, <1>7, <1>8 DEF Wants

LEMMA NoWish ==
  ASSUME NEW st, NEW k, NEW down
  PROVE  Wants(st, k, down) = <<>> <=>
           ~(down /\ \/ k \in {"a", "ENTER"}
                     \/ k = "PAD_7" /\ (st.shift \/ st.num)
                     \/ k = "UP" /\ st.shift
                     \/ k = "F2" /\ st.alt)
<1>1. \A x : <<x>> # <<>>
  OBVIOUS
<1>2. CASE k = "a" /\ down
  BY <1>1, <1>2 DEF Wants
<1>3. CASE k = "ENTER" /\ down
  BY <1>1, <1>3 DEF Wants
<1>4. CASE k = "PAD_7" /\ down /\ (st.shift \/ st.num)
  BY <1>1, <1>4 DEF Wants
<1>5. CASE k = "UP" /\ down /\ st.shift
  BY <1>1, <1>5 DEF Wants
<1>6. CASE k = "F2" /\ down /\ st.alt
  BY <1>1, <1>6 DEF Wants
<1>7. CASE ~(down /\ \/ k \in {"a", "ENTER"}
                     \/ k = "PAD_7" /\ (st.shift \/ st.num)
                     \/ k = "UP" /\ st.shift
                     \/ k = "F2" /\ st.alt)
  <2>1. Wants(st, k, down) = <<>>
    BY <1>7 DEF Wants
  <2> QED BY <1>7, <2>1
<1> QED BY <1>2, <1>3, <1>4, <1>5, <1>6, <1>7

\* in_process does what was due, and leaves what the next keys depend on.
LEMMA KeyDone ==
  ASSUME KeysExplained, spoiled' = {}, NEW k \in Signals, NEW down \in BOOLEAN,
         NEW rest \in Seq(Wishes), due = Wants(Seen, k, down) \o rest,
         NEW done, NEW skipped, Obey(done), Check(done, skipped),
         done = Wants(Felt, k, down)
  PROVE  due' = rest /\ wrong' = FALSE /\ current_console' = After(Seen, k, down).tty
<1>1. Felt \in Minds /\ Felt.alt = locks.alt_l
  BY DEF KeysExplained, LockTypes, Felt, Minds
<1>2. After(Seen, k, down).tty = IF k = "F2" /\ down /\ locks.alt_l THEN 1 ELSE current_console
  BY DEF After, Seen
<1>3. wrong = FALSE
  BY DEF KeysExplained
<1>4. CASE done = <<>>
  <2> PICK f : f = Felt
    OBVIOUS
  <2> PICK g : g = Seen
    OBVIOUS
  <2>4. f.shift = g.shift /\ f.alt = g.alt /\ f.num = g.num /\ g.alt = locks.alt_l
    BY DEF Felt, Seen
  <2>5. Wants(f, k, down) = <<>>
    BY <1>4
  <2>6. Wants(g, k, down) = <<>> /\ ~(k = "F2" /\ down /\ locks.alt_l)
    BY <2>4, <2>5, NoWish, Zenon
  <2>1. Wants(Seen, k, down) = <<>>
    BY <2>6
  <2>2. ~(k = "F2" /\ down /\ locks.alt_l)
    BY <2>6
  <2>3. current_console' = current_console
    BY <1>4 DEF Obey
  <2> QED BY <1>2, <1>3, <1>4, <2>1, <2>2, <2>3, WishDone
<1>5. CASE k = "F2" /\ down /\ locks.alt_l
  <2>1. done = <<[select |-> 1]>> /\ Wants(Seen, k, down) = <<[select |-> 1]>>
    BY <1>5 DEF Wants, Felt, Seen
  <2>2. [select |-> 1] \in Wishes
    BY DEF Wishes
  <2>3. current_console' = 1
    BY <2>1 DEF Obey
  <2>4. \E x \in Wishes : done = <<x>>
    BY <2>1, <2>2
  <2> QED BY <1>2, <1>3, <1>5, <2>1, <2>3, <2>4, WishDone
<1>6. CASE done # <<>> /\ ~(k = "F2" /\ down /\ locks.alt_l)
  <2>1. PICK x \in Wishes : done = <<x>> /\ "select" \notin DOMAIN x
    BY <1>1, <1>6, OneWish
  <2>2. rd.tty = current_console
    <3>1. done[1] = x
      BY <2>1
    <3> QED BY <1>6, <2>1, <3>1 DEF Check, Due
  <2>3. Felt = Seen
    BY <2>2 DEF Felt, Seen
  <2>4. due = done \o rest
    BY <2>3
  <2>5. current_console' = current_console
    <3>1. done[1] = x
      BY <2>1
    <3> QED BY <2>1, <3>1 DEF Obey
  <2> QED BY <1>2, <1>3, <1>6, <2>1, <2>4, <2>5, WishDone
<1> QED BY <1>4, <1>5, <1>6

-----------------------------------------------------------------------------
(* Every step keeps the codes explained.                                   *)

LEMMA InitExplained ==
  ASSUME ConInit, KbInit
  PROVE  KeysExplained
<1>1. /\ locks = [shift_l |-> FALSE, shift_r |-> FALSE, alt_l |-> FALSE,
                  caps_lock |-> FALSE, num_lock |-> TRUE]
      /\ meant = [caps_lock |-> FALSE, num_lock |-> TRUE, tty |-> 0]
      /\ due = <<>> /\ wrong = FALSE /\ held = {} /\ current_console = 0
      /\ wire = <<>> /\ kb_in = <<>> /\ rd.got = <<>> /\ rd.tty = 0
  BY DEF KbInit, ConInit, NoRead
<1>2. /\ LockTypes /\ meant \in [caps_lock : BOOLEAN, num_lock : BOOLEAN, tty : Nat]
      /\ current_console \in Nat
  BY <1>1 DEF LockTypes
<1>3. Shift = FALSE /\ Alt = FALSE
  BY <1>1, HeldKeys DEF Shift, Alt
<1>4. Meant = Seen /\ Seen \in Minds
  BY <1>1, <1>3 DEF Meant, Seen, Minds
<1>5. Codes = <<>>
  BY <1>1 DEF Codes
<1>6. Explains(Codes, Seen, due, Meant)
  BY <1>1, <1>4, <1>5, NoneExplained
<1> QED BY <1>1, <1>2, <1>6 DEF KeysExplained

LEMMA AsksWants ==
  ASSUME NEW k \in AllKeys
  PROVE  Asks(k) = Wants(Meant, k, TRUE)
<1>1. /\ Meant.shift = Shift /\ Meant.alt = Alt /\ Meant.caps = meant.caps_lock
      /\ Meant.num = meant.num_lock /\ Meant.tty = meant.tty
  BY DEF Meant
<1> QED BY <1>1 DEF Asks, Wants

LEMMA PressExplained ==
  ASSUME KeysWhole, KeysExplained, NEW k \in Keys, Press(k), UNCHANGED convars
  PROVE  KeysExplained'
<1>1. /\ wire = <<>> /\ spoiled = {} /\ wire' = MakeCodes(k) /\ held' = held \union {k}
      /\ kb_in' = kb_in /\ locks' = locks /\ rd' = rd /\ wrong' = wrong
      /\ current_console' = current_console
  BY DEF Press, convars
<1>2. k \in AllKeys
  BY KeyboardAssumption
<1>3. meant' = CASE k = "CAPS_LOCK" -> [meant EXCEPT !.caps_lock = ~@]
                 [] k = "NUM_LOCK"  -> [meant EXCEPT !.num_lock = ~@]
                 [] k = "F2" /\ Alt -> [meant EXCEPT !.tty = 1]
                 [] OTHER -> meant
  BY DEF Press
<1>4. meant \in [caps_lock : BOOLEAN, num_lock : BOOLEAN, tty : Nat]
  BY DEF KeysExplained
<1>5. /\ meant' \in [caps_lock : BOOLEAN, num_lock : BOOLEAN, tty : Nat]
      /\ meant'.caps_lock = IF k = "CAPS_LOCK" THEN ~meant.caps_lock ELSE meant.caps_lock
      /\ meant'.num_lock = IF k = "NUM_LOCK" THEN ~meant.num_lock ELSE meant.num_lock
      /\ meant'.tty = IF k = "F2" /\ Alt THEN 1 ELSE meant.tty
  <2>1. CASE k = "CAPS_LOCK"
    BY <1>3, <1>4, <2>1
  <2>2. CASE k = "NUM_LOCK"
    BY <1>3, <1>4, <2>2
  <2>3. CASE k = "F2" /\ Alt
    BY <1>3, <1>4, <2>3
  <2>4. CASE k \notin {"CAPS_LOCK", "NUM_LOCK"} /\ ~(k = "F2" /\ Alt)
    BY <1>3, <1>4, <2>4
  <2> QED BY <2>1, <2>2, <2>3, <2>4
<1>6. LockTypes' /\ (current_console \in Nat /\ rd.tty \in Nat /\ wrong = FALSE)'
  BY <1>1 DEF KeysExplained, LockTypes
<1>7. ASSUME spoiled' = {}
      PROVE  ~({"ALT_L", "ALT_R"} \subseteq held') /\ Explains(Codes, Seen, due, Meant)'
  <2>1. ~({"ALT_L", "ALT_R"} \subseteq held') /\ due' = due \o Asks(k)
    BY <1>7 DEF Press, Due
  <2>2. Explains(Codes, Seen, due, Meant) /\ Meant \in Minds
    BY <1>1, MindsKnown DEF KeysExplained
  <2>3. Codes \in Seq(Nat) /\ Codes' = Codes \o CodesOf(k, TRUE) /\ CodesOf(k, TRUE) # <<>>
    <3>1. wire' \in Seq(Nat) /\ wire' = CodesOf(k, TRUE) /\ CodesOf(k, TRUE) # <<>>
      BY <1>1, <1>2, CodesToSend, SignalsSent DEF Signals
    <3>2. Codes \in Seq(Nat) /\ Codes' = Codes \o wire'
      BY <1>1, <3>1, CodesSent
    <3> QED BY <3>1, <3>2
  <2>4. Explains(Codes \o CodesOf(k, TRUE), Seen, due \o Wants(Meant, k, TRUE), After(Meant, k, TRUE))
    BY <1>2, <2>2, <2>3, OneMoreExplained DEF Signals
  <2>5. Seen' = Seen
    BY <1>1 DEF Seen
  <2>6. Meant' = After(Meant, k, TRUE)
    <3>1. Shift' = IF k = "SHIFT_L" THEN TRUE ELSE Shift
      BY <1>1 DEF Shift
    <3>2. Alt' = IF k \in {"ALT_L", "ALT_R"} THEN TRUE ELSE Alt
      BY <1>1 DEF Alt
    <3>3. Meant' = [shift |-> Shift', alt |-> Alt', caps |-> meant'.caps_lock,
                    num |-> meant'.num_lock, tty |-> meant'.tty]
      BY DEF Meant
    <3> QED BY <1>5, <3>1, <3>2, <3>3 DEF After, Meant
  <2>7. due' = due \o Wants(Meant, k, TRUE)
    BY <1>2, <2>1, AsksWants
  <2>8. Explains(Codes', Seen', due', Meant')
    BY <2>3, <2>4, <2>5, <2>6, <2>7
  <2> QED BY <2>1, <2>8
<1> QED BY <1>5, <1>6, <1>7 DEF KeysExplained

LEMMA ReleaseExplained ==
  ASSUME KeysWhole, KeysExplained, NEW k \in Keys, Release(k), UNCHANGED convars
  PROVE  KeysExplained'
<1>1. /\ wire = <<>> /\ spoiled' = spoiled /\ wire' = BreakCodes(k) /\ held' = held \ {k}
      /\ kb_in' = kb_in /\ locks' = locks /\ rd' = rd /\ wrong' = wrong /\ due' = due
      /\ meant' = meant /\ current_console' = current_console
  BY DEF Release, convars
<1>2. k \in AllKeys
  BY KeyboardAssumption
<1>3. LockTypes' /\ (current_console \in Nat /\ rd.tty \in Nat /\ wrong = FALSE)'
      /\ (meant \in [caps_lock : BOOLEAN, num_lock : BOOLEAN, tty : Nat])'
  BY <1>1 DEF KeysExplained, LockTypes
<1>4. ASSUME spoiled' = {}
      PROVE  ~({"ALT_L", "ALT_R"} \subseteq held') /\ Explains(Codes, Seen, due, Meant)'
  <2>1. ~({"ALT_L", "ALT_R"} \subseteq held) /\ ~({"ALT_L", "ALT_R"} \subseteq held')
    BY <1>1, <1>4 DEF KeysExplained
  <2>2. Explains(Codes, Seen, due, Meant) /\ Meant \in Minds
    BY <1>1, <1>4, MindsKnown DEF KeysExplained
  <2>3. Codes \in Seq(Nat) /\ Codes' = Codes \o CodesOf(k, FALSE)
    <3>1. wire' \in Seq(Nat) /\ wire' = CodesOf(k, FALSE)
      BY <1>1, <1>2, CodesToSend, SignalsSent DEF Signals
    <3>2. Codes \in Seq(Nat) /\ Codes' = Codes \o wire'
      BY <1>1, <3>1, CodesSent
    <3> QED BY <3>1, <3>2
  <2>4. Seen' = Seen
    BY <1>1 DEF Seen
  <2>5. Meant' = After(Meant, k, FALSE)
    <3>1. Shift' = IF k = "SHIFT_L" THEN FALSE ELSE Shift
      BY <1>1 DEF Shift
    <3>2. Alt' = IF k \in {"ALT_L", "ALT_R"} THEN FALSE ELSE Alt
      <4>1. k \in held
        BY DEF Release
      <4>2. CASE k \in {"ALT_L", "ALT_R"}
        <5>1. ~("ALT_L" \in held' \/ "ALT_R" \in held')
          BY <1>1, <2>1, <4>1, <4>2
        <5> QED BY <4>2, <5>1 DEF Alt
      <4>3. CASE k \notin {"ALT_L", "ALT_R"}
        BY <1>1, <4>3 DEF Alt
      <4> QED BY <4>2, <4>3
    <3>3. Meant' = [shift |-> Shift', alt |-> Alt', caps |-> meant'.caps_lock,
                    num |-> meant'.num_lock, tty |-> meant'.tty]
      BY DEF Meant
    <3> QED BY <1>1, <3>1, <3>2, <3>3 DEF After, Meant
  <2>6. due \o Wants(Meant, k, FALSE) = due
    <3>1. Wants(Meant, k, FALSE) = <<>>
      BY DEF Wants
    <3>2. due \in Seq(Wishes)
      BY <2>2, WishTyped
    <3> QED BY <3>1, <3>2, ConcatEmptySeq
  <2>7. CASE CodesOf(k, FALSE) # <<>>
    <3>1. Explains(Codes \o CodesOf(k, FALSE), Seen, due \o Wants(Meant, k, FALSE),
                   After(Meant, k, FALSE))
      BY <1>2, <2>2, <2>3, <2>7, OneMoreExplained DEF Signals
    <3>2. Explains(Codes', Seen', due', Meant')
      BY <1>1, <2>3, <2>4, <2>5, <2>6, <3>1
    <3> QED BY <2>1, <3>2
  <2>8. CASE CodesOf(k, FALSE) = <<>>
    <3>1. k = "PAUSEBREAK"
      BY <1>2, <2>8, CodesToSend
    <3>2. Meant' = Meant
      BY <2>2, <2>5, <3>1 DEF After, Minds
    <3>3. Codes' = Codes
      BY <2>3, <2>8, ConcatEmptySeq
    <3>4. Explains(Codes', Seen', due', Meant')
      BY <1>1, <2>2, <2>4, <3>2, <3>3
    <3> QED BY <2>1, <3>4
  <2> QED BY <2>7, <2>8
<1> QED BY <1>3, <1>4 DEF KeysExplained
\* The handler moves a code on.

\* A step that changes none of it.
LEMMA NothingRead ==
  ASSUME KeysExplained, spoiled' = {} => spoiled = {} /\ Codes' = Codes /\ due' = due,
         rd'.tty \in Nat, UNCHANGED <<held, locks, meant, wrong, current_console>>
  PROVE  KeysExplained'
<1>1. LockTypes' /\ (current_console \in Nat /\ rd.tty \in Nat /\ wrong = FALSE)'
      /\ (meant \in [caps_lock : BOOLEAN, num_lock : BOOLEAN, tty : Nat])'
  BY DEF KeysExplained, LockTypes
<1>2. Seen' = Seen /\ Meant' = Meant
  BY DEF Seen, Meant, Shift, Alt
<1>3. ASSUME spoiled' = {}
      PROVE  ~({"ALT_L", "ALT_R"} \subseteq held') /\ Explains(Codes, Seen, due, Meant)'
  <2>1. /\ ~({"ALT_L", "ALT_R"} \subseteq held) /\ Explains(Codes, Seen, due, Meant)
        /\ Codes' = Codes /\ due' = due
    BY <1>3 DEF KeysExplained
  <2>2. Explains(Codes', Seen', due', Meant')
    BY <1>2, <2>1
  <2> QED BY <2>1, <2>2
<1> QED BY <1>1, <1>3 DEF KeysExplained

LEMMA HandlerExplained ==
  ASSUME KeysWhole, KeysExplained, keyboard_handler, UNCHANGED convars
  PROVE  KeysExplained'
<1>1. rd'.tty \in Nat /\ UNCHANGED <<held, locks, meant, wrong, current_console>>
  BY DEF keyboard_handler, convars, KeysExplained
<1>2. ASSUME spoiled' = {} PROVE spoiled = {} /\ Codes' = Codes /\ due' = due
  <2>1. spoiled = {} /\ Len(kb_in) # KB_IN_BYTES /\ due' = due
    BY <1>2 DEF keyboard_handler, Due
  <2>2. Room
    <3>1. Len(kb_in) \in Nat /\ Len(kb_in) <= KB_IN_BYTES /\ KB_IN_BYTES \in Nat
      BY KeyboardAssumption DEF KeysWhole
    <3> QED BY <2>1, <3>1 DEF Room
  <2> QED BY <2>1, <2>2, CodeMoved
<1> QED BY <1>1, <1>2, NothingRead

LEMMA CallExplained ==
  ASSUME KeysWhole, KeysExplained, BeginRead \/ EndRead, UNCHANGED convars
  PROVE  KeysExplained'
<1>1. UNCHANGED <<held, locks, meant, wrong, current_console>> /\ spoiled' = spoiled /\ due' = due
  BY DEF BeginRead, EndRead, convars
<1>2. Codes' = Codes
  BY CallMoves
<1>3. rd'.tty \in Nat
  <2>1. CASE BeginRead
    BY <2>1 DEF BeginRead, KeysExplained
  <2>2. CASE EndRead
    BY <2>2 DEF EndRead, NoRead
  <2> QED BY <2>1, <2>2
<1> QED BY <1>1, <1>2, <1>3, NothingRead

LEMMA GetByteExplained ==
  ASSUME KeysWhole, KeysExplained, GetByte
  PROVE  KeysExplained'
<1>1. CASE More(Read)
  <2>1. UNCHANGED <<held, locks, meant, wrong, current_console>> /\ spoiled' = spoiled /\ due' = due
        /\ Codes' = Codes
    BY <1>1, MoreRead DEF convars
  <2>2. rd'.tty \in Nat
    BY <1>1, MoreRead DEF KeysWhole, KeysExplained
  <2> QED BY <2>1, <2>2, NothingRead
<1>2. CASE ~More(Read)
  <2>1. PICK done, skipped :
          /\ Obey(done) /\ Check(done, skipped) /\ UNCHANGED <<wire, held, typed, meant>>
          /\ \/ /\ Read \in {PauseCodes, PrintMake, PrintBreak}
                /\ done = <<>> /\ skipped = FALSE /\ locks' = locks
             \/ /\ Read \notin {PauseCodes, PrintMake, PrintBreak}
                /\ skipped = TRUE /\ locks' = locks
             \/ /\ Read \notin {PauseCodes, PrintMake, PrintBreak}
                /\ skipped = FALSE /\ locks' = Locked(KeyOf(Read), MakeOf(Read))
                /\ done = IF MakeOf(Read) THEN Effect(Padded(KeyOf(Read))) ELSE <<>>
    BY <1>2, KeyCases
  <2>2. (meant \in [caps_lock : BOOLEAN, num_lock : BOOLEAN, tty : Nat])'
    BY <2>1 DEF KeysExplained
  <2>3. (current_console \in Nat)' /\ (rd.tty \in Nat)'
    <3>1. current_console' \in {1, current_console}
      BY <2>1 DEF Obey
    <3>2. rd'.tty = rd.tty
      BY <1>2 DEF GetByte, Read, KeysWhole
    <3> QED BY <3>1, <3>2 DEF KeysExplained
  <2>4. LockTypes'
    <3>1. CASE locks' = locks
      BY <3>1 DEF KeysExplained, LockTypes
    <3>2. CASE locks' = Locked(KeyOf(Read), MakeOf(Read))
      <4>1. LockTypes /\ MakeOf(Read) \in BOOLEAN
        BY DEF KeysExplained, MakeOf
      <4>2. Locked(KeyOf(Read), MakeOf(Read)) \in
              [shift_l : BOOLEAN, shift_r : {FALSE}, alt_l : BOOLEAN, caps_lock : BOOLEAN,
               num_lock : BOOLEAN]
        BY <4>1, LockedTyped
      <4> QED BY <3>2, <4>2 DEF LockTypes
    <3> QED BY <2>1, <3>1, <3>2
  <2>5. CASE spoiled' # {}
    <3>1. wrong' = FALSE
      BY <2>1, <2>5 DEF Check, KeysExplained
    <3> QED BY <2>2, <2>3, <2>4, <2>5, <3>1 DEF KeysExplained
  <2>6. CASE spoiled' = {}
    <3>1. spoiled = {} /\ ~skipped
      BY <2>1, <2>6 DEF Check, Due
    <3>2. /\ ~({"ALT_L", "ALT_R"} \subseteq held) /\ Explains(Codes, Seen, due, Meant)
      BY <3>1 DEF KeysExplained
    <3> DEFINE u == Tail(kb_in) \o wire
    <3>3. /\ rd.got \in Seq(Nat) /\ Head(kb_in) \in Nat /\ u \in Seq(Nat)
          /\ rd.got # <<>> => More(rd.got)
          /\ Codes = Append(rd.got, Head(kb_in)) \o u
      BY CodeTaken DEF Read, KeysWhole
    <3>4. PICK n \in 0 .. 2 : Codes' = u \o Acks(n)
      BY <1>2, KeyTaken
    <3> HIDE DEF u
    <3>5. PICK k \in Signals, down \in BOOLEAN :
            /\ Read = CodesOf(k, down)
            /\ \E rest \in Seq(Wishes) :
                 due = Wants(Seen, k, down) \o rest /\ Explains(u, After(Seen, k, down), rest, Meant)
      <4>1. Explains(Append(rd.got, Head(kb_in)) \o u, Seen, due, Meant)
        BY <3>2, <3>3
      <4>2. ~More(Append(rd.got, Head(kb_in)))
        BY <1>2 DEF Read
      <4>3. Seen \in Minds /\ due \in Seq(Wishes) /\ Meant \in Minds
        BY <3>2, MindsKnown, WishTyped
      <4>4. KeyFirst(Append(rd.got, Head(kb_in)), u, Seen, due, Meant)
        BY <3>3, <4>1, <4>2, <4>3, RestExplained
      <4> QED BY <4>4 DEF KeyFirst, Read
    <3>6. PICK rest \in Seq(Wishes) :
            due = Wants(Seen, k, down) \o rest /\ Explains(u, After(Seen, k, down), rest, Meant)
      BY <3>5
    <3>7. Meant \in Minds /\ Meant' = Meant
      BY <2>1, MindsKnown DEF Meant, Shift, Alt
    <3>8. Explains(Codes', After(Seen, k, down), rest, Meant)
      BY <3>3, <3>4, <3>6, <3>7, AcksExplained
    <3>9. due' = rest /\ wrong' = FALSE /\ Seen' = After(Seen, k, down)
      <4>1. done = Wants(Felt, k, down) /\ Agree(locks', After(Seen, k, down))
        <5>1. CASE Read \in {PauseCodes, PrintMake, PrintBreak}
          <6>1. k \in {"PAUSEBREAK", "PRINTSCREEN"}
            BY <3>5, <5>1, KeysMade DEF KeysExplained
          <6>2. Wants(Felt, k, down) = <<>>
            BY <6>1 DEF Wants
          <6> QED BY <2>1, <5>1, <6>1, <6>2 DEF After, Seen, Agree
        <5>2. CASE Read \notin {PauseCodes, PrintMake, PrintBreak}
          <6>1. k \notin {"PAUSEBREAK", "PRINTSCREEN"}
            <7>1. Read # <<>>
              BY <3>3, OneAppended DEF Read
            <7> QED BY <3>5, <5>2, <7>1 DEF CodesOf, MakeCodes, BreakCodes
          <6>2. /\ locks' = Locked(KeyOf(CodesOf(k, down)), MakeOf(CodesOf(k, down)))
                /\ done = IF MakeOf(CodesOf(k, down))
                          THEN Effect(Padded(KeyOf(CodesOf(k, down)))) ELSE <<>>
            BY <2>1, <3>1, <3>5, <5>2
          <6>3. LockTypes
            BY DEF KeysExplained
          <6>4. done = Wants(Felt, k, down)
            BY <6>1, <6>2, <6>3, WishMade
          <6>5. k \in Signals \ {"PAUSEBREAK", "PRINTSCREEN"}
            BY <6>1
          <6>6. PICK l : l = Locked(KeyOf(CodesOf(k, down)), MakeOf(CodesOf(k, down)))
            OBVIOUS
          <6>7. Agree(l, After(Seen, k, down))
            BY <6>3, <6>5, <6>6, LocksMade
          <6>8. locks' = l
            BY <6>2, <6>6, Zenon
          <6> QED BY <6>4, <6>7, <6>8, Zenon
        <5> QED BY <5>1, <5>2
      <4>2. due' = rest /\ wrong' = FALSE /\ current_console' = After(Seen, k, down).tty
        BY <2>1, <2>6, <3>6, <4>1, KeyDone
      <4>3. Seen' = [shift |-> locks'.shift_l, alt |-> locks'.alt_l, caps |-> locks'.caps_lock,
                     num |-> locks'.num_lock, tty |-> current_console']
        BY DEF Seen
      <4>4. Seen' = After(Seen, k, down)
        BY <4>1, <4>2, <4>3 DEF After, Agree
      <4> QED BY <4>2, <4>4
    <3>10. Explains(Codes', Seen', due', Meant')
      BY <3>7, <3>8, <3>9
    <3>11. ~({"ALT_L", "ALT_R"} \subseteq held')
      BY <2>1, <3>2
    <3> QED BY <2>2, <2>3, <2>4, <3>9, <3>10, <3>11 DEF KeysExplained
  <2> QED BY <2>5, <2>6
<1> QED BY <1>1, <1>2

\* What is on its way asks for what is due, and for nothing else.
THEOREM KeysExplainedHolds == KbSpec => []KeysExplained
<1>1. ConInit /\ KbInit => KeysExplained
  BY InitExplained
<1>2. KeysWhole /\ KeysExplained /\ [KbNext]_<<convars, kbvars>> => KeysExplained'
  <2> SUFFICES ASSUME KeysWhole, KeysExplained, [KbNext]_<<convars, kbvars>> PROVE KeysExplained'
    OBVIOUS
  <2>1. CASE UNCHANGED <<convars, kbvars>>
    <3>1. /\ UNCHANGED <<held, locks, meant, wrong, current_console>> /\ rd' = rd
          /\ spoiled' = spoiled /\ due' = due /\ Codes' = Codes
      BY <2>1 DEF convars, kbvars, Codes
    <3> QED BY <3>1, NothingRead DEF KeysExplained
  <2> QED BY <2>1, GetByteExplained, PressExplained, ReleaseExplained, HandlerExplained,
             CallExplained DEF KbNext
<1> QED BY <1>1, <1>2, KeysWholeHolds, PTL DEF KbSpec

\* Property KeysObeyed of run keyboard: in_process does what the pressed keys ask
\* for, in their order, nothing else and nothing less, but for Causes.
THEOREM KeysCorrect == KbSpec => []KeysObeyed
<1>1. KeysWhole /\ KeysExplained => KeysObeyed
  <2> SUFFICES ASSUME KeysWhole, KeysExplained, wire = <<>>, kb_in = <<>>, ~rd.busy, spoiled = {}
               PROVE  due = <<>>
    BY DEF KeysExplained, KeysObeyed
  <2>1. rd.got = <<>>
    BY DEF KeysWhole
  <2>2. Codes = <<>>
    BY <2>1 DEF Codes
  <2>3. Explains(<<>>, Seen, due, Meant)
    BY <2>2 DEF KeysExplained
  <2> QED BY <2>3, EmptyExplained
<1> QED BY <1>1, KeysWholeHolds, KeysExplainedHolds, PTL
=============================================================================
