------------------------------ MODULE Keyboard ------------------------------
(***************************************************************************)
(* The keyboard: its interrupt handler and ring buffer, keyboard_read,     *)
(* which makes keys of scan codes (kernel/keyboard.c), and in_process,     *)
(* which obeys them (kernel/tty.c): a character goes to a terminal,        *)
(* Shift+Up and Shift+Down scroll, Alt+F1 .. Alt+F12 select a console.     *)
(* Scan codes are the numbers of set 1; of the 128 rows of keymap[] those  *)
(* are kept that the code treats differently.  The Ctrl keys and           *)
(* ScrollLock, which nothing depends on, are left out.                     *)
(***************************************************************************)
EXTENDS Console, Sequences, SequencesExt

CONSTANTS
  KB_IN_BYTES,  \* the size of the ring buffer
  Keys,         \* the keys somebody presses
  MaxTyped      \* a bound: how many keys are pressed

\* The keys of the keyboard that are modelled.
AllKeys == {"a", "ENTER", "SHIFT_L", "ALT_L", "ALT_R", "CAPS_LOCK", "NUM_LOCK",
            "F2", "UP", "PAD_7", "PRINTSCREEN", "PAUSEBREAK"}

ASSUME KeyboardAssumption ==
  KB_IN_BYTES \in Nat \ {0} /\ Keys \subseteq AllKeys /\ MaxTyped \in Nat

VARIABLES
  wire,     \* the codes of the last key the keyboard has not sent yet
  held,     \* the keys that are down
  typed,    \* how many keys were pressed
  kb_in,    \* the ring buffer, oldest code first
  locks,    \* shift_l, shift_r, alt_l, caps_lock and num_lock; alt_r is never set
  rd,       \* keyboard_read: its terminal, the codes of the key it reads, key and make
  meant,    \* the locks and the console whoever types has in mind
  due,      \* what the pressed keys ask for and in_process has not done yet
  wrong,    \* in_process did something else
  spoiled   \* why due need not be done: see Causes

kbvars == <<wire, held, typed, kb_in, locks, rd, meant, due, wrong, spoiled>>

E0 == \hE0
E1 == \hE1
ACK == \hFA
FLAG_BREAK == 128

\* pausebreak_scan_code, and the codes of PrintScreen.
PauseCodes == <<E1, \h1D, \h45, E1, \h9D, \hC5>>
PrintMake  == <<E0, \h2A, E0, \h37>>
PrintBreak == <<E0, \hB7, E0, \hAA>>

\* keymap[]: the columns of a row, and NONE where it holds 0.
NONE == "NONE"
keymap ==
  [row \in 0 .. 127 |->
     CASE row = \h1E -> <<"a", "A", NONE>>
       [] row = \h1C -> <<"ENTER", "ENTER", "PAD_ENTER">>
       [] row = \h2A -> <<"SHIFT_L", "SHIFT_L", NONE>>
       [] row = \h38 -> <<"ALT_L", "ALT_L", "ALT_R">>
       [] row = \h3A -> <<"CAPS_LOCK", "CAPS_LOCK", NONE>>
       [] row = \h45 -> <<"NUM_LOCK", "NUM_LOCK", NONE>>
       [] row = \h3C -> <<"F2", "F2", NONE>>
       [] row = \h48 -> <<"PAD_8", "8", "UP">>
       [] row = \h47 -> <<"PAD_7", "7", "HOME">>
       [] OTHER -> <<NONE, NONE, NONE>>]

\* The codes a key sends when it goes down; when it goes up, the last has
\* FLAG_BREAK set, PrintScreen has its own, and Pause sends nothing.
MakeCodes(k) ==
  CASE k = "PAUSEBREAK"  -> PauseCodes
    [] k = "PRINTSCREEN" -> PrintMake
    [] k = "UP"          -> <<E0, \h48>>
    [] k = "ALT_R"       -> <<E0, \h38>>
    [] OTHER -> <<CHOOSE row \in 0 .. 127 : keymap[row][1] = k>>
BreakCodes(k) ==
  CASE k = "PAUSEBREAK"  -> <<>>
    [] k = "PRINTSCREEN" -> PrintBreak
    [] OTHER -> Front(MakeCodes(k)) \o <<Last(MakeCodes(k)) + FLAG_BREAK>>

NoRead == [busy |-> FALSE, tty |-> 0, got |-> <<>>, key |-> "other", make |-> FALSE]

\* init_keyboard, after which nothing was typed.
KbInit ==
  /\ wire = <<>> /\ held = {} /\ typed = 0 /\ kb_in = <<>>
  /\ locks = [shift_l |-> FALSE, shift_r |-> FALSE, alt_l |-> FALSE,
              caps_lock |-> FALSE, num_lock |-> TRUE]
  /\ rd = NoRead
  /\ meant = [caps_lock |-> FALSE, num_lock |-> TRUE, tty |-> 0]
  /\ due = <<>> /\ wrong = FALSE /\ spoiled = {}

-----------------------------------------------------------------------------
\* What a key asks for: nothing, or a character, a scroll or another console.
Shift == {"SHIFT_L"} \intersect held # {}
Alt == {"ALT_L", "ALT_R"} \intersect held # {}
Asks(k) ==
  CASE k = "a" -> <<[put |-> IF Shift # meant.caps_lock THEN "A" ELSE "a", tty |-> meant.tty]>>
    [] k = "ENTER" -> <<[put |-> "\n", tty |-> meant.tty]>>
    [] k = "PAD_7" /\ (Shift \/ meant.num_lock) -> <<[put |-> "7", tty |-> meant.tty]>>
    [] k = "UP" /\ Shift -> <<[scroll |-> "SCR_DN", tty |-> meant.tty]>>
    [] k = "F2" /\ Alt -> <<[select |-> 1]>>
    [] OTHER -> <<>>

\* Why a key is not obeyed: a code came when the buffer was full; keyboard_read
\* did not look at a code after Pause or PrintScreen; a key came in the same
\* call after one that selected a console; both Alt keys were down.
Causes == {"dropped", "skipped", "moved", "alts"}
Due(asked, causes) ==
  /\ spoiled' = spoiled \union causes
  /\ due' = IF spoiled' = {} THEN asked ELSE <<>>

Press(k) ==
  /\ wire = <<>> /\ k \notin held /\ typed < MaxTyped /\ spoiled = {}
  /\ typed' = typed + 1
  /\ wire' = MakeCodes(k)
  /\ held' = held \union {k}
  /\ meant' = CASE k = "CAPS_LOCK" -> [meant EXCEPT !.caps_lock = ~@]
                [] k = "NUM_LOCK"  -> [meant EXCEPT !.num_lock = ~@]
                [] k = "F2" /\ Alt -> [meant EXCEPT !.tty = 1]
                [] OTHER -> meant
  /\ Due(due \o Asks(k), IF {"ALT_L", "ALT_R"} \subseteq held' THEN {"alts"} ELSE {})
  /\ UNCHANGED <<kb_in, locks, rd, wrong>>

Release(k) ==
  /\ wire = <<>> /\ k \in held
  /\ wire' = BreakCodes(k)
  /\ held' = held \ {k}
  /\ UNCHANGED <<typed, kb_in, locks, rd, meant, due, wrong, spoiled>>

\* Mutant: the last place of the buffer is not used.
RoomMut == Len(kb_in) < KB_IN_BYTES - 1

Room == Len(kb_in) < KB_IN_BYTES

\* keyboard_handler: a code that finds the buffer full is lost.
keyboard_handler ==
  /\ wire # <<>>
  /\ wire' = Tail(wire)
  /\ kb_in' = IF Room THEN Append(kb_in, Head(wire)) ELSE kb_in
  /\ Due(due, IF Len(kb_in) = KB_IN_BYTES THEN {"dropped"} ELSE {})
  /\ UNCHANGED <<held, typed, locks, rd, meant, wrong>>

-----------------------------------------------------------------------------
\* tty_dev_read calls keyboard_read for the terminal of the current console.
\* make has no value then.
BeginRead ==
  /\ ~rd.busy /\ kb_in # <<>>
  /\ \E any \in BOOLEAN :
       rd' = [busy |-> TRUE, tty |-> current_console, got |-> <<>>, key |-> "other", make |-> any]
  /\ UNCHANGED <<wire, held, typed, kb_in, locks, meant, due, wrong, spoiled>>

\* Its loop ends when the buffer is empty between two keys.
EndRead ==
  /\ rd.busy /\ rd.got = <<>> /\ kb_in = <<>>
  /\ rd' = NoRead
  /\ UNCHANGED <<wire, held, typed, kb_in, locks, meant, due, wrong, spoiled>>

\* Mutant: every key with E0 is taken for PrintScreen.
MoreMut(s) == IsStrictPrefix(s, PauseCodes) \/ (s[1] = E0 /\ Len(s) < 4)

\* The codes s do not tell the key yet: get_byte_from_kb_buf waits for more.
More(s) ==
  \/ IsStrictPrefix(s, PauseCodes)
  \/ IsStrictPrefix(s, PrintMake)
  \/ IsStrictPrefix(s, PrintBreak)

\* The last code, and whether it followed E0; of a failed Pause, the first.
ScanCode(s) == IF s[1] = E1 THEN E1 ELSE Last(s)
CodeWithE0(s) == Len(s) > 1 /\ s[1] = E0 /\ s[Len(s) - 1] = E0

\* caps: Shift, or CapsLock for a letter, but not both.
Caps(row) == (locks.shift_l \/ locks.shift_r) # (locks.caps_lock /\ keymap[row][1] = "a")

Column(s, row) == IF CodeWithE0(s) THEN 3 ELSE IF Caps(row) THEN 2 ELSE 1

\* The switch over the keys that change the state; ALT_R sets alt_l.
Locked(key, make) ==
  CASE key = "SHIFT_L" -> [locks EXCEPT !.shift_l = make]
    [] key \in {"ALT_L", "ALT_R"} -> [locks EXCEPT !.alt_l = make]
    [] key = "CAPS_LOCK" /\ make -> [locks EXCEPT !.caps_lock = ~@]
    [] key = "NUM_LOCK" /\ make -> [locks EXCEPT !.num_lock = ~@]
    [] OTHER -> locks

\* The numeric pad.
Padded(key) ==
  CASE key = "PAD_ENTER" -> "ENTER"
    [] key = "PAD_7" -> IF locks.num_lock THEN "7" ELSE "HOME"
    [] key = "PAD_8" -> IF locks.num_lock THEN "8" ELSE "UP"
    [] OTHER -> key

\* in_process(tty, key): what it does; all that has FLAG_EXT and is not listed
\* is ignored.
Shifted == locks.shift_l \/ locks.shift_r
Effect(key) ==
  CASE key = "ENTER" -> <<[put |-> "\n", tty |-> rd.tty]>>
    [] key = "UP" -> IF Shifted THEN <<[scroll |-> "SCR_DN", tty |-> rd.tty]>> ELSE <<>>
    [] key = "F2" -> IF locks.alt_l THEN <<[select |-> 1]>> ELSE <<>>
    [] key \in {"a", "A", "7", "8", NONE} -> <<[put |-> key, tty |-> rd.tty]>>
    [] OTHER -> <<>>

\* scroll_screen(con, SCR_DN) without a printx inside: a line up, unless the
\* oldest line is shown.  Module Console has its steps.
ScrolledDown(k) ==
  LET oldest == (k.y + 1) % ConLines
  IN  IF ~k.full /\ k.top > 0 THEN [k EXCEPT !.top = @ - 1]
      ELSE IF k.full /\ k.top # oldest
           THEN IF k.y >= ConLines - ScrLines
                THEN IF k.top # 0 THEN [k EXCEPT !.top = @ - 1] ELSE k
                ELSE [k EXCEPT !.top = IF @ = 0 THEN ConLines - ScrLines ELSE @ - 1]
      ELSE k

\* scroll_screen and select_console, each to its end.
Obey(e) ==
  /\ IF e # <<>> /\ "scroll" \in DOMAIN e[1]
     THEN /\ con' = [con EXCEPT ![rd.tty] = ScrolledDown(@)]
          /\ crtc' = IF rd.tty = current_console THEN Registers(rd.tty, con'[rd.tty]) ELSE crtc
          /\ UNCHANGED current_console
     ELSE IF e # <<>> /\ "select" \in DOMAIN e[1]
     THEN /\ current_console' = 1 /\ crtc' = Shown(1)
          /\ UNCHANGED con
     ELSE UNCHANGED <<con, current_console, crtc>>
  /\ UNCHANGED <<thread, strays, hit>>

\* The key is done.  A character for another terminal than the current one is
\* excused, as is what follows a code nobody looked at.
Check(e, skipped) ==
  LET moved == e # <<>> /\ "select" \notin DOMAIN e[1] /\ rd.tty # current_console
  IN  /\ Due(IF due # <<>> /\ e # <<>> THEN Tail(due) ELSE due,
             (IF skipped THEN {"skipped"} ELSE {}) \union (IF moved THEN {"moved"} ELSE {}))
      /\ wrong' = (wrong \/ (spoiled' = {} /\ e # <<>> /\ (due = <<>> \/ Head(due) # e[1])))

\* set_leds: the keyboard acknowledges two bytes, and its interrupts may put
\* either of them into the buffer, unless it is in the middle of a key.
Acknowledged(rest, leds) ==
  \E n \in IF leds /\ wire = <<>> THEN 0 .. 2 ELSE {0} :
    kb_in' = LET all == rest \o [i \in 1 .. n |-> ACK]
             IN  SubSeq(all, 1, IF Len(all) < KB_IN_BYTES THEN Len(all) ELSE KB_IN_BYTES)

\* One code, and all that keyboard_read does with it.  Neither key nor make is
\* reset between two keys: after Pause or PrintScreen the codes of other keys
\* are not looked at, until a call ends or a flag was or-ed to key.
GetByte ==
  LET s == Append(rd.got, Head(kb_in))
      special == CASE s = PauseCodes -> "PAUSEBREAK"
                   [] s \in {PrintMake, PrintBreak} -> "PRINTSCREEN"
                   [] OTHER -> rd.key
      looked == special = "other"
      row == ScanCode(s) % FLAG_BREAK
      make == CASE s = PrintMake -> TRUE
                [] s = PrintBreak -> FALSE
                [] OTHER -> IF looked THEN ScanCode(s) < FLAG_BREAK ELSE rd.make
      key == IF looked THEN keymap[row][Column(s, row)] ELSE special
      flagged == locks.shift_l \/ locks.shift_r \/ locks.alt_l
      done == IF make THEN Effect(Padded(key)) ELSE <<>>
  IN  /\ rd.busy /\ kb_in # <<>>
      /\ IF More(s)
         THEN /\ rd' = [rd EXCEPT !.got = s]
              /\ kb_in' = Tail(kb_in)
              /\ UNCHANGED <<locks, due, wrong, spoiled>> /\ UNCHANGED convars
         ELSE /\ rd' = [rd EXCEPT !.got = <<>>, !.make = make,
                                  !.key = IF looked \/ (make /\ flagged) THEN "other" ELSE special]
              /\ locks' = IF looked THEN Locked(key, make) ELSE locks
              /\ Acknowledged(Tail(kb_in), looked /\ make /\ key \in {"CAPS_LOCK", "NUM_LOCK"})
              /\ Obey(done)
              /\ Check(done, ~looked /\ s \notin {PauseCodes, PrintMake, PrintBreak})
      /\ UNCHANGED <<wire, held, typed, meant>>

KbNext ==
  \/ GetByte
  \/ /\ \/ \E k \in Keys : Press(k) \/ Release(k)
        \/ keyboard_handler \/ BeginRead \/ EndRead
     /\ UNCHANGED convars

KbSpec == (ConInit /\ KbInit) /\ [][KbNext]_<<convars, kbvars>>

-----------------------------------------------------------------------------
\* Whoever types gets what he asks for, in his order: the character of the
\* shift and lock keys as they were when the key was pressed, on the terminal
\* selected before; nothing else, and nothing is forgotten - but for Causes.
KeysObeyed ==
  /\ ~wrong
  /\ (wire = <<>> /\ kb_in = <<>> /\ ~rd.busy /\ spoiled = {}) => due = <<>>

\* get_byte_from_kb_buf waits in a loop, and TTY with it, for codes the
\* keyboard is about to send only: not for ever, if none was dropped.
WaitsForTheKeyboard ==
  (rd.got # <<>> /\ kb_in = <<>> /\ wire = <<>>) => "dropped" \in spoiled
=============================================================================
