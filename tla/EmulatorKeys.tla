---------------------------- MODULE EmulatorKeys ----------------------------
(***************************************************************************)
(* The emulator's main loop as far as the operator's keys go               *)
(* (emulator.cpp): it runs a cycle of the machine, serves the REPT timer,  *)
(* and now and then handles the events that have piled up.  A key goes to  *)
(* the Apple, to the emulator itself (function keys) or, in command mode,  *)
(* to the command line at the bottom of the window.                        *)
(*                                                                         *)
(* Left out: the keys that only change other components (F1 to F4, F6 to   *)
(* F8, F11, F12); two of them also push keys that nobody counts, F7 for    *)
(* the text of the clipboard and F1 for a random key on the revision 0     *)
(* motherboard.                                                            *)
(*                                                                         *)
(* Abstracted: the events may be handled after any cycle, not only after   *)
(* every 51024th; an event is handled as it happens; a key pushed for the  *)
(* Apple is the variable sent (Keyboard models what becomes of it); keys   *)
(* that differ only in the character they stand for are one key.           *)
(***************************************************************************)
EXTENDS Integers, Sequences, FiniteSets

CONSTANTS
  CharKeys,     \* keys for the Apple that need no further distinction
  None,         \* no key; also the content of a variable that was never set
  Period,       \* cycles between two firings of the REPT timer (102048)
  HeldLimit,    \* bound: keys held at a time
  CountLimit,   \* bound: how far keysDown may go, up or down
  LineLimit     \* bound: length of the command line

\* The other keys, by the part they play.  "]" is no key of the Apple when
\* shifted; "nul" is a key that is counted but sends nothing (Control-Shift-2);
\* "shift" stands for the keys that are neither counted nor sent.
SpecialKeys == {"]", "nul", "shift", "return", "escape", "backspace", "F5", "F9", "F10"}
PhysicalKeys == CharKeys \cup SpecialKeys

ASSUME EmulatorAssumption ==
  /\ CharKeys \cap SpecialKeys = {} /\ None \notin PhysicalKeys
  /\ Period \in Nat \ {0} /\ HeldLimit \in Nat /\ LineLimit \in Nat
  /\ CountLimit \in Nat

VARIABLES
  command,             \* keys go to the command line
  pendingCommandExit,  \* the command is done, the next release leaves the mode
  cmdline,             \* the command line
  keysDown,            \* how many of the Apple's keys are held, as counted
  lastKeyDown,         \* the last key sent
  repeat,              \* the REPT key is down
  rept,                \* cycles until the REPT timer fires
  quit,                \* leave the main loop
  sent,                \* what this step pushed for the Apple: by whom, which key
  phase,               \* where the main loop is
  held,                \* the operator: the keys that are down
  shown,               \* the window: the text after "command: "
  strayed,             \* history: a counted key was pressed, or released, where
                       \* the emulator could not count it
  late,                \* history: a key was pressed after the end of a command
  sinceRept            \* history: cycles since the timer was started or fired

commandVars == <<command, pendingCommandExit, cmdline, shown, late>>
reptVars    == <<repeat, rept, sinceRept>>
vars == <<command, pendingCommandExit, cmdline, keysDown, lastKeyDown, repeat,
          rept, quit, sent, phase, held, shown, strayed, late, sinceRept>>

Nothing == [by |-> "none", key |-> None]
Pushed(who, k) == [by |-> who, key |-> k]

TypeOK ==
  /\ command \in BOOLEAN /\ pendingCommandExit \in BOOLEAN
  /\ cmdline \in Seq(PhysicalKeys)
  /\ keysDown \in -CountLimit .. CountLimit
  /\ lastKeyDown \in PhysicalKeys \cup {None}
  /\ repeat \in BOOLEAN /\ rept \in 0 .. Period
  /\ quit \in BOOLEAN
  /\ sent \in [by : {"none", "typing", "REPT"}, key : PhysicalKeys \cup {None}]
  /\ phase \in {"cycle", "events", "ended"}
  /\ held \in SUBSET PhysicalKeys
  /\ shown \in Seq(PhysicalKeys)
  /\ strayed \in BOOLEAN /\ late \in BOOLEAN
  /\ sinceRept \in 0 .. Period

Init ==
  /\ command = FALSE /\ pendingCommandExit = FALSE /\ cmdline = <<>>
  /\ keysDown = 0 /\ lastKeyDown = None
  /\ repeat = FALSE /\ rept = 0 /\ quit = FALSE
  /\ sent = Nothing /\ phase = "cycle" /\ held = {} /\ shown = <<>>
  /\ strayed = FALSE /\ late = FALSE /\ sinceRept = 0

-----------------------------------------------------------------------------
(* Which keys are whose.                                                   *)

Shifted == "shift" \in held

\* The keys of the Apple's keyboard, as counted when pressed and released.
Counts(k) ==
  k \in CharKeys \cup {"return", "escape", "backspace", "nul"}
         \cup (IF Shifted THEN {} ELSE {"]"})

\* Those of them that give a character (translateKeysToAppleModernized).
Translates(k) == Counts(k) /\ k # "nul"

-----------------------------------------------------------------------------
(* A cycle.                                                                *)

Cycle ==
  /\ phase = "cycle"
  /\ phase' = "events"
  /\ IF repeat /\ rept <= 1
     THEN /\ rept' = Period /\ sinceRept' = 0
          /\ sent' = IF keysDown > 0 THEN Pushed("REPT", lastKeyDown) ELSE Nothing
     ELSE /\ rept' = IF repeat THEN rept - 1 ELSE rept
          /\ sinceRept' = IF repeat THEN sinceRept + 1 ELSE sinceRept
          /\ sent' = Nothing
  /\ UNCHANGED <<commandVars, keysDown, lastKeyDown, repeat, quit, held, strayed>>

\* No more events.  The loop is left when one of them was a request to quit.
EventsDone ==
  /\ phase = "events"
  /\ phase' = IF quit THEN "ended" ELSE "cycle"
  /\ sent' = Nothing
  /\ UNCHANGED <<commandVars, keysDown, lastKeyDown, reptVars, quit, held, strayed>>

-----------------------------------------------------------------------------
(* A key is pressed in command mode.                                       *)

\* The end of a command: the window shows the function keys again, the line is
\* executed (Config::parseLine) and emptied.  The mode is left later.
ProcessCommand ==
  /\ pendingCommandExit' = TRUE
  /\ cmdline' = <<>> /\ shown' = <<>>

\* FAULT: the window is redrawn for a backspace at the start of the line too.
EditUnchecked(k) ==
  /\ IF k = "backspace"
     THEN /\ cmdline' = IF cmdline = <<>> THEN <<>> ELSE SubSeq(cmdline, 1, Len(cmdline) - 1)
          /\ shown' = IF shown = <<>> THEN <<k>> ELSE SubSeq(shown, 1, Len(shown) - 1)
     ELSE /\ Len(cmdline) < LineLimit /\ Len(shown) < LineLimit
          /\ cmdline' = Append(cmdline, k) /\ shown' = Append(shown, k)
  /\ UNCHANGED pendingCommandExit

\* Any other key.  Every key is a character here, function keys too, because
\* only the low seven bits of the key code are used.
Edit(k) ==
  /\ IF k = "backspace"
     THEN /\ cmdline' = IF cmdline = <<>> THEN <<>> ELSE SubSeq(cmdline, 1, Len(cmdline) - 1)
          /\ shown' = IF cmdline = <<>> \/ shown = <<>> THEN shown
                      ELSE SubSeq(shown, 1, Len(shown) - 1)
     ELSE /\ Len(cmdline) < LineLimit /\ Len(shown) < LineLimit
          /\ cmdline' = Append(cmdline, k) /\ shown' = Append(shown, k)
  /\ UNCHANGED pendingCommandExit

CmdKey(k) ==
  /\ IF k \in {"return", "escape"} THEN ProcessCommand ELSE Edit(k)
  /\ late' = (late \/ (pendingCommandExit /\ k \notin {"return", "escape"}))
  /\ UNCHANGED <<command, keysDown, lastKeyDown, reptVars, quit>>
  /\ sent' = Nothing

-----------------------------------------------------------------------------
(* A key is pressed for the Apple or the emulator.                         *)

\* FAULT: starting the timer does not set it.
StartReptAtOnce ==
  /\ repeat' = TRUE /\ rept' = 0 /\ sinceRept' = 0

StartRept == repeat' = TRUE /\ rept' = Period /\ sinceRept' = 0

EnterCommandMode == command' = TRUE /\ shown' = <<>>

\* F9 asks whether it is safe to quit, which the operator may refuse.
MayQuit == quit' \in {quit, TRUE}

DispatchKeypress(k) ==
  /\ keysDown' = keysDown + (IF Counts(k) THEN 1 ELSE 0)
  /\ IF k = "F10" THEN StartRept ELSE UNCHANGED reptVars
  /\ IF k = "F5" THEN EnterCommandMode ELSE UNCHANGED <<command, shown>>
  /\ IF k = "F9" THEN MayQuit ELSE UNCHANGED quit
  /\ IF Translates(k)
     THEN sent' = Pushed("typing", k) /\ lastKeyDown' = k
     ELSE sent' = Nothing /\ UNCHANGED lastKeyDown
  /\ UNCHANGED <<pendingCommandExit, cmdline, late>>

-----------------------------------------------------------------------------
(* The events.                                                             *)

\* A key the emulator counts changes unseen: in command mode, or "]" by a
\* change of the shift key while it is held.
Strays(k) == (command /\ Counts(k)) \/ (k = "shift" /\ "]" \in held)

KeyDown(k) ==
  /\ phase = "events" /\ k \notin held /\ Cardinality(held) < HeldLimit
  /\ IF command THEN CmdKey(k) ELSE DispatchKeypress(k)
  /\ keysDown' <= CountLimit
  /\ held' = held \cup {k}
  /\ strayed' = (strayed \/ Strays(k))
  /\ UNCHANGED phase

\* FAULT: repeated presses of a key that is held are handled like the first.
AutoRepeatDispatched(k) ==
  /\ phase = "events" /\ k \in held
  /\ IF command THEN CmdKey(k) ELSE DispatchKeypress(k)
  /\ keysDown' <= CountLimit
  /\ UNCHANGED <<phase, held, strayed>>

\* The operator's own system repeats a key that is held: the command line takes
\* it, everything else ignores it.
AutoRepeat(k) ==
  /\ phase = "events" /\ k \in held /\ command
  /\ CmdKey(k)
  /\ UNCHANGED <<phase, held, strayed>>

\* A release in command mode.
KeyUpInCommand ==
  /\ command' = (command /\ ~pendingCommandExit)
  /\ pendingCommandExit' = FALSE

\* FAULT: a release does not look at the shift key.
DispatchKeyUpUnshifted(k) ==
  /\ keysDown' = keysDown - (IF Counts(k) \/ k = "]" THEN 1 ELSE 0)
  /\ IF k = "F10" THEN repeat' = FALSE /\ rept' = 0 ELSE UNCHANGED <<repeat, rept>>

DispatchKeyUp(k) ==
  /\ keysDown' = keysDown - (IF Counts(k) THEN 1 ELSE 0)
  /\ IF k = "F10" THEN repeat' = FALSE /\ rept' = 0 ELSE UNCHANGED <<repeat, rept>>

KeyUp(k) ==
  /\ phase = "events" /\ k \in held
  /\ IF command
     THEN KeyUpInCommand /\ UNCHANGED <<keysDown, repeat, rept>>
     ELSE DispatchKeyUp(k) /\ UNCHANGED <<command, pendingCommandExit>>
  /\ keysDown' >= -CountLimit
  /\ held' = held \ {k}
  /\ sent' = Nothing
  /\ strayed' = (strayed \/ Strays(k))
  /\ UNCHANGED <<cmdline, shown, late, lastKeyDown, sinceRept, quit, phase>>

\* The window is closed.
QuitEvent ==
  /\ phase = "events"
  /\ MayQuit
  /\ sent' = Nothing
  /\ UNCHANGED <<commandVars, keysDown, lastKeyDown, reptVars, held, strayed, phase>>

Loop == Cycle \/ EventsDone

Event == QuitEvent \/ \E k \in PhysicalKeys : KeyDown(k) \/ AutoRepeat(k) \/ KeyUp(k)

Next == Loop \/ Event

Spec == Init /\ [][Next]_vars

\* The main loop never waits for the operator and the events that have piled up
\* come to an end.
FairSpec == Spec /\ WF_vars(Loop)

-----------------------------------------------------------------------------
(* Properties.                                                             *)

\* keysDown, which REPT depends on, is the number of the Apple's keys that are
\* held, however presses and releases overlap, as long as none of them is
\* pressed or released during a command or reshifted while held.
KeysCounted ==
  ~strayed => keysDown = Cardinality({k \in held : Counts(k)})

\* While a command is typed and edited, the window shows the command line, unless
\* keys were pressed after the end of an earlier one.
LineIsShown == (command /\ ~late) => shown = cmdline

\* REPT repeats a key no earlier than a full period after REPT was pressed and
\* after the firing before, also when REPT is released and pressed in between.
RepeatsNoFaster ==
  [][sent'.by = "REPT" => (repeat /\ sinceRept + 1 >= Period)]_vars

\* REPT keeps repeating the last key typed: once F10 is held as REPT, some key of
\* the Apple is held as counted, and no other key is typed any more, that last key
\* is repeated again and again, whatever else is pressed and released, commands,
\* function keys and the key itself included.
KeepsRepeating ==
  \A k \in CharKeys \cup {"]"} :
    <>[]("F10" \in held /\ repeat /\ keysDown > 0 /\ lastKeyDown = k /\ ~quit)
      => []<>(sent = Pushed("REPT", k))

\* The user's manual (docs/usermanual.md:388 to 390): REPT repeats the key that is
\* held down together with it, so of the keys of the Apple that are held it is one.
RepeatsHeldKey ==
  [][(sent'.by = "REPT" /\ \E k \in held : Translates(k)) => sent'.key \in held]_vars

\* The comment on processCommand (emulator.cpp:436): the command line processed
\* is the one typed at the bottom of the window.
ProcessesShownLine ==
  [][(command /\ "return" \notin held /\ "return" \in held') => cmdline = shown]_vars
=============================================================================
