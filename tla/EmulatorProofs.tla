--------------------------- MODULE EmulatorProofs ---------------------------
(***************************************************************************)
(* Proofs about what the program's main loop drives: the operator's keys   *)
(* (EmulatorKeys), for any keyboard, any number of keys held, lines of any *)
(* length and any period of the REPT timer; and power, reset and the       *)
(* processor (Motherboard), for any contents of ROM and RAM, so for any    *)
(* program, and any delay of the power-up reset.                           *)
(***************************************************************************)
EXTENDS EmulatorKeys, Motherboard, FiniteSetTheorems, SequenceTheorems, TLAPS

-----------------------------------------------------------------------------
(* The count of the keys held.                                             *)

AlwaysCounted == CharKeys \cup {"return", "escape", "backspace", "nul"}

\* Of the keys h, those that are counted.
CountedOf(h) == {k \in h : k \in AlwaysCounted \/ (k = "]" /\ "shift" \notin h)}

CountInv ==
  /\ IsFiniteSet(held)
  /\ keysDown \in Int
  /\ ~strayed => keysDown = Cardinality(CountedOf(held))

\* The shift key is none of those that are counted.
LEMMA ShiftNotCounted == "shift" \notin AlwaysCounted /\ "shift" # "]"
  BY EmulatorAssumption DEF AlwaysCounted, SpecialKeys, PhysicalKeys

LEMMA CountsMeans ==
  ASSUME NEW k
  PROVE  Counts(k) <=> k \in AlwaysCounted \/ (k = "]" /\ "shift" \notin held)
  BY DEF Counts, Shifted, AlwaysCounted

\* A key more, or one less, changes the counted ones by itself only, unless it is
\* the shift key and "]" is held.
LEMMA CountedMore ==
  ASSUME NEW h, NEW k, k = "shift" => "]" \notin h, k \notin h
  PROVE  CountedOf(h \cup {k}) =
           IF k \in AlwaysCounted \/ (k = "]" /\ "shift" \notin h)
           THEN CountedOf(h) \cup {k} ELSE CountedOf(h)
  BY ShiftNotCounted DEF CountedOf

LEMMA CountedLess ==
  ASSUME NEW h, NEW k \in h, k = "shift" => "]" \notin h
  PROVE  CountedOf(h \ {k}) =
           IF k \in AlwaysCounted \/ (k = "]" /\ "shift" \notin h)
           THEN CountedOf(h) \ {k} ELSE CountedOf(h)
  BY ShiftNotCounted DEF CountedOf

LEMMA CountedFinite ==
  ASSUME NEW h, IsFiniteSet(h)
  PROVE  IsFiniteSet(CountedOf(h))
<1>1. CountedOf(h) \in SUBSET h
  BY DEF CountedOf
<1>2. QED
  BY <1>1, FS_Subset

LEMMA KeyDownCounts ==
  ASSUME CountInv, NEW k \in PhysicalKeys, KeyDown(k)
  PROVE  CountInv'
<1>1. held' = held \cup {k} /\ k \notin held /\ strayed' = (strayed \/ Strays(k))
  BY DEF KeyDown
<1>2. IsFiniteSet(held')
  BY <1>1, FS_AddElement DEF CountInv
<1>3. keysDown' = IF ~command /\ Counts(k) THEN keysDown + 1 ELSE keysDown
  BY DEF KeyDown, CmdKey, DispatchKeypress, CountInv
<1>4. ASSUME ~strayed' PROVE keysDown' = Cardinality(CountedOf(held'))
  <2>1. ~strayed /\ ~Strays(k)
    BY <1>1, <1>4
  <2>2. (k = "shift" => "]" \notin held) /\ (Counts(k) => ~command)
    BY <2>1 DEF Strays
  <2>3. CountedOf(held') = IF Counts(k) THEN CountedOf(held) \cup {k} ELSE CountedOf(held)
    BY <1>1, <2>2, CountedMore, CountsMeans
  <2>4. k \notin CountedOf(held) /\ IsFiniteSet(CountedOf(held))
    BY <1>1, CountedFinite DEF CountedOf, CountInv
  <2>5. keysDown = Cardinality(CountedOf(held)) /\ Cardinality(CountedOf(held)) \in Nat
    BY <2>1, <2>4, FS_CardinalityType DEF CountInv
  <2>6. CASE Counts(k)
    <3>1. Cardinality(CountedOf(held')) = Cardinality(CountedOf(held)) + 1
      BY <2>3, <2>4, <2>6, FS_AddElement
    <3>2. QED
      BY <1>3, <2>2, <2>5, <2>6, <3>1
  <2>7. CASE ~Counts(k)
    BY <1>3, <2>3, <2>5, <2>7
  <2>8. QED
    BY <2>6, <2>7
<1>5. keysDown' \in Int
  BY <1>3 DEF CountInv
<1>6. QED
  BY <1>2, <1>4, <1>5 DEF CountInv

LEMMA KeyUpCounts ==
  ASSUME CountInv, NEW k \in PhysicalKeys, KeyUp(k)
  PROVE  CountInv'
<1>1. held' = held \ {k} /\ k \in held /\ strayed' = (strayed \/ Strays(k))
  BY DEF KeyUp
<1>2. IsFiniteSet(held')
  BY <1>1, FS_RemoveElement DEF CountInv
<1>3. keysDown' = IF ~command /\ Counts(k) THEN keysDown - 1 ELSE keysDown
  BY DEF KeyUp, KeyUpInCommand, DispatchKeyUp, CountInv
<1>4. ASSUME ~strayed' PROVE keysDown' = Cardinality(CountedOf(held'))
  <2>1. ~strayed /\ ~Strays(k)
    BY <1>1, <1>4
  <2>2. (k = "shift" => "]" \notin held) /\ (Counts(k) => ~command)
    BY <2>1 DEF Strays
  <2>3. CountedOf(held') = IF Counts(k) THEN CountedOf(held) \ {k} ELSE CountedOf(held)
    BY <1>1, <2>2, CountedLess, CountsMeans
  <2>4. (Counts(k) => k \in CountedOf(held)) /\ IsFiniteSet(CountedOf(held))
    BY <1>1, CountedFinite, CountsMeans DEF CountedOf, CountInv
  <2>5. keysDown = Cardinality(CountedOf(held)) /\ Cardinality(CountedOf(held)) \in Nat
    BY <2>1, <2>4, FS_CardinalityType DEF CountInv
  <2>6. CASE Counts(k)
    <3>1. Cardinality(CountedOf(held')) = Cardinality(CountedOf(held)) - 1
      BY <2>3, <2>4, <2>6, FS_RemoveElement
    <3>2. QED
      BY <1>3, <2>2, <2>5, <2>6, <3>1
  <2>7. CASE ~Counts(k)
    BY <1>3, <2>3, <2>5, <2>7
  <2>8. QED
    BY <2>6, <2>7
<1>5. keysDown' \in Int
  BY <1>3 DEF CountInv
<1>6. QED
  BY <1>2, <1>4, <1>5 DEF CountInv

LEMMA CountInvHolds == Spec => []CountInv
<1>1. Init => CountInv
  <2> SUFFICES ASSUME Init PROVE CountInv
    OBVIOUS
  <2>1. held = {} /\ keysDown = 0
    BY DEF Init
  <2>2. CountedOf(held) = {}
    BY <2>1 DEF CountedOf
  <2>3. QED
    BY <2>1, <2>2, FS_EmptySet DEF CountInv
<1>2. CountInv /\ [Next]_vars => CountInv'
  <2> SUFFICES ASSUME CountInv, [Next]_vars PROVE CountInv'
    OBVIOUS
  <2>1. CASE UNCHANGED <<held, keysDown, strayed>>
    BY <2>1 DEF CountInv
  <2>2. ASSUME NEW k \in PhysicalKeys, KeyDown(k) PROVE CountInv'
    BY <2>2, KeyDownCounts
  <2>3. ASSUME NEW k \in PhysicalKeys, KeyUp(k) PROVE CountInv'
    BY <2>3, KeyUpCounts
  <2>4. ASSUME NEW k \in PhysicalKeys, AutoRepeat(k) PROVE CountInv'
    BY <2>1, <2>4 DEF AutoRepeat, CmdKey
  <2>5. CASE Loop \/ QuitEvent \/ UNCHANGED vars
    BY <2>1, <2>5 DEF Loop, Cycle, EventsDone, QuitEvent, vars
  <2>6. QED
    BY <2>2, <2>3, <2>4, <2>5 DEF Next, Event
<1>3. QED
  BY <1>1, <1>2, PTL DEF Spec

\* However presses, releases, repeats and commands overlap: keysDown is the number
\* of the Apple's keys held, unless one of them moved where the emulator does not
\* look (emulator.cpp:162 to 250).
THEOREM HeldKeysAreCounted == Spec => []KeysCounted
<1>1. CountInv => KeysCounted
  <2>1. {k \in held : Counts(k)} = CountedOf(held)
    BY CountsMeans DEF CountedOf
  <2>2. QED
    BY <2>1 DEF CountInv, KeysCounted
<1>2. QED
  BY CountInvHolds, <1>1, PTL

-----------------------------------------------------------------------------
(* The command line.                                                       *)

\* Between commands the line is empty, and during one it is what is shown.
LineInv ==
  /\ command \in BOOLEAN /\ pendingCommandExit \in BOOLEAN /\ late \in BOOLEAN
  /\ ~late =>
       /\ command => shown = cmdline
       /\ ~command \/ pendingCommandExit => cmdline = <<>>

LEMMA CmdKeyLine ==
  ASSUME LineInv, command, NEW k, CmdKey(k)
  PROVE  LineInv'
<1>1. command' = command /\ late' \in BOOLEAN
  BY DEF CmdKey, LineInv
<1>2. CASE k \in {"return", "escape"}
  BY <1>1, <1>2 DEF CmdKey, ProcessCommand, LineInv
<1>3. CASE k \notin {"return", "escape"}
  <2>1. /\ Edit(k) /\ pendingCommandExit' = pendingCommandExit
        /\ late' = (late \/ pendingCommandExit)
    BY <1>3 DEF CmdKey, Edit
  <2>2. ASSUME ~late' PROVE shown' = cmdline' /\ ~pendingCommandExit'
    <3>1. ~late /\ ~pendingCommandExit /\ shown = cmdline
      BY <2>1, <2>2 DEF LineInv
    <3>2. QED
      BY <2>1, <3>1 DEF Edit
  <2>3. QED
    BY <1>1, <2>1, <2>2 DEF LineInv
<1>4. QED
  BY <1>2, <1>3

LEMMA LineInvHolds == Spec => []LineInv
<1>1. Init => LineInv
  BY DEF Init, LineInv
<1>2. LineInv /\ [Next]_vars => LineInv'
  <2> SUFFICES ASSUME LineInv, [Next]_vars PROVE LineInv'
    OBVIOUS
  <2>1. CASE UNCHANGED commandVars
    BY <2>1 DEF LineInv, commandVars
  <2>2. ASSUME NEW k \in PhysicalKeys, KeyDown(k) PROVE LineInv'
    <3>1. CASE command
      BY <2>2, <3>1, CmdKeyLine DEF KeyDown
    <3>2. CASE ~command
      BY <2>2, <3>2 DEF KeyDown, DispatchKeypress, EnterCommandMode, LineInv
    <3>3. QED
      BY <3>1, <3>2
  <2>3. ASSUME NEW k \in PhysicalKeys, KeyUp(k) PROVE LineInv'
    BY <2>3 DEF KeyUp, KeyUpInCommand, LineInv
  <2>4. ASSUME NEW k \in PhysicalKeys, AutoRepeat(k) PROVE LineInv'
    BY <2>4, CmdKeyLine DEF AutoRepeat
  <2>5. CASE Loop \/ QuitEvent \/ UNCHANGED vars
    BY <2>1, <2>5 DEF Loop, Cycle, EventsDone, QuitEvent, vars, commandVars
  <2>6. QED
    BY <2>2, <2>3, <2>4, <2>5 DEF Next, Event
<1>3. QED
  BY <1>1, <1>2, PTL DEF Spec

\* Whatever is typed, repeated and deleted in a command, and however often the mode
\* is left and entered: the window shows the line that will be executed, unless a
\* key came after the end of an earlier command (emulator.cpp:407 to 449).
THEOREM ShownLineIsLine == Spec => []LineIsShown
<1>1. LineInv => LineIsShown
  BY DEF LineInv, LineIsShown
<1>2. QED
  BY LineInvHolds, <1>1, PTL

-----------------------------------------------------------------------------
(* The REPT timer.                                                         *)

\* A running timer has left what its period lacks.
TimerInv ==
  /\ rept \in Int /\ sinceRept \in Int
  /\ repeat => rept + sinceRept = Period

NoSooner == sent'.by = "REPT" => repeat /\ sinceRept + 1 >= Period

LEMMA TimerStep == TimerInv /\ [Next]_vars => TimerInv' /\ [NoSooner]_vars
<1> SUFFICES ASSUME TimerInv, [Next]_vars PROVE TimerInv' /\ [NoSooner]_vars
  OBVIOUS
<1> USE EmulatorAssumption
<1>1. CASE Cycle
  <2>1. CASE repeat /\ rept <= 1
    <3>1. rept' = Period /\ sinceRept' = 0 /\ repeat' = repeat
      BY <1>1, <2>1 DEF Cycle
    <3>2. TimerInv'
      BY <3>1 DEF TimerInv
    <3>3. repeat /\ sinceRept + 1 >= Period
      BY <2>1 DEF TimerInv
    <3>4. QED
      BY <3>2, <3>3 DEF NoSooner
  <2>2. CASE repeat /\ ~(rept <= 1)
    <3>1. rept' = rept - 1 /\ sinceRept' = sinceRept + 1 /\ repeat' = repeat /\ sent' = Nothing
      BY <1>1, <2>2 DEF Cycle
    <3>2. TimerInv'
      BY <2>2, <3>1 DEF TimerInv
    <3>3. NoSooner
      BY <3>1 DEF NoSooner, Nothing
    <3>4. QED
      BY <3>2, <3>3
  <2>3. CASE ~repeat
    <3>1. rept' = rept /\ sinceRept' = sinceRept /\ repeat' = repeat /\ sent' = Nothing
      BY <1>1, <2>3 DEF Cycle
    <3>2. QED
      BY <3>1, <2>3 DEF TimerInv, NoSooner, Nothing
  <2>4. QED
    BY <2>1, <2>2, <2>3
<1>2. CASE UNCHANGED reptVars /\ sent' = Nothing
  BY <1>2 DEF TimerInv, NoSooner, Nothing, reptVars
<1>3. ASSUME NEW k \in PhysicalKeys, KeyDown(k) PROVE TimerInv' /\ [NoSooner]_vars
  <2>1. CASE command
    BY <1>2, <1>3, <2>1 DEF KeyDown, CmdKey
  <2>2. CASE ~command
    <3>1. sent'.by # "REPT"
      BY <1>3, <2>2 DEF KeyDown, DispatchKeypress, Nothing, Pushed
    <3>2. CASE k = "F10"
      <4>1. repeat' = TRUE /\ rept' = Period /\ sinceRept' = 0
        BY <1>3, <2>2, <3>2 DEF KeyDown, DispatchKeypress, StartRept
      <4>2. QED
        BY <3>1, <4>1 DEF TimerInv, NoSooner
    <3>3. CASE k # "F10"
      <4>1. UNCHANGED reptVars
        BY <1>3, <2>2, <3>3 DEF KeyDown, DispatchKeypress
      <4>2. QED
        BY <3>1, <4>1 DEF TimerInv, NoSooner, reptVars
    <3>4. QED
      BY <3>2, <3>3
  <2>3. QED
    BY <2>1, <2>2
<1>4. ASSUME NEW k \in PhysicalKeys, KeyUp(k) PROVE TimerInv' /\ [NoSooner]_vars
  <2>1. sent' = Nothing /\ sinceRept' = sinceRept
    BY <1>4 DEF KeyUp
  <2>2. UNCHANGED <<repeat, rept>> \/ (repeat' = FALSE /\ rept' = 0)
    BY <1>4 DEF KeyUp, DispatchKeyUp
  <2>3. QED
    BY <2>1, <2>2 DEF TimerInv, NoSooner, Nothing
<1>5. ASSUME NEW k \in PhysicalKeys, AutoRepeat(k) PROVE TimerInv' /\ [NoSooner]_vars
  BY <1>2, <1>5 DEF AutoRepeat, CmdKey
<1>6. CASE EventsDone \/ QuitEvent
  BY <1>2, <1>6 DEF EventsDone, QuitEvent
<1>7. CASE UNCHANGED vars
  BY <1>7 DEF vars, TimerInv
<1>8. QED
  BY <1>1, <1>3, <1>4, <1>5, <1>6, <1>7 DEF Next, Loop, Event

\* For every period of the timer: whenever REPT is pressed and released, no key is
\* repeated before a full period has passed (emulator.cpp:117).
THEOREM ReptKeepsItsRate == Spec => RepeatsNoFaster
<1>1. Init => TimerInv
  BY DEF Init, TimerInv
<1>2. Spec => [][NoSooner]_vars
  BY <1>1, TimerStep, PTL DEF Spec
<1>3. QED
  BY <1>2 DEF RepeatsNoFaster, NoSooner

-----------------------------------------------------------------------------
(* The types.                                                              *)

\* Taking the last character off a line leaves a line.
LEMMA Shortened ==
  ASSUME NEW line \in Seq(PhysicalKeys), line # <<>>
  PROVE  SubSeq(line, 1, Len(line) - 1) \in Seq(PhysicalKeys)
<1>1. Len(line) \in Nat
  OBVIOUS
<1>2. \A i \in 1 .. Len(line) - 1 : line[i] \in PhysicalKeys
  OBVIOUS
<1>3. Len(line) - 1 \in Int
  BY <1>1
<1> QED
  BY <1>2, <1>3, SubSeqProperties

LEMMA CmdKeyTypes ==
  ASSUME TypeOK, NEW k \in PhysicalKeys, CmdKey(k)
  PROVE  /\ cmdline' \in Seq(PhysicalKeys) /\ shown' \in Seq(PhysicalKeys)
         /\ pendingCommandExit' \in BOOLEAN /\ late' \in BOOLEAN /\ sent' = Nothing
         /\ UNCHANGED <<command, keysDown, lastKeyDown, reptVars, quit>>
<1>1. late' \in BOOLEAN /\ sent' = Nothing
      /\ UNCHANGED <<command, keysDown, lastKeyDown, reptVars, quit>>
  BY DEF CmdKey, TypeOK
<1>2. CASE k \in {"return", "escape"}
  BY <1>1, <1>2 DEF CmdKey, ProcessCommand
<1>3. CASE k \notin {"return", "escape"} /\ k # "backspace"
  <2>1. cmdline' = Append(cmdline, k) /\ shown' = Append(shown, k) /\ UNCHANGED pendingCommandExit
    BY <1>3 DEF CmdKey, Edit
  <2> QED
    BY <1>1, <2>1 DEF TypeOK
<1>4. CASE k = "backspace"
  <2>1. /\ cmdline' = IF cmdline = <<>> THEN <<>> ELSE SubSeq(cmdline, 1, Len(cmdline) - 1)
        /\ shown' = IF cmdline = <<>> \/ shown = <<>> THEN shown
                    ELSE SubSeq(shown, 1, Len(shown) - 1)
        /\ UNCHANGED pendingCommandExit
    BY <1>4 DEF CmdKey, Edit
  <2>2. cmdline' \in Seq(PhysicalKeys)
    BY <2>1, Shortened DEF TypeOK
  <2>3. shown' \in Seq(PhysicalKeys)
    BY <2>1, Shortened DEF TypeOK
  <2> QED
    BY <1>1, <2>1, <2>2, <2>3 DEF TypeOK
<1> QED
  BY <1>2, <1>3, <1>4

LEMMA DispatchTypes ==
  ASSUME TypeOK, NEW k \in PhysicalKeys, DispatchKeypress(k)
  PROVE  /\ command' \in BOOLEAN /\ quit' \in BOOLEAN /\ repeat' \in BOOLEAN
         /\ shown' \in Seq(PhysicalKeys)
         /\ rept' \in 0 .. Period /\ sinceRept' \in 0 .. Period
         /\ lastKeyDown' \in PhysicalKeys \cup {None}
         /\ sent' \in [by : {"none", "typing", "REPT"}, key : PhysicalKeys \cup {None}]
         /\ keysDown' \in {keysDown, keysDown + 1}
         /\ UNCHANGED <<pendingCommandExit, cmdline, late>>
<1> USE EmulatorAssumption
<1>1. /\ keysDown' \in {keysDown, keysDown + 1}
      /\ UNCHANGED <<pendingCommandExit, cmdline, late>>
  BY DEF DispatchKeypress, TypeOK
<1>2. repeat' \in BOOLEAN /\ rept' \in 0 .. Period /\ sinceRept' \in 0 .. Period
  <2>1. CASE k = "F10"
    BY <2>1 DEF DispatchKeypress, StartRept
  <2>2. CASE k # "F10"
    <3>1. UNCHANGED reptVars
      BY <2>2 DEF DispatchKeypress
    <3> QED
      BY <3>1 DEF TypeOK, reptVars
  <2> QED
    BY <2>1, <2>2
<1>3. command' \in BOOLEAN /\ shown' \in Seq(PhysicalKeys) /\ quit' \in BOOLEAN
  <2>1. quit' \in {quit, TRUE}
    BY DEF DispatchKeypress, MayQuit
  <2>2. UNCHANGED <<command, shown>> \/ (command' = TRUE /\ shown' = <<>>)
    BY DEF DispatchKeypress, EnterCommandMode
  <2>3. quit' \in BOOLEAN
    BY <2>1 DEF TypeOK
  <2>4. command' \in BOOLEAN
    BY <2>2, Zenon DEF TypeOK
  <2>5. shown' = shown \/ shown' = <<>>
    BY <2>2
  <2>6. shown' \in Seq(PhysicalKeys)
    <3>1. shown \in Seq(PhysicalKeys) /\ <<>> \in Seq(PhysicalKeys)
      BY DEF TypeOK
    <3> QED
      BY <2>5, <3>1, Zenon
  <2> QED
    BY <2>3, <2>4, <2>6
<1>4. /\ lastKeyDown' \in PhysicalKeys \cup {None}
      /\ sent' \in [by : {"none", "typing", "REPT"}, key : PhysicalKeys \cup {None}]
  BY DEF DispatchKeypress, TypeOK, Pushed, Nothing
<1> QED
  BY <1>1, <1>2, <1>3, <1>4

LEMMA TypeStep == TypeOK /\ TimerInv /\ [Next]_vars => TypeOK'
<1> SUFFICES ASSUME TypeOK, TimerInv, [Next]_vars PROVE TypeOK'
  OBVIOUS
<1> USE EmulatorAssumption
<1>1. CASE Cycle
  <2>1. rept' \in 0 .. Period /\ sinceRept' \in 0 .. Period
    BY <1>1 DEF Cycle, TypeOK, TimerInv
  <2>2. sent' \in [by : {"none", "typing", "REPT"}, key : PhysicalKeys \cup {None}]
    BY <1>1 DEF Cycle, TypeOK, Pushed, Nothing
  <2> QED
    BY <1>1, <2>1, <2>2 DEF Cycle, TypeOK, commandVars
<1>2. CASE EventsDone
  BY <1>2 DEF EventsDone, TypeOK, Nothing, commandVars, reptVars
<1>3. CASE QuitEvent
  BY <1>3 DEF QuitEvent, MayQuit, TypeOK, Nothing, commandVars, reptVars
<1>4. ASSUME NEW k \in PhysicalKeys, KeyDown(k) PROVE TypeOK'
  <2>1. /\ keysDown' <= CountLimit /\ held' = held \cup {k} /\ phase' = phase
        /\ strayed' \in BOOLEAN
    BY <1>4 DEF KeyDown, Strays, TypeOK
  <2>2. CASE command
    <3>1. CmdKey(k)
      BY <1>4, <2>2 DEF KeyDown
    <3> QED
      BY <2>1, <3>1, CmdKeyTypes DEF TypeOK, Nothing, reptVars
  <2>3. CASE ~command
    <3>1. DispatchKeypress(k)
      BY <1>4, <2>3 DEF KeyDown
    <3>2. keysDown' \in -CountLimit .. CountLimit
      BY <2>1, <3>1, DispatchTypes DEF TypeOK
    <3> QED
      BY <2>1, <3>1, <3>2, DispatchTypes DEF TypeOK
  <2> QED
    BY <2>2, <2>3
<1>5. ASSUME NEW k \in PhysicalKeys, AutoRepeat(k) PROVE TypeOK'
  <2>1. CmdKey(k) /\ UNCHANGED <<phase, held, strayed>>
    BY <1>5 DEF AutoRepeat
  <2> QED
    BY <2>1, CmdKeyTypes DEF TypeOK, Nothing, reptVars
<1>6. ASSUME NEW k \in PhysicalKeys, KeyUp(k) PROVE TypeOK'
  <2>1. /\ UNCHANGED <<cmdline, shown, late, lastKeyDown, sinceRept, quit, phase>>
        /\ sent' = Nothing /\ held' = held \ {k} /\ strayed' \in BOOLEAN
        /\ keysDown' >= -CountLimit
    BY <1>6 DEF KeyUp, Strays, TypeOK
  <2>2. command' \in BOOLEAN /\ pendingCommandExit' \in BOOLEAN
    BY <1>6 DEF KeyUp, KeyUpInCommand, TypeOK
  <2>3. repeat' \in BOOLEAN /\ rept' \in 0 .. Period
    <3>1. UNCHANGED <<repeat, rept>> \/ (repeat' = FALSE /\ rept' = 0)
      BY <1>6 DEF KeyUp, DispatchKeyUp
    <3>2. repeat' \in BOOLEAN
      BY <3>1, Zenon DEF TypeOK
    <3>3. rept' = rept \/ rept' = 0
      BY <3>1
    <3> QED
      BY <3>2, <3>3 DEF TypeOK
  <2>4. keysDown' \in -CountLimit .. CountLimit
    <3>1. keysDown' \in {keysDown, keysDown - 1}
      BY <1>6 DEF KeyUp, DispatchKeyUp, TypeOK
    <3> QED
      BY <2>1, <3>1 DEF TypeOK
  <2> QED
    BY <2>1, <2>2, <2>3, <2>4 DEF TypeOK, Nothing
<1>7. CASE UNCHANGED vars
  BY <1>7 DEF vars, TypeOK
<1> QED
  BY <1>1, <1>2, <1>3, <1>4, <1>5, <1>6, <1>7 DEF Next, Loop, Event

\* The line and the window hold keys, the timer and the time since it was set stay
\* within a period, and what is sent by REPT is a key that was typed, or none if
\* keys are counted that never gave a character.
THEOREM TypeCorrect == Spec => []TypeOK
<1>1. Init => TypeOK /\ TimerInv
  <2> SUFFICES ASSUME Init PROVE TypeOK /\ TimerInv
    OBVIOUS
  <2>1. 0 \in -CountLimit .. CountLimit /\ 0 \in 0 .. Period
    BY EmulatorAssumption
  <2>2. <<>> \in Seq(PhysicalKeys)
    OBVIOUS
  <2>3. TypeOK
    BY <2>1, <2>2 DEF Init, TypeOK, Nothing
  <2> QED
    BY <2>3 DEF Init, TimerInv
<1>2. TypeOK /\ TimerInv /\ [Next]_vars => (TypeOK /\ TimerInv)'
  BY TypeStep, TimerStep
<1> QED
  BY <1>1, <1>2, PTL DEF Spec

-----------------------------------------------------------------------------
(* Power, reset and the processor: induction.                              *)

\* Induction on numbers, over a set rather than a formula.
LEMMA Induction ==
  ASSUME NEW S \in SUBSET Nat, 0 \in S, \A n \in S : n + 1 \in S
  PROVE  S = Nat
<1>1. SUFFICES ASSUME Nat \ S # {} PROVE FALSE
  OBVIOUS
<1>2. IsWellFoundedOn(OpToRel(<, Nat), Nat)
  BY NatLessThanWellFounded
<1>3. PICK x \in Nat \ S : \A y \in Nat \ S : ~ (<<y, x>> \in OpToRel(<, Nat))
  <2>1. Nat \ S \subseteq Nat
    OBVIOUS
  <2> QED
    BY <1>1, <1>2, <2>1, WFMin
<1>4. \A y \in Nat \ S : ~ (y < x)
  BY <1>3 DEF OpToRel
<1>5. x - 1 \in Nat /\ x - 1 \in S
  BY <1>4
<1> QED
  BY <1>5

-----------------------------------------------------------------------------
(* Bytes and words.                                                        *)

\* What a word is, in the terms of arithmetic.
LEMMA WordRange == \A n : n \in Words <=> n \in Int /\ 0 <= n /\ n <= \hFFFF
<1>1. 2 ^ 16 = 65536
  OBVIOUS
<1> QED
  BY <1>1 DEF Words

\* Truncations, digits and pairs of bytes are what their names say.
LEMMA ByteTypes ==
  /\ \A n \in Int : Byte(n) \in Bytes /\ Low(n) \in Bytes /\ Word(n) \in Words
  /\ \A n \in Int : Digit(n) \in 0 .. 15 /\ Tens(n) \in 0 .. 15
  /\ \A n \in Words : High(n) \in Bytes
  /\ \A lo, hi \in Bytes : Pair(lo, hi) \in Words
  /\ Bytes \subseteq Int /\ Words \subseteq Int /\ Bytes \subseteq Words
<1>0. \A n : n \in Bytes <=> n \in Int /\ 0 <= n /\ n <= \hFF
  BY DEF Bytes
<1>1. \A n \in Int : Byte(n) \in Bytes /\ Low(n) \in Bytes /\ Word(n) \in Words
  <2>1. 2 ^ 16 = 65536
    OBVIOUS
  <2> QED
    BY <1>0, <2>1, WordRange DEF Byte, Low, Word
<1>2. \A n \in Int : Digit(n) \in 0 .. 15 /\ Tens(n) \in 0 .. 15
  BY DEF Digit, Tens
<1>3. \A n \in Words : High(n) \in Bytes
  BY <1>0, WordRange DEF High
<1>4. \A lo, hi \in Bytes : Pair(lo, hi) \in Words
  BY <1>0, WordRange DEF Pair
<1>5. Bytes \subseteq Int /\ Words \subseteq Int /\ Bytes \subseteq Words
  BY <1>0, WordRange
<1> QED
  BY <1>1, <1>2, <1>3, <1>4, <1>5

\* The weights of some bits.
Weight(S) ==
  (IF 0 \in S THEN 1 ELSE 0) + (IF 1 \in S THEN 2 ELSE 0) + (IF 2 \in S THEN 4 ELSE 0)
  + (IF 3 \in S THEN 8 ELSE 0) + (IF 4 \in S THEN 16 ELSE 0) + (IF 5 \in S THEN 32 ELSE 0)
  + (IF 6 \in S THEN 64 ELSE 0) + (IF 7 \in S THEN 128 ELSE 0)

\* A bit taken away takes its weight.
LEMMA WeightWithout ==
  ASSUME NEW S \in SUBSET (0 .. 7), NEW i \in S
  PROVE  Weight(S) = 2 ^ i + Weight(S \ {i})
<1>0. CASE i = 0
  BY <1>0 DEF Weight
<1>1. CASE i = 1
  BY <1>1 DEF Weight
<1>2. CASE i = 2
  BY <1>2 DEF Weight
<1>3. CASE i = 3
  BY <1>3 DEF Weight
<1>4. CASE i = 4
  BY <1>4 DEF Weight
<1>5. CASE i = 5
  BY <1>5 DEF Weight
<1>6. CASE i = 6
  BY <1>6 DEF Weight
<1>7. CASE i = 7
  BY <1>7 DEF Weight
<1> QED
  BY <1>0, <1>1, <1>2, <1>3, <1>4, <1>5, <1>6, <1>7

\* Whatever order the fold takes the bits in, it adds their weights.
LEMMA FromBitsIsWeight ==
  ASSUME NEW S \in SUBSET (0 .. 7)
  PROVE  FromBits(S) = Weight(S)
<1> DEFINE one(s) == CHOOSE i \in s : TRUE
           Sums(g) == g = [s \in SUBSET S |-> IF s = {} THEN 0 ELSE 2 ^ one(s) + g[s \ {one(s)}]]
           g == CHOOSE f : Sums(f)
           w == [s \in SUBSET S |-> Weight(s)]
<1>1. FromBits(S) = g[S]
  <2>1. FromBits(S) =
          (CHOOSE iter : iter = [s \in SUBSET S |->
             IF s = {} THEN 0 ELSE LET x == CHOOSE i \in s : TRUE IN 2 ^ x + iter[s \ {x}]])[S]
    BY DEF FromBits, MapThenSumSet, MapThenFoldSet
  <2> QED
    BY <2>1
<1>2. \A s \in SUBSET S : s # {} => one(s) \in s
  OBVIOUS
<1>3. Sums(w)
  <2> DEFINE b(s) == IF s = {} THEN 0 ELSE 2 ^ one(s) + w[s \ {one(s)}]
  <2>1. ASSUME NEW s \in SUBSET S PROVE w[s] = b(s)
    <3>1. CASE s = {}
      BY <3>1 DEF Weight
    <3>2. CASE s # {}
      <4>1. one(s) \in s /\ s \in SUBSET (0 .. 7) /\ s \ {one(s)} \in SUBSET S
        BY <1>2, <3>2
      <4> HIDE DEF one
      <4>2. Weight(s) = 2 ^ one(s) + Weight(s \ {one(s)})
        BY <4>1, WeightWithout
      <4> QED
        BY <3>2, <4>1, <4>2
    <3> QED
      BY <3>1, <3>2
  <2>2. w = [s \in SUBSET S |-> w[s]]
    OBVIOUS
  <2> HIDE DEF w, b
  <2>3. w = [s \in SUBSET S |-> b(s)]
    BY <2>1, <2>2
  <2> QED
    BY <2>3 DEF b
<1>4. Sums(g)
  BY <1>3
<1> HIDE DEF g, w
<1>5. \A s \in SUBSET S : g[s] = IF s = {} THEN 0 ELSE 2 ^ one(s) + g[s \ {one(s)}]
  BY <1>4
<1> DEFINE T == {n \in Nat : \A s \in SUBSET S : Cardinality(s) = n => g[s] = Weight(s)}
<1>6. ASSUME NEW s \in SUBSET S
      PROVE  IsFiniteSet(s) /\ Cardinality(s) \in Nat /\ (Cardinality(s) = 0 <=> s = {})
  <2>1. IsFiniteSet(0 .. 7)
    BY FS_Interval, 0 \in Int, 7 \in Int
  <2>2. IsFiniteSet(s)
    BY <2>1, FS_Subset
  <2> QED
    BY <2>2, FS_CardinalityType, FS_EmptySet
<1>7. 0 \in T
  <2>1. ASSUME NEW s \in SUBSET S, Cardinality(s) = 0 PROVE g[s] = Weight(s)
    <3>1. s = {}
      BY <1>6, <2>1
    <3>2. g[s] = 0
      BY <1>5, <3>1
    <3> QED
      BY <3>1, <3>2 DEF Weight
  <2> QED
    BY <2>1
<1>8. ASSUME NEW n \in T PROVE n + 1 \in T
  <2>1. ASSUME NEW s \in SUBSET S, Cardinality(s) = n + 1 PROVE g[s] = Weight(s)
    <3> DEFINE r == s \ {one(s)}
    <3>1. s # {} /\ n \in Nat
      BY <1>6, <2>1
    <3>2. one(s) \in s /\ s \in SUBSET (0 .. 7) /\ r \in SUBSET S
      BY <1>2, <3>1
    <3> HIDE DEF one
    <3>3. Cardinality(r) = n
      BY <1>6, <2>1, <3>1, <3>2, FS_RemoveElement
    <3>4. g[r] = Weight(r)
      BY <3>2, <3>3
    <3>5. g[s] = 2 ^ one(s) + g[r]
      BY <1>5, <3>1
    <3> QED
      BY <3>2, <3>4, <3>5, WeightWithout
  <2> QED
    BY <2>1
<1>9. T = Nat
  <2>1. T \in SUBSET Nat
    OBVIOUS
  <2> HIDE DEF T
  <2> QED
    BY <1>7, <1>8, <2>1, Induction
<1>10. g[S] = Weight(S)
  <2>1. Cardinality(S) \in T
    BY <1>6, <1>9
  <2> QED
    BY <2>1
<1> QED
  BY <1>1, <1>10

\* Sets of bits and flags, and the bytes they make.
LEMMA BitTypes ==
  /\ \A n, i : BitSet(n, i) \in BOOLEAN
  /\ \A n : Bits(n) \in SUBSET (0 .. 7) /\ PFlags(n) \in SUBSET Flags
  /\ \A S \in SUBSET (0 .. 7) : FromBits(S) \in Bytes
  /\ \A p \in SUBSET Flags : PByte(p) \in Bytes
<1>1. \A n, i : BitSet(n, i) \in BOOLEAN
  BY DEF BitSet
<1>2. \A n : Bits(n) \in SUBSET (0 .. 7) /\ PFlags(n) \in SUBSET Flags
  BY DEF Bits, PFlags
<1>3. \A S \in SUBSET (0 .. 7) : FromBits(S) \in Bytes
  BY FromBitsIsWeight DEF Weight, Bytes
<1>4. ASSUME NEW p \in SUBSET Flags PROVE PByte(p) \in Bytes
  <2>1. \A f \in Flags : FlagBit[f] \in 0 .. 7
    BY DEF Flags, FlagBit
  <2>2. {FlagBit[f] : f \in p} \in SUBSET (0 .. 7)
    BY <2>1
  <2> QED
    BY <1>3, <2>2 DEF PByte
<1> QED
  BY <1>1, <1>2, <1>3, <1>4

-----------------------------------------------------------------------------
(* The registers of the processor.                                         *)

\* The processor with what it has written, also within a cycle, where t is -1 after
\* done().
CpuWith(mem) ==
  [started : BOOLEAN, pendingReset : BOOLEAN, t : -1 .. 6, opcode : Bytes \cup {RESET},
   a : Bytes, x : Bytes, y : Bytes, s : Bytes, p : SUBSET Flags, pc : Words,
   adl : Bytes, adh : Bytes, bal : Bytes, bah : Bytes, address : Words, data : Bytes,
   branch : BOOLEAN, sc : -1 .. 1, wc : BOOLEAN, mem : {mem}]

CpuOk(c) == c \in CpuWith(c.mem) /\ IsMemory(c.mem)

\* Nothing of the sequence of cycles is changed, and no memory.
Alike(c, d) ==
  /\ d \in CpuWith(c.mem)
  /\ d.t = c.t /\ d.opcode = c.opcode
  /\ d.started = c.started /\ d.pendingReset = c.pendingReset

LEMMA AlikeIsTransitive ==
  ASSUME NEW c, NEW d, NEW e, Alike(c, d), Alike(d, e)
  PROVE  Alike(c, e)
<1>1. d.mem = c.mem
  BY DEF Alike, CpuWith
<1> QED
  BY <1>1 DEF Alike

\* A register may hold any value of its type.
LEMMA SetField ==
  ASSUME NEW c, c \in CpuWith(c.mem)
  PROVE  /\ Alike(c, c)
         /\ \A v \in Bytes : Alike(c, [c EXCEPT !.a = v])
         /\ \A v \in Bytes : Alike(c, [c EXCEPT !.x = v])
         /\ \A v \in Bytes : Alike(c, [c EXCEPT !.y = v])
         /\ \A v \in Bytes : Alike(c, [c EXCEPT !.s = v])
         /\ \A v \in SUBSET Flags : Alike(c, [c EXCEPT !.p = v])
         /\ \A v \in Words : Alike(c, [c EXCEPT !.pc = v])
         /\ \A v \in Bytes : Alike(c, [c EXCEPT !.adl = v])
         /\ \A v \in Bytes : Alike(c, [c EXCEPT !.adh = v])
         /\ \A v \in Bytes : Alike(c, [c EXCEPT !.bal = v])
         /\ \A v \in Bytes : Alike(c, [c EXCEPT !.bah = v])
         /\ \A v \in Words : Alike(c, [c EXCEPT !.address = v])
         /\ \A v \in Bytes : Alike(c, [c EXCEPT !.data = v])
         /\ \A v \in BOOLEAN : Alike(c, [c EXCEPT !.branch = v])
  BY DEF Alike, CpuWith

\* So may two of them.
LEMMA SetFields ==
  ASSUME NEW c, c \in CpuWith(c.mem)
  PROVE  /\ \A v \in Bytes, w \in SUBSET Flags : Alike(c, [c EXCEPT !.a = v, !.p = w])
         /\ \A v \in Words, w \in Bytes : Alike(c, [c EXCEPT !.address = v, !.s = w])
         /\ \A v \in Words, w \in Words : Alike(c, [c EXCEPT !.address = v, !.pc = w])
         /\ \A v \in Bytes, w \in BOOLEAN : Alike(c, [c EXCEPT !.bal = v, !.wc = w])
  BY DEF Alike, CpuWith

\* The registers of a sound processor.
LEMMA FieldTypes ==
  ASSUME NEW c, c \in CpuWith(c.mem)
  PROVE  /\ {c.a, c.x, c.y, c.s, c.adl, c.adh, c.bal, c.bah, c.data} \subseteq Bytes
         /\ c.a \in Int /\ c.x \in Int /\ c.y \in Int /\ c.s \in Int /\ c.data \in Int
         /\ c.adl \in Int /\ c.adh \in Int /\ c.bal \in Int /\ c.bah \in Int
         /\ c.pc \in Words /\ c.address \in Words /\ c.pc \in Int /\ c.address \in Int
         /\ c.p \in SUBSET Flags /\ c.sc \in -1 .. 1
         /\ c.branch \in BOOLEAN /\ c.wc \in BOOLEAN
<1>1. /\ {c.a, c.x, c.y, c.s, c.adl, c.adh, c.bal, c.bah, c.data} \subseteq Bytes
      /\ c.pc \in Words /\ c.address \in Words
      /\ c.p \in SUBSET Flags /\ c.sc \in -1 .. 1
      /\ c.branch \in BOOLEAN /\ c.wc \in BOOLEAN
  BY DEF CpuWith
<1>2. \A v \in Bytes : v \in Int
  BY ByteTypes
<1>3. \A v \in Words : v \in Int
  BY ByteTypes
<1> QED
  BY <1>1, <1>2, <1>3

-----------------------------------------------------------------------------
(* Operations.                                                             *)

\* A flag set or cleared leaves a set of flags.
LEMMA SetPType ==
  ASSUME NEW p \in SUBSET Flags, NEW f \in Flags, NEW on
  PROVE  SetP(p, f, on) \in SUBSET Flags
  BY DEF SetP

\* setStatusRegisterNZ changes flags only.
LEMMA NZType ==
  ASSUME NEW c, c \in CpuWith(c.mem), NEW val
  PROVE  Alike(c, NZ(c, val))
<1> DEFINE p == SetP(SetP(c.p, "N", BitSet(val, 7)), "Z", val = 0)
<1>1. p \in SUBSET Flags
  <2>1. "N" \in Flags /\ "Z" \in Flags
    BY DEF Flags
  <2> QED
    BY <2>1, FieldTypes, SetPType
<1>2. NZ(c, val) = [c EXCEPT !.p = p]
  BY DEF NZ
<1> HIDE DEF p
<1> QED
  BY <1>1, <1>2, SetField

\* A register loaded, with its flags.
LEMMA LoadType ==
  ASSUME NEW c, c \in CpuWith(c.mem), NEW val \in Bytes
  PROVE  /\ Alike(c, LoadA(c, val)) /\ Alike(c, LoadX(c, val))
         /\ Alike(c, LoadY(c, val)) /\ Alike(c, Data(c, val))
<1>1. ASSUME NEW d, Alike(c, d) PROVE Alike(c, NZ(d, val))
  <2>1. d \in CpuWith(d.mem)
    BY <1>1 DEF Alike, CpuWith
  <2>2. Alike(d, NZ(d, val))
    BY <2>1, NZType
  <2> QED
    BY <1>1, <2>2, AlikeIsTransitive
<1> QED
  BY <1>1, SetField DEF LoadA, LoadX, LoadY, Data

\* A byte loaded after some flag has been set.
LEMMA LoadWithP ==
  ASSUME NEW c, c \in CpuWith(c.mem), NEW p \in SUBSET Flags, NEW val \in Bytes
  PROVE  /\ Alike(c, LoadA([c EXCEPT !.p = p], val)) /\ Alike(c, Data([c EXCEPT !.p = p], val))
         /\ Alike(c, NZ([c EXCEPT !.p = p], val))
<1> DEFINE d == [c EXCEPT !.p = p]
<1>1. Alike(c, d)
  BY SetField
<1> HIDE DEF d
<1>2. d \in CpuWith(d.mem)
  BY <1>1 DEF Alike, CpuWith
<1>3. Alike(d, LoadA(d, val)) /\ Alike(d, Data(d, val)) /\ Alike(d, NZ(d, val))
  BY <1>2, LoadType, NZType
<1>4. Alike(c, LoadA(d, val)) /\ Alike(c, Data(d, val)) /\ Alike(c, NZ(d, val))
  BY <1>1, <1>3, AlikeIsTransitive
<1> QED
  BY <1>4 DEF d

\* CMP, CPX and CPY change flags only.
LEMMA CompareType ==
  ASSUME NEW c, c \in CpuWith(c.mem), NEW r
  PROVE  Alike(c, Compare(c, r))
<1> DEFINE p == SetP(c.p, "C", r - c.data >= 0)
           d == [c EXCEPT !.p = p]
<1>1. p \in SUBSET Flags
  BY FieldTypes, SetPType DEF Flags
<1>2. Alike(c, d)
  BY <1>1, SetField
<1>3. Compare(c, r) = NZ(d, Byte(r - c.data))
  BY DEF Compare
<1> HIDE DEF p, d
<1>4. d \in CpuWith(d.mem)
  BY <1>2 DEF Alike, CpuWith
<1>5. Alike(d, NZ(d, Byte(r - c.data)))
  BY <1>4, NZType
<1> QED
  BY <1>2, <1>3, <1>5, AlikeIsTransitive

\* A byte shifted or rotated is a byte.
LEMMA ShiftTypes ==
  ASSUME NEW c, NEW byt \in Bytes
  PROVE  /\ ShiftLeft(byt).val \in Bytes /\ ShiftRight(byt).val \in Bytes
         /\ RotateLeft(c, byt).val \in Bytes /\ RotateRight(c, byt).val \in Bytes
<1>1. byt \in Int /\ 0 <= byt /\ byt <= 255 /\ Bytes = 0 .. 255
  BY DEF Bytes
<1>2. Carry(c) \in Int /\ 0 <= Carry(c) /\ Carry(c) <= 1
  BY DEF Carry
<1>3. byt \div 2 \in Int /\ 0 <= byt \div 2 /\ byt \div 2 <= 127
  BY <1>1
<1>4. /\ (byt * 2) % 256 \in Int /\ 0 <= (byt * 2) % 256
      /\ (byt * 2) % 256 <= 254
  <2>1. CASE byt < 128
    BY <1>1, <2>1
  <2>2. CASE byt >= 128
    BY <1>1, <2>2
  <2> QED
    BY <1>1, <2>1, <2>2
<1>5. ShiftLeft(byt).val = (byt * 2) % 256 /\ RotateLeft(c, byt).val = ((byt * 2) % 256) + Carry(c)
  BY DEF ShiftLeft, RotateLeft, Byte
<1>6. ShiftRight(byt).val = byt \div 2 /\ RotateRight(c, byt).val = byt \div 2 + 128 * Carry(c)
  BY DEF ShiftRight, RotateRight
<1> QED
  BY <1>1, <1>2, <1>3, <1>4, <1>5, <1>6

\* So the shifts leave a byte in the register or latch they shift.
LEMMA ShiftedType ==
  ASSUME NEW c, c \in CpuWith(c.mem), NEW shifted, shifted.val \in Bytes
  PROVE  Alike(c, DataShifted(c, shifted)) /\ Alike(c, AShifted(c, shifted))
<1> DEFINE p == SetP(c.p, "C", shifted.out)
<1>1. p \in SUBSET Flags
  BY FieldTypes, SetPType DEF Flags
<1>2. /\ DataShifted(c, shifted) = Data([c EXCEPT !.p = p], shifted.val)
      /\ AShifted(c, shifted) = LoadA([c EXCEPT !.p = p], shifted.val)
  BY DEF DataShifted, AShifted, Carrying
<1> HIDE DEF p
<1> QED
  BY <1>1, <1>2, LoadWithP

\* A digit, and tens that have lost their carry, make a byte.
LEMMA DigitsMakeByte ==
  ASSUME NEW n \in Int, NEW k \in Int
  PROVE  Digit(n) + Byte(16 * k) \in Bytes
<1>1. Digit(n) \in Int /\ 0 <= Digit(n) /\ Digit(n) <= 15
  BY ByteTypes
<1>2. (16 * k) % 256 = 16 * (k % 16)
  OBVIOUS
<1>3. k % 16 \in Int /\ 0 <= k % 16 /\ k % 16 <= 15
  OBVIOUS
<1> QED
  BY <1>1, <1>2, <1>3 DEF Byte, Bytes

\* The sums the arithmetic starts from are numbers.
LEMMA SumTypes ==
  ASSUME NEW c, c \in CpuWith(c.mem)
  PROVE  /\ c.a + c.data + Carry(c) \in Int
         /\ c.a - c.data - (1 - Carry(c)) \in Int
         /\ Digit(c.a) + Digit(c.data) + Carry(c) \in Int
         /\ Digit(c.a) - Digit(c.data) - (1 - Carry(c)) \in Int
<1>1. c.a \in Int /\ c.data \in Int
  BY FieldTypes
<1>2. Carry(c) \in Int
  BY DEF Carry
<1>3. Digit(c.a) \in Int /\ Digit(c.data) \in Int
  BY <1>1, ByteTypes
<1> QED
  BY <1>1, <1>2, <1>3

\* ADC and SBC leave a byte in the accumulator.
LEMMA BinaryTypes ==
  ASSUME NEW c, c \in CpuWith(c.mem)
  PROVE  Alike(c, BinaryADC(c)) /\ Alike(c, BinarySBC(c))
<1>1. \A f, g \in Flags : \A on, also : SetP(SetP(c.p, f, on), g, also) \in SUBSET Flags
  BY FieldTypes, SetPType
<1>2. "V" \in Flags /\ "C" \in Flags
  BY DEF Flags
<1>3. Alike(c, BinaryADC(c))
  <2> DEFINE tmp == c.a + c.data + Carry(c)
             p == SetP(SetP(c.p, "V", Overflow(c.a, c.data, Byte(tmp))), "C", tmp >= \h100)
  <2>1. BinaryADC(c) = LoadA([c EXCEPT !.p = p], Byte(tmp))
    BY DEF BinaryADC
  <2>2. Byte(tmp) \in Bytes
    BY SumTypes, ByteTypes
  <2>3. p \in SUBSET Flags
    BY <1>1, <1>2
  <2> HIDE DEF tmp, p
  <2> QED
    BY <2>1, <2>2, <2>3, LoadWithP
<1>4. Alike(c, BinarySBC(c))
  <2> DEFINE tmp == c.a - c.data - (1 - Carry(c))
             v == /\ BitSet(c.a, 7) # BitSet(c.data, 7)
                  /\ BitSet(c.a, 7) # BitSet(Byte(tmp), 7)
             p == SetP(SetP(c.p, "V", v), "C", tmp >= 0)
  <2>1. BinarySBC(c) = LoadA([c EXCEPT !.p = p], Byte(tmp))
    BY DEF BinarySBC
  <2>2. Byte(tmp) \in Bytes
    BY SumTypes, ByteTypes
  <2>3. p \in SUBSET Flags
    BY <1>1, <1>2
  <2> HIDE DEF tmp, p
  <2> QED
    BY <2>1, <2>2, <2>3, LoadWithP
<1> QED
  BY <1>3, <1>4

\* So do they in decimal mode, whatever digits the operands have.
LEMMA DecimalTypes ==
  ASSUME NEW c, c \in CpuWith(c.mem)
  PROVE  Alike(c, DecimalADC(c)) /\ Alike(c, DecimalSBC(c))
<1>1. c.p \in SUBSET Flags /\ {"V", "C", "Z", "N"} \subseteq Flags
  BY FieldTypes DEF Flags
<1>2. Tens(c.a) \in Int /\ Tens(c.data) \in Int
  <2>1. c.a \in Int /\ c.data \in Int
    BY FieldTypes
  <2>2. \A n \in Int : Tens(n) \in 0 .. 15
    BY ByteTypes
  <2> QED
    BY <2>1, <2>2
<1>3. Alike(c, DecimalADC(c))
  <2> DEFINE low  == Digit(c.a) + Digit(c.data) + Carry(c)
             tmp  == IF low >= 10 THEN low + 6 ELSE low
             k    == Tens(c.a) + Tens(c.data) + Tens(tmp)
             sum  == 16 * k
             tens == IF sum >= 160 THEN sum + 96 ELSE sum
             pZ   == SetP(c.p, "Z", Byte(c.a + c.data + Carry(c)) = 0)
             pV   == SetP(pZ \ {"N"}, "V", Overflow(c.a, c.data, sum))
             p    == SetP(pV, "C", tens >= \h100)
  <2>1. DecimalADC(c) = [c EXCEPT !.a = Digit(tmp) + Byte(tens), !.p = p]
    BY DEF DecimalADC
  <2>2. p \in SUBSET Flags
    <3>1. pZ \in SUBSET Flags
      BY <1>1, SetPType
    <3> HIDE DEF pZ
    <3>2. pV \in SUBSET Flags
      BY <1>1, <3>1, SetPType
    <3> HIDE DEF pV
    <3> QED
      BY <1>1, <3>2, SetPType
  <2>3. tmp \in Int
    BY SumTypes
  <2> HIDE DEF tmp, p
  <2>4. k \in Int
    BY <1>2, <2>3, ByteTypes
  <2> HIDE DEF k
  <2>5. tens = 16 * k \/ tens = 16 * (k + 6)
    BY <2>4
  <2>6. k + 6 \in Int
    BY <2>4
  <2> HIDE DEF tens
  <2>7. Digit(tmp) + Byte(tens) \in Bytes
    BY <2>3, <2>4, <2>5, <2>6, DigitsMakeByte
  <2>8. Alike(c, [c EXCEPT !.a = Digit(tmp) + Byte(tens), !.p = p])
    BY <2>2, <2>7, SetFields
  <2> QED
    BY <2>1, <2>8
<1>4. Alike(c, DecimalSBC(c))
  <2> DEFINE low  == Digit(c.a) - Digit(c.data) - (1 - Carry(c))
             tmp  == IF low % 32 >= 16 THEN low - 6 ELSE low
             diff == 16 * (Tens(c.a) - Tens(c.data)) - (IF tmp % 32 >= 16 THEN 16 ELSE 0)
             tens == IF diff % 512 >= 256 THEN diff - 96 ELSE diff
             bin  == c.a - c.data - (1 - Carry(c))
             p    == SetP(c.p, "C", bin >= 0)
             d    == [c EXCEPT !.a = Digit(tmp) + Byte(tens), !.p = p]
             k    == Tens(c.a) - Tens(c.data)
  <2>1. DecimalSBC(c) = NZ(d, Byte(bin))
    BY DEF DecimalSBC
  <2>2. p \in SUBSET Flags
    BY <1>1, SetPType
  <2>3. tmp \in Int
    BY SumTypes
  <2> HIDE DEF tmp, p, bin
  <2>4. diff = 16 * k \/ diff = 16 * (k - 1)
    BY <1>2
  <2>5. k \in Int /\ k - 1 \in Int /\ k - 6 \in Int /\ k - 1 - 6 \in Int
    BY <1>2
  <2> HIDE DEF k, diff
  <2>6. \/ tens = 16 * k \/ tens = 16 * (k - 6)
        \/ tens = 16 * (k - 1) \/ tens = 16 * (k - 1 - 6)
    BY <2>4, <2>5
  <2> HIDE DEF tens
  <2>7. Digit(tmp) + Byte(tens) \in Bytes
    BY <2>3, <2>5, <2>6, DigitsMakeByte
  <2>8. Alike(c, d)
    BY <2>2, <2>7, SetFields
  <2> HIDE DEF d
  <2>9. d \in CpuWith(d.mem)
    BY <2>8 DEF Alike, CpuWith
  <2>10. Alike(d, NZ(d, Byte(bin)))
    BY <2>9, NZType
  <2> QED
    BY <2>1, <2>8, <2>10, AlikeIsTransitive
<1> QED
  BY <1>3, <1>4

\* BIT changes flags only, and the logical operations load a byte.
LEMMA TestAndLogicTypes ==
  ASSUME NEW c, c \in CpuWith(c.mem)
  PROVE  /\ Alike(c, TestBits(c))
         /\ \A op \in {"AND", "ORA", "EOR"} : Alike(c, Logic(c, op))
<1>1. Alike(c, TestBits(c))
  <2> DEFINE pVN == SetP(SetP(c.p, "V", BitSet(c.data, 6)), "N", BitSet(c.data, 7))
             p == SetP(pVN, "Z", Bits(c.data) \cap Bits(c.a) = {})
  <2>1. TestBits(c) = [c EXCEPT !.p = p]
    BY DEF TestBits
  <2>2. c.p \in SUBSET Flags /\ {"V", "N", "Z"} \subseteq Flags
    BY FieldTypes DEF Flags
  <2>3. pVN \in SUBSET Flags
    BY <2>2, SetPType
  <2> HIDE DEF pVN
  <2>4. p \in SUBSET Flags
    BY <2>2, <2>3, SetPType
  <2> HIDE DEF p
  <2> QED
    BY <2>1, <2>4, SetField
<1>2. ASSUME NEW op \in {"AND", "ORA", "EOR"} PROVE Alike(c, Logic(c, op))
  <2> DEFINE both == Bits(c.a) \cap Bits(c.data)
             any  == Bits(c.a) \cup Bits(c.data)
  <2>1. both \in SUBSET (0 .. 7) /\ any \in SUBSET (0 .. 7) /\ any \ both \in SUBSET (0 .. 7)
    BY BitTypes
  <2>2. \/ Logic(c, op) = LoadA(c, FromBits(both))
        \/ Logic(c, op) = LoadA(c, FromBits(any))
        \/ Logic(c, op) = LoadA(c, FromBits(any \ both))
    BY DEF Logic
  <2>3. /\ FromBits(both) \in Bytes /\ FromBits(any) \in Bytes
        /\ FromBits(any \ both) \in Bytes
    BY <2>1, BitTypes
  <2> HIDE DEF both, any
  <2> QED
    BY <2>2, <2>3, LoadType
<1> QED
  BY <1>1, <1>2

\* The groups of stores, transfers, branches, flag and stack operations.
LEMMA GroupTypes ==
  ASSUME NEW c, c \in CpuWith(c.mem)
  PROVE  /\ \A op \in {"STA", "STX", "STY"} : Alike(c, Stored(c, op))
         /\ \A op \in {"TAX", "TXA", "TAY", "TYA", "TXS", "TSX"} : Alike(c, Transferred(c, op))
         /\ \A op : Alike(c, Undocumented(c, op))
         /\ \A op \in DOMAIN FlagOps :
              Alike(c, [c EXCEPT !.p = SetP(c.p, FlagOps[op][1], FlagOps[op][2])])
         /\ \A op : Alike(c, [c EXCEPT !.branch = (Branches[op][1] \in c.p) = Branches[op][2]])
         /\ Alike(c, [c EXCEPT !.data = PByte(c.p \cup {"B"})])
         /\ Alike(c, [c EXCEPT !.p = PFlags(c.data) \cup {"M", "B"}])
<1>1. ASSUME NEW op \in {"STA", "STX", "STY"} PROVE Alike(c, Stored(c, op))
  <2>1. \/ Stored(c, op) = [c EXCEPT !.data = c.a]
        \/ Stored(c, op) = [c EXCEPT !.data = c.x]
        \/ Stored(c, op) = [c EXCEPT !.data = c.y]
    BY DEF Stored
  <2>2. c.a \in Bytes /\ c.x \in Bytes /\ c.y \in Bytes
    BY FieldTypes
  <2> QED
    BY <2>1, <2>2, SetField
<1>2. ASSUME NEW op \in {"TAX", "TXA", "TAY", "TYA", "TXS", "TSX"}
      PROVE  Alike(c, Transferred(c, op))
  <2>1. \/ Transferred(c, op) = LoadX(c, c.a)
        \/ Transferred(c, op) = LoadA(c, c.x)
        \/ Transferred(c, op) = LoadY(c, c.a)
        \/ Transferred(c, op) = LoadA(c, c.y)
        \/ Transferred(c, op) = [c EXCEPT !.s = c.x]
        \/ Transferred(c, op) = LoadX(c, c.s)
    BY DEF Transferred
  <2>2. c.a \in Bytes /\ c.x \in Bytes /\ c.y \in Bytes /\ c.s \in Bytes
    BY FieldTypes
  <2> QED
    BY <2>1, <2>2, SetField, LoadType
<1>3. ASSUME NEW op PROVE Alike(c, Undocumented(c, op))
  <2>1. \/ Undocumented(c, op) = [c EXCEPT !.pc = Word(c.pc + 1)]
        \/ Undocumented(c, op) = [c EXCEPT !.pc = Word(c.pc + 2)]
        \/ Undocumented(c, op) = [c EXCEPT !.pc = Word(c.pc - 1)]
        \/ Undocumented(c, op) = c
    BY DEF Undocumented
  <2>2. c.pc \in Int
    BY FieldTypes
  <2>3. c.pc + 1 \in Int /\ c.pc + 2 \in Int /\ c.pc - 1 \in Int
    BY <2>2
  <2>4. Word(c.pc + 1) \in Words /\ Word(c.pc + 2) \in Words /\ Word(c.pc - 1) \in Words
    BY <2>3, ByteTypes
  <2> QED
    BY <2>1, <2>4, SetField
<1>4. ASSUME NEW op \in DOMAIN FlagOps
      PROVE  Alike(c, [c EXCEPT !.p = SetP(c.p, FlagOps[op][1], FlagOps[op][2])])
  <2>1. FlagOps[op][1] \in Flags
    BY DEF FlagOps, Flags
  <2>2. SetP(c.p, FlagOps[op][1], FlagOps[op][2]) \in SUBSET Flags
    BY <2>1, FieldTypes, SetPType
  <2> QED
    BY <2>2, SetField
<1>5. ASSUME NEW op
      PROVE  Alike(c, [c EXCEPT !.branch = (Branches[op][1] \in c.p) = Branches[op][2]])
  <2>1. ((Branches[op][1] \in c.p) = Branches[op][2]) \in BOOLEAN
    OBVIOUS
  <2> QED
    BY <2>1, SetField
<1>6. Alike(c, [c EXCEPT !.data = PByte(c.p \cup {"B"})])
  <2>1. c.p \cup {"B"} \in SUBSET Flags
    BY FieldTypes DEF Flags
  <2>2. PByte(c.p \cup {"B"}) \in Bytes
    BY <2>1, BitTypes
  <2> QED
    BY <2>2, SetField
<1>7. Alike(c, [c EXCEPT !.p = PFlags(c.data) \cup {"M", "B"}])
  <2>1. PFlags(c.data) \in SUBSET Flags /\ {"M", "B"} \subseteq Flags
    BY BitTypes DEF Flags
  <2>2. PFlags(c.data) \cup {"M", "B"} \in SUBSET Flags
    BY <2>1
  <2> QED
    BY <2>2, SetField
<1> QED
  BY <1>1, <1>2, <1>3, <1>4, <1>5, <1>6, <1>7

\* A byte stepped up or down is a byte.
LEMMA StepTypes ==
  ASSUME NEW c, c \in CpuWith(c.mem)
  PROVE  /\ Byte(c.data + 1) \in Bytes /\ Byte(c.data - 1) \in Bytes
         /\ Byte(c.x + 1) \in Bytes /\ Byte(c.x - 1) \in Bytes
         /\ Byte(c.y + 1) \in Bytes /\ Byte(c.y - 1) \in Bytes
<1>1. c.data \in Int /\ c.x \in Int /\ c.y \in Int
  BY FieldTypes
<1>2. /\ c.data + 1 \in Int /\ c.data - 1 \in Int /\ c.x + 1 \in Int /\ c.x - 1 \in Int
      /\ c.y + 1 \in Int /\ c.y - 1 \in Int
  BY <1>1
<1> QED
  BY <1>2, ByteTypes

\* execute: an operation leaves the sequence of cycles and the memory alone, and
\* bytes in the registers.
LEMMA ExecuteType ==
  ASSUME NEW c, c \in CpuWith(c.mem)
  PROVE  Alike(c, Execute(c))
<1> DEFINE op == ExecTable[c.opcode]
<1>2. c.data \in Bytes /\ c.a \in Bytes
  BY FieldTypes
<1>3. /\ Alike(c, DataShifted(c, ShiftLeft(c.data)))
      /\ Alike(c, DataShifted(c, ShiftRight(c.data)))
      /\ Alike(c, DataShifted(c, RotateLeft(c, c.data)))
      /\ Alike(c, DataShifted(c, RotateRight(c, c.data)))
      /\ Alike(c, AShifted(c, ShiftLeft(c.a)))
      /\ Alike(c, AShifted(c, ShiftRight(c.a)))
      /\ Alike(c, AShifted(c, RotateLeft(c, c.a)))
      /\ Alike(c, AShifted(c, RotateRight(c, c.a)))
  <2>1. /\ ShiftLeft(c.data).val \in Bytes /\ ShiftRight(c.data).val \in Bytes
        /\ RotateLeft(c, c.data).val \in Bytes /\ RotateRight(c, c.data).val \in Bytes
        /\ ShiftLeft(c.a).val \in Bytes /\ ShiftRight(c.a).val \in Bytes
        /\ RotateLeft(c, c.a).val \in Bytes /\ RotateRight(c, c.a).val \in Bytes
    BY <1>2, ShiftTypes
  <2> QED
    BY <2>1, ShiftedType
<1>4. Alike(c, ADC(c)) /\ Alike(c, SBC(c))
  BY BinaryTypes, DecimalTypes DEF ADC, SBC
<1>5. /\ Alike(c, Data(c, Byte(c.data + 1))) /\ Alike(c, Data(c, Byte(c.data - 1)))
      /\ Alike(c, LoadX(c, Byte(c.x + 1))) /\ Alike(c, LoadY(c, Byte(c.y + 1)))
      /\ Alike(c, LoadX(c, Byte(c.x - 1))) /\ Alike(c, LoadY(c, Byte(c.y - 1)))
  BY StepTypes, LoadType
<1>6. /\ Alike(c, LoadA(c, c.data)) /\ Alike(c, LoadX(c, c.data))
      /\ Alike(c, LoadY(c, c.data)) /\ Alike(c, [c EXCEPT !.data = c.a]) /\ Alike(c, c)
  BY <1>2, LoadType, SetField
<1>7. /\ Alike(c, Compare(c, c.a)) /\ Alike(c, Compare(c, c.x)) /\ Alike(c, Compare(c, c.y))
  BY CompareType
<1>8. /\ Alike(c, TestBits(c))
      /\ \A o \in {"AND", "ORA", "EOR"} : Alike(c, Logic(c, o))
  BY TestAndLogicTypes
<1>9. /\ op \in {"STA", "STX", "STY"} => Alike(c, Stored(c, op))
      /\ op \in {"TAX", "TXA", "TAY", "TYA", "TXS", "TSX"} => Alike(c, Transferred(c, op))
      /\ Alike(c, Undocumented(c, op))
      /\ op \in DOMAIN FlagOps =>
           Alike(c, [c EXCEPT !.p = SetP(c.p, FlagOps[op][1], FlagOps[op][2])])
      /\ Alike(c, [c EXCEPT !.branch = (Branches[op][1] \in c.p) = Branches[op][2]])
      /\ Alike(c, [c EXCEPT !.data = PByte(c.p \cup {"B"})])
      /\ Alike(c, [c EXCEPT !.p = PFlags(c.data) \cup {"M", "B"}])
  BY GroupTypes
<1> QED
  BY <1>3, <1>4, <1>5, <1>6, <1>7, <1>8, <1>9 DEF Execute

-----------------------------------------------------------------------------
(* Statements.                                                             *)

\* Whatever the memory holds, there are bytes on the bus, and a byte written keeps
\* it a memory.
LEMMA BusTypes ==
  ASSUME NEW c, CpuOk(c)
  PROVE  /\ \A address \in Words : BusRead(c, address) \in Bytes
         /\ Alike(c, [c EXCEPT !.data = BusRead(c, c.address)])
         /\ CpuOk(BusWrite(c))
         /\ BusWrite(c).t = c.t /\ BusWrite(c).opcode = c.opcode
         /\ BusWrite(c).started = c.started /\ BusWrite(c).pendingReset = c.pendingReset
<1>1. \A address \in Words : BusRead(c, address) \in Bytes
  BY CpuAssumption DEF BusRead, CpuOk, IsMemory
<1>2. c \in CpuWith(c.mem) /\ IsMemory(c.mem)
  BY DEF CpuOk
<1>3. c.address \in Words /\ c.data \in Bytes
  BY <1>2, FieldTypes
<1>4. BusRead(c, c.address) \in Bytes
  BY <1>1, <1>3
<1>5. Alike(c, [c EXCEPT !.data = BusRead(c, c.address)])
  BY <1>2, <1>4, SetField
<1> DEFINE mem == [address \in {c.address} \cup DOMAIN c.mem |->
                     IF address = c.address THEN c.data ELSE c.mem[address]]
<1>6. IsMemory(mem)
  BY <1>2, <1>3 DEF IsMemory
<1>7. BusWrite(c) = [c EXCEPT !.mem = mem]
  BY DEF BusWrite
<1> HIDE DEF mem
<1>8. /\ BusWrite(c) \in CpuWith(mem) /\ BusWrite(c).mem = mem
      /\ BusWrite(c).t = c.t /\ BusWrite(c).opcode = c.opcode
      /\ BusWrite(c).started = c.started /\ BusWrite(c).pendingReset = c.pendingReset
  BY <1>2, <1>7 DEF CpuWith
<1>9. CpuOk(BusWrite(c))
  BY <1>6, <1>8 DEF CpuOk
<1> QED
  BY <1>1, <1>5, <1>8, <1>9

\* Every address the routines form is a word, and every latch gets a byte.
LEMMA AddressTypes ==
  ASSUME NEW c, c \in CpuWith(c.mem)
  PROVE  /\ AD(c) \in Words /\ BA(c) \in Words
         /\ Word(BA(c) + Index(c)) \in Words /\ Word(BA(c) + c.x) \in Words
         /\ Word(BA(c) + c.y) \in Words /\ c.bal \in Words
         /\ Byte(c.address + c.x) \in Words /\ Byte(c.address + 1) \in Words
         /\ Word(c.address + 1) \in Words /\ Word(c.pc + 1) \in Words
         /\ IRQ_VECTOR \in Words
         /\ \h100 + c.s \in Words /\ \h100 + Byte(c.s + 1) \in Words
         /\ Byte(c.s - 1) \in Bytes /\ Byte(c.s + 1) \in Bytes
         /\ Byte(c.bal + 1) \in Bytes /\ Byte(c.bah + 1) \in Bytes
         /\ Byte(c.bal + Index(c)) \in Bytes /\ Byte(c.bal + c.y) \in Bytes
         /\ Byte(c.bal + c.x) \in Bytes
         /\ High(c.pc) \in Bytes /\ Low(c.pc) \in Bytes
<1>1. /\ c.a \in Int /\ c.x \in Int /\ c.y \in Int /\ c.s \in Int /\ c.bal \in Int
      /\ c.bah \in Int /\ c.address \in Int /\ c.pc \in Int /\ c.pc \in Words
  BY FieldTypes
<1>2. /\ c.adl \in Bytes /\ c.adh \in Bytes /\ c.bal \in Bytes /\ c.bah \in Bytes
      /\ c.s \in Bytes
  BY FieldTypes
<1>3. Index(c) \in Int
  BY <1>1 DEF Index
<1>4. AD(c) \in Words /\ BA(c) \in Words
  BY <1>2, ByteTypes DEF AD, BA
<1>5. BA(c) \in Int /\ \A b \in Bytes : b \in Words
  BY <1>4, ByteTypes
<1>6. /\ BA(c) + Index(c) \in Int /\ BA(c) + c.x \in Int /\ BA(c) + c.y \in Int
      /\ c.address + c.x \in Int /\ c.address + 1 \in Int /\ c.pc + 1 \in Int
      /\ c.s - 1 \in Int /\ c.s + 1 \in Int /\ c.bal + 1 \in Int /\ c.bah + 1 \in Int
      /\ c.bal + Index(c) \in Int /\ c.bal + c.y \in Int /\ c.bal + c.x \in Int
  BY <1>1, <1>3, <1>5
<1>7. \A n \in Int : Byte(n) \in Bytes /\ Low(n) \in Bytes /\ Word(n) \in Words
  BY ByteTypes
<1>8. \A b \in Bytes : \h100 + b \in Words
  BY WordRange DEF Bytes
<1>9. IRQ_VECTOR \in Words
  BY WordRange DEF IRQ_VECTOR
<1>10. Byte(c.s - 1) \in Bytes /\ Byte(c.s + 1) \in Bytes
  BY <1>6, <1>7
<1>11. High(c.pc) \in Bytes
  BY <1>1, ByteTypes
<1>12. \h100 + c.s \in Words /\ \h100 + Byte(c.s + 1) \in Words
  BY <1>2, <1>8, <1>10
<1> QED
  BY <1>1, <1>2, <1>4, <1>5, <1>6, <1>7, <1>9, <1>10, <1>11, <1>12

\* A branch stays within the address space, one page off at most.
LEMMA BranchTypes ==
  ASSUME NEW c, c \in CpuWith(c.mem)
  PROVE  Alike(c, Branched(c)) /\ Word(c.pc + \h100 * c.sc) \in Words
<1> DEFINE lo == Low(c.pc) + (IF BitSet(c.data, 7) THEN c.data - \h100 ELSE c.data)
<1>1. c.pc \in Words /\ c.pc \in Int /\ c.data \in Bytes /\ c.sc \in -1 .. 1
  BY FieldTypes
<1>3. Low(c.pc) \in Bytes
  BY <1>1, ByteTypes
<1>4. lo \in Int /\ -256 <= lo /\ lo < 512
  <2> DEFINE low == Low(c.pc)
  <2>1. low \in Int /\ 0 <= low /\ low <= 255
    BY <1>3 DEF Bytes
  <2>2. c.data \in Int /\ 0 <= c.data /\ c.data <= 255
    BY <1>1 DEF Bytes
  <2>3. lo = low + (IF BitSet(c.data, 7) THEN c.data - \h100 ELSE c.data)
    OBVIOUS
  <2> HIDE DEF low, lo
  <2>4. CASE BitSet(c.data, 7)
    <3>1. lo = low + (c.data - 256)
      BY <2>3, <2>4
    <3> QED
      BY <2>1, <2>2, <3>1
  <2>5. CASE ~ BitSet(c.data, 7)
    <3>1. lo = low + c.data
      BY <2>3, <2>5
    <3> QED
      BY <2>1, <2>2, <3>1
  <2> QED
    BY <2>4, <2>5
<1>5. Branched(c) = [c EXCEPT !.sc = lo \div \h100, !.pc = Pair(Byte(lo), High(c.pc))]
  BY DEF Branched
<1> HIDE DEF lo
<1>6. lo \div \h100 \in -1 .. 1
  BY <1>4
<1>7. Byte(lo) \in Bytes /\ High(c.pc) \in Bytes
  BY <1>1, <1>4, ByteTypes
<1>8. Pair(Byte(lo), High(c.pc)) \in Words
  BY <1>7, ByteTypes
<1>9. Alike(c, Branched(c))
  <2> DEFINE sc == lo \div \h100
             pc == Pair(Byte(lo), High(c.pc))
  <2>1. sc \in -1 .. 1 /\ pc \in Words
    BY <1>6, <1>8
  <2>2. Branched(c) = [c EXCEPT !.sc = sc, !.pc = pc]
    BY <1>5
  <2> HIDE DEF sc, pc
  <2> QED
    BY <2>1, <2>2 DEF Alike, CpuWith
<1>10. c.pc + \h100 * c.sc \in Int
  BY <1>1
<1>11. Word(c.pc + \h100 * c.sc) \in Words
  BY <1>10, ByteTypes
<1> QED
  BY <1>9, <1>11

\* The statements an addressing routine is made of.
AddressStatements ==
  {"pc", "pc++", "ad", "ba", "ba+idx", "ba+x", "ba+y", "bal", "+x", "+1", "next", "irq", "sp",
   "push", "pull", "read", "exec"}
LatchStatements ==
  {"adl=", "adh=", "bal=", "bah=", "adh=0", "bah=0", "++bal", "++bah", "+idx", "+y", "z+idx",
   "z+x"}
RegisterStatements ==
  {"=pch", "=pcl", "=p", "pc=ad", "++pc", "branch low", "branch high", "p+B", "p+I", "p=",
   "s=FF"}
EndingStatements ==
  {"write", "done", "exec and done unless wc", "done unless branch", "done unless sc",
   "served"}
Statements ==
  AddressStatements \cup LatchStatements \cup RegisterStatements \cup EndingStatements

\* A cycle under way: it may have ended the instruction, or served the reset.
Within(c, d) ==
  /\ CpuOk(d)
  /\ d.opcode = c.opcode /\ d.started = c.started
  /\ d.t \in {c.t, -1} /\ d.pendingReset \in {c.pendingReset, FALSE}

LEMMA WithinIsTransitive ==
  ASSUME NEW c, NEW d, NEW e, Within(c, d), Within(d, e)
  PROVE  Within(c, e)
  BY DEF Within

LEMMA AlikeIsWithin ==
  ASSUME NEW c, CpuOk(c), NEW d, Alike(c, d)
  PROVE  Within(c, d)
<1>1. d.mem = c.mem
  BY DEF Alike, CpuWith
<1> QED
  BY <1>1 DEF Alike, Within, CpuOk

\* The statements that end an instruction or a reset, and the writes.
LEMMA EndingsWithin ==
  ASSUME NEW c, CpuOk(c)
  PROVE  /\ Within(c, [c EXCEPT !.t = -1])
         /\ Within(c, [c EXCEPT !.pendingReset = FALSE])
         /\ Within(c, BusWrite(c)) /\ Within(c, c)
         /\ Within(c, [Execute(c) EXCEPT !.t = -1])
<1>1. ASSUME NEW d, CpuOk(d)
      PROVE  /\ Within(d, [d EXCEPT !.t = -1])
             /\ Within(d, [d EXCEPT !.pendingReset = FALSE])
  <2> DEFINE e == [d EXCEPT !.t = -1]
             f == [d EXCEPT !.pendingReset = FALSE]
  <2>1. d \in CpuWith(d.mem) /\ IsMemory(d.mem)
    BY <1>1 DEF CpuOk
  <2>2. /\ e \in CpuWith(d.mem) /\ e.mem = d.mem /\ e.t = -1
        /\ e.opcode = d.opcode /\ e.started = d.started /\ e.pendingReset = d.pendingReset
    BY <2>1 DEF CpuWith
  <2>3. /\ f \in CpuWith(d.mem) /\ f.mem = d.mem /\ f.t = d.t
        /\ f.opcode = d.opcode /\ f.started = d.started /\ f.pendingReset = FALSE
    BY <2>1 DEF CpuWith
  <2> HIDE DEF e, f
  <2>4. Within(d, e) /\ Within(d, f)
    BY <2>1, <2>2, <2>3 DEF Within, CpuOk
  <2> QED
    BY <2>4 DEF e, f
<1>2. Within(c, Execute(c)) /\ Within(c, c)
  <2>1. Alike(c, Execute(c)) /\ Alike(c, c)
    BY ExecuteType, SetField DEF CpuOk
  <2> QED
    BY <2>1, AlikeIsWithin
<1>3. Within(c, [Execute(c) EXCEPT !.t = -1])
  <2> DEFINE d == Execute(c)
  <2>1. Within(c, d)
    BY <1>2
  <2> HIDE DEF d
  <2>2. Within(d, [d EXCEPT !.t = -1])
    BY <1>1, <2>1 DEF Within
  <2> DEFINE e == [d EXCEPT !.t = -1]
  <2>3. Within(d, e)
    BY <2>2
  <2> HIDE DEF e
  <2>4. Within(c, e)
    BY <2>1, <2>3, WithinIsTransitive
  <2> QED
    BY <2>4 DEF d, e
<1>4. Within(c, BusWrite(c))
  BY BusTypes DEF Within
<1> QED
  BY <1>1, <1>2, <1>3, <1>4

\* Addresses and latches.
LEMMA LatchesAlike ==
  ASSUME NEW c, CpuOk(c)
  PROVE  /\ \A m \in AddressStatements : Alike(c, Statement(c, m))
         /\ \A m \in LatchStatements : Alike(c, Statement(c, m))
<1>1. c \in CpuWith(c.mem)
  BY DEF CpuOk
<1>2. c.data \in Bytes /\ 0 \in Bytes /\ c.pc \in Words
  BY <1>1, FieldTypes DEF Bytes
<1>3. Carries(c, Index(c)) \in BOOLEAN /\ Carries(c, c.y) \in BOOLEAN
  BY DEF Carries
<1>4. /\ Alike(c, [c EXCEPT !.data = BusRead(c, c.address)]) /\ Alike(c, Execute(c))
  BY <1>1, BusTypes, ExecuteType
<1>5. /\ Alike(c, [c EXCEPT !.address = c.pc])
      /\ Alike(c, [c EXCEPT !.address = AD(c)])
      /\ Alike(c, [c EXCEPT !.address = BA(c)])
      /\ Alike(c, [c EXCEPT !.address = Word(BA(c) + Index(c))])
      /\ Alike(c, [c EXCEPT !.address = Word(BA(c) + c.x)])
      /\ Alike(c, [c EXCEPT !.address = Word(BA(c) + c.y)])
      /\ Alike(c, [c EXCEPT !.address = c.bal])
      /\ Alike(c, [c EXCEPT !.address = Byte(c.address + c.x)])
      /\ Alike(c, [c EXCEPT !.address = Byte(c.address + 1)])
      /\ Alike(c, [c EXCEPT !.address = Word(c.address + 1)])
      /\ Alike(c, [c EXCEPT !.address = IRQ_VECTOR])
      /\ Alike(c, [c EXCEPT !.address = \h100 + c.s])
  BY <1>1, <1>2, AddressTypes, SetField
<1>6. /\ Alike(c, [c EXCEPT !.address = c.pc, !.pc = Word(c.pc + 1)])
      /\ Alike(c, [c EXCEPT !.address = \h100 + c.s, !.s = Byte(c.s - 1)])
      /\ Alike(c, [c EXCEPT !.address = \h100 + Byte(c.s + 1), !.s = Byte(c.s + 1)])
      /\ Alike(c, [c EXCEPT !.bal = Byte(c.bal + Index(c)), !.wc = Carries(c, Index(c))])
      /\ Alike(c, [c EXCEPT !.bal = Byte(c.bal + c.y), !.wc = Carries(c, c.y)])
  <2>1. Alike(c, [c EXCEPT !.address = c.pc, !.pc = Word(c.pc + 1)])
    BY <1>1, <1>2, <1>3, AddressTypes, SetFields
  <2>2. Alike(c, [c EXCEPT !.address = \h100 + c.s, !.s = Byte(c.s - 1)])
    BY <1>1, <1>2, <1>3, AddressTypes, SetFields
  <2>3. Alike(c, [c EXCEPT !.address = \h100 + Byte(c.s + 1), !.s = Byte(c.s + 1)])
    BY <1>1, <1>2, <1>3, AddressTypes, SetFields
  <2>4. Alike(c, [c EXCEPT !.bal = Byte(c.bal + Index(c)), !.wc = Carries(c, Index(c))])
    BY <1>1, <1>2, <1>3, AddressTypes, SetFields
  <2>5. Alike(c, [c EXCEPT !.bal = Byte(c.bal + c.y), !.wc = Carries(c, c.y)])
    BY <1>1, <1>2, <1>3, AddressTypes, SetFields
  <2> QED
    BY <2>1, <2>2, <2>3, <2>4, <2>5
<1>7. /\ Alike(c, [c EXCEPT !.adl = c.data]) /\ Alike(c, [c EXCEPT !.adh = c.data])
      /\ Alike(c, [c EXCEPT !.bal = c.data]) /\ Alike(c, [c EXCEPT !.bah = c.data])
      /\ Alike(c, [c EXCEPT !.adh = 0]) /\ Alike(c, [c EXCEPT !.bah = 0])
      /\ Alike(c, [c EXCEPT !.bal = Byte(c.bal + 1)])
      /\ Alike(c, [c EXCEPT !.bah = Byte(c.bah + 1)])
      /\ Alike(c, [c EXCEPT !.bal = Byte(c.bal + Index(c))])
      /\ Alike(c, [c EXCEPT !.bal = Byte(c.bal + c.x)])
  BY <1>1, <1>2, AddressTypes, SetField
<1>8. ASSUME NEW m \in AddressStatements
      PROVE  Alike(c, Statement(c, m))
  <2>1. CASE m \in {"pc", "ad", "ba", "ba+idx", "ba+x", "ba+y", "bal", "+x", "+1", "next",
                     "irq", "sp"}
    BY <1>5, <2>1 DEF Statement
  <2>2. CASE m \in {"pc++", "push", "pull", "read", "exec"}
    BY <1>4, <1>6, <2>2 DEF Statement
  <2> QED
    BY <2>1, <2>2 DEF AddressStatements
<1>9. ASSUME NEW m \in LatchStatements
      PROVE  Alike(c, Statement(c, m))
  BY <1>6, <1>7 DEF Statement, LatchStatements
<1> QED
  BY <1>8, <1>9

\* Data, program counter and status.
LEMMA RegistersAlike ==
  ASSUME NEW c, CpuOk(c)
  PROVE  \A m \in RegisterStatements : Alike(c, Statement(c, m))
<1>1. c \in CpuWith(c.mem)
  BY DEF CpuOk
<1>2. /\ High(c.pc) \in Bytes /\ Low(c.pc) \in Bytes /\ AD(c) \in Words
      /\ Word(c.pc + 1) \in Words
  BY <1>1, AddressTypes
<1>3. Alike(c, Branched(c)) /\ Word(c.pc + \h100 * c.sc) \in Words
  BY <1>1, BranchTypes
<1>4. c.p \in SUBSET Flags
  BY <1>1, FieldTypes
<1>5. PByte(c.p) \in Bytes /\ \hFF \in Bytes
  BY <1>4, BitTypes DEF Bytes
<1>6. PFlags(c.data) \in SUBSET Flags
  BY BitTypes
<1>7. /\ c.p \cup {"B"} \in SUBSET Flags /\ c.p \cup {"I"} \in SUBSET Flags
      /\ PFlags(c.data) \cup {"M"} \in SUBSET Flags
  BY <1>4, <1>6 DEF Flags
<1>8. /\ Alike(c, [c EXCEPT !.data = High(c.pc)]) /\ Alike(c, [c EXCEPT !.data = Low(c.pc)])
      /\ Alike(c, [c EXCEPT !.data = PByte(c.p)]) /\ Alike(c, [c EXCEPT !.s = \hFF])
  BY <1>1, <1>2, <1>5, SetField
<1>9. /\ Alike(c, [c EXCEPT !.pc = AD(c)]) /\ Alike(c, [c EXCEPT !.pc = Word(c.pc + 1)])
      /\ Alike(c, [c EXCEPT !.pc = Word(c.pc + \h100 * c.sc)])
  BY <1>1, <1>2, <1>3, SetField
<1>10. /\ Alike(c, [c EXCEPT !.p = c.p \cup {"B"}])
       /\ Alike(c, [c EXCEPT !.p = c.p \cup {"I"}])
       /\ Alike(c, [c EXCEPT !.p = PFlags(c.data) \cup {"M"}])
  BY <1>1, <1>7, SetField
<1>11. ASSUME NEW m \in RegisterStatements
       PROVE  Alike(c, Statement(c, m))
  BY <1>3, <1>8, <1>9, <1>10 DEF Statement, RegisterStatements
<1> QED
  BY <1>11

\* Every statement leaves a sound processor, and done() ends the instruction.
LEMMA StatementType ==
  ASSUME NEW c, CpuOk(c), NEW m \in Statements
  PROVE  Within(c, Statement(c, m)) /\ (m = "done" => Statement(c, m).t = -1)
<1>1. CASE m \in EndingStatements
  <2>1. Within(c, Execute(c))
    <3>1. Alike(c, Execute(c))
      BY ExecuteType DEF CpuOk
    <3> QED
      BY <3>1, AlikeIsWithin
  <2>2. Within(c, Statement(c, m))
    BY <1>1, <2>1, EndingsWithin DEF Statement, EndingStatements
  <2>3. ASSUME m = "done" PROVE Statement(c, m).t = -1
    BY <2>3 DEF Statement, CpuOk, CpuWith
  <2> QED
    BY <2>2, <2>3
<1>2. CASE m \notin EndingStatements
  <2>1. Alike(c, Statement(c, m))
    BY <1>2, LatchesAlike, RegistersAlike DEF Statements
  <2>2. m # "done"
    BY <1>2 DEF EndingStatements
  <2> QED
    BY <2>1, <2>2, AlikeIsWithin
<1> QED
  BY <1>1, <1>2

-----------------------------------------------------------------------------
(* Cycles.                                                                 *)

\* iter folds the statements of every set of places in seq, the last place last.
Folding(c, seq, n, iter) ==
  iter = [s \in SUBSET (1 .. n) |->
            IF s = {} THEN c ELSE Statement(iter[s \ {Max(s)}], seq[Max(s)])]

LEMMA MaxOfPrefix ==
  ASSUME NEW k \in Nat, NEW s \in SUBSET (1 .. k + 1), k + 1 \in s
  PROVE  Max(s) = k + 1
<1>1. \A y \in s : k + 1 >= y /\ y \in Int
  OBVIOUS
<1>2. Max(s) \in s /\ \A y \in s : Max(s) >= y
  BY <1>1 DEF Max
<1> DEFINE m == Max(s)
<1> HIDE DEF m
<1>3. m \in s /\ m >= k + 1
  BY <1>2 DEF m
<1>4. k + 1 >= m /\ m \in Int /\ k \in Int
  BY <1>1, <1>3
<1>5. m = k + 1
  BY <1>3, <1>4
<1> QED
  BY <1>5 DEF m

\* The fold is defined for any number of statements.
LEMMA FoldsExist ==
  ASSUME NEW c, NEW seq
  PROVE  \A n \in Nat : \E iter : Folding(c, seq, n, iter)
<1> DEFINE S == {n \in Nat : \E iter : Folding(c, seq, n, iter)}
<1>1. 0 \in S
  <2> DEFINE g == [s \in SUBSET (1 .. 0) |-> c]
  <2>1. \A s \in SUBSET (1 .. 0) : s = {}
    OBVIOUS
  <2>2. g = [s \in SUBSET (1 .. 0) |->
               IF s = {} THEN c ELSE Statement(g[s \ {Max(s)}], seq[Max(s)])]
    BY <2>1
  <2>3. Folding(c, seq, 0, g)
    BY <2>2 DEF Folding
  <2> QED
    BY <2>3
<1>2. ASSUME NEW k \in S PROVE k + 1 \in S
  <2>1. k \in Nat /\ k + 1 \in Nat
    OBVIOUS
  <2>2. PICK g : Folding(c, seq, k, g)
    OBVIOUS
  <2> DEFINE h == [s \in SUBSET (1 .. k + 1) |->
                     IF k + 1 \in s THEN Statement(g[s \ {k + 1}], seq[k + 1]) ELSE g[s]]
             b(s) == IF s = {} THEN c ELSE Statement(h[s \ {Max(s)}], seq[Max(s)])
  <2>3. ASSUME NEW s \in SUBSET (1 .. k + 1), k + 1 \notin s
        PROVE  s \in SUBSET (1 .. k) /\ h[s] = g[s]
    <3>1. \A i \in s : i \in 1 .. k
      BY <2>1, <2>3
    <3> QED
      BY <2>3, <3>1
  <2>4. ASSUME NEW s \in SUBSET (1 .. k + 1) PROVE h[s] = b(s)
    <3>1. CASE k + 1 \in s
      <4>1. Max(s) = k + 1
        BY <2>1, <3>1, MaxOfPrefix
      <4>2. h[s] = Statement(g[s \ {k + 1}], seq[k + 1])
        BY <3>1
      <4>3. h[s \ {k + 1}] = g[s \ {k + 1}]
        BY <2>3
      <4> HIDE DEF h
      <4> QED
        BY <3>1, <4>1, <4>2, <4>3
    <3>2. CASE k + 1 \notin s
      <4>1. s \in SUBSET (1 .. k) /\ h[s] = g[s]
        BY <2>3, <3>2
      <4>2. h[s \ {Max(s)}] = g[s \ {Max(s)}]
        BY <2>3, <3>2
      <4> HIDE DEF h
      <4>3. g[s] = IF s = {} THEN c ELSE Statement(g[s \ {Max(s)}], seq[Max(s)])
        BY <2>2, <4>1 DEF Folding
      <4> QED
        BY <4>1, <4>2, <4>3
    <3> QED
      BY <3>1, <3>2
  <2>5. h = [s \in SUBSET (1 .. k + 1) |-> h[s]]
    OBVIOUS
  <2> HIDE DEF h, b
  <2>6. h = [s \in SUBSET (1 .. k + 1) |-> b(s)]
    BY <2>4, <2>5
  <2>7. Folding(c, seq, k + 1, h)
    BY <2>6 DEF Folding, b
  <2> QED
    BY <2>1, <2>7
<1>3. S \in SUBSET Nat
  OBVIOUS
<1> HIDE DEF S
<1>4. S = Nat
  BY <1>1, <1>2, <1>3, Induction
<1> QED
  BY <1>4 DEF S

\* A cycle executes its statements one after the other: r[k] is the processor after
\* the first k.
Runs(c, seq, n, r) ==
  r[0] = c /\ \A k \in 1 .. n : r[k] = Statement(r[k - 1], seq[k])

\* So the fold of a sequence is the run through it.
LEMMA FoldRuns ==
  ASSUME NEW c, NEW seq, NEW n \in Nat, DOMAIN seq = 1 .. n
  PROVE  \E r : Runs(c, seq, n, r) /\ FoldLeft(Statement, c, seq) = r[n]
<1> DEFINE iter == CHOOSE g : Folding(c, seq, n, g)
           r == [k \in 0 .. n |-> iter[1 .. k]]
<1>1. FoldLeft(Statement, c, seq) = iter[1 .. n]
  <2>1. FoldLeft(Statement, c, seq) =
          (CHOOSE g : g = [s \in SUBSET DOMAIN seq |->
             IF s = {} THEN c ELSE Statement(g[s \ {Max(s)}], seq[Max(s)])])[DOMAIN seq]
    BY DEF FoldLeft, MapThenFoldSet
  <2> QED
    BY <2>1 DEF Folding
<1>2. Folding(c, seq, n, iter)
  BY FoldsExist
<1> HIDE DEF iter
<1>3. \A s \in SUBSET (1 .. n) :
        iter[s] = IF s = {} THEN c ELSE Statement(iter[s \ {Max(s)}], seq[Max(s)])
  BY <1>2 DEF Folding
<1>4. r[0] = c
  <2>1. 1 .. 0 = {} /\ 0 \in 0 .. n
    OBVIOUS
  <2>2. iter[{}] = c
    BY <1>3
  <2> QED
    BY <2>1, <2>2
<1>5. ASSUME NEW k \in 1 .. n PROVE r[k] = Statement(r[k - 1], seq[k])
  <2>1. k - 1 \in Nat /\ k \in 0 .. n /\ k - 1 \in 0 .. n /\ k = (k - 1) + 1
    OBVIOUS
  <2>2. 1 .. k \in SUBSET (1 .. n) /\ k \in 1 .. k
    OBVIOUS
  <2>3. Max(1 .. k) = k
    BY <2>1, <2>2, MaxOfPrefix
  <2>4. (1 .. k) \ {k} = 1 .. (k - 1)
    OBVIOUS
  <2>5. iter[1 .. k] = Statement(iter[1 .. (k - 1)], seq[k])
    BY <1>3, <2>2, <2>3, <2>4
  <2> QED
    BY <2>1, <2>5
<1> HIDE DEF r
<1>6. Runs(c, seq, n, r)
  BY <1>4, <1>5 DEF Runs
<1>7. r[n] = iter[1 .. n]
  BY DEF r
<1> QED
  BY <1>1, <1>6, <1>7

\* A cycle of statements leaves a sound processor; done() at its end counts.
LEMMA RunType ==
  ASSUME NEW c, CpuOk(c), NEW seq \in Seq(Statements)
  PROVE  /\ Within(c, FoldLeft(Statement, c, seq))
         /\ Len(seq) > 0 /\ seq[Len(seq)] = "done" => FoldLeft(Statement, c, seq).t = -1
<1> DEFINE n == Len(seq)
<1>1. n \in Nat /\ DOMAIN seq = 1 .. n /\ \A k \in 1 .. n : seq[k] \in Statements
  OBVIOUS
<1>2. PICK r : Runs(c, seq, n, r) /\ FoldLeft(Statement, c, seq) = r[n]
  BY <1>1, FoldRuns
<1> HIDE DEF n
<1> DEFINE S == {k \in Nat : k <= n => Within(c, r[k])}
<1>3. 0 \in S
  BY <1>2, EndingsWithin DEF Runs
<1>4. ASSUME NEW k \in S PROVE k + 1 \in S
  <2>1. k \in Nat /\ k + 1 \in Nat
    OBVIOUS
  <2>2. ASSUME k + 1 <= n PROVE Within(c, r[k + 1])
    <3>1. k + 1 \in 1 .. n /\ k <= n /\ (k + 1) - 1 = k
      BY <1>1, <2>1, <2>2
    <3>2. Within(c, r[k])
      BY <3>1
    <3>3. r[k + 1] = Statement(r[k], seq[k + 1])
      BY <1>2, <3>1 DEF Runs
    <3>4. Within(r[k], r[k + 1])
      BY <1>1, <3>1, <3>2, <3>3, StatementType DEF Within
    <3> QED
      BY <3>2, <3>4, WithinIsTransitive
  <2> QED
    BY <2>1, <2>2
<1>5. S \in SUBSET Nat
  OBVIOUS
<1> HIDE DEF S
<1>6. S = Nat
  BY <1>3, <1>4, <1>5, Induction
<1>7. \A k \in 0 .. n : Within(c, r[k])
  BY <1>1, <1>6 DEF S
<1>8. ASSUME n > 0, seq[n] = "done" PROVE r[n].t = -1
  <2>1. n \in 1 .. n /\ n - 1 \in 0 .. n
    BY <1>1, <1>8
  <2>2. r[n] = Statement(r[n - 1], "done")
    BY <1>2, <1>8, <2>1 DEF Runs
  <2>3. Within(c, r[n - 1])
    BY <1>7, <2>1
  <2>4. CpuOk(r[n - 1]) /\ "done" \in Statements
    BY <2>3 DEF Within, Statements, EndingStatements
  <2>5. Statement(r[n - 1], "done").t = -1
    BY <2>4, StatementType
  <2> QED
    BY <2>2, <2>5
<1>9. Within(c, r[n])
  BY <1>1, <1>7
<1> QED
  BY <1>2, <1>8, <1>9 DEF n

-----------------------------------------------------------------------------
(* Addressing routines.                                                    *)

\* At most six cycles of statements, and the last one ends the instruction.
IsRoutine(r) ==
  /\ r \in Seq(Seq(Statements))
  /\ Len(r) \in 1 .. 6
  /\ Len(r[Len(r)]) > 0 /\ r[Len(r)][Len(r[Len(r)])] = "done"

\* Each of the 28 addressing routines is one.
LEMMA RoutineTypes ==
  \A name \in DOMAIN Microcode : IsRoutine(Microcode[name])
<1>1. /\ IsRoutine(addr_SINGLE) /\ IsRoutine(addr_INTERNAL_IMMEDIATE)
      /\ IsRoutine(addr_INTERNAL_ZERO_PAGE) /\ IsRoutine(addr_INTERNAL_ABSOLUTE)
      /\ IsRoutine(addr_INTERNAL_INDIRECT_X) /\ IsRoutine(addr_INTERNAL_ABSOLUTE_XY)
      /\ IsRoutine(addr_INTERNAL_ZERO_PAGE_XY) /\ IsRoutine(addr_INTERNAL_INDIRECT_Y)
  BY DEF IsRoutine, Statements, AddressStatements, LatchStatements, RegisterStatements,
         EndingStatements, addr_SINGLE, addr_INTERNAL_IMMEDIATE,
         addr_INTERNAL_ZERO_PAGE, addr_INTERNAL_ABSOLUTE, addr_INTERNAL_INDIRECT_X,
         addr_INTERNAL_ABSOLUTE_XY, addr_INTERNAL_ZERO_PAGE_XY, addr_INTERNAL_INDIRECT_Y
<1>2. /\ IsRoutine(addr_STORE_ZERO_PAGE) /\ IsRoutine(addr_STORE_ABSOLUTE)
      /\ IsRoutine(addr_STORE_INDIRECT_X) /\ IsRoutine(addr_STORE_ABSOLUTE_XY)
      /\ IsRoutine(addr_STORE_ZERO_PAGE_XY) /\ IsRoutine(addr_STORE_INDIRECT_Y)
  BY DEF IsRoutine, Statements, AddressStatements, LatchStatements, RegisterStatements,
         EndingStatements, addr_STORE_ZERO_PAGE, addr_STORE_ABSOLUTE,
         addr_STORE_INDIRECT_X, addr_STORE_ABSOLUTE_XY, addr_STORE_ZERO_PAGE_XY,
         addr_STORE_INDIRECT_Y
<1>3. /\ IsRoutine(addr_RMW_ZERO_PAGE) /\ IsRoutine(addr_RMW_ABSOLUTE)
      /\ IsRoutine(addr_RMW_ZERO_PAGE_X) /\ IsRoutine(addr_RMW_ABSOLUTE_X)
  BY DEF IsRoutine, Statements, AddressStatements, LatchStatements, RegisterStatements,
         EndingStatements, addr_RMW_ZERO_PAGE, addr_RMW_ABSOLUTE,
         addr_RMW_ZERO_PAGE_X, addr_RMW_ABSOLUTE_X
<1>4. /\ IsRoutine(addr_MISC_PUSH) /\ IsRoutine(addr_MISC_PULL) /\ IsRoutine(addr_MISC_JSR)
      /\ IsRoutine(addr_MISC_BREAK) /\ IsRoutine(addr_MISC_RTI) /\ IsRoutine(addr_RTS)
      /\ IsRoutine(addr_JMP_ABSOLUTE) /\ IsRoutine(addr_JMP_INDIRECT)
      /\ IsRoutine(addr_BRANCH) /\ IsRoutine(addr_RESET)
  BY DEF IsRoutine, Statements, AddressStatements, LatchStatements, RegisterStatements,
         EndingStatements, addr_MISC_PUSH, addr_MISC_PULL, addr_MISC_JSR,
         addr_MISC_BREAK, addr_MISC_RTI, addr_RTS, addr_JMP_ABSOLUTE, addr_JMP_INDIRECT,
         addr_BRANCH, addr_RESET
<1> QED
  BY <1>1, <1>2, <1>3, <1>4 DEF Microcode

\* The routine of an operation code.
Routine(code) == Microcode[AddrTable[code]]

\* Every operation code has one, and the code RESET has the reset sequence.
LEMMA RoutineOfCode ==
  /\ \A code \in Bytes \cup {RESET} : IsRoutine(Routine(code))
  /\ Routine(RESET) = addr_RESET
<1>1. ASSUME NEW code \in Bytes \cup {RESET} PROVE IsRoutine(Routine(code))
  <2>1. code \in 0 .. \h102
    BY DEF Bytes, RESET
  <2>2. AddrTable[code] = Entry(AddrCodes, code, "SINGLE")
    BY <2>1 DEF AddrTable
  <2>3. Entry(AddrCodes, code, "SINGLE") \in DOMAIN AddrCodes \cup {"SINGLE"}
    BY DEF Entry
  <2>4. DOMAIN AddrCodes \cup {"SINGLE"} \subseteq DOMAIN Microcode
    BY DEF AddrCodes, Microcode
  <2> QED
    BY <2>2, <2>3, <2>4, RoutineTypes DEF Routine
<1>2. Routine(RESET) = addr_RESET
  BY DEF Routine, Microcode, AddrTable, Entry, AddrCodes, RESET
<1> QED
  BY <1>1, <1>2

-----------------------------------------------------------------------------
(* The processor.                                                          *)

\* Between two cycles the processor is at one of the cycles of its instruction.
Placed(c) == CpuOk(c) /\ c.t \in 0 .. 6 /\ c.t <= Len(Routine(c.opcode))

LEMMA OpcodeType ==
  ASSUME NEW c, CpuOk(c)
  PROVE  c.opcode \in Bytes \cup {RESET} /\ c.t \in -1 .. 6
  BY DEF CpuOk, CpuWith

\* A subsequent cycle; the last one of the routine ends the instruction.
LEMMA SubsequentType ==
  ASSUME NEW c, Placed(c), c.t # 0
  PROVE  /\ Within(c, SubsequentCycle(c))
         /\ c.t = Len(Routine(c.opcode)) => SubsequentCycle(c).t = -1
<1> DEFINE routine == Routine(c.opcode)
           seq == routine[c.t]
<1>1. CpuOk(c) /\ c.opcode \in Bytes \cup {RESET}
  BY OpcodeType DEF Placed
<1>2. IsRoutine(routine)
  BY <1>1, RoutineOfCode
<1>3. SubsequentCycle(c) = FoldLeft(Statement, c, seq)
  BY DEF SubsequentCycle, Routine
<1> HIDE DEF routine
<1>4. c.t \in 1 .. Len(routine)
  BY <1>2 DEF Placed, IsRoutine, routine
<1>5. seq \in Seq(Statements)
  BY <1>2, <1>4 DEF IsRoutine
<1>6. c.t = Len(routine) => Len(seq) > 0 /\ seq[Len(seq)] = "done"
  BY <1>2 DEF IsRoutine
<1> HIDE DEF seq
<1> QED
  BY <1>1, <1>3, <1>5, <1>6, RunType DEF routine

\* What the first cycle comes to: the byte at start is read, and the program counter
\* moves on.
LEMMA FirstCycleType ==
  ASSUME NEW c, CpuOk(c)
  PROVE  LET start == IF c.pendingReset THEN RESET_VECTOR - 2 ELSE c.pc
             d     == FirstCycle(c)
         IN  /\ CpuOk(d) /\ d.mem = c.mem /\ d.t = c.t /\ d.started = c.started
             /\ d.pendingReset = c.pendingReset
             /\ c.pendingReset => d.opcode = RESET
             /\ d.pc = Word(start + 1)
<1> DEFINE start == IF c.pendingReset THEN RESET_VECTOR - 2 ELSE c.pc
           seq == <<"pc++", "read">>
           b == [c EXCEPT !.pc = start]
           fetched == FoldLeft(Statement, b, seq)
           code == IF c.pendingReset THEN RESET ELSE fetched.data
           d == [fetched EXCEPT !.opcode = code]
<1>1. FirstCycle(c) = d
  BY DEF FirstCycle
<1>2. c \in CpuWith(c.mem) /\ IsMemory(c.mem)
  BY DEF CpuOk
<1>3. start \in Words
  <2>1. c.pc \in Words
    BY <1>2, FieldTypes
  <2>2. RESET_VECTOR - 2 \in Words
    BY WordRange DEF RESET_VECTOR
  <2> QED
    BY <2>1, <2>2
<1> HIDE DEF start
<1>4. Alike(c, b) /\ b.mem = c.mem /\ b.pc = start
  BY <1>2, <1>3, SetField DEF Alike, CpuWith
<1>5. CpuOk(b)
  BY <1>2, <1>4 DEF Alike, CpuOk
<1> HIDE DEF b
<1>6. PICK r : Runs(b, seq, 2, r) /\ fetched = r[2]
  <2>1. 2 \in Nat /\ DOMAIN seq = 1 .. 2
    OBVIOUS
  <2> QED
    BY <2>1, FoldRuns
<1>7. r[1] = Statement(b, "pc++") /\ r[2] = Statement(r[1], "read")
  BY <1>6 DEF Runs
<1>8. Alike(b, r[1]) /\ r[1].pc = Word(start + 1) /\ r[1].mem = b.mem
  <2>1. Alike(b, r[1])
    BY <1>5, <1>7, LatchesAlike DEF AddressStatements
  <2>2. r[1] = [b EXCEPT !.address = b.pc, !.pc = Word(b.pc + 1)]
    BY <1>7 DEF Statement
  <2>3. b \in CpuWith(b.mem)
    BY <1>5 DEF CpuOk
  <2> QED
    BY <1>4, <2>1, <2>2, <2>3 DEF CpuWith
<1>9. CpuOk(r[1])
  BY <1>5, <1>8 DEF Alike, CpuOk
<1>10. Alike(r[1], fetched) /\ fetched.pc = r[1].pc /\ fetched.mem = r[1].mem
  <2>1. Alike(r[1], r[2])
    BY <1>7, <1>9, LatchesAlike DEF AddressStatements
  <2>2. r[2] = [r[1] EXCEPT !.data = BusRead(r[1], r[1].address)]
    BY <1>7 DEF Statement
  <2>3. r[1] \in CpuWith(r[1].mem)
    BY <1>9 DEF CpuOk
  <2> QED
    BY <1>6, <2>1, <2>2, <2>3 DEF CpuWith
<1> HIDE DEF fetched
<1>11. /\ fetched \in CpuWith(c.mem) /\ fetched.mem = c.mem
       /\ fetched.t = c.t /\ fetched.started = c.started
       /\ fetched.pendingReset = c.pendingReset /\ fetched.pc = Word(start + 1)
  BY <1>4, <1>8, <1>10 DEF Alike
<1>12. code \in Bytes \cup {RESET}
  BY <1>11, FieldTypes
<1>13. /\ d \in CpuWith(c.mem) /\ d.mem = c.mem
       /\ d.t = c.t /\ d.started = c.started /\ d.pendingReset = c.pendingReset
       /\ d.pc = Word(start + 1) /\ d.opcode = code
  <2> HIDE DEF code
  <2> QED
    BY <1>11, <1>12 DEF CpuWith
<1> HIDE DEF d
<1>14. CpuOk(d)
  BY <1>2, <1>13 DEF CpuOk
<1> QED
  BY <1>1, <1>13, <1>14 DEF start

\* A cycle leaves the processor at a cycle of an instruction, started or not as it was.
LEMMA TickType ==
  ASSUME NEW c, Placed(c)
  PROVE  /\ Placed(CpuTick(c)) /\ CpuTick(c).started = c.started
         /\ CpuTick(c).pendingReset \in {c.pendingReset, FALSE}
<1>1. CpuOk(c) /\ c.t \in 0 .. 6
  BY DEF Placed
<1>2. CASE ~ c.started
  BY <1>2 DEF CpuTick
<1>3. CASE c.started
  <2> DEFINE d == IF c.t = 0 THEN FirstCycle(c) ELSE SubsequentCycle(c)
             e == [d EXCEPT !.t = d.t + 1]
  <2>1. CpuTick(c) = e
    BY <1>3 DEF CpuTick
  <2>2. /\ CpuOk(d) /\ d.started = c.started
        /\ d.pendingReset \in {c.pendingReset, FALSE}
        /\ d.t + 1 \in 0 .. 6 /\ d.t + 1 <= Len(Routine(d.opcode))
    <3>1. CASE c.t = 0
      <4>1. d = FirstCycle(c)
        BY <3>1
      <4> HIDE DEF d
      <4>2. /\ CpuOk(d) /\ d.t = 0 /\ d.started = c.started
            /\ d.pendingReset = c.pendingReset
        BY <1>1, <3>1, <4>1, FirstCycleType
      <4>3. Len(Routine(d.opcode)) \in 1 .. 6
        BY <4>2, OpcodeType, RoutineOfCode DEF IsRoutine
      <4>4. d.t + 1 = 1 /\ d.t + 1 \in 0 .. 6
        BY <4>2
      <4>5. d.t + 1 <= Len(Routine(d.opcode))
        <5> DEFINE len == Len(Routine(d.opcode))
        <5>1. len \in 1 .. 6
          BY <4>3
        <5> HIDE DEF len
        <5>2. 1 <= len
          BY <5>1
        <5> QED
          BY <4>4, <5>2 DEF len
      <4> QED
        BY <4>2, <4>4, <4>5
    <3>2. CASE c.t # 0
      <4>1. d = SubsequentCycle(c)
        BY <3>2
      <4> HIDE DEF d
      <4>2. Within(c, d) /\ (c.t = Len(Routine(c.opcode)) => d.t = -1)
        BY <3>2, <4>1, SubsequentType
      <4>3. Len(Routine(c.opcode)) \in 1 .. 6
        BY <1>1, OpcodeType, RoutineOfCode DEF IsRoutine
      <4>4. c.t \in 1 .. 6 /\ c.t <= Len(Routine(c.opcode))
        BY <1>1, <3>2 DEF Placed
      <4>5. /\ CpuOk(d) /\ d.opcode = c.opcode /\ d.started = c.started
            /\ d.pendingReset \in {c.pendingReset, FALSE} /\ d.t \in {c.t, -1}
        BY <4>2 DEF Within
      <4>6. d.t + 1 \in 0 .. 6 /\ d.t + 1 <= Len(Routine(c.opcode))
        <5> DEFINE len == Len(Routine(c.opcode))
                   t == c.t
                   u == d.t
        <5>1. /\ len \in 1 .. 6 /\ t \in 1 .. 6 /\ t <= len /\ u \in {t, -1}
              /\ (t = len => u = -1)
          BY <4>2, <4>3, <4>4, <4>5
        <5> HIDE DEF len, t, u
        <5>2. u + 1 \in 0 .. 6 /\ u + 1 <= len
          BY <5>1
        <5> QED
          BY <5>2 DEF u, len
      <4> QED
        BY <4>5, <4>6
    <3> QED
      BY <3>1, <3>2
  <2> HIDE DEF d
  <2>3. /\ CpuOk(e) /\ e.started = d.started /\ e.pendingReset = d.pendingReset
        /\ e.t = d.t + 1 /\ e.opcode = d.opcode
    <3>1. d \in CpuWith(d.mem) /\ IsMemory(d.mem) /\ d.t + 1 \in -1 .. 6
      BY <2>2 DEF CpuOk
    <3>2. /\ e \in CpuWith(d.mem) /\ e.mem = d.mem
          /\ e.started = d.started /\ e.pendingReset = d.pendingReset
          /\ e.t = d.t + 1 /\ e.opcode = d.opcode
      BY <3>1 DEF CpuWith
    <3> HIDE DEF e
    <3> QED
      BY <3>1, <3>2 DEF CpuOk
  <2> HIDE DEF e
  <2> QED
    BY <2>1, <2>2, <2>3 DEF Placed
<1> QED
  BY <1>2, <1>3

-----------------------------------------------------------------------------
(* The reset sequence.                                                     *)

\* What the statements of the sequence leave alone: with the memory and the place in
\* the sequence, the program counter and the low byte of an address, and the flags
\* that are set.
Keeps(c, d) ==
  Alike(c, d) /\ d.mem = c.mem /\ d.pc = c.pc /\ d.adl = c.adl /\ c.p \subseteq d.p

LEMMA KeepsIsTransitive ==
  ASSUME NEW c, NEW d, NEW e, Keeps(c, d), Keeps(d, e)
  PROVE  Keeps(c, e)
  BY AlikeIsTransitive DEF Keeps

LEMMA AlikeIsOk ==
  ASSUME NEW c, CpuOk(c), NEW d, Alike(c, d)
  PROVE  CpuOk(d) /\ d.mem = c.mem
  BY DEF Alike, CpuOk, CpuWith

LEMMA StatementKeeps ==
  ASSUME NEW c, CpuOk(c),
         NEW m \in {"read", "s=FF", "push", "=pch", "=pcl", "=p", "p+I", "pc", "adh="}
  PROVE  Keeps(c, Statement(c, m))
<1>1. Alike(c, Statement(c, m))
  BY LatchesAlike, RegistersAlike DEF AddressStatements, LatchStatements, RegisterStatements
<1>2. c \in CpuWith(c.mem)
  BY DEF CpuOk
<1>3. Statement(c, m).mem = c.mem
  BY <1>1, AlikeIsOk
<1>4. /\ Statement(c, m).pc = c.pc /\ Statement(c, m).adl = c.adl
      /\ c.p \subseteq Statement(c, m).p
  BY <1>2 DEF Statement, CpuWith
<1> QED
  BY <1>1, <1>3, <1>4 DEF Keeps

\* The statements that put the program counter on the bus, and what is read there.
LEMMA StatementReads ==
  ASSUME NEW c, CpuOk(c)
  PROVE  /\ Alike(c, Statement(c, "pc++"))
         /\ Statement(c, "pc++").address = c.pc /\ Statement(c, "pc++").pc = Word(c.pc + 1)
         /\ Statement(c, "pc++").p = c.p /\ Statement(c, "pc++").adl = c.adl
         /\ Statement(c, "pc").address = c.pc
         /\ Statement(c, "read").data = BusRead(c, c.address)
         /\ Alike(c, Statement(c, "adl=")) /\ Statement(c, "adl=").adl = c.data
         /\ Statement(c, "adl=").pc = c.pc /\ Statement(c, "adl=").p = c.p
         /\ Statement(c, "adh=").adh = c.data
         /\ "I" \in Statement(c, "p+I").p
         /\ Statement(c, "pc=ad").pc = AD(c) /\ Statement(c, "pc=ad").p = c.p
<1>1. Alike(c, Statement(c, "pc++")) /\ Alike(c, Statement(c, "adl="))
  BY LatchesAlike DEF AddressStatements, LatchStatements
<1>2. c \in CpuWith(c.mem)
  BY DEF CpuOk
<1>3. /\ Statement(c, "pc++").address = c.pc /\ Statement(c, "pc++").pc = Word(c.pc + 1)
      /\ Statement(c, "pc++").p = c.p /\ Statement(c, "pc++").adl = c.adl
      /\ Statement(c, "pc").address = c.pc
  BY <1>2 DEF Statement, CpuWith
<1>4. Statement(c, "read").data = BusRead(c, c.address)
  BY <1>2 DEF Statement, CpuWith
<1>5. /\ Statement(c, "adl=").adl = c.data
      /\ Statement(c, "adl=").pc = c.pc /\ Statement(c, "adl=").p = c.p
      /\ Statement(c, "adh=").adh = c.data
      /\ "I" \in Statement(c, "p+I").p
  BY <1>2 DEF Statement, CpuWith
<1>6. Statement(c, "pc=ad").pc = AD(c)
  BY <1>2 DEF Statement, CpuWith
<1>7. Statement(c, "pc=ad").p = c.p
  BY <1>2 DEF Statement, CpuWith
<1> QED
  BY <1>1, <1>3, <1>4, <1>5, <1>6, <1>7

\* The second to the fourth cycle push nothing: they read.
LEMMA ResetReads ==
  ASSUME NEW c, CpuOk(c)
  PROVE  /\ Keeps(c, FoldLeft(Statement, c, <<"s=FF", "push", "=pch", "read">>))
         /\ Keeps(c, FoldLeft(Statement, c, <<"push", "=pcl", "read">>))
         /\ Keeps(c, FoldLeft(Statement, c, <<"push", "p+I", "=p", "read">>))
         /\ "I" \in FoldLeft(Statement, c, <<"push", "p+I", "=p", "read">>).p
<1> DEFINE quiet == {"read", "s=FF", "push", "=pch", "=pcl", "=p", "p+I", "pc", "adh="}
<1>1. ASSUME NEW d, CpuOk(d), NEW m \in quiet
      PROVE  Keeps(d, Statement(d, m)) /\ CpuOk(Statement(d, m))
  <2>1. Keeps(d, Statement(d, m))
    BY <1>1, StatementKeeps
  <2> QED
    BY <1>1, <2>1, AlikeIsOk DEF Keeps
<1>2. ASSUME NEW m1 \in quiet, NEW m2 \in quiet, NEW m3 \in quiet
      PROVE  Keeps(c, FoldLeft(Statement, c, <<m1, m2, m3>>))
  <2> DEFINE seq == <<m1, m2, m3>>
  <2>1. 3 \in Nat /\ DOMAIN seq = 1 .. 3 /\ seq[1] = m1 /\ seq[2] = m2 /\ seq[3] = m3
    OBVIOUS
  <2> HIDE DEF seq, quiet
  <2>2. PICK r : Runs(c, seq, 3, r) /\ FoldLeft(Statement, c, seq) = r[3]
    BY <2>1, FoldRuns
  <2>3. r[1] = Statement(c, m1) /\ r[2] = Statement(r[1], m2) /\ r[3] = Statement(r[2], m3)
    BY <2>1, <2>2 DEF Runs
  <2>4. Keeps(c, r[1]) /\ CpuOk(r[1])
    BY <1>1, <2>3
  <2>5. Keeps(r[1], r[2]) /\ CpuOk(r[2])
    BY <1>1, <2>3, <2>4
  <2>6. Keeps(r[2], r[3])
    BY <1>1, <2>3, <2>5
  <2>7. Keeps(c, r[3])
    BY <2>4, <2>5, <2>6, KeepsIsTransitive
  <2> QED
    BY <2>2, <2>7 DEF seq
<1>3. ASSUME NEW m1 \in quiet, NEW m2 \in quiet, NEW m3 \in quiet, NEW m4 \in quiet
      PROVE  /\ Keeps(c, FoldLeft(Statement, c, <<m1, m2, m3, m4>>))
             /\ m2 = "p+I" => "I" \in FoldLeft(Statement, c, <<m1, m2, m3, m4>>).p
  <2> DEFINE seq == <<m1, m2, m3, m4>>
  <2>1. /\ 4 \in Nat /\ DOMAIN seq = 1 .. 4
        /\ seq[1] = m1 /\ seq[2] = m2 /\ seq[3] = m3 /\ seq[4] = m4
    OBVIOUS
  <2> HIDE DEF seq, quiet
  <2>2. PICK r : Runs(c, seq, 4, r) /\ FoldLeft(Statement, c, seq) = r[4]
    BY <2>1, FoldRuns
  <2>3. /\ r[1] = Statement(c, m1) /\ r[2] = Statement(r[1], m2)
        /\ r[3] = Statement(r[2], m3) /\ r[4] = Statement(r[3], m4)
    BY <2>1, <2>2 DEF Runs
  <2>4. Keeps(c, r[1]) /\ CpuOk(r[1])
    BY <1>1, <2>3
  <2>5. Keeps(r[1], r[2]) /\ CpuOk(r[2])
    BY <1>1, <2>3, <2>4
  <2>6. Keeps(r[2], r[3]) /\ CpuOk(r[3])
    BY <1>1, <2>3, <2>5
  <2>7. Keeps(r[3], r[4])
    BY <1>1, <2>3, <2>6
  <2>8. Keeps(c, r[4])
    BY <2>4, <2>5, <2>6, <2>7, KeepsIsTransitive
  <2>9. ASSUME m2 = "p+I" PROVE "I" \in r[4].p
    <3>1. "I" \in r[2].p
      BY <2>3, <2>4, <2>9, StatementReads
    <3> QED
      BY <2>6, <2>7, <3>1 DEF Keeps
  <2> QED
    BY <2>2, <2>8, <2>9 DEF seq
<1>4. {"read", "s=FF", "push", "=pch", "=pcl", "=p", "p+I"} \subseteq quiet
  OBVIOUS
<1> HIDE DEF quiet
<1>5. Keeps(c, FoldLeft(Statement, c, <<"s=FF", "push", "=pch", "read">>))
  BY <1>3, <1>4
<1>6. Keeps(c, FoldLeft(Statement, c, <<"push", "=pcl", "read">>))
  BY <1>2, <1>4
<1>7. /\ Keeps(c, FoldLeft(Statement, c, <<"push", "p+I", "=p", "read">>))
      /\ "I" \in FoldLeft(Statement, c, <<"push", "p+I", "=p", "read">>).p
  BY <1>3, <1>4
<1> QED
  BY <1>5, <1>6, <1>7

\* The first and the fifth cycle read on, and the fifth the low byte of the vector.
LEMMA ResetReadsOn ==
  ASSUME NEW c, CpuOk(c)
  PROVE  LET d == FoldLeft(Statement, c, <<"pc++", "read">>)
             e == FoldLeft(Statement, c, <<"pc++", "read", "adl=">>)
         IN  /\ Alike(c, d) /\ d.pc = Word(c.pc + 1) /\ c.p \subseteq d.p
             /\ Alike(c, e) /\ e.pc = Word(c.pc + 1) /\ c.p \subseteq e.p
             /\ e.adl = BusRead(c, c.pc)
<1> DEFINE seq == <<"pc++", "read">>
           more == <<"pc++", "read", "adl=">>
           d == FoldLeft(Statement, c, seq)
           e == FoldLeft(Statement, c, more)
           c1 == Statement(c, "pc++")
           c2 == Statement(c1, "read")
           c3 == Statement(c2, "adl=")
<1>1. d = c2
  <2>1. 2 \in Nat /\ DOMAIN seq = 1 .. 2 /\ seq[1] = "pc++" /\ seq[2] = "read"
    OBVIOUS
  <2> HIDE DEF seq
  <2>2. PICK r : Runs(c, seq, 2, r) /\ FoldLeft(Statement, c, seq) = r[2]
    BY <2>1, FoldRuns
  <2> QED
    BY <2>1, <2>2 DEF Runs
<1>2. e = c3
  <2>1. /\ 3 \in Nat /\ DOMAIN more = 1 .. 3
        /\ more[1] = "pc++" /\ more[2] = "read" /\ more[3] = "adl="
    OBVIOUS
  <2> HIDE DEF more
  <2>2. PICK r : Runs(c, more, 3, r) /\ FoldLeft(Statement, c, more) = r[3]
    BY <2>1, FoldRuns
  <2> QED
    BY <2>1, <2>2 DEF Runs
<1>3. /\ Alike(c, c1) /\ c1.pc = Word(c.pc + 1) /\ c1.address = c.pc /\ c1.p = c.p
      /\ CpuOk(c1) /\ c1.mem = c.mem
  BY StatementReads, AlikeIsOk
<1> HIDE DEF c1
<1>4. /\ Keeps(c1, c2) /\ c2.data = BusRead(c1, c1.address) /\ CpuOk(c2)
  <2>1. Keeps(c1, c2) /\ c2.data = BusRead(c1, c1.address)
    BY <1>3, StatementKeeps, StatementReads
  <2> QED
    BY <1>3, <2>1, AlikeIsOk DEF Keeps
<1> HIDE DEF c2
<1>5. /\ Alike(c2, c3) /\ c3.adl = c2.data /\ c3.pc = c2.pc /\ c3.p = c2.p
  BY <1>4, StatementReads
<1> HIDE DEF c3, d, e
<1>6. c2.data = BusRead(c, c.pc)
  BY <1>3, <1>4 DEF BusRead
<1>7. /\ Alike(c, c2) /\ c2.pc = Word(c.pc + 1) /\ c.p \subseteq c2.p
  BY <1>3, <1>4, AlikeIsTransitive DEF Keeps
<1>8. /\ Alike(c, c3) /\ c3.pc = Word(c.pc + 1) /\ c.p \subseteq c3.p
      /\ c3.adl = BusRead(c, c.pc)
  BY <1>5, <1>6, <1>7, AlikeIsTransitive
<1> QED
  BY <1>1, <1>2, <1>7, <1>8 DEF d, e

\* The sixth cycle goes where the vector points.
LEMMA ResetEnds ==
  ASSUME NEW c, CpuOk(c)
  PROVE  LET d == FoldLeft(Statement, c, <<"pc", "read", "adh=", "pc=ad", "served", "done">>)
         IN  /\ d.mem = c.mem /\ d.started = c.started
             /\ d.t = -1 /\ d.pendingReset = FALSE
             /\ d.pc = Pair(c.adl, BusRead(c, c.pc)) /\ c.p \subseteq d.p
<1> DEFINE seq == <<"pc", "read", "adh=", "pc=ad", "served", "done">>
           d == FoldLeft(Statement, c, seq)
           c1 == Statement(c, "pc")
           c2 == Statement(c1, "read")
           c3 == Statement(c2, "adh=")
           c4 == Statement(c3, "pc=ad")
           c5 == Statement(c4, "served")
           c6 == Statement(c5, "done")
<1>1. d = c6
  <2>1. /\ seq[1] = "pc" /\ seq[2] = "read" /\ seq[3] = "adh=" /\ seq[4] = "pc=ad"
        /\ seq[5] = "served" /\ seq[6] = "done"
    OBVIOUS
  <2>0. 6 \in Nat /\ DOMAIN seq = 1 .. 6
    OBVIOUS
  <2> HIDE DEF seq
  <2>2. PICK r : Runs(c, seq, 6, r) /\ FoldLeft(Statement, c, seq) = r[6]
    BY <2>0, FoldRuns
  <2>3. r[1] = c1 /\ r[2] = Statement(r[1], "read") /\ r[3] = Statement(r[2], "adh=")
    BY <2>1, <2>2 DEF Runs
  <2>4. /\ r[4] = Statement(r[3], "pc=ad") /\ r[5] = Statement(r[4], "served")
        /\ r[6] = Statement(r[5], "done")
    BY <2>1, <2>2 DEF Runs
  <2> QED
    BY <2>2, <2>3, <2>4
<1>2. Keeps(c, c1) /\ c1.address = c.pc /\ CpuOk(c1)
  <2>1. Keeps(c, c1) /\ c1.address = c.pc
    BY StatementKeeps, StatementReads
  <2> QED
    BY <2>1, AlikeIsOk DEF Keeps
<1> HIDE DEF c1, d
<1>3. Keeps(c1, c2) /\ c2.data = BusRead(c1, c1.address) /\ CpuOk(c2)
  <2>1. Keeps(c1, c2) /\ c2.data = BusRead(c1, c1.address)
    BY <1>2, StatementKeeps, StatementReads
  <2> QED
    BY <1>2, <2>1, AlikeIsOk DEF Keeps
<1> HIDE DEF c2
<1>4. Keeps(c2, c3) /\ c3.adh = c2.data /\ CpuOk(c3)
  <2>1. Keeps(c2, c3) /\ c3.adh = c2.data
    BY <1>3, StatementKeeps, StatementReads
  <2> QED
    BY <1>3, <2>1, AlikeIsOk DEF Keeps
<1> HIDE DEF c3
<1>5. /\ Keeps(c, c3) /\ c3.adh = BusRead(c, c.pc)
  <2>1. Keeps(c, c3)
    BY <1>2, <1>3, <1>4, KeepsIsTransitive
  <2>2. c1.mem = c.mem
    BY <1>2 DEF Keeps
  <2> QED
    BY <1>2, <1>3, <1>4, <2>1, <2>2 DEF BusRead
<1>6. /\ c3.mem = c.mem /\ c3.started = c.started /\ c.p \subseteq c3.p
      /\ AD(c3) = Pair(c.adl, BusRead(c, c.pc))
  BY <1>5 DEF Keeps, Alike, AD
<1>7. c3 \in CpuWith(c3.mem)
  BY <1>4 DEF CpuOk
<1>8. Alike(c3, c4) /\ c4.pc = AD(c3) /\ c4.p = c3.p
  <2>1. Alike(c3, c4)
    BY <1>4, RegistersAlike DEF RegisterStatements
  <2>3. c4.pc = AD(c3) /\ c4.p = c3.p
    BY <1>4, StatementReads
  <2> QED
    BY <2>1, <2>3
<1>9. CpuOk(c4) /\ c4.mem = c3.mem /\ c4.started = c3.started
  BY <1>4, <1>8, AlikeIsOk DEF Alike
<1> HIDE DEF c4
<1>10. /\ CpuOk(c5) /\ c5.mem = c4.mem /\ c5.started = c4.started
       /\ c5.pendingReset = FALSE /\ c5.pc = c4.pc /\ c5.p = c4.p
  <2>1. "served" \in Statements
    BY DEF Statements, EndingStatements
  <2>2. CpuOk(c5)
    BY <1>9, <2>1, StatementType DEF Within
  <2>3. c5 = [c4 EXCEPT !.pendingReset = FALSE]
    BY DEF Statement
  <2>4. c4 \in CpuWith(c4.mem)
    BY <1>9 DEF CpuOk
  <2> HIDE DEF c5
  <2> QED
    BY <2>2, <2>3, <2>4 DEF CpuWith
<1> HIDE DEF c5
<1>11. /\ c6.mem = c5.mem /\ c6.started = c5.started /\ c6.t = -1
       /\ c6.pendingReset = c5.pendingReset /\ c6.pc = c5.pc /\ c6.p = c5.p
  <2>1. c6 = [c5 EXCEPT !.t = -1]
    BY DEF Statement
  <2>2. c5 \in CpuWith(c5.mem)
    BY <1>10 DEF CpuOk
  <2> HIDE DEF c6
  <2> QED
    BY <2>1, <2>2 DEF CpuWith
<1> HIDE DEF c6
<1> QED
  BY <1>1, <1>6, <1>8, <1>9, <1>10, <1>11 DEF d

\* While a reset is served the processor is where the sequence has brought it: its
\* program counter at the vector, and the low byte read from there.
Resetting(c) ==
  c.started /\ c.pendingReset /\ c.t > 0 =>
    /\ c.opcode = RESET
    /\ c.t = 1 => c.pc = \hFFFB
    /\ c.t \in 2 .. 5 => c.pc = \hFFFC
    /\ c.t = 6 => c.pc = \hFFFD /\ c.adl = BusRead(c, RESET_VECTOR)
    /\ c.t >= 5 => "I" \in c.p

\* A cycle of the reset sequence writes nothing, and the last one starts the program
\* where the vector points, with interrupts disabled.
LEMMA TickInReset ==
  ASSUME NEW c, Placed(c), Resetting(c), c.started, c.pendingReset
  PROVE  LET d == CpuTick(c)
         IN  /\ d.mem = c.mem /\ Resetting(d)
             /\ ~ d.pendingReset =>
                  /\ d.pc = Pair(BusRead(c, RESET_VECTOR), BusRead(c, RESET_VECTOR + 1))
                  /\ "I" \in d.p /\ d.t = 0
<1> DEFINE b == IF c.t = 0 THEN FirstCycle(c) ELSE SubsequentCycle(c)
           d == [b EXCEPT !.t = b.t + 1]
<1>1. CpuTick(c) = d
  BY DEF CpuTick
<1>2. CpuOk(c) /\ c.t \in 0 .. 6 /\ \A e : Alike(c, e) => CpuOk(e)
  BY AlikeIsOk DEF Placed
<1>3. Placed(c) /\ (c.t # 0 => Within(c, SubsequentCycle(c)))
  BY SubsequentType
<1>4. CpuOk(b)
  BY <1>2, <1>3, FirstCycleType DEF Within
<1>5. /\ d.mem = b.mem /\ d.started = b.started /\ d.pendingReset = b.pendingReset
      /\ d.t = b.t + 1 /\ d.opcode = b.opcode /\ d.pc = b.pc /\ d.p = b.p /\ d.adl = b.adl
  <2>1. b \in CpuWith(b.mem)
    BY <1>4 DEF CpuOk
  <2> HIDE DEF b
  <2> QED
    BY <2>1 DEF CpuWith
<1> HIDE DEF d
<1>6. CASE c.t = 0
  <2>1. /\ b.mem = c.mem /\ b.t = 0 /\ b.pendingReset = TRUE /\ b.opcode = RESET
        /\ b.pc = Word(RESET_VECTOR - 2 + 1)
    BY <1>2, <1>6, FirstCycleType
  <2>2. Word(RESET_VECTOR - 2 + 1) = \hFFFB
    BY DEF Word, RESET_VECTOR
  <2> HIDE DEF b
  <2>3. d.t = 1 /\ d.pc = \hFFFB /\ d.opcode = RESET
    BY <1>5, <2>1, <2>2
  <2>4. Resetting(d)
    BY <2>3 DEF Resetting
  <2> QED
    BY <1>1, <1>5, <2>1, <2>4
<1>7. CASE c.t # 0
  <2>1. c.opcode = RESET /\ c.t \in 1 .. 6
    BY <1>2, <1>7 DEF Resetting
  <2>2. b = FoldLeft(Statement, c, addr_RESET[c.t])
    BY <1>7, <2>1, RoutineOfCode DEF SubsequentCycle, Routine
  <2> HIDE DEF b
  <2>3. ASSUME c.t \in 1 .. 5, Alike(c, b),
               c.t \in {2, 3, 4} => b.pc = c.pc,
               c.t \in {1, 5} => b.pc = Word(c.pc + 1),
               c.p \subseteq b.p, c.t = 4 => "I" \in b.p,
               c.t = 5 => b.adl = BusRead(c, c.pc)
        PROVE  d.mem = c.mem /\ Resetting(d) /\ d.pendingReset
    <3>1. /\ b.mem = c.mem /\ b.t = c.t /\ b.opcode = RESET /\ b.pendingReset = TRUE
      BY <1>2, <2>1, <2>3, AlikeIsOk DEF Alike
    <3>2. /\ d.mem = c.mem /\ d.t = c.t + 1 /\ d.opcode = RESET /\ d.pendingReset = TRUE
      BY <1>5, <3>1
    <3>3. /\ d.t \in 2 .. 5 => d.pc = \hFFFC
          /\ d.t = 6 => d.pc = \hFFFD
      <4>1. CASE c.t = 1
        BY <1>5, <2>3, <3>2, <4>1 DEF Resetting, Word
      <4>2. CASE c.t \in {2, 3, 4}
        BY <1>5, <2>3, <3>2, <4>2 DEF Resetting
      <4>3. CASE c.t = 5
        BY <1>5, <2>3, <3>2, <4>3 DEF Resetting, Word
      <4> QED
        BY <2>3, <4>1, <4>2, <4>3
    <3>4. d.t = 6 => d.adl = BusRead(d, RESET_VECTOR)
      <4>1. ASSUME d.t = 6 PROVE d.adl = BusRead(d, RESET_VECTOR)
        <5>1. c.t = 5
          BY <2>3, <3>2, <4>1
        <5>2. c.pc = RESET_VECTOR /\ d.adl = BusRead(c, c.pc)
          BY <1>5, <2>3, <5>1 DEF Resetting, RESET_VECTOR
        <5> QED
          BY <3>2, <5>2 DEF BusRead
      <4> QED
        BY <4>1
    <3>5. d.t >= 5 => "I" \in d.p
      <4>1. c.t \in {4, 5} => "I" \in b.p
        BY <2>3 DEF Resetting
      <4> QED
        BY <1>5, <2>3, <3>2, <4>1
    <3>6. d.t # 1
      BY <2>3, <3>2
    <3> QED
      BY <3>2, <3>3, <3>4, <3>5, <3>6 DEF Resetting
  <2>4. CASE c.t \in {1, 5}
    <3>1. \/ c.t = 1 /\ b = FoldLeft(Statement, c, <<"pc++", "read">>)
          \/ c.t = 5 /\ b = FoldLeft(Statement, c, <<"pc++", "read", "adl=">>)
      BY <2>2, <2>4 DEF addr_RESET
    <3>2. /\ Alike(c, b) /\ b.pc = Word(c.pc + 1) /\ c.p \subseteq b.p
          /\ c.t = 5 => b.adl = BusRead(c, c.pc)
      BY <1>2, <3>1, ResetReadsOn
    <3>3. d.mem = c.mem /\ Resetting(d) /\ d.pendingReset
      BY <2>3, <2>4, <3>2
    <3> QED
      BY <1>1, <3>3
  <2>5. CASE c.t \in {2, 3, 4}
    <3>1. \/ c.t = 2 /\ b = FoldLeft(Statement, c, <<"s=FF", "push", "=pch", "read">>)
          \/ c.t = 3 /\ b = FoldLeft(Statement, c, <<"push", "=pcl", "read">>)
          \/ c.t = 4 /\ b = FoldLeft(Statement, c, <<"push", "p+I", "=p", "read">>)
      BY <2>2, <2>5 DEF addr_RESET
    <3>2. Keeps(c, b) /\ (c.t = 4 => "I" \in b.p)
      BY <1>2, <3>1, ResetReads
    <3>3. Alike(c, b) /\ b.pc = c.pc /\ c.p \subseteq b.p
      BY <3>2 DEF Keeps
    <3>4. d.mem = c.mem /\ Resetting(d) /\ d.pendingReset
      BY <2>3, <2>5, <3>2, <3>3
    <3> QED
      BY <1>1, <3>4
  <2>6. CASE c.t = 6
    <3>1. b = FoldLeft(Statement, c, <<"pc", "read", "adh=", "pc=ad", "served", "done">>)
      BY <2>2, <2>6 DEF addr_RESET
    <3>2. /\ b.mem = c.mem /\ b.t = -1 /\ b.pendingReset = FALSE
          /\ b.pc = Pair(c.adl, BusRead(c, c.pc)) /\ c.p \subseteq b.p
      BY <1>2, <3>1, ResetEnds
    <3>3. /\ c.pc = RESET_VECTOR + 1 /\ c.adl = BusRead(c, RESET_VECTOR) /\ "I" \in c.p
      BY <2>6 DEF Resetting, RESET_VECTOR
    <3>4. Resetting(d)
      BY <1>5, <3>2 DEF Resetting
    <3> QED
      BY <1>1, <1>5, <3>2, <3>3, <3>4
  <2> QED
    BY <2>1, <2>4, <2>5, <2>6
<1> QED
  BY <1>6, <1>7

-----------------------------------------------------------------------------
(* The machine.                                                            *)

MachineInv ==
  /\ powered \in BOOLEAN
  /\ resetTicks \in 0 .. PowerUpTicks
  /\ revision \in Revisions \cup {1}
  /\ Placed(cpu)
  /\ powered => Resetting(cpu)

\* The invariant gives the types.
LEMMA InvTypes == MachineInv => MachineTypeOK
<1>1. SUFFICES ASSUME MachineInv PROVE MachineTypeOK
  OBVIOUS
<1>2. cpu \in CpuWith(cpu.mem) /\ IsMemory(cpu.mem) /\ cpu.t \in 0 .. 6
  BY <1>1 DEF MachineInv, Placed, CpuOk
<1>5. cpu.t \in 0 .. Len(Microcode[AddrTable[cpu.opcode]])
  <2>1. cpu.t <= Len(Routine(cpu.opcode)) /\ Len(Routine(cpu.opcode)) \in 1 .. 6
    BY <1>1, <1>2, RoutineOfCode DEF MachineInv, Placed, CpuWith, IsRoutine
  <2>2. Routine(cpu.opcode) = Microcode[AddrTable[cpu.opcode]]
    BY DEF Routine
  <2> QED
    BY <1>2, <2>1, <2>2
<1>3. /\ cpu.started \in BOOLEAN /\ cpu.pendingReset \in BOOLEAN
      /\ cpu.opcode \in Bytes \cup {RESET}
  BY <1>2 DEF CpuWith
<1>4. /\ {cpu.a, cpu.x, cpu.y, cpu.s, cpu.data, cpu.adl, cpu.adh, cpu.bal, cpu.bah} \subseteq Bytes
      /\ {cpu.pc, cpu.address} \subseteq Words /\ cpu.p \subseteq Flags
  BY <1>2, FieldTypes
<1> QED
  BY <1>1, <1>2, <1>3, <1>4, <1>5 DEF MachineInv, MachineTypeOK, IsMemory

\* A processor with another place, or after power on, is as sound as it was.
LEMMA SwitchTypes ==
  ASSUME NEW c, Placed(c)
  PROVE  /\ Placed(CpuReset(c)) /\ Resetting(CpuReset(c))
         /\ CpuReset(c).mem = c.mem /\ CpuReset(c).pendingReset = TRUE
         /\ \A ram \in RamContents :
              LET d == [CpuPowerOn(c) EXCEPT !.mem = ram]
              IN  Placed(d) /\ Resetting(d) /\ d.started = FALSE
<1>1. c \in CpuWith(c.mem) /\ IsMemory(c.mem) /\ c.t \in 0 .. 6
      /\ c.opcode \in Bytes \cup {RESET} /\ c.t <= Len(Routine(c.opcode))
  BY OpcodeType DEF Placed, CpuOk
<1>2. /\ Placed(CpuReset(c)) /\ Resetting(CpuReset(c))
      /\ CpuReset(c).mem = c.mem /\ CpuReset(c).pendingReset = TRUE
  <2> DEFINE d == CpuReset(c)
  <2>1. /\ d \in CpuWith(c.mem) /\ d.mem = c.mem /\ d.t = 0 /\ d.opcode = c.opcode
        /\ d.pendingReset = TRUE
    <3>1. d = [c EXCEPT !.started = TRUE, !.pendingReset = TRUE, !.t = 0]
      BY DEF CpuReset
    <3>2. 0 \in -1 .. 6
      OBVIOUS
    <3> HIDE DEF d
    <3> QED
      BY <1>1, <3>1, <3>2 DEF CpuWith
  <2> HIDE DEF d
  <2>2. Len(Routine(c.opcode)) \in 1 .. 6
    BY <1>1, RoutineOfCode DEF IsRoutine
  <2>3. 0 <= Len(Routine(c.opcode))
    BY <2>2
  <2>4. Placed(d)
    BY <1>1, <2>1, <2>3 DEF Placed, CpuOk
  <2>5. Resetting(d)
    BY <2>1 DEF Resetting
  <2> QED
    BY <2>1, <2>4, <2>5 DEF d
<1>3. ASSUME NEW ram \in RamContents
      PROVE  LET d == [CpuPowerOn(c) EXCEPT !.mem = ram]
             IN  Placed(d) /\ Resetting(d) /\ d.started = FALSE
  <2> DEFINE d == [CpuPowerOn(c) EXCEPT !.mem = ram]
  <2>1. /\ d \in CpuWith(ram) /\ d.mem = ram /\ d.t = c.t /\ d.opcode = c.opcode
        /\ d.started = FALSE
    BY <1>1 DEF CpuPowerOn, CpuWith, Flags
  <2> HIDE DEF d
  <2>2. IsMemory(ram)
    BY MotherboardAssumption
  <2>3. Placed(d)
    BY <1>1, <2>1, <2>2 DEF Placed, CpuOk
  <2>4. Resetting(d)
    BY <2>1 DEF Resetting
  <2> QED
    BY <2>1, <2>3, <2>4 DEF d
<1> QED
  BY <1>2, <1>3

\* It holds of the machine as it is made,
LEMMA InitInv == MachineInit => MachineInv
<1>1. SUFFICES ASSUME MachineInit PROVE MachineInv
  OBVIOUS
<1>2. cpu.mem = <<>> /\ IsMemory(<<>>)
  BY <1>1 DEF MachineInit, Unpowered, IsMemory
<1>3. cpu \in CpuWith(<<>>) /\ cpu.t \in {0, 5} /\ cpu.opcode = 0
  <2>1. /\ 0 \in Bytes /\ \h80 \in Bytes /\ 0 \in Words /\ {} \in SUBSET Flags
        /\ 0 \in -1 .. 6 /\ 5 \in -1 .. 6 /\ 0 \in -1 .. 1
    BY WordRange DEF Bytes
  <2>2. cpu \in Unpowered
    BY <1>1 DEF MachineInit
  <2>3. cpu.t \in {0, 5} /\ cpu.opcode = 0
    BY <2>2 DEF Unpowered
  <2>4. cpu \in CpuWith(<<>>)
    <3>1. /\ cpu.a = 0 /\ cpu.x = 0 /\ cpu.y = 0 /\ cpu.s \in {0, \h80} /\ cpu.data = 0
          /\ cpu.adl = 0 /\ cpu.adh = 0 /\ cpu.bal = 0 /\ cpu.bah = 0
          /\ cpu.pc = 0 /\ cpu.address = 0 /\ cpu.p = {} /\ cpu.sc = 0
          /\ cpu.branch = FALSE /\ cpu.wc = FALSE /\ cpu.mem = <<>>
          /\ cpu.started \in BOOLEAN /\ cpu.pendingReset \in BOOLEAN
      BY <2>2 DEF Unpowered
    <3>2. cpu.s \in Bytes /\ cpu.t \in -1 .. 6 /\ cpu.opcode \in Bytes
      BY <2>1, <2>3, <3>1
    <3>3. cpu = [started |-> cpu.started, pendingReset |-> cpu.pendingReset, t |-> cpu.t,
                 opcode |-> cpu.opcode, a |-> cpu.a, x |-> cpu.x, y |-> cpu.y, s |-> cpu.s,
                 p |-> cpu.p, pc |-> cpu.pc, adl |-> cpu.adl, adh |-> cpu.adh,
                 bal |-> cpu.bal, bah |-> cpu.bah, address |-> cpu.address,
                 data |-> cpu.data, branch |-> cpu.branch, sc |-> cpu.sc, wc |-> cpu.wc,
                 mem |-> cpu.mem]
      BY <2>2 DEF Unpowered
    <3> QED
      BY <2>1, <3>1, <3>2, <3>3 DEF CpuWith
  <2> QED
    BY <2>3, <2>4
<1>4. Routine(0) = addr_MISC_BREAK
  BY DEF Routine, Microcode, AddrTable, Entry, AddrCodes, RESET
<1>5. Len(Routine(0)) = 6
  BY <1>4 DEF addr_MISC_BREAK
<1>6. Placed(cpu)
  <2>1. cpu.t \in 0 .. 6 /\ cpu.t <= 6
    BY <1>3
  <2>2. Len(Routine(cpu.opcode)) = 6
    BY <1>3, <1>5
  <2>3. CpuOk(cpu)
    BY <1>2, <1>3 DEF CpuOk
  <2> QED
    BY <2>1, <2>2, <2>3 DEF Placed
<1>7. 0 \in 0 .. PowerUpTicks
  BY MotherboardAssumption
<1> QED
  BY <1>1, <1>6, <1>7 DEF MachineInv, MachineInit

\* What a cycle of the powered machine may do.
LEMMA TickSteps ==
  ASSUME MachineInv, powered
  PROVE  LET d == CpuTick(cpu)
         IN  /\ Placed(d) /\ Resetting(d) /\ d.started = cpu.started
             /\ d.mem # cpu.mem => Running
             /\ ~ Running /\ d.started /\ ~ d.pendingReset =>
                  d.pc = Vector /\ "I" \in d.p /\ d.t = 0
<1> DEFINE d == CpuTick(cpu)
<1>1. Placed(cpu) /\ Resetting(cpu)
  BY DEF MachineInv
<1>2. Placed(d) /\ d.started = cpu.started /\ d.pendingReset \in {cpu.pendingReset, FALSE}
  BY <1>1, TickType
<1>3. /\ cpu.started \in BOOLEAN /\ cpu.pendingReset \in BOOLEAN
  BY <1>1 DEF Placed, CpuOk, CpuWith
<1>4. CASE ~ cpu.started
  <2>1. d = cpu
    BY <1>4 DEF CpuTick
  <2> QED
    BY <1>1, <1>4, <2>1
<1>5. CASE cpu.started /\ ~ cpu.pendingReset
  <2>1. Running
    BY <1>5 DEF Running
  <2>2. ~ d.pendingReset
    BY <1>2, <1>5
  <2>3. Resetting(d)
    BY <2>2 DEF Resetting
  <2> QED
    BY <1>2, <2>1, <2>3
<1>6. CASE cpu.started /\ cpu.pendingReset
  BY <1>1, <1>2, <1>6, TickInReset DEF Vector
<1> QED
  BY <1>3, <1>4, <1>5, <1>6

\* and every step keeps it,
LEMMA NextInv == MachineInv /\ [MachineNext]_machineVars => MachineInv'
<1>1. SUFFICES ASSUME MachineInv, [MachineNext]_machineVars PROVE MachineInv'
  OBVIOUS
<1>2. Placed(cpu) /\ PowerUpTicks \in Nat /\ resetTicks \in 0 .. PowerUpTicks
  BY <1>1, MotherboardAssumption DEF MachineInv
<1>3. CASE Tick
  <2>1. powered /\ powered' = powered /\ revision' = revision
    BY <1>3 DEF Tick
  <2>2. Placed(CpuTick(cpu)) /\ Resetting(CpuTick(cpu))
    BY <1>1, <2>1, TickSteps
  <2>3. cpu' = CpuReset(CpuTick(cpu)) \/ cpu' = CpuTick(cpu)
    BY <1>3 DEF Tick
  <2>4. Placed(cpu') /\ Resetting(cpu')
    BY <2>2, <2>3, SwitchTypes
  <2>5. resetTicks' \in 0 .. PowerUpTicks
    BY <1>2, <1>3 DEF Tick, PowerUpTicked
  <2> QED
    BY <1>1, <2>1, <2>4, <2>5 DEF MachineInv, Placed, Resetting, CpuOk, IsMemory, BusRead
<1>4. CASE PowerOn
  <2>1. PICK ram \in RamContents : cpu' = [CpuPowerOn(cpu) EXCEPT !.mem = ram]
    BY <1>4 DEF PowerOn
  <2>2. Placed(cpu') /\ Resetting(cpu')
    BY <1>2, <2>1, SwitchTypes
  <2>3. powered' = TRUE /\ revision' = revision /\ resetTicks' \in 0 .. PowerUpTicks
    BY <1>2, <1>4 DEF PowerOn, PowerUpDelay
  <2> QED
    BY <1>1, <2>2, <2>3 DEF MachineInv
<1>5. CASE PowerOff
  BY <1>1, <1>5 DEF MachineInv, PowerOff
<1>6. CASE PressReset
  <2>1. Placed(cpu') /\ Resetting(cpu')
    BY <1>2, <1>6, SwitchTypes DEF PressReset
  <2> QED
    BY <1>1, <1>6, <2>1 DEF MachineInv, PressReset
<1>7. ASSUME NEW r \in Revisions, SetRevision(r) PROVE MachineInv'
  BY <1>1, <1>7 DEF MachineInv, SetRevision
<1>8. CASE UNCHANGED machineVars
  BY <1>1, <1>8 DEF MachineInv, machineVars
<1> QED
  BY <1>1, <1>3, <1>4, <1>5, <1>6, <1>7, <1>8 DEF MachineNext

\* so it always holds.
LEMMA MachineInvariant == MachineSpec => []MachineInv
<1>1. MachineInit => MachineInv
  BY InitInv
<1>2. MachineInv /\ [MachineNext]_machineVars => MachineInv'
  BY NextInv
<1> QED
  BY <1>1, <1>2, PTL DEF MachineSpec

\* Whatever the memory holds, and whatever code it makes the processor run, registers,
\* latches and flags keep their widths, and the cycle of an instruction (cpu.cpp) never
\* leaves its addressing routine.
THEOREM MachineTypeCorrect == MachineSpec => []MachineTypeOK
  BY MachineInvariant, InvTypes, PTL

\* Nothing is written to memory between power on, or a reset, and the first instruction
\* after the reset (CPU::addr_RESET), in any interleaving with the switches.
THEOREM NothingIsWrittenUnreset == MachineSpec => NothingWrittenUnreset
<1>1. MachineInv /\ [MachineNext]_machineVars
        => [powered /\ cpu'.mem # cpu.mem => Running]_machineVars
  <2>1. SUFFICES ASSUME MachineInv, [MachineNext]_machineVars, powered, cpu'.mem # cpu.mem
                 PROVE  Running
    OBVIOUS
  <2>2. CASE Tick
    <3>1. Placed(CpuTick(cpu)) /\ (CpuTick(cpu).mem # cpu.mem => Running)
      BY <2>1, TickSteps
    <3>2. cpu' = CpuReset(CpuTick(cpu)) \/ cpu' = CpuTick(cpu)
      BY <2>2 DEF Tick
    <3> QED
      BY <2>1, <3>1, <3>2, SwitchTypes
  <2>3. CASE PressReset
    BY <2>1, <2>3, SwitchTypes DEF PressReset, MachineInv
  <2> QED
    BY <2>1, <2>2, <2>3 DEF MachineNext, PowerOn, PowerOff, SetRevision, machineVars
<1> QED
  BY <1>1, MachineInvariant, PTL DEF MachineSpec, NothingWrittenUnreset

\* A program starts only where the reset vector points, with interrupts disabled
\* (CPU::firstCycle, CPU::addr_RESET), in any interleaving with the switches.
THEOREM ProgramsStartAtVector == MachineSpec => StartsAtVector
<1>1. MachineInv /\ [MachineNext]_machineVars
        => [~Running /\ Running' => cpu'.pc = Vector /\ "I" \in cpu'.p /\ cpu'.t = 0]_machineVars
  <2>1. SUFFICES ASSUME MachineInv, [MachineNext]_machineVars, ~Running, Running'
                 PROVE  cpu'.pc = Vector /\ "I" \in cpu'.p /\ cpu'.t = 0
    OBVIOUS
  <2>2. Placed(cpu) /\ powered' /\ cpu'.started /\ ~ cpu'.pendingReset
    BY <2>1 DEF MachineInv, Running
  <2>3. CASE Tick
    <3>1. powered
      BY <2>3 DEF Tick
    <3>2. Placed(CpuTick(cpu))
      BY <2>1, <3>1, TickSteps
    <3>3. CpuReset(CpuTick(cpu)).pendingReset = TRUE
      BY <3>2, SwitchTypes
    <3>4. cpu' = CpuTick(cpu)
      BY <2>2, <2>3, <3>3 DEF Tick
    <3> QED
      BY <2>1, <2>2, <3>1, <3>4, TickSteps
  <2>4. CASE PowerOn
    <3>1. PICK ram \in RamContents : cpu' = [CpuPowerOn(cpu) EXCEPT !.mem = ram]
      BY <2>4 DEF PowerOn
    <3>2. cpu'.started = FALSE
      BY <2>2, <3>1, SwitchTypes
    <3> QED
      BY <2>2, <3>2
  <2>5. CASE PressReset
    BY <2>2, <2>5, SwitchTypes DEF PressReset
  <2>6. CASE PowerOff
    BY <2>2, <2>6 DEF PowerOff
  <2>7. CASE UNCHANGED <<cpu, powered>>
    BY <2>1, <2>7 DEF Running
  <2> QED
    BY <2>1, <2>3, <2>4, <2>5, <2>6, <2>7 DEF MachineNext, SetRevision, machineVars
<1> QED
  BY <1>1, MachineInvariant, PTL DEF MachineSpec, StartsAtVector
=============================================================================
