------------------------ MODULE DiskControllerProofs ------------------------
(***************************************************************************)
(* Proofs about DiskController, for every motor delay, every inertia and   *)
(* every number of tracks.                                                 *)
(***************************************************************************)
EXTENDS DiskController, TLAPS

Arms    == [Drives -> [pending : 0 .. Inertia, track : Tracks]]
Screens == [Drives -> [lamp : BOOLEAN, star : BOOLEAN, track : Tracks \cup {Blank}]]

-----------------------------------------------------------------------------
(* What has to hold of the arms and the screen when d is selected.  It is  *)
(* stated of values, not of the state, because an access selects, switches *)
(* and draws first and ticks what results.                                 *)

TrackShown(d, arms, scr) ==
  scr[d].track # Blank =>
    IF arms[d].pending > 0 THEN scr[d].track = arms[d].track
                           ELSE scr[d].track \in Neighbours(arms[d].track)

OthersDark(d, scr) == ~scr[Other(d)].lamp /\ scr[Other(d)].track = Blank

\* The handshake between the two halves of a cycle.
Handshake ==
  /\ lssSteps \in 0 .. 1
  /\ step = "cpu" => ~ioStepped /\ (motorOn => lssSteps = 1)
  /\ step = "slots" => IF ioStepped THEN motorOn => lssSteps = 1
                                    ELSE lssSteps = 0

IInv ==
  /\ TypeOK
  /\ Handshake
  /\ StopPendingIfAsked
  /\ motorOn => gui[current].lamp
  /\ OthersDark(current, gui)
  /\ TrackShown(current, arm, gui)

-----------------------------------------------------------------------------
\* A tick of the arm keeps the track on the screen next to the arm, and moves
\* no other arm.
LEMMA ArmTickedShown ==
  ASSUME NEW d \in Drives, NEW arms \in Arms, NEW scr \in Screens,
         TrackShown(d, arms, scr), NEW ticked \in ArmTicked(arms, d)
  PROVE  ticked \in Arms /\ TrackShown(d, ticked, scr)
<1>1. arms[d].pending \in 0 .. Inertia /\ arms[d].track \in Tracks
  BY DEF Arms
<1>2. CASE arms[d].pending = 0
  BY <1>2 DEF ArmTicked
<1>3. CASE arms[d].pending > 1
  <2>1. ticked = [arms EXCEPT ![d].pending = @ - 1]
    BY <1>3 DEF ArmTicked
  <2>2. arms[d].pending - 1 \in 0 .. Inertia
    BY <1>1, <1>3, ControllerAssumption
  <2>3. ticked \in Arms
    BY <2>1, <2>2 DEF Arms
  <2>4. ticked[d].pending > 0 /\ ticked[d].track = arms[d].track
    BY <1>3, <1>1, <2>1, ControllerAssumption DEF Arms
  <2>5. QED
    BY <1>1, <1>3, <2>3, <2>4 DEF TrackShown
<1>4. CASE arms[d].pending = 1
  <2>1. PICK t \in Neighbours(arms[d].track) :
          ticked = [arms EXCEPT ![d] = [pending |-> 0, track |-> t]]
    BY <1>4 DEF ArmTicked
  <2>2. t \in Tracks /\ 0 \in 0 .. Inertia
    BY <2>1, ControllerAssumption DEF Neighbours
  <2>3. ticked \in Arms
    BY <2>1, <2>2 DEF Arms
  <2>4. ticked[d].pending = 0 /\ ticked[d].track = t
    BY <2>1 DEF Arms
  <2>5. arms[d].track \in Neighbours(t)
    BY <1>1, <2>1, ControllerAssumption DEF Neighbours, Tracks
  <2>6. scr[d].track # Blank => scr[d].track = arms[d].track
    BY <1>4 DEF TrackShown
  <2>7. TrackShown(d, ticked, scr)
    BY <2>4, <2>5, <2>6 DEF TrackShown
  <2>8. QED
    BY <2>3, <2>7
<1>5. arms[d].pending = 0 \/ arms[d].pending = 1 \/ arms[d].pending > 1
  BY <1>1, ControllerAssumption
<1>6. QED
  BY <1>2, <1>3, <1>4, <1>5

\* Drawing a lamp and a track changes that drive's part of the screen only.
LEMMA DrawnScreen ==
  ASSUME NEW scr \in Screens, NEW d \in Drives,
         NEW on \in BOOLEAN, NEW t \in Tracks \cup {Blank}
  PROVE  /\ Drawn(scr, d, on, t) \in Screens
         /\ Drawn(scr, d, on, t)[d].lamp = on
         /\ Drawn(scr, d, on, t)[d].track = t
         /\ \A e \in Drives : e # d => Drawn(scr, d, on, t)[e] = scr[e]
<1> DEFINE new == Drawn(scr, d, on, t)
<1> DEFINE line == [lamp |-> on, star |-> scr[d].star, track |-> t]
<1>1. scr[d] \in [lamp : BOOLEAN, star : BOOLEAN, track : Tracks \cup {Blank}]
  BY DEF Screens
<1>2. line \in [lamp : BOOLEAN, star : BOOLEAN, track : Tracks \cup {Blank}]
  BY <1>1
<1>3. new = [scr EXCEPT ![d] = line]
  BY DEF Drawn
<1> HIDE DEF line, new
<1>4. new[d] = line
  BY <1>3 DEF Screens
<1>5. new \in Screens
  BY <1>2, <1>3 DEF Screens
<1>6. \A e \in Drives : e # d => new[e] = scr[e]
  BY <1>3 DEF Screens
<1>7. line.lamp = on /\ line.track = t
  BY DEF line
<1>8. QED
  BY <1>4, <1>5, <1>6, <1>7 DEF new

\* Drawing an asterisk changes no lamp and no track.
LEMMA StarDrawn ==
  ASSUME NEW scr \in Screens, NEW d \in Drives, NEW dirty \in BOOLEAN
  PROVE  /\ SetDirty(scr, d, dirty) \in Screens
         /\ \A e \in Drives : /\ SetDirty(scr, d, dirty)[e].lamp = scr[e].lamp
                             /\ SetDirty(scr, d, dirty)[e].track = scr[e].track
<1> DEFINE new == SetDirty(scr, d, dirty)
<1> DEFINE line == [lamp |-> scr[d].lamp, star |-> dirty, track |-> scr[d].track]
<1>1. scr[d] \in [lamp : BOOLEAN, star : BOOLEAN, track : Tracks \cup {Blank}]
  BY DEF Screens
<1>2. line \in [lamp : BOOLEAN, star : BOOLEAN, track : Tracks \cup {Blank}]
  BY <1>1
<1>3. new = [scr EXCEPT ![d] = line]
  <2>1. new = [scr EXCEPT ![d] = [scr[d] EXCEPT !.star = dirty]]
    BY DEF SetDirty, Screens
  <2>2. [scr[d] EXCEPT !.star = dirty] = line
    BY <1>1
  <2>3. QED
    BY <2>1, <2>2
<1> HIDE DEF new
<1>4. new[d] = line /\ \A e \in Drives : e # d => new[e] = scr[e]
  BY <1>3 DEF Screens
<1>5. new[d].lamp = scr[d].lamp /\ new[d].track = scr[d].track
  BY <1>4
<1> HIDE DEF line
<1>6. new \in Screens
  BY <1>2, <1>3 DEF Screens
<1>7. QED
  BY <1>4, <1>5, <1>6 DEF new

\* Selecting a drive clears the other one's part of the screen.
LEMMA Selected ==
  ASSUME NEW old \in Drives, NEW d \in Drives, NEW on \in BOOLEAN,
         gui \in Screens, arm \in Arms, OthersDark(old, gui),
         NEW scr, scr = SetCurrentDrive(ClearCurrentDrive(gui, old), d, on)
  PROVE  scr \in Screens /\ OthersDark(d, scr) /\ TrackShown(d, arm, scr)
<1> DEFINE cleared == ClearCurrentDrive(gui, old)
<1>1. /\ cleared \in Screens
      /\ cleared[old].lamp = FALSE /\ cleared[old].track = Blank
      /\ \A e \in Drives : e # old => cleared[e] = gui[e]
  <2>1. PICK dark \in BOOLEAN : dark = FALSE
    OBVIOUS
  <2>2. cleared = Drawn(gui, old, dark, Blank)
    BY <2>1 DEF ClearCurrentDrive
  <2> HIDE DEF cleared
  <2>3. /\ cleared \in Screens
        /\ cleared[old].lamp = dark /\ cleared[old].track = Blank
        /\ \A e \in Drives : e # old => cleared[e] = gui[e]
    BY <2>2, DrawnScreen
  <2>4. QED
    BY <2>1, <2>3
<1>2. arm[d].track \in Tracks
  BY DEF Arms
<1>3. scr = Drawn(cleared, d, on, arm[d].track)
  BY DEF SetCurrentDrive
<1> HIDE DEF cleared
<1>4. /\ scr \in Screens
      /\ scr[d].lamp = on /\ scr[d].track = arm[d].track
      /\ \A e \in Drives : e # d => scr[e] = cleared[e]
  BY <1>1, <1>2, <1>3, DrawnScreen
<1>5. Other(old) \in Drives /\ Other(d) \in Drives /\ Other(d) # d
  BY DEF Other, Drives
<1>6. ~cleared[Other(d)].lamp /\ cleared[Other(d)].track = Blank
  <2>1. CASE Other(d) = old
    BY <2>1, <1>1
  <2>2. CASE Other(d) # old
    <3>1. Other(d) = Other(old)
      BY <2>2 DEF Other, Drives
    <3>2. cleared[Other(d)] = gui[Other(old)]
      BY <1>1, <1>5, <2>2, <3>1
    <3>3. QED
      BY <3>2 DEF OthersDark
  <2>3. QED
    BY <2>1, <2>2
<1>7. OthersDark(d, scr)
  BY <1>4, <1>5, <1>6 DEF OthersDark
<1>8. arm[d].track \in Neighbours(arm[d].track)
  BY <1>2, ControllerAssumption DEF Neighbours, Tracks
<1>9. TrackShown(d, arm, scr)
  BY <1>4, <1>8 DEF TrackShown
<1>10. QED
  BY <1>4, <1>7, <1>9

\* The card's tick, on any values with the drive d selected.
LEMMA RunTickStep ==
  ASSUME TypeOK, Handshake,
         step = "slots" => lssSteps = 0,
         NEW d \in Drives, NEW on \in BOOLEAN, NEW pend \in 0 .. OffDelay,
         NEW wr \in BOOLEAN, NEW arms \in Arms, NEW scr \in Screens,
         TrackShown(d, arms, scr), OthersDark(d, scr),
         RunTick(d, on, pend, wr, arms, scr)
  PROVE  /\ arm' \in Arms /\ gui' \in Screens
         /\ motorOn' \in BOOLEAN /\ pendingTicks' \in 0 .. OffDelay
         /\ disk' \in [Drives -> Disks]
         /\ lssSteps' = (IF on THEN 1 ELSE 0)
         /\ motorOn' => on /\ gui'[d].lamp
         /\ motorOn' => (pend > 0 <=> pendingTicks' > 0)
         /\ OthersDark(d, gui')
         /\ TrackShown(d, arm', gui')
<1>1. gui' = [scr EXCEPT ![d].lamp = on]
  BY DEF RunTick
<1>2. /\ gui' \in Screens /\ OthersDark(d, gui')
      /\ gui'[d].lamp = on /\ gui'[d].track = scr[d].track
  BY <1>1 DEF Screens, OthersDark, Other, Drives
<1>3. arm' \in Arms /\ TrackShown(d, arm', scr)
  BY ArmTickedShown DEF RunTick
<1>4. TrackShown(d, arm', gui')
  BY <1>2, <1>3 DEF TrackShown
<1>5. /\ motorOn' = (on /\ pend # 1)
      /\ pendingTicks' = IF on /\ pend > 0 THEN pend - 1 ELSE pend
  BY DEF RunTick
<1>6. /\ motorOn' \in BOOLEAN /\ pendingTicks' \in 0 .. OffDelay
      /\ motorOn' => (pend > 0 <=> pendingTicks' > 0)
  <2>1. motorOn' \in BOOLEAN
    BY <1>5
  <2>2. CASE ~on
    BY <1>5, <2>1, <2>2
  <2>3. CASE on
    <3>1. pendingTicks' = IF pend > 0 THEN pend - 1 ELSE pend
      BY <1>5, <2>3
    <3>2. motorOn' => pend # 1
      BY <1>5
    <3>3. pendingTicks' \in 0 .. OffDelay /\ (pend # 1 => (pend > 0 <=> pendingTicks' > 0))
      BY <3>1, ControllerAssumption
    <3>4. QED
      BY <2>1, <3>2, <3>3
  <2>4. QED
    BY <2>2, <2>3
<1>7. disk' \in [Drives -> Disks]
  BY DEF RunTick, TypeOK, Disks
<1>8. lssSteps' = (IF on THEN 1 ELSE 0)
  BY DEF RunTick, StepsSoFar, TypeOK
<1>9. QED
  BY <1>2, <1>3, <1>4, <1>5, <1>6, <1>7, <1>8

-----------------------------------------------------------------------------
LEMMA InitIInv == Init => IInv
<1> SUFFICES ASSUME Init PROVE IInv
  OBVIOUS
<1> USE ControllerAssumption DEF Init
<1>1. LastTrack \div 2 \in Tracks
  BY DEF Tracks
<1>2. TypeOK
  <2>1. arm \in Arms
    BY <1>1 DEF Arms
  <2>2. gui \in Screens
    BY DEF Screens
  <2>3. disk \in [Drives -> Disks]
    BY DEF Disks
  <2>4. /\ load \in BOOLEAN /\ write \in BOOLEAN /\ ioStepped \in BOOLEAN
        /\ motorOn \in BOOLEAN /\ offAsked \in BOOLEAN
    OBVIOUS
  <2>5. current \in Drives /\ pendingTicks \in 0 .. OffDelay /\ lssSteps \in Nat
    BY DEF Drives
  <2>6. QED
    BY <2>1, <2>2, <2>3, <2>4, <2>5 DEF TypeOK, Arms, Screens
<1>3. Handshake /\ StopPendingIfAsked
  BY DEF Handshake, StopPendingIfAsked
<1>4. OthersDark(current, gui) /\ TrackShown(current, arm, gui)
  BY DEF OthersDark, TrackShown, Other, Drives
<1>5. QED
  BY <1>2, <1>3, <1>4 DEF IInv

\* An access of any switch: what it selects, switches and draws has to be
\* consistent, the common tail does the rest.
LEMMA AccessIInv ==
  ASSUME IInv,
         NEW d \in Drives, NEW on \in BOOLEAN, NEW pend \in 0 .. OffDelay,
         NEW ld \in BOOLEAN, NEW wr \in BOOLEAN, NEW arms \in Arms,
         NEW scr \in Screens,
         TrackShown(d, arms, scr), OthersDark(d, scr),
         Access(d, on, pend, ld, wr, arms, scr),
         offAsked' \in BOOLEAN,
         on => (offAsked' <=> pend > 0)
  PROVE  IInv'
<1> DEFINE drawn == IF wr /\ ~ld THEN SetDirty(scr, d, TRUE) ELSE scr
<1>1. drawn \in Screens /\ TrackShown(d, arms, drawn) /\ OthersDark(d, drawn)
  <2>1. /\ drawn \in Screens
        /\ \A e \in Drives : drawn[e].lamp = scr[e].lamp /\ drawn[e].track = scr[e].track
    BY StarDrawn
  <2> HIDE DEF drawn
  <2>2. Other(d) \in Drives
    BY DEF Other, Drives
  <2>3. QED
    BY <2>1, <2>2 DEF TrackShown, OthersDark
<1>2. /\ RunTick(d, on, pend, wr, arms, drawn) /\ step = "cpu"
      /\ ioStepped' = TRUE /\ step' = "slots"
      /\ current' = d /\ load' = ld /\ write' = wr
  BY DEF Access
<1>3. TypeOK /\ Handshake
  BY DEF IInv
<1> HIDE DEF drawn
<1>4. /\ arm' \in Arms /\ gui' \in Screens
      /\ motorOn' \in BOOLEAN /\ pendingTicks' \in 0 .. OffDelay
      /\ disk' \in [Drives -> Disks]
      /\ lssSteps' = (IF on THEN 1 ELSE 0)
      /\ motorOn' => on /\ gui'[d].lamp
      /\ motorOn' => (pend > 0 <=> pendingTicks' > 0)
      /\ OthersDark(d, gui') /\ TrackShown(d, arm', gui')
  BY <1>1, <1>2, <1>3, RunTickStep
<1>5. TypeOK'
  BY <1>2, <1>4 DEF TypeOK, Arms, Screens
<1>6. Handshake' /\ StopPendingIfAsked'
  BY <1>2, <1>4 DEF Handshake, StopPendingIfAsked
<1>7. OthersDark(current, gui)' /\ TrackShown(current, arm, gui)'
  BY <1>2, <1>4 DEF OthersDark, TrackShown
<1>8. QED
  BY <1>2, <1>4, <1>5, <1>6, <1>7 DEF IInv

LEMMA IoIInv == IInv /\ Io => IInv'
<1> SUFFICES ASSUME IInv, Io PROVE IInv'
  OBVIOUS
<1> USE ControllerAssumption
<1>1. /\ current \in Drives /\ load \in BOOLEAN /\ write \in BOOLEAN
      /\ motorOn \in BOOLEAN /\ pendingTicks \in 0 .. OffDelay
      /\ arm \in Arms /\ gui \in Screens /\ offAsked \in BOOLEAN
      /\ TrackShown(current, arm, gui) /\ OthersDark(current, gui)
      /\ motorOn => (offAsked <=> pendingTicks > 0)
  BY DEF IInv, TypeOK, Arms, Screens, StopPendingIfAsked
<1>2. CASE Phase
  <2> DEFINE arms == [arm EXCEPT ![current].pending = Inertia]
             scr  == [gui EXCEPT ![current].track = arm[current].track]
  <2>1. arms \in Arms /\ scr \in Screens
    BY <1>1 DEF Arms, Screens
  <2>2. TrackShown(current, arms, scr) /\ OthersDark(current, scr)
    BY <1>1 DEF Arms, Screens, TrackShown, OthersDark, Other, Drives
  <2>3. /\ Access(current, motorOn, pendingTicks, load, write, arms, scr)
        /\ offAsked' = offAsked
    BY <1>2 DEF Phase
  <2> HIDE DEF arms, scr
  <2>4. QED
    BY <1>1, <2>1, <2>2, <2>3, AccessIInv
<1>3. ASSUME NEW on \in BOOLEAN, MotorSwitch(on)
      PROVE  IInv'
  <2> DEFINE pend == IF on THEN 0 ELSE OffDelay
  <2>1. pend \in 0 .. OffDelay /\ (on \/ motorOn) \in BOOLEAN
    OBVIOUS
  <2>2. /\ Access(current, on \/ motorOn, pend, load, write, arm, gui)
        /\ offAsked' = ~on
    BY <1>3 DEF MotorSwitch
  <2>3. offAsked' <=> pend > 0
    <3>1. ~on <=> pend > 0
      OBVIOUS
    <3>2. QED
      BY <2>2, <3>1
  <2> HIDE DEF pend
  <2>4. QED
    BY <1>1, <2>1, <2>2, <2>3, AccessIInv
<1>4. ASSUME NEW on \in BOOLEAN, LoadSwitch(on)
      PROVE  IInv'
  BY <1>1, <1>4, AccessIInv DEF LoadSwitch
<1>5. ASSUME NEW on \in BOOLEAN, WriteSwitch(on)
      PROVE  IInv'
  BY <1>1, <1>5, AccessIInv DEF WriteSwitch
<1>6. ASSUME NEW d \in Drives, Select(d)
      PROVE  IInv'
  <2> DEFINE scr == SetCurrentDrive(ClearCurrentDrive(gui, current), d, motorOn)
  <2>1. scr \in Screens /\ OthersDark(d, scr) /\ TrackShown(d, arm, scr)
    BY <1>1, Selected
  <2>2. /\ Access(d, motorOn, pendingTicks, load, write, arm, scr)
        /\ offAsked' = offAsked
    BY <1>6 DEF Select
  <2> HIDE DEF scr
  <2>3. QED
    BY <1>1, <2>1, <2>2, AccessIInv
<1>7. QED
  BY <1>2, <1>3, <1>4, <1>5, <1>6 DEF Io

LEMMA SlotsTickIInv == IInv /\ SlotsTick => IInv'
<1> SUFFICES ASSUME IInv, SlotsTick PROVE IInv'
  OBVIOUS
<1>1. /\ current \in Drives /\ write \in BOOLEAN
      /\ motorOn \in BOOLEAN /\ pendingTicks \in 0 .. OffDelay
      /\ arm \in Arms /\ gui \in Screens
      /\ TrackShown(current, arm, gui) /\ OthersDark(current, gui)
      /\ TypeOK /\ Handshake
  BY DEF IInv, TypeOK, Arms, Screens
<1>2. /\ step = "slots" /\ step' = "cpu" /\ ioStepped' = FALSE
      /\ UNCHANGED <<current, load, write, offAsked>>
  BY DEF SlotsTick, control
<1>3. CASE ioStepped
  <2>1. /\ arm' \in ArmTicked(arm, current)
        /\ UNCHANGED <<motorOn, pendingTicks, disk, gui, lssSteps>>
    BY <1>3 DEF SlotsTick, motor
  <2>2. arm' \in Arms /\ TrackShown(current, arm', gui)
    BY <1>1, <2>1, ArmTickedShown
  <2>3. TypeOK'
    BY <1>1, <1>2, <2>1, <2>2 DEF TypeOK, Arms
  <2>4. Handshake' /\ StopPendingIfAsked'
    BY <1>2, <1>3, <2>1 DEF IInv, Handshake, StopPendingIfAsked
  <2>5. OthersDark(current, gui)' /\ TrackShown(current, arm, gui)'
    BY <1>1, <1>2, <2>1, <2>2 DEF OthersDark, TrackShown
  <2>6. QED
    BY <1>2, <2>1, <2>3, <2>4, <2>5 DEF IInv
<1>4. CASE ~ioStepped
  <2>1. RunTick(current, motorOn, pendingTicks, write, arm, gui)
    BY <1>4 DEF SlotsTick
  <2>2. lssSteps = 0
    BY <1>1, <1>2, <1>4 DEF Handshake
  <2>3. /\ arm' \in Arms /\ gui' \in Screens
        /\ motorOn' \in BOOLEAN /\ pendingTicks' \in 0 .. OffDelay
        /\ disk' \in [Drives -> Disks]
        /\ lssSteps' = (IF motorOn THEN 1 ELSE 0)
        /\ motorOn' => motorOn /\ gui'[current].lamp
        /\ motorOn' => (pendingTicks > 0 <=> pendingTicks' > 0)
        /\ OthersDark(current, gui') /\ TrackShown(current, arm', gui')
    BY <1>1, <2>1, <2>2, RunTickStep
  <2>4. TypeOK'
    BY <1>1, <1>2, <2>3 DEF TypeOK, Arms, Screens
  <2>5. Handshake' /\ StopPendingIfAsked'
    BY <1>2, <2>3 DEF IInv, Handshake, StopPendingIfAsked
  <2>6. OthersDark(current, gui)' /\ TrackShown(current, arm, gui)'
    BY <1>2, <2>3 DEF OthersDark, TrackShown
  <2>7. QED
    BY <1>2, <2>3, <2>4, <2>5, <2>6 DEF IInv
<1>5. QED
  BY <1>3, <1>4

LEMMA OperatorIInv == IInv /\ Operator => IInv'
<1> SUFFICES ASSUME IInv, Operator PROVE IInv'
  OBVIOUS
<1> USE ControllerAssumption
<1>1. TypeOK /\ arm \in Arms /\ gui \in Screens /\ current \in Drives
  BY DEF IInv, TypeOK, Arms, Screens
<1>2. ASSUME NEW d \in Drives, NEW contents \in Disks, NEW scr,
             Command(d, contents, scr),
             scr \in {gui, SetDirty(gui, current, FALSE)}
      PROVE  IInv'
  <2>1. /\ scr \in Screens
        /\ \A e \in Drives : scr[e].lamp = gui[e].lamp /\ scr[e].track = gui[e].track
    <3>1. CASE scr = gui
      BY <1>1, <3>1
    <3>2. CASE scr = SetDirty(gui, current, FALSE)
      <4>1. FALSE \in BOOLEAN
        OBVIOUS
      <4>2. QED
        BY <1>1, <3>2, <4>1, StarDrawn
    <3>3. QED
      BY <1>2, <3>1, <3>2
  <2>2. /\ gui' = scr /\ disk' = [disk EXCEPT ![d] = contents]
        /\ UNCHANGED <<current, load, write, ioStepped, motorOn, pendingTicks,
                       arm, step, lssSteps, offAsked>>
    BY <1>2 DEF Command, control, motor
  <2>3. TypeOK'
    BY <1>1, <2>1, <2>2 DEF TypeOK, Screens
  <2>4. Handshake' /\ StopPendingIfAsked'
    BY <2>2 DEF IInv, Handshake, StopPendingIfAsked
  <2>5. /\ OthersDark(current, gui)' /\ TrackShown(current, arm, gui)'
        /\ (motorOn => gui[current].lamp)'
    BY <1>1, <2>1, <2>2 DEF IInv, OthersDark, TrackShown, Other, Drives
  <2>6. QED
    BY <2>3, <2>4, <2>5 DEF IInv
<1>3. CASE Reset
  <2> DEFINE scr == SetCurrentDrive(ClearCurrentDrive(gui, current), 0, FALSE)
  <2>1. 0 \in Drives /\ OthersDark(current, gui)
    BY DEF Drives, IInv
  <2>2. scr \in Screens /\ OthersDark(0, scr) /\ TrackShown(0, arm, scr)
    BY <1>1, <2>1, Selected
  <2>3. /\ gui' = scr /\ current' = 0 /\ motorOn' = FALSE
        /\ UNCHANGED <<load, write, ioStepped, pendingTicks, disk, arm, step,
                       lssSteps, offAsked>>
    BY <1>3 DEF Reset
  <2> HIDE DEF scr
  <2>4. TypeOK'
    BY <1>1, <2>1, <2>2, <2>3 DEF TypeOK, Screens
  <2>5. Handshake' /\ StopPendingIfAsked'
    BY <2>3 DEF IInv, Handshake, StopPendingIfAsked
  <2>6. OthersDark(current, gui)' /\ TrackShown(current, arm, gui)'
    BY <2>2, <2>3 DEF OthersDark, TrackShown
  <2>7. QED
    BY <2>3, <2>4, <2>5, <2>6 DEF IInv
<1>4. ASSUME NEW d \in Drives, LoadDisk(d) \/ UnloadDisk(d) \/ SaveDisk(d)
      PROVE  IInv'
  <2>1. disk[d] \in Disks
    BY <1>1, <1>4 DEF TypeOK
  <2>2. \E contents \in Disks, scr \in {gui, SetDirty(gui, current, FALSE)} :
          Command(d, contents, scr)
    BY <1>4, <2>1 DEF LoadDisk, UnloadDisk, SaveDisk, Disks
  <2>3. QED
    BY <1>2, <1>4, <2>2
<1>5. QED
  BY <1>3, <1>4 DEF Operator

LEMMA NextIInv == IInv /\ [Next]_vars => IInv'
<1> SUFFICES ASSUME IInv, [Next]_vars PROVE IInv'
  OBVIOUS
<1>1. CASE OtherCpuCycle
  <2>1. /\ step = "cpu" /\ step' = "slots" /\ lssSteps' = 0
        /\ UNCHANGED <<current, load, write, ioStepped, motorOn, pendingTicks,
                       disk, arm, gui, offAsked>>
    BY <1>1 DEF OtherCpuCycle, control, motor
  <2>2. TypeOK' /\ Handshake' /\ StopPendingIfAsked'
    BY <2>1 DEF IInv, TypeOK, Handshake, StopPendingIfAsked
  <2>3. QED
    BY <2>1, <2>2 DEF IInv, OthersDark, TrackShown
<1>2. CASE UNCHANGED vars
  BY <1>2 DEF vars, IInv, TypeOK, Handshake, StopPendingIfAsked, OthersDark, TrackShown
<1>3. QED
  BY <1>1, <1>2, IoIInv, SlotsTickIInv, OperatorIInv DEF Next, Cycle

-----------------------------------------------------------------------------
\* Every reachable state is well typed.
THEOREM TypeCorrect == Spec => []TypeOK
<1>1. IInv => TypeOK
  BY DEF IInv
<1>2. QED
  BY <1>1, InitIInv, NextIInv, PTL DEF Spec

\* Access and tick of the slots together step the sequencer once a cycle.
THEOREM OneStep == Spec => []OneStepPerCycle
<1>1. IInv => OneStepPerCycle
  BY DEF IInv, Handshake, OneStepPerCycle
<1>2. QED
  BY <1>1, InitIInv, NextIInv, PTL DEF Spec

\* A motor that turns has a stop pending exactly when one was asked for.
THEOREM StopPending == Spec => []StopPendingIfAsked
<1>1. IInv => StopPendingIfAsked
  BY DEF IInv
<1>2. QED
  BY <1>1, InitIInv, NextIInv, PTL DEF Spec

\* The lamp of the selected drive, and no other, shows the turning motor.
THEOREM LampIsRight == Spec => []LampShowsMotor
<1>1. IInv => LampShowsMotor
  BY DEF IInv, OthersDark, LampShowsMotor
<1>2. QED
  BY <1>1, InitIInv, NextIInv, PTL DEF Spec

\* Only the selected drive shows a track, and it is its arm's or the one next
\* to it that the arm has just left.
THEOREM ShownTrackIsNear == Spec => []ShownTrack
<1>1. IInv => ShownTrack
  BY DEF IInv, OthersDark, TrackShown, ShownTrack
<1>2. QED
  BY <1>1, InitIInv, NextIInv, PTL DEF Spec

\* The lamps and the track on the screen agree with the hardware.
THEOREM ScreenAgrees == Spec => []ScreenIsTrue
<1>1. ScreenIsTrue <=> LampShowsMotor /\ ShownTrack
  BY DEF ScreenIsTrue
<1>2. QED
  BY <1>1, LampIsRight, ShownTrackIsNear, PTL

-----------------------------------------------------------------------------
\* What a step may do to a disk, see OnlyTurningDiskWritten.
WritesTurningDisk ==
  \A d \in Drives : (disk[d] # "modified" /\ disk'[d] = "modified") =>
    /\ d = current' /\ (motorOn \/ motorOn') /\ write' /\ disk[d] = "clean"

\* A motor that turns without having turned before has no stop pending, so it
\* still turns after its own tick.
LEMMA RunTickWrites ==
  ASSUME TypeOK, NEW d \in Drives, NEW on \in BOOLEAN, NEW pend, NEW wr,
         NEW arms, NEW scr,
         RunTick(d, on, pend, wr, arms, scr), current' = d, write' = wr,
         on => (motorOn \/ pend = 0)
  PROVE  WritesTurningDisk
<1> SUFFICES ASSUME NEW e \in Drives,
                    disk[e] # "modified", disk'[e] = "modified"
             PROVE  /\ e = current' /\ (motorOn \/ motorOn') /\ write'
                    /\ disk[e] = "clean"
  BY DEF WritesTurningDisk
<1>1. disk' # disk
  OBVIOUS
<1>2. MayWrite(on, wr, d) /\ disk' = [disk EXCEPT ![d] = "modified"]
  BY <1>1 DEF RunTick
<1>3. e = d
  BY <1>2 DEF TypeOK
<1>4. motorOn \/ motorOn'
  <2>1. on /\ motorOn' = (on /\ pend # 1)
    BY <1>2 DEF MayWrite, RunTick
  <2>2. pend = 0 => pend # 1
    OBVIOUS
  <2>3. QED
    BY <2>1, <2>2
<1>5. QED
  BY <1>2, <1>3, <1>4 DEF MayWrite

LEMMA AccessWrites ==
  ASSUME TypeOK, NEW d \in Drives, NEW on \in BOOLEAN, NEW pend, NEW ld, NEW wr,
         NEW arms, NEW scr, Access(d, on, pend, ld, wr, arms, scr),
         on => (motorOn \/ pend = 0)
  PROVE  WritesTurningDisk
<1> DEFINE drawn == IF wr /\ ~ld THEN SetDirty(scr, d, TRUE) ELSE scr
<1>1. RunTick(d, on, pend, wr, arms, drawn) /\ current' = d /\ write' = wr
  BY DEF Access
<1> HIDE DEF drawn
<1>2. QED
  BY <1>1, RunTickWrites

LEMMA NextWrites == TypeOK /\ [Next]_vars => WritesTurningDisk
<1> SUFFICES ASSUME TypeOK, [Next]_vars PROVE WritesTurningDisk
  OBVIOUS
<1>1. current \in Drives /\ motorOn \in BOOLEAN
  BY DEF TypeOK
<1>2. CASE Phase
  BY <1>1, <1>2, AccessWrites DEF Phase
<1>3. ASSUME NEW on \in BOOLEAN, MotorSwitch(on) \/ LoadSwitch(on) \/ WriteSwitch(on)
      PROVE  WritesTurningDisk
  <2>1. CASE MotorSwitch(on)
    <3>1. (on \/ motorOn) \in BOOLEAN /\ ((on \/ motorOn) => (motorOn \/ (IF on THEN 0 ELSE OffDelay) = 0))
      OBVIOUS
    <3>2. QED
      BY <1>1, <2>1, <3>1, AccessWrites DEF MotorSwitch
  <2>2. CASE LoadSwitch(on) \/ WriteSwitch(on)
    BY <1>1, <2>2, AccessWrites DEF LoadSwitch, WriteSwitch
  <2>3. QED
    BY <1>3, <2>1, <2>2
<1>4. ASSUME NEW d \in Drives, Select(d)
      PROVE  WritesTurningDisk
  BY <1>1, <1>4, AccessWrites DEF Select
<1>5. CASE SlotsTick
  <2>1. CASE ioStepped
    BY <1>5, <2>1 DEF SlotsTick, WritesTurningDisk
  <2>2. CASE ~ioStepped
    <3>1. /\ RunTick(current, motorOn, pendingTicks, write, arm, gui)
          /\ current' = current /\ write' = write
      BY <1>5, <2>2 DEF SlotsTick, control
    <3>2. QED
      BY <1>1, <3>1, RunTickWrites
  <2>3. QED
    BY <2>1, <2>2
<1>6. CASE OtherCpuCycle \/ Reset \/ UNCHANGED vars
  BY <1>6 DEF OtherCpuCycle, Reset, vars, WritesTurningDisk
<1>7. ASSUME NEW d \in Drives, LoadDisk(d) \/ UnloadDisk(d) \/ SaveDisk(d)
      PROVE  WritesTurningDisk
  <2>1. /\ LoadDisk(d) => \E contents \in {"none", "clean", "protected"} :
                             disk' = [disk EXCEPT ![d] = contents]
        /\ UnloadDisk(d) => disk' = [disk EXCEPT ![d] = "none"]
        /\ SaveDisk(d) => disk' = [disk EXCEPT ![d] = IF disk[d] = "modified"
                                                     THEN "clean" ELSE disk[d]]
    BY DEF LoadDisk, UnloadDisk, SaveDisk, Command
  <2>2. PICK contents : disk' = [disk EXCEPT ![d] = contents] /\ contents # "modified"
    BY <1>7, <2>1
  <2>3. QED
    BY <2>1, <2>2 DEF TypeOK, WritesTurningDisk
<1>8. QED
  BY <1>2, <1>3, <1>4, <1>5, <1>6, <1>7 DEF Next, Cycle, Io, Operator

\* The program changes no disk but the one that is turning under the head of
\* the selected drive, in write mode and not write-protected.
THEOREM OnlyTurningDiskIsWritten == Spec => OnlyTurningDiskWritten
<1>1. TypeOK /\ [Next]_vars => [WritesTurningDisk]_vars
  BY NextWrites
<1>2. Spec => [][WritesTurningDisk]_vars
  BY <1>1, TypeCorrect, PTL DEF Spec
<1>3. QED
  BY <1>2 DEF WritesTurningDisk, OnlyTurningDiskWritten
=============================================================================
