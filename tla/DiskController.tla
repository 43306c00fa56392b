--------------------------- MODULE DiskController ---------------------------
(***************************************************************************)
(* The Disk ][ controller card with its two drives (diskcontroller.cpp,    *)
(* drivemotor.cpp, drive.cpp) and what it draws on its line of the screen  *)
(* (screenimage.cpp).                                                      *)
(*                                                                         *)
(* A machine cycle is two steps, in the order of Apple2::tick: the CPU,    *)
(* which may access one of the card's sixteen switches, and the tick of    *)
(* the slots.  An access runs the card's own tick at once, because the     *)
(* sequencer has to work between setting a switch and reading the data     *)
(* register, and flags that for the tick of the slots.  The operator's     *)
(* commands are handled by the event loop between two cycles.              *)
(*                                                                         *)
(* Abstracted: what the sequencer writes (in write mode a step may or may  *)
(* not write a bit, see stepLss), the bits on a disk (a disk is clean or   *)
(* modified), and the way of the arm (after its delay it moves by at most  *)
(* one track, which is what StepperMotor's three quarter tracks allow).    *)
(***************************************************************************)
EXTENDS Integers

CONSTANTS
  OffDelay,   \* ticks the motor runs on after it is switched off (1.2 s)
  Inertia,    \* ticks before the arm answers a phase switch (1000)
  LastTrack   \* highest track of a drive (39)

ASSUME ControllerAssumption ==
  /\ OffDelay \in Nat \ {0}
  /\ Inertia \in Nat \ {0}
  /\ LastTrack \in Nat \ {0}

VARIABLES
  current,       \* the drive that is selected, 0 or 1
  load,          \* Q6
  write,         \* Q7
  ioStepped,     \* the card's tick has run in io() already
  motorOn,       \* the one motor the drives share
  pendingTicks,  \* ticks until it stops, 0 when no stop is pending
  disk,          \* what is in each drive
  arm,           \* of each drive, the delay that is running and the track
  gui,           \* the screen: of each drive, lamp, asterisk and track shown
  step,          \* which half of the machine cycle comes next
  lssSteps,      \* history: times the sequencer ran in this cycle
  offAsked       \* history: the motor was switched off after it was last on

control == <<current, load, write>>
motor   == <<motorOn, pendingTicks>>
vars == <<current, load, write, ioStepped, motorOn, pendingTicks, disk, arm,
          gui, step, lssSteps, offAsked>>

Drives == {0, 1}
Other(d) == 1 - d
Tracks == 0 .. LastTrack
Blank  == LastTrack + 1            \* no track is shown
Disks  == {"none", "protected", "clean", "modified"}

Neighbours(t) == {u \in Tracks : u - t \in -1 .. 1}

TypeOK ==
  /\ current \in Drives
  /\ load \in BOOLEAN /\ write \in BOOLEAN /\ ioStepped \in BOOLEAN
  /\ motorOn \in BOOLEAN /\ pendingTicks \in 0 .. OffDelay
  /\ disk \in [Drives -> Disks]
  /\ arm \in [Drives -> [pending : 0 .. Inertia, track : Tracks]]
  /\ gui \in [Drives -> [lamp : BOOLEAN, star : BOOLEAN, track : Tracks \cup {Blank}]]
  /\ step \in {"cpu", "slots"}
  /\ lssSteps \in Nat
  /\ offAsked \in BOOLEAN

-----------------------------------------------------------------------------
Init ==
  /\ current = 0
  /\ load = FALSE /\ write = FALSE /\ ioStepped = FALSE
  /\ motorOn = FALSE /\ pendingTicks = 0
  /\ disk = [d \in Drives |-> "none"]
  /\ arm = [d \in Drives |-> [pending |-> 0, track |-> LastTrack \div 2]]
  /\ gui = [d \in Drives |-> [lamp |-> FALSE, star |-> FALSE, track |-> Blank]]
  /\ step = "cpu" /\ lssSteps = 0 /\ offAsked = FALSE

-----------------------------------------------------------------------------
(* The parts of the screen's line for one drive.                           *)

Drawn(scr, d, on, track) ==
  [scr EXCEPT ![d] = [lamp |-> on, star |-> @.star, track |-> track]]

ClearCurrentDrive(scr, d) == Drawn(scr, d, FALSE, Blank)

SetCurrentDrive(scr, d, on) == Drawn(scr, d, on, arm[d].track)

SetDirty(scr, d, dirty) == [scr EXCEPT ![d].star = dirty]

-----------------------------------------------------------------------------
(* The card's tick, on the values the switch has just set.                 *)

\* The stepper of the drive that is selected; the other drive's delay stands
\* still until it is selected again.
ArmTicked(arms, d) ==
  IF arms[d].pending = 0 THEN {arms}
  ELSE IF arms[d].pending > 1
  THEN {[arms EXCEPT ![d].pending = @ - 1]}
  ELSE {[arms EXCEPT ![d] = [pending |-> 0, track |-> t]] :
          t \in Neighbours(arms[d].track)}

\* FAULT: writes reach the drive whether the motor turns or not.
MayWriteStopped(on, wr, d) == wr /\ disk[d] \in {"clean", "modified"}

\* Two sequencer steps may write a bit: in write mode, on a turning disk that
\* is there and not protected.
MayWrite(on, wr, d) == on /\ wr /\ disk[d] \in {"clean", "modified"}

\* The count of this cycle; a new cycle starts with the CPU.
StepsSoFar == IF step = "cpu" THEN 0 ELSE lssSteps

\* FAULT: the delay runs out without stopping the motor.
RunTickNeverStops(d, on, pend, wr, arms, scr) ==
  /\ arm' \in ArmTicked(arms, d)
  /\ gui' = [scr EXCEPT ![d].lamp = on]
  /\ motorOn' = on
  /\ pendingTicks' = IF on /\ pend > 0 THEN pend - 1 ELSE pend
  /\ disk' \in {disk} \cup (IF MayWrite(on, wr, d)
                            THEN {[disk EXCEPT ![d] = "modified"]} ELSE {})
  /\ lssSteps' = StepsSoFar + (IF on THEN 1 ELSE 0)

\* With the motor off only the stepper and the lamp are served.  The lamp shows
\* the motor as it was before its own tick.  The sequencer runs after that tick
\* and writes to the drive directly (DiskController::writeBit, which looks at the
\* motor, has no caller), so it also works in the tick that stops the motor.
RunTick(d, on, pend, wr, arms, scr) ==
  /\ arm' \in ArmTicked(arms, d)
  /\ gui' = [scr EXCEPT ![d].lamp = on]
  /\ motorOn' = (on /\ pend # 1)
  /\ pendingTicks' = IF on /\ pend > 0 THEN pend - 1 ELSE pend
  /\ disk' \in {disk} \cup (IF MayWrite(on, wr, d)
                            THEN {[disk EXCEPT ![d] = "modified"]} ELSE {})
  /\ lssSteps' = StepsSoFar + (IF on THEN 1 ELSE 0)

-----------------------------------------------------------------------------
(* The switches.  Each Q... action below is what io() does for one of them *)
(* before its common tail Access.                                          *)

\* FAULT: the flag for the tick of the slots is not raised.
AccessNotFlagged(d, on, pend, ld, wr, arms, scr) ==
  /\ step = "cpu"
  /\ RunTick(d, on, pend, wr, arms, IF wr /\ ~ld THEN SetDirty(scr, d, TRUE) ELSE scr)
  /\ ioStepped' = FALSE
  /\ step' = "slots"
  /\ current' = d /\ load' = ld /\ write' = wr

\* Raise the asterisk when the card writes, run the tick, and flag that.
Access(d, on, pend, ld, wr, arms, scr) ==
  /\ step = "cpu"
  /\ RunTick(d, on, pend, wr, arms, IF wr /\ ~ld THEN SetDirty(scr, d, TRUE) ELSE scr)
  /\ ioStepped' = TRUE
  /\ step' = "slots"
  /\ current' = d /\ load' = ld /\ write' = wr

\* FAULT: a phase switch does not show the track.
PhaseNotShown ==
  /\ Access(current, motorOn, pendingTicks, load, write,
            [arm EXCEPT ![current].pending = Inertia], gui)
  /\ UNCHANGED offAsked

\* Q0 to Q3: switch a phase of the drive that is selected, show its track as
\* it is before the arm moves.
Phase ==
  /\ Access(current, motorOn, pendingTicks, load, write,
            [arm EXCEPT ![current].pending = Inertia],
            [gui EXCEPT ![current].track = arm[current].track])
  /\ UNCHANGED offAsked

\* FAULT: switching the motor on forgets the stop that is pending.
MotorSwitchKeepsStop(on) ==
  /\ Access(current, on \/ motorOn, IF on THEN pendingTicks ELSE OffDelay,
            load, write, arm, gui)
  /\ offAsked' = ~on

\* Q4: on cancels a stop that is pending; off only starts, or restarts, the
\* delay, also when the motor is off already.
MotorSwitch(on) ==
  /\ Access(current, on \/ motorOn, IF on THEN 0 ELSE OffDelay,
            load, write, arm, gui)
  /\ offAsked' = ~on

\* Q5: select a drive.  The motor keeps turning, now in the other drive.
Select(d) ==
  /\ Access(d, motorOn, pendingTicks, load, write, arm,
            SetCurrentDrive(ClearCurrentDrive(gui, current), d, motorOn))
  /\ UNCHANGED offAsked

\* Q6 and Q7: the inputs of the sequencer.
LoadSwitch(on) ==
  /\ Access(current, motorOn, pendingTicks, on, write, arm, gui)
  /\ UNCHANGED offAsked

WriteSwitch(on) ==
  /\ Access(current, motorOn, pendingTicks, load, on, arm, gui)
  /\ UNCHANGED offAsked

\* A cycle of the CPU that leaves the card alone.
OtherCpuCycle ==
  /\ step = "cpu"
  /\ step' = "slots"
  /\ lssSteps' = 0
  /\ UNCHANGED <<control, ioStepped, motor, disk, arm, gui, offAsked>>

Io ==
  \/ Phase
  \/ \E on \in BOOLEAN : MotorSwitch(on) \/ LoadSwitch(on) \/ WriteSwitch(on)
  \/ \E d \in Drives : Select(d)

-----------------------------------------------------------------------------
\* The tick of the slots.  The stepper is ticked here even after io() ticked
\* it; everything else is skipped then.
SlotsTick ==
  /\ step = "slots"
  /\ IF ioStepped
     THEN /\ arm' \in ArmTicked(arm, current)
          /\ UNCHANGED <<motor, disk, gui, lssSteps>>
     ELSE RunTick(current, motorOn, pendingTicks, write, arm, gui)
  /\ ioStepped' = FALSE
  /\ step' = "cpu"
  /\ UNCHANGED <<control, offAsked>>

-----------------------------------------------------------------------------
(* What the event loop calls between two cycles.                           *)

\* The RESET key, or the reset at power up: select drive 1 and stop the motor
\* at once.  Q6, Q7 and a stop that is pending stay as they are.
Reset ==
  /\ step = "cpu"
  /\ current' = 0
  /\ motorOn' = FALSE
  /\ gui' = SetCurrentDrive(ClearCurrentDrive(gui, current), 0, FALSE)
  /\ UNCHANGED <<load, write, ioStepped, pendingTicks, disk, arm, step, lssSteps, offAsked>>

\* All three commands draw the asterisk of the drive that is selected,
\* whichever drive they are for.
Command(d, contents, scr) ==
  /\ step = "cpu"
  /\ disk' = [disk EXCEPT ![d] = contents]
  /\ gui' = scr
  /\ UNCHANGED <<control, ioStepped, motor, arm, step, lssSteps, offAsked>>

\* A file that opens takes the place of the disk in the drive.  When it proves
\* not to be a WOZ image the drive is left empty and the screen as it is.  (A
\* file that does not open changes nothing.)
LoadDisk(d) ==
  \/ Command(d, "none", gui)
  \/ \E contents \in {"clean", "protected"} :
       Command(d, contents, SetDirty(gui, current, FALSE))

UnloadDisk(d) == Command(d, "none", SetDirty(gui, current, FALSE))

SaveDisk(d) ==
  Command(d, IF disk[d] = "modified" THEN "clean" ELSE disk[d],
          SetDirty(gui, current, FALSE))

Operator == Reset \/ \E d \in Drives : LoadDisk(d) \/ UnloadDisk(d) \/ SaveDisk(d)

-----------------------------------------------------------------------------
Cycle == OtherCpuCycle \/ Io \/ SlotsTick

Next == Cycle \/ Operator

Spec == Init /\ [][Next]_vars

\* While the computer is on, Emulator::run ticks it for ever, whatever the
\* operator does; nothing is assumed of the operator, nor of which switches
\* the program accesses.
FairSpec == Spec /\ WF_vars(Cycle)

-----------------------------------------------------------------------------
(* Properties.                                                             *)

\* A turning motor is shown by the lamp of the drive it turns, and by no other
\* lamp, through every selection, reset and delayed stop.
LampShowsMotor ==
  /\ motorOn => gui[current].lamp
  /\ ~gui[Other(current)].lamp

\* Only the selected drive shows a track: the track its arm is on or, when the
\* arm has answered a phase switch since, the one it came from next to it.
ShownTrack ==
  /\ gui[Other(current)].track = Blank
  /\ gui[current].track # Blank =>
       IF arm[current].pending > 0
       THEN gui[current].track = arm[current].track
       ELSE gui[current].track \in Neighbours(arm[current].track)

\* The lamps and the track on the screen, copies of the state of the hardware
\* that are redrawn here and there, agree with it.
ScreenIsTrue == LampShowsMotor /\ ShownTrack

\* The handshake between io() and tick(): in every machine cycle the sequencer
\* and the disk advance once when the motor is on, by the access or by the tick
\* of the slots, never by both and never by neither.
OneStepPerCycle ==
  /\ lssSteps <= 1
  /\ (step = "cpu" /\ motorOn) => lssSteps = 1

\* A turning motor has a stop pending exactly when it was switched off since it
\* was last switched on: no old stop, from before a reset or a new start, ever
\* stops it, and a stop that was asked for is never forgotten.
StopPendingIfAsked == motorOn => (offAsked <=> pendingTicks > 0)

\* The program can only change the disk that is turning: the drive selected,
\* with the motor on in this cycle, if only in the tick that stops it, in write
\* mode, not write-protected.
OnlyTurningDiskWritten ==
  [][\A d \in Drives : (disk[d] # "modified" /\ disk'[d] = "modified") =>
       /\ d = current' /\ (motorOn \/ motorOn') /\ write' /\ disk[d] = "clean"]_vars

\* When the program has stopped using the motor switch, a motor that was
\* switched off stops for good.
MotorStops ==
  <>[][~\E on \in BOOLEAN : MotorSwitch(on)]_vars => <>[](~(motorOn /\ offAsked))

\* The user's manual (docs/usermanual.md:249 to 251): the emulator displays an
\* asterisk next to a disk image that has unsaved changes.
AsteriskIfUnsaved ==
  \A d \in Drives : disk[d] = "modified" => gui[d].star
=============================================================================
