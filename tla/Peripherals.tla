----------------------------- MODULE Peripherals -----------------------------
(***************************************************************************)
(* What a program has at hand besides memory, keyboard, disk and tape: the *)
(* paddles that the mouse emulates (paddles.cpp), the speaker              *)
(* (speakerclicker.cpp), the clock card (clockcard.cpp) and the card for   *)
(* standard output (standardout.cpp); and the motor of a Disk ][ (one      *)
(* drive, drivemotor.cpp) and the paddles' timers in a machine whose power *)
(* is switched (Emulator, Apple2, PowerUpReset).                           *)
(***************************************************************************)
EXTENDS Integers, Sequences

CONSTANTS
  OffDelay,      \* cycles the motor runs on, AVG_CPU_HZ * 1.2
  PowerUpTicks,  \* cycles until the power-up reset, AVG_CPU_HZ * .3
  Reference,     \* the timer of paddle 2, AVG_CPU_HZ / 10000; paddle 3 is left out
  TicksPerSample \* cycles of a sample of the speaker, 50

-----------------------------------------------------------------------------
(* The machine m: whether it is the ticked object, the cycles to its       *)
(* power-up reset, its revision, the motor, the timers of the paddles 0 to *)
(* 2, and whether the processor has had a reset since power on.            *)

NewMachine(revision) ==
  [powered |-> FALSE, delay |-> 0, revision |-> revision, running |-> FALSE,
   on |-> FALSE, pendingTicks |-> 0, timer |-> [paddle \in 0 .. 2 |-> 0]]

\* Paddles::tryStartPaddleTimers, the place of the mouse on one axis as cycles:
\* (int)((x-0)/(500-0)*PADDLE_CYCLES+.5).
PaddleCycles(x) == (x * 2805 + 250) \div 500

\* Paddles::isTimedOut.
IsTimedOut(m, paddle) == m.timer[paddle] <= 0

\* FAULT: a running timer starts again.
StartTimersAgain(m, mouse) ==
  [m EXCEPT !.timer = [paddle \in 0 .. 2 |-> IF paddle = 2 THEN Reference ELSE mouse[paddle + 1]]]

\* Paddles::startTimers, with the cycles that the mouse stands for; a timer that
\* runs is left alone.
StartTimers(m, mouse) ==
  [m EXCEPT !.timer = [paddle \in 0 .. 2 |->
     IF ~IsTimedOut(m, paddle) THEN @[paddle]
     ELSE IF paddle = 2 THEN Reference ELSE mouse[paddle + 1]]]

\* Paddles::tick.
PaddlesTick(m) ==
  [m EXCEPT !.timer = [paddle \in 0 .. 2 |-> IF @[paddle] > 0 THEN @[paddle] - 1 ELSE @[paddle]]]

\* DriveMotor::power.
MotorPower(m, on) ==
  IF on THEN [m EXCEPT !.on = TRUE, !.pendingTicks = 0] ELSE [m EXCEPT !.pendingTicks = OffDelay]

\* DriveMotor::tick, which DiskController::tick calls while it is on.
MotorTick(m) ==
  IF m.on /\ m.pendingTicks > 0
  THEN [m EXCEPT !.pendingTicks = @ - 1, !.on = m.pendingTicks > 1] ELSE m

\* Apple2::reset, with DriveMotor::reset: a stop that was pending stays so.
ResetAll(m) == [m EXCEPT !.running = m.powered, !.on = FALSE]

\* Apple2::tick: slots, paddles, and from revision 1 on PowerUpReset::tick.
MachineTick(m) ==
  LET ticked == PaddlesTick(MotorTick(m))
      counts == m.revision > 0 /\ m.delay > 0
      counted == IF counts THEN [ticked EXCEPT !.delay = @ - 1] ELSE ticked
  IN  IF counts /\ counted.delay = 0 THEN ResetAll(counted) ELSE counted

\* Emulator::toggleComputerPower: power on starts the delay, power off leaves
\* slots and paddles as they are.
TogglePower(m) ==
  IF m.powered THEN [m EXCEPT !.powered = FALSE, !.running = FALSE]
  ELSE [m EXCEPT !.powered = TRUE, !.delay = PowerUpTicks]

-----------------------------------------------------------------------------
(* The speaker s: cycles left to the next sample, whether it was clicked,  *)
(* the side of the last click, and the samples queued, as 1, 0 or -1.      *)

NewSpeaker == [t |-> TicksPerSample, clicked |-> FALSE, positive |-> FALSE, queued |-> <<>>]

Click(s) == [s EXCEPT !.clicked = TRUE]

\* SpeakerClicker::tick, with a device.
SpeakerTick(s) ==
  IF s.t > 1 THEN [s EXCEPT !.t = @ - 1]
  ELSE [s EXCEPT !.t = TicksPerSample, !.clicked = FALSE, !.positive = @ # s.clicked,
                 !.queued = Append(@, IF ~s.clicked THEN 0 ELSE IF s.positive THEN 1 ELSE -1)]

-----------------------------------------------------------------------------
(* The clock card k: its latch, as the character and the bit on top, the   *)
(* place in the time of day as text, and that text.                        *)

NewClock == [char |-> 0, top |-> FALSE, pos |-> 0, time |-> <<>>]

\* ClockCard::io of its first switch, with getTime: the text that strftime makes.
ClockRead(k, now) ==
  IF k.top THEN k
  ELSE LET time == IF k.pos = 0 THEN now ELSE k.time
       IN  [char |-> time[k.pos + 1], top |-> TRUE, time |-> time,
            pos |-> IF k.pos + 1 >= Len(time) THEN 0 ELSE k.pos + 1]

\* ClockCard::io of its second switch.
ClockNext(k) == [k EXCEPT !.top = FALSE]

-----------------------------------------------------------------------------
\* StandardOut::io, as what is printed: the top bit is dropped, a return ends the
\* line. A read prints nothing.
PrintedBy(data, writing) ==
  IF ~writing THEN <<>> ELSE IF data % 128 = 13 THEN <<"line ends">> ELSE <<data % 128>>
=============================================================================
