---------------------------- MODULE PeripheralCases ----------------------------
(***************************************************************************)
(* A machine whose program and operator do anything to the motor, the      *)
(* paddles, the power and the reset, at any time; clicks at the boundaries *)
(* of samples; and readings of a clock that goes on.                       *)
(***************************************************************************)
EXTENDS Peripherals, SequencesExt

\* Cycles of the mouse: at the end of its way, at the start, and between.
Mouse == {0, 1, 3}

\* History: for each paddle, what was asked of it when it had last timed out and
\* the cycles since then; and whether the program switched the motor on since the
\* last reset that it had.
FirstMachines ==
  {[fn |-> "machine", m |-> NewMachine(r), asked |-> [paddle \in 0 .. 2 |-> 0],
    since |-> [paddle \in 0 .. 2 |-> 0], spun |-> FALSE] : r \in {0, 1}}

Measured(i, paddle) == i.since[paddle] >= i.asked[paddle]

Later(i) ==
  [i EXCEPT !.since = [paddle \in 0 .. 2 |-> IF Measured(i, paddle) THEN @[paddle] ELSE @[paddle] + 1]]

Asked(i, mouse) ==
  [i EXCEPT !.asked = [paddle \in 0 .. 2 |->
                         IF ~Measured(i, paddle) THEN @[paddle]
                         ELSE IF paddle = 2 THEN Reference ELSE mouse[paddle + 1]],
            !.since = [paddle \in 0 .. 2 |-> IF Measured(i, paddle) THEN 0 ELSE @[paddle]]]

\* The program runs when the processor has had its reset; the mouse is at one of
\* the places, in cycles.
MachineStep(i, places) ==
  LET m == i.m
      ByProgram ==
        IF ~m.running THEN {}
        ELSE {[Asked(i, mouse) EXCEPT !.m = StartTimers(m, mouse)] : mouse \in places \X places}
               \cup {[i EXCEPT !.m = MotorPower(m, on), !.spun = @ \/ on] : on \in BOOLEAN}
      ByTime == IF ~m.powered THEN {}
                ELSE {[Later(i) EXCEPT !.m = MachineTick(m), !.spun = @ /\ ~(m.revision > 0 /\ m.delay = 1)]}
      ByOperator == {[i EXCEPT !.m = TogglePower(m)], [i EXCEPT !.m = ResetAll(m), !.spun = FALSE]}
  IN  ByProgram \cup ByTime \cup ByOperator

\* A timer measures what it was asked when it was last free, however often it is
\* triggered meanwhile and also when power was off between. A motor runs only
\* when a program has switched it on since the last reset of the slots: with a
\* power-up reset, one that ran when power went off is stopped.
MachineRight(i) ==
  /\ \A paddle \in 0 .. 2 : IsTimedOut(i.m, paddle) = Measured(i, paddle)
  /\ i.m.on => i.spun
  /\ i.m.on /\ i.m.revision > 0 /\ i.m.powered /\ i.m.delay = 0 => i.m.running

-----------------------------------------------------------------------------
\* Around the ends of three periods.
ClickCycles ==
  {1, 2} \cup {n * TicksPerSample : n \in 1 .. 3} \cup {n * TicksPerSample + 1 : n \in 1 .. 2}

\* What the program does with the clock card, and the clock's next second.
ClockSteps == {"read", "next", "second"}

Uses ==
  [fn : {"speaker"}, clicks : SUBSET ClickCycles]
    \cup [fn : {"clock"}, steps : [1 .. 8 -> ClockSteps]]
    \cup [fn : {"mouse"}, x : 0 .. 500]
    \cup [fn : {"printer"}, data : {0, 13, 65, 141, 193, 255}, writing : BOOLEAN]

\* The samples of three periods: a click in a period is heard, once, and on the
\* other side than the last one. The processor clicks before the speaker's tick.
SpeakerRight(i) ==
  LET Cycle(s, n) == SpeakerTick(IF n \in i.clicks THEN Click(s) ELSE s)
      samples == FoldLeft(Cycle, NewSpeaker, [n \in 1 .. 3 * TicksPerSample |-> n]).queued
      heard   == SelectSeq(samples, LAMBDA sample : sample # 0)
  IN  /\ Len(samples) = 3
      /\ \A n \in 1 .. 3 : (samples[n] # 0) = (\E cycle \in i.clicks : (cycle - 1) \div TicksPerSample = n - 1)
      /\ \A n \in DOMAIN heard : heard[n] = IF n % 2 = 1 THEN -1 ELSE 1

\* The time as two characters, both of which change with each second.
TimeText(seconds) == <<seconds, 100 + seconds>>

\* A program that reads and asks for the next character by turns gets texts that
\* are each of one second, which was the time when its first character was read.
ClockRight(i) ==
  LET Step(acc, step) ==
        CASE step = "second" -> [acc EXCEPT !.now = @ + 1]
          [] step = "next" -> [acc EXCEPT !.k = ClockNext(@)]
          [] step = "read" ->
               [acc EXCEPT !.k = ClockRead(@, TimeText(acc.now)),
                           !.got = IF acc.k.top THEN @
                                   ELSE Append(@, ClockRead(acc.k, TimeText(acc.now)).char),
                           !.at = IF acc.k.top THEN @ ELSE Append(@, acc.now)]
      done == FoldLeft(Step, [k |-> NewClock, now |-> 0, got |-> <<>>, at |-> <<>>], i.steps)
  IN  \A n \in DOMAIN done.got :
        done.got[n] = IF n % 2 = 1 THEN done.at[n] ELSE 100 + done.at[n - 1]

\* A routine that counts each eleven cycles up to 255 sees the mouse move: all of
\* its 256 numbers in the order of the places, from 0 to 255 at the end.
MouseRight(i) ==
  LET Number(x) == (PaddleCycles(x) + 5) \div 11
  IN  /\ Number(0) = 0 /\ Number(500) = 255
      /\ i.x < 500 => Number(i.x + 1) - Number(i.x) \in {0, 1}

\* Standard output has the characters of the Apple, whichever their top bit.
PrinterRight(i) ==
  LET Printed(data) == PrintedBy(data, i.writing)
  IN  /\ Printed(i.data) = Printed((i.data + 128) % 256)
      /\ (Printed(i.data) = <<>>) = ~i.writing

UsesRight(i) ==
  CASE i.fn = "speaker" -> SpeakerRight(i)
    [] i.fn = "clock"   -> ClockRight(i)
    [] i.fn = "mouse"   -> MouseRight(i)
    [] i.fn = "printer" -> PrinterRight(i)
=============================================================================
