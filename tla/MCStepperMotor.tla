--------------------------- MODULE MCStepperMotor ---------------------------
(***************************************************************************)
(* StepperMotor for TLC: the whole travel of the head, a short delay.      *)
(* And Disk2StepperMotor::test of disk2steppermotor.cpp, the only unit     *)
(* test of the repository that looks at the drive: from twelve settings of *)
(* the phases to sixteen, how far the rotor turns.  Its table is checked   *)
(* against the operators of StepperMotor, which the model of the motor is  *)
(* made of.  The test's own head, SpyMovable, may move without an end.     *)
(***************************************************************************)
EXTENDS StepperMotor

\* phase: the settings, a bit for each phase; the test starts from the first 12.
Settings == <<9, 8, 13, 12, 4, 14, 6, 2, 7, 3, 1, 11, 0, 5, 10, 15>>

\* move: one row for each setting to start from, one column for each to go to.
Moves == <<
  << 0, -1, -1, -2, -3, -3,  0,  3,  3,  2,  1,  1, 0, 0, 0, 0>>,
  << 1,  0,  0, -1, -2, -2, -3,  0,  0,  3,  2,  2, 0, 0, 0, 0>>,
  << 1,  0,  0, -1, -2, -2, -3,  0,  0,  3,  2,  2, 0, 0, 0, 0>>,
  << 2,  1,  1,  0, -1, -1, -2, -3, -3,  0,  3,  3, 0, 0, 0, 0>>,
  << 3,  2,  2,  1,  0,  0, -1, -2, -2, -3,  0,  0, 0, 0, 0, 0>>,
  << 3,  2,  2,  1,  0,  0, -1, -2, -2, -3,  0,  0, 0, 0, 0, 0>>,
  << 0,  3,  3,  2,  1,  1,  0, -1, -1, -2, -3, -3, 0, 0, 0, 0>>,
  <<-3,  0,  0,  3,  2,  2,  1,  0,  0, -1, -2, -2, 0, 0, 0, 0>>,
  <<-3,  0,  0,  3,  2,  2,  1,  0,  0, -1, -2, -2, 0, 0, 0, 0>>,
  <<-2, -3, -3,  0,  3,  3,  2,  1,  1,  0, -1, -1, 0, 0, 0, 0>>,
  <<-1, -2, -2, -3,  0,  0,  3,  2,  2,  1,  0,  0, 0, 0, 0, 0>>,
  <<-1, -2, -2, -3,  0,  0,  3,  2,  2,  1,  0,  0, 0, 0, 0, 0>> >>

\* set_phases_to: all four leads, faster than the arm answers.
SetPhasesTo(p) == [phase \in Phases |-> (p \div 2 ^ phase) % 2 = 1]

\* advance: 1007 ticks, by which the rotor has answered; how far it turns.
Advance(position, l) ==
  IF Magnetized(l) THEN CyclicMotion(MagneticPosition(l) - position) ELSE 0

\* test_move; a setting opposite to 0, where a new motor stands, is reached
\* from the place between the first two phases.
TestMove(from, to) ==
  LET nudged == IF from \in {4, 14} THEN Advance(0, SetPhasesTo(3)) ELSE 0
      start  == (nudged + Advance(nudged, SetPhasesTo(from))) % 8
  IN  Advance(start, SetPhasesTo(to))

ASSUME Test ==
  \A i \in DOMAIN Moves : \A j \in DOMAIN Settings :
    TestMove(Settings[i], Settings[j]) = Moves[i][j]
=============================================================================
