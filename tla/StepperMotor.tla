---------------------------- MODULE StepperMotor ----------------------------
(***************************************************************************)
(* The head positioning of one Disk ][ drive: the stepper motor with its   *)
(* two cans and its rotor, the magnetic field the cans build, and the      *)
(* read/write head the rotor drags along (disk2steppermotor.cpp,           *)
(* disk2steppermotorcan.cpp, disk2steppermotorrotor.cpp, magneticfield.cpp *)
(* and disk2readwritehead.cpp).                                            *)
(*                                                                         *)
(* The program being emulated switches the four phases at any time; the    *)
(* arm answers ArmInertia ticks after the last switch.  The rotor has      *)
(* eight positions, one per quarter track, the head C_POSITION of them.    *)
(***************************************************************************)
EXTENDS Integers, Sequences

CONSTANTS
  ArmInertia,  \* ticks between the last phase switch and the movement (1000)
  C_POSITION   \* quarter-track positions of the head (160)

\* The head starts in the middle of its travel with the rotor at 0, so half
\* the travel has to be a whole number of rotor turns; 160 is.
ASSUME StepperAssumption ==
  /\ ArmInertia \in Nat \ {0}
  /\ C_POSITION \in Nat \ {0}
  /\ C_POSITION % 16 = 0

VARIABLES
  lead,      \* the four phase inputs: can p % 2, its north or south lead
  field,     \* the magnetic field: [on, pos], pos kept while it is off
  pending,   \* ticks left before the rotor answers, 0 when nothing is pending
  rotor,     \* rotor position, 0 .. 7
  head       \* head position, in quarter tracks

motorVars == <<lead, field, pending, rotor, head>>

Phases == 0 .. 3
Cans   == 0 .. 1
RotorPositions == 0 .. 7
HeadPositions  == 0 .. C_POSITION - 1

MotorTypeOK ==
  /\ lead \in [Phases -> BOOLEAN]
  /\ field \in [on : BOOLEAN, pos : RotorPositions]
  /\ pending \in 0 .. ArmInertia
  /\ rotor \in RotorPositions
  /\ head \in HeadPositions

-----------------------------------------------------------------------------
(* The cans: phases 0 and 2 feed the north and south lead of can 0, phases *)
(* 1 and 3 those of can 1.                                                 *)

Charge(l, can) == (IF l[can] THEN 1 ELSE 0) - (IF l[can + 2] THEN 1 ELSE 0)

CanMagnetized(l, can) == Charge(l, can) # 0

CanPosition(l, can) == 2 * (can + (IF Charge(l, can) < 0 THEN 2 ELSE 0))

Magnetized(l) == \E can \in Cans : CanMagnetized(l, can)

\* Where the field of both cans pulls: the middle of the two poles, position
\* 7 at the seam between 6 and 0, or the pole of the only can that is on.
MagneticPosition(l) ==
  IF CanMagnetized(l, 0) /\ CanMagnetized(l, 1)
  THEN IF CanPosition(l, 1) = 6 /\ CanPosition(l, 0) = 0
       THEN 7
       ELSE (CanPosition(l, 0) + CanPosition(l, 1)) \div 2
  ELSE IF CanMagnetized(l, 0) THEN CanPosition(l, 0) ELSE CanPosition(l, 1)

BuildMagneticField(l) ==
  IF Magnetized(l) THEN [on |-> TRUE, pos |-> MagneticPosition(l)]
                   ELSE [field EXCEPT !.on = FALSE]

-----------------------------------------------------------------------------
(* The rotor: the shorter way round to a new position; none to the         *)
(* opposite one, which pulls both ways alike.                              *)

CyclicMotion(x) ==
  LET m == ((x + 4) % 8) - 4 IN IF m = -4 THEN 0 ELSE m

Motion == CyclicMotion(field.pos - rotor)

\* The head refuses a movement past either end, and then the rotor stays.
MoveBy(delta) == head + delta \in HeadPositions

\* FAULT: the rotor turns although the head has hit an end.
RotateToUnchecked ==
  IF field.on
  THEN /\ head'  = IF MoveBy(Motion) THEN head + Motion ELSE head
       /\ rotor' = (rotor + Motion) % 8
  ELSE UNCHANGED <<head, rotor>>

\* FAULT: at an end of the travel the arm goes as far as it can.
RotateToAsFar ==
  IF field.on
  THEN /\ head'  = IF head + Motion < 0 THEN 0
                   ELSE IF MoveBy(Motion) THEN head + Motion ELSE C_POSITION - 1
       /\ rotor' = head' % 8
  ELSE UNCHANGED <<head, rotor>>

RotateTo ==
  IF field.on /\ Motion # 0 /\ MoveBy(Motion)
  THEN /\ head'  = head + Motion
       /\ rotor' = (rotor + Motion) % 8
  ELSE UNCHANGED <<head, rotor>>

-----------------------------------------------------------------------------
MotorInit ==
  /\ lead = [p \in Phases |-> FALSE]
  /\ field = [on |-> FALSE, pos |-> 0]
  /\ pending = 0
  /\ rotor = 0
  /\ head = C_POSITION \div 2

\* FAULT: only the first of a series of switches starts the delay.
SetPhaseNoRestart(p, on) ==
  /\ lead' = [lead EXCEPT ![p] = on]
  /\ field' = BuildMagneticField(lead')
  /\ pending' = IF Magnetized(lead) THEN pending ELSE ArmInertia
  /\ UNCHANGED <<rotor, head>>

\* The program switches a phase; every switch restarts the delay, even one
\* that changes nothing.
SetPhase(p, on) ==
  /\ lead' = [lead EXCEPT ![p] = on]
  /\ field' = BuildMagneticField(lead')
  /\ pending' = ArmInertia
  /\ UNCHANGED <<rotor, head>>

\* One tick of the drive.  With nothing pending it changes nothing.
MotorTick ==
  /\ pending > 0
  /\ pending' = pending - 1
  /\ IF pending' = 0 THEN RotateTo ELSE UNCHANGED <<rotor, head>>
  /\ UNCHANGED <<lead, field>>

MotorNext ==
  \/ \E p \in Phases, on \in BOOLEAN : SetPhase(p, on)
  \/ MotorTick

MotorSpec == MotorInit /\ [][MotorNext]_motorVars

\* The clock of the machine never stops, so the drive that is selected is
\* ticked for ever; nothing is assumed of the program that switches phases.
FairMotorSpec == MotorSpec /\ WF_motorVars(MotorTick)

-----------------------------------------------------------------------------
(* Properties.                                                             *)

\* The head and the rotor keep in step: rotate_to moves both or neither, so
\* the quarter track under the head always tells the position of the rotor.
\* A stop at an end of the travel that let the rotor turn would break it for
\* the rest of the session.
HeadFollowsRotor == head % 8 = rotor

\* Once the delay has passed with a field on, the head is in line with the
\* pole, exactly opposite to it, or held back by an end of its travel.
Settled ==
  (pending = 0 /\ field.on) =>
    \/ head % 8 = field.pos
    \/ head % 8 = (field.pos + 4) % 8
    \/ head < 3
    \/ head > C_POSITION - 4

\* The motor implements the abstract positioner.
NoPole == 8
Positioner == INSTANCE HeadPositioner WITH
  pole <- IF field.on THEN field.pos ELSE NoPole,
  arm <- head
ImplementsPositioner == Positioner!Spec
=============================================================================
