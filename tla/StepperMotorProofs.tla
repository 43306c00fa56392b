------------------------- MODULE StepperMotorProofs -------------------------
(***************************************************************************)
(* Proofs about StepperMotor, for every delay and every length of travel   *)
(* that is a whole number of rotor turns on either side of the start.      *)
(***************************************************************************)
EXTENDS StepperMotor, TLAPS

\* The shorter way round is at most three steps and leads to the pole, unless
\* the pole is opposite or already reached and there is no movement at all.
LEMMA CyclicMotionShort ==
  ASSUME NEW from \in RotorPositions, NEW to \in RotorPositions
  PROVE  LET m == CyclicMotion(to - from)
         IN  /\ m \in -3 .. 3
             /\ m # 0 => (from + m) % 8 = to
             /\ m = 0 => to = from \/ to = (from + 4) % 8
  BY DEF CyclicMotion, RotorPositions

\* The field the cans build always has a pole position.
LEMMA FieldType ==
  ASSUME NEW l \in [Phases -> BOOLEAN], MotorTypeOK
  PROVE  BuildMagneticField(l) \in [on : BOOLEAN, pos : RotorPositions]
<1>1. \A can \in Cans : Charge(l, can) \in {-1, 0, 1}
  BY DEF Charge, Cans, Phases
<1>2. CanPosition(l, 0) \in {0, 4} /\ CanPosition(l, 1) \in {2, 6}
  BY <1>1 DEF CanPosition, Cans
<1>3. MagneticPosition(l) \in RotorPositions
  BY <1>2 DEF MagneticPosition, RotorPositions
<1>4. QED
  BY <1>3 DEF BuildMagneticField, MotorTypeOK

\* A rotation moves head and rotor together, by at most three quarter tracks,
\* into line with the pole; or neither moves.
LEMMA RotateToStep ==
  ASSUME MotorTypeOK, HeadFollowsRotor, RotateTo
  PROVE  /\ head' \in HeadPositions
         /\ rotor' \in RotorPositions
         /\ head' % 8 = rotor'
         /\ head' # head => /\ field.on
                            /\ head' % 8 = field.pos
                            /\ head' - head \in -3 .. 3
<1>1. field.pos \in RotorPositions /\ rotor \in RotorPositions /\ head \in Int
  BY StepperAssumption DEF MotorTypeOK, HeadPositions
<1>2. Motion \in -3 .. 3 /\ (Motion # 0 => (rotor + Motion) % 8 = field.pos)
  BY <1>1, CyclicMotionShort DEF Motion
<1>3. CASE field.on /\ Motion # 0 /\ MoveBy(Motion)
  <2>1. head' = head + Motion /\ rotor' = (rotor + Motion) % 8
    BY <1>3 DEF RotateTo
  <2>2. (head + Motion) % 8 = ((head % 8) + Motion) % 8
    BY <1>1, <1>2
  <2>3. QED
    BY <1>1, <1>2, <1>3, <2>1, <2>2
    DEF HeadFollowsRotor, MoveBy, RotorPositions, HeadPositions
<1>4. CASE ~(field.on /\ Motion # 0 /\ MoveBy(Motion))
  BY <1>4 DEF RotateTo, MotorTypeOK, HeadFollowsRotor
<1>5. QED
  BY <1>3, <1>4

-----------------------------------------------------------------------------
(* The inductive invariant: types, head and rotor in step, and the arm at  *)
(* rest where the field wants it.                                          *)

IInv == MotorTypeOK /\ HeadFollowsRotor /\ Settled

LEMMA InitIInv == MotorInit => IInv
<1> SUFFICES ASSUME MotorInit PROVE IInv
  OBVIOUS
<1>1. C_POSITION \div 2 \in HeadPositions /\ (C_POSITION \div 2) % 8 = 0
  BY StepperAssumption DEF HeadPositions
<1>2. MotorTypeOK
  BY <1>1, StepperAssumption DEF MotorInit, MotorTypeOK, RotorPositions
<1>3. HeadFollowsRotor /\ Settled
  BY <1>1 DEF MotorInit, HeadFollowsRotor, Settled
<1>4. QED
  BY <1>2, <1>3 DEF IInv

\* A rotation with the field on leaves the head in line with the pole, opposite
\* to it, or less than three quarter tracks from an end.
LEMMA RotateToSettles ==
  ASSUME MotorTypeOK, HeadFollowsRotor, RotateTo, field.on
  PROVE  \/ head' % 8 = field.pos
         \/ head' % 8 = (field.pos + 4) % 8
         \/ head' < 3
         \/ head' > C_POSITION - 4
<1>1. /\ field.pos \in RotorPositions /\ rotor \in RotorPositions
      /\ head \in HeadPositions /\ head % 8 = rotor
  BY DEF MotorTypeOK, HeadFollowsRotor
<1>2. /\ Motion \in -3 .. 3
      /\ Motion = 0 => field.pos = rotor \/ field.pos = (rotor + 4) % 8
  BY <1>1, CyclicMotionShort DEF Motion
<1>3. CASE Motion = 0
  <2>1. head' = head
    BY <1>3 DEF RotateTo
  <2>2. QED
    BY <1>1, <1>2, <1>3, <2>1 DEF RotorPositions
<1>4. CASE Motion # 0 /\ MoveBy(Motion)
  <2>1. head' = head + Motion
    BY <1>4 DEF RotateTo
  <2>2. head' # head
    BY <1>1, <1>2, <1>4, <2>1, StepperAssumption DEF HeadPositions
  <2>3. QED
    BY <2>2, RotateToStep
<1>5. CASE Motion # 0 /\ ~MoveBy(Motion)
  <2>1. head' = head
    BY <1>5 DEF RotateTo
  <2>2. QED
    BY <1>1, <1>2, <1>5, <2>1, StepperAssumption DEF MoveBy, HeadPositions
<1>6. QED
  BY <1>3, <1>4, <1>5

LEMMA NextIInv == IInv /\ [MotorNext]_motorVars => IInv'
<1> SUFFICES ASSUME IInv, [MotorNext]_motorVars PROVE IInv'
  OBVIOUS
<1> USE StepperAssumption DEF IInv
<1>1. ASSUME NEW p \in Phases, NEW on \in BOOLEAN, SetPhase(p, on)
      PROVE  IInv'
  <2>1. lead' \in [Phases -> BOOLEAN]
    BY <1>1 DEF SetPhase, MotorTypeOK
  <2>2. field' \in [on : BOOLEAN, pos : RotorPositions]
    BY <1>1, <2>1, FieldType DEF SetPhase
  <2>3. MotorTypeOK'
    BY <1>1, <2>1, <2>2 DEF SetPhase, MotorTypeOK
  <2>4. HeadFollowsRotor' /\ Settled'
    BY <1>1 DEF SetPhase, HeadFollowsRotor, Settled
  <2>5. QED
    BY <2>3, <2>4
<1>2. CASE MotorTick
  <2>1. pending \in 1 .. ArmInertia /\ pending' = pending - 1
    BY <1>2 DEF MotorTick, MotorTypeOK
  <2>2. CASE pending' = 0
    <3>1. RotateTo /\ UNCHANGED <<lead, field>>
      BY <1>2, <2>2 DEF MotorTick
    <3>2. MotorTypeOK' /\ HeadFollowsRotor'
      BY <2>1, <3>1, RotateToStep DEF MotorTypeOK, HeadFollowsRotor
    <3>3. Settled'
      BY <3>1, RotateToSettles DEF Settled
    <3>4. QED
      BY <3>2, <3>3
  <2>3. CASE pending' # 0
    <3>1. UNCHANGED <<lead, field, rotor, head>>
      BY <1>2, <2>3 DEF MotorTick
    <3>2. QED
      BY <2>1, <2>3, <3>1 DEF MotorTypeOK, HeadFollowsRotor, Settled
  <2>4. QED
    BY <2>2, <2>3
<1>3. CASE UNCHANGED motorVars
  BY <1>3 DEF motorVars, MotorTypeOK, HeadFollowsRotor, Settled
<1>4. QED
  BY <1>1, <1>2, <1>3 DEF MotorNext

\* Every reachable state is well typed, for every delay and travel.
THEOREM TypeCorrect == MotorSpec => []MotorTypeOK
<1>1. IInv => MotorTypeOK
  BY DEF IInv
<1>2. QED
  BY <1>1, InitIInv, NextIInv, PTL DEF MotorSpec

\* rotate_to moves head and rotor together or not at all, so they stay in
\* step for ever, the ends of the travel included.
THEOREM HeadAndRotorInStep == MotorSpec => []HeadFollowsRotor
<1>1. IInv => HeadFollowsRotor
  BY DEF IInv
<1>2. QED
  BY <1>1, InitIInv, NextIInv, PTL DEF MotorSpec

\* An arm at rest in a field is in line with it, opposite, or at an end.
THEOREM ArmSettles == MotorSpec => []Settled
<1>1. IInv => Settled
  BY DEF IInv
<1>2. QED
  BY <1>1, InitIInv, NextIInv, PTL DEF MotorSpec

-----------------------------------------------------------------------------
(* The refinement of HeadPositioner.                                       *)

AbstractPole == IF field.on THEN field.pos ELSE NoPole

LEMMA InitRefines == MotorInit => Positioner!Init
  BY DEF MotorInit, Positioner!Init

\* Each step of the motor is a switch of the pole, a pull to the nearest
\* quarter track in line with it, or a stutter of the positioner.
LEMMA StepRefines == IInv /\ [MotorNext]_motorVars => [Positioner!Next]_(Positioner!vars)
<1> SUFFICES ASSUME IInv, [MotorNext]_motorVars PROVE [Positioner!Next]_(Positioner!vars)
  OBVIOUS
<1>0. MotorTypeOK' /\ MotorTypeOK
  BY NextIInv DEF IInv
<1>1. ASSUME NEW p \in Phases, NEW on \in BOOLEAN, SetPhase(p, on)
      PROVE  Positioner!Switch
  <2>1. AbstractPole' \in (0 .. 7) \cup {NoPole}
    BY <1>0 DEF AbstractPole, MotorTypeOK, RotorPositions
  <2>2. head' = head
    BY <1>1 DEF SetPhase
  <2>3. QED
    BY <2>1, <2>2 DEF Positioner!Switch, AbstractPole
<1>2. CASE MotorTick
  <2>1. AbstractPole' = AbstractPole
    BY <1>2 DEF MotorTick, AbstractPole
  <2>2. CASE head' = head
    BY <2>1, <2>2 DEF Positioner!vars, AbstractPole
  <2>3. CASE head' # head
    <3>1. RotateTo
      BY <1>2, <2>3 DEF MotorTick
    <3>2. /\ field.on /\ head' % 8 = field.pos
          /\ head' - head \in -3 .. 3
          /\ head' \in HeadPositions
      BY <2>3, <3>1, RotateToStep DEF IInv
    <3>3. QED
      BY <2>1, <3>2 DEF Positioner!Next, Positioner!Pull, Positioner!Nearest,
                        Positioner!Positions, HeadPositions, AbstractPole
  <2>4. QED
    BY <2>2, <2>3
<1>3. CASE UNCHANGED motorVars
  BY <1>3 DEF motorVars, Positioner!vars
<1>4. QED
  BY <1>1, <1>2, <1>3 DEF MotorNext, Positioner!Next

\* The stepper motor, with its cans, rotor and delay, only ever does what the
\* abstract positioner allows.
THEOREM MotorImplementsPositioner == MotorSpec => ImplementsPositioner
<1>1. QED
  BY InitIInv, NextIInv, InitRefines, StepRefines, PTL
  DEF MotorSpec, ImplementsPositioner, Positioner!Spec
=============================================================================
