--------------------------- MODULE HeadPositioner ---------------------------
(***************************************************************************)
(* What the stepper motor of a Disk ][ drive promises, without cans, rotor *)
(* or delay: wherever the phases put the magnetic pole, the head either    *)
(* stays or jumps to the nearest quarter track that is in line with it.    *)
(* StepperMotor implements this specification.                             *)
(***************************************************************************)
EXTENDS Integers

CONSTANTS
  C_POSITION,  \* quarter-track positions of the head
  NoPole       \* the pole of a motor without current, none of 0 .. 7

VARIABLES
  pole,        \* where the field pulls, a position modulo 8, or NoPole
  arm          \* position of the arm and its head

vars == <<pole, arm>>

Positions == 0 .. C_POSITION - 1

\* The quarter tracks in line with the pole that are less than half a turn
\* of the rotor away: one of them or, with the pole opposite or beyond the
\* end of the travel, none.
Nearest == {h \in Positions : h % 8 = pole /\ h - arm \in -3 .. 3}

Init ==
  /\ pole = NoPole
  /\ arm = C_POSITION \div 2

Switch ==
  /\ pole' \in (0 .. 7) \cup {NoPole}
  /\ UNCHANGED arm

Pull ==
  /\ arm' \in Nearest
  /\ UNCHANGED pole

Next == Switch \/ Pull

Spec == Init /\ [][Next]_vars
=============================================================================
