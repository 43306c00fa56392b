----------------------------- MODULE SequencerCases -----------------------------
(***************************************************************************)
(* A program that writes nibbles to the disk and reads them again, in      *)
(* cycles, as the routines of DOS do: bytes of eight ones with two bits to *)
(* spare (one, with 13 sectors) to find the start of nibbles by, three of  *)
(* known nibbles with two others among them, and a last byte of ones. Then *)
(* it reads in a loop until the register's top bit is set.                 *)
(***************************************************************************)
EXTENDS DiskSequencer

\* The cycles of the loop LDA $C08C,X - BPL.
PollCycles == 7

\* Nibbles of each format: long runs of ones, alternating bits, lone zeros.
NibblesOf(sectors) ==
  IF sectors = 16 THEN {150, 157, 166, 213, 219, 255} ELSE {170, 181, 219, 255}

\* work is what the program does with a nibble before it looks for the next,
\* phase the half microseconds of a bit that the disk has turned at the start.
Programs(sectors, phases) ==
  [sectors : {sectors}, a : NibblesOf(sectors), b : NibblesOf(sectors), phase : phases,
   poll : {0, 3}, work : {11, 18}]

Bytes(program) ==
  [n \in 1 .. 6 |-> [byte |-> 255, cycles |-> IF program.sectors = 16 THEN 40 ELSE 36]]
    \o [n \in 1 .. 6 |-> [byte   |-> <<213, program.a, program.b, program.a, 222, 255>>[n],
                          cycles |-> 32]]

\* The nibbles, as a reader should find them.
Nibbles(program) == <<213, program.a, program.b, program.a, 222>>

TrackLength == 116

\* The controller when the program starts; the disk is all ones.
Ready(program) ==
  [sectors |-> program.sectors, load |-> FALSE, write |-> FALSE, bus |-> 0, register |-> 0,
   seq |-> 2, prevSeq |-> 0, t |-> 4 * program.phase, pulse |-> FALSE, read |-> <<0, 0, 0, 0>>,
   track |-> [n \in 1 .. TrackLength |-> 1], place |-> 1, noise |-> FALSE, protected |-> FALSE,
   timing |-> 32]

\* The program p at a cycle of its byte todo[1], or of its reading.
Started(program) ==
  [fn |-> "nibbles", program |-> program, c |-> Ready(program), mode |-> "write",
   todo |-> Bytes(program), at |-> -12, got |-> <<>>, left |-> 4 * TrackLength + 48]

\* The switch that the program uses in a cycle, and the byte on the bus then. A
\* store with an index reads first; 5 cycles later the register is shifted.
WriteCycle(p) ==
  LET first == Len(p.todo) = 12
      store == IF first THEN "write" ELSE "load"
  IN  CASE first /\ p.at = -12 -> SwitchedTo(p.c, "load", 0)
        [] first /\ p.at = -8  -> SwitchedTo(p.c, "read", 0)
        [] p.at = 0 -> SwitchedTo(p.c, store, 0)
        [] p.at = 1 -> SwitchedTo(p.c, store, Head(p.todo).byte)
        [] p.at = 5 -> SwitchedTo(p.c, "shift", 0)
        [] OTHER    -> SequencerTick(p.c)

WriteStep(p) ==
  LET c    == WriteCycle(p)
      over == p.at + 1 = Head(p.todo).cycles
  IN  IF ~over THEN [p EXCEPT !.c = c, !.at = @ + 1]
      ELSE IF Len(p.todo) > 1 THEN [p EXCEPT !.c = c, !.at = 0, !.todo = Tail(@)]
      ELSE [p EXCEPT !.c = SwitchedTo(c, "read", 0), !.todo = <<>>, !.mode = "read",
                     !.at = p.program.poll]

\* A cycle of the loop; a nibble is there when the top bit is set.
ReadStep(p) ==
  LET looks == p.at >= 0 /\ p.at % PollCycles = 0
      c     == IF looks THEN SwitchedTo(p.c, "shift", 0) ELSE SequencerTick(p.c)
      found == looks /\ Top(c.register)
  IN  [p EXCEPT !.c = c, !.left = @ - 1, !.mode = IF p.left = 1 THEN "done" ELSE @,
                !.got = IF found THEN Append(@, c.register) ELSE @,
                !.at = IF found THEN 1 - p.program.work ELSE @ + 1]

ProgramStep(p) == IF p.mode = "write" THEN WriteStep(p) ELSE ReadStep(p)

-----------------------------------------------------------------------------
(* What a program relies on.                                               *)

\* All that was written is read, in a row, with nothing lost or doubled.
ReadsBack(p) ==
  p.mode = "done" =>
    \E n \in 0 .. Len(p.got) - 5 : SubSeq(p.got, n + 1, n + 5) = Nibbles(p.program)
=============================================================================
