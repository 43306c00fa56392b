---------------------------- MODULE DiskSequencer ----------------------------
(***************************************************************************)
(* The logic state sequencer of the Disk ][ controller (lss.cpp), what the *)
(* controller makes of its commands while the motor is on                  *)
(* (diskcontroller.cpp), and the read amplifier of the drive (drive.cpp).  *)
(* DiskController has the switches and the motor, WozFile has the disk; a  *)
(* disk here is one track of bits.                                         *)
(***************************************************************************)
EXTENDS Integers, Sequences, SequencesExt, TLC

\* The commands: clear, nothing, shift left with 0 or 1, shift right with the
\* write protection, load.
Commands == {"CLR", "NOP", "SL0", "SL1", "SRP", "LDR"}

\* Of a sequence number, the one that follows it.
Following(seq) == (seq + 1) % 16

\* An entry of the ROM.
To(next, command) == [next |-> next, command |-> command]

-----------------------------------------------------------------------------
(* The ROM, by mode: the columns of the tables that lss.cpp prints.        *)

\* READ, SHIFT without a pulse, while the register has no 1 on top, and then.
ShiftQuiet(seq) ==
  CASE seq \in {1, 10, 14} -> To(Following(seq), "SL1")
    [] seq = 9  -> To(2, "SL0")
    [] seq = 11 -> To(5, "SL0")
    [] seq = 12 -> To(13, "SL0")
    [] seq = 13 -> To(0, "NOP")
    [] seq = 15 -> To(4, "SL1")
    [] OTHER    -> To(Following(seq), "NOP")

HoldQuiet(seq) ==
  CASE seq = 1  -> To(3, "NOP")
    [] seq = 2  -> To(2, "NOP")
    [] seq = 12 -> To(10, "CLR")
    [] seq = 15 -> To(14, "CLR")
    [] OTHER    -> To(Following(seq), "NOP")

\* The same with a pulse.
ShiftPulse(seq) ==
  CASE seq = 0  -> To(1, "NOP")
    [] seq = 1  -> To(2, "SL1")
    [] seq = 10 -> To(12, "SL1")
    [] seq \in {11, 12} -> To(13, "SL0")
    [] seq = 14 -> To(15, "SL1")
    [] seq = 15 -> To(13, "SL1")
    [] OTHER    -> To(13, "NOP")

HoldPulse(seq) ==
  CASE seq = 0  -> To(1, "NOP")
    [] seq = 1  -> To(3, "NOP")
    [] seq = 2  -> To(0, "NOP")
    [] seq = 3  -> To(4, "NOP")
    [] seq = 13 -> To(14, "NOP")
    [] seq = 14 -> To(15, "NOP")
    [] seq = 15 -> To(14, "CLR")
    [] OTHER    -> To(13, "NOP")

\* What is different with 13 sectors.
ShiftQuiet13(seq) ==
  CASE seq = 1  -> To(2, "NOP")
    [] seq = 9  -> To(0, "SL0")
    [] seq = 11 -> To(3, "SL0")
    [] seq = 13 -> To(0, "SL1")
    [] OTHER    -> ShiftQuiet(seq)

ShiftPulse13(seq) ==
  CASE seq = 0  -> To(13, "NOP")
    [] seq = 1  -> To(13, "NOP")
    [] seq = 13 -> To(1, "SL1")
    [] OTHER    -> ShiftPulse(seq)

HoldQuiet13(seq) ==
  CASE seq = 0 -> To(0, "NOP")
    [] seq = 1 -> To(2, "NOP")
    [] seq = 2 -> To(3, "NOP")
    [] OTHER   -> HoldQuiet(seq)

HoldPulse13(seq) ==
  CASE seq = 1 -> To(2, "NOP")
    [] seq = 2 -> To(3, "NOP")
    [] seq = 3 -> To(13, "NOP")
    [] OTHER   -> HoldPulse(seq)

\* READ, LOAD: sense the write protection.
Sense(seq) == To(0, "SRP")

\* FAULT: the sequence goes on after the lower half, too.
WritingUnturned(seq, load, top) ==
  To(Following(seq),
     IF seq \in {2, 10} THEN IF load THEN "LDR" ELSE "SL0" ELSE "NOP")

\* WRITE: a bit every eight steps; half a round is repeated for a 0 on top.
Writing(seq, load, top) ==
  To(CASE seq = 7 /\ ~top -> 0
       [] seq = 15 /\ ~top -> 8
       [] OTHER -> Following(seq),
     IF seq \in {2, 10} THEN IF load THEN "LDR" ELSE "SL0" ELSE "NOP")

\* LSS::read of the ROM that LSS::LSS builds, at the address that stepLss makes.
Rom(sectors, seq, write, load, top, pulse) ==
  CASE write         -> Writing(seq, load, top)
    [] ~write /\ load -> Sense(seq)
    [] OTHER ->
       IF sectors = 16
       THEN IF top THEN IF pulse THEN HoldPulse(seq) ELSE HoldQuiet(seq)
            ELSE IF pulse THEN ShiftPulse(seq) ELSE ShiftQuiet(seq)
       ELSE IF top THEN IF pulse THEN HoldPulse13(seq) ELSE HoldQuiet13(seq)
            ELSE IF pulse THEN ShiftPulse13(seq) ELSE ShiftQuiet13(seq)

-----------------------------------------------------------------------------
(* The controller c: the switches load and write, bus (the byte last seen  *)
(* on it), register, seq, prevSeq, t in half microseconds, pulse, what the *)
(* amplifier has read (of its eight bits, the four that it looks at), the  *)
(* track and the place on it, noise (the answer of Disk2Drive::randomBit), *)
(* and a mark if the disk may not be written.                              *)

Top(register) == register >= 128

\* WozFile::rotateOneBit of a single track.
Turned(c) == (c.place % Len(c.track)) + 1

\* Disk2Drive::rotateDiskOneBit: a pulse comes one bit late; noise where the
\* amplifier hears nothing for four bits.
RotateDiskOneBit(c) ==
  LET place == Turned(c)
      read  == Append(Tail(c.read), c.track[place])
  IN  [c EXCEPT !.place = place, !.read = read,
                !.pulse = IF 1 \in ToSet(read) THEN read[3] = 1 ELSE c.noise]

\* DiskController::rotateCurrentDisk, with the interval of a bit (of
\* optimal_timing) in quarters of a half microsecond.
RotateCurrentDisk(c) ==
  LET t == c.t + 4
  IN  IF c.timing <= t THEN [RotateDiskOneBit(c) EXCEPT !.t = t - c.timing]
      ELSE [c EXCEPT !.t = t]

\* Disk2Drive::writeBit, of a disk that is not protected.
WriteBit(c, bit) ==
  IF c.protected THEN c ELSE [c EXCEPT !.track[c.place] = bit]

\* DiskController::stepLss.
StepLss(c) ==
  LET entry == Rom(c.sectors, c.seq, c.write, c.load, Top(c.register), c.pulse)
      writes == c.write /\ entry.command \in {"SL0", "SL1", "SRP", "LDR"}
      turned == (entry.next >= 8) # (c.prevSeq >= 8)
      after == [c EXCEPT !.seq = entry.next, !.prevSeq = IF writes THEN entry.next ELSE @]
      register ==
        CASE entry.command = "CLR" -> 0
          [] entry.command = "NOP" -> c.register
          [] entry.command = "SL0" -> (2 * c.register) % 256
          [] entry.command = "SL1" -> (2 * c.register + 1) % 256
          [] entry.command = "SRP" -> (c.register \div 2) + (IF c.protected THEN 128 ELSE 0)
          [] entry.command = "LDR" -> c.bus
  IN  [(IF writes THEN WriteBit(after, IF turned THEN 1 ELSE 0) ELSE after)
         EXCEPT !.register = register]

\* The part of DiskController::tick that drives the sequencer.
SequencerTick(c) ==
  LET first == [StepLss(RotateCurrentDisk(c)) EXCEPT !.pulse = FALSE]
  IN  StepLss(RotateCurrentDisk(first))

\* DiskController::io with a byte on the bus, of the switches that matter here.
SwitchedTo(c, switch, byte) ==
  SequencerTick([c EXCEPT !.bus = byte,
                          !.load = IF switch \in {"load", "shift"} THEN switch = "load" ELSE @,
                          !.write = IF switch \in {"write", "read"} THEN switch = "write" ELSE @])
=============================================================================
