---------------------------- MODULE MCFunctions ----------------------------
(***************************************************************************)
(* The parts of the program that are functions, one input after another,   *)
(* and those that are a function of one step, whose input goes on.         *)
(* Every state is an input of one of them; the properties compare what the *)
(* function makes of it with a reference.                                  *)
(***************************************************************************)
EXTENDS KeyTranslation, Cpu, Mos6502

CONSTANTS Sockets, OffDelay, PowerUpTicks, Reference, TicksPerSample

MemoryPart == INSTANCE MemoryCases
Display    == INSTANCE PictureCases
Disk       == INSTANCE SequencerCases
Transistor == INSTANCE NetworkCases
Settings   == INSTANCE ConfigurationCases
Window     == INSTANCE ScreenCases
Ports      == INSTANCE PeripheralCases

VARIABLE input

Strokes(codes) == [code : codes, shift : BOOLEAN, ctrl : BOOLEAN]

\* One instruction at pc, with registers that reach the boundaries.
Instructions ==
  [fn : {"instruction"}, code : Documented, lo : {0, \h7F, \h80, \hFF}, hi : {2, \hFF},
   pc : {\h2FD, \h380, \hFFFE}, a : {0, \h80, \hC5}, x : {1, \hFF}, y : {2, \hFF},
   s : {0, \hFF}, p : {{}, {"C"}, {"N", "V", "Z"}}]

Sums == [fn : {"sum"}, a : 0 .. \hFF, carry : BOOLEAN, decimal : BOOLEAN]

\* Programs that read and write nibbles.  An even phase has the pulses come in the
\* second half of a cycle, where they last two steps of the sequencer, and an odd
\* one in the first, where they last one.  ThirteenSpec has the even ones with 13
\* sectors, where nibbles are not read back.
NibblePrograms == Disk!Programs(16, {0, 5}) \cup Disk!Programs(13, {1, 5})

Init ==
  \/ input \in [fn : {"key"}, stroke : Strokes(KeyCodes)]
  \/ input \in [fn : {"apple character"}, char : AppleChars]
  \/ input \in Ports!Uses
  \/ input \in Ports!FirstMachines
  \/ input \in Transistor!Networks
  \/ input \in Display!Pictures
  \/ input \in Display!Cells
  \/ input \in Display!Colours
  \/ input = Display!FirstOfFields
  \/ \E program \in NibblePrograms : input = Disk!Started(program)
  \/ input \in MemoryPart!Memories
  \/ input \in MemoryPart!Roms
  \/ input \in Window!Windows
  \/ input \in Settings!Configurations
  \/ input \in Instructions
  \/ input \in Sums

\* The inputs that go on.
FieldStep == input.fn = "field" /\ \E f \in Display!FieldStep(input.f) : input' = [input EXCEPT !.f = f]

NibbleStep ==
  input.fn = "nibbles" /\ input.mode # "done" /\ input' = Disk!ProgramStep(input)

MachineStep == input.fn = "machine" /\ input' \in Ports!MachineStep(input, Ports!Mouse)

Next == FieldStep \/ NibbleStep \/ MachineStep

Spec == Init /\ [][Next]_input

\* The programs with 13 sectors at the phases that a disk of the standard timing
\* always has: DiskController::t starts at 0, and 8 half microseconds are a bit.
ThirteenInit == \E program \in Disk!Programs(13, {0, 4}) : input = Disk!Started(program)
ThirteenSpec == ThirteenInit /\ [][NibbleStep]_input

-----------------------------------------------------------------------------
(* translateKeysToAppleModernized (emulator.cpp).                          *)

\* No stroke sends one of the characters that the user's manual says cannot be
\* typed (docs/usermanual.md:379 to 381): lower case, "[", "\", braces and "|",
\* nor the backquote and the tilde of the key that is left out; and of the Apple's
\* characters exactly one, NUL, cannot be typed: no other is lost on the way from
\* the PC's layout, where most symbols are in another place.
KeysRight ==
  /\ input.fn = "key" => SendsAppleChar(input.stroke.code, input.stroke.shift, input.stroke.ctrl)
  /\ input.fn = "apple character" => (Typable(input.char) <=> input.char # 0)

\* docs/usermanual.md:384: "typing Shift-Control-2 produces the NUL character".  It
\* sends nothing (emulator.cpp:279 takes NUL for no character), nor does any stroke.
NulIsTyped == input.fn = "apple character" => Typable(input.char)

-----------------------------------------------------------------------------
(* The processor (cpu.cpp).                                                *)

\* The bytes of memory that no instruction wrote, all different in a page.
MCRest(address) == Byte(address * 7 + High(address) + \h53)

\* The processor about to run the instruction.
Before(i) ==
  [started |-> TRUE, pendingReset |-> FALSE, t |-> 0, opcode |-> 0,
   a |-> i.a, x |-> i.x, y |-> i.y, s |-> i.s, p |-> i.p \cup {"M"}, pc |-> i.pc,
   adl |-> 0, adh |-> 0, bal |-> 0, bah |-> 0, address |-> 0, data |-> 0,
   branch |-> FALSE, sc |-> 0, wc |-> FALSE,
   mem |-> i.pc :> i.code @@ Word(i.pc + 1) :> i.lo @@ Word(i.pc + 2) :> i.hi]

\* The registers as the reference has them.
Registers(c) ==
  [a |-> c.a, x |-> c.x, y |-> c.y, s |-> c.s, pc |-> c.pc, p |-> c.p \ {"M", "B"}]

\* The processor after the instruction, and the cycles it has taken.
RECURSIVE Completed(_, _)
Completed(c, cycles) ==
  IF c.t = 0 /\ cycles > 0 THEN [cpu |-> c, cycles |-> cycles]
  ELSE Completed(CpuTick(c), cycles + 1)

Expected(i) ==
  LET c == Before(i) IN InstructionOutcome(i.code, Registers(c), LAMBDA address : BusRead(c, address))

\* What the last cycle left is what the reference says.
Leaves(after, ref) ==
  /\ Registers(after.cpu) = ref.r
  /\ after.cpu.mem = ref.written @@ Before(input).mem
  /\ after.cycles = ref.cycles

\* Sums and differences with all bytes, and with all decimal ones in decimal mode.
SumsRight(i) ==
  LET p == If(i.carry, "C") \cup If(i.decimal, "D")
      c == [Before([a |-> i.a, x |-> 0, y |-> 0, s |-> 0, p |-> p, pc |-> 0, code |-> 0,
                    lo |-> 0, hi |-> 0]) EXCEPT !.mem = <<>>]
      Known(r) == IF i.decimal THEN [a |-> r.a, C |-> "C" \in r.p] ELSE r
  IN  \A v \in 0 .. \hFF :
        (i.decimal => IsDecimal(i.a) /\ IsDecimal(v)) =>
          /\ Known(Registers(ADC([c EXCEPT !.data = v]))) = Known(Operated("ADC", Registers(c), v))
          /\ Known(Registers(SBC([c EXCEPT !.data = v]))) = Known(Operated("SBC", Registers(c), v))

\* The cycles of an instruction, each with its share of the work, leave the
\* registers and the memory as the instruction should: operands wrap where the
\* real processor wraps, no latch is used before it is set, and sums are right.
\* docs/index.md:24 "Cycle-accurate MOS 6502 CPU": an instruction takes the
\* cycles of the manual, with those for branches taken and pages crossed.
ProcessorRight ==
  /\ input.fn = "instruction" => Leaves(Completed(Before(input), 0), Expected(input))
  /\ input.fn = "sum" => SumsRight(input)

-----------------------------------------------------------------------------
(* The motherboard's memory, the picture and the ports.                    *)

\* A byte written to memory is read again where it was written and, where the fault
\* of revision 0 strikes, at its duplicate, and nowhere else: with any chips in any
\* rows, that were other chips before, and with any straps; the fault strikes at
\* 20K and 24K if the rows are in order; memory begins anew only when the power
\* has been off; and of images loaded over each other the last one is seen
\* (memoryrow.cpp:58 to 114, memoryrandomaccess.cpp:56 to 149, memory.cpp:40).
MemoryHolds == input.fn \in {"memory", "rom"} => MemoryPart!HoldsMemory(input)

\* The comment at memoryrandomaccess.cpp:61, "for 20K or 24K on rev. 0: pages 40-5F
\* are dup w/ 60-7F": what is written to one is read at the other.  It is not when
\* row E has the last 4K: the size is computed from row D twice (:57).
DuplicatedAsCommented ==
  input.fn = "memory" => MemoryPart!DuplicatesAsCommented(input)

\* Each byte of the screen is read when the beam is at its cell; its dots are at
\* their places on the line, also across the half dots of hi-res, the phases of
\* lo-res and the switch to text below; a nibble has its colour. The counters of
\* Video and PictureGenerator, which nothing ties together, stay in step when the
\* power is switched anywhere in a field, and the buffer that is drawn is that of
\* the generator that runs.
PictureRight ==
  /\ input.fn \in {"picture", "cell", "colour", "palette"} => Display!PictureOk(input)
  /\ input.fn = "field" => Display!InStep(input.f)

\* What a program writes to a disk in cycles, the sequencer gives back to one that
\* reads in cycles, with 16 sectors wherever the pulses fall in a cycle, and with 13
\* where they fall in its first half: whatever nibbles follow each other, wherever
\* the loop begins and however long the program takes for a nibble
\* (diskcontroller.cpp:87 to 158).
NibblesReadBack == input.fn = "nibbles" => Disk!ReadsBack(input)

\* docs/index.md:31: "Logic State Sequencer emulation (16 and 13 sector disks)", and
\* diskcontroller.cpp:113: "pulse lasts only 500 nanoseconds (1 LSS clock cycle)".
\* With 13 sectors what is written is not read back, because a pulse that comes in
\* the second half of a cycle lasts two.
ThirteenSectorsReadBack == input.fn = "nibbles" => Disk!ReadsBack(input)

\* Networks of transistors come to rest where they should, and where they cannot
\* the calculation is given up (StateCalculator.cpp:25): a flip-flop keeps what it
\* was set to, and data read in a cycle of the processor is what it writes in the
\* next, over the data pins that were driven from outside.
NetworkSettles == input.fn \in {"ring", "flip-flop", "two bits"} => Transistor!Settles(input)

\* What a configuration file or a sequence of typed commands leaves in the slots
\* and the drives is what its lines say together, with those left out that are
\* refused; the disks of a controller that is taken out are gone, written or not,
\* and nobody asks about them any more; and the processor is the one that the
\* first line accepted makes (configep2.cpp:97 to 584).
ConfigurationObeyed ==
  input.fn \in {"file", "typed", "line", "path"} => Settings!Obeyed(input)

\* What the manual says of the processor; but a line "cpu" has no effect after
\* any other line that is accepted (configep2.cpp:473).
CpuAsConfigured == input.fn = "file" => Settings!CpuChosen(input)

\* The window shows for each part what was last drawn of it, whatever is drawn
\* next to it.  After any keys, also in the command mode, the labels for power,
\* hyper mode, buffering and lines show the modes in force; the one for the window
\* shows the mode in which the labels were last drawn, which F3, F9 and a dialog
\* may have left since; and the one for the monitor how often F2 was pressed,
\* whichever monitor AnalogTV began with (screenimage.cpp, emulator.cpp:338 to 449).
WindowRight == input.fn \in {"calls", "cards", "keys"} => Window!WindowRight(input)

\* Timers and motor, speaker, clock and printer: a timer measures the place that
\* was asked for when it had last run out (paddles.cpp:67), no motor runs on after
\* the power-up reset of a machine that was switched off while it ran
\* (emulator.cpp:63), all clicks are heard, and the clock's text is of one moment.
PortsRight ==
  /\ input.fn = "machine" => Ports!MachineRight(input)
  /\ input.fn \in {"speaker", "clock", "mouse", "printer"} => Ports!UsesRight(input)
=============================================================================
