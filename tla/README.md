# Epple ][ in TLA+

Epple ][ is an emulator of the Apple ][. It is one program with one main loop:
a loop turn runs one cycle of the emulated machine, and every 51 024 turns it
handles the operator's events. A second thread reads standard input when the
card for that is inserted. The modules here model its parts, TLC checks them on
small instances, and TLAPS proves the central invariants for all values of the
constants. File names below are relative to `src/src/` of the repository.

## Inventory

For each part: its state, its operations, how it interacts, what is hard about
it and what makes it correct.

**Main loop and operator keys** (`emulator.cpp`). State: command mode and its
pending exit, command line, count of the Apple's keys held, last key, REPT timer,
quit flag. Operations: a cycle, an event (key pressed, repeated or released,
window closed), the commands behind the function keys. It pushes keys on the
keyboard's queue, calls `Config` for a command line, asks slots and cassette
before quitting. Hard: presses and releases are paired by hand and fall on
different sides of mode changes; the timer runs across them. Correct when the
count is the number of keys held, REPT repeats the right key at the right rate,
and a command is what the operator saw.

**Apple keyboard** (`keyboard.cpp`). State: latch with strobe, queue, buffering
mode. Operations: read `$C000`, access `$C010`, push a key, F12. Correct when a
buffered key is delivered once and in order.

**Disk ][** (`diskcontroller.*`, `drive*.cpp`, `disk2steppermotor*.cpp`,
`lss.cpp`, `wozfile.cpp`). State: the selected drive, Q6/Q7, the motor with its
delayed stop, two drives each with a stepper motor, a head and a WOZ image, and
the sequencer's data register. Operations: sixteen switches, a tick per cycle,
reset, and the commands load, unload and save. It draws lamp, track and asterisk
on the screen. Hard: the access of a switch runs the tick of the card early; the
stop of the motor is delayed 1.2 s and races with starting it; the delay of the
arm; rotation across tracks of different length; load and save that fail half
way. Correct when the disk turns once per cycle, the motor stops when and only
when asked, the head moves as the real one, only a turning writable disk is
written, and an image saved is the image in memory.

**Cassette ports** (`cassette*.cpp`). State: samples, position, clock, playing,
modified. Operations: toggle, sense, tick, load, blank, rewind, eject, save.
Hard: the automatic stop after three seconds, dialogs that may be cancelled,
writes that fail, searches in vain. Correct when no recording is lost unasked, the
file tells what was recorded and the level heard is that of the tape.

**Standard input card** (`standardin.cpp`, `standardinproducer.cpp`,
`rom/stdin.m4`). State: the thread's place in a line end, an unlocked queue, latch
and end-of-input flag. Operations: a character arrives, two switches. Hard: the
race on the queue; three kinds of line ends. Correct when text arrives complete,
in order, and its end last.

**Clock and standard output cards** (`clockcard.cpp`, `standardout.cpp`). A
latched time string with a position; a printer of characters. Correct when a text
read from the clock is one time and not two.

**Functional CPU** (`cpu.cpp`). State: registers, latches of the instruction under
way, cycle number, pending reset. Operations: tick, reset, power on. Hard: two
tables of 256 entries, 28 addressing routines spread over cycles, wrapping at
zero page, stack and page, decimal mode; a reset abandons an instruction at any
cycle. Correct when each instruction is the 6502's in effect and time and a
reset leaves nothing half done.

**Visual6502** (`Emu6502.cpp`, `StateCalculator.cpp`, `Circuit.cpp`, ...). State:
segments and transistors on or off. Operation: recalculate from a set of
segments until nothing changes, at most 100 rounds. Hard: settling, and
independence of the order. Correct when the result is a stable state.

**Motherboard** (`apple2.cpp`, `powerupreset.cpp`), **address bus and slots**
(`addressbus.cpp`, `slots.cpp`), **language and firmware cards**
(`languagecard.cpp`, `firmwarecard.cpp`), **memory** (`memory*.cpp`). State: the
order of the parts in a cycle, the delayed power-on reset, the cards, bank
switches with a write-enable counter, the placing of memory rows by strapping
blocks. Hard: who drives the bus when, and counters that any access resets.
Correct when one and the right part answers each address.

**Configuration** (`configep2.cpp`). State: the mask of slots with a disk
controller, besides the parts it builds. Operation: a line, from the file or the
command line. Hard: an error half way through a line. Correct when the machine is
the one that the lines describe.

**Video** (`video*.cpp`; `picturegenerator.cpp`, `analogtv.cpp` and filters).
State: the mode switches, counters of cycles and lines, shift registers, the signal
of a field. Operations: a switch, a tick, power. Hard: the order of bytes in
memory, the half dot of hi-res, colour that depends on the place, two counters
that have to agree, power in the middle of a field. Correct when each dot is
where and what the program put there.

**Paddles and speaker** (`paddles.cpp`, `speakerclicker.cpp`). State: four timers; a
counter of cycles and the level. Hard: triggering a timer that runs, a click at the
edge of a sample. Correct when a timer measures what it was asked and each click
is heard.

**Screen** (`screenimage.cpp`). State: the text around the picture, with the names
and lamps of the cards and the labels of the modes. Operations: draw a field,
switch a label. Hard: fields share rows, names have any length, and labels are
switched apart from the modes they tell. Correct when the window shows what is.

`tinyfiledialogs.cpp` is vendored; its dialogs are a choice of answers.

## Modules

State machines, each with its properties in the same module and its proofs in the
next one (`EmulatorProofs` is about the two that the main loop drives; `KeyboardProofs`
also has the proofs about `Peripherals` and `Picture`, which are functions). Modules
that are checked or proved about together have names of their own for their
specification: `MotorSpec`, `KeyboardSpec`, `StdinSpec`, `MachineSpec`, `TapesSpec`.

| module | models | state and actions |
| --- | --- | --- |
| `HeadPositioner` | what a stepper motor promises | pole and arm; `Switch`, `Pull` |
| `StepperMotor`, `StepperMotorProofs` | stepper motor, field, rotor and head of a drive | `set_phase` and `tick` |
| `DiskController`, `DiskControllerProofs` | card, motor, drives, their line of the screen | `OtherCpuCycle`, `Io` (each switch with the common tail of `io()`), `SlotsTick`, `Reset`, `LoadDisk`, `UnloadDisk`, `SaveDisk` |
| `Keyboard`, `KeyboardProofs` | latch, queue, buffering | `Type`, `Get`, `Clear`, `ToggleBuffered` |
| `EmulatorKeys`, `EmulatorProofs` | main loop, REPT, command mode, quit | `Cycle`, `EventsDone`, `KeyDown`, `AutoRepeat`, `KeyUp`, `QuitEvent` |
| `Cassette`, `CassetteProofs` | both ports with program and operator, and the end of the emulator | `Cycle` (tick of both tapes, with an access or none), `LoadIn`, `RewindIn`, `ToneIn`, `EjectIn`, `Blank`, `SaveOut`, `EjectOut`, `WriteDisk`, `Quit` |
| `StdinCard`, `StdinCardProofs` | thread, queue, card, ROM routine | `Read`, `ReadEOF`, `Push` or `MoveEnd` and `FillCell`, `Call`, `Poll` |
| `Floppy` | what a floppy disk image promises | bits of each quarter track in memory and in the file; `Write`, `Save`, `SaveFails`, `Load`, `Unload` |
| `WozFile`, `WozFileProofs` | the WOZ image and the position of the disk | `Load`, `LoadFails`, `Unload`, `Save`, `SaveFails`, `MoveHead`, `RotateOneBit`, `SetBit` |
| `Motherboard`, `EmulatorProofs` | processor, power, power-up reset | `Tick`, `PowerOn`, `PowerOff`, `PressReset`, `SetRevision` |
| `MemoryMap` | what the manual promises at `$D000`-`$FFFF` | each card's switches and memory; `Read`, `Write`, `Switch`, `Reset`, `Plug` |
| `Bus`, `BusProofs` | address bus, slots, insertion of cards | `ReadBankRom`, `WriteBankRom`, `ReadSlotSwitch`, `WriteSlotSwitch`, `ReadSwitch`, `ReadSlotRom`, `AccessElsewhere`, `Reset`, `InsertCard` |

Functions on the record of a part, one operator for each method; the module
with `Cases` in its name has the inputs and the reference for them:

| module | models | compared with |
| --- | --- | --- |
| `KeyTranslation` | key stroke to character (`translateKeysToAppleModernized`) | the characters of the manual |
| `Cpu` | the processor by cycles: `CpuTick`, `CpuReset`, `CpuPowerOn` | `Mos6502`: what the documented instructions promise |
| `Cards` | language and firmware card: `CardIo`, `CardBankRom`, `CardReset` | `MemoryMap`, by way of `Bus` |
| `Memory`, `MemoryCases`, `BusProofs` | chips, rows, straps, the fault of revision 0, power, ROM images | a cell for each address, except where the fault says otherwise |
| `DiskSequencer`, `SequencerCases` | ROM of the sequencer, data register, rotation, a cycle of the controller | a program that writes nibbles and reads them back |
| `Picture`, `PictureCases`, `KeyboardProofs` | modes, addresses of a field, shift registers, signal of a line, counters of a field, monitors | the dots, colours and addresses of the Apple's manuals |
| `SwitchLevel`, `NetworkCases` | segments and transistors of Visual6502, recalculation, pins, cycles | what inverters, flip-flops and a data pin do |
| `Configuration`, `ConfigurationCases` | lines of the file and of the command line | the line that came last, the machine it describes |
| `Screen`, `ScreenCases` | text of the window, labels and modes, command mode | fields as the last call left them |
| `Peripherals`, `PeripheralCases`, `KeyboardProofs` | paddles, speaker, clock, standard output; power with motor and paddles | what was asked of a timer, clicks, one time per text |

The `.cfg` files give the constants. Where they are functions or sets of records, a
module `MCx` extends `x` with their definitions.
`MCDevices` has the motor, the controller, the keyboard, the standard input card and the
processor side by side, `MCMedia` the tapes and the disk image: a behaviour is one of
one of the parts, and the others stay as they were at the start, because as modelled
they share nothing. The properties of all of them are checked in every behaviour.
`MCFunctions` has the inputs of all functions, one per state; where the part is used
in steps (a field, a program at the disk, a machine with power and paddles), the
state goes on. `MCStepperMotor` also has the table of the motor's own unit test.
Definitions commented FAULT are mistakes a programmer could make in the
definition that follows; they take no part in the specification and show that a
property would notice the mistake.

### How they relate to the code

*StepperMotor.* `MotorTick` is `tick()` of the motor, `SetPhase` is `set_phase()`;
`pending`, `rotor` and `head` are the fields of the rotor and the head. It is
shown to implement `HeadPositioner` by a refinement mapping.

*DiskController.* A machine cycle is two steps, as in `Apple2::tick`: the CPU's
half, with or without an access to the card, then the tick of the slots.
Operator commands and resets come between any two steps; the main loop only lets
them come between cycles, so the model allows more. The bits are abstracted:
whenever the sequencer is in write mode, it may write. The arm is abstracted to
what `StepperMotor` allows, at most one track per answer.

*EmulatorKeys.* An SDL event is handled as it happens. The keys are classed by
their part in the code. What a command does to other components is left out.
`shown` is the text that `ScreenImage` has drawn, so that the properties relate
what the operator sees with what the program holds.

*StdinCard.* The main thread's access is one step; the other thread's push is one
step or two, because a `std::queue` without a lock promises nothing about the
order in which another thread sees the element and the end of the queue move.
Behaviour after the race has struck (`raced`) is not claimed to be complete: it is
undefined in C++.

*WozFile.* `disk` is `tmap` with `trk` and `trk_bits`; `ExpandTracks` and
`ReduceTracks` fold over the quarter tracks in the order of the code's loops, and
a save reduces for the file and expands again for memory, as the code does. The
mapping to `Floppy` gives each quarter track the cells of its track, padding
included, because the file holds the padding too. `lastQuarterTrack` starts
`Unset`, and the first rotation may then come to any bit of the track. A file
that fails to load does so before its tracks are read: INFO and TMAP come first
in every file. `DiskController` keeps of an image only whether it is loaded,
writable and modified, which are the same three flags.

*Cpu.* The tables `exec` and `addr` are given by their inverses (the codes of each
operation and of each routine). An addressing routine is a switch over the cycle;
`addr_x` lists the statements it executes in each, and `Statement` is what a
statement does. The latches `ial` and `iah` are not used together with `bal` and
`bah` and share their fields. The bus is a memory; its switches, slots and ROM are
left out. The fields of the constructor are not initialised, so `Motherboard`
starts from any of them that matter.

*Mos6502.* The reference decodes the bit fields of the code and computes the result
at once, on numbers: signed sums for the overflow, decimal numbers for decimal
mode. It shares no definition with `Cpu`.

*Bus.* A step is one cycle on the bus. `Slots::ioBankRom` hands the byte from card
to card, which is the recursive function `ByteAt`; the ROM of the motherboard
comes last and asks for the inhibit line. `MapStep` relates each step with the
step of `MemoryMap` for the same access (the map's variables alone do not tell
which access it was, so the refinement is stated access by access). A firmware
card that is switched on puts its byte on the bus in a write too, and a language
card in a higher slot stores it: the manual says nothing of that, so it is the one
thing in the map that is the code's (`Carried`), for any order of the cards. The window's text is
`shown`: a new card writes it from a literal in `getName()`, later accesses from
the switches.

*Cassette.* What the code does with `t` and `t_active` depends on their difference,
`quiet`, and for the tape IN on the place besides. A sample of the tape IN is known
by the slope that leads to it, since playing only looks for changes of slope. What SDL
makes of a file when it is loaded, for it always brings it to another rate
(`cassettein.cpp:240`), is not modelled: a tape IN has any slopes, and what a
recording becomes is followed to the bytes of its file and no further. `FileBytes`
has the order of these bytes, not their values: half waves rise or fall by turns, and
are flat at their ends, where rounding and clipping make bytes the same, for `FlatTop`
and `FlatBottom`. `onFile` is what the WAVE file of the tape OUT holds; a write that fails leaves it
`Damaged`. Each dialog is a choice of its answers. `Cycle` is one cycle of the main
loop in which the program senses the tape IN, changes the level of the tape OUT,
or does neither. `Quit` is the end of `Emulator::handleQuit`: the tape is ejected,
which may ask and may be cancelled, and the disks are asked about afterwards. A second
eject of the tape IN frees its samples again: after it the emulator goes on or has
ended. `since`, `rise` and `stale` are history: when the tape OUT was last used, with
which slope the level of the tape IN is up, and whether its slope is off.

*Memory.* A row is the chips of its eight sockets (two in the runs; sockets do not
interact) and its bytes, which are sets of the sockets whose bit is one, so that an
empty socket leaves its bit floating. Addresses and sizes count blocks of 4K, and one
byte stands for all of a block.

*DiskSequencer.* `Rom` is the table that `lss.cpp` computes, row by row for both
ROMs. A cycle is that of `DiskController::tick` and `io`: the sequencer runs twice,
the disk turns in the second half, a bit every 32 half microseconds.
`DiskController` abstracts all this to "may write".

*Picture.* A byte is the set of the bits that are one. `PictureTick` is the shifting and the signal
of one column of a line, blanking, sync and burst included; colours are those of
`AnalogTV`'s monitors, which look at the phase of the burst and at four samples.
The images of the characters are data and a constant choice; the flash of
characters is a choice of its phase.

*SwitchLevel.* A state is the set of segments that are on and of transistors that
conduct; `Rounds` is the loop of `StateCalculator::recalc` with its limit. The
chip's own network is data that TLC cannot take, so the networks are the parts
that such chips are made of.

*Configuration, Screen, Peripherals.* Each line, call or key is an operator from state
to state; the inputs are sequences of them. A line that the code refuses part way
has had the effects that came before. Texts are sequences of characters where
blanks, comments or their length matter and names elsewhere.

## Runs

| run | shows |
| --- | --- |
| `devices` | motor: the arm follows the pole as the unit test's table says, keeps in step with the rotor, comes to rest in line with the pole or opposite to it, and implements `HeadPositioner`; controller: lamp and track on the screen follow the hardware, the sequencer runs once a cycle, stops are neither lost nor left over, only the turning disk is written, and a motor switched off stops; keyboard: buffered keys are delivered once and in order, no mode makes up or reorders keys; standard input: text with one kind of line end arrives complete, in order, and its end last, and a program that goes on asking sees the end; processor: whenever power, reset and revision are switched, a reset abandons the instruction under way, writes nothing and ends at the vector, and the power-up reset comes |
| `emulator_keys` | held keys are counted, the window shows the line, REPT keeps its rate and keeps repeating the key typed last |
| `media` | tapes: no recording is lost without a question, whichever dialog is cancelled or write fails; an unmodified tape is in its file; the file of a recording tells its intervals; time passes only while a tape moves, and the level heard is that of its place; disk: the image implements `Floppy`, each quarter track has its own bits however tracks are shared, saved, merged and made anew; unmodified means saved, unless a save failed; a bit is only read on the track |
| `bus` | cards with their counters, inhibit lines and order come to what the manual's tables say of `$D000`-`$FFFF`, also while cards are changed; the window shows their switches; no other card is taken for a disk controller |
| `functions` | the functions, each property for one subject: |

* `KeysRight`: only the Apple's characters are sent, and of these exactly NUL cannot be
  typed (`key_nul` shows what the manual has of it).
* `ProcessorRight`: every documented instruction but BRK leaves registers and memory,
  and takes the cycles, that `Mos6502` says; all sums and differences are right.
* `MemoryHolds`: with any chips in any rows, what is written is read again at the same
  address, and nowhere else but at the duplicates of revision 0; where these are is the
  comment's 20K and 24K if the rows are in order, and what the code computes else; a row without power begins anew; a ROM has the
  image that was loaded last.
* `PictureRight`: dots, text and colours are where the programmer put them, in both
  revisions; the addresses of a field are those of the manual; the counters of
  `Video` and of the generator agree through power cycles, and a buffer is drawn only
  when it is full.
* `NibblesReadBack`: nibbles written by a program are read by it in a row, none lost or
  doubled, with 16 sectors at any phase of the disk, with 13 where pulses come in the
  first half of a cycle (`thirteen_sectors` shows the other half, the one that disks of
  the standard timing have).
* `NetworkSettles`: networks come to rest with the values they should have, and the
  exception comes for those that cannot, odd rings; a processor writes what it read.
* `ConfigurationObeyed`: slots, disk and dirty query after any lines are what the last
  line for each says; refused lines change nothing else; a controller's disks are gone
  with it; and the processor is that of the first line accepted, as the code has it
  (`cpu_configured` shows what the manual has).
* `WindowRight`: fields do not touch each other, names are cut and filled; the labels for
  power, speed, buffering and lines are those of the modes in force. The label of the
  window is the one for its mode when labels were last drawn, which F3 does not do, and
  that of the monitor counts how often F2 was pressed.
* `PortsRight`: a timer measures what was asked when it was free, a motor only runs when
  a program switched it on since the last reset, each click is heard once, and a text
  of the clock is one time.

Seven runs show that a sentence of a comment or of the manual is not true of the code;
TLC finds the behaviour. They are listed with the sentence under "findings" in
`PROJECT.json`:

* an asterisk is missing for a write in the load states of the sequencer
  (`disk_asterisk`);
* keys pressed between the end of a command and the next release become the
  invisible start of the next command (`emulator_command`);
* REPT repeats the key typed last, also when it was released and another is held
  (`emulator_repeat`);
* no stroke sends NUL, Shift-Control-2 included (`key_nul`);
* 20K and 24K of revision 0 do not have the duplicates of the comment if the last chips
  are in row E, because the size counts row D twice (`memory_duplicate`);
* with 13 sectors a program does not read back what it wrote, at the phases that a disk
  of the standard timing always has: a pulse lasts two steps, not the comment's one
  (`thirteen_sectors`);
* a line `cpu` does not choose the processor unless it is the first line that is not
  refused (`cpu_configured`).

### Seen in the code on the way, and not run

Disk. A save or load of one drive takes the asterisk from the selected one
(`diskcontroller.h:102`). The stepper is ticked twice in a cycle with an access
(`diskcontroller.cpp:90`). A write reaches the neighbouring quarter tracks at the same
byte and bit, where the comment has "at relative position" (`wozfile.cpp:566`). A save
does not look whether its writes succeed and always writes the standard timing
(`wozfile.cpp:360`). A file that is no WOZ image takes the disk out but leaves its name
on the screen.

Power. Powering off does not reset the slots. With revision 0, which has no power-up
reset, a motor that was on runs again after power on until RESET
(`emulator.cpp:63`). The clock card has no reset, so that a reading after RESET goes on
with the old text. The speed in the window is a division by zero if no millisecond
passed (`emulator.cpp:185`).

Processor. BRK pushes the address of the byte after its code, where a 6502 pushes the
next one, and leaves I as it is (`cpu.cpp:1218`); IRQ and NMI, which nothing calls,
would push the address of the vector (`cpu.cpp:82`). The value that
`Circuit::getValue` gives a floating group is not the one of its comment
(`Circuit.cpp:60`).

Memory. A byte written while a firmware card is switched on is not the one that a
language card in a higher slot stores: it stores the firmware's (`firmwarecard.cpp:48`,
where `usermanual.md:525` has the card as "simply an alternate ROM"). A row
of 4K chips is filled for 16K at power on, past its end (`memorychip.cpp:81`).

Keyboard. F9 asks before it quits. With buffering off a read takes
the oldest key, where `usermanual.md:394` has the last typed remembered
(`keyboard.cpp:42`). Keys of other keyboards lose bit 7, so that one with the Latin-1
code 252 sends a vertical bar.

Standard input. CR CR LF is three lines (`standardinproducer.cpp:73`), and a DEL is
taken for the end of the input (`standardin.cpp:55`).

Cassette. `eject` frees the samples and keeps the pointer, so that a second eject or
load frees them again (`cassettein.cpp:267`).
After a search that finds no tone the level is not that of the tape's place.

Configuration. A mistyped card type takes the slot out of the mask but leaves the
controller in it, so that disk commands are refused with "doesn't have a disk
controller card" (`configep2.cpp:533`). No card has a seventh ROM, whatever is
imported (`card.h`, against `usermanual.md:172`). The first line that is not refused
chooses the processor, and with no such line there is none and F1 fails (`configep2.cpp:473`), although `configuration.md` says that one
can power on without a file. A last line without its newline is dropped. A chip
model that is not known throws `std::logic_error`, which nobody catches.

Screen. The label of the window mode is not drawn again by F3, and is stale after a
dialog that left the full screen. `AnalogTV::type` is not initialised, whatever the
label says. The two greys are both drawn white.

### Bounds

* `Inertia` (1000 in the code) and `OffDelay` (1.2 s of cycles) are 2 or 3: both
  are only compared with zero and counted down, and 3 lets an access, a second
  access and a reset fall inside the delay. `LastTrack` 2 has both ends and a
  middle. The stepper is checked with all 160 positions.
* Five keys typed, of two kinds: enough for a latch, a queue of several keys,
  and any order of them.
* `Period` of REPT 2 or 3 cycles instead of 102 048; three keys held; a count of
  held keys between -2 and 2; one or two characters of a command line. Shorter
  lines suffice because editing looks only at whether the line is empty.
* `Cassette`: a tape stops after 5 cycles, intervals below 4 are kept in the file, a
  sample is 2 cycles of the tape IN and 1 of the tape OUT, a half wave of 3 cycles is
  flat for a sample at either end, and a tone is two half waves of two samples. That
  leaves intervals of each length short of the stop, at the limit and past it, of one
  sample and more, steep and flat. The tapes have a tone, or none that is found, flat
  samples and half waves of other lengths. Two pulses are recorded (the proof has any
  number); one of the tapes is in at a time, because the ports share only the cycle
  and the end of the emulator.
* `MCDevices` and `MCMedia` take the sum of their parts and not the product: a step of one
  changes nothing that another's definitions mention, so that the product has no
  state of a part that the sum has not. Five runs would show the same.
* Four characters of input (three line ends in a row need three), one other
  character.
* `KeyTranslation` is unbounded: it has every key of an American keyboard.
* Instructions: all codes, operands at both ends of the range and around its
  middle, indices that carry by one, exactly and not, both ends of the stack, and
  places where the instruction crosses a page or the end of memory. The rest of
  the memory holds a different byte at each place of a page, so that a wrong
  address shows. Sums are exhaustive.
* `Motherboard` is unbounded in resets and power cycles; its program of nine
  instructions loads, stores, pushes, branches and calls for ever, and the delay
  of 306 145 cycles is 3, fewer than the reset sequence has, so that the delayed
  reset also meets one under way.
* `Bus` has a language card in slot 0 or 7, a firmware card in either or both, and a
  disk controller in slot 7, each of which comes and goes, but one language card at
  a time (the memories of two would be too many states; the proof has any); one
  address in the bank and one in the top 2K,
  which tells both banks, the common memory and both halves of the firmware card
  apart; one byte written, so that each cell is fresh or stored; a counter modulo
  3 in the place of 256, the least that can enable writing, so that it overflows
  while it is enabled. Bit 2 of the switches selects nothing and is left out.
* `WozFile` has four quarter tracks, the third in the place of `0x89`: one before
  it that it may repeat and one after it that must be blank, and a write in the
  middle reaches three of them and leaves one. Tracks are of two or three bits:
  lengths that differ, padding on the shorter, and rounding both ways. Two writes
  make two tracks identical, or one zero, or tell tracks apart that shared one.
  The three files share tracks of neighbours and of others, have gaps at the end
  and between, and one has no track.
* `Memory` has two sockets, five fillings for each of the rows in any order, refilled
  once, five strappings with
  rows side by side, apart, swapped and on one another, both revisions, and two bytes
  written in each block of the first 48K. ROMs have three images of four lengths.
* Nibbles: five of them, the second and third any of six (of four with 13 sectors) that
  have long runs of ones, alternating bits and lone zeros; 16 sectors at a phase of the
  disk where a pulse lasts two steps and at one where it lasts one, 13 at two of either
  kind, those of the first kind in `thirteen_sectors`; a reading loop in two phases, and
  two lengths of the work between two nibbles.
* A line of the picture has two bytes in turn, of eight that have bits set at both ends
  and in the middle; cells are looked at on both sides of each change of the
  addresses. The nibbles' colours and the pairs of the palette are all of them. Power
  is switched at the start of a field, at the end of a line and within one.
* Networks: rings of up to four inverters, a flip-flop set and reset four times, a
  processor of two bits for three cycles.
* Configurations: files of three lines and command lines of four, of 25 commands, right and
  mistyped, for slot 6 and the cards it may hold. Windows: two calls in every order,
  five keys in every order.
* A machine with power, motor and paddles runs without a bound on its steps:
  `PowerUpTicks` 3 and `OffDelay` 2 as above, paddles of 0, 1 and 3 cycles and the timer
  of `Reference` 2. The speaker has `TicksPerSample` 6 and clicks around the ends of three
  samples; the clock is read, advanced and asked in every order of eight.

### Fairness

The main loop never blocks on the operator, so the cycle of the machine is weakly
fair (`Emulator::run` ticks it in every turn). A push the standard input thread
has begun completes, and a program that waits for a character goes on polling,
as the loop of `rom/stdin.m4` does; that the program goes on asking is the
assumption of the property. `MotorStops` and `PowerUpRuns` are about a machine whose
switch, or power, is not touched any more. Nothing is assumed of the operator, of
which switches a program uses, or of the input. The runs with an end do not check
deadlock: the loop ends when the operator quits, the media when the emulator has
ended, and an input of a function has no successor. In `MCDevices` the fairness of
each part is asked of the behaviours in which it runs.

## Proofs

Each proof module extends its specification and assumes only the named
assumptions on the constants.

* `StepperMotorProofs`: `MotorTypeOK`, `HeadFollowsRotor`, `Settled`, and that the motor
  implements `HeadPositioner`. The number of positions being a multiple of 16 puts
  the head's start in line with the rotor; a rotation moves both by the same
  distance or neither.
* `DiskControllerProofs`: `TypeOK`, `OneStepPerCycle`, `StopPendingIfAsked`,
  `ScreenIsTrue`, `OnlyTurningDiskWritten`. The inductive
  invariant `IInv` adds the handshake of the two halves of a cycle (before the
  CPU's half the flag is down; before the slots' half the flag tells whether the
  sequencer has run) and says of lamp and track only what the selected drive
  guarantees. Its facts about arms and screens are lemmas on values, because an
  access changes several parts before it ticks the result.
* `KeyboardProofs`: `KeyboardTypeOK` and `NoKeyLost`, by cases on whether a read takes a
  key, with lemmas on sequences; and `ClearedInOrder`, which also speaks of keys that
  are lost. Its invariant `OrderInv` is that all keys that remain (cleared, in the
  latch, in the queue) embed in those typed; a read that overwrites the latch leaves
  one out, and a lemma says that what is left still embeds.
* `KeyboardProofs`, the machine: `MachineStaysRight` is what the run checks as the part of
  `PortsRight` with motor, paddles, power and reset, for every delay of the motor and of
  the power-up reset, every reference timer, and a mouse anywhere. `PortsInv` adds that
  a timer that runs has left what was asked of it less the cycles since (`TimersInv`;
  `MachineRight` only compares whether it has run out) and speaks of the processor also
  when the motor is off (`ResetInv`), because the motor may be switched on later. One
  lemma for each method says what it leaves alone. The
  history `spun` forgets the switch in the last cycle of the delay only where there is
  a power-up reset: of revision 0 nobody counts the delay.
* `KeyboardProofs`, the counters of a field: `CountersStayInStep` is the part of
  `PictureRight` about them. TLC switches the power in three cycles of a field and
  at three places of the noise; the theorem has it in any cycle, and the counters that
  nothing sets before power on may hold anything. `AtRow` names the row: the four
  counters are those of a column of it, and the last column leads to the next row or,
  in all four at once, to the first.
* `EmulatorProofs`, the keys: `KeysCounted`, `LineIsShown` and `RepeatsNoFaster`, each with an
  invariant of its own. `CountInv`: the keys held are finitely many and, until one
  strays, `keysDown` is the number of those counted; a key event changes both by
  one or neither. `LineInv`: between commands the line is empty, unless a key ran
  into it. `TimerInv`: while REPT is held, what the timer has left and what has
  passed since it was set add up to the period. `TypeOK` rests on it: the time since
  the timer was set is bounded only because the timer itself is.
* `EmulatorProofs`, the machine: `MachineTypeOK`, `NothingWrittenUnreset` and
  `StartsAtVector`, for any bytes in ROM (`CpuAssumption`) and RAM
  (`MotherboardAssumption`), so for any program, and any delay. `MachineInv` says that
  the processor is well typed and at a cycle of the routine of its code (`Placed`), and,
  while the power is on, that a reset being served is where its sequence has come to
  (`Resetting`): the code is `RESET`, the program counter at the vector, in the last
  cycle the low byte read from it, and I set from the fifth. With the power off that
  may be false, because the constructor leaves the fields as they are; it is true
  again after power on because the processor is not started until a reset. Types are proved of each operation, each
  statement, each routine and the fold of the statements of a cycle, which is shown to
  be a run through them (`FoldRuns`); the bits of the status register add up to a byte
  in whichever order they are summed (`FromBitsIsWeight`). The types
  are needed because a cycle is only defined if its number is within the routine of
  the code, which `MachineTypeOK` states: so the code must be a byte, and with it every byte fetched, stored and
  read again.
* `CassetteProofs`, the tape OUT and the operator: `UnmodifiedTapeIsSaved`,
  `ClockIsTrue`, `NothingLostUnasked`. The inductive invariant adds the type of the tape
  OUT, the bound of `since`, and that only a loaded tape moves or has changes. An eject
  is part of three commands, so what it does is a lemma on its result, by answer and
  outcome of the write.
* `CassetteProofs`, playing: `LevelFollowsTape`, for every tape, every tone and every
  length of a sample shorter than the automatic stop (one that is longer would stop the
  tape before the next sample). The invariant says where level and slope stand to the
  place of the tape: at its sample; or off, where the tape stopped by itself as it came
  to a steep sample or a search went to the end in vain, until the next steep sample
  mends it; or ahead by one, where it was sent to the tone, a cycle before its sample.
  The direction with which the level is up is fixed by the first steep sample after a
  rewind, or of a search (`rise`), and each turn keeps it: an induction over the search.
* `CassetteProofs`, the file: `FileTellsIntervals`, for every number of intervals. The bytes
  of an interval are a half wave that runs one way, level at its ends for the samples
  that rounding and clipping make the same; the next begins at the extreme where this
  one ends. An induction over the intervals adds one half wave at a time
  (`WrittenNext`): it joins the file so far without an edge of its own at the joint
  (`FilesJoined`) and has one where its flat samples end (`TurnedOnce`).
* `CassetteProofs`, the types: `TapesTypeOK` for both tapes and the operator, from both
  invariants above and `TypeInv`: a tape that moves has some of its pause left, so no
  time counted, recorded or written exceeds it.
* `StdinCardProofs`: `StdinTypeOK` and `LinesFedInOrder` for texts of any length and characters
  of any number. `IInv` says of the queue that it holds what the text so far
  means (with its last cell unfilled between the two halves of a push), that the end is
  only ever its last element, what state of the thread belongs to the last
  character read, for each of the three kinds of line end, and that what the
  program has received, what is latched and what is queued make up the text. The
  lemmas on `Without` (texts without some characters) go by induction on the
  sequence, from its end. The property is about runs in which the race has not struck.
* `WozFileProofs`: `TypeOK`, `UnmodifiedIsSaved`, `TracksSurviveSaves`,
  `BitReadIsOnTrack`, and that the image implements `Floppy`. `IInv` adds that disk
  and file are well formed (the tracks that exist are those that quarter tracks
  refer to), and that an image that is loaded is expanded: every quarter track has a
  track, of at least one bit, and no two share one. `ExpandTracks` is proved over
  its loop: after k quarter tracks the first k have tracks of their own with the
  bits they had. A free slot always exists, because there are as many as quarter
  tracks and those already given out are fewer (a pigeonhole with cardinalities).
  The three passes of `ReduceTracks` (blank tracks, identical tracks, the last
  quarter track) have a lemma each, of what they keep of the bits.
* `BusProofs`: that `LanguageIo` is the row of the manual's table, for every width
  of the counter (`LanguageIoIsTable`; the argument is that a card which has not
  enabled writing has counted to one at most, so that the counter can only
  overflow where nobody looks at it), `ShownSwitches` and `MaskedAreControllers`.
  The inductive invariant adds that every slot holds a well-formed card, its
  memory left aside; a lemma for each method of the cards says that it keeps the
  kind of the card, and which of them leave its switches alone.
* `BusProofs`, the refinement: `TypeOK`, and `ImplementsMemoryMap` for any slots, switches,
  addresses, width of the counter and types of cards in any slots. `MInv` adds bytes and that a
  slot only holds cards of its types. For a read, an induction over the slots says
  that the byte so far is that of the last card that drove the address, if one did
  (`ReadSoFar`); for a write, that it is the processor's unless a firmware card was
  passed (`WrittenSoFar`). Each method of a card is the map's operation on its switches
  (`ReadAsMapped`, `WrittenAsMapped`, `CardIoIsSwitch`, `CardResetIsReset`,
  `NewCardIsFresh`), and each action of the bus then is the map's action.
* `BusProofs`, the memory: what the run checks as `MemoryHolds` of two sockets and the
  fillings and straps it lists, for any number of sockets, any chips in any rows and
  blocks strapped anywhere, also over each other:
  `MemoryHoldsWhatIsWritten` and `MemoryBeginsAnew`. They rest on `IsRam`, which says that
  a row has as many bytes as its smallest chip; `RamStaysRam` says that commands, straps,
  writes and the power keep it. So a block never reaches past its row (`BlockInRow`, the
  bound that `MemoryRow::write` does not check), a write changes nothing that decides
  who answers (`SameAnswers`). Where rows are in order, and only of these, the size
  computed from D twice has the fault where the comment says (`FaultIsAsCommented`). The
  `RamLine` of a command, a recursion over
  the sockets, and what ROM images leave stay with the run.

What recursive functions compute (`ByteAt`, `Without`, the loops of `WozFile` and
`Cassette`) is proved without an induction rule for formulas: the lemma `Induction`
says that a set of numbers that holds 0 and with each number the next is all of
`Nat` (from the well-foundedness of `<`), and a proof applies it to the set of the
numbers for which the claim is true. That a recursive function exists comes first, as
an induction on the loops of length k.

Only model-checked: liveness (`MotorStops`, `KeepsRepeating`, `EndIsSeen`, `PowerUpRuns`),
which the prover cannot do, and the rest of `MCFunctions`, which compares functions
with references over listed inputs; of these what is proved for all inputs is named
above: memory, the machine of motor, paddles and power, and the counters of a field. The
rest are functions of finitely many inputs or folds over sequences (dots of a line,
clicks, texts, instructions, networks, lines of a configuration), where a theorem would
be the enumeration again or an induction over data. Every other property of a passing
run is a theorem.

## Not modelled

* Arithmetic on levels without a protocol: the televisions of `analogtv.cpp` with their
  filters. Their monitors are in `Picture`.
* Data: the images of characters and of the fonts, the network of the 6502 chip.
* Input and output: pacing to real time, the window system, the sound device, the
  clipboard, the screen shot, the start of the program, and the vendored dialogs
  (`tinyfiledialogs.cpp`), whose answers are choices.
* What has no effect on the rest: `Trace`, IRQ and NMI of `Cpu`, which nothing calls,
  the counter of flashing characters, the buttons of the paddles, which pass the
  mouse on.
* What SDL makes of a sound file on the way to the tape IN (`cassettein.cpp:240`): the tapes
  are any.
* Undefined behaviour that corrupts memory: the overflow of a row of 4K chips; of samples
  freed twice only that the emulator may end. Other undefined behaviour is a choice where it is modelled: the latch
  of the keyboard, `lastKeyDown` and the fields of `Cpu` are not initialised, and the
  queue of standard input is raced.

## Plan

1. Disk ][ head and controller, with proofs; keyboard and operator keys; standard
   input. *Done.*
2. `WozFile` with `Floppy`, and its proofs; `DiskSequencer`. *Done.*
3. `Cassette` with the quit dialog, and its proofs. *Done.*
4. `Cpu` with `Mos6502`, `Motherboard`, and its proofs. *Done.*
5. `Cards`, `Bus` with `MemoryMap`, and its proofs; `Memory`, `Configuration`. *Done.*
6. `SwitchLevel`, `Picture`, `Screen`, `Peripherals`. *Done* as functions.
7. `StdinCard` without the race: the order of what is fed, proved. *Done.*
8. Proofs of the power and reset of `Motherboard`, for every program. *Done.*
9. Proofs of the functions used in steps: memory, the machine of motor, paddles and
   power, the counters of a field. *Done*; the program at the disk stays with TLC.
10. The file of a recording, the level after searches in vain, memory with chips in any
   rows, cards in any order: checked and proved without conditions. *Done.*
