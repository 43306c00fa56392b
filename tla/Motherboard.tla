---------------------------- MODULE Motherboard -----------------------------
(***************************************************************************)
(* Power, reset and the processor (Apple2::tick, powerOn and reset in      *)
(* apple2.cpp; powerupreset.cpp; F1 and F6 in emulator.cpp).  One step is  *)
(* one cycle of the machine or one act of the operator.  The other parts   *)
(* of the machine are left out, but for the contents of the memory.        *)
(***************************************************************************)
EXTENDS Cpu

CONSTANTS PowerUpTicks,  \* E2Const::AVG_CPU_HZ * .3
          RamContents,   \* what the chips may hold after power on
          Revisions      \* of the motherboard: the first, 0, has no power-up reset

ASSUME MotherboardAssumption ==
  /\ PowerUpTicks \in Nat \ {0} /\ Revisions \subseteq Nat
  /\ \A ram \in RamContents : IsMemory(ram)

VARIABLES cpu, powered, resetTicks, revision

machineVars == <<cpu, powered, resetTicks, revision>>

\* The constructor leaves the fields as they are in memory; only those that
\* tell whether the processor runs matter.
Unpowered ==
  [started : BOOLEAN, pendingReset : BOOLEAN, t : {0, 5}, opcode : {0},
   a : {0}, x : {0}, y : {0}, s : {0, \h80}, p : {{}}, pc : {0},
   adl : {0}, adh : {0}, bal : {0}, bah : {0}, address : {0}, data : {0},
   branch : {FALSE}, sc : {0}, wc : {FALSE}, mem : {<<>>}]

\* Apple2 has revision 1 until the configuration says otherwise.
MachineInit ==
  /\ cpu \in Unpowered
  /\ powered = FALSE
  /\ resetTicks = 0
  /\ revision = 1

-----------------------------------------------------------------------------
\* PowerUpReset::tick
PowerUpTicked(pending) == IF pending > 0 THEN pending - 1 ELSE pending

\* FAULT: the delay is set up once, with the machine.
PowerUpLeft(pending) == pending

\* PowerUpReset::powerOn
PowerUpDelay(pending) == PowerUpTicks

\* Apple2::tick: the processor's cycle, then the delay, which may end in a reset.
Tick ==
  LET delaying == revision > 0 /\ resetTicks > 0
      ticked   == CpuTick(cpu)
  IN  /\ powered
      /\ resetTicks' = IF revision > 0 THEN PowerUpTicked(resetTicks) ELSE resetTicks
      /\ cpu' = IF delaying /\ resetTicks' = 0 THEN CpuReset(ticked) ELSE ticked
      /\ UNCHANGED <<powered, revision>>

\* F1 with the power off
PowerOn ==
  /\ ~powered
  /\ powered' = TRUE
  /\ \E ram \in RamContents : cpu' = [CpuPowerOn(cpu) EXCEPT !.mem = ram]
  /\ resetTicks' = PowerUpDelay(resetTicks)
  /\ UNCHANGED revision

\* F1 with the power on
PowerOff ==
  /\ powered
  /\ powered' = FALSE
  /\ UNCHANGED <<cpu, resetTicks, revision>>

\* F6, whether the power is on or not
PressReset ==
  /\ cpu' = CpuReset(cpu)
  /\ UNCHANGED <<powered, resetTicks, revision>>

\* The command "revision"
SetRevision(r) ==
  /\ revision' = r
  /\ UNCHANGED <<cpu, powered, resetTicks>>

MachineNext ==
  \/ Tick
  \/ PowerOn
  \/ PowerOff
  \/ PressReset
  \/ \E r \in Revisions : SetRevision(r)

MachineSpec == MachineInit /\ [][MachineNext]_machineVars

\* The main loop ticks the machine in every turn.
FairMachineSpec == MachineSpec /\ WF_machineVars(Tick)

-----------------------------------------------------------------------------
(* Properties.                                                             *)

\* The processor runs a program: a reset has been served since power on.
Running == powered /\ cpu.started /\ ~cpu.pendingReset

Vector == Pair(BusRead(cpu, RESET_VECTOR), BusRead(cpu, RESET_VECTOR + 1))

MachineTypeOK ==
  /\ powered \in BOOLEAN
  /\ resetTicks \in 0 .. PowerUpTicks
  /\ revision \in Revisions \cup {1}
  /\ cpu.started \in BOOLEAN /\ cpu.pendingReset \in BOOLEAN
  /\ cpu.opcode \in Bytes \cup {RESET}
  /\ cpu.t \in 0 .. Len(Microcode[AddrTable[cpu.opcode]])
  /\ {cpu.a, cpu.x, cpu.y, cpu.s, cpu.data, cpu.adl, cpu.adh, cpu.bal, cpu.bah} \subseteq Bytes
  /\ {cpu.pc, cpu.address} \subseteq Words /\ cpu.p \subseteq Flags
  /\ DOMAIN cpu.mem \subseteq Words /\ \A address \in DOMAIN cpu.mem : cpu.mem[address] \in Bytes

\* Nothing is written to memory between power on and the first instruction, nor
\* between a reset and the first instruction after it: the reset sequence reads
\* where an interrupt would push (addr_RESET).
NothingWrittenUnreset == [][powered /\ cpu'.mem # cpu.mem => Running]_machineVars

\* A program starts to run only where the reset vector points, with interrupts
\* disabled, whether power, reset and revision were switched in the delay of the
\* power-up reset, in the reset sequence or with the power off.
StartsAtVector ==
  [][~Running /\ Running' => cpu'.pc = Vector /\ "I" \in cpu'.p /\ cpu'.t = 0]_machineVars

\* A machine that has its power-up reset, is left on and not reset by hand for
\* ever comes to run its program, however it was switched before.
PowerUpRuns ==
  <>[](powered /\ revision > 0) /\ <>[][~PressReset]_machineVars => <>[]Running
=============================================================================
