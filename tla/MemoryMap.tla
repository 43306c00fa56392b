----------------------------- MODULE MemoryMap ------------------------------
(***************************************************************************)
(* What a program sees at $D000-$FFFF, as the user's manual describes it   *)
(* (docs/usermanual.md, Language, with the table of Sather's book, and     *)
(* Firmware): no count, no inhibit line and no byte handed from card to    *)
(* card, but for each card what its switches say, and for each address     *)
(* one source.  The one thing that is the code's own and not the manual's  *)
(* is the byte that a write Carried past a firmware card.                  *)
(***************************************************************************)
EXTENDS Integers, FiniteSetsExt

CONSTANTS Slots, Bytes, BankAddresses, RomByte, FirmwareByte

VARIABLES
  switches,  \* what each slot's card is switched to
  ram,       \* what the memory of each slot's card holds
  data       \* the byte on the bus

vars == <<switches, ram, data>>

Cells == {0, 1} \X {a \in BankAddresses : a < \h1000}
           \cup {2} \X {a \in BankAddresses : a >= \h1000}

\* A card as it comes: bank 2 for writing, but not for reading
Fresh(kind) ==
  CASE kind = "language" -> [kind |-> kind, read |-> FALSE, write |-> "enabled", bank |-> 2]
    [] kind = "firmware" -> [kind |-> kind, d |-> FALSE, f8 |-> FALSE]
    [] OTHER             -> [kind |-> kind]

FreshRam(kind) == IF kind = "language" THEN [x \in Cells |-> 0] ELSE <<>>

Init ==
  /\ switches = [s \in Slots |-> Fresh("empty")]
  /\ ram = [s \in Slots |-> <<>>]
  /\ data \in Bytes

\* The table: a read of an odd address enables writing if the access before it
\* was one too, an even address disables it, a write only forgets the first.
WriteSwitch(m, i, writing) ==
  CASE i % 2 = 0                        -> "disabled"
    [] i % 2 = 1 /\ writing             -> IF m = "enabled" THEN m ELSE "disabled"
    [] i % 2 = 1 /\ ~writing            -> IF m = "disabled" THEN "armed" ELSE "enabled"

Switched(m, i, writing) ==
  CASE m.kind = "language" -> [m EXCEPT !.read = i \in {0, 3, 4, 7, 8, 11, 12, 15},
                                        !.write = WriteSwitch(@, i, writing),
                                        !.bank = IF i < 8 THEN 2 ELSE 1]
    [] m.kind = "firmware" -> [m EXCEPT !.d = i % 2 = 0, !.f8 = i % 4 \in {2, 3}]
    [] OTHER               -> m

Place(m, a) == IF a >= \h1000 THEN <<2, a>> ELSE <<m.bank - 1, a>>

Drives(m, a) ==
  CASE m.kind = "language" -> m.read
    [] m.kind = "firmware" -> IF a < \h2800 THEN m.d ELSE m.f8
    [] OTHER               -> FALSE

-----------------------------------------------------------------------------
\* A read takes the byte from the last card that drives the address, or from
\* the motherboard's ROM if there is none.
Read(a) ==
  LET driving == {s \in Slots : Drives(switches[s], a)}
      source  == Max(driving)
  IN  /\ data' = CASE driving = {}                         -> RomByte
                   [] driving # {} /\ switches[source].kind = "language" ->
                        ram[source][Place(switches[source], a)]
                   [] OTHER                                -> FirmwareByte
      /\ UNCHANGED <<switches, ram>>

\* The byte of a write as slot s gets it: a firmware card in a slot before it
\* that drives the address puts its own there, in a write as in a read.  Of that
\* the manual says nothing.
Carried(s, a, d) ==
  IF \E f \in Slots : f < s /\ switches[f].kind = "firmware" /\ Drives(switches[f], a)
    THEN FirmwareByte ELSE d

\* A write reaches the memory that is enabled for it, and no other.
Write(a, d) ==
  /\ ram' = [s \in Slots |->
               IF switches[s].kind = "language" /\ switches[s].write = "enabled"
                 THEN [ram[s] EXCEPT ![Place(switches[s], a)] = Carried(s, a, d)]
                 ELSE ram[s]]
  /\ data' \in Bytes
  /\ UNCHANGED switches

Switch(s, i, writing) ==
  /\ switches' = [switches EXCEPT ![s] = Switched(@, i, writing)]
  /\ data' \in Bytes
  /\ UNCHANGED ram

\* RESET turns the firmware cards off and leaves the language cards alone.
Reset ==
  /\ switches' = [s \in Slots |->
                    IF switches[s].kind = "firmware" THEN Fresh("firmware") ELSE switches[s]]
  /\ UNCHANGED <<ram, data>>

Plug(s, kind) ==
  /\ switches' = [switches EXCEPT ![s] = Fresh(kind)]
  /\ ram' = [ram EXCEPT ![s] = FreshRam(kind)]
  /\ UNCHANGED data

Elsewhere == data' \in Bytes /\ UNCHANGED <<switches, ram>>

Next ==
  \/ Elsewhere
  \/ \E a \in BankAddresses : Read(a) \/ \E d \in Bytes : Write(a, d)
  \/ \E s \in Slots, i \in 0 .. 15, writing \in BOOLEAN : Switch(s, i, writing)
  \/ \E s \in Slots, kind \in {"empty", "language", "firmware", "disk", "other"} : Plug(s, kind)
  \/ Reset

Spec == Init /\ [][Next]_vars
=============================================================================
