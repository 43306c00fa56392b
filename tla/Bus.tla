-------------------------------- MODULE Bus ---------------------------------
(***************************************************************************)
(* The address bus (addressbus.cpp) with the slots and their cards         *)
(* (slots.cpp), and the slot lines of the configuration                    *)
(* (Config::insertCard), which the operator can also type while the        *)
(* machine runs.  One step is one cycle of the processor on the bus, a     *)
(* reset or a line.  The memory below $C000 and the devices at the         *)
(* switches have modules of their own: here they only answer with a byte.  *)
(***************************************************************************)
EXTENDS Cards

CONSTANTS Slots,         \* the slots used; the others stay empty
          Switches,      \* of the sixteen of a slot, those the programs use
          Bytes,         \* what the processor writes and devices answer
          RomByte,       \* what the motherboard's ROM holds
          SlotRomByte,   \* what the cards' own ROM holds
          CardTypes      \* for each slot, the types the operator puts there

ASSUME BusAssumption ==
  /\ Slots \subseteq 0 .. 7 /\ Switches \subseteq 0 .. 15
  /\ Bytes \subseteq 0 .. 255
  /\ RomByte \in 0 .. 255 /\ SlotRomByte \in 0 .. 255
  /\ \A s \in Slots :
       CardTypes[s] \subseteq {"empty", "language", "firmware", "disk", "other", "mistyped"}

VARIABLES
  cards,      \* Slots::cards
  data,       \* AddressBus::data, which keeps the last byte (floating bus)
  disk_mask,  \* Config::disk_mask, as the set of slots
  shown       \* what the window says of the cards

vars == <<cards, data, disk_mask, shown>>

\* Every byte that can be on the bus
AllBytes ==
  LET given == Bytes \cup {0, RomByte, SlotRomByte, FirmwareByte}
  IN  {b % 128 : b \in given} \cup {(b % 128) + 128 : b \in given}

\* AddressBus::data is not initialised.
Init ==
  /\ cards = [s \in Slots |-> NewCard("empty")]
  /\ data \in Bytes
  /\ disk_mask = {}
  /\ shown = [s \in Slots |-> NameShown("empty")]

-----------------------------------------------------------------------------
\* The byte as it comes to slot s: each card may change it for the next
\* (Slots::ioBankRom).
ByteAt(a, b, write) ==
  LET at[s \in 0 .. 8] ==
        CASE s = 0                     -> b
          [] s > 0 /\ s - 1 \in Slots    -> CardBankRom(cards[s - 1], a, at[s - 1], write).byte
          [] OTHER                     -> at[s - 1]
  IN  at

\* Slots::ioBankRom
SlotsBankRom(a, b, write) ==
  LET at == ByteAt(a, b, write)
  IN  /\ cards' = [s \in Slots |-> CardBankRom(cards[s], a, at[s], write).card]
      /\ data' = at[8]

\* Slots::inhibitMotherboardRom: any card can hold the line.
InhibitMotherboardRom(after) == \E s \in Slots : InhibitsRom(after[s])

\* AddressBus::read at $D000-$FFFF: the cards first, then the ROM over them
\* unless the line is held.
ReadBankRom(a) ==
  LET at    == ByteAt(a, data, FALSE)
      after == [s \in Slots |-> CardBankRom(cards[s], a, at[s], FALSE).card]
  IN  /\ cards' = after
      /\ data' = IF InhibitMotherboardRom(after) THEN at[8] ELSE RomByte
      /\ UNCHANGED <<disk_mask, shown>>

\* AddressBus::write at $D000-$FFFF
WriteBankRom(a, d) ==
  /\ SlotsBankRom(a, d, TRUE)
  /\ UNCHANGED <<disk_mask, shown>>

\* FAULT: the window is told of the reads only.
ShownAfterRead(c, old, writing) == IF writing THEN old ELSE SwitchesShown(c)

\* The cards tell the window of every access to their switches.
ShownAfter(c, old, writing) == SwitchesShown(c)

\* Slots::io from AddressBus::readSwitch and writeSwitch.  A disk controller,
\* clock or standard input card answers with a byte of its own.
SlotIo(s, sw, writing) ==
  LET c == CardIo(cards[s], sw, writing)
  IN  /\ cards' = [cards EXCEPT ![s] = c]
      /\ shown' = [shown EXCEPT ![s] = IF c.kind \in {"language", "firmware"}
                                         THEN ShownAfter(c, @, writing) ELSE @]
      /\ UNCHANGED disk_mask

ReadSlotSwitch(s, sw) ==
  /\ SlotIo(s, sw, FALSE)
  /\ data' \in IF cards[s].kind \in {"disk", "other"} THEN Bytes \cup {data} ELSE {data}

WriteSlotSwitch(s, sw, d) ==
  /\ SlotIo(s, sw, TRUE)
  /\ data' = d

\* AddressBus::setD7
WithD7(b, set) == (b % 128) + (IF set THEN 128 ELSE 0)

\* AddressBus::readSwitch below $C080: the keyboard gives a byte, cassette,
\* buttons and paddles the highest bit, the trigger of the paddles sets it;
\* the others leave the bus as it is.
ReadSwitch(group) ==
  /\ data' \in CASE group = 0 -> Bytes
                 [] group = 6 -> {WithD7(data, set) : set \in BOOLEAN}
                 [] group = 7 -> {WithD7(data, TRUE)}
                 [] OTHER     -> {data}
  /\ UNCHANGED <<cards, disk_mask, shown>>

\* Slots::readRom: an empty slot leaves the bus as it is.
ReadSlotRom(s) ==
  /\ data' = IF cards[s].kind = "empty" THEN data ELSE SlotRomByte
  /\ UNCHANGED <<cards, disk_mask, shown>>

\* The rest of AddressBus::read and write: the memory below $C000, which may
\* answer with any byte, and addresses where a write has no effect.
AccessElsewhere(d) ==
  /\ data' = d
  /\ UNCHANGED <<cards, disk_mask, shown>>

\* Slots::reset
Reset ==
  /\ cards' = [s \in Slots |-> CardReset(cards[s])]
  /\ shown' = [s \in Slots |->
                 IF cards[s].kind = "firmware" THEN SwitchesShown(cards'[s]) ELSE shown[s]]
  /\ UNCHANGED <<data, disk_mask>>

-----------------------------------------------------------------------------
\* FAULT: the slot stays a disk controller's.
DiskMaskGrown(mask, s, type) == mask \cup (IF type = "disk" THEN {s} ELSE {})

\* Config::insertCard: the bit is cleared before the type is looked at.
DiskMask(mask, s, type) == (mask \ {s}) \cup (IF type = "disk" THEN {s} ELSE {})

\* Slots::set and remove: the old card is deleted, and the window names the new.
SlotsSet(s, type) ==
  /\ cards' = [cards EXCEPT ![s] = NewCard(type)]
  /\ shown' = [shown EXCEPT ![s] = NameShown(type)]

\* Config::insertCard: an unknown type throws, and the card stays.
InsertCard(s, type) ==
  /\ disk_mask' = DiskMask(disk_mask, s, type)
  /\ IF type = "mistyped"
       THEN UNCHANGED <<cards, shown>>
       ELSE SlotsSet(s, type)
  /\ UNCHANGED data

Next ==
  \/ \E a \in BankAddresses : ReadBankRom(a)
  \/ \E a \in BankAddresses, d \in Bytes : WriteBankRom(a, d)
  \/ \E s \in Slots, sw \in Switches : ReadSlotSwitch(s, sw)
  \/ \E s \in Slots, sw \in Switches, d \in Bytes : WriteSlotSwitch(s, sw, d)
  \/ \E group \in 0 .. 7 : ReadSwitch(group)
  \/ \E s \in Slots \ {0} : ReadSlotRom(s)
  \/ \E d \in Bytes : AccessElsewhere(d)
  \/ Reset
  \/ \E s \in Slots : \E type \in CardTypes[s] : InsertCard(s, type)

Spec == Init /\ [][Next]_vars

-----------------------------------------------------------------------------
\* Each card's switches as the table of the manual names them
Published(c) ==
  CASE c.kind = "language" ->
         [kind |-> c.kind, read |-> c.readEnable, bank |-> IF c.bank = 1 THEN 2 ELSE 1,
          write |-> CASE c.writeEnable -> "enabled"
                      [] ~c.writeEnable /\ c.writeCount > 0 -> "armed"
                      [] OTHER -> "disabled"]
    [] c.kind = "firmware" -> [kind |-> c.kind, d |-> c.inhibitBankRom, f8 |-> c.inhibitF8Rom]
    [] OTHER               -> [kind |-> c.kind]

RamOf(c) == IF c.kind = "language" THEN c.ram ELSE <<>>

Map == INSTANCE MemoryMap WITH
         switches <- [s \in Slots |-> Published(cards[s])],
         ram      <- [s \in Slots |-> RamOf(cards[s])],
         Bytes    <- AllBytes

\* Each step of the bus is the step of the map for the same access.
MapStep ==
  /\ \A a \in BankAddresses : ReadBankRom(a) => Map!Read(a)
  /\ \A a \in BankAddresses, d \in Bytes : WriteBankRom(a, d) => Map!Write(a, d)
  /\ \A s \in Slots, sw \in Switches :
       /\ ReadSlotSwitch(s, sw) => Map!Switch(s, sw, FALSE)
       /\ \A d \in Bytes : WriteSlotSwitch(s, sw, d) => Map!Switch(s, sw, TRUE)
  /\ Reset => Map!Reset
  /\ \A s \in Slots : \A type \in CardTypes[s] :
       InsertCard(s, type) => IF type = "mistyped" THEN Map!Elsewhere ELSE Map!Plug(s, type)

(***************************************************************************)
(* Whatever a program does with the switches, and whatever cards are in    *)
(* which slots and changed meanwhile, it finds at $D000-$FFFF what the     *)
(* manual's tables say: counter, inhibit lines and the byte handed from    *)
(* slot to slot come to one source for a read, and for a write to the      *)
(* enabled memory alone, which gets the byte written unless a firmware     *)
(* card in a slot before it is switched on (MemoryMap's Carried).          *)
(***************************************************************************)
ImplementsMemoryMap == Map!Init /\ [][MapStep]_vars

(***************************************************************************)
(* The window shows the switches of the card that is in the slot: the      *)
(* cards tell it of each change, and a new card is announced by a name     *)
(* that spells out the switches as its constructor sets them.              *)
(***************************************************************************)
ShownSwitches == \A s \in Slots : shown[s] = SwitchesShown(cards[s])

(***************************************************************************)
(* Config::loadDisk and unloadDisk cast the card of a slot in disk_mask to *)
(* a disk controller: it must be one, whatever lines came before.          *)
(***************************************************************************)
MaskedAreControllers == \A s \in disk_mask : cards[s].kind = "disk"

\* The values of the variables
TypeOK ==
  /\ \A s \in Slots :
       \/ cards[s] \in [kind : {"empty", "disk", "other"}]
       \/ cards[s] \in [kind : {"firmware"}, inhibit : BOOLEAN, inhibitBankRom : BOOLEAN,
                        inhibitF8Rom : BOOLEAN]
       \/ cards[s] \in [kind : {"language"}, inhibit : BOOLEAN, bank : {0, 1},
                        readEnable : BOOLEAN, writeEnable : BOOLEAN,
                        writeCount : 0 .. CountMod - 1, ram : [Cells -> 0 .. 255]]
  /\ data \in AllBytes
  /\ disk_mask \subseteq Slots
=============================================================================
