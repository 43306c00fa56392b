------------------------------- MODULE Cards --------------------------------
(***************************************************************************)
(* The cards that answer at $D000-$FFFF: the language card                 *)
(* (languagecard.cpp) with 16K of memory, and the firmware card            *)
(* (firmwarecard.cpp) with a ROM.  A card is a record, and a method of a   *)
(* card an operator on it.  Of the other cards (disk, clock, standard      *)
(* output and input) only the kind is kept here.  An address is an offset  *)
(* from $D000.                                                             *)
(*                                                                         *)
(* Card::activeSeventhRom is left out: no card overrides hasSeventhRom(),  *)
(* so that readSeventhRom never changes the byte.                          *)
(***************************************************************************)
EXTENDS Integers

CONSTANTS CountMod,       \* writeCount is an unsigned char: 256
          BankAddresses,  \* the addresses used, offsets from $D000
          FirmwareByte    \* what bankRom of a firmware card holds

ASSUME CardsAssumption ==
  /\ CountMod \in Nat /\ CountMod > 2
  /\ BankAddresses \subseteq 0 .. \h2FFF
  /\ FirmwareByte \in 0 .. 255

\* ramBank[0], ramBank[1] and ramTop, as the blocks 0, 1 and 2
Cells == {0, 1} \X {a \in BankAddresses : a < \h1000}
           \cup {2} \X {a \in BankAddresses : a >= \h1000}

NewLanguageCard ==
  [kind |-> "language", inhibit |-> FALSE, bank |-> 1, readEnable |-> FALSE,
   writeEnable |-> TRUE, writeCount |-> 0, ram |-> [x \in Cells |-> 0]]

NewFirmwareCard ==
  [kind |-> "firmware", inhibit |-> FALSE, inhibitBankRom |-> FALSE, inhibitF8Rom |-> FALSE]

NewCard(kind) ==
  CASE kind = "language" -> NewLanguageCard
    [] kind = "firmware" -> NewFirmwareCard
    [] OTHER             -> [kind |-> kind]

-----------------------------------------------------------------------------
\* FAULT: a write of the switch counts as well.
WriteCountOfAny(c, sw, writing) == IF sw % 2 = 1 THEN (c.writeCount + 1) % CountMod ELSE 0

\* LanguageCard::io, the counter: only reads of odd addresses count.
WriteCount(c, sw, writing) ==
  IF sw % 2 = 1 /\ ~writing THEN (c.writeCount + 1) % CountMod ELSE 0

\* LanguageCard::io
LanguageIo(c, sw, writing) ==
  LET count == WriteCount(c, sw, writing)
  IN  [c EXCEPT !.writeCount  = count,
                !.writeEnable = sw % 2 = 1 /\ (@ \/ count > 1),
                !.readEnable  = sw % 4 \in {0, 3},
                !.bank        = IF (sw \div 8) % 2 = 0 THEN 1 ELSE 0]

\* FirmwareCard::io
FirmwareIo(c, sw) ==
  [c EXCEPT !.inhibitBankRom = sw % 2 = 0, !.inhibitF8Rom = (sw \div 2) % 2 = 1]

\* Card::io, as far as it concerns the memory
CardIo(c, sw, writing) ==
  CASE c.kind = "language" -> LanguageIo(c, sw, writing)
    [] c.kind = "firmware" -> FirmwareIo(c, sw)
    [] OTHER               -> c

\* Card::reset: a language card keeps its switches.
CardReset(c) ==
  IF c.kind = "firmware" THEN [c EXCEPT !.inhibitBankRom = FALSE, !.inhibitF8Rom = FALSE] ELSE c

\* LanguageCard::ioBankRom sets the line anew in every access.
LanguageInhibit(c, write) == c.readEnable /\ ~write

\* The place of an address in the card's memory
Cell(c, a) == IF a < \h1000 THEN <<c.bank, a>> ELSE <<2, a>>

\* LanguageCard::ioBankRom: the card afterwards, and the byte on the bus
LanguageBankRom(c, a, b, write) ==
  LET stores == write /\ c.writeEnable
  IN  [card |-> [c EXCEPT !.inhibit = LanguageInhibit(c, write),
                          !.ram = IF stores THEN [@ EXCEPT ![Cell(c, a)] = b] ELSE @],
       byte |-> IF c.readEnable /\ ~write THEN c.ram[Cell(c, a)] ELSE b]

\* FirmwareCard::ioBankRom: the card does not look whether it is a write.
FirmwareBankRom(c, a, b) ==
  LET drives == IF a < \h2800 THEN c.inhibitBankRom ELSE c.inhibitF8Rom
  IN  [card |-> [c EXCEPT !.inhibit = drives], byte |-> IF drives THEN FirmwareByte ELSE b]

\* Card::ioBankRom
CardBankRom(c, a, b, write) ==
  CASE c.kind = "language" -> LanguageBankRom(c, a, b, write)
    [] c.kind = "firmware" -> FirmwareBankRom(c, a, b)
    [] OTHER               -> [card |-> c, byte |-> b]

\* Card::inhibitMotherboardRom
InhibitsRom(c) == c.kind \in {"language", "firmware"} /\ c.inhibit

\* What Card::getName says of the switches when a card is put into its slot
NameShown(kind) ==
  CASE kind = "language" -> [kind |-> kind, r |-> FALSE, w |-> TRUE, b |-> 2]
    [] kind = "firmware" -> [kind |-> kind, d |-> FALSE, f8 |-> FALSE]
    [] OTHER             -> [kind |-> kind]

\* What ScreenImage::setLangCard and setFirmCard show of a card's switches
SwitchesShown(c) ==
  CASE c.kind = "language" -> [kind |-> c.kind, r |-> c.readEnable, w |-> c.writeEnable,
                               b |-> IF c.bank = 0 THEN 1 ELSE 2]
    [] c.kind = "firmware" -> [kind |-> c.kind, d |-> c.inhibitBankRom, f8 |-> c.inhibitF8Rom]
    [] OTHER               -> [kind |-> c.kind]
=============================================================================
