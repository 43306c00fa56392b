----------------------------- MODULE BusProofs ------------------------------
(***************************************************************************)
(* Proofs about what answers on the bus: the cards and the memory.         *)
(*                                                                         *)
(* The cards, for every width of the write counter, every set of slots,    *)
(* addresses and switches and whatever types of cards are put into each    *)
(* slot.  The invariant IInv says what the window and Config rely on, MInv *)
(* what a program relies on; from MInv each cycle of the bus is the step   *)
(* of the memory map for the same access.                                  *)
(*                                                                         *)
(* The memory of the motherboard, for every number of sockets, any chips   *)
(* in any rows and blocks strapped anywhere.                               *)
(***************************************************************************)
EXTENDS Bus, Memory, FiniteSetTheorems, WellFoundedInduction, TLAPS

\* A language card that has not enabled writing has counted to one at most: at
\* two it would have.  Without this the table could not be told from the counter.
CountBelowTwo(c) == ~c.writeEnable => c.writeCount < 2

LanguageOK(c) ==
  /\ c \in [kind : {"language"}, inhibit : BOOLEAN, bank : {0, 1}, readEnable : BOOLEAN,
            writeEnable : BOOLEAN, writeCount : 0 .. CountMod - 1, ram : {c.ram}]
  /\ CountBelowTwo(c)

FirmwareOK(c) ==
  c \in [kind : {"firmware"}, inhibit : BOOLEAN, inhibitBankRom : BOOLEAN, inhibitF8Rom : BOOLEAN]

\* What every card in a slot is, its memory left aside
CardOK(c) == LanguageOK(c) \/ FirmwareOK(c) \/ c \in [kind : {"empty", "disk", "other"}]

-----------------------------------------------------------------------------
\* The counter stays in its width, and below two it really counts.
LEMMA WriteCountInWidth ==
  ASSUME NEW c, LanguageOK(c), NEW sw \in 0 .. 15, NEW writing \in BOOLEAN
  PROVE  /\ WriteCount(c, sw, writing) \in 0 .. CountMod - 1
         /\ sw % 2 = 1 /\ ~writing /\ c.writeCount < 2 =>
              WriteCount(c, sw, writing) = c.writeCount + 1
         /\ ~(sw % 2 = 1 /\ ~writing) => WriteCount(c, sw, writing) = 0
<1>1. CountMod \in Nat /\ CountMod > 2
  BY CardsAssumption
<1>2. c.writeCount \in 0 .. CountMod - 1
  BY DEF LanguageOK
<1>3. (c.writeCount + 1) % CountMod \in 0 .. CountMod - 1
  BY <1>1, <1>2, SMT
<1>4. c.writeCount < 2 => (c.writeCount + 1) % CountMod = c.writeCount + 1
  BY <1>1, <1>2, SMT
<1> QED
  BY <1>1, <1>3, <1>4 DEF WriteCount

\* LanguageCard::io does what the table of the manual says, whatever the width of
\* the counter: an overflow never disables writing, because it is counted only
\* while writing is enabled.
LEMMA LanguageIoIsTable ==
  ASSUME NEW c, LanguageOK(c), NEW sw \in 0 .. 15, NEW writing \in BOOLEAN
  PROVE  LET n == LanguageIo(c, sw, writing)
         IN  /\ LanguageOK(n)
             /\ n.ram = c.ram
             /\ Published(n) = Map!Switched(Published(c), sw, writing)
<1> SUFFICES ASSUME NEW n, n = LanguageIo(c, sw, writing),
                    NEW count, count = WriteCount(c, sw, writing)
             PROVE  /\ LanguageOK(n)
                    /\ n.ram = c.ram
                    /\ Published(n) = Map!Switched(Published(c), sw, writing)
  OBVIOUS
<1>1. /\ c.writeCount \in Nat /\ c.kind = "language" /\ c.writeEnable \in BOOLEAN
      /\ c.inhibit \in BOOLEAN /\ c.readEnable \in BOOLEAN /\ c.bank \in {0, 1}
  BY CardsAssumption DEF LanguageOK
<1> DEFINE enable == sw % 2 = 1 /\ (c.writeEnable \/ count > 1)
           read   == sw % 4 \in {0, 3}
           bank   == IF (sw \div 8) % 2 = 0 THEN 1 ELSE 0
<1>2. n = [kind |-> "language", inhibit |-> c.inhibit, bank |-> bank, readEnable |-> read,
           writeEnable |-> enable, writeCount |-> count, ram |-> c.ram]
  <2>1. n = [c EXCEPT !.writeCount = count, !.writeEnable = enable,
                      !.readEnable = read, !.bank = bank]
    BY Zenon DEF LanguageIo
  <2> HIDE DEF enable, read, bank
  <2>2. c \in [kind : {"language"}, inhibit : BOOLEAN, bank : {0, 1}, readEnable : BOOLEAN,
               writeEnable : BOOLEAN, writeCount : 0 .. CountMod - 1, ram : {c.ram}]
    BY DEF LanguageOK
  <2> QED
    BY <2>1, <2>2
<1>3. count \in 0 .. CountMod - 1 /\ count \in Nat
  BY WriteCountInWidth, CardsAssumption
<1>4. bank \in {0, 1} /\ read \in BOOLEAN /\ enable \in BOOLEAN
  OBVIOUS
<1> HIDE DEF enable, read, bank
<1>5. /\ n.kind = "language" /\ n.ram = c.ram /\ n.writeCount = count
      /\ n.writeEnable = enable /\ n.readEnable = read /\ n.bank = bank
  BY <1>2
<1>6. sw % 2 = 0 \/ sw % 2 = 1
  BY SMT
<1>7. LanguageOK(n)
  <2>1. n \in [kind : {"language"}, inhibit : BOOLEAN, bank : {0, 1}, readEnable : BOOLEAN,
               writeEnable : BOOLEAN, writeCount : 0 .. CountMod - 1, ram : {n.ram}]
    BY <1>1, <1>2, <1>3, <1>4
  <2>2. ~enable => count < 2
    <3>1. CASE sw % 2 = 1
      BY <3>1, <1>3 DEF enable
    <3>2. CASE sw % 2 = 0
      BY <3>2, WriteCountInWidth
    <3> QED
      BY <3>1, <3>2, <1>6
  <2> QED
    BY <2>1, <2>2, <1>5 DEF LanguageOK, CountBelowTwo
<1> DEFINE mode(e, k) == IF e THEN "enabled" ELSE IF k > 0 THEN "armed" ELSE "disabled"
           bankShown(b) == IF b = 1 THEN 2 ELSE 1
<1>8. /\ Published(c) = [kind |-> "language", read |-> c.readEnable,
                         bank |-> bankShown(c.bank), write |-> mode(c.writeEnable, c.writeCount)]
      /\ Published(n) = [kind |-> "language", read |-> read,
                         bank |-> bankShown(bank), write |-> mode(enable, count)]
  BY <1>1, <1>5, Zenon DEF Published
<1>9. read = (sw \in {0, 3, 4, 7, 8, 11, 12, 15})
  BY SMT DEF read
<1>10. bankShown(bank) = IF sw < 8 THEN 2 ELSE 1
  BY SMT DEF bank
<1>11. mode(enable, count) = Map!WriteSwitch(mode(c.writeEnable, c.writeCount), sw, writing)
  <2>1. CASE sw % 2 = 0
    <3>1. ~enable /\ count = 0
      BY <2>1, WriteCountInWidth DEF enable
    <3> QED
      BY <2>1, <3>1 DEF Map!WriteSwitch
  <2>2. CASE sw % 2 = 1 /\ writing
    <3>1. count = 0
      BY <2>2, WriteCountInWidth
    <3>2. enable = c.writeEnable
      <4>1. ~(count > 1)
        BY <3>1
      <4> QED
        BY <2>2, <4>1, <1>1, Zenon DEF enable
    <3> HIDE DEF mode
    <3>3. Map!WriteSwitch(mode(c.writeEnable, c.writeCount), sw, writing) =
            IF mode(c.writeEnable, c.writeCount) = "enabled" THEN "enabled" ELSE "disabled"
      BY <2>2 DEF Map!WriteSwitch
    <3>4. ~(count > 0)
      BY <3>1
    <3> QED
      BY <3>2, <3>3, <3>4, <1>1 DEF mode
  <2>3. CASE sw % 2 = 1 /\ ~writing
    <3>1. CASE c.writeEnable
      BY <2>3, <3>1 DEF Map!WriteSwitch, enable
    <3>2. CASE ~c.writeEnable
      <4>1. c.writeCount < 2 /\ count = c.writeCount + 1
        BY <3>2, <2>3, WriteCountInWidth DEF LanguageOK, CountBelowTwo
      <4> QED
        BY <2>3, <3>2, <4>1, <1>1 DEF Map!WriteSwitch, enable
    <3> QED
      BY <3>1, <3>2
  <2> QED
    BY <2>1, <2>2, <2>3, <1>6
<1> HIDE DEF mode, bankShown
<1>12. Map!Switched(Published(c), sw, writing) =
         [kind |-> "language", read |-> sw \in {0, 3, 4, 7, 8, 11, 12, 15},
          bank |-> IF sw < 8 THEN 2 ELSE 1,
          write |-> Map!WriteSwitch(mode(c.writeEnable, c.writeCount), sw, writing)]
  <2> DEFINE m == [kind |-> "language", read |-> c.readEnable, bank |-> bankShown(c.bank),
                   write |-> mode(c.writeEnable, c.writeCount)]
             reads == sw \in {0, 3, 4, 7, 8, 11, 12, 15}
             banks == IF sw < 8 THEN 2 ELSE 1
             writes == Map!WriteSwitch(m.write, sw, writing)
  <2>1. Map!Switched(m, sw, writing) =
          [m EXCEPT !.read = reads, !.write = writes, !.bank = banks]
    BY Zenon DEF Map!Switched
  <2>2. m.write = mode(c.writeEnable, c.writeCount)
    OBVIOUS
  <2> HIDE DEF reads, banks, writes
  <2>3. m \in [kind : {"language"}, read : BOOLEAN, bank : {1, 2},
               write : {"enabled", "armed", "disabled"}]
    BY <1>1 DEF mode, bankShown
  <2>4. ASSUME NEW x \in [kind : {"language"}, read : BOOLEAN, bank : {1, 2},
                          write : {"enabled", "armed", "disabled"}],
               NEW r \in BOOLEAN, NEW b, NEW w,
               NEW y, y = [x EXCEPT !.read = r, !.write = w, !.bank = b]
        PROVE  y = [kind |-> "language", read |-> r, bank |-> b, write |-> w]
    BY <2>4
  <2>5. reads \in BOOLEAN
    BY DEF reads
  <2> QED
    BY <1>8, <2>1, <2>2, <2>3, <2>4, <2>5 DEF reads, banks, writes
<1>13. Published(n) = Map!Switched(Published(c), sw, writing)
  BY <1>8, <1>9, <1>10, <1>11, <1>12
<1> QED
  BY <1>5, <1>7, <1>13

-----------------------------------------------------------------------------
\* A type the operator can put into a slot; a mistyped one never gets there.
Types == {"empty", "language", "firmware", "disk", "other"}

\* A new card has the switches that its name announces.
LEMMA NewCardNamed ==
  ASSUME NEW type \in Types
  PROVE  /\ CardOK(NewCard(type)) /\ NewCard(type).kind = type
         /\ NameShown(type) = SwitchesShown(NewCard(type))
<1>1. CASE type = "language"
  <2>1. NewCard(type) = NewLanguageCard
    BY <1>1 DEF NewCard
  <2>2. LanguageOK(NewLanguageCard)
    BY CardsAssumption DEF NewLanguageCard, LanguageOK, CountBelowTwo
  <2>3. NameShown(type) = SwitchesShown(NewLanguageCard)
    BY <1>1 DEF NameShown, SwitchesShown, NewLanguageCard
  <2>4. NewLanguageCard.kind = "language"
    BY DEF NewLanguageCard
  <2> QED
    BY <1>1, <2>1, <2>2, <2>3, <2>4 DEF CardOK
<1>2. CASE type = "firmware"
  <2>1. NewCard(type) = NewFirmwareCard
    BY <1>2 DEF NewCard
  <2>2. FirmwareOK(NewFirmwareCard)
    BY DEF NewFirmwareCard, FirmwareOK
  <2>3. NameShown(type) = SwitchesShown(NewFirmwareCard)
    BY <1>2 DEF NameShown, SwitchesShown, NewFirmwareCard
  <2>4. NewFirmwareCard.kind = "firmware"
    BY DEF NewFirmwareCard
  <2> QED
    BY <1>2, <2>1, <2>2, <2>3, <2>4 DEF CardOK
<1>3. CASE type \in {"empty", "disk", "other"}
  <2>1. NewCard(type) = [kind |-> type]
    BY <1>3 DEF NewCard
  <2>2. NameShown(type) = [kind |-> type] /\ SwitchesShown([kind |-> type]) = [kind |-> type]
    BY <1>3 DEF NameShown, SwitchesShown
  <2> QED
    BY <1>3, <2>1, <2>2 DEF CardOK
<1> QED
  BY <1>1, <1>2, <1>3 DEF Types

\* Card::io keeps a card what it is, and one that has no switches as it is.
LEMMA CardIoKeepsKind ==
  ASSUME NEW c, CardOK(c), NEW sw \in 0 .. 15, NEW writing \in BOOLEAN
  PROVE  /\ CardOK(CardIo(c, sw, writing)) /\ CardIo(c, sw, writing).kind = c.kind
         /\ c.kind \notin {"language", "firmware"} => CardIo(c, sw, writing) = c
<1>1. CASE LanguageOK(c)
  <2>1. c.kind = "language" /\ CardIo(c, sw, writing) = LanguageIo(c, sw, writing)
    BY <1>1 DEF LanguageOK, CardIo
  <2>2. LanguageOK(LanguageIo(c, sw, writing))
    BY <1>1, LanguageIoIsTable
  <2> QED
    BY <2>1, <2>2 DEF CardOK, LanguageOK
<1>2. CASE FirmwareOK(c)
  <2>1. c.kind = "firmware" /\ CardIo(c, sw, writing) = FirmwareIo(c, sw)
    BY <1>2 DEF FirmwareOK, CardIo
  <2>2. FirmwareOK(FirmwareIo(c, sw))
    BY <1>2 DEF FirmwareIo, FirmwareOK
  <2> QED
    BY <2>1, <2>2 DEF CardOK, FirmwareOK
<1>3. CASE c \in [kind : {"empty", "disk", "other"}]
  BY <1>3 DEF CardIo, CardOK
<1> QED
  BY <1>1, <1>2, <1>3 DEF CardOK

\* An access at $D000-$FFFF changes no switch of any card.
LEMMA BankRomKeepsSwitches ==
  ASSUME NEW c, CardOK(c), NEW a, NEW b, NEW write \in BOOLEAN
  PROVE  LET n == CardBankRom(c, a, b, write).card
         IN  CardOK(n) /\ n.kind = c.kind /\ SwitchesShown(n) = SwitchesShown(c)
<1> SUFFICES ASSUME NEW n, n = CardBankRom(c, a, b, write).card
             PROVE  CardOK(n) /\ n.kind = c.kind /\ SwitchesShown(n) = SwitchesShown(c)
  OBVIOUS
<1>1. CASE LanguageOK(c)
  <2> DEFINE line == LanguageInhibit(c, write)
             ram == IF write /\ c.writeEnable THEN [c.ram EXCEPT ![Cell(c, a)] = b] ELSE c.ram
  <2>1. c.kind = "language" /\ n = [c EXCEPT !.inhibit = line, !.ram = ram]
    BY <1>1 DEF LanguageOK, CardBankRom, LanguageBankRom
  <2>2. line \in BOOLEAN
    BY <1>1 DEF LanguageInhibit, LanguageOK
  <2> HIDE DEF line, ram
  <2>3. /\ n \in [kind : {"language"}, inhibit : BOOLEAN, bank : {0, 1}, readEnable : BOOLEAN,
                  writeEnable : BOOLEAN, writeCount : 0 .. CountMod - 1, ram : {n.ram}]
        /\ n.kind = c.kind /\ n.bank = c.bank /\ n.readEnable = c.readEnable
        /\ n.writeEnable = c.writeEnable /\ n.writeCount = c.writeCount
    BY <1>1, <2>1, <2>2 DEF LanguageOK
  <2>4. LanguageOK(n)
    BY <1>1, <2>3 DEF LanguageOK, CountBelowTwo
  <2>5. SwitchesShown(n) = SwitchesShown(c)
    BY <2>3 DEF SwitchesShown
  <2> QED
    BY <2>3, <2>4, <2>5 DEF CardOK
<1>2. CASE FirmwareOK(c)
  <2> DEFINE drives == IF a < \h2800 THEN c.inhibitBankRom ELSE c.inhibitF8Rom
  <2>1. c.kind = "firmware" /\ n = [c EXCEPT !.inhibit = drives]
    BY <1>2 DEF FirmwareOK, CardBankRom, FirmwareBankRom
  <2>2. drives \in BOOLEAN
    BY <1>2 DEF FirmwareOK
  <2> HIDE DEF drives
  <2>3. /\ FirmwareOK(n) /\ n.kind = c.kind
        /\ n.inhibitBankRom = c.inhibitBankRom /\ n.inhibitF8Rom = c.inhibitF8Rom
    BY <1>2, <2>1, <2>2 DEF FirmwareOK
  <2>4. SwitchesShown(n) = SwitchesShown(c)
    BY <2>1, <2>3, Zenon DEF SwitchesShown
  <2> QED
    BY <2>3, <2>4 DEF CardOK
<1>3. CASE c \in [kind : {"empty", "disk", "other"}]
  BY <1>3 DEF CardBankRom, CardOK
<1> QED
  BY <1>1, <1>2, <1>3 DEF CardOK

\* RESET turns off a firmware card and leaves the others as they are.
LEMMA ResetKeepsKind ==
  ASSUME NEW c, CardOK(c)
  PROVE  /\ CardOK(CardReset(c)) /\ CardReset(c).kind = c.kind
         /\ c.kind # "firmware" => CardReset(c) = c
<1>1. CASE FirmwareOK(c)
  BY <1>1 DEF CardReset, CardOK, FirmwareOK
<1>2. CASE ~FirmwareOK(c)
  BY <1>2 DEF CardReset, CardOK, LanguageOK
<1> QED
  BY <1>1, <1>2

-----------------------------------------------------------------------------
\* The two invariants hold each other up only through the kinds of the cards;
\* what is needed besides is that every slot holds a card at all.
IInv ==
  /\ cards = [s \in Slots |-> cards[s]] /\ \A s \in Slots : CardOK(cards[s])
  /\ shown = [s \in Slots |-> shown[s]] /\ disk_mask \subseteq Slots
  /\ ShownSwitches
  /\ MaskedAreControllers

\* A cycle that changes the cards in no way the window or Config would notice
LEMMA CardsKept ==
  ASSUME IInv, UNCHANGED <<shown, disk_mask>>,
         cards' = [s \in Slots |-> cards'[s]],
         \A s \in Slots : /\ CardOK(cards'[s]) /\ cards'[s].kind = cards[s].kind
                          /\ SwitchesShown(cards'[s]) = SwitchesShown(cards[s])
  PROVE  IInv'
  BY DEF IInv, ShownSwitches, MaskedAreControllers, CardOK, LanguageOK, FirmwareOK, CountBelowTwo

THEOREM InitInvariant == Init => IInv
<1> SUFFICES ASSUME Init PROVE IInv
  OBVIOUS
<1>1. /\ CardOK(NewCard("empty"))
      /\ NameShown("empty") = SwitchesShown(NewCard("empty"))
  BY NewCardNamed DEF Types
<1> QED
  BY <1>1 DEF Init, IInv, ShownSwitches, MaskedAreControllers

\* An access to a slot's switches: the card tells the window of the change.
LEMMA SlotIoStep ==
  ASSUME IInv, NEW s \in Slots, NEW sw \in Switches, NEW writing \in BOOLEAN,
         SlotIo(s, sw, writing)
  PROVE  IInv'
<1> DEFINE c == CardIo(cards[s], sw, writing)
<1>1. sw \in 0 .. 15
  BY BusAssumption
<1>2. CardOK(cards[s])
  BY DEF IInv
<1>3. /\ CardOK(c) /\ c.kind = cards[s].kind
      /\ c.kind \notin {"language", "firmware"} => c = cards[s]
  BY <1>1, <1>2, CardIoKeepsKind
<1> HIDE DEF c
<1>4. /\ cards' = [cards EXCEPT ![s] = c] /\ disk_mask' = disk_mask
      /\ shown' = [shown EXCEPT ![s] = IF c.kind \in {"language", "firmware"}
                                         THEN SwitchesShown(c) ELSE @]
  BY DEF SlotIo, ShownAfter, c
<1>5. shown'[s] = SwitchesShown(c)
  BY <1>3, <1>4 DEF IInv, ShownSwitches
<1>6. /\ cards'[s] = c
      /\ \A t \in Slots \ {s} : cards'[t] = cards[t] /\ shown'[t] = shown[t]
      /\ cards' = [t \in Slots |-> cards'[t]] /\ shown' = [t \in Slots |-> shown'[t]]
  BY <1>4 DEF IInv
<1>7. \A t \in Slots : (CardOK(cards[t]))'
  BY <1>2, <1>3, <1>6 DEF IInv, CardOK, LanguageOK, FirmwareOK, CountBelowTwo
<1>8. ShownSwitches'
  BY <1>5, <1>6 DEF IInv, ShownSwitches, SwitchesShown
<1>9. MaskedAreControllers'
  BY <1>3, <1>4, <1>6 DEF IInv, MaskedAreControllers
<1> QED
  BY <1>4, <1>6, <1>7, <1>8, <1>9 DEF IInv

LEMMA InsertCardStep ==
  ASSUME IInv, NEW s \in Slots, NEW type \in CardTypes[s], InsertCard(s, type)
  PROVE  IInv'
<1>1. CASE type = "mistyped"
  <2>1. cards' = cards /\ shown' = shown /\ disk_mask' = disk_mask \ {s}
    BY <1>1 DEF InsertCard, DiskMask
  <2> QED
    BY <2>1 DEF IInv, ShownSwitches, MaskedAreControllers
<1>2. CASE type # "mistyped"
  <2> DEFINE c == NewCard(type)
  <2>1. type \in Types
    BY <1>2, BusAssumption DEF Types
  <2>2. CardOK(c) /\ c.kind = type /\ NameShown(type) = SwitchesShown(c)
    BY <2>1, NewCardNamed
  <2> HIDE DEF c
  <2>3. /\ cards' = [cards EXCEPT ![s] = c]
        /\ shown' = [shown EXCEPT ![s] = NameShown(type)]
        /\ disk_mask' = (disk_mask \ {s}) \cup (IF type = "disk" THEN {s} ELSE {})
    BY <1>2 DEF InsertCard, SlotsSet, DiskMask, c
  <2>4. /\ cards'[s] = c /\ shown'[s] = SwitchesShown(c)
        /\ \A t \in Slots \ {s} : cards'[t] = cards[t] /\ shown'[t] = shown[t]
        /\ cards' = [t \in Slots |-> cards'[t]] /\ shown' = [t \in Slots |-> shown'[t]]
    BY <2>2, <2>3 DEF IInv
  <2>5. \A t \in Slots : (CardOK(cards[t]))'
    BY <2>2, <2>4 DEF IInv, CardOK, LanguageOK, FirmwareOK, CountBelowTwo
  <2>6. ShownSwitches'
    BY <2>4 DEF IInv, ShownSwitches, SwitchesShown
  <2>7. MaskedAreControllers' /\ disk_mask' \subseteq Slots
    BY <2>2, <2>3, <2>4 DEF IInv, MaskedAreControllers
  <2> QED
    BY <2>4, <2>5, <2>6, <2>7 DEF IInv
<1> QED
  BY <1>1, <1>2

LEMMA ResetStep ==
  ASSUME IInv, Reset
  PROVE  IInv'
<1>1. /\ cards' = [t \in Slots |-> cards'[t]] /\ shown' = [t \in Slots |-> shown'[t]]
      /\ disk_mask' = disk_mask
  BY DEF Reset
<1>2. ASSUME NEW s \in Slots
      PROVE  /\ (CardOK(cards[s]))' /\ cards'[s].kind = cards[s].kind
             /\ shown'[s] = SwitchesShown(cards'[s])
  <2> DEFINE c == CardReset(cards[s])
  <2>1. /\ CardOK(c) /\ c.kind = cards[s].kind
        /\ cards[s].kind # "firmware" => c = cards[s]
    BY ResetKeepsKind DEF IInv
  <2>2. cards'[s] = c
    BY DEF Reset
  <2> HIDE DEF c
  <2>3. (CardOK(cards[s]))'
    BY <2>1, <2>2 DEF CardOK, LanguageOK, FirmwareOK, CountBelowTwo
  <2>4. CASE cards[s].kind = "firmware"
    BY <2>1, <2>2, <2>3, <2>4 DEF Reset
  <2>5. CASE cards[s].kind # "firmware"
    BY <2>1, <2>2, <2>3, <2>5 DEF Reset, IInv, ShownSwitches
  <2> QED
    BY <2>4, <2>5
<1> QED
  BY <1>1, <1>2 DEF IInv, ShownSwitches, MaskedAreControllers, SwitchesShown

LEMMA NextInvariant == IInv /\ [Next]_vars => IInv'
<1> SUFFICES ASSUME IInv, [Next]_vars PROVE IInv'
  OBVIOUS
<1>1. ASSUME NEW a \in BankAddresses, NEW write \in BOOLEAN, NEW at,
             cards' = [s \in Slots |-> CardBankRom(cards[s], a, at[s], write).card],
             UNCHANGED <<shown, disk_mask>>
      PROVE  IInv'
  <2>1. ASSUME NEW s \in Slots
        PROVE  /\ CardOK(cards'[s]) /\ cards'[s].kind = cards[s].kind
               /\ SwitchesShown(cards'[s]) = SwitchesShown(cards[s])
    <3>1. CardOK(cards[s]) /\ cards'[s] = CardBankRom(cards[s], a, at[s], write).card
      BY <1>1 DEF IInv
    <3> QED
      BY <3>1, BankRomKeepsSwitches
  <2> QED
    BY <1>1, <2>1, CardsKept
<1>2. CASE \E a \in BankAddresses : ReadBankRom(a)
  BY <1>1, <1>2 DEF ReadBankRom
<1>3. CASE \E a \in BankAddresses, d \in Bytes : WriteBankRom(a, d)
  BY <1>1, <1>3 DEF WriteBankRom, SlotsBankRom
<1>4. CASE \E s \in Slots, sw \in Switches : ReadSlotSwitch(s, sw)
  BY <1>4, SlotIoStep DEF ReadSlotSwitch
<1>5. CASE \E s \in Slots, sw \in Switches, d \in Bytes : WriteSlotSwitch(s, sw, d)
  BY <1>5, SlotIoStep DEF WriteSlotSwitch
<1>6. CASE \E s \in Slots : \E type \in CardTypes[s] : InsertCard(s, type)
  BY <1>6, InsertCardStep
<1>7. CASE Reset
  BY <1>7, ResetStep
<1>8. ASSUME UNCHANGED <<cards, shown, disk_mask>> PROVE IInv'
  BY <1>8 DEF IInv, ShownSwitches, MaskedAreControllers
<1> QED
  BY <1>2, <1>3, <1>4, <1>5, <1>6, <1>7, <1>8
     DEF Next, vars, ReadSwitch, ReadSlotRom, AccessElsewhere

THEOREM Invariant == Spec => []IInv
  BY InitInvariant, NextInvariant, PTL DEF Spec

(***************************************************************************)
(* The window always shows the switches of the card that is in the slot:   *)
(* LanguageCard::io and FirmwareCard::io report every change, RESET        *)
(* reports a firmware card turned off, and a new card's name agrees with   *)
(* its constructor.                                                        *)
(***************************************************************************)
THEOREM WindowIsRight == Spec => []ShownSwitches
<1>1. IInv => ShownSwitches
  BY DEF IInv
<1> QED
  BY <1>1, Invariant, PTL

(***************************************************************************)
(* Whatever lines insert cards, in whatever order, a slot in disk_mask     *)
(* holds a disk controller, so that the casts of Config::loadDisk and      *)
(* unloadDisk are sound.                                                   *)
(***************************************************************************)
THEOREM CastsAreSound == Spec => []MaskedAreControllers
<1>1. IInv => MaskedAreControllers
  BY DEF IInv
<1> QED
  BY <1>1, Invariant, PTL

-----------------------------------------------------------------------------
(* The memory map.                                                         *)

\* What every card holds can be on the bus.
RamOK(c) == c.kind = "language" => c.ram \in [Cells -> AllBytes]

\* What the map needs besides: bytes are bytes.
MInv ==
  /\ IInv
  /\ data \in AllBytes
  /\ \A s \in Slots : RamOK(cards[s])

LEMMA BytesType ==
  /\ AllBytes \subseteq 0 .. 255 /\ Bytes \subseteq AllBytes
  /\ {0, RomByte, SlotRomByte, FirmwareByte} \subseteq AllBytes
  /\ \A b \in AllBytes, set \in BOOLEAN : WithD7(b, set) \in AllBytes
<1> DEFINE given == Bytes \cup {0, RomByte, SlotRomByte, FirmwareByte}
<1>1. given \subseteq 0 .. 255
  BY BusAssumption, CardsAssumption
<1>2. AllBytes = {b % 128 : b \in given} \cup {(b % 128) + 128 : b \in given}
  BY DEF AllBytes
<1> HIDE DEF given
<1>3. \A b \in 0 .. 255 : /\ b % 128 \in 0 .. 127 /\ (b = b % 128 \/ b = (b % 128) + 128)
                          /\ (b % 128) % 128 = b % 128 /\ ((b % 128) + 128) % 128 = b % 128
  OBVIOUS
<1>4. given \subseteq AllBytes
  BY <1>1, <1>2, <1>3
<1>5. AllBytes \subseteq 0 .. 255
  <2>1. \A k \in 0 .. 127 : k \in 0 .. 255 /\ k + 128 \in 0 .. 255
    OBVIOUS
  <2> QED
    BY <1>1, <1>2, <1>3, <2>1
<1>6. ASSUME NEW b \in AllBytes, NEW set \in BOOLEAN PROVE WithD7(b, set) \in AllBytes
  <2>1. PICK c \in given : b = c % 128 \/ b = (c % 128) + 128
    BY <1>2
  <2>2. b % 128 = c % 128
    BY <1>1, <1>3, <2>1
  <2>3. WithD7(b, set) = IF set THEN (c % 128) + 128 ELSE (c % 128) + 0
    BY <2>2 DEF WithD7
  <2>4. (c % 128) + 0 = c % 128
    BY <1>1, <1>3
  <2> QED
    BY <1>2, <2>3, <2>4
<1> QED
  BY <1>4, <1>5, <1>6 DEF given

\* What a card that drives an address puts on the bus in a read
Driven(c, a) == IF c.kind = "language" THEN c.ram[Cell(c, a)] ELSE FirmwareByte

\* What Card::ioBankRom leaves and what it hands on
LEMMA CardAndByte ==
  ASSUME NEW card, NEW byte
  PROVE  [card |-> card, byte |-> byte].card = card /\ [card |-> card, byte |-> byte].byte = byte
  OBVIOUS

\* The table's names for the switches of a language card
LEMMA PublishedLanguage ==
  ASSUME NEW c, c.kind = "language"
  PROVE  /\ Published(c).kind = "language" /\ Published(c).read = c.readEnable
         /\ Published(c).bank = (IF c.bank = 1 THEN 2 ELSE 1)
         /\ Published(c).write = "enabled" <=> c.writeEnable
<1> DEFINE write == CASE c.writeEnable -> "enabled"
                      [] ~c.writeEnable /\ c.writeCount > 0 -> "armed"
                      [] OTHER -> "disabled"
           bank  == IF c.bank = 1 THEN 2 ELSE 1
           read  == c.readEnable
<1>1. write = "enabled" <=> c.writeEnable
  OBVIOUS
<1>2. Published(c) = [kind |-> c.kind, read |-> read, bank |-> bank, write |-> write]
  BY Zenon DEF Published
<1> HIDE DEF write, bank, read
<1>3. /\ Published(c).kind = c.kind /\ Published(c).read = read
      /\ Published(c).bank = bank /\ Published(c).write = write
  BY <1>2
<1> QED
  BY <1>1, <1>3, Zenon DEF bank, read

\* The place of an address in the map is the cell of the card.
LEMMA PlaceIsCell ==
  ASSUME NEW c, LanguageOK(c), NEW a \in BankAddresses
  PROVE  Map!Place(Published(c), a) = Cell(c, a) /\ Cell(c, a) \in Cells
<1>1. c.kind = "language" /\ c.bank \in {0, 1}
  BY DEF LanguageOK
<1>2. Published(c).bank = IF c.bank = 1 THEN 2 ELSE 1
  BY <1>1, PublishedLanguage
<1>3. a \in Int
  BY CardsAssumption
<1>4. CASE a < \h1000
  <2>1. (IF c.bank = 1 THEN 2 ELSE 1) - 1 = c.bank
    BY <1>1
  <2>2. ~(a >= \h1000)
    BY <1>3, <1>4
  <2>3. Map!Place(Published(c), a) = <<c.bank, a>>
    BY <1>2, <2>1, <2>2 DEF Map!Place
  <2> QED
    BY <1>1, <1>4, <2>3 DEF Cell, Cells
<1>5. CASE a >= \h1000
  <2>1. ~(a < \h1000)
    BY <1>3, <1>5
  <2> QED
    BY <1>5, <2>1 DEF Map!Place, Cell, Cells
<1> QED
  BY <1>3, <1>4, <1>5

\* A read at $D000-$FFFF: a card that drives the address gives its byte and holds the
\* line, and one that does not hands on the byte; the card stays as it is but for
\* its line.
ReadAsMapped(c, a, b, r) ==
  /\ r.byte = IF Map!Drives(Published(c), a) THEN Driven(c, a) ELSE b
  /\ InhibitsRom(r.card) <=> Map!Drives(Published(c), a)
  /\ Published(r.card) = Published(c) /\ RamOf(r.card) = RamOf(c)
  /\ Map!Drives(Published(c), a) => Driven(c, a) \in AllBytes

LEMMA CardReads ==
  ASSUME NEW c, CardOK(c), RamOK(c), NEW a \in BankAddresses, NEW b
  PROVE  ReadAsMapped(c, a, b, CardBankRom(c, a, b, FALSE))
<1> SUFFICES ASSUME NEW r, r = CardBankRom(c, a, b, FALSE)
             PROVE  /\ r.byte = IF Map!Drives(Published(c), a) THEN Driven(c, a) ELSE b
                    /\ InhibitsRom(r.card) <=> Map!Drives(Published(c), a)
                    /\ Published(r.card) = Published(c) /\ RamOf(r.card) = RamOf(c)
                    /\ Map!Drives(Published(c), a) => Driven(c, a) \in AllBytes
  BY Zenon DEF ReadAsMapped
<1>1. CASE LanguageOK(c)
  <2> DEFINE line == LanguageInhibit(c, FALSE)
             ram  == IF FALSE /\ c.writeEnable THEN [c.ram EXCEPT ![Cell(c, a)] = b] ELSE c.ram
             byte == IF c.readEnable /\ ~FALSE THEN c.ram[Cell(c, a)] ELSE b
             card == [c EXCEPT !.inhibit = line, !.ram = ram]
  <2>1. c.kind = "language" /\ c.readEnable \in BOOLEAN
    BY <1>1 DEF LanguageOK
  <2>2. r = [card |-> card, byte |-> byte]
    BY <2>1 DEF CardBankRom, LanguageBankRom
  <2>3. line = c.readEnable /\ ram = c.ram /\ byte = IF c.readEnable THEN c.ram[Cell(c, a)] ELSE b
    BY <2>1, Zenon DEF LanguageInhibit
  <2> HIDE DEF line, ram, byte
  <2>4. /\ card.kind = "language" /\ card.inhibit = line /\ card.bank = c.bank
        /\ card.readEnable = c.readEnable /\ card.writeEnable = c.writeEnable
        /\ card.writeCount = c.writeCount /\ card.ram = ram
    BY <1>1, <2>1 DEF LanguageOK
  <2> HIDE DEF card
  <2>5. r.byte = byte /\ r.card = card
    BY <2>2, CardAndByte, Zenon
  <2>6. Map!Drives(Published(c), a) <=> c.readEnable
    <3> DEFINE m == Published(c)
    <3>1. m.kind = "language" /\ m.read = c.readEnable
      BY <2>1, PublishedLanguage
    <3> HIDE DEF m
    <3>2. Map!Drives(m, a) = m.read
      BY <3>1 DEF Map!Drives
    <3> QED
      BY <3>1, <3>2, Zenon DEF m
  <2>7. Published(card) = Published(c) /\ RamOf(card) = RamOf(c)
    BY <2>1, <2>3, <2>4, Zenon DEF Published, RamOf
  <2>8. Driven(c, a) = c.ram[Cell(c, a)] /\ Driven(c, a) \in AllBytes
    BY <1>1, <2>1, PlaceIsCell DEF Driven, RamOK
  <2>9. InhibitsRom(card) <=> c.readEnable
    BY <2>3, <2>4, Zenon DEF InhibitsRom
  <2> QED
    BY <2>3, <2>5, <2>6, <2>7, <2>8, <2>9, Zenon
<1>2. CASE FirmwareOK(c)
  <2> DEFINE drives == IF a < \h2800 THEN c.inhibitBankRom ELSE c.inhibitF8Rom
             byte == IF drives THEN FirmwareByte ELSE b
             card == [c EXCEPT !.inhibit = drives]
  <2>1. c.kind = "firmware" /\ drives \in BOOLEAN
    BY <1>2 DEF FirmwareOK
  <2>2. Map!Drives(Published(c), a) = drives
    BY <2>1 DEF Published, Map!Drives
  <2>3. r = [card |-> card, byte |-> byte]
    BY <2>1 DEF CardBankRom, FirmwareBankRom
  <2>4. Driven(c, a) = FirmwareByte /\ FirmwareByte \in AllBytes
    BY <2>1, BytesType DEF Driven
  <2>5. card.inhibit = drives /\ card.kind = "firmware"
        /\ card.inhibitBankRom = c.inhibitBankRom /\ card.inhibitF8Rom = c.inhibitF8Rom
    <3> HIDE DEF drives
    <3> QED
      BY <1>2, <2>1 DEF FirmwareOK
  <2> HIDE DEF card, byte
  <2>6. r.byte = byte /\ r.card = card
    BY <2>3, CardAndByte, Zenon
  <2>7. Published(card) = Published(c) /\ RamOf(card) = RamOf(c)
    BY <2>1, <2>5 DEF Published, RamOf
  <2>8. byte = IF drives THEN FirmwareByte ELSE b
    BY DEF byte
  <2> HIDE DEF drives
  <2>9. InhibitsRom(card) <=> drives
    BY <2>5, Zenon DEF InhibitsRom
  <2> QED
    <3>1. Map!Drives(Published(c), a) <=> drives
      BY <2>2
    <3>2. r.byte = IF Map!Drives(Published(c), a) THEN Driven(c, a) ELSE b
      BY <2>4, <2>6, <2>8, <3>1, Zenon
    <3> QED
      BY <2>4, <2>6, <2>7, <2>9, <3>1, <3>2, Zenon
<1>3. CASE c \in [kind : {"empty", "disk", "other"}]
  <2>1. c.kind \in {"empty", "disk", "other"} /\ r = [card |-> c, byte |-> b]
    BY <1>3 DEF CardBankRom
  <2>2. ~Map!Drives(Published(c), a)
    BY <2>1 DEF Published, Map!Drives
  <2>3. r.byte = b /\ r.card = c
    <3>1. r = [card |-> c, byte |-> b]
      BY <2>1
    <3> QED
      BY ONLY <3>1, CardAndByte, Zenon
  <2>4. ~InhibitsRom(c)
    BY <2>1 DEF InhibitsRom
  <2> QED
    BY <2>2, <2>3, <2>4, Zenon
<1> QED
  BY <1>1, <1>2, <1>3 DEF CardOK

\* What a card's memory holds after a write, as the map has it
Stored(c, a, b) ==
  IF Published(c).kind = "language" /\ Published(c).write = "enabled"
    THEN [RamOf(c) EXCEPT ![Map!Place(Published(c), a)] = b]
    ELSE RamOf(c)

\* A firmware card that is switched on for the address
FirmwareDrives(c, a) ==
  c.kind = "firmware" /\ IF a < \h2800 THEN c.inhibitBankRom ELSE c.inhibitF8Rom

\* It is one for the map, too.
LEMMA FirmwareDriven ==
  ASSUME NEW c, NEW a
  PROVE  FirmwareDrives(c, a) <=>
           Published(c).kind = "firmware" /\ Map!Drives(Published(c), a)
<1>1. CASE c.kind = "language"
  <2>1. Published(c).kind = "language"
    BY <1>1, PublishedLanguage
  <2> QED
    BY <1>1, <2>1 DEF FirmwareDrives
<1>2. CASE c.kind = "firmware"
  BY <1>2 DEF FirmwareDrives, Published, Map!Drives
<1>3. CASE c.kind \notin {"language", "firmware"}
  BY <1>3 DEF FirmwareDrives, Published
<1> QED
  BY <1>1, <1>2, <1>3

\* A write at $D000-$FFFF: a language card whose writing is enabled stores the byte,
\* all others keep what they hold; a firmware card that is switched on hands on
\* another byte.
WrittenAsMapped(c, a, b, r) ==
  /\ r.byte = IF FirmwareDrives(c, a) THEN FirmwareByte ELSE b
  /\ Published(r.card) = Published(c)
  /\ RamOf(r.card) = Stored(c, a, b)
  /\ b \in AllBytes => RamOK(r.card)

LEMMA CardWrites ==
  ASSUME NEW c, CardOK(c), RamOK(c), NEW a \in BankAddresses, NEW b
  PROVE  WrittenAsMapped(c, a, b, CardBankRom(c, a, b, TRUE))
<1> SUFFICES ASSUME NEW r, r = CardBankRom(c, a, b, TRUE)
             PROVE  /\ r.byte = IF FirmwareDrives(c, a) THEN FirmwareByte ELSE b
                    /\ Published(r.card) = Published(c)
                    /\ RamOf(r.card) = Stored(c, a, b)
                    /\ b \in AllBytes => RamOK(r.card)
  BY Zenon DEF WrittenAsMapped
<1>1. CASE LanguageOK(c)
  <2>1. c.kind = "language" /\ c.writeEnable \in BOOLEAN
    BY <1>1 DEF LanguageOK
  <2> DEFINE line == LanguageInhibit(c, TRUE)
             ram  == IF TRUE /\ c.writeEnable THEN [c.ram EXCEPT ![Cell(c, a)] = b] ELSE c.ram
             byte == IF c.readEnable /\ ~TRUE THEN c.ram[Cell(c, a)] ELSE b
             card == [c EXCEPT !.inhibit = line, !.ram = ram]
  <2>2. r = [card |-> card, byte |-> byte]
    BY <2>1 DEF CardBankRom, LanguageBankRom
  <2>3. byte = b /\ ~FirmwareDrives(c, a)
    BY <2>1, Zenon DEF FirmwareDrives
  <2>9. ram = IF c.writeEnable THEN [c.ram EXCEPT ![Cell(c, a)] = b] ELSE c.ram
    BY Zenon
  <2> HIDE DEF line, ram, byte
  <2>4. /\ card.kind = "language" /\ card.bank = c.bank
        /\ card.readEnable = c.readEnable /\ card.writeEnable = c.writeEnable
        /\ card.writeCount = c.writeCount /\ card.ram = ram
    BY <1>1, <2>1 DEF LanguageOK
  <2> HIDE DEF card
  <2>10. r.byte = byte /\ r.card = card
    BY <2>2, CardAndByte, Zenon
  <2>5. Published(card) = Published(c) /\ RamOf(card) = ram /\ RamOf(c) = c.ram
    BY <2>1, <2>4, Zenon DEF Published, RamOf
  <2>6. Published(c).kind = "language" /\ (Published(c).write = "enabled" <=> c.writeEnable)
    BY <2>1, PublishedLanguage
  <2>7. Map!Place(Published(c), a) = Cell(c, a) /\ Cell(c, a) \in Cells
    BY <1>1, PlaceIsCell
  <2>8. b \in AllBytes => ram \in [Cells -> AllBytes]
    BY <2>1, <2>7, <2>9 DEF RamOK
  <2> QED
    BY <2>3, <2>4, <2>5, <2>6, <2>7, <2>8, <2>9, <2>10 DEF RamOK, Stored
<1>2. CASE FirmwareOK(c)
  <2> DEFINE drives == IF a < \h2800 THEN c.inhibitBankRom ELSE c.inhibitF8Rom
             byte == IF drives THEN FirmwareByte ELSE b
             card == [c EXCEPT !.inhibit = drives]
  <2>1. c.kind = "firmware"
    BY <1>2 DEF FirmwareOK
  <2>2. r = [card |-> card, byte |-> byte]
    BY <2>1 DEF CardBankRom, FirmwareBankRom
  <2>3. byte = IF FirmwareDrives(c, a) THEN FirmwareByte ELSE b
    <3>1. FirmwareDrives(c, a) <=> drives
      BY <2>1 DEF FirmwareDrives
    <3> HIDE DEF drives
    <3> QED
      BY <3>1
  <2> HIDE DEF drives, byte
  <2>4. /\ card.kind = "firmware"
        /\ card.inhibitBankRom = c.inhibitBankRom /\ card.inhibitF8Rom = c.inhibitF8Rom
    BY <1>2, <2>1 DEF FirmwareOK
  <2> HIDE DEF card
  <2>5. r.byte = byte /\ r.card = card
    BY <2>2, CardAndByte, Zenon
  <2>6. Published(card) = Published(c) /\ RamOf(card) = RamOf(c) /\ Published(c).kind # "language"
    BY <2>1, <2>4 DEF Published, RamOf
  <2> QED
    BY <2>1, <2>3, <2>4, <2>5, <2>6 DEF RamOK, Stored
<1>3. CASE c \in [kind : {"empty", "disk", "other"}]
  <2>1. c.kind \in {"empty", "disk", "other"} /\ r = [card |-> c, byte |-> b]
    BY <1>3 DEF CardBankRom
  <2>2. Published(c).kind # "language" /\ c.kind # "language"
    BY <2>1 DEF Published
  <2>3. r.byte = b /\ r.card = c
    <3>1. r = [card |-> c, byte |-> b]
      BY <2>1
    <3> QED
      BY ONLY <3>1, CardAndByte, Zenon
  <2>4. ~FirmwareDrives(c, a)
    BY <2>1 DEF FirmwareDrives
  <2> QED
    BY <2>2, <2>3, <2>4 DEF RamOK, Stored
<1> QED
  BY <1>1, <1>2, <1>3 DEF CardOK

-----------------------------------------------------------------------------
(* The byte handed from slot to slot.                                      *)

\* Induction on numbers, over a set rather than a formula.
LEMMA Induction ==
  ASSUME NEW S \in SUBSET Nat, 0 \in S, \A n \in S : n + 1 \in S
  PROVE  S = Nat
<1>1. SUFFICES ASSUME Nat \ S # {} PROVE FALSE
  OBVIOUS
<1>2. IsWellFoundedOn(OpToRel(<, Nat), Nat)
  BY NatLessThanWellFounded
<1>3. PICK x \in Nat \ S : \A y \in Nat \ S : ~ (<<y, x>> \in OpToRel(<, Nat))
  <2>1. Nat \ S \subseteq Nat
    OBVIOUS
  <2> QED
    BY <1>1, <1>2, <2>1, WFMin
<1>4. \A y \in Nat \ S : ~ (y < x)
  BY <1>3 DEF OpToRel
<1>5. x - 1 \in Nat /\ x - 1 \in S
  BY <1>4
<1> QED
  BY <1>5

\* The loop over the slots that ByteAt stands for, up to slot m
Hands(a, b, write, m, g) ==
  g = [s \in 0 .. m |->
         CASE s = 0                     -> b
           [] s > 0 /\ s - 1 \in Slots    -> CardBankRom(cards[s - 1], a, g[s - 1], write).byte
           [] OTHER                     -> g[s - 1]]

Handed(a, b, write, s) == IF s \in Slots THEN CardBankRom(cards[s], a, b, write).byte ELSE b

LEMMA HandsExists ==
  ASSUME NEW a, NEW b, NEW write, NEW k \in Nat
  PROVE  \E g : Hands(a, b, write, k, g)
<1> DEFINE S == {m \in Nat : \E g : Hands(a, b, write, m, g)}
           e(i, g) == CASE i = 0                     -> b
                        [] i > 0 /\ i - 1 \in Slots    -> CardBankRom(cards[i - 1], a, g[i - 1], write).byte
                        [] OTHER                     -> g[i - 1]
<1>0. ASSUME NEW g, NEW m
      PROVE  Hands(a, b, write, m, g) <=> g = [s \in 0 .. m |-> e(s, g)]
  BY DEF Hands
<1>1. ASSUME NEW i \in Nat, NEW f, NEW g, i # 0 => f[i - 1] = g[i - 1] PROVE e(i, f) = e(i, g)
  BY <1>1
<1> HIDE DEF e
<1>2. 0 \in S
  <2> DEFINE f == [s \in 0 .. 0 |-> b]
             h == [s \in 0 .. 0 |-> e(s, f)]
  <2>1. \A s \in 0 .. 0 : e(s, h) = e(s, f)
    BY <1>1
  <2>2. h = [s \in 0 .. 0 |-> e(s, h)]
    <3>1. h = [s \in 0 .. 0 |-> e(s, f)]
      OBVIOUS
    <3> HIDE DEF h, f
    <3> QED
      BY <2>1, <3>1
  <2> HIDE DEF h
  <2> QED
    BY <1>0, <2>2
<1>3. ASSUME NEW m \in S PROVE m + 1 \in S
  <2>1. PICK g : Hands(a, b, write, m, g)
    OBVIOUS
  <2>2. g = [s \in 0 .. m |-> e(s, g)] /\ m \in Nat
    BY <1>0, <2>1
  <2> DEFINE h == [i \in 0 .. m + 1 |-> IF i = m + 1 THEN e(m + 1, g) ELSE g[i]]
  <2>3. ASSUME NEW i \in 0 .. m + 1 PROVE h[i] = e(i, h)
    <3>1. i # 0 => h[i - 1] = g[i - 1]
      BY <2>2
    <3>2. e(i, h) = e(i, g)
      <4> HIDE DEF h
      <4> QED
        BY <1>1, <2>2, <3>1
    <3>3. h[i] = e(i, g)
      <4>1. CASE i = m + 1
        BY <4>1
      <4>2. CASE i # m + 1
        <5>1. i \in 0 .. m /\ h[i] = g[i]
          BY <2>2, <4>2
        <5> HIDE DEF h
        <5>2. g[i] = e(i, g)
          BY <2>2, <5>1
        <5> QED
          BY <5>1, <5>2
      <4> QED
        BY <4>1, <4>2
    <3> QED
      BY <3>2, <3>3
  <2>4. h = [i \in 0 .. m + 1 |-> e(i, h)]
    <3>1. h = [i \in 0 .. m + 1 |-> h[i]]
      OBVIOUS
    <3> HIDE DEF h
    <3> QED
      BY <2>3, <3>1
  <2> HIDE DEF h
  <2>5. Hands(a, b, write, m + 1, h)
    <3> DEFINE n == m + 1
    <3>1. h = [i \in 0 .. n |-> e(i, h)]
      BY <2>4
    <3> HIDE DEF n
    <3>2. Hands(a, b, write, n, h)
      BY <1>0, <3>1
    <3> QED
      BY <3>2 DEF n
  <2> QED
    BY <2>2, <2>5
<1>4. S = Nat
  <2>1. S \in SUBSET Nat
    OBVIOUS
  <2> HIDE DEF S
  <2> QED
    BY <1>2, <1>3, <2>1, Induction
<1> QED
  BY <1>4

\* What comes to each slot is what the one before it hands on.
LEMMA ByteAtSteps ==
  ASSUME NEW a, NEW b, NEW write, NEW at, at = ByteAt(a, b, write)
  PROVE  /\ at[0] = b
         /\ \A s \in 0 .. 7 : at[s + 1] = Handed(a, at[s], write, s)
<1>1. at = CHOOSE g : Hands(a, b, write, 8, g)
  BY DEF ByteAt, Hands
<1>2. Hands(a, b, write, 8, at)
  BY <1>1, HandsExists
<1>3. ASSUME NEW j \in 0 .. 8, NEW s, s = j - 1
      PROVE  at[j] = CASE j = 0                -> b
                       [] j > 0 /\ s \in Slots   -> CardBankRom(cards[s], a, at[s], write).byte
                       [] OTHER                -> at[s]
  BY <1>2, <1>3 DEF Hands
<1>4. at[0] = b
  <2>1. 0 \in 0 .. 8 /\ -1 = 0 - 1
    OBVIOUS
  <2> QED
    BY <1>3, <2>1
<1>5. ASSUME NEW s \in 0 .. 7 PROVE at[s + 1] = Handed(a, at[s], write, s)
  <2> DEFINE j == s + 1
  <2>1. j \in 0 .. 8 /\ s = j - 1 /\ j # 0 /\ j > 0
    OBVIOUS
  <2> HIDE DEF j
  <2>2. at[j] = IF s \in Slots THEN CardBankRom(cards[s], a, at[s], write).byte ELSE at[s]
    BY <1>3, <2>1
  <2> QED
    BY <2>2 DEF Handed, j
<1> QED
  BY <1>4, <1>5

\* The cards whose slots a byte has come to before slot s, and that drive the address
Driving(a, s) == {t \in Slots : t < s /\ Map!Drives(Published(cards[t]), a)}

\* In a read the byte is that of the last card that drove the address, if one did.
ReadSoFar(a, b, s, v) ==
  \/ Driving(a, s) = {} /\ v = b
  \/ \E t \in Driving(a, s) : (\A u \in Driving(a, s) : u <= t) /\ v = Driven(cards[t], a)

LEMMA ReadBytes ==
  ASSUME MInv, NEW a \in BankAddresses, NEW b \in AllBytes, NEW at, at = ByteAt(a, b, FALSE)
  PROVE  \A s \in 0 .. 8 : at[s] \in AllBytes /\ ReadSoFar(a, b, s, at[s])
<1> DEFINE P(s) == at[s] \in AllBytes /\ ReadSoFar(a, b, s, at[s])
           S == {s \in Nat : s <= 8 => P(s)}
<1>0. Slots \subseteq 0 .. 7
  BY BusAssumption
<1>1. at[0] = b /\ \A s \in 0 .. 7 : at[s + 1] = Handed(a, at[s], FALSE, s)
  <2> DEFINE write == FALSE
  <2>1. at = ByteAt(a, b, write)
    OBVIOUS
  <2> HIDE DEF write
  <2>2. at[0] = b /\ \A s \in 0 .. 7 : at[s + 1] = Handed(a, at[s], write, s)
    BY ONLY <2>1, ByteAtSteps
  <2> QED
    BY <2>2 DEF write
<1>2. P(0)
  <2>1. Driving(a, 0) = {}
    <3>1. ASSUME NEW t \in Slots PROVE ~(t < 0)
      BY <1>0
    <3> QED
      BY <3>1 DEF Driving
  <2> QED
    BY <1>1, <2>1 DEF ReadSoFar
<1>3. ASSUME NEW s \in 0 .. 7, P(s) PROVE P(s + 1)
  <2> DEFINE r == CardBankRom(cards[s], a, at[s], FALSE)
             drives == Map!Drives(Published(cards[s]), a)
  <2>0. s \in Slots => /\ r.byte = IF drives THEN Driven(cards[s], a) ELSE at[s]
                       /\ drives => Driven(cards[s], a) \in AllBytes
    BY CardReads DEF MInv, IInv, ReadAsMapped
  <2>2. at[s + 1] = IF s \in Slots THEN r.byte ELSE at[s]
    BY <1>1 DEF Handed
  <2> HIDE DEF r
  <2>3. ASSUME NEW t \in Slots PROVE t < s + 1 <=> t < s \/ t = s
    BY <1>0
  <2>4. CASE s \in Slots /\ drives
    <3>1. Driving(a, s + 1) = Driving(a, s) \cup {s}
      BY <2>3, <2>4 DEF Driving
    <3>2. \A u \in Driving(a, s + 1) : u <= s
      BY <1>0, <2>3 DEF Driving
    <3>3. at[s + 1] = Driven(cards[s], a) /\ at[s + 1] \in AllBytes
      BY <2>0, <2>2, <2>4
    <3> QED
      BY <3>1, <3>2, <3>3 DEF ReadSoFar
  <2>5. CASE ~(s \in Slots /\ drives)
    <3>1. Driving(a, s + 1) = Driving(a, s)
      BY <2>3, <2>5 DEF Driving
    <3>2. at[s + 1] = at[s]
      BY <2>0, <2>2, <2>5
    <3> QED
      BY <1>3, <3>1, <3>2 DEF ReadSoFar
  <2> QED
    BY <2>4, <2>5
<1> HIDE DEF P
<1>4. S = Nat
  <2>1. 0 \in S
    BY <1>2
  <2>2. ASSUME NEW m \in S PROVE m + 1 \in S
    <3>1. SUFFICES ASSUME m + 1 <= 8 PROVE P(m + 1)
      OBVIOUS
    <3>2. m \in 0 .. 7 /\ P(m)
      BY <3>1
    <3> QED
      BY <1>3, <3>2
  <2>3. S \in SUBSET Nat
    OBVIOUS
  <2> HIDE DEF S
  <2> QED
    BY <2>1, <2>2, <2>3, Induction
<1>5. \A s \in 0 .. 8 : P(s)
  BY <1>4
<1> QED
  BY <1>5 DEF P

\* In a write the byte is the processor's, unless a firmware card in a slot before
\* has put on its own.
WrittenSoFar(a, d, s) ==
  IF \E t \in Slots : t < s /\ FirmwareDrives(cards[t], a) THEN FirmwareByte ELSE d

LEMMA WriteBytes ==
  ASSUME MInv, NEW a \in BankAddresses, NEW d \in AllBytes, NEW at, at = ByteAt(a, d, TRUE)
  PROVE  \A s \in 0 .. 8 : at[s] = WrittenSoFar(a, d, s) /\ at[s] \in AllBytes
<1> DEFINE P(s) == at[s] = WrittenSoFar(a, d, s)
           S == {s \in Nat : s <= 8 => P(s)}
<1>0. Slots \subseteq 0 .. 7
  BY BusAssumption
<1>1. at[0] = d /\ \A s \in 0 .. 7 : at[s + 1] = Handed(a, at[s], TRUE, s)
  <2> DEFINE write == TRUE
  <2>1. at = ByteAt(a, d, write)
    OBVIOUS
  <2> HIDE DEF write
  <2>2. at[0] = d /\ \A s \in 0 .. 7 : at[s + 1] = Handed(a, at[s], write, s)
    BY ONLY <2>1, ByteAtSteps
  <2> QED
    BY <2>2 DEF write
<1>2. P(0)
  <2>1. ~ \E t \in Slots : t < 0
    BY <1>0
  <2> QED
    BY <1>1, <2>1, Zenon DEF WrittenSoFar
<1>3. ASSUME NEW s \in 0 .. 7, P(s) PROVE P(s + 1)
  <2> DEFINE r == CardBankRom(cards[s], a, at[s], TRUE)
  <2>1. ASSUME s \in Slots
        PROVE  r.byte = IF FirmwareDrives(cards[s], a) THEN FirmwareByte ELSE at[s]
    <3>1. CardOK(cards[s]) /\ RamOK(cards[s])
      BY <2>1 DEF MInv, IInv
    <3>2. WrittenAsMapped(cards[s], a, at[s], r)
      BY <3>1, CardWrites
    <3> HIDE DEF r
    <3> QED
      BY <3>2 DEF WrittenAsMapped
  <2>2. at[s + 1] = IF s \in Slots THEN r.byte ELSE at[s]
    BY <1>1 DEF Handed
  <2> HIDE DEF r
  <2>3. \A t \in Slots : t < s + 1 <=> t < s \/ t = s
    BY <1>0
  <2> QED
    BY <1>3, <2>1, <2>2, <2>3 DEF WrittenSoFar
<1> HIDE DEF P
<1>4. S = Nat
  <2>1. 0 \in S
    BY <1>2
  <2>2. ASSUME NEW m \in S PROVE m + 1 \in S
    <3>1. SUFFICES ASSUME m + 1 <= 8 PROVE P(m + 1)
      OBVIOUS
    <3>2. m \in 0 .. 7 /\ P(m)
      BY <3>1
    <3> QED
      BY <1>3, <3>2
  <2>3. S \in SUBSET Nat
    OBVIOUS
  <2> HIDE DEF S
  <2> QED
    BY <2>1, <2>2, <2>3, Induction
<1>5. \A s \in 0 .. 8 : P(s)
  BY <1>4
<1> QED
  BY <1>5, BytesType DEF P, WrittenSoFar

-----------------------------------------------------------------------------
(* Each operation of a card is the map's operation on its switches.        *)

LEMMA PublishedKind == ASSUME NEW c PROVE Published(c).kind = c.kind
<1>1. CASE c.kind = "language"
  BY <1>1, PublishedLanguage
<1>2. CASE c.kind # "language"
  BY <1>2 DEF Published
<1> QED
  BY <1>1, <1>2

\* Card::io is the map's switch, and leaves the memory alone.
LEMMA CardIoIsSwitch ==
  ASSUME NEW c, CardOK(c), RamOK(c), NEW sw \in 0 .. 15, NEW writing \in BOOLEAN,
         NEW n, n = CardIo(c, sw, writing)
  PROVE  /\ Published(n) = Map!Switched(Published(c), sw, writing)
         /\ RamOf(n) = RamOf(c) /\ RamOK(n)
<1>1. CASE LanguageOK(c)
  <2>1. c.kind = "language" /\ n = LanguageIo(c, sw, writing)
    BY <1>1 DEF LanguageOK, CardIo
  <2>2. LanguageOK(n) /\ n.ram = c.ram /\ Published(n) = Map!Switched(Published(c), sw, writing)
    BY <1>1, <2>1, LanguageIoIsTable
  <2>3. n.kind = "language"
    BY <2>2 DEF LanguageOK
  <2> QED
    BY <2>1, <2>2, <2>3 DEF RamOf, RamOK
<1>2. CASE FirmwareOK(c)
  <2> DEFINE d  == sw % 2 = 0
             f8 == (sw \div 2) % 2 = 1
  <2>1. c.kind = "firmware" /\ n = [c EXCEPT !.inhibitBankRom = d, !.inhibitF8Rom = f8]
    BY <1>2 DEF FirmwareOK, CardIo, FirmwareIo
  <2>2. f8 = (sw % 4 \in {2, 3})
    OBVIOUS
  <2>3. d \in BOOLEAN /\ f8 \in BOOLEAN
    OBVIOUS
  <2> HIDE DEF d, f8
  <2>4. n.kind = "firmware" /\ n.inhibitBankRom = d /\ n.inhibitF8Rom = f8
    BY <1>2, <2>1 DEF FirmwareOK
  <2>5. Published(n) = [kind |-> "firmware", d |-> d, f8 |-> f8]
    BY <2>4, Zenon DEF Published
  <2>6. Published(c) = [kind |-> "firmware", d |-> c.inhibitBankRom, f8 |-> c.inhibitF8Rom]
    BY <2>1, Zenon DEF Published
  <2>7. Map!Switched(Published(c), sw, writing) =
          [Published(c) EXCEPT !.d = d, !.f8 = sw % 4 \in {2, 3}]
    <3> DEFINE m == Published(c)
    <3>1. m.kind = "firmware"
      BY <2>6
    <3> HIDE DEF m
    <3>2. Map!Switched(m, sw, writing) = [m EXCEPT !.d = sw % 2 = 0, !.f8 = sw % 4 \in {2, 3}]
      BY <3>1 DEF Map!Switched
    <3> QED
      BY <3>2 DEF m, d
  <2>8. Published(n) = Map!Switched(Published(c), sw, writing)
    <3>1. ASSUME NEW m \in [kind : {"firmware"}, d : BOOLEAN, f8 : BOOLEAN],
                 NEW x \in BOOLEAN, NEW y \in BOOLEAN, NEW z, z = [m EXCEPT !.d = x, !.f8 = y]
          PROVE  z = [kind |-> "firmware", d |-> x, f8 |-> y]
      BY ONLY <3>1
    <3>2. Map!Switched(Published(c), sw, writing) = [Published(c) EXCEPT !.d = d, !.f8 = f8]
      BY <2>2, <2>7, Zenon
    <3>3. Published(c) \in [kind : {"firmware"}, d : BOOLEAN, f8 : BOOLEAN]
      BY <1>2, <2>6 DEF FirmwareOK
    <3> QED
      BY <2>3, <2>5, <3>1, <3>2, <3>3
  <2> QED
    BY <2>1, <2>4, <2>8 DEF RamOf, RamOK
<1>3. CASE c \in [kind : {"empty", "disk", "other"}]
  <2>1. n = c /\ c.kind \notin {"language", "firmware"}
    BY <1>3 DEF CardIo
  <2>2. Map!Switched(Published(c), sw, writing) = Published(c)
    BY <2>1, PublishedKind DEF Map!Switched
  <2> QED
    BY <2>1, <2>2
<1> QED
  BY <1>1, <1>2, <1>3 DEF CardOK

\* Card::reset turns firmware off, and leaves the memory alone.
LEMMA CardResetIsReset ==
  ASSUME NEW c, CardOK(c), RamOK(c), NEW n, n = CardReset(c)
  PROVE  /\ Published(n) = IF Published(c).kind = "firmware" THEN Map!Fresh("firmware")
                           ELSE Published(c)
         /\ RamOf(n) = RamOf(c) /\ RamOK(n)
<1>1. CASE FirmwareOK(c)
  <2>1. /\ c.kind = "firmware"
        /\ n.kind = "firmware" /\ n.inhibitBankRom = FALSE /\ n.inhibitF8Rom = FALSE
    BY <1>1 DEF FirmwareOK, CardReset
  <2>2. Published(n) = [kind |-> "firmware", d |-> FALSE, f8 |-> FALSE]
    BY <2>1 DEF Published
  <2> QED
    BY <2>1, <2>2, PublishedKind DEF Map!Fresh, RamOf, RamOK
<1>2. CASE ~FirmwareOK(c)
  <2>1. c.kind # "firmware" /\ n = c
    BY <1>2 DEF CardOK, LanguageOK, CardReset
  <2> QED
    BY <2>1, PublishedKind
<1> QED
  BY <1>1, <1>2

\* A new card is as the map plugs it in.
LEMMA NewCardIsFresh ==
  ASSUME NEW type \in Types, NEW c, c = NewCard(type)
  PROVE  Published(c) = Map!Fresh(type) /\ RamOf(c) = Map!FreshRam(type) /\ RamOK(c)
<1>1. CASE type = "language"
  <2>1. /\ c.kind = "language" /\ c.readEnable = FALSE /\ c.writeEnable = TRUE /\ c.bank = 1
        /\ c.ram = [x \in Cells |-> 0]
    BY <1>1 DEF NewCard, NewLanguageCard
  <2>2. Published(c) = [kind |-> "language", read |-> FALSE, bank |-> 2, write |-> "enabled"]
    BY <2>1 DEF Published
  <2>3. Map!Fresh(type) = [kind |-> "language", read |-> FALSE, write |-> "enabled", bank |-> 2]
    BY <1>1 DEF Map!Fresh
  <2>4. Map!Cells = Cells
    BY DEF Map!Cells, Cells
  <2>5. RamOf(c) = Map!FreshRam(type)
    BY <1>1, <2>1, <2>4 DEF RamOf, Map!FreshRam
  <2>6. RamOK(c)
    BY <2>1, BytesType DEF RamOK
  <2> QED
    BY <2>2, <2>3, <2>5, <2>6
<1>2. CASE type = "firmware"
  <2>1. c.kind = "firmware" /\ c.inhibitBankRom = FALSE /\ c.inhibitF8Rom = FALSE
    BY <1>2 DEF NewCard, NewFirmwareCard
  <2> QED
    BY <1>2, <2>1 DEF Published, Map!Fresh, Map!FreshRam, RamOf, RamOK
<1>3. CASE type \in {"empty", "disk", "other"}
  <2>1. c = [kind |-> type]
    BY <1>3 DEF NewCard
  <2> QED
    BY <1>3, <2>1 DEF Published, Map!Fresh, Map!FreshRam, RamOf, RamOK
<1> QED
  BY <1>1, <1>2, <1>3 DEF Types

-----------------------------------------------------------------------------
(* Each cycle of the bus is the map's step.                                *)

\* The map's variables
MapSwitches == [s \in Slots |-> Published(cards[s])]
MapRam      == [s \in Slots |-> RamOf(cards[s])]

\* In a read the last card that drives the address answers, else the ROM.
LEMMA ReadIsRead ==
  ASSUME MInv, NEW a \in BankAddresses, ReadBankRom(a)
  PROVE  Map!Read(a)
<1> DEFINE after == [s \in Slots |->
                       CardBankRom(cards[s], a, ByteAt(a, data, FALSE)[s], FALSE).card]
<1>1. PICK at : at = ByteAt(a, data, FALSE)
  OBVIOUS
<1>2. /\ cards' = after
      /\ data' = IF \E s \in Slots : InhibitsRom(after[s]) THEN at[8] ELSE RomByte
  BY <1>1 DEF ReadBankRom, InhibitMotherboardRom
<1>3. ASSUME NEW s \in Slots
      PROVE  /\ InhibitsRom(after[s]) <=> Map!Drives(Published(cards[s]), a)
             /\ Published(after[s]) = Published(cards[s]) /\ RamOf(after[s]) = RamOf(cards[s])
  <2> DEFINE r == CardBankRom(cards[s], a, ByteAt(a, data, FALSE)[s], FALSE)
  <2>1. ReadAsMapped(cards[s], a, ByteAt(a, data, FALSE)[s], r)
    BY CardReads DEF MInv, IInv
  <2>2. after[s] = r.card
    OBVIOUS
  <2> HIDE DEF after, r
  <2> QED
    BY <2>1, <2>2, Zenon DEF ReadAsMapped
<1> HIDE DEF after
<1>4. UNCHANGED <<MapSwitches, MapRam>>
  BY <1>2, <1>3 DEF MapSwitches, MapRam
<1> DEFINE driving == {s \in Slots : Map!Drives(MapSwitches[s], a)}
           source == Map!Max(driving)
           byte == CASE driving = {} -> RomByte
                     [] driving # {} /\ MapSwitches[source].kind = "language" ->
                          MapRam[source][Map!Place(MapSwitches[source], a)]
                     [] OTHER -> FirmwareByte
<1>5. driving = Driving(a, 8)
  <2>1. \A s \in Slots : s < 8
    BY BusAssumption
  <2> QED
    BY <2>1 DEF Driving, MapSwitches
<1>6. (\E s \in Slots : InhibitsRom(after[s])) <=> driving # {}
  BY <1>3 DEF MapSwitches
<1>7. data' = byte
  <2>1. CASE driving = {}
    BY <1>2, <1>6, <2>1
  <2>2. CASE driving # {}
    <3>1. ReadSoFar(a, data, 8, at[8])
      <4>1. 8 \in 0 .. 8 /\ data \in AllBytes
        BY DEF MInv
      <4> QED
        BY <1>1, <4>1, ReadBytes
    <3>2. PICK t \in driving : (\A u \in driving : u <= t) /\ at[8] = Driven(cards[t], a)
      BY <1>5, <2>2, <3>1 DEF ReadSoFar
    <3>3. source = t
      <4>1. driving \subseteq Int
        <5>1. driving \subseteq Slots
          OBVIOUS
        <5>2. Slots \subseteq Int
          BY BusAssumption
        <5> HIDE DEF driving
        <5> QED
          BY ONLY <5>1, <5>2
      <4>2. ASSUME NEW y \in driving, \A u \in driving : u <= y PROVE y = t
        BY <3>2, <4>1, <4>2
      <4> HIDE DEF driving
      <4> QED
        BY <3>2, <4>2 DEF Map!Max
    <3>4. t \in Slots /\ MapSwitches[t] = Published(cards[t]) /\ MapRam[t] = RamOf(cards[t])
      BY <3>2 DEF MapSwitches, MapRam
    <3>5. Published(cards[t]).kind = cards[t].kind
      BY PublishedKind
    <3>6. data' = Driven(cards[t], a)
      BY <1>2, <1>6, <2>2, <3>2
    <3> HIDE DEF driving, source
    <3>7. CASE cards[t].kind = "language"
      <4>1. LanguageOK(cards[t])
        BY <3>4, <3>7 DEF MInv, IInv, CardOK, FirmwareOK
      <4>2. Map!Place(Published(cards[t]), a) = Cell(cards[t], a)
        BY <4>1, PlaceIsCell
      <4>3. byte = RamOf(cards[t])[Cell(cards[t], a)]
        BY <2>2, <3>3, <3>4, <3>5, <3>7, <4>2, Zenon
      <4> QED
        BY <3>6, <3>7, <4>3 DEF Driven, RamOf
    <3>8. CASE cards[t].kind # "language"
      <4>1. byte = FirmwareByte
        BY <2>2, <3>3, <3>4, <3>5, <3>8, Zenon
      <4> QED
        BY <3>6, <3>8, <4>1 DEF Driven
    <3> QED
      BY <3>7, <3>8
  <2> QED
    BY <2>1, <2>2
<1> QED
  BY <1>4, <1>7, Zenon DEF Map!Read, MapSwitches, MapRam

\* In a write the memory enabled for it takes the byte as it comes to the slot, and
\* no other memory changes.
LEMMA WriteIsWrite ==
  ASSUME MInv, NEW a \in BankAddresses, NEW d \in Bytes, WriteBankRom(a, d)
  PROVE  Map!Write(a, d)
<1>1. PICK at : at = ByteAt(a, d, TRUE)
  OBVIOUS
<1>2. \A s \in 0 .. 8 : at[s] = WrittenSoFar(a, d, s) /\ at[s] \in AllBytes
  <2>1. d \in AllBytes
    BY BytesType
  <2> QED
    BY ONLY <1>1, <2>1, MInv, a \in BankAddresses, WriteBytes
<1>3. /\ cards' = [s \in Slots |-> CardBankRom(cards[s], a, at[s], TRUE).card]
      /\ data' = at[8]
  BY <1>1 DEF WriteBankRom, SlotsBankRom
<1>4. \A s \in Slots : MapSwitches[s] = Published(cards[s])
  BY DEF MapSwitches
<1>5. ASSUME NEW s \in Slots PROVE at[s] = Map!Carried(s, a, d)
  <2>1. s \in 0 .. 8
    BY BusAssumption
  <2>2. at[s] = WrittenSoFar(a, d, s)
    BY <1>2, <2>1
  <2> QED
    BY <1>4, <2>2, FirmwareDriven, Zenon DEF WrittenSoFar, Map!Carried, MapSwitches
<1>6. ASSUME NEW s \in Slots
      PROVE  /\ Published(cards'[s]) = Published(cards[s])
             /\ RamOf(cards'[s]) = Stored(cards[s], a, Map!Carried(s, a, d))
  <2>1. CardOK(cards[s]) /\ RamOK(cards[s])
    BY DEF MInv, IInv
  <2> DEFINE r == CardBankRom(cards[s], a, at[s], TRUE)
  <2>2. cards'[s] = r.card /\ WrittenAsMapped(cards[s], a, at[s], r)
    BY <1>3, <2>1, CardWrites
  <2> HIDE DEF r
  <2>3. Published(cards'[s]) = Published(cards[s]) /\ RamOf(cards'[s]) = Stored(cards[s], a, at[s])
    BY <2>2, Zenon DEF WrittenAsMapped
  <2> QED
    BY <1>5, <2>3, Zenon
<1>7. MapSwitches' = MapSwitches
  BY <1>6 DEF MapSwitches
<1>8. MapRam' = [s \in Slots |->
                 IF MapSwitches[s].kind = "language" /\ MapSwitches[s].write = "enabled"
                   THEN [MapRam[s] EXCEPT ![Map!Place(MapSwitches[s], a)] = Map!Carried(s, a, d)]
                   ELSE MapRam[s]]
  <2>1. MapRam' = [s \in Slots |-> Stored(cards[s], a, Map!Carried(s, a, d))]
    BY <1>6 DEF MapRam
  <2>2. ASSUME NEW s \in Slots
        PROVE  Stored(cards[s], a, Map!Carried(s, a, d)) =
                 IF MapSwitches[s].kind = "language" /\ MapSwitches[s].write = "enabled"
                   THEN [MapRam[s] EXCEPT ![Map!Place(MapSwitches[s], a)] = Map!Carried(s, a, d)]
                   ELSE MapRam[s]
    <3>1. MapSwitches[s] = Published(cards[s]) /\ MapRam[s] = RamOf(cards[s])
      BY DEF MapSwitches, MapRam
    <3> QED
      BY <3>1, Zenon DEF Stored
  <2> QED
    BY <2>1, <2>2
<1>9. data' \in AllBytes
  BY <1>2, <1>3
<1> QED
  BY <1>7, <1>8, <1>9, Zenon DEF Map!Write, MapSwitches, MapRam

\* An access to a slot's switches switches that card alone.
LEMMA SlotIoIsSwitch ==
  ASSUME MInv, NEW s \in Slots, NEW sw \in Switches, NEW writing \in BOOLEAN,
         SlotIo(s, sw, writing), data' \in AllBytes
  PROVE  Map!Switch(s, sw, writing)
<1> DEFINE c == CardIo(cards[s], sw, writing)
<1>1. /\ Published(c) = Map!Switched(Published(cards[s]), sw, writing)
      /\ RamOf(c) = RamOf(cards[s])
  <2>1. CardOK(cards[s]) /\ RamOK(cards[s]) /\ sw \in 0 .. 15
    BY BusAssumption DEF MInv, IInv
  <2> QED
    BY <2>1, CardIoIsSwitch
<1>2. cards' = [cards EXCEPT ![s] = c]
  BY DEF SlotIo
<1> HIDE DEF c
<1>3. cards'[s] = c /\ \A t \in Slots \ {s} : cards'[t] = cards[t]
  BY <1>2 DEF MInv, IInv
<1>4. MapRam' = MapRam
  BY <1>1, <1>3 DEF MapRam
<1>5. MapSwitches' = [MapSwitches EXCEPT ![s] = Map!Switched(@, sw, writing)]
  <2>1. MapSwitches[s] = Published(cards[s])
    BY DEF MapSwitches
  <2> DEFINE m == Map!Switched(MapSwitches[s], sw, writing)
  <2>2. m = Published(c)
    BY <1>1, <2>1
  <2> HIDE DEF m
  <2>3. MapSwitches' = [MapSwitches EXCEPT ![s] = m]
    BY <1>3, <2>2 DEF MapSwitches
  <2> QED
    BY <2>3 DEF m
<1> QED
  BY <1>4, <1>5, Zenon DEF Map!Switch, MapSwitches, MapRam

\* RESET reaches the firmware cards alone.
LEMMA ResetIsReset ==
  ASSUME MInv, Reset
  PROVE  Map!Reset
<1>1. ASSUME NEW s \in Slots
      PROVE  /\ Published(cards'[s]) =
                  IF MapSwitches[s].kind = "firmware" THEN Map!Fresh("firmware") ELSE MapSwitches[s]
             /\ RamOf(cards'[s]) = RamOf(cards[s])
  <2> DEFINE c == CardReset(cards[s])
  <2>1. /\ Published(c) = IF Published(cards[s]).kind = "firmware" THEN Map!Fresh("firmware")
                          ELSE Published(cards[s])
        /\ RamOf(c) = RamOf(cards[s])
    <3>1. CardOK(cards[s]) /\ RamOK(cards[s])
      BY DEF MInv, IInv
    <3> QED
      BY <3>1, CardResetIsReset
  <2>2. cards'[s] = c
    BY DEF Reset
  <2>3. MapSwitches[s] = Published(cards[s])
    BY DEF MapSwitches
  <2> HIDE DEF c
  <2> QED
    BY <2>1, <2>2, <2>3
<1>2. MapRam' = MapRam
  BY <1>1 DEF MapRam
<1>3. MapSwitches' = [s \in Slots |->
                      IF MapSwitches[s].kind = "firmware" THEN Map!Fresh("firmware") ELSE MapSwitches[s]]
  BY <1>1 DEF MapSwitches
<1>4. data' = data
  BY DEF Reset
<1> QED
  BY <1>2, <1>3, <1>4, Zenon DEF Map!Reset, MapSwitches, MapRam

\* A slot line plugs a new card in, or changes nothing the program can see.
LEMMA InsertIsPlug ==
  ASSUME MInv, NEW s \in Slots, NEW type \in CardTypes[s], InsertCard(s, type)
  PROVE  IF type = "mistyped" THEN Map!Elsewhere ELSE Map!Plug(s, type)
<1>1. data' = data /\ data \in AllBytes
  BY DEF InsertCard, MInv
<1>2. CASE type = "mistyped"
  <2>1. cards' = cards
    BY <1>2 DEF InsertCard
  <2>2. MapSwitches' = MapSwitches /\ MapRam' = MapRam /\ data' \in AllBytes
    BY <1>1, <2>1 DEF MapSwitches, MapRam
  <2>3. Map!Elsewhere
    BY <2>2, Zenon DEF Map!Elsewhere, MapSwitches, MapRam
  <2> QED
    BY <1>2, <2>3
<1>3. CASE type # "mistyped"
  <2> DEFINE c == NewCard(type)
  <2>1. type \in Types
    BY <1>3, BusAssumption DEF Types
  <2>2. Published(c) = Map!Fresh(type) /\ RamOf(c) = Map!FreshRam(type)
    BY <2>1, NewCardIsFresh
  <2>3. cards' = [cards EXCEPT ![s] = c]
    BY <1>3 DEF InsertCard, SlotsSet
  <2> HIDE DEF c
  <2>4. cards'[s] = c /\ \A t \in Slots \ {s} : cards'[t] = cards[t]
    BY <2>3 DEF MInv, IInv
  <2>5. /\ MapSwitches' = [MapSwitches EXCEPT ![s] = Map!Fresh(type)]
        /\ MapRam' = [MapRam EXCEPT ![s] = Map!FreshRam(type)]
    BY <2>2, <2>4 DEF MapSwitches, MapRam
  <2>6. Map!Plug(s, type)
    BY <1>1, <2>5, Zenon DEF Map!Plug, MapSwitches, MapRam
  <2> QED
    BY <1>3, <2>6
<1> QED
  BY <1>2, <1>3

-----------------------------------------------------------------------------
(* MInv is inductive.                                                      *)

LEMMA InitMap == Init => MInv /\ Map!Init
<1> SUFFICES ASSUME Init PROVE MInv /\ Map!Init
  OBVIOUS
<1>1. IInv
  BY InitInvariant
<1> DEFINE c == NewCard("empty")
<1>2. Published(c) = Map!Fresh("empty") /\ RamOf(c) = Map!FreshRam("empty") /\ RamOK(c)
  BY NewCardIsFresh DEF Types
<1>3. c.kind = "empty"
  BY DEF NewCard
<1>4. \A s \in Slots : cards[s] = c
  BY DEF Init
<1>5. data \in AllBytes
  BY BytesType DEF Init
<1> HIDE DEF c
<1>6. MInv
  BY <1>1, <1>2, <1>3, <1>4, <1>5 DEF MInv
<1>7. Map!FreshRam("empty") = <<>>
  BY DEF Map!FreshRam
<1>8. /\ MapSwitches = [s \in Slots |-> Map!Fresh("empty")]
      /\ MapRam = [s \in Slots |-> <<>>]
  BY <1>2, <1>4, <1>7 DEF MapSwitches, MapRam
<1>9. Map!Init
  BY <1>5, <1>8, Zenon DEF Map!Init, MapSwitches, MapRam
<1> QED
  BY <1>6, <1>9

\* What remains to be shown of each step, once IInv is known to be kept
LEMMA MInvFrom ==
  ASSUME MInv, [Next]_vars, data' \in AllBytes,
         \A s \in Slots : RamOK(cards'[s])
  PROVE  MInv'
<1>1. IInv'
  BY NextInvariant DEF MInv
<1> QED
  BY <1>1 DEF MInv, RamOK

LEMMA NextMap == MInv /\ [Next]_vars => MInv'
<1> SUFFICES ASSUME MInv, [Next]_vars PROVE MInv'
  OBVIOUS
<1>1. \A s \in Slots : CardOK(cards[s]) /\ RamOK(cards[s])
  BY DEF MInv, IInv
<1>2. ASSUME NEW a \in BankAddresses, ReadBankRom(a) PROVE MInv'
  <2>1. PICK at : at = ByteAt(a, data, FALSE)
    OBVIOUS
  <2>2. at[8] \in AllBytes
    <3>1. data \in AllBytes /\ 8 \in 0 .. 8
      BY DEF MInv
    <3> QED
      BY <2>1, <3>1, ReadBytes
  <2>3. data' \in AllBytes
    BY <1>2, <2>1, <2>2, BytesType DEF ReadBankRom
  <2>4. ASSUME NEW s \in Slots PROVE RamOK(cards'[s]) /\ cards'[s].kind = cards[s].kind
    <3> DEFINE r == CardBankRom(cards[s], a, at[s], FALSE)
    <3>1. cards'[s] = r.card
      BY <1>2, <2>1 DEF ReadBankRom
    <3>2. ReadAsMapped(cards[s], a, at[s], r)
      BY <1>1, CardReads
    <3>3. r.card.kind = cards[s].kind
      BY <1>1, BankRomKeepsSwitches
    <3> HIDE DEF r
    <3>4. RamOf(r.card) = RamOf(cards[s])
      BY <3>2 DEF ReadAsMapped
    <3> QED
      BY <1>1, <3>1, <3>3, <3>4 DEF RamOf, RamOK
  <2> QED
    BY <2>3, <2>4, MInvFrom
<1>3. ASSUME NEW a \in BankAddresses, NEW d \in Bytes, WriteBankRom(a, d) PROVE MInv'
  <2>1. PICK at : at = ByteAt(a, d, TRUE)
    OBVIOUS
  <2>2. \A s \in 0 .. 8 : at[s] \in AllBytes
    <3>1. d \in AllBytes
      BY BytesType
    <3> QED
      BY <2>1, <3>1, WriteBytes
  <2>3. data' \in AllBytes
    <3>1. data' = at[8]
      BY <1>3, <2>1, Zenon DEF WriteBankRom, SlotsBankRom
    <3> QED
      BY <2>2, <3>1
  <2>4. ASSUME NEW s \in Slots PROVE RamOK(cards'[s]) /\ cards'[s].kind = cards[s].kind
    <3> DEFINE r == CardBankRom(cards[s], a, at[s], TRUE)
    <3>1. cards'[s] = r.card
      BY <1>3, <2>1 DEF WriteBankRom, SlotsBankRom
    <3>2. WrittenAsMapped(cards[s], a, at[s], r)
      BY <1>1, CardWrites
    <3>3. r.card.kind = cards[s].kind
      BY <1>1, BankRomKeepsSwitches
    <3>4. s \in 0 .. 8
      BY BusAssumption
    <3> HIDE DEF r
    <3> QED
      BY <2>2, <3>1, <3>2, <3>3, <3>4 DEF WrittenAsMapped
  <2> QED
    BY <2>3, <2>4, MInvFrom
<1>4. ASSUME NEW s \in Slots, NEW sw \in Switches, NEW writing \in BOOLEAN,
             SlotIo(s, sw, writing), data' \in AllBytes
      PROVE  MInv'
  <2> DEFINE c == CardIo(cards[s], sw, writing)
  <2>1. sw \in 0 .. 15
    BY BusAssumption
  <2>2. RamOK(c)
    BY <1>1, <2>1, CardIoIsSwitch
  <2>3. c.kind = cards[s].kind
    BY <1>1, <2>1, CardIoKeepsKind
  <2>4. cards' = [cards EXCEPT ![s] = c]
    BY <1>4 DEF SlotIo
  <2> HIDE DEF c
  <2>5. cards'[s] = c /\ \A t \in Slots \ {s} : cards'[t] = cards[t]
    BY <2>4 DEF MInv, IInv
  <2>6. \A t \in Slots : RamOK(cards'[t]) /\ cards'[t].kind = cards[t].kind
    BY <1>1, <2>2, <2>3, <2>5
  <2> QED
    BY <1>4, <2>6, MInvFrom
<1>5. ASSUME NEW s \in Slots, NEW sw \in Switches, ReadSlotSwitch(s, sw) PROVE MInv'
  <2>1. data' \in AllBytes
    BY <1>5, BytesType DEF ReadSlotSwitch, MInv
  <2> QED
    BY <1>4, <1>5, <2>1 DEF ReadSlotSwitch
<1>6. ASSUME NEW s \in Slots, NEW sw \in Switches, NEW d \in Bytes, WriteSlotSwitch(s, sw, d)
      PROVE  MInv'
  <2>1. data' \in AllBytes
    BY <1>6, BytesType DEF WriteSlotSwitch
  <2> QED
    BY <1>4, <1>6, <2>1 DEF WriteSlotSwitch
<1>7. CASE Reset
  <2>1. \A s \in Slots : RamOK(CardReset(cards[s])) /\ CardReset(cards[s]).kind = cards[s].kind
    BY <1>1, CardResetIsReset, ResetKeepsKind
  <2>2. \A s \in Slots : cards'[s] = CardReset(cards[s])
    BY <1>7 DEF Reset
  <2>3. data' \in AllBytes
    BY <1>7 DEF Reset, MInv
  <2> QED
    BY <2>1, <2>2, <2>3, MInvFrom
<1>8. ASSUME NEW s \in Slots, NEW type \in CardTypes[s], InsertCard(s, type) PROVE MInv'
  <2>1. data' \in AllBytes
    BY <1>8 DEF InsertCard, MInv
  <2>2. CASE type = "mistyped"
    <3>1. cards' = cards
      BY <1>8, <2>2 DEF InsertCard
    <3> QED
      BY <1>1, <2>1, <3>1, MInvFrom
  <2>3. CASE type # "mistyped"
    <3> DEFINE c == NewCard(type)
    <3>1. type \in Types
      BY <2>3, BusAssumption DEF Types
    <3>2. RamOK(c) /\ c.kind = type
      BY <3>1, NewCardIsFresh, NewCardNamed
    <3>3. cards' = [cards EXCEPT ![s] = c]
      BY <1>8, <2>3 DEF InsertCard, SlotsSet
    <3> HIDE DEF c
    <3>4. cards'[s] = c /\ \A t \in Slots \ {s} : cards'[t] = cards[t]
      BY <3>3 DEF MInv, IInv
    <3> QED
      BY <1>1, <2>1, <3>2, <3>4, MInvFrom
  <2> QED
    BY <2>2, <2>3
<1>9. ASSUME UNCHANGED cards, data' \in AllBytes PROVE MInv'
  BY <1>1, <1>9, MInvFrom
<1>10. CASE \E group \in 0 .. 7 : ReadSwitch(group)
  <2>1. data \in AllBytes
    BY DEF MInv
  <2>2. PICK group \in 0 .. 7 : ReadSwitch(group)
    BY <1>10
  <2>3. \/ data' \in Bytes \/ data' = data
        \/ \E set \in BOOLEAN : data' = WithD7(data, set)
    BY <2>2 DEF ReadSwitch
  <2>4. data' \in AllBytes
    BY <2>1, <2>3, BytesType
  <2> QED
    BY <1>9, <2>2, <2>4 DEF ReadSwitch
<1>11. CASE \E s \in Slots \ {0} : ReadSlotRom(s)
  <2>1. data' \in AllBytes /\ cards' = cards
    BY <1>11, BytesType DEF ReadSlotRom, MInv
  <2> QED
    BY <1>9, <2>1
<1>12. CASE \E d \in Bytes : AccessElsewhere(d)
  <2>1. data' \in AllBytes /\ cards' = cards
    BY <1>12, BytesType DEF AccessElsewhere
  <2> QED
    BY <1>9, <2>1
<1>13. CASE UNCHANGED vars
  <2>1. data' \in AllBytes /\ cards' = cards
    BY <1>13 DEF vars, MInv
  <2> QED
    BY <1>9, <2>1
<1> QED
  BY <1>2, <1>3, <1>5, <1>6, <1>7, <1>8, <1>10, <1>11, <1>12, <1>13 DEF Next

-----------------------------------------------------------------------------
\* Each step of the bus is the map's step for the same access.
LEMMA NextIsMapped == MInv => MapStep
<1> SUFFICES ASSUME MInv PROVE MapStep
  OBVIOUS
<1>1. ASSUME NEW s \in Slots, NEW sw \in Switches, ReadSlotSwitch(s, sw)
      PROVE  Map!Switch(s, sw, FALSE)
  <2>1. data' \in AllBytes
    BY <1>1, BytesType DEF ReadSlotSwitch, MInv
  <2>2. SlotIo(s, sw, FALSE)
    BY <1>1 DEF ReadSlotSwitch
  <2> QED
    BY <2>1, <2>2, SlotIoIsSwitch
<1>2. ASSUME NEW s \in Slots, NEW sw \in Switches, NEW d \in Bytes, WriteSlotSwitch(s, sw, d)
      PROVE  Map!Switch(s, sw, TRUE)
  <2>1. data' \in AllBytes
    BY <1>2, BytesType DEF WriteSlotSwitch
  <2>2. SlotIo(s, sw, TRUE)
    BY <1>2 DEF WriteSlotSwitch
  <2> QED
    BY <2>1, <2>2, SlotIoIsSwitch
<1> QED
  BY <1>1, <1>2, ReadIsRead, WriteIsWrite, ResetIsReset, InsertIsPlug DEF MapStep

(***************************************************************************)
(* Whatever a program does with the switches of any cards in any slots, it *)
(* finds at $D000-$FFFF what the tables of the manual say: the counter of  *)
(* LanguageCard::io, the inhibit lines and the byte that Slots::ioBankRom  *)
(* hands from card to card come to one source for a read, and for a write  *)
(* to the enabled memory alone, which gets the byte written, or that of a  *)
(* firmware card switched on in a slot before it.                          *)
(***************************************************************************)
THEOREM MapImplemented == Spec => ImplementsMemoryMap
<1>1. MInv => MapStep
  BY NextIsMapped
<1> QED
  BY <1>1, InitMap, NextMap, PTL DEF Spec, ImplementsMemoryMap

(***************************************************************************)
(* The cards stay records of their classes: writeCount in its width, and   *)
(* the memory of a language card and the floating bus filled with bytes,   *)
(* although the bus is read before anything was put on it.                 *)
(***************************************************************************)
THEOREM TypeCorrect == Spec => []TypeOK
<1>1. MInv => TypeOK
  <2> SUFFICES ASSUME MInv PROVE TypeOK
    OBVIOUS
  <2>1. ASSUME NEW s \in Slots
        PROVE  \/ cards[s] \in [kind : {"empty", "disk", "other"}]
               \/ FirmwareOK(cards[s])
               \/ cards[s] \in [kind : {"language"}, inhibit : BOOLEAN, bank : {0, 1},
                                readEnable : BOOLEAN, writeEnable : BOOLEAN,
                                writeCount : 0 .. CountMod - 1, ram : [Cells -> 0 .. 255]]
    <3>1. CASE LanguageOK(cards[s])
      <4>1. cards[s].kind = "language"
        BY <3>1 DEF LanguageOK
      <4>2. cards[s].ram \in [Cells -> 0 .. 255]
        BY <4>1, BytesType DEF MInv, RamOK
      <4> QED
        BY <3>1, <4>2 DEF LanguageOK
    <3> QED
      BY <3>1 DEF MInv, IInv, CardOK
  <2>2. data \in AllBytes /\ disk_mask \subseteq Slots
    BY DEF MInv, IInv
  <2> QED
    BY <2>1, <2>2 DEF TypeOK, FirmwareOK
<1> QED
  BY <1>1, InitMap, NextMap, PTL DEF Spec

-----------------------------------------------------------------------------
(* The motherboard's memory (memoryrow.cpp, memorystrapping.cpp,           *)
(* memoryrandomaccess.cpp).                                                *)

\* A row as commands make it: as many bytes as its smallest chip has.
IsRow(row) ==
  row \in [chips : [Sockets -> Models],
           values : [0 .. CalculatedSize(row.chips) - 1 -> SUBSET Sockets],
           power : BOOLEAN]

\* The motherboard's memory, with its blocks strapped anywhere.
IsRam(ram) ==
  /\ ram = [row |-> ram.row, strap |-> ram.strap, revision |-> ram.revision]
  /\ ram.row = [name \in RowNames |-> ram.row[name]]
  /\ \A name \in RowNames : IsRow(ram.row[name])
  /\ ram.strap \in [RowNames -> [base : Nat, size : Nat]]
  /\ ram.revision \in Nat

-----------------------------------------------------------------------------
\* A row is empty, or has the size of a chip.
LEMMA SizeOfChips ==
  ASSUME NEW chips \in [Sockets -> Models]
  PROVE  CalculatedSize(chips) \in {0, 1, 4}
<1> DEFINE sizes == {ChipSize[chips[socket]] : socket \in {s \in Sockets : chips[s] # EmptySocket}}
<1>1. \A model \in DOMAIN ChipSize : ChipSize[model] \in {1, 4}
  BY DEF ChipSize
<1>2. sizes \subseteq {1, 4}
  BY <1>1 DEF Models
<1>3. ASSUME sizes # {}
      PROVE  \E least \in sizes : \A size \in sizes : least <= size
  <2>1. CASE 1 \in sizes
    BY <1>2, <2>1
  <2>2. CASE 1 \notin sizes
    BY <1>2, <1>3, <2>2
  <2>3. QED
    BY <2>1, <2>2
<1>4. CalculatedSize(chips) = IF sizes = {} THEN 0
        ELSE CHOOSE least \in sizes : \A size \in sizes : least <= size
  BY DEF CalculatedSize
<1> HIDE DEF sizes
<1>5. QED
  BY <1>2, <1>3, <1>4

\* MemoryRow::size is what calculate_size last made it.
LEMMA RowSizeIsCalculated ==
  ASSUME NEW row, IsRow(row)
  PROVE  /\ RowSize(row) = CalculatedSize(row.chips)
         /\ RowSize(row) \in {0, 1, 4}
         /\ DOMAIN row.values = 0 .. RowSize(row) - 1
<1>1. CalculatedSize(row.chips) \in {0, 1, 4}
  BY SizeOfChips DEF IsRow
<1>2. DOMAIN row.values = 0 .. CalculatedSize(row.chips) - 1
  BY DEF IsRow
<1>3. Cardinality(0 .. CalculatedSize(row.chips) - 1) = CalculatedSize(row.chips)
  BY <1>1, FS_Interval
<1>4. QED
  BY <1>1, <1>2, <1>3 DEF RowSize

\* A row put together from its parts.
LEMMA RowOf ==
  ASSUME NEW chips \in [Sockets -> Models], NEW power \in BOOLEAN,
         NEW values \in [0 .. CalculatedSize(chips) - 1 -> SUBSET Sockets]
  PROVE  IsRow([chips |-> chips, values |-> values, power |-> power])
<1> DEFINE row == [chips |-> chips, values |-> values, power |-> power]
<1>1. row.chips = chips
  OBVIOUS
<1>2. row \in [chips : [Sockets -> Models],
              values : [0 .. CalculatedSize(chips) - 1 -> SUBSET Sockets], power : BOOLEAN]
  OBVIOUS
<1>3. QED
  BY <1>1, <1>2 DEF IsRow

\* The parts of a row have their types.
LEMMA RowParts ==
  ASSUME NEW row, IsRow(row)
  PROVE  /\ row.chips \in [Sockets -> Models]
         /\ row.values \in [0 .. CalculatedSize(row.chips) - 1 -> SUBSET Sockets]
         /\ row.power \in BOOLEAN
  BY DEF IsRow

\* The same, with any sets for the chips and the bytes.
LEMMA RowType ==
  ASSUME NEW row, IsRow(row)
  PROVE  \E C, V : row \in [chips : C, values : V, power : BOOLEAN]
  BY DEF IsRow

\* A model put into a socket leaves a row, whose bytes are kept where it has room.
LEMMA WithChipIsRow ==
  ASSUME NEW row, IsRow(row), NEW model \in Models, NEW socket \in Sockets
  PROVE  IsRow(WithChip(row, model, socket))
<1> DEFINE chips == [s \in Sockets |-> IF s = socket THEN model ELSE row.chips[s]]
           cells == 0 .. CalculatedSize(chips) - 1
           values == [cell \in cells |->
                        IF cell \in DOMAIN row.values THEN row.values[cell] ELSE {}]
<1>1. chips \in [Sockets -> Models]
  BY DEF IsRow
<1>2. values \in [cells -> SUBSET Sockets]
  BY DEF IsRow
<1>3. WithChip(row, model, socket) = [row EXCEPT !.chips = chips, !.values = values]
  BY DEF WithChip
<1>4. row.power \in BOOLEAN
  BY RowParts
<1> HIDE DEF chips, values
<1> PICK C, V : row \in [chips : C, values : V, power : BOOLEAN]
  BY RowType
<1>5. WithChip(row, model, socket) = [chips |-> chips, values |-> values, power |-> row.power]
  BY <1>3
<1>6. QED
  BY <1>1, <1>2, <1>4, <1>5, RowOf

\* A byte written to a row.
LEMMA RowWritten ==
  ASSUME NEW row, IsRow(row), NEW cell \in DOMAIN row.values, NEW byte \in SUBSET Sockets
  PROVE  /\ IsRow(RowWrite(row, cell, byte))
         /\ RowWrite(row, cell, byte).chips = row.chips
         /\ RowWrite(row, cell, byte).power = row.power
         /\ RowWrite(row, cell, byte).values = [row.values EXCEPT ![cell] = byte]
<1> DEFINE values == [row.values EXCEPT ![cell] = byte]
<1>1. RowWrite(row, cell, byte) = [row EXCEPT !.values = values]
  BY DEF RowWrite
<1>2. values \in [0 .. CalculatedSize(row.chips) - 1 -> SUBSET Sockets]
  BY RowParts
<1> HIDE DEF values
<1> PICK C, V : row \in [chips : C, values : V, power : BOOLEAN]
  BY RowType
<1>3. RowWrite(row, cell, byte) = [chips |-> row.chips, values |-> values, power |-> row.power]
  BY <1>1
<1>4. IsRow([chips |-> row.chips, values |-> values, power |-> row.power])
  BY <1>2, RowParts, RowOf
<1>5. QED
  BY <1>3, <1>4 DEF values

\* A row without power keeps its bytes.
LEMMA RowPoweredOff ==
  ASSUME NEW row, IsRow(row)
  PROVE  /\ IsRow(PoweredOff(row))
         /\ PoweredOff(row) = [chips |-> row.chips, values |-> row.values, power |-> FALSE]
<1> DEFINE off == FALSE
<1>1. PoweredOff(row) = [row EXCEPT !.power = off]
  BY DEF PoweredOff
<1>2. off \in BOOLEAN
  OBVIOUS
<1> HIDE DEF off
<1> PICK C, V : row \in [chips : C, values : V, power : BOOLEAN]
  BY RowType
<1>3. PoweredOff(row) = [chips |-> row.chips, values |-> row.values, power |-> off]
  BY <1>1
<1>4. IsRow([chips |-> row.chips, values |-> row.values, power |-> off])
  BY <1>2, RowParts, RowOf
<1>5. QED
  BY <1>3, <1>4 DEF off

\* A row begins anew when it had no power, and is as it was when it had.
LEMMA RowPoweredOn ==
  ASSUME NEW row, IsRow(row), NEW noise \in SUBSET Sockets
  PROVE  /\ IsRow(PoweredOn(row, noise))
         /\ row.power => PoweredOn(row, noise) = row
         /\ ~row.power => PoweredOn(row, noise) =
              [chips |-> row.chips, values |-> RandInit(Present(row), row.values, noise),
               power |-> TRUE]
<1>1. CASE row.power
  BY <1>1 DEF PoweredOn
<1>2. CASE ~row.power
  <2> DEFINE values == RandInit(Present(row), row.values, noise)
             on == TRUE
  <2>1. PoweredOn(row, noise) = [row EXCEPT !.power = on, !.values = values]
    BY <1>2 DEF PoweredOn
  <2>2. values \in [0 .. CalculatedSize(row.chips) - 1 -> SUBSET Sockets]
    BY RowParts DEF RandInit
  <2>3. on \in BOOLEAN
    OBVIOUS
  <2> HIDE DEF values, on
  <2> PICK C, V : row \in [chips : C, values : V, power : BOOLEAN]
    BY RowType
  <2>4. PoweredOn(row, noise) = [chips |-> row.chips, values |-> values, power |-> on]
    BY <2>1
  <2>5. IsRow([chips |-> row.chips, values |-> values, power |-> on])
    BY <2>2, <2>3, RowParts, RowOf
  <2>6. QED
    BY <1>2, <2>4, <2>5 DEF values, on
<1>3. QED
  BY <1>1, <1>2

\* Rows as they are made, and as the commands and the power leave them.
LEMMA RowsStayRows ==
  /\ IsRow(EmptyRow)
  /\ \A row : IsRow(row) =>
       /\ \A model \in Models, socket \in Sockets : IsRow(InsertedChip(row, model, socket))
       /\ IsRow(PoweredOff(row))
       /\ \A noise \in SUBSET Sockets : IsRow(PoweredOn(row, noise))
       /\ \A cell \in DOMAIN row.values, byte \in SUBSET Sockets :
            IsRow(RowWrite(row, cell, byte))
<1>1. IsRow(EmptyRow)
  <2> DEFINE chips == [socket \in Sockets |-> EmptySocket]
  <2>1. chips \in [Sockets -> Models]
    BY DEF Models
  <2>2. {s \in Sockets : chips[s] # EmptySocket} = {}
    OBVIOUS
  <2>3. CalculatedSize(chips) = 0
    BY <2>2 DEF CalculatedSize
  <2>4. [cell \in {} |-> {}] \in [0 .. CalculatedSize(chips) - 1 -> SUBSET Sockets]
    BY <2>3
  <2>5. EmptyRow = [chips |-> chips, values |-> [cell \in {} |-> {}], power |-> FALSE]
    BY DEF EmptyRow
  <2> HIDE DEF chips
  <2>6. QED
    BY <2>1, <2>4, <2>5 DEF IsRow
<1>2. ASSUME NEW row, IsRow(row)
      PROVE  /\ \A model \in Models, socket \in Sockets : IsRow(InsertedChip(row, model, socket))
             /\ IsRow(PoweredOff(row))
             /\ \A noise \in SUBSET Sockets : IsRow(PoweredOn(row, noise))
             /\ \A cell \in DOMAIN row.values, byte \in SUBSET Sockets :
                  IsRow(RowWrite(row, cell, byte))
  <2>1. ASSUME NEW model \in Models, NEW socket \in Sockets
        PROVE  IsRow(InsertedChip(row, model, socket))
    <3>1. EmptySocket \in Models
      BY DEF Models
    <3>2. IsRow(RemovedChip(row, socket))
      BY <1>2, <3>1, WithChipIsRow DEF RemovedChip
    <3>3. IsRow(WithChip(RemovedChip(row, socket), model, socket))
      BY <3>2, WithChipIsRow
    <3>4. QED
      BY <3>2, <3>3 DEF InsertedChip
  <2>2. IsRow(PoweredOff(row))
    BY <1>2, RowPoweredOff
  <2>3. ASSUME NEW noise \in SUBSET Sockets
        PROVE  IsRow(PoweredOn(row, noise))
    BY <1>2, RowPoweredOn
  <2>4. ASSUME NEW cell \in DOMAIN row.values, NEW byte \in SUBSET Sockets
        PROVE  IsRow(RowWrite(row, cell, byte))
    BY <1>2, <2>4, RowWritten
  <2>5. QED
    BY <2>1, <2>2, <2>3, <2>4
<1>3. QED
  BY <1>1, <1>2

-----------------------------------------------------------------------------
\* A byte written to a row is read again there, and changes no other.
LEMMA RowReadsWritten ==
  ASSUME NEW row, IsRow(row), NEW cell \in DOMAIN row.values, NEW byte \in SUBSET Sockets,
         NEW other \in DOMAIN row.values, NEW floating \in SUBSET Sockets
  PROVE  RowRead(RowWrite(row, cell, byte), other, floating) =
           IF other = cell THEN (byte \cap Present(row)) \cup (floating \ Present(row))
           ELSE RowRead(row, other, floating)
<1> DEFINE new == RowWrite(row, cell, byte)
<1>1. new.chips = row.chips /\ new.values = [row.values EXCEPT ![cell] = byte]
  BY RowWritten
<1> HIDE DEF new
<1>2. Present(new) = Present(row)
  BY <1>1 DEF Present
<1>3. DOMAIN new.values = DOMAIN row.values
  BY <1>1
<1>4. new.values[other] = IF other = cell THEN byte ELSE row.values[other]
  BY <1>1, RowParts
<1>5. RowRead(new, other, floating) =
        (new.values[other] \cap Present(row)) \cup (floating \ Present(row))
  BY <1>2, <1>3 DEF RowRead
<1>6. RowRead(row, other, floating) =
        (row.values[other] \cap Present(row)) \cup (floating \ Present(row))
  BY DEF RowRead
<1>7. QED
  BY <1>4, <1>5, <1>6 DEF new

\* A block holds no address past the end of its row: reading and writing are
\* never out of bounds.
LEMMA BlockInRow ==
  ASSUME NEW ram, IsRam(ram), NEW name \in RowNames, NEW address \in Nat,
         InBlock(ram, name, address)
  PROVE  address - ram.strap[name].base \in DOMAIN ram.row[name].values
<1>1. IsRow(ram.row[name]) /\ ram.strap[name].base \in Nat /\ ram.strap[name].size \in Nat
  BY DEF IsRam
<1>2. /\ RowSize(ram.row[name]) \in {0, 1, 4}
      /\ DOMAIN ram.row[name].values = 0 .. RowSize(ram.row[name]) - 1
  BY <1>1, RowSizeIsCalculated
<1>3. QED
  BY <1>1, <1>2 DEF InBlock, StrappedSize

\* What writing leaves as it is: everything but the bytes.
SameButBytes(new, ram) ==
  /\ IsRam(new)
  /\ new.strap = ram.strap
  /\ new.revision = ram.revision
  /\ \A name \in RowNames : /\ new.row[name].chips = ram.row[name].chips
                            /\ new.row[name].power = ram.row[name].power

\* The operators that do not look at bytes.
LEMMA SameAnswers ==
  ASSUME NEW new, NEW ram, IsRam(ram), SameButBytes(new, ram), NEW address \in Nat
  PROVE  /\ \A name \in RowNames : /\ RowSize(new.row[name]) = RowSize(ram.row[name])
                                   /\ Present(new.row[name]) = Present(ram.row[name])
                                   /\ InBlock(new, name, address) <=> InBlock(ram, name, address)
         /\ Containing(new, address) = Containing(ram, address)
         /\ Faulty(new, address) <=> Faulty(ram, address)
         /\ Answering(new, address) = Answering(ram, address)
<1>1. ASSUME NEW name \in RowNames
      PROVE  /\ RowSize(new.row[name]) = RowSize(ram.row[name])
             /\ Present(new.row[name]) = Present(ram.row[name])
  BY RowSizeIsCalculated DEF SameButBytes, IsRam, Present
<1>2. ASSUME NEW name \in RowNames, NEW a
      PROVE  InBlock(new, name, a) <=> InBlock(ram, name, a)
  BY <1>1 DEF SameButBytes, InBlock, StrappedSize
<1>3. \A a : Containing(new, a) = Containing(ram, a)
  BY <1>2 DEF Containing
<1>4. "C" \in RowNames /\ "D" \in RowNames /\ "E" \in RowNames
  BY DEF RowNames
<1>5. Faulty(new, address) <=> Faulty(ram, address)
  BY <1>1, <1>4 DEF Faulty, K20or24, SameButBytes
<1>6. QED
  BY <1>1, <1>2, <1>3, <1>5 DEF Answering

\* Of rows, some of which are strapped to an address, one that is answers.
LEMMA FirstContains ==
  ASSUME NEW ram, NEW address, Containing(ram, address) # {}
  PROVE  /\ FirstOf(Containing(ram, address)) \in RowNames
         /\ InBlock(ram, FirstOf(Containing(ram, address)), address)
<1>1. FirstOf(Containing(ram, address)) \in Containing(ram, address)
  BY DEF FirstOf, Containing, RowNames
<1>2. QED
  BY <1>1 DEF Containing

\* Writing through all the blocks is read through the first of them.
LEMMA WriteAllRead ==
  ASSUME NEW ram, IsRam(ram), NEW address \in Nat, NEW byte \in SUBSET Sockets
  PROVE  /\ SameButBytes(WriteAll(ram, address, byte), ram)
         /\ \A other \in Nat, floating \in SUBSET Sockets :
              Containing(ram, other) # {} =>
                FirstRead(WriteAll(ram, address, byte), other, floating) =
                  IF other = address
                  THEN (byte \cap Held(ram, other)) \cup (floating \ Held(ram, other))
                  ELSE FirstRead(ram, other, floating)
<1> DEFINE new == WriteAll(ram, address, byte)
           rows == [name \in RowNames |->
                      IF InBlock(ram, name, address)
                      THEN RowWrite(ram.row[name], address - ram.strap[name].base, byte)
                      ELSE ram.row[name]]
<1>1. new = [ram EXCEPT !.row = rows]
  BY DEF WriteAll
<1>2. \A name \in RowNames :
        /\ IsRow(rows[name])
        /\ rows[name].chips = ram.row[name].chips
        /\ rows[name].power = ram.row[name].power
  <2> SUFFICES ASSUME NEW name \in RowNames
               PROVE  /\ IsRow(rows[name])
                      /\ rows[name].chips = ram.row[name].chips
                      /\ rows[name].power = ram.row[name].power
    OBVIOUS
  <2>1. IsRow(ram.row[name])
    BY DEF IsRam
  <2>2. CASE InBlock(ram, name, address)
    <3> DEFINE cell == address - ram.strap[name].base
               old == ram.row[name]
    <3>1. IsRow(old) /\ cell \in DOMAIN old.values
      BY <2>1, <2>2, BlockInRow
    <3>2. rows[name] = RowWrite(old, cell, byte)
      BY <2>2
    <3> HIDE DEF rows, cell
    <3>3. /\ IsRow(RowWrite(old, cell, byte))
          /\ RowWrite(old, cell, byte).chips = old.chips
          /\ RowWrite(old, cell, byte).power = old.power
      <4> HIDE DEF old
      <4>1. QED
        BY <3>1, RowWritten
    <3>4. QED
      BY <3>2, <3>3
  <2>3. CASE ~InBlock(ram, name, address)
    BY <2>1, <2>3
  <2>4. QED
    BY <2>2, <2>3
<1>3. rows = [name \in RowNames |-> rows[name]]
  OBVIOUS
<1>4. \A name \in RowNames :
        rows[name] = IF InBlock(ram, name, address)
                     THEN RowWrite(ram.row[name], address - ram.strap[name].base, byte)
                     ELSE ram.row[name]
  OBVIOUS
<1> HIDE DEF rows, new
<1>5. new = [row |-> rows, strap |-> ram.strap, revision |-> ram.revision]
  <2>1. PICK R, S : ram \in [row : R, strap : S, revision : Nat]
    BY DEF IsRam
  <2>2. QED
    BY <1>1, <2>1
<1>6. new.row = rows /\ new.strap = ram.strap /\ new.revision = ram.revision
  BY <1>5
<1>7. IsRam(new)
  BY <1>2, <1>3, <1>5, <1>6 DEF IsRam
<1>8. SameButBytes(new, ram)
  BY <1>2, <1>6, <1>7 DEF SameButBytes
<1>9. ASSUME NEW other \in Nat, NEW floating \in SUBSET Sockets, Containing(ram, other) # {}
      PROVE  FirstRead(new, other, floating) =
               IF other = address
               THEN (byte \cap Held(ram, other)) \cup (floating \ Held(ram, other))
               ELSE FirstRead(ram, other, floating)
  <2> DEFINE name == FirstOf(Containing(ram, other))
             base == ram.strap[name].base
             old == ram.row[name]
  <2>1. name \in RowNames /\ InBlock(ram, name, other)
    BY <1>9, FirstContains
  <2>2. Containing(new, other) = Containing(ram, other)
    BY <1>8, SameAnswers
  <2>3. FirstRead(new, other, floating) = RowRead(rows[name], other - base, floating)
    BY <1>6, <2>2 DEF FirstRead
  <2>4. FirstRead(ram, other, floating) = RowRead(old, other - base, floating)
    BY DEF FirstRead
  <2>5. Held(ram, other) = Present(old)
    BY <1>9 DEF Held
  <2>6. other - base \in DOMAIN old.values /\ base \in Nat /\ IsRow(old)
    BY <2>1, BlockInRow DEF IsRam
  <2> HIDE DEF name, base, old
  <2>7. CASE InBlock(ram, name, address)
    <3> DEFINE cell == address - base
               place == other - base
    <3>1. cell \in DOMAIN old.values
      BY <2>1, <2>7, BlockInRow DEF base, old
    <3>2. rows[name] = RowWrite(old, cell, byte)
      BY <1>4, <2>1, <2>7 DEF base, old
    <3>3. place = cell <=> other = address
      BY <2>6
    <3>4. RowRead(rows[name], place, floating) =
            IF place = cell THEN (byte \cap Present(old)) \cup (floating \ Present(old))
            ELSE RowRead(old, place, floating)
      <4>1. IsRow(old) /\ place \in DOMAIN old.values
        BY <2>6
      <4> HIDE DEF cell, place
      <4>2. QED
        BY <3>1, <3>2, <4>1, RowReadsWritten
    <3>5. QED
      BY <2>3, <2>4, <2>5, <3>3, <3>4
  <2>8. CASE ~InBlock(ram, name, address)
    <3>1. rows[name] = old
      BY <1>4, <2>1, <2>8 DEF old
    <3>2. other # address
      BY <2>1, <2>8
    <3>3. QED
      BY <2>3, <2>4, <3>1, <3>2
  <2>9. QED
    BY <2>7, <2>8
<1>10. QED
  BY <1>8, <1>9 DEF new

-----------------------------------------------------------------------------
\* The comment's condition for the fault of revision 0 (memoryrandomaccess.cpp:61)
\* is the one that k20or24 computes (memoryrandomaccess.cpp:57) if the rows are
\* in order: the row D counted twice then stands for D and E.
THEOREM FaultIsAsCommented ==
  ASSUME NEW ram, IsRam(ram)
  PROVE  FaultAsCommented(ram)
<1>1. "C" \in RowNames /\ "D" \in RowNames /\ "E" \in RowNames
  BY DEF RowNames
<1>2. /\ RowSize(ram.row["C"]) \in {0, 1, 4}
      /\ RowSize(ram.row["D"]) \in {0, 1, 4}
      /\ RowSize(ram.row["E"]) \in {0, 1, 4}
  BY <1>1, RowSizeIsCalculated DEF IsRam
<1>3. QED
  BY <1>2 DEF FaultAsCommented, Faulty, Duplicated, K20or24, InOrder

\* Reading looks at the memory of the address that answers.
LEMMA ReadsAnswering ==
  ASSUME NEW ram, IsRam(ram), NEW address, NEW floating
  PROVE  RamRead(ram, address, floating) =
           IF Containing(ram, Answering(ram, address)) = {} THEN floating
           ELSE FirstRead(ram, Answering(ram, address), floating)
BY DEF RamRead, BuggyRead, Answering

\* The places written: the address, or both duplicates.
WrittenTo(ram, address) ==
  IF Faulty(ram, address) THEN {Without2000(address), With2000(address)} ELSE {address}

\* The two addresses of a duplicated byte, of which one is the address itself.
LEMMA Duplicates ==
  ASSUME NEW address \in 4 .. 7
  PROVE  /\ Without2000(address) \in {4, 5} /\ With2000(address) \in {6, 7}
         /\ With2000(address) = Without2000(address) + 2
         /\ address \in {Without2000(address), With2000(address)}
<1>1. address \in {4, 5, 6, 7}
  OBVIOUS
<1>2. /\ Without2000(4) = 4 /\ Without2000(5) = 5
      /\ Without2000(6) = 4 /\ Without2000(7) = 5
  BY DEF Without2000
<1>3. QED
  BY <1>1, <1>2 DEF With2000

\* An address reads as written if it is answered from where it was written, and
\* these are the addresses with the same answer.
LEMMA AnsweredFromWritten ==
  ASSUME NEW ram, IsRam(ram), NEW address \in Nat, NEW other \in Nat
  PROVE  /\ Answering(ram, other) \in Nat
         /\ Answering(ram, other) \in WrittenTo(ram, address) <=>
              Answering(ram, other) = Answering(ram, address)
<1>1. \A a \in Nat : ~Faulty(ram, a) => Answering(ram, a) = a
  BY DEF Answering
<1>2. \A a \in Nat : Faulty(ram, a) =>
        a \in 4 .. 7 /\ Answering(ram, a) \in {Without2000(a), With2000(a)}
  BY DEF Answering, Faulty
<1>3. \A a, b \in 4 .. 7 : Faulty(ram, a) => Faulty(ram, b)
  BY DEF Faulty
<1>4. \A a, b \in Nat :
        Faulty(ram, a) /\ Without2000(a) = Without2000(b) /\ Faulty(ram, b) =>
          Answering(ram, a) = Answering(ram, b)
  BY DEF Answering, With2000
<1>5. CASE Faulty(ram, address) /\ Faulty(ram, other)
  BY <1>2, <1>4, <1>5, Duplicates DEF WrittenTo
<1>6. CASE Faulty(ram, address) /\ ~Faulty(ram, other)
  <2>1. other \notin 4 .. 7
    BY <1>2, <1>3, <1>6
  <2>2. QED
    BY <1>1, <1>2, <1>6, <2>1, Duplicates DEF WrittenTo
<1>7. CASE ~Faulty(ram, address) /\ Faulty(ram, other)
  <2>1. address \notin 4 .. 7
    BY <1>2, <1>3, <1>7
  <2>2. QED
    BY <1>1, <1>2, <1>7, <2>1, Duplicates DEF WrittenTo
<1>8. CASE ~Faulty(ram, address) /\ ~Faulty(ram, other)
  BY <1>1, <1>8 DEF WrittenTo
<1>9. QED
  BY <1>5, <1>6, <1>7, <1>8

\* Writing, through the fault or not, is read from the first block of each place.
LEMMA RamWriteRead ==
  ASSUME NEW ram, IsRam(ram), NEW address \in Nat, NEW byte \in SUBSET Sockets
  PROVE  /\ SameButBytes(RamWrite(ram, address, byte), ram)
         /\ \A place \in Nat, floating \in SUBSET Sockets :
              Containing(ram, place) # {} =>
                FirstRead(RamWrite(ram, address, byte), place, floating) =
                  IF place \in WrittenTo(ram, address)
                  THEN (byte \cap Held(ram, place)) \cup (floating \ Held(ram, place))
                  ELSE FirstRead(ram, place, floating)
<1>1. CASE ~Faulty(ram, address)
  BY <1>1, WriteAllRead DEF RamWrite, WrittenTo
<1>2. CASE Faulty(ram, address)
  <2> DEFINE lower == Without2000(address)
             upper == With2000(address)
             once == WriteAll(ram, lower, byte)
             twice == WriteAll(once, upper, byte)
             thrice == WriteAll(twice, address, byte)
  <2>1. lower \in Nat /\ upper \in Nat /\ address \in {lower, upper}
    BY <1>2, Duplicates DEF Faulty
  <2>2. RamWrite(ram, address, byte) = thrice
    BY <1>2 DEF RamWrite, BuggyWrite
  <2>3. WrittenTo(ram, address) = {lower, upper}
    BY <1>2 DEF WrittenTo
  <2>4. SameButBytes(once, ram) /\ IsRam(once)
    BY <2>1, WriteAllRead DEF SameButBytes
  <2>5. SameButBytes(twice, once) /\ IsRam(twice)
    BY <2>1, <2>4, WriteAllRead DEF SameButBytes
  <2>6. SameButBytes(thrice, twice)
    BY <2>5, WriteAllRead
  <2>7. SameButBytes(twice, ram) /\ SameButBytes(thrice, ram)
    BY <2>4, <2>5, <2>6 DEF SameButBytes
  <2>8. ASSUME NEW place \in Nat, NEW floating \in SUBSET Sockets, Containing(ram, place) # {}
        PROVE  FirstRead(thrice, place, floating) =
                 IF place \in {lower, upper}
                 THEN (byte \cap Held(ram, place)) \cup (floating \ Held(ram, place))
                 ELSE FirstRead(ram, place, floating)
    <3> DEFINE written == (byte \cap Held(ram, place)) \cup (floating \ Held(ram, place))
    <3>1. FirstRead(once, place, floating) =
            IF place = lower THEN written ELSE FirstRead(ram, place, floating)
      BY <2>1, <2>8, WriteAllRead
    <3>2. /\ Containing(once, place) = Containing(ram, place)
          /\ Held(once, place) = Held(ram, place)
      BY <2>4, <2>8, SameAnswers, FirstContains DEF Held
    <3>3. FirstRead(twice, place, floating) =
            IF place = upper THEN written ELSE FirstRead(once, place, floating)
      BY <2>1, <2>4, <2>8, <3>2, WriteAllRead
    <3>4. /\ Containing(twice, place) = Containing(ram, place)
          /\ Held(twice, place) = Held(ram, place)
      BY <2>7, <2>8, SameAnswers, FirstContains DEF Held
    <3>5. FirstRead(thrice, place, floating) =
            IF place = address THEN written ELSE FirstRead(twice, place, floating)
      BY <2>5, <2>8, <3>4, WriteAllRead
    <3>6. QED
      BY <2>1, <3>1, <3>3, <3>5
  <2> HIDE DEF lower, upper, thrice
  <2>9. QED
    BY <2>2, <2>3, <2>7, <2>8
<1>3. QED
  BY <1>1, <1>2

\* A byte written is read again at its address and, where the fault of revision 0
\* strikes, at its duplicate, floating where there is no chip, and every other
\* address reads as before (MemoryHolds, of memoryrandomaccess.cpp:62 to 138): with
\* any chips in any row, and with the blocks strapped anywhere, over each other too.
THEOREM MemoryHoldsWhatIsWritten ==
  ASSUME NEW ram, IsRam(ram), NEW address \in Nat,
         NEW byte \in SUBSET Sockets, NEW floating \in SUBSET Sockets
  PROVE  HoldsWhatIsWritten(ram, address, byte, floating)
<1> DEFINE new == RamWrite(ram, address, byte)
<1>1. SameButBytes(new, ram) /\ IsRam(new)
  BY RamWriteRead DEF SameButBytes
<1>2. ASSUME NEW other \in 0 .. 11
      PROVE  RamRead(new, other, floating) =
               IF Answering(ram, other) = Answering(ram, address)
               THEN (byte \cap Held(ram, Answering(ram, other)))
                      \cup (floating \ Held(ram, Answering(ram, other)))
               ELSE RamRead(ram, other, floating)
  <2> DEFINE place == Answering(ram, other)
  <2>1. /\ place \in Nat
        /\ place \in WrittenTo(ram, address) <=> place = Answering(ram, address)
    BY AnsweredFromWritten
  <2>2. RamRead(ram, other, floating) =
          IF Containing(ram, place) = {} THEN floating ELSE FirstRead(ram, place, floating)
    BY ReadsAnswering
  <2>3. RamRead(new, other, floating) =
          IF Containing(new, Answering(new, other)) = {} THEN floating
          ELSE FirstRead(new, Answering(new, other), floating)
    BY <1>1, ReadsAnswering
  <2>4. Answering(new, other) = place
    BY <1>1, SameAnswers
  <2> HIDE DEF place, new
  <2>5. Containing(new, place) = Containing(ram, place)
    BY <1>1, <2>1, SameAnswers
  <2>6. CASE Containing(ram, place) = {}
    <3>1. Held(ram, place) = {}
      BY <2>6 DEF Held
    <3>2. QED
      BY <2>2, <2>3, <2>4, <2>5, <2>6, <3>1 DEF place
  <2>7. CASE Containing(ram, place) # {}
    <3>1. FirstRead(new, place, floating) =
            IF place \in WrittenTo(ram, address)
            THEN (byte \cap Held(ram, place)) \cup (floating \ Held(ram, place))
            ELSE FirstRead(ram, place, floating)
      BY <2>1, <2>7, RamWriteRead DEF new
    <3>2. QED
      BY <2>1, <2>2, <2>3, <2>4, <2>5, <2>7, <3>1 DEF place
  <2>8. QED
    BY <2>6, <2>7
<1> HIDE DEF new
<1>3. QED
  BY <1>2 DEF HoldsWhatIsWritten, new

\* The power switched off and on again: what every row begins with is read from
\* the first block of each place.
LEMMA CycledRead ==
  ASSUME NEW ram, IsRam(ram), \A name \in RowNames : ram.row[name].power,
         NEW noise \in SUBSET Sockets
  PROVE  /\ SameButBytes(RamPowerOn(RamPowerOff(ram), noise), ram)
         /\ \A place \in Nat, floating \in SUBSET Sockets :
              Containing(ram, place) # {} =>
                FirstRead(RamPowerOn(RamPowerOff(ram), noise), place, floating) =
                  (noise \cap Held(ram, place)) \cup (floating \ Held(ram, place))
<1> DEFINE offRows == [name \in RowNames |-> PoweredOff(ram.row[name])]
           off == RamPowerOff(ram)
           rows == [name \in RowNames |-> PoweredOn(off.row[name], noise)]
           new == RamPowerOn(off, noise)
<1>1. PICK R, S : ram \in [row : R, strap : S, revision : Nat]
  BY DEF IsRam
<1>2. off = [row |-> offRows, strap |-> ram.strap, revision |-> ram.revision]
  <2>1. off = [ram EXCEPT !.row = offRows]
    BY DEF RamPowerOff
  <2> HIDE DEF off, offRows
  <2>2. QED
    BY <1>1, <2>1
<1>3. new = [row |-> rows, strap |-> ram.strap, revision |-> ram.revision]
  <2>1. new = [off EXCEPT !.row = rows]
    BY DEF RamPowerOn
  <2> HIDE DEF off, offRows, rows, new
  <2>2. PICK R2, S2 : off \in [row : R2, strap : S2, revision : Nat]
    BY <1>1, <1>2
  <2>3. QED
    BY <1>2, <2>1, <2>2
<1>4. ASSUME NEW name \in RowNames
      PROVE  /\ IsRow(ram.row[name]) /\ IsRow(rows[name])
             /\ rows[name].chips = ram.row[name].chips
             /\ rows[name].power = ram.row[name].power
             /\ rows[name].values =
                  RandInit(Present(ram.row[name]), ram.row[name].values, noise)
  <2> DEFINE old == ram.row[name]
             dark == PoweredOff(old)
  <2>1. IsRow(old) /\ old.power = TRUE
    BY DEF IsRam
  <2>2. rows[name] = PoweredOn(dark, noise)
    BY <1>2
  <2> HIDE DEF old, rows
  <2>3. IsRow(dark) /\ dark = [chips |-> old.chips, values |-> old.values, power |-> FALSE]
    BY <2>1, RowPoweredOff
  <2>4. /\ IsRow(PoweredOn(dark, noise))
        /\ ~dark.power => PoweredOn(dark, noise) =
             [chips |-> dark.chips, values |-> RandInit(Present(dark), dark.values, noise),
              power |-> TRUE]
    <3> HIDE DEF dark
    <3>1. QED
      BY <2>3, RowPoweredOn
  <2>5. /\ dark.chips = old.chips /\ dark.values = old.values /\ ~dark.power
        /\ Present(dark) = Present(old)
    BY <2>3 DEF Present
  <2> HIDE DEF dark
  <2>6. PoweredOn(dark, noise) =
          [chips |-> old.chips, values |-> RandInit(Present(old), old.values, noise),
           power |-> TRUE]
    BY <2>4, <2>5
  <2>7. IsRow(rows[name]) /\ IsRow(old)
    BY <2>1, <2>2, <2>4
  <2>8. /\ rows[name].chips = old.chips
        /\ rows[name].values = RandInit(Present(old), old.values, noise)
    BY <2>2, <2>6
  <2>9. rows[name].power = TRUE
    BY <2>2, <2>6
  <2>10. rows[name].power = old.power
    BY <2>1, <2>9, Zenon
  <2>11. QED
    BY <2>7, <2>8, <2>10 DEF old
<1>5. rows = [name \in RowNames |-> rows[name]]
  OBVIOUS
<1> HIDE DEF rows, off, offRows, new
<1>6. new.row = rows /\ new.strap = ram.strap /\ new.revision = ram.revision
  BY <1>3
<1>7. IsRam(new)
  BY <1>3, <1>4, <1>5, <1>6 DEF IsRam
<1>8. SameButBytes(new, ram)
  BY <1>4, <1>6, <1>7 DEF SameButBytes
<1>9. ASSUME NEW place \in Nat, NEW floating \in SUBSET Sockets, Containing(ram, place) # {}
      PROVE  FirstRead(new, place, floating) =
               (noise \cap Held(ram, place)) \cup (floating \ Held(ram, place))
  <2> DEFINE name == FirstOf(Containing(ram, place))
             old == ram.row[name]
             cell == place - ram.strap[name].base
  <2>1. name \in RowNames /\ InBlock(ram, name, place)
    BY <1>9, FirstContains
  <2>2. Containing(new, place) = Containing(ram, place)
    BY <1>8, SameAnswers
  <2>3. FirstRead(new, place, floating) = RowRead(rows[name], cell, floating)
    BY <1>6, <2>2 DEF FirstRead
  <2>4. Held(ram, place) = Present(old)
    BY <1>9 DEF Held
  <2>5. cell \in DOMAIN old.values
    BY <2>1, BlockInRow
  <2>6. /\ rows[name].values = RandInit(Present(old), old.values, noise)
        /\ Present(rows[name]) = Present(old)
    BY <1>4, <2>1 DEF Present
  <2> HIDE DEF name, old, cell
  <2>7. /\ cell \in DOMAIN rows[name].values
        /\ rows[name].values[cell] =
             (noise \cap Present(old)) \cup (old.values[cell] \ Present(old))
    BY <2>5, <2>6 DEF RandInit
  <2>8. RowRead(rows[name], cell, floating) =
          (rows[name].values[cell] \cap Present(old)) \cup (floating \ Present(old))
    BY <2>6, <2>7 DEF RowRead
  <2>9. QED
    BY <2>3, <2>4, <2>7, <2>8
<1>10. QED
  BY <1>8, <1>9 DEF new, off

\* Memory that is on stays as it is when it is powered on; when it has been off,
\* every bit that has a chip is as the chip begins, and the others float
\* (MemoryHolds, of memoryrow.cpp:58 to 78): with any chips in any row, and with
\* the blocks strapped anywhere.
THEOREM MemoryBeginsAnew ==
  ASSUME NEW ram, IsRam(ram), \A name \in RowNames : ram.row[name].power,
         NEW noise \in SUBSET Sockets, NEW floating \in SUBSET Sockets
  PROVE  BeginsAnew(ram, noise, floating)
<1> DEFINE new == RamPowerOn(RamPowerOff(ram), noise)
<1>1. RamPowerOn(ram, noise) = ram
  <2> DEFINE rows == [name \in RowNames |-> PoweredOn(ram.row[name], noise)]
  <2>1. \A name \in RowNames : PoweredOn(ram.row[name], noise) = ram.row[name]
    BY DEF PoweredOn
  <2>2. rows = ram.row
    BY <2>1 DEF IsRam
  <2>3. RamPowerOn(ram, noise) = [ram EXCEPT !.row = rows]
    BY DEF RamPowerOn
  <2>4. PICK R, S : ram \in [row : R, strap : S, revision : Nat]
    BY DEF IsRam
  <2> HIDE DEF rows
  <2>5. RamPowerOn(ram, noise) = [row |-> rows, strap |-> ram.strap, revision |-> ram.revision]
    BY <2>3, <2>4
  <2>6. QED
    BY <2>2, <2>5 DEF IsRam
<1>2. SameButBytes(new, ram) /\ IsRam(new)
  BY CycledRead DEF SameButBytes
<1>3. ASSUME NEW address \in 0 .. 11
      PROVE  RamRead(new, address, floating) =
               (noise \cap Held(ram, Answering(ram, address)))
                 \cup (floating \ Held(ram, Answering(ram, address)))
  <2> DEFINE place == Answering(ram, address)
  <2>1. place \in Nat
    BY AnsweredFromWritten
  <2>2. RamRead(new, address, floating) =
          IF Containing(new, Answering(new, address)) = {} THEN floating
          ELSE FirstRead(new, Answering(new, address), floating)
    BY <1>2, ReadsAnswering
  <2>3. Answering(new, address) = place
    BY <1>2, SameAnswers
  <2> HIDE DEF place, new
  <2>4. Containing(new, place) = Containing(ram, place)
    BY <1>2, <2>1, SameAnswers
  <2>5. CASE Containing(ram, place) = {}
    <3>1. Held(ram, place) = {}
      BY <2>5 DEF Held
    <3>2. QED
      BY <2>2, <2>3, <2>4, <2>5, <3>1 DEF place
  <2>6. CASE Containing(ram, place) # {}
    BY <2>1, <2>2, <2>3, <2>4, <2>6, CycledRead DEF new, place
  <2>7. QED
    BY <2>5, <2>6
<1> HIDE DEF new
<1>4. QED
  BY <1>1, <1>3 DEF BeginsAnew, new

\* Rows made of chips by commands, blocks strapped anywhere, bytes written and the
\* power switched: all leave memory as IsRam says, so the theorems above are
\* about every memory that a configuration or a program comes to.
THEOREM RamStaysRam ==
  ASSUME NEW ram, IsRam(ram)
  PROVE  /\ IsRow(EmptyRow)
         /\ \A name \in RowNames, model \in Models, socket \in Sockets :
              IsRam([ram EXCEPT !.row = [ram.row EXCEPT ![name] = InsertedChip(@, model, socket)]])
         /\ \A name \in RowNames, base, size \in Nat :
              IsRam([ram EXCEPT !.strap = StrapTo(ram.strap, name, base, size)])
         /\ \A address \in Nat, byte \in SUBSET Sockets : IsRam(RamWrite(ram, address, byte))
         /\ IsRam(RamPowerOff(ram))
         /\ \A noise \in SUBSET Sockets : IsRam(RamPowerOn(ram, noise))
<1>1. PICK R, S : ram \in [row : R, strap : S, revision : Nat]
  BY DEF IsRam
<1>2. ASSUME NEW rows, rows = [name \in RowNames |-> rows[name]],
             \A name \in RowNames : IsRow(rows[name]), NEW new, new = [ram EXCEPT !.row = rows]
      PROVE  IsRam(new)
  <2>1. new = [row |-> rows, strap |-> ram.strap, revision |-> ram.revision]
    BY <1>1, <1>2
  <2>2. new.row = rows /\ new.strap = ram.strap /\ new.revision = ram.revision
    BY <2>1
  <2>3. QED
    BY <1>2, <2>1, <2>2 DEF IsRam
<1>3. ASSUME NEW name \in RowNames, NEW model \in Models, NEW socket \in Sockets
      PROVE  IsRam([ram EXCEPT !.row = [ram.row EXCEPT ![name] = InsertedChip(@, model, socket)]])
  <2> DEFINE row == InsertedChip(ram.row[name], model, socket)
             rows == [ram.row EXCEPT ![name] = row]
  <2>1. IsRow(ram.row[name])
    BY DEF IsRam
  <2>2. IsRow(row)
    BY <2>1, RowsStayRows
  <2> HIDE DEF row
  <2>3. rows = [n \in RowNames |-> IF n = name THEN row ELSE ram.row[n]]
    BY DEF IsRam
  <2>4. \A n \in RowNames : IsRow(rows[n])
    BY <2>2, <2>3 DEF IsRam
  <2>5. rows = [n \in RowNames |-> rows[n]]
    BY <2>3
  <2> HIDE DEF rows
  <2>6. \A new : new = [ram EXCEPT !.row = rows] => IsRam(new)
    BY <1>2, <2>4, <2>5
  <2>7. QED
    BY <2>6 DEF rows, row
<1>4. ASSUME NEW name \in RowNames, NEW base \in Nat, NEW size \in Nat
      PROVE  IsRam([ram EXCEPT !.strap = StrapTo(ram.strap, name, base, size)])
  <2> DEFINE straps == StrapTo(ram.strap, name, base, size)
             new == [ram EXCEPT !.strap = straps]
  <2>1. straps \in [RowNames -> [base : Nat, size : Nat]]
    <3>1. ram.strap \in [RowNames -> [base : Nat, size : Nat]]
      BY DEF IsRam
    <3>2. DOMAIN ram.strap \cup {name} = RowNames
      BY <3>1
    <3>3. QED
      BY <3>1, <3>2 DEF StrapTo
  <2> HIDE DEF straps
  <2>2. ASSUME NEW y, y = [ram EXCEPT !.strap = straps]
        PROVE  y = [row |-> ram.row, strap |-> straps, revision |-> ram.revision]
    BY <1>1, <2>2
  <2>3. new = [row |-> ram.row, strap |-> straps, revision |-> ram.revision]
    BY <2>2
  <2> HIDE DEF new
  <2>4. new.row = ram.row /\ new.strap = straps /\ new.revision = ram.revision
    BY <2>3
  <2>5. IsRam(new)
    BY <2>1, <2>3, <2>4 DEF IsRam
  <2>6. QED
    BY <2>5 DEF new, straps
<1>5. \A address \in Nat, byte \in SUBSET Sockets : IsRam(RamWrite(ram, address, byte))
  BY RamWriteRead DEF SameButBytes
<1>6. IsRam(RamPowerOff(ram))
  <2> DEFINE rows == [name \in RowNames |-> PoweredOff(ram.row[name])]
             new == RamPowerOff(ram)
  <2>1. \A name \in RowNames : IsRow(rows[name])
    BY RowsStayRows DEF IsRam
  <2>2. new = [ram EXCEPT !.row = rows]
    BY DEF RamPowerOff
  <2>3. rows = [name \in RowNames |-> rows[name]]
    OBVIOUS
  <2> HIDE DEF rows, new
  <2>4. IsRam(new)
    BY <1>2, <2>1, <2>2, <2>3
  <2>5. QED
    BY <2>4 DEF new
<1>7. ASSUME NEW noise \in SUBSET Sockets
      PROVE  IsRam(RamPowerOn(ram, noise))
  <2> DEFINE rows == [name \in RowNames |-> PoweredOn(ram.row[name], noise)]
             new == RamPowerOn(ram, noise)
  <2>1. \A name \in RowNames : IsRow(rows[name])
    BY RowsStayRows DEF IsRam
  <2>2. new = [ram EXCEPT !.row = rows]
    BY DEF RamPowerOn
  <2>3. rows = [name \in RowNames |-> rows[name]]
    OBVIOUS
  <2> HIDE DEF rows, new
  <2>4. IsRam(new)
    BY <1>2, <2>1, <2>2, <2>3
  <2>5. QED
    BY <2>4 DEF new
<1>8. QED
  BY <1>3, <1>4, <1>5, <1>6, <1>7, RowsStayRows
=============================================================================
