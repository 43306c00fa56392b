------------------------------- MODULE Memory -------------------------------
(***************************************************************************)
(* The memory on the motherboard (memorychip.cpp, memoryrow.cpp,           *)
(* memorystrapping.cpp, memoryrandomaccess.cpp): three rows of sockets for *)
(* chips, a strapping block for each row, and the fault of revision 0.     *)
(* Addresses and sizes count blocks of 4K, a byte of which stands for all. *)
(* A byte is the set of its bits that are 1.  A row without power throws   *)
(* when it is read; nothing reads it, for then only noise is ticked.       *)
(***************************************************************************)
EXTENDS Integers, Sequences, FiniteSets

CONSTANT Sockets  \* 0 .. 7: the sockets of a row, one for each bit of a byte

\* MemoryRandomAccess::row_of and strapping_of: the names of the rows.
RowNames == {"E", "D", "C"}

\* The models that MemoryChip::instance knows, and their sizes.
ChipSize ==
  [model \in {"4K", "4096", "16K", "4116", "MM5290", "MK4116", "MCM4116"} |->
     IF model \in {"4K", "4096"} THEN 1 ELSE 4]

\* MemoryChipEmptySocket.
EmptySocket == "-"

Models == DOMAIN ChipSize \cup {EmptySocket}

-----------------------------------------------------------------------------
(* A row: the model in each socket, and the bytes stored.                  *)

\* MemoryRow::MemoryRow.
EmptyRow == [chips |-> [socket \in Sockets |-> EmptySocket], values |-> [cell \in {} |-> {}],
             power |-> FALSE]

\* MemoryChip::exists, for all sockets of the row; missing_bits are the others.
Present(row) == {socket \in Sockets : row.chips[socket] # EmptySocket}

\* MemoryRow::calculate_size: the smallest chip's.
CalculatedSize(chips) ==
  LET sizes == {ChipSize[chips[socket]] : socket \in {s \in Sockets : chips[s] # EmptySocket}}
  IN  IF sizes = {} THEN 0 ELSE CHOOSE least \in sizes : \A size \in sizes : least <= size

\* MemoryRow::size.
RowSize(row) == Cardinality(DOMAIN row.values)

\* Another chip in a socket, and std::vector::resize.
WithChip(row, model, socket) ==
  LET chips == [s \in Sockets |-> IF s = socket THEN model ELSE row.chips[s]]
  IN  [row EXCEPT !.chips = chips,
       !.values = [cell \in 0 .. CalculatedSize(chips) - 1 |->
                     IF cell \in DOMAIN row.values THEN row.values[cell] ELSE {}]]

\* MemoryRow::remove_chip.
RemovedChip(row, socket) == WithChip(row, EmptySocket, socket)

\* MemoryRow::insert_chip: whatever is in the socket comes out first.
InsertedChip(row, model, socket) ==
  LET removed == RemovedChip(row, socket)
  IN  IF model = EmptySocket THEN removed ELSE WithChip(removed, model, socket)

\* The command "motherboard ram" (Config::tryParseLine): a model for each socket
\* from the first on, the last one for all that remain.
RamLine(row, models) ==
  LET filled[socket \in -1 .. Cardinality(Sockets) - 1] ==
        IF socket = -1 THEN row
        ELSE InsertedChip(filled[socket - 1],
                          models[IF socket < Len(models) THEN socket + 1 ELSE Len(models)], socket)
  IN  filled[Cardinality(Sockets) - 1]

\* MemoryChip::rand_init and bitflag, for the chips in the sockets, each with its
\* bit: the pattern and the noise of a model are any bits; in a byte that stands
\* for 4K they are the same.  The loop runs over 16K in a row of 4K, too, past the
\* end of its bytes, which is undefined and left out.
RandInit(sockets, values, noise) ==
  [cell \in DOMAIN values |-> (noise \cap sockets) \cup (values[cell] \ sockets)]

\* MemoryRow::powerOff and powerOn: the chips begin anew only after the power
\* has been off.
PoweredOff(row) == [row EXCEPT !.power = FALSE]
PoweredOn(row, noise) ==
  IF row.power THEN row
  ELSE [row EXCEPT !.power = TRUE, !.values = RandInit(Present(row), @, noise)]

\* MemoryRow::read: the bits without a chip float.
RowRead(row, cell, data) ==
  IF cell \in DOMAIN row.values
  THEN (row.values[cell] \cap Present(row)) \cup (data \ Present(row)) ELSE data

\* MemoryRow::write: bits without a chip are stored, too.
RowWrite(row, cell, data) == [row EXCEPT !.values[cell] = data]

-----------------------------------------------------------------------------
(* All of it: ram.row, ram.strap (base and size) by name of a row, and     *)
(* ram.revision.                                                           *)

\* MemoryRandomAccess::powerOn and powerOff.
RamPowerOn(ram, noise) ==
  [ram EXCEPT !.row = [name \in RowNames |-> PoweredOn(ram.row[name], noise)]]
RamPowerOff(ram) == [ram EXCEPT !.row = [name \in RowNames |-> PoweredOff(ram.row[name])]]

\* MemoryRandomAccess::strap_to, for all the straps.
StrapTo(straps, name, base, size) ==
  [n \in DOMAIN straps \cup {name} |-> IF n = name THEN [base |-> base, size |-> size]
                                       ELSE straps[n]]

\* MemoryStrapping::size.
StrappedSize(ram, name) ==
  LET rowSize == RowSize(ram.row[name])
  IN  IF rowSize < ram.strap[name].size THEN rowSize ELSE ram.strap[name].size

\* MemoryStrapping::contains.
InBlock(ram, name, address) ==
  LET base == ram.strap[name].base
  IN  base <= address /\ address < base + StrappedSize(ram, name)

\* MemoryRandomAccess::k20or24: the row D counts twice, in place of E.
K20or24(ram) ==
  RowSize(ram.row["C"]) + RowSize(ram.row["D"]) + RowSize(ram.row["D"]) \in {5, 6}

\* The condition of the fault in read and write.
Faulty(ram, address) == ram.revision = 0 /\ K20or24(ram) /\ address \in 4 .. 7

\* The address with its bit of 8K cleared and set.
Without2000(address) == IF (address \div 2) % 2 = 1 THEN address - 2 ELSE address
With2000(address) == Without2000(address) + 2

\* The rows strapped to an address, and the one of them that answers.
Containing(ram, address) == {name \in RowNames : InBlock(ram, name, address)}
FirstOf(names) == IF "E" \in names THEN "E" ELSE IF "D" \in names THEN "D" ELSE "C"

\* The part of read that looks through the blocks, which MemoryStrapping::read
\* passes on to the row.
FirstRead(ram, address, data) ==
  LET name == FirstOf(Containing(ram, address))
  IN  RowRead(ram.row[name], address - ram.strap[name].base, data)

\* MemoryRandomAccess::buggyRamRead.
BuggyRead(ram, address, data) ==
  IF Containing(ram, Without2000(address)) # {} THEN FirstRead(ram, Without2000(address), data)
  ELSE IF Containing(ram, With2000(address)) # {} THEN FirstRead(ram, With2000(address), data)
  ELSE data

\* MemoryRandomAccess::read.
RamRead(ram, address, data) ==
  IF Faulty(ram, address) THEN BuggyRead(ram, address, data)
  ELSE IF Containing(ram, address) # {} THEN FirstRead(ram, address, data)
  ELSE data

\* The part of write that looks through the blocks: all that contain it take it.
WriteAll(ram, address, data) ==
  [ram EXCEPT !.row = [name \in RowNames |->
     IF InBlock(ram, name, address)
     THEN RowWrite(ram.row[name], address - ram.strap[name].base, data) ELSE ram.row[name]]]

\* FAULT: only the lower of two duplicates is written.
BuggyWriteLower(ram, address, data) == WriteAll(ram, Without2000(address), data)

\* MemoryRandomAccess::buggyRamWrite.
BuggyWrite(ram, address, data) ==
  WriteAll(WriteAll(ram, Without2000(address), data), With2000(address), data)

\* MemoryRandomAccess::write: the faulty write does not replace the right one.
RamWrite(ram, address, data) ==
  WriteAll(IF Faulty(ram, address) THEN BuggyWrite(ram, address, data) ELSE ram, address, data)

-----------------------------------------------------------------------------
(* A ROM, of the motherboard or a card (memory.cpp), with a byte for each  *)
(* cell; an image is a sequence of bytes.                                  *)

\* Memory::Memory: bytes(n).
Rom(size) == [cell \in 0 .. size - 1 |-> 0]

\* Memory::load: as much of the image as there is room for.
RomLoaded(rom, base, image) ==
  [cell \in DOMAIN rom |-> IF cell - base + 1 \in DOMAIN image THEN image[cell - base + 1]
                           ELSE rom[cell]]

-----------------------------------------------------------------------------
(* What memory promises.                                                   *)

\* The bits of an address that hold what is written, as the sockets, chips and
\* straps have it: of the first row that is strapped there.
Held(ram, address) ==
  IF Containing(ram, address) = {} THEN {} ELSE Present(ram.row[FirstOf(Containing(ram, address))])

\* The address whose memory answers: where the fault strikes the lower of the two
\* addresses that differ in the bit of 8K, if there is memory at it.
Answering(ram, address) ==
  IF Faulty(ram, address)
  THEN IF Containing(ram, Without2000(address)) # {} THEN Without2000(address)
       ELSE With2000(address)
  ELSE address

\* A byte written is read again at its address and, where the fault strikes, at
\* its duplicate, floating where there is no chip; and every other address reads
\* as before.
HoldsWhatIsWritten(ram, address, data, floating) ==
  LET written == RamWrite(ram, address, data)
  IN  \A other \in 0 .. 11 :
        LET bits == Held(ram, Answering(ram, other))
        IN  RamRead(written, other, floating) =
              IF Answering(ram, other) = Answering(ram, address)
              THEN (data \cap bits) \cup (floating \ bits)
              ELSE RamRead(ram, other, floating)

\* Powering on what is on keeps what is in memory; after the power has been off,
\* every bit that has a chip is as the chip begins, and the others float.
BeginsAnew(ram, noise, floating) ==
  LET cycled == RamPowerOn(RamPowerOff(ram), noise)
  IN  /\ RamPowerOn(ram, noise) = ram
      /\ \A address \in 0 .. 11 :
           LET bits == Held(ram, Answering(ram, address))
           IN  RamRead(cycled, address, floating) = (noise \cap bits) \cup (floating \ bits)

\* Rows are filled from C on, with chips no larger than those of the row before,
\* as the Apple ][ reference manual has them.
InOrder(ram) ==
  /\ RowSize(ram.row["C"]) >= RowSize(ram.row["D"])
  /\ RowSize(ram.row["D"]) >= RowSize(ram.row["E"])

\* The comment at memoryrandomaccess.cpp:61: "for 20K or 24K on rev. 0: pages
\* 40-5F are dup w/ 60-7F".
Duplicated(ram, address) ==
  /\ ram.revision = 0
  /\ RowSize(ram.row["C"]) + RowSize(ram.row["D"]) + RowSize(ram.row["E"]) \in {5, 6}
  /\ address \in 4 .. 7

\* The fault strikes where the comment has it, if the rows are in order.
FaultAsCommented(ram) ==
  InOrder(ram) => \A address \in 0 .. 11 : Faulty(ram, address) <=> Duplicated(ram, address)

\* Of duplicates both read what is written to either.
ReadAtDuplicate(ram, address, data, floating) ==
  Duplicated(ram, address) =>
    LET written == RamWrite(ram, address, data)
    IN  RamRead(written, Without2000(address), floating)
          = RamRead(written, With2000(address), floating)
=============================================================================
