------------------------------ MODULE MemoryCases ------------------------------
(***************************************************************************)
(* Motherboards with rows of chips, straps and revisions as configuration  *)
(* files set them up, and two bytes to write at each address.              *)
(***************************************************************************)
EXTENDS Memory, SequencesExt

\* The models that a line "motherboard ram" gives for a row.
RamLines == {<<"-">>, <<"4K">>, <<"16K">>, <<"4116", "-">>, <<"MK4116", "4096">>}

\* before is an earlier line for the same row; straps are the bases of the rows
\* C, D and E, and size is that of the blocks of D and E.
Memories ==
  [fn : {"memory"}, before : {<<"16K">>, <<"-", "4K">>}, C : RamLines, D : RamLines, E : RamLines,
   straps : {<<0, 4, 8>>, <<0, 4, 5>>, <<0, 4, 6>>, <<0, 6, 4>>, <<0, 4, 4>>},
   size : {1, 4}, revision : {0, 1}]

\* Images of a ROM, with the number of the load as their bytes.
Roms == [fn : {"rom"}, base : [1 .. 3 -> 0 .. 3], length : [1 .. 3 -> {0, 1, 2, 5}]]

Ram(i) ==
  LET Row(line) == RamLine(PoweredOn(RamLine(EmptyRow, i.before), {1}), line)
      C == StrapTo(<<>>, "C", i.straps[1], 4)
      D == StrapTo(C, "D", i.straps[2], i.size)
  IN  [row |-> [C |-> Row(i.C), D |-> Row(i.D), E |-> Row(i.E)],
       strap |-> StrapTo(D, "E", i.straps[3], i.size),
       revision |-> i.revision]

Holds(i) ==
  LET ram == Ram(i)
  IN  /\ FaultAsCommented(ram)
      /\ BeginsAnew(ram, {0}, {1})
      /\ \A address \in 0 .. 11 : /\ HoldsWhatIsWritten(ram, address, {0}, {1})
                                  /\ HoldsWhatIsWritten(ram, address, {1}, {0})

\* The comment about revision 0, for any rows
DuplicatesAsCommented(i) ==
  \A address \in 0 .. 11 : ReadAtDuplicate(Ram(i), address, {0}, {1})

\* A byte of a ROM is that of the last image that covers it.
RomHolds(i) ==
  LET Loaded(rom, n) == RomLoaded(rom, i.base[n], [k \in 1 .. i.length[n] |-> n])
      rom == FoldLeft(Loaded, Rom(4), <<1, 2, 3>>)
      Covering(cell) == {n \in 1 .. 3 : i.base[n] <= cell /\ cell < i.base[n] + i.length[n]}
  IN  \A cell \in 0 .. 3 : rom[cell] = IF Covering(cell) = {} THEN 0 ELSE Max(Covering(cell))

HoldsMemory(i) == IF i.fn = "rom" THEN RomHolds(i) ELSE Holds(i)
=============================================================================
