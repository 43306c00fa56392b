---------------------------- MODULE Configuration ----------------------------
(***************************************************************************)
(* The configuration (Config of configep2.cpp) with what it does to the    *)
(* slots (slots.cpp), the drives of the disk controllers and the choice of *)
(* the processor (apple2.cpp).  A command is a record whose cmd is the     *)
(* first word of its line, with the other words as the program has read    *)
(* them; an operator on a machine is what the command does.                *)
(***************************************************************************)
EXTENDS Memory, SequencesExt

None == "none"

CardKinds == {"language", "firmware", "disk", "disk13", "clock", "stdout", "stdin"}
Controllers == {"disk", "disk13"}

NoDisk == [file |-> None, modified |-> FALSE, shown |-> None]
EmptyCard == [kind |-> "empty"]
NewCard(kind) ==
  IF kind \in Controllers THEN [kind |-> kind, drive |-> [n \in {1, 2} |-> NoDisk]]
  ELSE [kind |-> kind]

\* Apple2, Slots and Config::disk_mask before any line.  "tape" are the calls to
\* the cassettes, "rom" the images imported, in their order.
NewMachine ==
  [slots |-> [s \in 0 .. 7 |-> EmptyCard], disk_mask |-> {}, cpu |-> None, revision |-> 1,
   row |-> [name \in RowNames |-> EmptyRow], strap |-> <<>>, rom |-> <<>>, tape |-> <<>>,
   fullScreen |-> FALSE, refused |-> FALSE, thrown |-> FALSE]

\* throw ConfigException: parseLine prints the message, and the command ends.
Refused(m) == [m EXCEPT !.refused = TRUE]

\* Any other exception ends the program.
Thrown(m) == [m EXCEPT !.thrown = TRUE]

-----------------------------------------------------------------------------
(* Cards and disks.                                                        *)

\* FAULT: an unknown type of card empties the slot.
InsertCardMistyped(m, c) ==
  IF c.slot \notin 0 .. 7 THEN Refused(m)
  ELSE [m EXCEPT !.slots[c.slot] = IF c.card \in CardKinds THEN NewCard(c.card) ELSE EmptyCard,
                 !.disk_mask = IF c.card \in Controllers THEN @ \cup {c.slot} ELSE @ \ {c.slot},
                 !.refused = c.card \notin CardKinds \cup {"empty"}]

\* Config::insertCard: the mask is cleared before the type is looked at, and a
\* card that comes out (Slots::set and remove) is deleted, disks and all.
InsertCard(m, c) ==
  LET cleared == [m EXCEPT !.disk_mask = @ \ {c.slot}]
  IN  CASE c.slot \notin 0 .. 7  -> Refused(m)
        [] c.card \in CardKinds  ->
             [cleared EXCEPT !.slots[c.slot] = NewCard(c.card),
                             !.disk_mask = IF c.card \in Controllers THEN @ \cup {c.slot} ELSE @]
        [] c.card = "empty"      -> [cleared EXCEPT !.slots[c.slot] = EmptyCard]
        [] OTHER                 -> Refused(cleared)

\* DiskController::loadDisk with WozFile::load: a file that cannot be opened
\* leaves the disk in, one that is no image takes it out with its name left on
\* the screen.
Loaded(disk, file) ==
  CASE file = "missing"  -> disk
    [] file = "no image" -> [NoDisk EXCEPT !.shown = disk.shown]
    [] OTHER             -> [file |-> file, modified |-> FALSE, shown |-> file]

\* Disk2Drive::loadDisk, unloadDisk and saveDisk: what the three commands do to
\* the disk in the drive.
DiskAfter(c, disk) ==
  CASE c.cmd = "load"   -> Loaded(disk, c.file)
    [] c.cmd = "unload" -> NoDisk
    [] c.cmd = "save"   -> [disk EXCEPT !.modified = FALSE]

\* Config::loadDisk, unloadDisk and saveDisk: the first two look at the mask
\* before they take the card for a controller, the last asks any card.
DiskCommand(m, c) ==
  LET reached == IF c.cmd = "save" THEN m.slots[c.slot].kind \in Controllers
                 ELSE c.slot \in m.disk_mask
  IN  CASE c.drive \notin {1, 2} -> Refused(m)
        [] reached               -> [m EXCEPT !.slots[c.slot].drive[c.drive] = DiskAfter(c, @)]
        [] OTHER                 -> m

\* load without a file asks for one, in a window; c.chosen is the answer.
LoadCommand(m, c) ==
  IF c.file # None THEN DiskCommand(m, c)
  ELSE LET asked == [m EXCEPT !.fullScreen = FALSE]
       IN  IF c.chosen = None THEN asked ELSE DiskCommand(asked, [c EXCEPT !.file = c.chosen])

\* Card::isDirty and DiskController::isDirty.
CardIsDirty(card) == card.kind \in Controllers /\ \E n \in {1, 2} : card.drive[n].modified

\* Slots::isDirty: the question before quitting.
IsDirty(m) == \E s \in 0 .. 7 : CardIsDirty(m.slots[s])

-----------------------------------------------------------------------------
(* The other commands.                                                     *)

\* "motherboard ram" and "motherboard strap".  MemoryChip::instance throws a
\* std::logic_error, when the chips before are in their sockets.
MotherboardCommand(m, c) ==
  CASE c.op \notin {"ram", "strap"} \/ c.row \notin RowNames -> Refused(m)
    [] c.op = "strap" /\ c.size \notin {"4K", "16K"}          -> Refused(m)
    [] c.op = "ram" /\ ~(ToSet(c.models) \subseteq Models)    -> Thrown(m)
    [] c.op = "ram"   -> [m EXCEPT !.row[c.row] = RamLine(@, c.models)]
    [] c.op = "strap" ->
         [m EXCEPT !.strap = StrapTo(@, c.row, c.base, IF c.size = "4K" THEN 1 ELSE 4)]

\* "import": to the motherboard, for which the slot is -1, or to the card in a
\* slot, which may be the empty card that all empty slots share.
ImportCommand(m, c) ==
  CASE c.where \notin {"motherboard", "slot"} \/ c.file = "missing" -> Refused(m)
    [] c.slot < 0 ->
         IF c.romtype # "rom" THEN Refused(m)
         ELSE [m EXCEPT !.rom = Append(@, <<"motherboard", c.base, c.file>>)]
    [] OTHER ->
         IF \/ c.slot \notin 0 .. 7 \/ c.romtype \notin {"rom", "rom7", "rombank"}
            \/ c.romtype = "rombank" /\ m.slots[c.slot].kind # "firmware"
         THEN Refused(m)
         ELSE [m EXCEPT !.rom = Append(@, <<c.slot, c.romtype, c.base, c.file>>)]

\* "cassette": what the calls do is in Cassette.tla.
CassetteCommand(m, c) ==
  LET Call(machine, file) == [machine EXCEPT !.tape = Append(@, <<c.op, file>>)]
      asked == [m EXCEPT !.fullScreen = FALSE]
  IN  CASE c.op \in {"rewind", "tone", "save", "eject in", "eject out"} -> Call(m, None)
        [] c.op = "blank" -> IF c.file = None THEN m ELSE Call(m, c.file)
        [] c.op = "load"  -> IF c.file # None THEN Call(m, c.file)
                             ELSE IF c.chosen # None THEN Call(asked, c.chosen) ELSE asked
        [] OTHER          -> Refused(m)

\* Apple2::useEpple2Cpu and useVisual6502Cpu: the first call decides.
UseCpu(m, cpu) == [m EXCEPT !.cpu = IF @ = None THEN cpu ELSE @]

\* Config::tryParseLine, where "apple2" is whether there is one to give a
\* processor to: there is from the file, not from a typed line.
TryParseLine(m, c, apple2) ==
  LET fresh == [m EXCEPT !.refused = FALSE]
      done  == CASE c.cmd = "slot"              -> InsertCard(fresh, c)
                 [] c.cmd = "motherboard"       -> MotherboardCommand(fresh, c)
                 [] c.cmd = "import"            -> ImportCommand(fresh, c)
                 [] c.cmd = "load"              -> LoadCommand(fresh, c)
                 [] c.cmd \in {"save", "unload"} -> DiskCommand(fresh, c)
                 [] c.cmd = "revision"          -> [fresh EXCEPT !.revision = c.revision]
                 [] c.cmd = "cassette"          -> CassetteCommand(fresh, c)
                 [] c.cmd = "cpu"               ->
                      IF ~apple2 THEN fresh
                      ELSE IF c.cpu \in {"epple2", "visual6502"} THEN UseCpu(fresh, c.cpu)
                      ELSE Refused(fresh)
                 [] OTHER                       -> Refused(fresh)
  IN  IF apple2 /\ ~done.refused /\ ~done.thrown THEN UseCpu(done, "epple2") ELSE done

ParseLine(m, c, apple2) == IF m.thrown THEN m ELSE TryParseLine(m, c, apple2)

-----------------------------------------------------------------------------
(* The file.                                                               *)

\* The places looked at when none is given, in their order.
Candidates ==
  <<"etc/epple2/epple2.conf", "ETCDIR/epple2/epple2.conf", "/etc/epple2/epple2.conf",
    "/etc/epple2.conf", "epple2.conf">>

\* The file read, or None; "thrown" for a file that was given and is not there.
ConfigFile(given, existing) ==
  LET found == SelectSeq(Candidates, LAMBDA path : path \in existing)
  IN  CASE given # None -> IF given \in existing THEN given ELSE "thrown"
        [] OTHER        -> IF found = <<>> THEN None ELSE Head(found)

\* strip_comment: text is a sequence of characters.
StripComment(text) ==
  LET hashes == {i \in DOMAIN text : text[i] = "#"}
  IN  IF hashes = {} THEN text ELSE SubSeq(text, 1, Min(hashes) - 1)

\* trim: to the first and from the last that is no blank; of nothing but blanks
\* the first cuts none and the second, from a position that has wrapped to 0, all.
Trim(text) ==
  LET solid == {i \in DOMAIN text : text[i] # " "}
  IN  IF solid = {} THEN <<>> ELSE SubSeq(text, Min(solid), Max(solid))

IsCommand(text) == Trim(StripComment(text)) # <<>>

\* Config::parse: the last line is read only when it ends as the others do.
\* A line is [text, command]: of a comment there is no command.
Parse(m, lines, ended) ==
  FoldLeft(LAMBDA machine, line :
             IF IsCommand(line.text) THEN ParseLine(machine, line.command, TRUE) ELSE machine,
           m, IF ended THEN lines ELSE Front(lines))
=============================================================================
