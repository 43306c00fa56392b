-------------------------- MODULE ConfigurationCases --------------------------
(***************************************************************************)
(* Commands for configuration files and for the command line, and what     *)
(* becomes of the slots, disks and processor when the lines are looked at  *)
(* as a whole: which line for a slot or a drive came last, and what was    *)
(* refused after it.                                                       *)
(***************************************************************************)
EXTENDS Configuration

Slot(slot, card) == [cmd |-> "slot", slot |-> slot, card |-> card]
Disk(cmd, file, chosen) ==
  [cmd |-> cmd, slot |-> 6, drive |-> 1, file |-> file, chosen |-> chosen]

SlotCommands == {Slot(6, "disk"), Slot(6, "disk13"), Slot(6, "empty"), Slot(6, "mistyped"),
                 Slot(0, "firmware"), Slot(8, "disk")}

DiskCommands ==
  {Disk("load", "a.woz", None), Disk("load", None, "b.woz"), Disk("load", None, None),
   Disk("load", "missing", None), Disk("load", "no image", None),
   Disk("save", None, None), Disk("unload", None, None),
   [Disk("load", "a.woz", None) EXCEPT !.drive = 3]}

Import(where, slot, romtype) ==
  [cmd |-> "import", where |-> where, slot |-> slot, romtype |-> romtype, base |-> 0,
   file |-> "f.rom"]

OtherCommands ==
  {[cmd |-> "cpu", cpu |-> "visual6502"], [cmd |-> "cpu", cpu |-> "mistyped"],
   [cmd |-> "revision", revision |-> 0], [cmd |-> "mistyped"],
   [cmd |-> "motherboard", op |-> "ram", row |-> "C", models |-> <<"16K">>],
   [cmd |-> "motherboard", op |-> "ram", row |-> "C", models |-> <<"4K", "mistyped">>],
   [cmd |-> "motherboard", op |-> "strap", row |-> "C", size |-> "4K", base |-> 0],
   Import("motherboard", -1, "rom"), Import("slot", 0, "rombank"), Import("slot", 6, "rom7"),
   [cmd |-> "cassette", op |-> "load", file |-> None, chosen |-> "a.wav"],
   [cmd |-> "cassette", op |-> "eject in", file |-> None, chosen |-> None]}

Commands == SlotCommands \cup DiskCommands \cup OtherCommands

\* The machine's program writes to the disk in the drive; only between typed lines.
Writing == [cmd |-> "writing"]

Written(m) ==
  IF m.slots[6].kind \in Controllers /\ m.slots[6].drive[1].file # None
  THEN [m EXCEPT !.slots[6].drive[1].modified = TRUE] ELSE m

Texts == UNION {[1 .. n -> {"#", " ", "x"}] : n \in 0 .. 4}

Configurations ==
  [fn : {"file"}, lines : [1 .. 3 -> Commands], ended : BOOLEAN]
    \cup [fn : {"typed"}, lines : [1 .. 4 -> SlotCommands \cup DiskCommands \cup {Writing}]]
    \cup [fn : {"line"}, text : Texts]
    \cup [fn : {"path"}, given : {None, "mine.conf"},
          existing : SUBSET (ToSet(Candidates) \cup {"mine.conf"})]

Machine(i) ==
  IF i.fn = "file"
  THEN Parse(NewMachine, [k \in DOMAIN i.lines |-> [text |-> <<"x">>, command |-> i.lines[k]]], i.ended)
  ELSE FoldLeft(LAMBDA m, c : IF c = Writing THEN Written(m) ELSE ParseLine(m, c, FALSE),
                NewMachine, i.lines)

-----------------------------------------------------------------------------
(* The reference.                                                          *)

\* The places of lines of which a condition holds, after the place from.
After(lines, from, Is(_)) == {k \in DOMAIN lines : k > from /\ Is(lines[k])}
Latest(places) == IF places = {} THEN 0 ELSE Max(places)

\* The line that decides about slot 6.
CardLine(lines) ==
  Latest(After(lines, 0, LAMBDA c : /\ c.cmd = "slot" /\ c.slot = 6
                                    /\ c.card \in CardKinds \cup {"empty"}))

IsController(lines, k) == k > 0 /\ lines[k].card \in Controllers

\* Disk commands reach the controller until a mistyped card line for its slot.
Reaches(lines, k) ==
  LET cards == After(lines, 0, LAMBDA c : c.cmd = "slot" /\ c.slot = 6)
      last  == Latest({c \in cards : c < k})
  IN  last > 0 /\ lines[last].card \in Controllers

File(c) == IF c.file = None THEN c.chosen ELSE c.file

\* The line that changed the disk in the drive last: another disk or none.
ChangeLine(lines) ==
  LET changes == After(lines, CardLine(lines),
        LAMBDA c : \/ c.cmd = "unload"
                   \/ c.cmd = "load" /\ c.drive = 1 /\ File(c) \notin {None, "missing"})
  IN  Latest({k \in changes : Reaches(lines, k)})

DiskIn(lines) ==
  LET k == ChangeLine(lines)
  IN  IF k = 0 \/ lines[k].cmd = "unload" \/ File(lines[k]) = "no image" THEN None
      ELSE File(lines[k])

\* Written since the disk came in or was saved.
Unsaved(lines) ==
  /\ DiskIn(lines) # None
  /\ LET saves  == After(lines, ChangeLine(lines), LAMBDA c : c.cmd = "save")
         writes == After(lines, ChangeLine(lines), LAMBDA c : c = Writing)
     IN  Latest(writes) > Latest(saves)

SlotRight(m, lines) ==
  LET k == CardLine(lines)
  IN  /\ m.slots[6].kind = (IF k = 0 THEN "empty" ELSE lines[k].card)
      /\ IsController(lines, k) => m.slots[6].drive[1].file = DiskIn(lines)
      /\ IsDirty(m) = (IsController(lines, k) /\ Unsaved(lines))

\* A line is refused or taken by itself, but for the ROM of a card.
Accepted(lines, k) ==
  LET c == lines[k]
  IN  CASE c.cmd = "slot"     -> c.slot \in 0 .. 7 /\ c.card # "mistyped"
        [] c.cmd \in {"load", "save", "unload"} -> c.drive = 1
        [] c.cmd = "import"   -> c.romtype = "rombank" =>
                                   \E j \in 1 .. k - 1 : lines[j] = Slot(0, "firmware")
        [] c.cmd = "mistyped" -> FALSE
        [] c.cmd = "cpu"      -> c.cpu # "mistyped"
        [] OTHER              -> TRUE

\* The processor, as the code has it: whatever the first line accepted is decides
\* it for good, and is the standard one unless that line names another.  The
\* manual has it otherwise (CpuChosen).
CpuOf(lines) ==
  LET accepted == {k \in DOMAIN lines : Accepted(lines, k)}
  IN  IF accepted = {} THEN None
      ELSE IF lines[Min(accepted)].cmd = "cpu" THEN "visual6502" ELSE "epple2"

\* What the manual says (docs/usermanual.md:126): "The `cpu` command chooses which
\* CPU emulator to run with."
CpuChosen(i) ==
  LET lines == IF i.ended THEN i.lines ELSE SubSeq(i.lines, 1, 2)
      m     == Machine(i)
      last  == Latest(After(lines, 0, LAMBDA c : c.cmd = "cpu" /\ c.cpu # "mistyped"))
  IN  ~m.thrown /\ last > 0 => m.cpu = lines[last].cpu

\* A chip that is not known ends the program.
Fatal(c) == c.cmd = "motherboard" /\ c.op = "ram" /\ ~(ToSet(c.models) \subseteq Models)

FileRead(i) ==
  LET lines == IF i.ended THEN i.lines ELSE SubSeq(i.lines, 1, 2)
      m     == Machine(i)
  IN  IF \E k \in DOMAIN lines : Fatal(lines[k]) THEN m.thrown
      ELSE /\ ~m.thrown /\ m.cpu = CpuOf(lines) /\ SlotRight(m, lines)

\* The text without its comment and the blanks at its ends, told by its characters.
LineRight(text) ==
  IsCommand(text) =
    \E k \in DOMAIN text : text[k] = "x" /\ \A j \in 1 .. k : text[j] # "#"

PathRight(i) ==
  LET path == ConfigFile(i.given, i.existing)
  IN  CASE path = "thrown" -> i.given # None /\ i.given \notin i.existing
        [] path = None     -> i.given = None /\ i.existing \subseteq {"mine.conf"}
        [] OTHER           -> path \in i.existing /\ (i.given # None => path = i.given)

Obeyed(i) ==
  CASE i.fn = "file"  -> FileRead(i)
    [] i.fn = "typed" -> SlotRight(Machine(i), i.lines)
    [] i.fn = "line"  -> LineRight(i.text)
    [] i.fn = "path"  -> PathRight(i)
=============================================================================
