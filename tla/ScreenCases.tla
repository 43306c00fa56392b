----------------------------- MODULE ScreenCases ------------------------------
(***************************************************************************)
(* Calls that draw the fields of the window, in any order, and keys that   *)
(* switch modes, in any order, with what the window has to show afterwards. *)
(***************************************************************************)
EXTENDS Screen

\* A name longer than a field has room for, and one that leaves blanks.
Name(length) == [k \in 1 .. length |-> "n"]
Names == {<<>>, Name(5), Name(14)}

\* A call is [call, slot, drive, value]: two slots that are neighbours.
Calls ==
  [call : {"file"}, slot : {6, 7}, drive : {0, 1}, value : Names]
    \cup [call : {"track"}, slot : {6}, drive : {0, 1}, value : {0, \h1F}]
    \cup [call : {"current"}, slot : {6}, drive : {0, 1}, value : {\h22}]
    \cup [call : {"clear"}, slot : {6}, drive : {0, 1}, value : {0}]
    \cup [call : {"dirty", "io"}, slot : {6}, drive : {0, 1}, value : BOOLEAN]
    \cup [call : {"annunciator"}, slot : {0, 3}, drive : {0}, value : BOOLEAN]
    \cup [call : {"in file", "out file"}, slot : {0}, drive : {0}, value : Names]
    \cup [call : {"tape dirty"}, slot : {0}, drive : {0}, value : BOOLEAN]
    \cup [call : {"position"}, slot : {0}, drive : {0}, value : {7, 2147483647}]
    \cup [call : {"speed"}, slot : {0}, drive : {0}, value : {1020000, 2147483647}]

Called(w, c) ==
  CASE c.call = "file"        -> SetDiskFile(w, c.slot, c.drive, c.value)
    [] c.call = "track"       -> SetTrack(w, c.slot, c.drive, c.value)
    [] c.call = "current"     -> SetCurrentDrive(w, c.slot, c.drive, c.value, TRUE)
    [] c.call = "clear"       -> ClearCurrentDrive(w, c.slot, c.drive)
    [] c.call = "dirty"       -> SetDirty(w, c.slot, c.drive, c.value)
    [] c.call = "io"          -> SetIO(w, c.slot, c.drive, c.value)
    [] c.call = "annunciator" -> SetAnnunciator(w, c.slot, c.value)
    [] c.call = "in file"     -> SetCassetteInFile(w, c.value)
    [] c.call = "out file"    -> SetCassetteOutFile(w, c.value)
    [] c.call = "tape dirty"  -> SetCassetteDirty(w, c.value)
    [] c.call = "position"    -> SetCassettePos(w, c.value, c.value)
    [] c.call = "speed"       -> DisplayHz(w, c.value)

Keys == {"F1", "F2", "F3", "F4", "F5", "F9", "F11", "F12", "RETURN", "load", "BACKSPACE", "x"}

Windows ==
  [fn : {"calls"}, calls : [1 .. 2 -> Calls]]
    \cup [fn : {"cards"}, slot : {0, 7}, bank : {0, 1}, on : [1 .. 2 -> BOOLEAN]]
    \cup [fn : {"keys"}, keys : [1 .. 5 -> Keys], type : {0}]
    \cup [fn : {"keys"}, keys : [1 .. 2 -> Keys], type : {1, 2}]

-----------------------------------------------------------------------------
(* The reference: what a reader of the window looks for.                   *)

\* The text in a field, of a window in which all places begin blank.
Shown(w, row, col, length) ==
  [k \in 1 .. length |-> IF <<row, col + k - 1>> \in DOMAIN w.cells
                         THEN w.cells[<<row, col + k - 1>>] ELSE " "]

\* docs/usermanual.md shows "6: disk][  drive 1M*filename.nib T$FF ...": the last
\* value given for each part of a drive, whatever else has been drawn since.
LastShows(calls, Is(_), Shows(_)) ==
  LET found == SelectSeq(calls, Is) IN found # <<>> => Shows(Last(found))

Begins(text, name) ==
  \A k \in DOMAIN text : text[k] = IF k \in DOMAIN name THEN name[k] ELSE " "

DriveShown(w, calls, slot, drive) ==
  LET Part(names, Shows(_)) ==
        LastShows(calls, LAMBDA c : c.call \in names /\ c.slot = slot /\ c.drive = drive, Shows)
      At(col, length) == Shown(w, R_SLOT + slot, col + 32 * drive, length)
      Lit(c) == CASE c.call = "io" -> c.value [] c.call = "current" -> TRUE [] OTHER -> FALSE
  IN  /\ Part({"file"}, LAMBDA c : Begins(At(37, 12), c.value))
      /\ Part({"dirty"}, LAMBDA c : (At(36, 1) = <<"*">>) = c.value)
      /\ Part({"io", "current", "clear"}, LAMBDA c : (At(35, 1) = <<"lit">>) = Lit(c))
      /\ Part({"track", "current", "clear"},
              LAMBDA c : At(52, 2) = IF c.call = "clear" THEN <<" ", " ">> ELSE Hex(c.value))

LabelPlaces == {place \in DOMAIN NewWindow.cells : NewWindow.cells[place] = "l"}

\* The names and the lamps of the rest, no label drawn over, and nothing outside
\* of the window.
RestShown(w, calls) ==
  LET Part(name, n, Shows(_)) == LastShows(calls, LAMBDA c : c.call = name /\ c.slot = n, Shows)
      Position(c) == Decimal[c.value] \o <<"/">> \o Decimal[c.value]
  IN  /\ Part("in file", 0, LAMBDA c : Begins(Shown(w, 65, 96, 12), c.value))
      /\ Part("out file", 0, LAMBDA c : Begins(Shown(w, 66, 96, 12), c.value))
      /\ Part("tape dirty", 0, LAMBDA c : (Shown(w, 66, 95, 1) = <<"*">>) = c.value)
      /\ Part("position", 0, LAMBDA c : Begins(Shown(w, 65, 110, 21), Position(c)))
      /\ \A n \in {0, 3} :
           Part("annunciator", n, LAMBDA c : (Shown(w, 65, 33 + 4 * n, 1) = <<"lit">>) = c.value)
      /\ DOMAIN w.cells \subseteq (0 .. 79) \X (0 .. 159)
      /\ \A place \in LabelPlaces : w.cells[place] = "l"

CallsShown(calls) ==
  LET w == FoldLeft(Called, NewWindow, calls)
  IN  /\ \A slot \in {6, 7}, drive \in {0, 1} : DriveShown(w, calls, slot, drive)
      /\ RestShown(w, calls)

\* Two cards in neighbouring slots, put in with the name of the other first.
CardsShown(i) ==
  LET named == UpdateSlotName(UpdateSlotName(NewWindow, i.slot, Name(69)), i.slot, Name(13))
      lang  == SetLangCard(named, i.slot, i.on[1], i.on[2], i.bank)
      firm  == SetFirmCard(named, i.slot, i.on[1], i.on[2])
      Tail9(w) == Shown(w, R_SLOT + i.slot, 29, 5)
  IN  /\ Shown(named, R_SLOT + i.slot, 20, 80) = Name(13) \o Blanks(67)
      /\ Tail9(lang) = <<IF i.on[1] THEN "R" ELSE " ", IF i.on[2] THEN "W" ELSE " ",
                         "n", "B", IF i.bank = 0 THEN "1" ELSE "2">>
      /\ Tail9(firm) = <<IF i.on[1] THEN "D" ELSE " ", "n", IF i.on[2] THEN "F" ELSE " ",
                         IF i.on[2] THEN "8" ELSE " ", " ">>

\* The desk before each key and after the last.
Desks(i) == FoldLeft(LAMBDA desks, key : Append(desks, KeyDown(Last(desks), key)),
                     <<NewDesk(i.type)>>, i.keys)

\* The places of the keys that ended a command: then all labels are drawn anew.
Drawings(keys, desks) ==
  {k \in DOMAIN keys : desks[k].command /\ keys[k] \in {"RETURN", "load"}}

\* Outside of the command mode the labels are those of the modes in force, but for
\* two.  That of the window's own mode is of the mode in which the labels were last
\* drawn.  That of the monitor counts F2 from "TELEVISION", whatever AnalogTV::type
\* was at the start, where nothing initialises it.
KeysShown(i) ==
  LET desks == Desks(i)
      d     == Last(desks)
      w     == d.window
      drawn == desks[Max({1} \cup Drawings(i.keys, desks))].window.fullscreen
  IN  /\ w.keys = ~d.command
      /\ w.power = d.on
      /\ d.command => w.inverted = {} /\ w.label = ""
      /\ ~d.command =>
           /\ ("HYPER" \in w.inverted) = d.hyper
           /\ ("BUFFER" \in w.inverted) = d.buffered
           /\ ("FILL-LINES" \in w.inverted) = d.bleed_down
           /\ ("SCAN-LINES" \in w.inverted) = ~d.bleed_down
           /\ w.label = Displays[((d.type - i.type) % 3) + 1]
           /\ w.inverted \cap {"FULLSCRN", "WINDOW"} = {IF drawn THEN "FULLSCRN" ELSE "WINDOW"}

WindowRight(i) ==
  CASE i.fn = "calls" -> CallsShown(i.calls)
    [] i.fn = "cards" -> CardsShown(i)
    [] i.fn = "keys"  -> KeysShown(i)
=============================================================================
