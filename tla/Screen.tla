------------------------------- MODULE Screen --------------------------------
(***************************************************************************)
(* The window below the picture (ScreenImage of screenimage.cpp) as 80 rows *)
(* of 160 characters: the slots with their drives, the cassettes, and the  *)
(* line of keys with its labels, which is also where commands are typed.   *)
(* A window is a record; an operator on it is a method, given the window.  *)
(* Of a fixed label only the places are kept, as "l".                      *)
(* The modes that the keys switch are those of emulator.cpp.               *)
(***************************************************************************)
EXTENDS Integers, Sequences, TLC, SequencesExt

R_SLOT == 67

\* What a place shows: a character, or "lit" for a blank on red.
Blanks(n) == [k \in 1 .. n |-> " "]

\* ScreenImage::drawText, a character in each place to the right.
DrawText(w, text, row, col) ==
  [w EXCEPT !.cells = [place \in {<<row, col + k - 1>> : k \in DOMAIN text} |->
                         text[place[2] - col + 1]] @@ @]

DrawChar(w, ch, row, col) == DrawText(w, <<ch>>, row, col)

DrawLamp(w, on, row, col) == DrawChar(w, IF on THEN "lit" ELSE " ", row, col)

-----------------------------------------------------------------------------
(* The rows of the slots.                                                  *)

\* ScreenImage::updateSlotName.
UpdateSlotName(w, slot, name) ==
  DrawText(DrawText(w, Blanks(80), R_SLOT + slot, 20), name, R_SLOT + slot, 20)

\* ScreenImage::truncateFilePath; a name is what follows the last slash.
Truncated(name) == SubSeq(name, 1, IF Len(name) > 12 THEN 12 ELSE Len(name))

\* FAULT: blanks are left out, so that the end of a longer name stays.
FilledNoBlanks(name) == Truncated(name)

\* The name and the blanks drawn after it.
Filled(name) == Truncated(name) \o Blanks(12 - Len(Truncated(name)))

SetDiskFile(w, slot, drive, name) ==
  DrawText(w, Filled(name), R_SLOT + slot, 37 + 32 * drive)

HexDigits == <<"0", "1", "2", "3", "4", "5", "6", "7", "8", "9", "A", "B", "C", "D", "E", "F">>
Hex(track) == <<HexDigits[((track \div 16) % 16) + 1], HexDigits[(track % 16) + 1]>>

SetTrack(w, slot, drive, track) == DrawText(w, Hex(track), R_SLOT + slot, 52 + 32 * drive)

ClearCurrentDrive(w, slot, drive) ==
  DrawText(DrawChar(w, " ", R_SLOT + slot, 35 + 32 * drive),
           Blanks(4), R_SLOT + slot, 50 + 32 * drive)

SetIO(w, slot, drive, on) == DrawLamp(w, on, R_SLOT + slot, 35 + 32 * drive)

SetCurrentDrive(w, slot, drive, track, on) ==
  DrawText(SetIO(w, slot, drive, on),
           <<"T", "$">> \o Hex(track), R_SLOT + slot, 50 + 32 * drive)

SetDirty(w, slot, drive, dirty) ==
  DrawChar(w, IF dirty THEN "*" ELSE " ", R_SLOT + slot, 36 + 32 * drive)

SetLangCard(w, slot, readEnable, writeEnable, bank) ==
  DrawText(DrawText(w, <<IF readEnable THEN "R" ELSE " ", IF writeEnable THEN "W" ELSE " ">>,
                    R_SLOT + slot, 29),
           <<"B", IF bank = 0 THEN "1" ELSE "2">>, R_SLOT + slot, 32)

SetFirmCard(w, slot, bank, F8) ==
  DrawText(DrawChar(w, IF bank THEN "D" ELSE " ", R_SLOT + slot, 29),
           IF F8 THEN <<"F", "8">> ELSE Blanks(2), R_SLOT + slot, 31)

-----------------------------------------------------------------------------
(* Above the slots: annunciators, cassettes and the speed.                 *)

SetAnnunciator(w, ann, on) == DrawLamp(w, on, 65, 33 + 4 * ann)
SetCassetteInFile(w, name) == DrawText(w, Filled(name), 65, 96)
SetCassetteOutFile(w, name) == DrawText(w, Filled(name), 66, 96)
SetCassetteDirty(w, dirty) == DrawChar(w, IF dirty THEN "*" ELSE " ", 66, 95)

\* A number as its digits.
Decimal[n \in Nat] ==
  IF n < 10 THEN <<HexDigits[n + 1]>> ELSE Append(Decimal[n \div 10], HexDigits[(n % 10) + 1])

SetCassettePos(w, pos, siz) ==
  DrawText(w, Decimal[pos] \o <<"/">> \o Decimal[siz] \o Blanks(29), 65, 110)

\* The speed, of which only the length matters here.
DisplayHz(w, hz) == DrawText(w, [k \in 1 .. Len(Decimal[hz \div 1000000]) + 11 |-> "h"], 3, 141)

-----------------------------------------------------------------------------
(* The keys and the command line, on the rows 76 to 78.                    *)

Displays == <<"TELEVISION", "COLOR MONITOR", "GREEN MONITOR">>

\* ScreenImage::invertText: twice is as before.
InvertText(w, label) ==
  [w EXCEPT !.inverted = IF label \in @ THEN @ \ {label} ELSE @ \cup {label}]

DrawDisplayLabel(w) == [w EXCEPT !.label = Displays[w.display + 1]]

\* ScreenImage::drawFnKeys: all three rows anew, then the labels of what is on.
DrawFnKeys(w) ==
  DrawDisplayLabel(
    [w EXCEPT !.line = <<>>, !.keys = TRUE,
              !.inverted = {IF w.fullscreen THEN "FULLSCRN" ELSE "WINDOW",
                            IF w.fillLines THEN "FILL-LINES" ELSE "SCAN-LINES"}
                              \cup (IF w.hyper THEN {"HYPER"} ELSE {})
                              \cup (IF w.buffer THEN {"BUFFER"} ELSE {})])

\* ScreenImage::drawPower: the switch on the keyboard, lit or not.
DrawPower(w, on) == [w EXCEPT !.power = on]

Label(n) == [k \in 1 .. n |-> "l"]
AnnunciatorLabels == Label(16) \o Blanks(2) \o Label(2) \o Blanks(2) \o Label(2) \o Blanks(2) \o Label(2)

\* ScreenImage::drawCassette, drawSlot and drawSlots, with no names yet.
DrawCassette(w) ==
  DrawText(DrawText(w, Label(15) \o Blanks(40), 65, 80), Label(5) \o Blanks(40), 66, 90)
DrawSlot(w, slot) == DrawText(w, Label(2) \o Blanks(101), R_SLOT + slot, 17)
DrawSlots(w) ==
  FoldLeft(DrawSlot, DrawText(w, Label(6), R_SLOT - 1, 17), <<0, 1, 2, 3, 4, 5, 6, 7>>)

\* ScreenImage::drawLabels.
DrawLabels(w) ==
  DrawFnKeys(DrawSlots(DrawCassette(
    DrawText(DrawText(w, Label(8), 0, 141), AnnunciatorLabels, 65, 17))))

\* The constructor, with createScreen; a window that cannot be made ends the program.
NewWindow ==
  DrawLabels([cells |-> <<>>, inverted |-> {}, label |-> "", line |-> <<>>, keys |-> TRUE,
              power |-> FALSE, fullscreen |-> FALSE, hyper |-> FALSE, buffer |-> TRUE,
              fillLines |-> TRUE, display |-> 0])

ToggleFillLinesLabel(w) ==
  InvertText(InvertText([w EXCEPT !.fillLines = ~@], "SCAN-LINES"), "FILL-LINES")

CycleDisplayLabel(w) == DrawDisplayLabel([w EXCEPT !.display = (@ + 1) % 3])
ToggleHyperLabel(w) == InvertText([w EXCEPT !.hyper = ~@], "HYPER")
ToggleKdbBufferLabel(w) == InvertText([w EXCEPT !.buffer = ~@], "BUFFER")

\* The label stays as it is: nobody draws it.
ToggleFullScreen(w) == [w EXCEPT !.fullscreen = ~@]
ExitFullScreen(w) == IF w.fullscreen THEN ToggleFullScreen(w) ELSE w

\* ScreenImage::enterCommandMode: the three rows are cleared, labels and all.
EnterCommandMode(w) == [w EXCEPT !.line = <<>>, !.keys = FALSE, !.label = "", !.inverted = {}]
ExitCommandMode(w) == DrawFnKeys(w)
AddkeyCommand(w, key) == [w EXCEPT !.line = Append(@, key)]
BackspaceCommand(w) == [w EXCEPT !.line = SubSeq(@, 1, Len(@) - 1)]

-----------------------------------------------------------------------------
(* The emulator's keys that switch a mode and its label.  A desk is        *)
(* [window, on, hyper, buffered, bleed_down, type, command].               *)

\* HyperMode and KeyboardBufferMode.
ToggleHyper(d) == [d EXCEPT !.hyper = ~@]
ToggleBuffered(d) == [d EXCEPT !.buffered = ~@]

\* Emulator::powerOnComputer and powerOffComputer: what is ticked from now on.
Power(d, on) == [d EXCEPT !.on = on, !.window = DrawPower(@, on)]

\* Emulator::Emulator and init: AnalogTV::type is not initialised.
NewDesk(type) ==
  Power([window |-> NewWindow, on |-> FALSE, hyper |-> FALSE, buffered |-> TRUE,
         bleed_down |-> TRUE, type |-> type, command |-> FALSE], FALSE)

\* Emulator::dispatchKeypress, keys outside of the command mode.
ModeKey(d, key) ==
  CASE key = "F1"  -> Power(d, ~d.on)
    [] key = "F2"  -> [d EXCEPT !.type = (@ + 1) % 3, !.window = CycleDisplayLabel(@)]
    [] key = "F3"  -> [d EXCEPT !.window = DrawPower(ToggleFullScreen(@), d.on)]
    [] key = "F4"  -> [d EXCEPT !.bleed_down = ~@, !.window = ToggleFillLinesLabel(@)]
    [] key = "F5"  -> [d EXCEPT !.command = TRUE, !.window = EnterCommandMode(@)]
    [] key = "F9"  -> [d EXCEPT !.window = ExitFullScreen(@)]  \* and is not safe to quit
    [] key = "F11" -> [ToggleHyper(d) EXCEPT !.window = ToggleHyperLabel(@)]
    [] key = "F12" -> [ToggleBuffered(d) EXCEPT !.window = ToggleKdbBufferLabel(@)]
    [] OTHER       -> d

\* Emulator::cmdKey and processCommand, up to the release that leaves the mode;
\* a command that asks for a file leaves full screen first.
ProcessCommand(d) ==
  [d EXCEPT !.command = FALSE, !.window = DrawPower(ExitCommandMode(@), d.on)]
CommandKey(d, key) ==
  CASE key = "RETURN" -> ProcessCommand(d)
    [] key = "load"   -> [ProcessCommand(d) EXCEPT !.window = ExitFullScreen(@)]
    [] key = "BACKSPACE" ->
         IF d.window.line = <<>> THEN d ELSE [d EXCEPT !.window = BackspaceCommand(@)]
    [] OTHER -> [d EXCEPT !.window = AddkeyCommand(@, key)]

KeyDown(d, key) == IF d.command THEN CommandKey(d, key) ELSE ModeKey(d, key)
=============================================================================
