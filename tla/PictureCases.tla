----------------------------- MODULE PictureCases -----------------------------
(***************************************************************************)
(* Lines of the screen with two bytes in turn, cells of the screen in all  *)
(* modes, the sixteen colours, and fields that power on and off interrupts, *)
(* against what a programmer or a viewer expects.                          *)
(***************************************************************************)
EXTENDS Picture, Functions

\* Bytes with the bits at the ends, with and without the one that shifts hi-res.
Bytes == {{}, 0 .. 7, {0, 7}, {6}, {6, 7}, {1, 2, 5}, {0, 3, 4, 7}, {2, 7}}

Modes ==
  [text   |-> [text |-> TRUE, mixed |-> FALSE, page |-> 0, hires |-> FALSE],
   mixed  |-> [text |-> FALSE, mixed |-> TRUE, page |-> 0, hires |-> TRUE],
   hires  |-> [text |-> FALSE, mixed |-> FALSE, page |-> 0, hires |-> TRUE],
   lores  |-> [text |-> FALSE, mixed |-> FALSE, page |-> 0, hires |-> FALSE]]

Pictures ==
  [fn : {"picture"}, mode : {"text", "mixed", "hires"}, line : {0, 5, 159, 160, 191},
   bytes : Bytes \X Bytes, revision : {0, 1}, flash : BOOLEAN]

Cells ==
  [fn : {"cell"}, text : BOOLEAN, mixed : BOOLEAN, hires : BOOLEAN, page : {0, 1},
   line : {0, 1, 7, 8, 63, 64, 65, 127, 128, 150, 159, 160, 191}, x : {0, 1, 20, 39}]

Colours ==
  [fn : {"colour"}, nibble : SUBSET (0 .. 3), line : {0, 3, 4, 101}, revision : {0, 1}]
    \cup [fn : {"palette"}, pair : (0 .. 15) \X (0 .. 15)]

FirstOfFields == [fn |-> "field", f |-> FirstField]

\* Power is switched at these places of a field, or of the noise: its start, the
\* end of a line, and within one. The bounds of the model.
PowerPlaces == {0, 64, 9000}
NoisePlaces == {0, 896, 9120}

FieldStep(f) ==
  {FieldTick(f)} \cup
    {ToggledPower(f) : n \in IF f.power THEN PowerPlaces \cap {f.t} ELSE NoisePlaces \cap {f.noiseAt}}

-----------------------------------------------------------------------------
(* A line of the picture.                                                  *)

\* An image of seven rows of five dots for each of the characters.
Images ==
  [code \in SUBSET (0 .. 5) |->
     [row \in 1 .. 7 |-> [dot \in 1 .. 5 |-> IF (row + dot) % 6 \in code THEN "@" ELSE " "]]]

\* The samples of the line where byte x (from 0 on) is bytes[x + 1].
Line(bytes, mode, line, revision, flash) ==
  LET Column(acc, x) ==
        LET at   == [t |-> line * Columns + BlankedColumns + x, hpos |-> BlankedColumns + x, line |-> line]
            byte == RowToPlot(mode, at.t, bytes[x + 1], flash, Images)
            tick == PictureTick(acc.g, mode, at, byte, revision)
        IN  [g |-> tick.g, samples |-> acc.samples \o tick.samples]
  IN  FoldLeft(Column, [g |-> NoLatches, samples |-> <<>>],
               [n \in 1 .. Len(bytes) |-> n - 1]).samples

\* The bytes in turn, four of them.
Turns(pair) == [n \in 1 .. 4 |-> pair[2 - (n % 2)]]

\* A dot of text: inverse characters have their dots the other way round.
TextDot(bytes, line, place, flash) ==
  LET d     == bytes[(place \div 14) + 1]
      dot   == (place % 14) \div 2
      row   == line % 8
      drawn == row > 0 /\ dot \in 1 .. 5 /\ Images[d \cap 0 .. 5][row][dot] = "@"
  IN  drawn # InverseChar(d, flash)

\* Each dot is where the programmer put it, next to the dots of the neighbours.
DotsRight(i) ==
  LET bytes   == Turns(i.bytes)
      samples == Line(bytes, Modes[i.mode], i.line, i.revision, i.flash)
      isText  == i.mode = "text" \/ (i.mode = "mixed" /\ i.line >= 160)
  IN  /\ Len(samples) = 14 * Len(bytes)
      /\ \A place \in 0 .. Len(samples) - 1 :
           (samples[place + 1] = "white") =
             IF isText THEN TextDot(bytes, i.line, place, i.flash)
             ELSE HiResDot(bytes, place, i.revision)
      \* "colour fringes" of text end with revision 1, but for those of mixed mode
      /\ i.mode = "text" /\ i.revision = 1 =>
           ToSet(MonitorColor(samples, GetCb(TRUE, 1))) \subseteq {Black, White}

\* The byte of a cell is read while the beam is there.
CellRead(i) ==
  LET mode == [text |-> i.text, mixed |-> i.mixed, page |-> i.page, hires |-> i.hires]
  IN  DataAddress(mode, i.line * Columns + BlankedColumns + i.x) = ScreenByte(mode, i.line, i.x)

\* The samples of a nibble repeat without a break from an even column to an odd
\* one, and where they are lit they have its colour.
ColourRight(i) ==
  LET byte    == {k \in 0 .. 7 : k % 4 \in i.nibble}
      samples == Line(<<byte, byte, byte, byte>>, Modes["lores"], i.line, i.revision, FALSE)
      colours == MonitorColor(samples, GetCb(FALSE, i.revision))
      Lit(k)  == samples[k] = "white"
  IN  /\ \A k \in DOMAIN samples : Lit(k) = ((k - 1) % 4 \in i.nibble)
      /\ \A k \in 5 .. 52 : colours[k] = IF Lit(k) THEN NibbleColour(i.nibble) ELSE Black
      /\ \A k \in DOMAIN samples : (MonitorGreen(samples)[k] # Black) = Lit(k)

\* No two colours look alike but the greys, and each is what it is called.
PaletteRight(i) ==
  LET rgb == Color(i.pair[1])
      brightest == {n \in 1 .. 3 : \A m \in 1 .. 3 : rgb[m] <= rgb[n]}
  IN  /\ (rgb = Color(i.pair[2])) = (i.pair[1] = i.pair[2] \/ {5, 10} = Range(i.pair))
      /\ brightest = Brightest[i.pair[1]]

\* Dots, bytes and colours are where and what they should be.
PictureOk(i) ==
  CASE i.fn = "picture" -> DotsRight(i)
    [] i.fn = "cell"    -> CellRead(i)
    [] i.fn = "colour"  -> ColourRight(i)
    [] i.fn = "palette" -> PaletteRight(i)

-----------------------------------------------------------------------------
(* Fields.                                                                 *)

\* The samples before cycle n of a field.
SamplesBefore(n) == LineSamples * (n \div Columns) + Crystal * (n % Columns)

\* The counters of Video, which gives the byte, and of the generator, which
\* places it, agree on the place; a buffer is drawn only when it is full, and it
\* is the one that the running generator fills.
InStep(f) ==
  /\ f.power =>
       /\ f.hpos = f.t % Columns
       /\ f.at = SamplesBefore(f.t)
       /\ f.t > 0 => f.line = f.t \div Columns
  /\ f.signal = IF f.power THEN "picture" ELSE "noise"
  /\ f.drawn # "none" => /\ f.drawn = f.signal
                         /\ IF f.power THEN f.at = 0 /\ f.t = 0 ELSE f.noiseAt = 0 /\ f.noiseHpos = 0
=============================================================================
