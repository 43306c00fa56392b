------------------------------- MODULE Picture -------------------------------
(***************************************************************************)
(* From memory to the screen: the switches (videomode.cpp), the address of *)
(* each cycle (videoaddressing.cpp), the byte and the row of a character   *)
(* to plot (video.cpp, textcharacters.cpp), the shift registers that make  *)
(* the signal (picturegenerator.cpp), and what the monitors make of it     *)
(* (analogtv.cpp); and the counters that run through a field, with the     *)
(* generator of noise that takes over without power                        *)
(* (videostaticgenerator.cpp).                                             *)
(* A byte is the set of its bits that are 1; a level of the signal is      *)
(* "white", "blank", "sync", "burst+" or "burst-".                         *)
(***************************************************************************)
EXTENDS Integers, Sequences, SequencesExt

-----------------------------------------------------------------------------
(* The constants of e2const.h and applentsc.h, as its test has them.       *)

Columns == 65        \* BYTES_PER_ROW
BlankedColumns == 25 \* BLANKED_BYTES_PER_ROW
Shown == 40          \* VISIBLE_BYTES_PER_ROW
Rows == 262          \* NTSC_WHOLE_LINES_PER_FIELD
VisibleRows == 192   \* VISIBLE_ROWS_PER_FIELD
Scannable == 256     \* SCANNABLE_ROWS
ResetRows == Rows - Scannable
FieldCycles == Columns * Rows
MixedTextCycle == (VisibleRows - 4 * 8) * Columns
Crystal == 14        \* CRYSTAL_CYCLES_PER_CPU_CYCLE
LongExtra == 2       \* EXTRA_CRYSTAL_CYCLES_PER_CPU_LONG_CYCLE
LineSamples == Columns * Crystal + LongExtra

-----------------------------------------------------------------------------
(* The switches.                                                           *)

\* VideoMode::powerOn.
ModeOff == [text |-> FALSE, mixed |-> FALSE, page |-> 0, hires |-> FALSE]

\* VideoMode::io, by switch and whether the address is odd.
ModeIo(mode, switch, on) ==
  CASE switch = 0 -> [mode EXCEPT !.text = on]
    [] switch = 1 -> [mode EXCEPT !.mixed = on]
    [] switch = 2 -> [mode EXCEPT !.page = IF on THEN 1 ELSE 0]
    [] switch = 3 -> [mode EXCEPT !.hires = on]

\* VideoMode::isDisplayingText.
IsDisplayingText(mode, t) == mode.text \/ (mode.mixed /\ t >= MixedTextCycle)

-----------------------------------------------------------------------------
(* The address of each cycle.                                              *)

\* FAULT: the rows of a block are a page apart, as the blocks are.
CalcRowsAdjacent(t) ==
  LET c == (t % (Columns * VisibleRows)) - (IF t >= Columns * Scannable THEN ResetRows * Columns ELSE 0)
      n == c \div Columns
      base == 1024 * (n % 8) + 128 * (n \div 8) + Shown * (n \div 64)
      a == base + (c % Columns) - BlankedColumns
  IN  IF a < 128 * (base \div 128) THEN a + 128 ELSE a

\* calc: rows of 8 lines are 128 bytes apart, blocks of 64 lines 40 bytes; the
\* bytes left of a row come from the end of its 128. The division of a negative
\* c does not happen, for the lines after the last scannable one count on.
Calc(t) ==
  LET c == (t % (Columns * VisibleRows)) - (IF t >= Columns * Scannable THEN ResetRows * Columns ELSE 0)
      n == c \div Columns
      base == 1024 * (n % 8) + 128 * ((n \div 8) % 8) + Shown * (n \div 64)
      a == base + (c % Columns) - BlankedColumns
  IN  IF a < 128 * (base \div 128) THEN a + 128 ELSE a

\* VideoAddressing::buildLUT of a page at base with len bytes, at cycle t.
Lut(base, len, t) ==
  LET col == t % Columns
      off == (Calc(t) % len)
             + (IF col < BlankedColumns /\ base < 4096 THEN 4096 ELSE 0)
             + (IF col = 0 THEN 1 ELSE 0)
      back == ((off % 128) - 8) % 128
  IN  base + (IF t \div Columns >= VisibleRows THEN 128 * (off \div 128) + back ELSE off)

\* Video::Video: the pages of text and lo-res, and of hi-res.
LutText(page, t) == Lut(IF page = 0 THEN 1024 ELSE 2048, 1024, t)
LutHires(page, t) == Lut(IF page = 0 THEN 8192 ELSE 16384, 8192, t)

\* The address that Video::getDataByte reads.
DataAddress(mode, t) ==
  IF IsDisplayingText(mode, t) \/ ~mode.hires THEN LutText(mode.page, t) ELSE LutHires(mode.page, t)

-----------------------------------------------------------------------------
(* The byte to plot.                                                       *)

\* Video::inverseChar.
InverseChar(d, flash) == {6, 7} \cap d = {} \/ (7 \notin d /\ 6 \in d /\ flash)

\* TextCharacters::TextCharacters: the row of a character, whose image has seven
\* rows of five dots, the left one first.
CharacterRow(image, row) ==
  IF row = 0 THEN {} ELSE {1 + dot : dot \in {i \in 0 .. 4 : image[row][i + 1] = "@"}}

\* Video::getRowToPlot; images has the image of a character by its six bits.
RowToPlot(mode, t, d, flash, images) ==
  IF ~IsDisplayingText(mode, t) THEN d
  ELSE LET row == CharacterRow(images[d \cap 0 .. 5], (t \div Columns) % 8)
       IN  IF InverseChar(d, flash) THEN 0 .. 6 \ row ELSE row

-----------------------------------------------------------------------------
(* The picture generator g: the two latches, the bit 7 loaded last, and    *)
(* lasthires.                                                              *)

\* Undefined before the first byte; any would do.
NoLatches == [text |-> {}, graphics |-> {}, d7 |-> FALSE, lasthires |-> FALSE]

\* shiftLoRes: both halves of ABCDEFGH go round, DABCHEFG.
ShiftLoRes(bits) == {k \in 0 .. 7 : (IF k % 4 = 3 THEN k - 3 ELSE k + 1) \in bits}

\* shiftHiRes: the upper half goes round, DABCDEFG.
ShiftHiRes(bits) == {k \in 0 .. 7 : (IF k = 7 THEN 4 ELSE k + 1) \in bits}

\* shiftText.
ShiftText(bits) == {k \in 0 .. 7 : k + 1 \in bits}

\* shiftLatch, as far as it shifts: text and hi-res every other cycle.
Shifted(g, cycle, isText, isHiRes) ==
  IF isText THEN [g EXCEPT !.text = IF cycle % 2 = 1 THEN ShiftText(@) ELSE @]
  ELSE IF isHiRes THEN [g EXCEPT !.graphics = IF cycle % 2 = 1 THEN ShiftHiRes(@) ELSE @]
  ELSE [g EXCEPT !.graphics = ShiftLoRes(@)]

\* shiftLatch, as far as it takes a bit: getLoResBit starts in the middle of the
\* nibble by turns, vc tells which nibble.
LatchBit(g, isText, isHiRes, even, vc) ==
  IF isText THEN 0 \in g.text
  ELSE IF isHiRes THEN 0 \in g.graphics
  ELSE (IF vc THEN 4 ELSE 0) + (IF even THEN 2 ELSE 0) \in g.graphics

\* hbl: the burst is suppressed with text from revision 1 on.
Hbl(hcycle, isTextMode, revision) ==
  IF hcycle \in 238 .. 293
  THEN IF isTextMode /\ revision > 0 THEN "blank"
       ELSE <<"blank", "burst-", "blank", "burst+">>[((hcycle - 238) % 4) + 1]
  ELSE IF hcycle \in 126 .. 237 THEN "sync" ELSE "blank"

\* vbl.
Vbl(line, hcycle) == IF line \in 224 .. 239 \/ hcycle \in 126 .. 237 THEN "sync" ELSE "blank"

\* PictureGenerator::tick of a byte at a place of the field, where at = [t, hpos,
\* line]: the latches after it, and the samples.
PictureTick(g, mode, at, byte, revision) ==
  LET isText == IsDisplayingText(mode, at.t)
      loaded == IF isText THEN [g EXCEPT !.text = byte]
                ELSE [g EXCEPT !.graphics = byte, !.d7 = 7 \in byte]
      lineVis == at.line < VisibleRows
      hVis == at.hpos >= BlankedColumns
      half == ~isText /\ mode.hires /\ loaded.d7 /\ lineVis /\ hVis /\ revision > 0
      cycles == Crystal + (IF at.hpos = Columns - 1 THEN LongExtra ELSE 0) - (IF half THEN 1 ELSE 0)
      even == (at.t % 2 = 1) = (at.line % 2 = 1)
      vc == (at.t \div Columns) % 8 >= 4
      latches[n \in 0 .. cycles] ==
        IF n = 0 THEN loaded ELSE Shifted(latches[n - 1], n - 1, isText, mode.hires)
      Sample(n) ==
        IF ~lineVis THEN Vbl(at.line, at.hpos * Crystal + n)
        ELSE IF ~hVis THEN Hbl(at.hpos * Crystal + n, mode.text, revision)
        ELSE IF /\ LatchBit(latches[n], isText, mode.hires, even, vc)
                /\ n < Crystal - (IF half THEN 1 ELSE 0)
             THEN "white" ELSE "blank"
      first == IF ~half THEN <<>> ELSE IF g.lasthires THEN <<"white">> ELSE <<"blank">>
  IN  [g |-> [latches[cycles] EXCEPT !.lasthires = 0 \in latches[cycles - 1].graphics],
       samples |-> first \o [n \in 1 .. cycles |-> Sample(n - 1)]]

-----------------------------------------------------------------------------
(* The colours, numbered as a2colorsobserved.h has them.                   *)

\* HSVtoRGB with tobyt: s and v in hundredths, the colour as <<red, green, blue>>.
HSVtoRGB(h, s, v) ==
  LET f == h % 60
      Byte(sixths) == LET b == (256 * v * sixths) \div 600000 IN IF b > 255 THEN 255 ELSE b
      most == Byte(6000)
      least == Byte(6000 - 60 * s)
      falling == Byte(6000 - s * f)
      rising == Byte(6000 - s * (60 - f))
  IN  CASE h \div 60 = 0 -> <<most, rising, least>>
        [] h \div 60 = 1 -> <<falling, most, least>>
        [] h \div 60 = 2 -> <<least, most, rising>>
        [] h \div 60 = 3 -> <<least, falling, most>>
        [] h \div 60 = 4 -> <<rising, least, most>>
        [] h \div 60 = 5 -> <<most, least, falling>>

\* A2ColorsObserved::A2ColorsObserved: the tables, and map into them.
Hues == <<342, 342, 277, 233, 233, 213, 160, 160, 75, 33, 52, 24, 0, 0, 0, 0>>
Saturations == <<100, 50, 75, 100, 50, 100, 100, 100, 100, 100, 100, 100, 0, 0, 0, 0>>
Brightnesses == <<67, 100, 100, 75, 100, 100, 33, 100, 75, 50, 100, 100, 50, 50, 100, 0>>
ColorMap == <<15, 0, 3, 2, 6, 12, 5, 4, 9, 11, 13, 1, 8, 10, 7, 14>>
Color(c) ==
  LET n == ColorMap[c + 1] + 1 IN HSVtoRGB(Hues[n], Saturations[n], Brightnesses[n])

-----------------------------------------------------------------------------
(* The monitors, of the samples of the visible part of a line.             *)

Black == 0
White == 15
HiResColors == <<12, 9, 3, 6>>         \* by the first sample, counted modulo 4
LoResLightColors == <<13, 11, 7, 14>>
LoResDarkColors == <<4, 8, 1, 2>>

\* The place of sample i of the visible part in the field, modulo 4: lines of 912
\* samples, of which 350 come first.
SamplePhase(i) == (350 + i - 1) % 4

\* AnalogTV::get_cb: the middle of the burst of a line.
GetCb(isTextMode, revision) == [n \in 1 .. 24 |-> Hbl(253 + n, isTextMode, revision)]

\* CB::isColor: 20 for each place that the burst swings to.
IsColor(cb) ==
  20 * Cardinality({n \in DOMAIN cb : cb[n] \in {"burst-", "burst+"}}) \in 221 .. 259

\* AnalogTV::ntsc_to_rgb_monitor: a run of white takes its colour from its length
\* and its first sample; a single one between others is white.
NtscToRgb(samples) ==
  LET Lit(i) == i \in DOMAIN samples /\ samples[i] = "white"
      Run(i) == [first |-> CHOOSE f \in 1 .. i : /\ \A j \in f .. i : Lit(j)
                                                /\ ~Lit(f - 1),
                 last  |-> CHOOSE l \in i .. Len(samples) : /\ \A j \in i .. l : Lit(j)
                                                           /\ ~Lit(l + 1)]
      Colour(run) ==
        LET length == run.last - run.first + 1
            phase  == SamplePhase(run.first) + 1
        IN  CASE length >= 4 -> White
              [] length = 3 -> LoResLightColors[phase]
              [] length = 2 -> HiResColors[phase]
              [] length = 1 -> IF Lit(run.first - 2) /\ Lit(run.first + 2) THEN White
                               ELSE LoResDarkColors[phase]
  IN  [i \in DOMAIN samples |-> IF Lit(i) THEN Colour(Run(i)) ELSE Black]

\* AnalogTV::drawMonitorColor: without a burst, all that is not black is white.
MonitorColor(samples, cb) ==
  LET rgb == NtscToRgb(samples)
  IN  [i \in DOMAIN rgb |-> IF ~IsColor(cb) /\ Color(rgb[i]) # Color(Black) THEN White ELSE rgb[i]]

\* AnalogTV::drawMonitorMonochrome, in green.
MonitorGreen(samples) ==
  [i \in DOMAIN samples |-> IF samples[i] = "white" THEN HiResColors[1] ELSE Black]

-----------------------------------------------------------------------------
(* The counters of a field f: whether the machine has power, the counters  *)
(* t of Video, hpos and line of PictureGenerator and the place in its      *)
(* buffer, those of the noise, the buffer that the display draws (signal), *)
(* and drawn, the last buffer drawn, if in this step.                      *)

\* Emulator::init and powerOffComputer: of the picture's counters, what they
\* were; first they are not set, which is anything, for powerOn sets them.
NoiseOn(f) ==
  [f EXCEPT !.power = FALSE, !.noiseHpos = 0, !.noiseAt = 0, !.signal = "noise", !.drawn = "none"]

FirstField ==
  NoiseOn([power |-> FALSE, t |-> 0, hpos |-> 0, line |-> 0, at |-> 0, noiseHpos |-> 0,
           noiseAt |-> 0, signal |-> "noise", drawn |-> "none"])

\* Emulator::powerOnComputer: Video::powerOn and PictureGenerator::powerOn.
PictureOn(f) ==
  [f EXCEPT !.power = TRUE, !.t = 0, !.hpos = 0, !.line = 0, !.at = 0, !.signal = "picture",
            !.drawn = "none"]

\* Emulator::toggleComputerPower.
ToggledPower(f) == IF f.power THEN NoiseOn(f) ELSE PictureOn(f)

\* The samples that a cycle adds.
SamplesAt(hpos) == Crystal + (IF hpos = Columns - 1 THEN LongExtra ELSE 0)

\* Video::tick and the counters of PictureGenerator::tick: a field is drawn at
\* the end of a line.
PictureCounted(f) ==
  LET at   == f.at + SamplesAt(f.hpos)
      wrap == f.hpos = Columns - 1
      line == (IF f.t = 0 THEN 0 ELSE f.line) + (IF wrap THEN 1 ELSE 0)
      full == wrap /\ at >= LineSamples * Rows
  IN  [f EXCEPT !.hpos = IF wrap THEN 0 ELSE @ + 1,
                !.line = line,
                !.at = IF full THEN 0 ELSE at,
                !.drawn = IF full THEN f.signal ELSE "none",
                !.t = IF @ + 1 >= FieldCycles THEN 0 ELSE @ + 1]

\* VideoStaticGenerator::tick.
NoiseCounted(f) ==
  LET at   == f.noiseAt + SamplesAt(f.noiseHpos)
      wrap == f.noiseHpos = Columns - 1
      full == wrap /\ at >= LineSamples * Rows
  IN  [f EXCEPT !.noiseHpos = IF wrap THEN 0 ELSE @ + 1,
                !.noiseAt = IF full THEN 0 ELSE at,
                !.drawn = IF full THEN f.signal ELSE "none"]

FieldTick(f) == IF f.power THEN PictureCounted(f) ELSE NoiseCounted(f)

-----------------------------------------------------------------------------
(* What the programmer's view of the screen says.                          *)

\* Where a byte of the screen is: rows of text are 128 bytes apart in blocks of
\* eight; the second and third block follow at 40 bytes. In hi-res the eight
\* lines of a row are 1K apart.
ScreenByte(mode, line, x) ==
  LET row == line \div 8
      cell == 128 * (row % 8) + 40 * (row \div 8) + x
  IN  IF mode.hires /\ ~(mode.text \/ (mode.mixed /\ row >= 20))
      THEN 8192 * (mode.page + 1) + 1024 * (line % 8) + cell
      ELSE 1024 * (mode.page + 1) + cell

\* The dots of hi-res bytes on a line of 560 places: each dot two wide, those of
\* a byte with its top bit one place to the right, cut at the end and led by what
\* was last before.
HiResDot(bytes, place, revision) ==
  LET x == place \div 14
      Led(n) == n > 0 /\ 6 \in bytes[n]
  IN  IF revision = 0 \/ 7 \notin bytes[x + 1] THEN (place % 14) \div 2 \in bytes[x + 1]
      ELSE IF place % 14 = 0 THEN Led(x)
      ELSE ((place % 14) - 1) \div 2 \in bytes[x + 1]

\* The colour of a nibble as a pattern of four samples.
NibbleColour(nibble) ==
  LET Value(k) == IF k \in nibble THEN 1 ELSE 0
      n == Value(0) + 2 * Value(1) + 4 * Value(2) + 8 * Value(3)
  IN  IF n \in {5, 10} THEN White ELSE n

\* The channels that the name of a colour promises to be the brightest ones, of
\* the names in a2colorsobserved.h: black, greys and white have all alike.
Brightest ==
  [c \in 0 .. 15 |-> CASE c \in {1, 8, 9, 11, 13} -> {1}   \* magenta, brown, orange
                       [] c \in {4, 12, 14}        -> {2}   \* blue-green, green
                       [] c \in {2, 3, 6, 7}       -> {3}   \* blue, violet
                       [] OTHER                    -> 1 .. 3]
=============================================================================
