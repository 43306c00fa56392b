------------------------------ MODULE Cassette ------------------------------
(***************************************************************************)
(* The two cassette ports (cassette.cpp, cassettein.cpp, cassetteout.cpp), *)
(* the program that uses them, the operator's commands, and the end of the *)
(* emulator, which ejects the recorded tape and then asks about the disks. *)
(*                                                                         *)
(* A tape's time only counts while it moves. What the code does with it    *)
(* depends on t - t_active alone, but for the place on the tape IN; so a   *)
(* tape has quiet = t - t_active, and the tape IN has t besides.           *)
(* A sample of the tape IN is known by the slope that leads to it: 1, -1 or *)
(* 0. Its samples are what SDL has made of a file at the tape's own rate,   *)
(* when it was loaded: any slopes, and not the samples of the file.         *)
(***************************************************************************)
EXTENDS Integers, Sequences, SequencesExt

CONSTANTS
  StopAfter,     \* 3 * AVG_CPU_HZ: cycles without use after which a tape stops
  SampleCycles,  \* 10: cycles of a sample of the tape IN
  HeadWidths,    \* 59 .. 71: samples of a half wave of the header tone
  HeadCount,     \* 1020: half waves by which the header tone is known
  WaveCycles,    \* 50: cycles of a sample of the tape OUT
  Longest,       \* 3000: intervals from this on are left out of the file
  FlatTop,       \* 1025: a half wave stays at the top for a sample more for
                 \* each so many cycles that it is long; its bytes are clipped
  FlatBottom,    \* 1777: and so at the bottom, where they are rounded
  Recordings,    \* the tapes that can be loaded, as sequences of slopes
  MaxPulses      \* bound: pulses recorded on a tape

ASSUME CassetteAssumption ==
  /\ {StopAfter, SampleCycles, HeadCount, WaveCycles, Longest} \subseteq Nat \ {0}
  /\ Longest < StopAfter /\ SampleCycles < StopAfter
  /\ {FlatTop, FlatBottom} \subseteq Nat
  /\ FlatTop >= 3 * WaveCycles /\ FlatBottom >= 3 * WaveCycles
  /\ \A samp \in Recordings : samp \in Seq({-1, 0, 1})
  /\ MaxPulses \in Nat

VARIABLES
  tapeIn,      \* CassetteIn
  tapeOut,     \* CassetteOut
  onFile,      \* the intervals in the file of the tape OUT, or Damaged
  disksDirty,  \* a disk in some drive has changes (Slots::isDirty)
  quit,        \* the emulator has ended
  asked,       \* of the last step: the answers given, by what was asked about,
               \* and the file of a tape that was ejected
  since,       \* cycles since the program last used the tape OUT that is in, up to
               \* StopAfter
  rise,        \* the slope with which the level of the tape IN is up: that of
               \* the first steep sample heard or searched, 0 before
  stale        \* the slope of the tape IN is not that of the tape, till the
               \* next steep sample: one was missed, or a search was in vain
tapeVars == <<tapeIn, tapeOut, onFile, disksDirty, quit, asked, since, rise, stale>>

NoTape == <<>>

\* A file that a failed write has left.
Damaged == <<-1>>

\* Cassette::Cassette, CassetteIn::CassetteIn and CassetteOut::CassetteOut.
EmptyIn == [loaded |-> FALSE, playing |-> FALSE, quiet |-> 0, t |-> 0, samp |-> NoTape,
            memory |-> "null", positive |-> FALSE, slopeWas |-> 0]
EmptyOut == [loaded |-> FALSE, playing |-> FALSE, quiet |-> 0, modified |-> FALSE,
             sampOut |-> <<>>, lamp |-> FALSE]

NoAnswer == [tape |-> "none", disks |-> "none", file |-> <<>>]

TapesInit ==
  /\ tapeIn = EmptyIn
  /\ tapeOut = EmptyOut
  /\ onFile = <<>>
  /\ disksDirty = FALSE
  /\ quit = FALSE
  /\ asked = NoAnswer
  /\ since = 0
  /\ rise = 0
  /\ stale = FALSE

-----------------------------------------------------------------------------
(* Both tapes.                                                             *)

\* Cassette::tick, but for t.
Moved(tape) ==
  IF ~tape.playing THEN tape
  ELSE [tape EXCEPT !.quiet = @ + 1, !.playing = tape.quiet + 1 < StopAfter]

-----------------------------------------------------------------------------
(* The tape OUT.                                                           *)

\* FAULT: a recorded change does not begin the next interval.
OutputNotUsed(tape) ==
  IF ~tape.loaded THEN tape
  ELSE IF ~tape.playing THEN [tape EXCEPT !.playing = TRUE, !.quiet = 0]
  ELSE [tape EXCEPT !.sampOut = Append(@, tape.quiet), !.modified = TRUE, !.lamp = TRUE]

\* CassetteOut::output: the program changed the level.
Output(tape) ==
  IF ~tape.loaded THEN tape
  ELSE IF ~tape.playing THEN [tape EXCEPT !.playing = TRUE, !.quiet = 0]
  ELSE [tape EXCEPT !.sampOut = Append(@, tape.quiet), !.modified = TRUE, !.lamp = TRUE,
                    !.quiet = 0]

\* FAULT: the tape is out although its file could not be written.
EjectedUnwritten(answer, written) ==
  LET asks   == tapeOut.loaded /\ tapeOut.modified
      writes == asks /\ answer = "yes"
      content == IF ~writes THEN onFile ELSE IF written THEN tapeOut.sampOut ELSE Damaged
      done   == asks => answer # "cancel"
  IN  [done |-> done, file |-> content, tape |-> IF done THEN EmptyOut ELSE tapeOut,
       asked |-> [tape |-> IF asks THEN answer ELSE "none", disks |-> "none",
                 file |-> IF asks THEN content ELSE <<>>]]

\* CassetteOut::eject and Cassette::eject, answered and with a write that works
\* or not: whether it was done, the tape and the file.
Ejected(answer, written) ==
  LET asks    == tapeOut.loaded /\ tapeOut.modified
      writes  == asks /\ answer = "yes"
      content == IF ~writes THEN onFile ELSE IF written THEN tapeOut.sampOut ELSE Damaged
      done    == asks => answer = "no" \/ (writes /\ written)
  IN  [done |-> done, file |-> content, tape |-> IF done THEN EmptyOut ELSE tapeOut,
       asked |-> [tape |-> IF asks THEN answer ELSE "none", disks |-> "none",
                 file |-> IF asks THEN content ELSE <<>>]]

Answers == {"cancel", "yes", "no"}

EjectOut(answer, written) ==
  LET e == Ejected(answer, written)
  IN  /\ ~quit
      /\ tapeOut' = e.tape
      /\ onFile' = e.file
      /\ asked' = e.asked
      /\ since' = IF e.done THEN 0 ELSE since
      /\ UNCHANGED <<tapeIn, disksDirty, quit, rise, stale>>

\* CassetteOut::blank: the old tape is out before the new file is looked at,
\* which may exist already or not be made.
Blank(answer, written, made) ==
  LET e == Ejected(answer, written)
  IN  /\ ~quit
      /\ tapeOut' = IF e.done /\ made THEN [EmptyOut EXCEPT !.loaded = TRUE] ELSE e.tape
      /\ onFile' = IF e.done /\ made THEN <<>> ELSE e.file
      /\ asked' = e.asked
      /\ since' = IF e.done THEN 0 ELSE since
      /\ UNCHANGED <<tapeIn, disksDirty, quit, rise, stale>>

\* FAULT: what could not be written is called saved.
SaveOutUnwritten(written) ==
  /\ ~quit
  /\ tapeOut.loaded /\ tapeOut.modified
  /\ onFile' = IF written THEN tapeOut.sampOut ELSE Damaged
  /\ tapeOut' = [tapeOut EXCEPT !.modified = FALSE, !.lamp = FALSE]
  /\ asked' = NoAnswer
  /\ UNCHANGED <<tapeIn, disksDirty, quit, since, rise, stale>>

\* Cassette::save.
SaveOut(written) ==
  /\ ~quit
  /\ tapeOut.loaded /\ tapeOut.modified
  /\ onFile' = IF written THEN tapeOut.sampOut ELSE Damaged
  /\ tapeOut' = IF written THEN [tapeOut EXCEPT !.modified = FALSE, !.lamp = FALSE] ELSE tapeOut
  /\ asked' = NoAnswer
  /\ UNCHANGED <<tapeIn, disksDirty, quit, since, rise, stale>>

\* Whether the half wave of interval i begins at the top, and the length that makes one flat there.
FromTop(i) == i % 2 = 0
FlatAt(top) == IF top THEN FlatTop ELSE FlatBottom

\* How far the half wave of an interval has come at its sample s, in samples: 0
\* while its byte is that of the extreme where it starts, and Longest when it is
\* that of the other. That two bytes on the way may be the same is left out.
Gone(interval, s, top) ==
  IF s * FlatAt(top) <= interval THEN 0
  ELSE IF (interval - s * WaveCycles) * FlatAt(~top) <= interval * WaveCycles THEN Longest
  ELSE s

\* The bytes of an interval, by their order.
HalfWave(interval, top) ==
  LET n == interval \div WaveCycles
  IN  IF interval >= Longest \/ n = 0 THEN <<>>
      ELSE [s \in 1 .. n |-> IF top THEN Longest - Gone(interval, s - 1, top)
                                    ELSE Gone(interval, s - 1, top)]

\* FAULT: half waves all begin at the same extreme.
FileBytesUnturned(intervals) ==
  LET halves[i \in 0 .. Len(intervals)] ==
        IF i = 0 THEN <<>> ELSE halves[i - 1] \o HalfWave(intervals[i], FALSE)
  IN  halves[Len(intervals)]

\* CassetteOut::write: a half wave for each interval, rising or falling by turns.
\* A long interval has none, but takes its turn.
FileBytes(intervals) ==
  LET halves[i \in 0 .. Len(intervals)] ==
        IF i = 0 THEN <<>> ELSE halves[i - 1] \o HalfWave(intervals[i], FromTop(i))
  IN  halves[Len(intervals)]

-----------------------------------------------------------------------------
(* The tape IN.                                                            *)

\* The tape has moved, perhaps to a sample. The slope at sample p of the code is
\* samp[p].
HeardAt(moved) ==
  LET p == moved.t \div SampleCycles
  IN  IF moved.t % SampleCycles # 0 \/ ~moved.playing THEN moved
      ELSE IF Len(moved.samp) + 1 <= p
        THEN [moved EXCEPT !.t = (Len(moved.samp) + 1) * SampleCycles, !.quiet = 0, !.playing = FALSE]
      ELSE IF moved.samp[p] \in {0, moved.slopeWas} THEN moved
      ELSE [moved EXCEPT !.positive = ~@, !.slopeWas = moved.samp[p]]

\* CassetteIn::tick: the level follows the beginnings of the half waves.
Heard(tape) == HeardAt([Moved(tape) EXCEPT !.t = IF tape.playing THEN @ + 1 ELSE @])

\* CassetteIn::input, but for the level it returns: the program looks at the tape.
Input(tape) ==
  LET plays == \/ tape.playing
               \/ tape.loaded /\ tape.t \div SampleCycles < Len(tape.samp) + 1
  IN  IF plays THEN [tape EXCEPT !.playing = TRUE, !.quiet = 0] ELSE tape

\* CassetteIn::rewind.
Rewound(tape) ==
  [tape EXCEPT !.t = 0, !.quiet = 0, !.slopeWas = 0, !.positive = FALSE, !.playing = FALSE]

\* The loop of CassetteIn::tone at sample i.
Searched(samp, was, i) ==
  LET head == IF i - was.last \in HeadWidths THEN was.head + 1 ELSE 0
  IN  IF was.found > 0 \/ samp[i] \in {0, was.slope} THEN was
      ELSE [found |-> IF head >= HeadCount THEN i ELSE 0, head |-> head, last |-> i,
            slope |-> samp[i], positive |-> ~was.positive, slopeWas |-> samp[i]]

\* The search of CassetteIn::tone: the state of its loop before sample i.
SearchFrom(tape, start) ==
  LET step[i \in start .. Len(tape.samp) + 1] ==
        IF i = start
        THEN [found |-> 0, head |-> 0, last |-> 0, slope |-> 0,
              positive |-> tape.positive, slopeWas |-> tape.slopeWas]
        ELSE Searched(tape.samp, step[i - 1], i - 1)
  IN  step[Len(tape.samp) + 1]

\* Where the search starts.
Start(tape) == IF tape.t \div SampleCycles > 0 THEN tape.t \div SampleCycles ELSE 1

\* What CassetteIn::tone finds from where the tape is: found = 0 if nothing.
Search(tape) ==
  IF Start(tape) > Len(tape.samp)
  THEN [found |-> 0, positive |-> tape.positive, slopeWas |-> tape.slopeWas]
  ELSE SearchFrom(tape, Start(tape))

\* FAULT: the search does not turn the level.
SoughtSilently(tape) ==
  LET s == Search(tape)
      there == [tape EXCEPT !.playing = FALSE]
  IN  IF s.found > 0 THEN [there EXCEPT !.t = s.found * SampleCycles - 1, !.quiet = 0] ELSE there

\* CassetteIn::tone: on to the header tone. The level and the slope follow the
\* search, also where it finds nothing and the tape stays where it is.
Sought(tape) ==
  LET s     == Search(tape)
      there == [tape EXCEPT !.playing = FALSE, !.positive = s.positive, !.slopeWas = s.slopeWas]
  IN  IF s.found > 0 THEN [there EXCEPT !.t = s.found * SampleCycles - 1, !.quiet = 0] ELSE there

\* CassetteIn::eject: never asks, for a tape IN is never modified. The samples
\* are freed and the pointer stays, so that a second eject frees them "twice".
EjectedIn(tape) ==
  [tape EXCEPT !.loaded = FALSE, !.playing = FALSE, !.samp = NoTape,
               !.t = IF tape.loaded THEN 0 ELSE @, !.quiet = IF tape.loaded THEN 0 ELSE @,
               !.memory = IF @ = "null" THEN "null" ELSE IF @ = "live" THEN "freed" ELSE "twice"]

\* CassetteIn::load before it looks for the tone; a file that is not a sound
\* changes nothing.
Inserted(samp) ==
  LET out == IF tapeIn.loaded THEN EjectedIn(tapeIn) ELSE tapeIn
  IN  Rewound([out EXCEPT !.samp = samp, !.memory = "live", !.loaded = TRUE])

-----------------------------------------------------------------------------
(* What the tape IN says: for the properties.                              *)

\* The last slope that is not flat up to sample p, 0 if there is none.
LastSlope(samp, p) ==
  LET steep == {i \in 1 .. p : samp[i] # 0}
  IN  IF steep = {} THEN 0 ELSE samp[CHOOSE i \in steep : \A j \in steep : j <= i]

\* The beginnings of half waves, where CassetteIn::tick turns the level.
Edges(samp) ==
  {i \in 1 .. Len(samp) : samp[i] \notin {0, LastSlope(samp, i - 1)}}

\* The slopes of the samples of a file.
Slopes(bytes) ==
  [i \in 1 .. Len(bytes) - 1 |-> IF bytes[i] < bytes[i + 1] THEN 1
                                ELSE IF bytes[i] > bytes[i + 1] THEN -1 ELSE 0]

\* The slope that the tape IN comes to in a cycle, 0 between samples and at the end.
SlopeMet(before, after) ==
  LET p == after.t \div SampleCycles
  IN  IF after.t # before.t /\ after.t % SampleCycles = 0 /\ p <= Len(before.samp)
      THEN before.samp[p] ELSE 0

\* A search looks at the tape on from where it is, and the first steep sample
\* always turns the level.
SteepOnFrom(tape) == {i \in Start(tape) .. Len(tape.samp) : tape.samp[i] # 0}

RiseAfter(tape, before) ==
  IF SteepOnFrom(tape) = {} THEN before
  ELSE LET first == tape.samp[Min(SteepOnFrom(tape))]
       IN  IF tape.positive THEN -first ELSE first

StaleAfter(tape, before) ==
  Search(tape).found = 0 /\ (before \/ SteepOnFrom(tape) # {})

-----------------------------------------------------------------------------
(* The program and the operator.                                           *)

\* A cycle of the machine: at most one access by the processor, then the ticks
\* of both tapes (Apple2::tick).
Cycle(access) ==
  /\ ~quit
  /\ access = "out" => Len(tapeOut.sampOut) < MaxPulses
  /\ tapeIn' = Heard(IF access = "in" THEN Input(tapeIn) ELSE tapeIn)
  /\ tapeOut' = Moved(IF access = "out" THEN Output(tapeOut) ELSE tapeOut)
  /\ since' = IF ~tapeOut.loaded THEN 0
              ELSE IF access = "out" THEN 1
              ELSE IF since < StopAfter THEN since + 1 ELSE since
  /\ rise' = IF rise = 0 /\ tapeIn'.playing THEN SlopeMet(tapeIn, tapeIn') ELSE rise
  /\ stale' = IF SlopeMet(tapeIn, tapeIn') = 0 THEN stale ELSE ~tapeIn'.playing
  /\ asked' = NoAnswer
  /\ UNCHANGED <<onFile, disksDirty, quit>>

LoadIn(samp) ==
  /\ ~quit
  /\ tapeIn' = Sought(Inserted(samp))
  /\ rise' = RiseAfter(Inserted(samp), 0)
  /\ stale' = StaleAfter(Inserted(samp), FALSE)
  /\ asked' = NoAnswer
  /\ UNCHANGED <<tapeOut, onFile, disksDirty, quit, since>>

RewindIn ==
  /\ ~quit
  /\ tapeIn.loaded
  /\ tapeIn' = Rewound(tapeIn)
  /\ rise' = 0
  /\ stale' = FALSE
  /\ asked' = NoAnswer
  /\ UNCHANGED <<tapeOut, onFile, disksDirty, quit, since>>

ToneIn ==
  /\ ~quit
  /\ tapeIn.loaded
  /\ tapeIn' = Sought(tapeIn)
  /\ rise' = RiseAfter(tapeIn, rise)
  /\ stale' = StaleAfter(tapeIn, stale)
  /\ asked' = NoAnswer
  /\ UNCHANGED <<tapeOut, onFile, disksDirty, quit, since>>

\* Samples freed twice are undefined: the emulator goes on, or ends on the spot.
EjectIn ==
  /\ ~quit
  /\ tapeIn' = EjectedIn(tapeIn)
  /\ quit' \in IF tapeIn'.memory = "twice" THEN BOOLEAN ELSE {FALSE}
  /\ asked' = NoAnswer
  /\ UNCHANGED <<tapeOut, onFile, disksDirty, since, rise, stale>>

\* The program writes to a disk, as DiskController has it.
WriteDisk ==
  /\ ~quit
  /\ disksDirty' = TRUE
  /\ asked' = NoAnswer
  /\ UNCHANGED <<tapeIn, tapeOut, onFile, quit, since, rise, stale>>

\* Emulator::isSafeToQuit: the tape goes first, and is out even when the operator
\* then cancels at the disks. Saving the disks is not seen to fail.
Quit(answer, written, disksAnswer) ==
  LET e    == Ejected(answer, written)
      asks == e.done /\ disksDirty
  IN  /\ ~quit
      /\ tapeOut' = e.tape
      /\ onFile' = e.file
      /\ disksDirty' = (disksDirty /\ ~(asks /\ disksAnswer = "yes"))
      /\ quit' = (e.done /\ (asks => disksAnswer # "cancel"))
      /\ asked' = [e.asked EXCEPT !.disks = IF asks THEN disksAnswer ELSE "none"]
      /\ since' = IF e.done THEN 0 ELSE since
      /\ UNCHANGED <<tapeIn, rise, stale>>

TapesNext ==
  \/ \E access \in {"none", "in", "out"} : Cycle(access)
  \/ \E answer \in Answers, written \in BOOLEAN :
       \/ EjectOut(answer, written)
       \/ \E made \in BOOLEAN : Blank(answer, written, made)
       \/ \E disksAnswer \in Answers : Quit(answer, written, disksAnswer)
  \/ \E written \in BOOLEAN : SaveOut(written)
  \/ \E samp \in Recordings : LoadIn(samp)
  \/ RewindIn
  \/ ToneIn
  \/ EjectIn
  \/ WriteDisk

TapesSpec == TapesInit /\ [][TapesNext]_tapeVars

-----------------------------------------------------------------------------
(* What must hold.                                                         *)

TapesTypeOK ==
  /\ tapeIn \in [loaded : BOOLEAN, playing : BOOLEAN, quiet : 0 .. StopAfter, t : Nat,
                 samp : Recordings \cup {NoTape}, memory : {"null", "live", "freed", "twice"},
                 positive : BOOLEAN, slopeWas : {-1, 0, 1}]
  /\ tapeOut \in [loaded : BOOLEAN, playing : BOOLEAN, quiet : 0 .. StopAfter,
                  modified : BOOLEAN, sampOut : Seq(0 .. StopAfter), lamp : BOOLEAN]
  /\ onFile = Damaged \/ onFile \in Seq(0 .. StopAfter)
  /\ {disksDirty, quit} \subseteq BOOLEAN
  /\ {asked.tape, asked.disks} \subseteq Answers \cup {"none"}
  /\ since \in 0 .. StopAfter
  /\ rise \in {-1, 0, 1} /\ stale \in BOOLEAN

\* What was recorded stays in the tape until it is in the file or the operator
\* has said that it need not be: whatever is ejected, made anew, saved or ended
\* in whatever order, and whichever write fails (cassette.cpp:69 to 106,
\* emulator.cpp:452). The same goes for ending with changed disks, as far as
\* their being asked for. Only a second eject of the tape IN may end the emulator
\* with what is unsaved (cassettein.cpp:266).
NothingLostUnasked ==
  [][/\ tapeOut.modified /\ ~IsPrefix(tapeOut.sampOut, tapeOut'.sampOut)
           => asked'.file = tapeOut.sampOut \/ asked'.tape = "no"
     /\ quit' => \/ ~tapeOut'.loaded /\ (disksDirty' => asked'.disks = "no")
                 \/ tapeIn'.memory = "twice"]_tapeVars

\* A tape that the program calls saved is in its file, and the asterisk on the
\* screen says which: after failed writes, answers and new tapes.
UnmodifiedTapeIsSaved ==
  /\ tapeOut.loaded /\ ~tapeOut.modified => onFile = tapeOut.sampOut
  /\ tapeOut.lamp = tapeOut.modified

\* While the tape moves, its clock tells the cycles since the program's last
\* use of it, so that what it records is true; and a tape unused for StopAfter
\* cycles has stopped (cassette.cpp:41), its pause not recorded.
ClockIsTrue ==
  /\ tapeOut.playing => tapeOut.quiet = since
  /\ tapeOut.loaded /\ since = StopAfter => ~tapeOut.playing

\* The file of a recording tells its intervals: to each of at least two samples it
\* has a half wave of its own, which begins where as many samples as fit in the
\* intervals before it end, and later by those that the clipping and the rounding
\* of the bytes make flat; and it has no other beginnings of half waves
\* (cassetteout.cpp:104, 155). This is of the file, before SDL makes a tape IN of it.
FileTellsIntervals ==
  LET intervals == tapeOut.sampOut
      Samples(i) == intervals[i] \div WaveCycles
      until[i \in 0 .. Len(intervals)] == IF i = 0 THEN 0 ELSE until[i - 1] + Samples(i)
  IN  (\A i \in DOMAIN intervals : Samples(i) >= 2 /\ intervals[i] < Longest)
        => Edges(Slopes(FileBytes(intervals)))
             = {until[i - 1] + 1 + intervals[i] \div FlatAt(FromTop(i)) :
                  i \in DOMAIN intervals}

\* A tape that moves has its samples, for freed ones are never read, and is
\* before its end (cassettein.cpp:263, 126). And the level follows it: it is up
\* just after slopes of one direction, which only rewinding and the first slope of
\* a search change; and at every sample the slope last heard is that of the tape.
\* Whether the tape was stopped by itself on the way, at a sample or between,
\* played on, rewound, or sent to the header tone, which is the place where the
\* search has already turned the level (cassettein.cpp:127, 190). Only a steep
\* sample at which the tape stopped, or a search in vain, which ends with the slope
\* of the end of the tape, puts the slope off, and the next steep sample mends it.
LevelFollowsTape ==
  LET p == tapeIn.t \div SampleCycles
  IN  /\ tapeIn.positive = (tapeIn.slopeWas # 0 /\ tapeIn.slopeWas = rise)
      /\ tapeIn.playing =>
           /\ tapeIn.memory = "live"
           /\ tapeIn.t < (Len(tapeIn.samp) + 1) * SampleCycles
           /\ tapeIn.t % SampleCycles = 0 /\ ~stale
                => tapeIn.slopeWas = LastSlope(tapeIn.samp, p)
=============================================================================
