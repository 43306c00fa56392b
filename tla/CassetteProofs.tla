--------------------------- MODULE CassetteProofs ---------------------------
(***************************************************************************)
(* Proofs about both tapes of Cassette, for all tapes, delays and numbers  *)
(* of pulses recorded: what is lost, saved and timed on the tape OUT, the  *)
(* level of the tape IN, and what the file tells of what was recorded.     *)
(***************************************************************************)
EXTENDS Cassette, SequenceTheorems, FiniteSetTheorems, TLAPS

Tapes == [loaded : BOOLEAN, playing : BOOLEAN, quiet : Int, modified : BOOLEAN,
          sampOut : Seq(Int), lamp : BOOLEAN]

\* The tape OUT as its clock and the recording need it.
TypeOut == tapeOut \in Tapes /\ since \in 0 .. StopAfter

\* Only a tape that is in moves or has changes.
InFirst == tapeOut.playing \/ tapeOut.modified => tapeOut.loaded

IInv == TypeOut /\ InFirst /\ ClockIsTrue /\ UnmodifiedTapeIsSaved

\* The assumption on the constants, as far as it is used.
LEMMA StopAfterType == StopAfter \in Nat /\ StopAfter > 0
  BY CassetteAssumption

-----------------------------------------------------------------------------
(* The operators on a tape.                                                *)

\* No tape.
LEMMA EmptyTape ==
  /\ EmptyOut \in Tapes
  /\ EmptyOut.loaded = FALSE /\ EmptyOut.playing = FALSE
  /\ EmptyOut.modified = FALSE /\ EmptyOut.lamp = FALSE
  /\ EmptyOut.sampOut = <<>>
<1>1. <<>> \in Seq(Int)
  BY EmptySeq
<1>2. QED
  BY <1>1 DEF EmptyOut, Tapes

\* A use of the tape.
LEMMA OutputStep ==
  ASSUME NEW tape \in Tapes
  PROVE  /\ Output(tape) \in Tapes
         /\ Output(tape).loaded = tape.loaded
         /\ ~tape.loaded => Output(tape) = tape
         /\ tape.loaded => Output(tape).playing /\ Output(tape).quiet = 0
         /\ tape.loaded /\ tape.playing =>
              /\ Output(tape).sampOut = Append(tape.sampOut, tape.quiet)
              /\ Output(tape).modified /\ Output(tape).lamp
         /\ ~tape.playing =>
              /\ Output(tape).sampOut = tape.sampOut
              /\ Output(tape).modified = tape.modified /\ Output(tape).lamp = tape.lamp
<1>1. Append(tape.sampOut, tape.quiet) \in Seq(Int)
  BY AppendProperties DEF Tapes
<1>2. CASE ~tape.loaded
  BY <1>2 DEF Output
<1>3. CASE tape.loaded /\ ~tape.playing
  <2> DEFINE yes == TRUE
             quiet == 0
  <2>1. Output(tape) = [tape EXCEPT !.playing = yes, !.quiet = quiet]
    BY <1>3 DEF Output
  <2>2. yes \in BOOLEAN /\ yes /\ quiet \in Int /\ quiet = 0
    OBVIOUS
  <2> HIDE DEF yes, quiet
  <2>3. /\ Output(tape) \in Tapes
        /\ Output(tape).loaded = tape.loaded /\ Output(tape).sampOut = tape.sampOut
        /\ Output(tape).modified = tape.modified /\ Output(tape).lamp = tape.lamp
        /\ Output(tape).playing = yes /\ Output(tape).quiet = quiet
    BY <2>1, <2>2 DEF Tapes
  <2>4. QED
    BY <1>3, <2>2, <2>3
<1>4. CASE tape.loaded /\ tape.playing
  <2> DEFINE more == Append(tape.sampOut, tape.quiet)
             yes == TRUE
             quiet == 0
  <2>1. Output(tape) = [tape EXCEPT !.sampOut = more, !.modified = yes, !.lamp = yes,
                                    !.quiet = quiet]
    BY <1>4 DEF Output
  <2>2. more \in Seq(Int) /\ yes \in BOOLEAN /\ yes /\ quiet \in Int /\ quiet = 0
    BY <1>1
  <2> HIDE DEF more, yes, quiet
  <2>3. /\ Output(tape) \in Tapes
        /\ Output(tape).loaded = tape.loaded /\ Output(tape).sampOut = more
        /\ Output(tape).modified = yes /\ Output(tape).lamp = yes
        /\ Output(tape).playing = tape.playing /\ Output(tape).quiet = quiet
    BY <2>1, <2>2 DEF Tapes
  <2>4. QED
    BY <1>4, <2>2, <2>3 DEF more
<1>5. QED
  BY <1>2, <1>3, <1>4

\* A cycle of the tape.
LEMMA MovedStep ==
  ASSUME NEW tape \in Tapes
  PROVE  /\ Moved(tape) \in Tapes
         /\ Moved(tape).loaded = tape.loaded
         /\ Moved(tape).sampOut = tape.sampOut
         /\ Moved(tape).modified = tape.modified /\ Moved(tape).lamp = tape.lamp
         /\ ~tape.playing => ~Moved(tape).playing
         /\ tape.playing => Moved(tape).quiet = tape.quiet + 1
         /\ Moved(tape).playing => Moved(tape).quiet < StopAfter
<1>1. CASE ~tape.playing
  BY <1>1 DEF Moved
<1>2. CASE tape.playing
  <2> DEFINE quiet == tape.quiet + 1
             plays == quiet < StopAfter
  <2>1. quiet \in Int /\ plays \in BOOLEAN
    BY DEF Tapes
  <2>2. Moved(tape) = [tape EXCEPT !.quiet = quiet, !.playing = plays]
    BY <1>2 DEF Moved
  <2>3. plays => quiet < StopAfter
    OBVIOUS
  <2> HIDE DEF quiet, plays
  <2>4. /\ Moved(tape) \in Tapes
        /\ Moved(tape).loaded = tape.loaded /\ Moved(tape).sampOut = tape.sampOut
        /\ Moved(tape).modified = tape.modified /\ Moved(tape).lamp = tape.lamp
        /\ Moved(tape).quiet = quiet /\ Moved(tape).playing = plays
    BY <2>1, <2>2 DEF Tapes
  <2>5. QED
    BY <1>2, <2>3, <2>4 DEF quiet
<1>3. QED
  BY <1>1, <1>2

\* An eject is either done or refused, and refused only when there are changes.
LEMMA EjectedStep ==
  ASSUME TypeOut, InFirst, NEW answer \in Answers, NEW written \in BOOLEAN
  PROVE  LET e == Ejected(answer, written)
         IN  /\ e.done \in BOOLEAN
             /\ e.done => e.tape = EmptyOut
             /\ ~e.done => e.tape = tapeOut /\ tapeOut.loaded /\ tapeOut.modified
             /\ tapeOut.modified /\ e.done =>
                  e.asked.file = tapeOut.sampOut \/ e.asked.tape = "no"
  BY DEF Ejected, TypeOut, InFirst, Tapes, Answers

-----------------------------------------------------------------------------
(* The invariant.                                                          *)

LEMMA InitIInv == TapesInit => IInv
<1> SUFFICES ASSUME TapesInit PROVE IInv
  OBVIOUS
<1>1. tapeOut = EmptyOut /\ since = 0
  BY DEF TapesInit
<1>2. TypeOut
  BY <1>1, EmptyTape, StopAfterType DEF TypeOut
<1>3. InFirst /\ ClockIsTrue
  BY <1>1, EmptyTape DEF InFirst, ClockIsTrue
<1>4. UnmodifiedTapeIsSaved
  BY <1>1, EmptyTape DEF UnmodifiedTapeIsSaved
<1>5. QED
  BY <1>2, <1>3, <1>4 DEF IInv

\* What the tape and its clock become in a cycle.
LEMMA CycleIInv ==
  ASSUME IInv, NEW access \in {"none", "in", "out"}, Cycle(access)
  PROVE  IInv'
<1> DEFINE used == IF access = "out" THEN Output(tapeOut) ELSE tapeOut
<1>1. tapeOut' = Moved(used) /\ onFile' = onFile
  BY DEF Cycle
<1>2. /\ used \in Tapes /\ used.loaded = tapeOut.loaded
      /\ used.playing => used.loaded
      /\ used.modified => used.loaded
      /\ used.lamp = used.modified
      /\ used.loaded /\ ~used.modified => onFile = used.sampOut
  BY OutputStep DEF IInv, TypeOut, InFirst, UnmodifiedTapeIsSaved, Tapes
<1> HIDE DEF used
<1>3. /\ tapeOut' \in Tapes /\ tapeOut'.loaded = tapeOut.loaded
      /\ tapeOut'.playing => tapeOut'.loaded
      /\ tapeOut'.modified => tapeOut'.loaded
      /\ tapeOut'.lamp = tapeOut'.modified
      /\ tapeOut'.loaded /\ ~tapeOut'.modified => onFile' = tapeOut'.sampOut
  BY <1>1, <1>2, MovedStep
<1>4. since' = IF ~tapeOut.loaded THEN 0
               ELSE IF access = "out" THEN 1
               ELSE IF since < StopAfter THEN since + 1 ELSE since
  BY DEF Cycle
<1>5. since' \in 0 .. StopAfter
  BY <1>4, StopAfterType DEF IInv, TypeOut
<1>6. ClockIsTrue'
  <2>1. CASE ~tapeOut.loaded
    BY <1>3, <2>1 DEF ClockIsTrue
  <2>2. CASE tapeOut.loaded /\ access = "out"
    <3>1. used.playing /\ used.quiet = 0
      BY <2>2, OutputStep DEF used, IInv, TypeOut
    <3>2. tapeOut'.quiet = 1 /\ (tapeOut'.playing => 1 < StopAfter) /\ since' = 1
      BY <1>1, <1>2, <1>4, <2>2, <3>1, MovedStep
    <3>3. QED
      BY <3>2 DEF ClockIsTrue
  <2>3. CASE tapeOut.loaded /\ access # "out" /\ tapeOut.playing
    <3>1. used = tapeOut
      BY <2>3 DEF used
    <3>2. /\ tapeOut'.quiet = tapeOut.quiet + 1
          /\ tapeOut'.playing => tapeOut'.quiet < StopAfter
      BY <1>1, <1>2, <2>3, <3>1, MovedStep
    <3>3. tapeOut.quiet = since /\ tapeOut.loaded /\ since # StopAfter /\ since \in 0 .. StopAfter
      BY <2>3 DEF IInv, TypeOut, ClockIsTrue
    <3>4. since' = since + 1
      BY <1>4, <2>3, <3>3, StopAfterType
    <3>5. QED
      BY <3>2, <3>3, <3>4, StopAfterType DEF ClockIsTrue
  <2>4. CASE tapeOut.loaded /\ access # "out" /\ ~tapeOut.playing
    <3>1. used = tapeOut
      BY <2>4 DEF used
    <3>2. ~tapeOut'.playing
      BY <1>1, <1>2, <2>4, <3>1, MovedStep
    <3>3. QED
      BY <3>2 DEF ClockIsTrue
  <2>5. QED
    BY <2>1, <2>2, <2>3, <2>4
<1>7. QED
  BY <1>3, <1>5, <1>6 DEF IInv, TypeOut, InFirst, UnmodifiedTapeIsSaved

\* The commands that eject the tape: it is as it was, with changes, or it is out,
\* and if a new one is made, it is empty like its file.
LEMMA EjectIInv ==
  ASSUME IInv, NEW answer \in Answers, NEW written \in BOOLEAN,
         since' = IF Ejected(answer, written).done THEN 0 ELSE since,
         \/ tapeOut' = Ejected(answer, written).tape
         \/ /\ Ejected(answer, written).done
            /\ tapeOut' = [EmptyOut EXCEPT !.loaded = TRUE]
            /\ onFile' = <<>>
  PROVE  IInv'
<1> DEFINE e == Ejected(answer, written)
<1>1. /\ e.done \in BOOLEAN
      /\ e.done => e.tape = EmptyOut
      /\ ~e.done => e.tape = tapeOut /\ tapeOut.loaded /\ tapeOut.modified
  BY EjectedStep DEF IInv
<1> HIDE DEF e
<1>2. CASE ~e.done
  <2>1. tapeOut' = tapeOut /\ since' = since
    BY <1>1, <1>2 DEF e
  <2>2. TypeOut' /\ InFirst' /\ ClockIsTrue'
    BY <2>1 DEF IInv, TypeOut, InFirst, ClockIsTrue
  <2>3. UnmodifiedTapeIsSaved'
    BY <1>1, <1>2, <2>1 DEF IInv, UnmodifiedTapeIsSaved
  <2>4. QED
    BY <2>2, <2>3 DEF IInv
<1>3. CASE e.done /\ tapeOut' = e.tape
  <2>1. tapeOut' = EmptyOut /\ since' = 0
    BY <1>1, <1>3 DEF e
  <2>2. TypeOut'
    BY <2>1, EmptyTape, StopAfterType DEF TypeOut
  <2>3. InFirst' /\ ClockIsTrue' /\ UnmodifiedTapeIsSaved'
    BY <2>1, EmptyTape DEF InFirst, ClockIsTrue, UnmodifiedTapeIsSaved
  <2>4. QED
    BY <2>2, <2>3 DEF IInv
<1>4. CASE e.done /\ tapeOut' = [EmptyOut EXCEPT !.loaded = TRUE] /\ onFile' = <<>>
  <2>1. since' = 0
    BY <1>4 DEF e
  <2>2. tapeOut' = [loaded |-> TRUE, playing |-> FALSE, quiet |-> 0, modified |-> FALSE,
                    sampOut |-> <<>>, lamp |-> FALSE]
    BY <1>4 DEF EmptyOut
  <2>3. TypeOut'
    BY <2>1, <2>2, StopAfterType, EmptySeq DEF TypeOut, Tapes
  <2>4. /\ tapeOut'.loaded = TRUE /\ tapeOut'.playing = FALSE
        /\ tapeOut'.modified = FALSE /\ tapeOut'.lamp = FALSE
        /\ tapeOut'.sampOut = <<>>
    BY <2>2
  <2>5. InFirst' /\ ClockIsTrue'
    BY <2>4 DEF InFirst, ClockIsTrue
  <2>6. UnmodifiedTapeIsSaved'
    BY <1>4, <2>4 DEF UnmodifiedTapeIsSaved
  <2>7. QED
    BY <2>3, <2>5, <2>6 DEF IInv
<1>5. QED
  BY <1>1, <1>2, <1>3, <1>4 DEF e

LEMMA SaveIInv ==
  ASSUME IInv, NEW written \in BOOLEAN, SaveOut(written)
  PROVE  IInv'
<1>1. CASE written
  BY <1>1
  DEF SaveOut, IInv, TypeOut, Tapes, InFirst, ClockIsTrue, UnmodifiedTapeIsSaved
<1>2. CASE ~written
  BY <1>2
  DEF SaveOut, IInv, TypeOut, Tapes, InFirst, ClockIsTrue, UnmodifiedTapeIsSaved
<1>3. QED
  BY <1>1, <1>2

LEMMA NextIInv == IInv /\ [TapesNext]_tapeVars => IInv'
<1> SUFFICES ASSUME IInv, [TapesNext]_tapeVars PROVE IInv'
  OBVIOUS
<1>1. ASSUME NEW access \in {"none", "in", "out"}, Cycle(access) PROVE IInv'
  BY <1>1, CycleIInv
<1>2. ASSUME NEW answer \in Answers, NEW written \in BOOLEAN, EjectOut(answer, written)
      PROVE  IInv'
  BY <1>2, EjectIInv DEF EjectOut
<1>3. ASSUME NEW answer \in Answers, NEW written \in BOOLEAN, NEW made \in BOOLEAN,
             Blank(answer, written, made)
      PROVE  IInv'
  BY <1>3, EjectIInv DEF Blank
<1>4. ASSUME NEW answer \in Answers, NEW written \in BOOLEAN, NEW disksAnswer \in Answers,
             Quit(answer, written, disksAnswer)
      PROVE  IInv'
  BY <1>4, EjectIInv DEF Quit
<1>5. ASSUME NEW written \in BOOLEAN, SaveOut(written) PROVE IInv'
  BY <1>5, SaveIInv
<1>6. CASE UNCHANGED <<tapeOut, onFile, since>>
  BY <1>6 DEF IInv, TypeOut, InFirst, ClockIsTrue, UnmodifiedTapeIsSaved
<1>7. ASSUME NEW samp \in Recordings, LoadIn(samp) PROVE IInv'
  BY <1>6, <1>7 DEF LoadIn
<1>8. CASE RewindIn \/ ToneIn \/ EjectIn \/ WriteDisk \/ UNCHANGED tapeVars
  BY <1>6, <1>8 DEF RewindIn, ToneIn, EjectIn, WriteDisk, tapeVars
<1>9. QED
  BY <1>1, <1>2, <1>3, <1>4, <1>5, <1>7, <1>8 DEF TapesNext

THEOREM Invariant == TapesSpec => []IInv
<1>1. QED
  BY InitIInv, NextIInv, PTL DEF TapesSpec

-----------------------------------------------------------------------------
(* What the invariant shows.                                               *)

\* Whatever is recorded, ejected, made anew and saved, and whichever write fails:
\* a tape without changes is in its file, and the lamp tells (cassette.cpp:69).
THEOREM SavedIsInFile == TapesSpec => []UnmodifiedTapeIsSaved
<1>1. IInv => UnmodifiedTapeIsSaved
  BY DEF IInv
<1>2. QED
  BY Invariant, <1>1, PTL

\* For every length of the pause after which a tape stops, the clock of a tape that
\* moves tells the cycles since its last use (cassette.cpp:41).
THEOREM ClockTellsUse == TapesSpec => []ClockIsTrue
<1>1. IInv => ClockIsTrue
  BY DEF IInv
<1>2. QED
  BY Invariant, <1>1, PTL

-----------------------------------------------------------------------------
(* What a step may not do.                                                 *)

Keeps ==
  /\ tapeOut.modified /\ ~IsPrefix(tapeOut.sampOut, tapeOut'.sampOut)
       => asked'.file = tapeOut.sampOut \/ asked'.tape = "no"
  /\ quit' => \/ ~tapeOut'.loaded /\ (disksDirty' => asked'.disks = "no")
              \/ tapeIn'.memory = "twice"

\* A recording begins with itself, also when more is recorded.
LEMMA PrefixOfMore ==
  ASSUME NEW s \in Seq(Int), NEW n \in Int
  PROVE  IsPrefix(s, s) /\ IsPrefix(s, Append(s, n))
<1>1. Len(s) \in Nat /\ Len(Append(s, n)) = Len(s) + 1
  BY LenProperties, AppendProperties
<1>2. SubSeq(Append(s, n), 1, Len(s)) = s
  BY <1>1, AppendProperties, SubSeqFull
<1>3. SubSeq(s, 1, Len(s)) = s
  BY SubSeqFull
<1>4. QED
  BY <1>1, <1>2, <1>3 DEF IsPrefix

\* What an eject takes away it has asked about.
LEMMA EjectKeeps ==
  ASSUME IInv, NEW answer \in Answers, NEW written \in BOOLEAN,
         ~Ejected(answer, written).done => tapeOut' = tapeOut,
         asked'.file = Ejected(answer, written).asked.file,
         asked'.tape = Ejected(answer, written).asked.tape
  PROVE  tapeOut.modified /\ ~IsPrefix(tapeOut.sampOut, tapeOut'.sampOut)
           => asked'.file = tapeOut.sampOut \/ asked'.tape = "no"
<1>1. CASE Ejected(answer, written).done
  BY <1>1, EjectedStep DEF IInv
<1>2. CASE ~Ejected(answer, written).done
  <2>1. IsPrefix(tapeOut.sampOut, tapeOut'.sampOut)
    BY <1>2, PrefixOfMore, 0 \in Int DEF IInv, TypeOut, Tapes
  <2>2. QED
    BY <2>1
<1>3. QED
  BY <1>1, <1>2

LEMMA NextKeeps == IInv /\ [TapesNext]_tapeVars => Keeps \/ UNCHANGED tapeVars
<1> SUFFICES ASSUME IInv, TapesNext PROVE Keeps
  BY DEF tapeVars
<1>1. tapeOut.sampOut \in Seq(Int) /\ tapeOut.quiet \in Int
  BY DEF IInv, TypeOut, Tapes
<1>2. IsPrefix(tapeOut.sampOut, tapeOut.sampOut)
  BY <1>1, PrefixOfMore
<1>3. ASSUME NEW access \in {"none", "in", "out"}, Cycle(access) PROVE Keeps
  <2>1. tapeOut'.sampOut \in {tapeOut.sampOut, Append(tapeOut.sampOut, tapeOut.quiet)}
    <3>1. CASE access = "out"
      <4>1. tapeOut' = Moved(Output(tapeOut)) /\ tapeOut \in Tapes
        BY <1>3, <3>1 DEF Cycle, IInv, TypeOut
      <4>2. Output(tapeOut).sampOut \in {tapeOut.sampOut, Append(tapeOut.sampOut, tapeOut.quiet)}
        BY <4>1, OutputStep
      <4>3. QED
        BY <4>1, <4>2, OutputStep, MovedStep
    <3>2. CASE access # "out"
      BY <1>3, <3>2, MovedStep DEF Cycle, IInv, TypeOut
    <3>3. QED
      BY <3>1, <3>2
  <2>2. IsPrefix(tapeOut.sampOut, tapeOut'.sampOut)
    BY <1>1, <2>1, PrefixOfMore
  <2>3. QED
    BY <1>3, <2>2 DEF Keeps, Cycle
<1>4. ASSUME NEW answer \in Answers, NEW written \in BOOLEAN, EjectOut(answer, written)
      PROVE  Keeps
  <2>1. ~Ejected(answer, written).done => tapeOut' = tapeOut
    BY <1>4, EjectedStep DEF EjectOut, IInv
  <2>2. QED
    BY <1>4, <2>1, EjectKeeps DEF EjectOut, Keeps
<1>5. ASSUME NEW answer \in Answers, NEW written \in BOOLEAN, NEW made \in BOOLEAN,
             Blank(answer, written, made)
      PROVE  Keeps
  <2>1. ~Ejected(answer, written).done => tapeOut' = tapeOut
    BY <1>5, EjectedStep DEF Blank, IInv
  <2>2. QED
    BY <1>5, <2>1, EjectKeeps DEF Blank, Keeps
<1>6. ASSUME NEW answer \in Answers, NEW written \in BOOLEAN, NEW disksAnswer \in Answers,
             Quit(answer, written, disksAnswer)
      PROVE  Keeps
  <2> DEFINE e == Ejected(answer, written)
  <2>1. ~e.done => tapeOut' = tapeOut
    BY <1>6, EjectedStep DEF Quit, IInv
  <2>2. asked' = [e.asked EXCEPT !.disks = IF e.done /\ disksDirty THEN disksAnswer ELSE "none"]
    BY <1>6 DEF Quit
  <2>3. /\ asked'.file = e.asked.file /\ asked'.tape = e.asked.tape
        /\ asked'.disks = IF e.done /\ disksDirty THEN disksAnswer ELSE "none"
    BY <2>2 DEF Ejected
  <2>4. ASSUME quit' PROVE ~tapeOut'.loaded /\ (disksDirty' => asked'.disks = "no")
    <3>1. e.done /\ (disksDirty => disksAnswer # "cancel")
      BY <1>6, <2>4 DEF Quit
    <3>2. tapeOut' = EmptyOut
      BY <1>6, <3>1, EjectedStep DEF Quit, IInv
    <3>3. disksDirty' => disksDirty /\ disksAnswer # "yes"
      BY <1>6, <3>1 DEF Quit
    <3>4. QED
      BY <2>3, <3>1, <3>2, <3>3, EmptyTape DEF Answers
  <2>5. QED
    BY <2>1, <2>3, <2>4, EjectKeeps DEF Keeps
<1>7. ASSUME NEW written \in BOOLEAN, SaveOut(written) PROVE Keeps
  <2>1. tapeOut'.sampOut = tapeOut.sampOut
    BY <1>7 DEF SaveOut, IInv, TypeOut, Tapes
  <2>2. QED
    BY <1>2, <1>7, <2>1 DEF Keeps, SaveOut
<1>8. CASE tapeOut' = tapeOut /\ ~quit /\ quit' = quit
  BY <1>2, <1>8 DEF Keeps
<1>9. ASSUME NEW samp \in Recordings, LoadIn(samp) PROVE Keeps
  BY <1>8, <1>9 DEF LoadIn
<1>10. CASE RewindIn \/ ToneIn \/ WriteDisk
  BY <1>8, <1>10 DEF RewindIn, ToneIn, WriteDisk
<1>11. CASE EjectIn
  BY <1>2, <1>11 DEF EjectIn, Keeps
<1>12. QED
  BY <1>3, <1>4, <1>5, <1>6, <1>7, <1>9, <1>10, <1>11 DEF TapesNext

\* No recording is lost that the operator was not asked about, and the emulator
\* does not end with one, nor with changed disks that he did not give up
\* (emulator.cpp:452).
THEOREM RecordingsAreKept == TapesSpec => NothingLostUnasked
<1>1. IInv /\ [TapesNext]_tapeVars => [Keeps]_tapeVars
  BY NextKeeps
<1>2. TapesSpec => [][Keeps]_tapeVars
  BY Invariant, <1>1, PTL DEF TapesSpec
<1>3. QED
  BY <1>2 DEF NothingLostUnasked, Keeps

-----------------------------------------------------------------------------
(* The tape IN.                                                            *)

InTapes == [loaded : BOOLEAN, playing : BOOLEAN, quiet : Nat, t : Nat,
            samp : Recordings \cup {NoTape}, memory : {"null", "live", "freed", "twice"},
            positive : BOOLEAN, slopeWas : {-1, 0, 1}]

\* The level is up just after slopes of one direction, once a slope was heard.
LevelIs(tape, r) ==
  /\ r \in {-1, 0, 1} /\ (r = 0 <=> tape.slopeWas = 0)
  /\ tape.positive = (tape.slopeWas # 0 /\ tape.slopeWas = r)

\* The sample where the tape is.
Place(tape) == tape.t \div SampleCycles

\* The tape was sent to the next sample, where the header tone is, and the slope
\* has gone there before it.
Ahead(tape) ==
  /\ tape.t % SampleCycles = SampleCycles - 1
  /\ Place(tape) + 1 <= Len(tape.samp)
  /\ tape.samp[Place(tape) + 1] # 0 /\ tape.slopeWas = tape.samp[Place(tape) + 1]

Follows(tape, st) ==
  tape.t < (Len(tape.samp) + 1) * SampleCycles /\ ~st =>
    tape.slopeWas = LastSlope(tape.samp, Place(tape)) \/ Ahead(tape)

InInv(tape, r, st) ==
  /\ tape \in InTapes /\ st \in BOOLEAN /\ LevelIs(tape, r)
  /\ tape.playing => tape.loaded /\ tape.t < (Len(tape.samp) + 1) * SampleCycles
  /\ tape.loaded => tape.memory = "live"
  /\ tape.loaded => Follows(tape, st)

\* While the tape moves it is ahead of nothing at a sample.
TapeInv == InInv(tapeIn, rise, stale) /\ LevelFollowsTape

\* The assumption on the constants, as far as the tape IN needs it.
LEMMA SampleCyclesType ==
  SampleCycles \in Nat /\ SampleCycles > 0 /\ SampleCycles < StopAfter
  BY CassetteAssumption

LEMMA SampType ==
  ASSUME NEW samp \in Recordings \cup {NoTape}
  PROVE  samp \in Seq({-1, 0, 1}) /\ Len(samp) \in Nat
<1>1. NoTape \in Seq({-1, 0, 1})
  BY DEF NoTape
<1>2. samp \in Seq({-1, 0, 1})
  BY <1>1, CassetteAssumption
<1> QED
  BY <1>2, LenProperties

-----------------------------------------------------------------------------
(* Cycles and samples.                                                     *)

LEMMA DivMod ==
  ASSUME NEW t \in Nat
  PROVE  /\ t \div SampleCycles \in Nat /\ t % SampleCycles \in 0 .. SampleCycles - 1
         /\ t = SampleCycles * (t \div SampleCycles) + (t % SampleCycles)
  BY SampleCyclesType

LEMMA DivModUnique ==
  ASSUME NEW q \in Nat, NEW r \in 0 .. SampleCycles - 1
  PROVE  /\ (SampleCycles * q + r) \div SampleCycles = q
         /\ (SampleCycles * q + r) % SampleCycles = r
  BY SampleCyclesType

LEMMA NextCycle ==
  ASSUME NEW t \in Nat
  PROVE  IF t % SampleCycles = SampleCycles - 1
         THEN /\ (t + 1) % SampleCycles = 0
              /\ (t + 1) \div SampleCycles = (t \div SampleCycles) + 1
         ELSE /\ (t + 1) % SampleCycles = (t % SampleCycles) + 1
              /\ (t + 1) \div SampleCycles = t \div SampleCycles
<1> DEFINE q == t \div SampleCycles
           r == t % SampleCycles
<1>1. q \in Nat /\ r \in 0 .. SampleCycles - 1 /\ t = SampleCycles * q + r
  BY DivMod
<1> HIDE DEF q, r
<1>2. CASE r = SampleCycles - 1
  <2>1. t + 1 = SampleCycles * (q + 1) + 0 /\ q + 1 \in Nat /\ 0 \in 0 .. SampleCycles - 1
    BY <1>1, <1>2, SampleCyclesType
  <2> QED
    BY <1>2, <2>1, DivModUnique DEF q, r
<1>3. CASE r # SampleCycles - 1
  <2>1. t + 1 = SampleCycles * q + (r + 1) /\ r + 1 \in 0 .. SampleCycles - 1
    BY <1>1, <1>3, SampleCyclesType
  <2>2. (t + 1) \div SampleCycles = q /\ (t + 1) % SampleCycles = r + 1
    BY <1>1, <2>1, DivModUnique
  <2> QED
    BY <1>3, <2>2 DEF q, r
<1> QED
  BY <1>2, <1>3

\* The tape is before sample n just if its time is.
LEMMA PlaceBefore ==
  ASSUME NEW t \in Nat, NEW n \in Nat
  PROVE  t < n * SampleCycles <=> t \div SampleCycles < n
<1> DEFINE q == t \div SampleCycles
           r == t % SampleCycles
<1>1. q \in Nat /\ r \in 0 .. SampleCycles - 1 /\ t = SampleCycles * q + r
  BY DivMod
<1> HIDE DEF q, r
<1>2. CASE q < n
  <2>1. n = q + 1 + (n - q - 1) /\ n - q - 1 \in Nat
    BY <1>1, <1>2
  <2>2. SampleCycles * (n - q - 1) >= 0
    BY <2>1, SampleCyclesType
  <2>3. n * SampleCycles = SampleCycles * q + SampleCycles + SampleCycles * (n - q - 1)
    BY <1>1, <2>1, SampleCyclesType
  <2> QED
    BY <1>1, <1>2, <2>2, <2>3, SampleCyclesType DEF q
<1>3. CASE q >= n
  <2>1. q = n + (q - n) /\ q - n \in Nat
    BY <1>1, <1>3
  <2>2. SampleCycles * (q - n) >= 0
    BY <2>1, SampleCyclesType
  <2>3. SampleCycles * q = n * SampleCycles + SampleCycles * (q - n)
    BY <1>1, <2>1, SampleCyclesType
  <2> QED
    BY <1>1, <1>3, <2>2, <2>3, SampleCyclesType DEF q
<1> QED
  BY <1>1, <1>2, <1>3

\* The slope up to the next sample.
LEMMA NextSample ==
  ASSUME NEW samp \in Seq({-1, 0, 1}), NEW p \in Nat, p + 1 <= Len(samp)
  PROVE  LastSlope(samp, p + 1) = IF samp[p + 1] # 0 THEN samp[p + 1] ELSE LastSlope(samp, p)
<1> DEFINE steep(n) == {i \in 1 .. n : samp[i] # 0}
<1>1. 1 .. p + 1 = (1 .. p) \cup {p + 1}
  OBVIOUS
<1>2. CASE samp[p + 1] = 0
  <2> DEFINE last(S) == IF S = {} THEN 0 ELSE samp[CHOOSE i \in S : \A j \in S : j <= i]
  <2>1. steep(p + 1) = steep(p)
    BY <1>1, <1>2
  <2>2. LastSlope(samp, p + 1) = last(steep(p + 1)) /\ LastSlope(samp, p) = last(steep(p))
    BY DEF LastSlope
  <2> HIDE DEF steep, last
  <2> QED
    BY <1>2, <2>1, <2>2
<1>3. CASE samp[p + 1] # 0
  <2>1. p + 1 \in steep(p + 1) /\ \A j \in steep(p + 1) : j <= p + 1
    BY <1>3
  <2>2. \A i \in steep(p + 1) : (\A j \in steep(p + 1) : j <= i) => i = p + 1
    BY <2>1
  <2>3. (CHOOSE i \in steep(p + 1) : \A j \in steep(p + 1) : j <= i) = p + 1
    <3> HIDE DEF steep
    <3> QED
      BY <2>1, <2>2
  <2> QED
    BY <1>3, <2>1, <2>3 DEF LastSlope
<1> QED
  BY <1>2, <1>3

-----------------------------------------------------------------------------
(* The tape moves.                                                         *)

\* The program looks at the tape.
LEMMA InputStep ==
  ASSUME NEW tape, NEW r, NEW st, InInv(tape, r, st)
  PROVE  /\ InInv(Input(tape), r, st)
         /\ Input(tape).t = tape.t /\ Input(tape).samp = tape.samp
<1> DEFINE on == Input(tape)
           yes == TRUE
           quiet == 0
<1>1. CASE on = tape
  BY <1>1
<1>2. CASE on # tape
  <2>1. on = [tape EXCEPT !.playing = yes, !.quiet = quiet] /\ tape.loaded
        /\ tape.t \div SampleCycles < Len(tape.samp) + 1
    <3>1. CASE tape.playing
      <4>1. tape.t < (Len(tape.samp) + 1) * SampleCycles /\ tape.loaded /\ tape \in InTapes
        BY <3>1 DEF InInv
      <4>2. tape.t \in Nat /\ Len(tape.samp) + 1 \in Nat
        BY <4>1, SampType DEF InTapes
      <4>3. tape.t \div SampleCycles < Len(tape.samp) + 1
        BY <4>1, <4>2, PlaceBefore
      <4> QED
        BY <3>1, <4>1, <4>3 DEF Input
    <3>2. CASE ~tape.playing
      BY <1>2, <3>2 DEF Input
    <3> QED
      BY <3>1, <3>2
  <2>2. tape \in InTapes /\ tape.t \in Nat /\ Len(tape.samp) + 1 \in Nat
    BY SampType DEF InInv, InTapes
  <2>3. yes \in BOOLEAN /\ yes /\ quiet \in Nat
    OBVIOUS
  <2> HIDE DEF yes, quiet
  <2>4. /\ on \in InTapes /\ on.playing = yes
        /\ on.loaded = tape.loaded /\ on.t = tape.t /\ on.samp = tape.samp
        /\ on.memory = tape.memory
        /\ on.positive = tape.positive /\ on.slopeWas = tape.slopeWas
    BY <2>1, <2>2, <2>3 DEF InTapes
  <2> HIDE DEF on
  <2>5. on.t < (Len(on.samp) + 1) * SampleCycles
    BY <2>1, <2>2, <2>4, PlaceBefore
  <2>6. LevelIs(on, r) /\ Follows(on, st)
    BY <2>1, <2>4 DEF InInv, LevelIs, Follows, Ahead, Place
  <2> QED
    BY <2>1, <2>4, <2>5, <2>6 DEF InInv, on
<1> QED
  BY <1>1, <1>2

\* A cycle of the tape: a steep sample mends the slope, and a missed one spoils it.
LEMMA HeardStep ==
  ASSUME NEW tape, NEW r, NEW st, InInv(tape, r, st)
  PROVE  LET on == Heard(tape)
             met == SlopeMet(tape, on)
             st2 == IF met = 0 THEN st ELSE ~on.playing
         IN  /\ InInv(on, IF r = 0 /\ on.playing THEN met ELSE r, st2)
             /\ on.playing /\ on.t % SampleCycles = 0 /\ ~st2
                  => on.slopeWas = LastSlope(on.samp, Place(on))
<1> DEFINE on == Heard(tape)
           met == SlopeMet(tape, on)
           r2 == IF r = 0 /\ on.playing THEN met ELSE r
           st2 == IF met = 0 THEN st ELSE ~on.playing
           t == tape.t + 1
           quiet == tape.quiet + 1
           plays == quiet < StopAfter
           p == Place(tape)
           moved == [tape EXCEPT !.quiet = quiet, !.playing = plays, !.t = t]
<1>1. /\ tape \in InTapes /\ tape.t \in Nat /\ tape.quiet \in Nat
      /\ Len(tape.samp) \in Nat /\ tape.samp \in Seq({-1, 0, 1})
      /\ p \in Nat /\ tape.t % SampleCycles \in 0 .. SampleCycles - 1
      /\ LevelIs(tape, r) /\ st \in BOOLEAN
  BY SampType, DivMod DEF InInv, InTapes, Place
<1>2. CASE ~tape.playing
  <2>1. [tape EXCEPT !.t = tape.t] = tape
    BY <1>1 DEF InTapes
  <2>2. on = tape
    BY <1>2, <2>1 DEF Heard, HeardAt, Moved
  <2>3. met = 0
    BY <2>2 DEF SlopeMet
  <2> QED
    BY <1>2, <2>2, <2>3
<1>3. CASE tape.playing
  <2>1. tape.loaded /\ Follows(tape, st) /\ tape.memory = "live"
        /\ tape.t < (Len(tape.samp) + 1) * SampleCycles
    BY <1>3 DEF InInv
  <2>2. p < Len(tape.samp) + 1
    BY <1>1, <2>1, PlaceBefore DEF Place
  <2>3. IF tape.t % SampleCycles = SampleCycles - 1
        THEN t % SampleCycles = 0 /\ t \div SampleCycles = p + 1
        ELSE t % SampleCycles = (tape.t % SampleCycles) + 1 /\ t \div SampleCycles = p
    BY <1>1, NextCycle DEF Place
  <2>4. /\ moved \in InTapes /\ moved.loaded = tape.loaded /\ moved.samp = tape.samp
        /\ moved.memory = tape.memory /\ moved.positive = tape.positive
        /\ moved.slopeWas = tape.slopeWas /\ moved.quiet = quiet
        /\ moved.playing = plays /\ moved.t = t
    <3>1. t \in Nat /\ quiet \in Nat /\ plays \in BOOLEAN
      BY <1>1
    <3> HIDE DEF t, quiet, plays
    <3> QED
      BY <1>1, <3>1 DEF InTapes
  <2>5. t # tape.t
    BY <1>1
  <2>6. on = IF moved.t % SampleCycles # 0 \/ ~moved.playing THEN moved
             ELSE IF Len(moved.samp) + 1 <= moved.t \div SampleCycles
             THEN [moved EXCEPT !.t = (Len(moved.samp) + 1) * SampleCycles,
                                !.quiet = 0, !.playing = FALSE]
             ELSE IF moved.samp[moved.t \div SampleCycles] \in {0, moved.slopeWas} THEN moved
             ELSE [moved EXCEPT !.positive = ~moved.positive,
                                !.slopeWas = moved.samp[moved.t \div SampleCycles]]
    <3>1. [Moved(tape) EXCEPT !.t = IF tape.playing THEN @ + 1 ELSE @] = moved
      BY <1>1, <1>3 DEF Moved, InTapes
    <3>2. on = HeardAt(moved)
      BY <3>1 DEF Heard
    <3> HIDE DEF moved
    <3> QED
      BY <3>2 DEF HeardAt
  <2>7. p + 1 <= Len(tape.samp) =>
          /\ tape.samp[p + 1] \in {-1, 0, 1}
          /\ LastSlope(tape.samp, p + 1) = IF tape.samp[p + 1] # 0 THEN tape.samp[p + 1]
                                           ELSE LastSlope(tape.samp, p)
    BY <1>1, NextSample
  <2>8. met = IF on.t # tape.t /\ on.t % SampleCycles = 0
                 /\ on.t \div SampleCycles <= Len(tape.samp)
              THEN tape.samp[on.t \div SampleCycles] ELSE 0
    BY DEF SlopeMet
  <2>9. r2 = IF r = 0 /\ on.playing THEN met ELSE r
    OBVIOUS
  <2>10. st2 = IF met = 0 THEN st ELSE ~on.playing
    OBVIOUS
  <2> HIDE DEF on, moved, met, r2, st2
\* Between two samples.
  <2>11. CASE tape.t % SampleCycles # SampleCycles - 1
    <3>1. t % SampleCycles = (tape.t % SampleCycles) + 1 /\ t \div SampleCycles = p
      BY <2>3, <2>11
    <3>2. on = moved
      BY <1>1, <2>4, <2>6, <3>1
    <3>3. Place(moved) = p /\ moved.t % SampleCycles # 0
      BY <1>1, <2>4, <3>1 DEF Place
    <3>4. met = 0 /\ r2 = r /\ st2 = st
      BY <1>1, <2>8, <2>9, <2>10, <3>2, <3>3 DEF LevelIs
    <3>5. moved.t < (Len(moved.samp) + 1) * SampleCycles
      BY <1>1, <2>2, <2>4, <3>1, PlaceBefore
    <3>6. LevelIs(moved, r)
      BY <1>1, <2>4 DEF LevelIs
    <3>7. Follows(moved, st)
      BY <2>1, <2>4, <2>11, <3>3 DEF Follows, Ahead, Place
    <3> QED
      BY <1>1, <2>1, <2>4, <3>2, <3>3, <3>4, <3>5, <3>6, <3>7 DEF InInv, on, met, r2, st2
\* Stopped at a sample.
  <2>12. CASE tape.t % SampleCycles = SampleCycles - 1 /\ ~plays
    <3>1. on = moved /\ on.t = t /\ ~on.playing
      BY <2>4, <2>6, <2>12
    <3>2. Place(moved) = p + 1 /\ moved.t % SampleCycles = 0
      BY <2>3, <2>4, <2>12 DEF Place
    <3>3. r2 = r /\ LevelIs(moved, r)
      BY <1>1, <2>4, <2>9, <3>1 DEF LevelIs
    <3>4. met = IF p + 1 <= Len(tape.samp) THEN tape.samp[p + 1] ELSE 0
      BY <2>3, <2>5, <2>8, <2>12, <3>1
    <3>5. Follows(moved, st2) /\ st2 \in BOOLEAN
      <4>1. SUFFICES ASSUME moved.t < (Len(moved.samp) + 1) * SampleCycles, ~st2
                     PROVE  moved.slopeWas = LastSlope(tape.samp, p + 1)
        BY <1>1, <2>4, <2>10, <3>1, <3>2 DEF Follows
      <4>2. p + 1 < Len(tape.samp) + 1
        BY <1>1, <2>3, <2>4, <2>12, <4>1, PlaceBefore
      <4>3. tape.samp[p + 1] = 0 /\ ~st
        <5>1. met = 0
          BY <2>10, <3>1, <4>1
        <5>2. p + 1 <= Len(tape.samp)
          BY <1>1, <4>2
        <5> QED
          BY <2>10, <3>4, <4>1, <5>1, <5>2
      <4>4. tape.slopeWas = LastSlope(tape.samp, p)
        BY <2>1, <4>3 DEF Follows, Ahead, Place
      <4> QED
        BY <1>1, <2>4, <2>7, <4>2, <4>3, <4>4
    <3> QED
      BY <1>1, <2>1, <2>4, <3>1, <3>3, <3>5 DEF InInv, on, met, r2, st2
\* At the end of the tape.
  <2>13. CASE /\ tape.t % SampleCycles = SampleCycles - 1 /\ plays
              /\ Len(tape.samp) + 1 <= p + 1
    <3> DEFINE end == (Len(moved.samp) + 1) * SampleCycles
               no == FALSE
               zero == 0
    <3>1. on = [moved EXCEPT !.t = end, !.quiet = zero, !.playing = no]
      BY <2>3, <2>4, <2>6, <2>13
    <3>2. end \in Nat /\ no \in BOOLEAN /\ ~no /\ zero \in Nat
      BY <1>1, <2>4, SampleCyclesType
    <3>3. end \div SampleCycles = Len(tape.samp) + 1 /\ end = (Len(tape.samp) + 1) * SampleCycles
      <4>1. end = SampleCycles * (Len(tape.samp) + 1) + 0
        BY <1>1, <2>4, SampleCyclesType
      <4>2. Len(tape.samp) + 1 \in Nat /\ 0 \in 0 .. SampleCycles - 1
        BY <1>1, SampleCyclesType
      <4> QED
        BY <2>4, <4>1, <4>2, DivModUnique
    <3> HIDE DEF end, no, zero
    <3>4. /\ on \in InTapes /\ on.playing = no /\ on.t = end
          /\ on.samp = moved.samp /\ on.memory = moved.memory /\ on.loaded = moved.loaded
          /\ on.positive = moved.positive /\ on.slopeWas = moved.slopeWas
      BY <2>4, <3>1, <3>2 DEF InTapes
    <3>5. met = 0 /\ r2 = r /\ st2 = st
      BY <1>1, <2>8, <2>9, <2>10, <3>2, <3>3, <3>4
    <3>6. LevelIs(on, r)
      BY <1>1, <2>4, <3>4 DEF LevelIs
    <3>7. Follows(on, st)
      BY <1>1, <2>4, <3>2, <3>3, <3>4 DEF Follows
    <3> QED
      BY <1>1, <2>1, <2>4, <3>2, <3>4, <3>5, <3>6, <3>7 DEF InInv, on, met, r2, st2
\* At a sample.
  <2>14. CASE /\ tape.t % SampleCycles = SampleCycles - 1 /\ plays
              /\ p + 1 <= Len(tape.samp)
    <3> DEFINE s == tape.samp[p + 1]
               turned == ~tape.positive
    <3>1. t % SampleCycles = 0 /\ t \div SampleCycles = p + 1
      BY <2>3, <2>14
    <3>2. on = IF s \in {0, tape.slopeWas} THEN moved
               ELSE [moved EXCEPT !.positive = turned, !.slopeWas = s]
      <4>1. moved.t % SampleCycles = 0 /\ moved.playing /\ moved.t \div SampleCycles = p + 1
        BY <2>4, <2>14, <3>1
      <4>2. ~ (Len(moved.samp) + 1 <= p + 1)
        BY <1>1, <2>4, <2>14
      <4>3. on = IF moved.samp[p + 1] \in {0, moved.slopeWas} THEN moved
                 ELSE [moved EXCEPT !.positive = ~moved.positive, !.slopeWas = moved.samp[p + 1]]
        BY <2>6, <4>1, <4>2
      <4> QED
        BY <2>4, <4>3
    <3>3. s \in {-1, 0, 1} /\ turned \in BOOLEAN /\ turned = ~tape.positive
          /\ LastSlope(tape.samp, p + 1) = IF s # 0 THEN s ELSE LastSlope(tape.samp, p)
      BY <1>1, <2>7, <2>14
    <3>4. Ahead(tape) => tape.slopeWas = s /\ s # 0
      BY DEF Ahead
    <3>5. s = tape.samp[p + 1]
      OBVIOUS
    <3> HIDE DEF s, turned
    <3>6. /\ on \in InTapes /\ on.playing = plays /\ on.t = t
          /\ on.samp = tape.samp /\ on.memory = tape.memory /\ on.loaded = tape.loaded
          /\ IF s \in {0, tape.slopeWas}
             THEN on.positive = tape.positive /\ on.slopeWas = tape.slopeWas
             ELSE on.positive = turned /\ on.slopeWas = s
      BY <2>4, <3>2, <3>3 DEF InTapes
    <3>7. Place(on) = p + 1 /\ on.t % SampleCycles = 0
      BY <3>1, <3>6 DEF Place
    <3>8. on.t < (Len(on.samp) + 1) * SampleCycles
      BY <1>1, <2>14, <3>1, <3>6, PlaceBefore
    <3>9. met = s /\ r2 = (IF r = 0 THEN s ELSE r) /\ st2 = (s = 0 /\ st)
      BY <1>1, <2>5, <2>8, <2>9, <2>10, <2>14, <3>1, <3>5, <3>6
    <3>10. LevelIs(on, r2)
      <4>1. r \in {-1, 0, 1} /\ tape.slopeWas \in {-1, 0, 1} /\ tape.positive \in BOOLEAN
        BY <1>1 DEF LevelIs, InTapes
      <4> QED
        BY <1>1, <3>3, <3>6, <3>9, <4>1 DEF LevelIs
    <3>11. ~st2 => on.slopeWas = LastSlope(tape.samp, p + 1)
      <4>1. CASE s # 0
        BY <3>3, <3>6, <4>1
      <4>2. CASE s = 0 /\ ~st
        <5>1. tape.slopeWas = LastSlope(tape.samp, p)
          BY <2>1, <3>4, <4>2 DEF Follows, Place
        <5> QED
          BY <3>3, <3>6, <4>2, <5>1
      <4> QED
        BY <3>9, <4>1, <4>2
    <3>12. Follows(on, st2) /\ st2 \in BOOLEAN
      BY <1>1, <3>6, <3>7, <3>9, <3>11 DEF Follows
    <3> QED
      BY <2>1, <2>14, <3>6, <3>7, <3>8, <3>10, <3>11, <3>12 DEF InInv, on, met, r2, st2
  <2> QED
    BY <1>1, <2>2, <2>11, <2>12, <2>13, <2>14
<1> QED
  BY <1>2, <1>3

-----------------------------------------------------------------------------
(* The search for the header tone.                                         *)

\* Induction on numbers, over a set rather than a formula.
LEMMA Induction ==
  ASSUME NEW S \in SUBSET Nat, 0 \in S, \A n \in S : n + 1 \in S
  PROVE  S = Nat
<1>1. SUFFICES ASSUME Nat \ S # {} PROVE FALSE
  OBVIOUS
<1>2. IsWellFoundedOn(OpToRel(<, Nat), Nat)
  BY NatLessThanWellFounded
<1>3. PICK x \in Nat \ S : \A y \in Nat \ S : ~ (<<y, x>> \in OpToRel(<, Nat))
  <2>1. Nat \ S \subseteq Nat
    OBVIOUS
  <2> QED
    BY <1>1, <1>2, <2>1, WFMin
<1>4. \A y \in Nat \ S : ~ (y < x)
  BY <1>3 DEF OpToRel
<1>5. x - 1 \in Nat /\ x - 1 \in S
  BY <1>4
<1> QED
  BY <1>5

\* The states of the loop of tone, from sample start to m.
SearchBegins(tape) ==
  [found |-> 0, head |-> 0, last |-> 0, slope |-> 0,
   positive |-> tape.positive, slopeWas |-> tape.slopeWas]

SearchLoop(tape, start, m, g) ==
  g = [i \in start .. m |-> IF i = start THEN SearchBegins(tape)
                            ELSE Searched(tape.samp, g[i - 1], i - 1)]

LEMMA SearchLoopExists ==
  ASSUME NEW tape, NEW start \in Nat, NEW k \in Nat
  PROVE  \E g : SearchLoop(tape, start, start + k, g)
<1> DEFINE S == {n \in Nat : \E g : SearchLoop(tape, start, start + n, g)}
<1>1. 0 \in S
  <2> DEFINE g == [i \in start .. start |-> SearchBegins(tape)]
  <2>1. g = [i \in start .. start |-> IF i = start THEN SearchBegins(tape)
                                      ELSE Searched(tape.samp, g[i - 1], i - 1)]
    OBVIOUS
  <2>2. SearchLoop(tape, start, start, g) /\ start + 0 = start
    BY <2>1 DEF SearchLoop
  <2> QED
    BY <2>2
<1>2. ASSUME NEW n \in S PROVE n + 1 \in S
  <2> DEFINE m == start + n
  <2>1. PICK g : SearchLoop(tape, start, m, g)
    OBVIOUS
  <2> DEFINE h == [i \in start .. m + 1 |-> IF i = m + 1 THEN Searched(tape.samp, g[m], m)
                                            ELSE g[i]]
             b(i) == IF i = start THEN SearchBegins(tape)
                     ELSE Searched(tape.samp, h[i - 1], i - 1)
  <2>2. ASSUME NEW i \in start .. m + 1 PROVE h[i] = b(i)
    <3>1. CASE i = m + 1
      <4>1. h[i] = Searched(tape.samp, g[m], m) /\ i # start /\ i - 1 = m /\ h[m] = g[m]
        BY <3>1
      <4> HIDE DEF h
      <4> QED
        BY <4>1
    <3>2. CASE i # m + 1
      <4>1. i \in start .. m /\ h[i] = g[i]
        BY <3>2
      <4>2. i # start => h[i - 1] = g[i - 1]
        BY <4>1
      <4>3. g[i] = IF i = start THEN SearchBegins(tape)
                   ELSE Searched(tape.samp, g[i - 1], i - 1)
        BY <2>1, <4>1 DEF SearchLoop
      <4> HIDE DEF h
      <4> QED
        BY <4>1, <4>2, <4>3
    <3> QED
      BY <3>1, <3>2
  <2>3. h = [i \in start .. m + 1 |-> b(i)]
    <3>1. h = [i \in start .. m + 1 |-> h[i]]
      OBVIOUS
    <3> HIDE DEF h, b
    <3> QED
      BY <2>2, <3>1
  <2>4. SearchLoop(tape, start, m + 1, h)
    <3> HIDE DEF h
    <3> QED
      BY <2>3 DEF SearchLoop
  <2>5. start + (n + 1) = m + 1
    OBVIOUS
  <2> QED
    BY <2>4, <2>5
<1>3. S = Nat
  <2>1. S \in SUBSET Nat
    OBVIOUS
  <2> HIDE DEF S
  <2> QED
    BY <1>1, <1>2, <2>1, Induction
<1> QED
  BY <1>3

\* What the search may know before sample i: nothing, or the slope last heard, with
\* the level that goes with it; where it has found the tone, it has just heard a half
\* wave begin.
Sane(tape, r, was, i) ==
  /\ was.found \in 0 .. Len(tape.samp) /\ was.positive \in BOOLEAN
  /\ was.slopeWas \in {-1, 0, 1}
  /\ was.found > 0 => /\ was.slopeWas = tape.samp[was.found]
                      /\ tape.samp[was.found] # 0
  /\ IF \E j \in Start(tape) .. i - 1 : tape.samp[j] # 0
     THEN /\ was.slopeWas # 0
          /\ was.positive = (was.slopeWas = RiseAfter(tape, r))
     ELSE /\ was.found = 0
          /\ was.positive = tape.positive /\ was.slopeWas = tape.slopeWas

\* The loop's own slope is that which it has heard.
Heeds(tape, was, i) ==
  IF \E j \in Start(tape) .. i - 1 : tape.samp[j] # 0
  THEN was.slope = was.slopeWas ELSE was.slope = 0

\* The rise after a search is a steep slope, that of the first steep sample or its
\* opposite.
LEMMA FirstSteep ==
  ASSUME NEW tape \in InTapes, NEW r, NEW i \in Nat, i \in Start(tape) .. Len(tape.samp),
         tape.samp[i] # 0, \A j \in Start(tape) .. i - 1 : tape.samp[j] = 0
  PROVE  RiseAfter(tape, r) = IF tape.positive THEN -tape.samp[i] ELSE tape.samp[i]
<1> DEFINE S == SteepOnFrom(tape)
<1>1. Start(tape) \in Nat /\ Len(tape.samp) \in Nat
  <2>1. tape.t \in Nat
    BY DEF InTapes
  <2> QED
    BY <2>1, DivMod, SampType DEF InTapes, Start
<1>2. i \in S /\ \A j \in S : j \in Nat /\ i <= j
  BY <1>1 DEF SteepOnFrom
<1>3. \A x \in S : (\A y \in S : x =< y) => x = i
  BY <1>2
<1>4. Min(S) = i
  <2> HIDE DEF S
  <2> QED
    BY <1>2, <1>3 DEF Min
<1> QED
  BY <1>2, <1>4 DEF RiseAfter

\* There is a first steep sample where there is one.
LEMMA RiseIsSteep ==
  ASSUME NEW tape \in InTapes, NEW r, SteepOnFrom(tape) # {}
  PROVE  RiseAfter(tape, r) \in {-1, 1}
<1> DEFINE T == SteepOnFrom(tape)
<1>1. Start(tape) \in Nat /\ Len(tape.samp) \in Nat /\ tape.samp \in Seq({-1, 0, 1})
  <2>1. tape.t \in Nat
    BY DEF InTapes
  <2> QED
    BY <2>1, DivMod, SampType DEF InTapes, Start
<1>2. T # {} /\ T \subseteq Nat /\ T = {j \in Start(tape) .. Len(tape.samp) : tape.samp[j] # 0}
  BY <1>1 DEF SteepOnFrom
<1> HIDE DEF T
<1>3. PICK m \in T : \A j \in T : m <= j
  <2>1. PICK m \in T : \A j \in T : <<j, m>> \notin OpToRel(<, Nat)
    BY <1>2, NatLessThanWellFounded, WFMin
  <2>2. \A j \in T : ~ (j < m)
    BY <1>2, <2>1 DEF OpToRel
  <2> QED
    BY <1>2, <2>2
<1>4. /\ m \in Nat /\ m \in Start(tape) .. Len(tape.samp) /\ tape.samp[m] # 0
      /\ \A j \in Start(tape) .. m - 1 : tape.samp[j] = 0
  <2>1. ASSUME NEW j \in Start(tape) .. m - 1 PROVE tape.samp[j] = 0
    BY <1>1, <1>2, <1>3
  <2> QED
    BY <1>2, <2>1
<1>5. m >= 1 /\ tape.samp[m] \in {-1, 1}
  <2>1. Start(tape) >= 1
    <3>1. tape.t \in Nat
      BY DEF InTapes
    <3> QED
      BY <3>1, DivMod DEF Start
  <2> QED
    BY <1>1, <1>4, <2>1
<1>6. RiseAfter(tape, r) = IF tape.positive THEN -tape.samp[m] ELSE tape.samp[m]
  BY <1>4, FirstSteep
<1> QED
  BY <1>5, <1>6

\* One sample of the search.
LEMMA SearchedStep ==
  ASSUME NEW tape \in InTapes, NEW r, NEW was, NEW n \in Nat,
         n \in Start(tape) .. Len(tape.samp), n >= 1,
         Sane(tape, r, was, n), Heeds(tape, was, n)
  PROVE  /\ Sane(tape, r, Searched(tape.samp, was, n), n + 1)
         /\ Heeds(tape, Searched(tape.samp, was, n), n + 1)
<1> DEFINE is == Searched(tape.samp, was, n)
           s == tape.samp[n]
           rises == RiseAfter(tape, r)
           before == \E j \in Start(tape) .. n - 1 : tape.samp[j] # 0
           now == \E j \in Start(tape) .. n + 1 - 1 : tape.samp[j] # 0
<1>1. /\ Len(tape.samp) \in Nat /\ s \in {-1, 0, 1} /\ tape.positive \in BOOLEAN
      /\ Start(tape) \in Nat
  <2>1. tape.samp \in Seq({-1, 0, 1}) /\ Len(tape.samp) \in Nat /\ tape.t \in Nat
        /\ tape.positive \in BOOLEAN
    BY SampType DEF InTapes
  <2>2. Start(tape) \in Nat
    BY <2>1, DivMod DEF Start
  <2>3. n \in 1 .. Len(tape.samp)
    BY <2>1, <2>2
  <2> QED
    BY <2>1, <2>2, <2>3
<1>2. now <=> before \/ s # 0
  <2>1. Start(tape) .. n + 1 - 1 = (Start(tape) .. n - 1) \cup {n}
    BY <1>1
  <2> QED
    BY <2>1
<1>3. before => was.slope = was.slopeWas /\ was.slopeWas # 0 /\ was.positive = (was.slopeWas = rises)
  BY DEF Sane, Heeds
<1>4. ~before => was.slope = 0 /\ was.found = 0 /\ was.positive = tape.positive
                 /\ was.slopeWas = tape.slopeWas
  BY DEF Sane, Heeds
<1>5. /\ was.found \in 0 .. Len(tape.samp) /\ was.positive \in BOOLEAN
      /\ was.slopeWas \in {-1, 0, 1}
      /\ was.found > 0 => /\ was.slopeWas = tape.samp[was.found]
                          /\ tape.samp[was.found] # 0
  BY DEF Sane
<1>6. CASE was.found > 0 \/ s \in {0, was.slope}
  <2>1. is = was
    BY <1>6 DEF Searched
  <2>2. before <=> now
    <3> HIDE DEF before, now, s
    <3> QED
      BY <1>1, <1>2, <1>4, <1>5, <1>6
  <2>3. (\E j \in Start(tape) .. n - 1 : tape.samp[j] # 0)
          <=> \E j \in Start(tape) .. n + 1 - 1 : tape.samp[j] # 0
    BY <2>2
  <2> QED
    BY <2>1, <2>3 DEF Sane, Heeds
<1>7. CASE ~ (was.found > 0 \/ s \in {0, was.slope})
  <2>1. /\ is.found \in {0, n} /\ is.positive = ~was.positive /\ is.slopeWas = s
        /\ is.slope = s
    BY <1>7 DEF Searched
  <2>2. s \in {-1, 1}
    BY <1>1, <1>7
  <2> HIDE DEF is
  <2>3. is.positive = (s = rises)
    <3>1. CASE before
      <4>1. SteepOnFrom(tape) # {}
        BY <2>2 DEF SteepOnFrom
      <4>2. rises \in {-1, 1}
        BY <4>1, RiseIsSteep
      <4> HIDE DEF rises, s, before
      <4>3. s = -was.slopeWas /\ was.slopeWas \in {-1, 1}
        BY <1>3, <1>5, <1>7, <2>2, <3>1
      <4>4. (was.slopeWas = rises) = ~ (s = rises)
        BY <2>2, <4>2, <4>3
      <4> QED
        BY <1>3, <1>5, <2>1, <3>1, <4>4, Zenon
    <3>2. CASE ~before
      <4>1. rises = IF tape.positive THEN -s ELSE s
        BY <2>2, <3>2, FirstSteep
      <4> HIDE DEF rises, s, before
      <4>2. (s = rises) = ~tape.positive
        <5>1. CASE tape.positive
          <6>1. s # rises
            BY <2>2, <4>1, <5>1
          <6> QED
            BY <1>1, <5>1, <6>1, Zenon
        <5>2. CASE ~tape.positive
          <6>1. s = rises
            BY <4>1, <5>2
          <6> QED
            BY <1>1, <5>2, <6>1, Zenon
        <5> QED
          BY <5>1, <5>2
      <4> QED
        BY <1>4, <2>1, <3>2, <4>2, Zenon
    <3> QED
      BY <3>1, <3>2
  <2>4. is.found \in 0 .. Len(tape.samp) /\ is.slopeWas \in {-1, 0, 1} /\ is.slopeWas # 0
    BY <1>1, <2>1, <2>2
  <2>5. is.found > 0 => is.slopeWas = tape.samp[is.found] /\ tape.samp[is.found] # 0
    BY <2>1, <2>2
  <2>6. is.positive \in BOOLEAN /\ is.positive = (is.slopeWas = RiseAfter(tape, r))
    BY <2>1, <2>3
  <2>7. \E j \in Start(tape) .. n + 1 - 1 : tape.samp[j] # 0
    BY <1>2, <2>2
  <2>8. Heeds(tape, is, n + 1)
    BY <2>1, <2>7 DEF Heeds
  <2>9. Sane(tape, r, is, n + 1)
    BY <2>4, <2>5, <2>6, <2>7 DEF Sane
  <2> QED
    BY <2>8, <2>9 DEF is
<1> QED
  BY <1>6, <1>7

LEMMA SearchFinds ==
  ASSUME NEW tape \in InTapes, NEW r
  PROVE  Sane(tape, r, Search(tape), Len(tape.samp) + 1)
<1> DEFINE start == Start(tape)
           samp == tape.samp
<1>1. /\ samp \in Seq({-1, 0, 1}) /\ Len(samp) \in Nat
      /\ tape.positive \in BOOLEAN /\ tape.slopeWas \in {-1, 0, 1}
      /\ start \in Nat /\ start >= 1
  <2>1. tape.t \in Nat /\ tape.samp \in Recordings \cup {NoTape}
        /\ tape.positive \in BOOLEAN /\ tape.slopeWas \in {-1, 0, 1}
    BY DEF InTapes
  <2>2. tape.t \div SampleCycles \in Nat
    BY <2>1, DivMod
  <2> QED
    BY <2>1, <2>2, SampType DEF Start
<1>2. CASE start > Len(samp)
  <2>1. Search(tape) = [found |-> 0, positive |-> tape.positive, slopeWas |-> tape.slopeWas]
    BY <1>2 DEF Search
  <2>2. start .. Len(samp) + 1 - 1 = {}
    BY <1>1, <1>2
  <2> QED
    BY <1>1, <2>1, <2>2 DEF Sane
<1>3. CASE start <= Len(samp)
  <2> DEFINE k == Len(samp) + 1 - start
             g == CHOOSE f : SearchLoop(tape, start, start + k, f)
             sane(i) == Sane(tape, r, g[i], i) /\ Heeds(tape, g[i], i)
  <2>1. k \in Nat /\ start + k = Len(samp) + 1
    BY <1>1, <1>3
  <2>2. Search(tape) = SearchFrom(tape, start)
    BY <1>1, <1>3 DEF Search
  <2>3. SearchFrom(tape, start) = g[Len(samp) + 1]
    BY <2>1 DEF SearchFrom, SearchLoop, SearchBegins
  <2>4. SearchLoop(tape, start, start + k, g)
    BY <1>1, <2>1, SearchLoopExists
  <2> HIDE DEF g
  <2> DEFINE S == {n \in Nat : n <= k => sane(start + n)}
  <2>5. \A i \in start .. start + k :
          g[i] = IF i = start THEN SearchBegins(tape) ELSE Searched(samp, g[i - 1], i - 1)
    BY <2>4 DEF SearchLoop
  <2>6. 0 \in S
    <3>1. start \in start .. start + k /\ start + 0 = start /\ start .. start - 1 = {}
      BY <1>1, <2>1
    <3>2. g[start] = SearchBegins(tape)
      BY <2>5, <3>1
    <3>3. sane(start)
      BY <1>1, <3>1, <3>2 DEF Sane, Heeds, SearchBegins
    <3> QED
      BY <3>1, <3>3
  <2>7. ASSUME NEW n \in S PROVE n + 1 \in S
    <3>1. SUFFICES ASSUME n + 1 <= k PROVE sane(start + (n + 1))
      OBVIOUS
    <3> DEFINE i == start + n
               was == g[i]
               is == Searched(samp, was, i)
    <3>2. Sane(tape, r, was, i) /\ Heeds(tape, was, i)
      BY <2>1, <3>1
    <3>3. /\ i \in Nat /\ i >= 1 /\ i \in start .. Len(samp)
          /\ start + (n + 1) = i + 1 /\ i + 1 # start /\ i + 1 - 1 = i
          /\ i + 1 \in start .. start + k
      <4>1. /\ start \in Nat /\ start >= 1 /\ n \in Nat /\ n + 1 <= k /\ k \in Nat
            /\ start + k = Len(samp) + 1 /\ Len(samp) \in Nat
        BY <1>1, <2>1, <3>1
      <4> HIDE DEF start, samp, k, S
      <4> QED
        BY <4>1
    <3>4. g[i + 1] = Searched(samp, g[i + 1 - 1], i + 1 - 1)
      BY <2>5, <3>3
    <3>5. g[start + (n + 1)] = is /\ g[i + 1] = is
      BY <3>3, <3>4
    <3>6. Sane(tape, r, is, i + 1) /\ Heeds(tape, is, i + 1)
      <4> HIDE DEF i, was
      <4> QED
        BY <3>2, <3>3, SearchedStep
    <3> QED
      BY <3>3, <3>5, <3>6
  <2>8. S = Nat
    <3>1. S \in SUBSET Nat
      OBVIOUS
    <3> HIDE DEF S
    <3> QED
      BY <2>6, <2>7, <3>1, Induction
  <2>9. sane(start + k)
    <3>1. k \in S
      BY <2>1, <2>8
    <3> QED
      BY <2>1, <3>1
  <2> QED
    BY <2>1, <2>2, <2>3, <2>9
<1> QED
  BY <1>1, <1>2, <1>3

\* The search leaves the tape ahead of itself, or in vain.
LEMMA SoughtStep ==
  ASSUME NEW tape, NEW r, NEW st, InInv(tape, r, st), tape.loaded
  PROVE  /\ InInv(Sought(tape), RiseAfter(tape, r), StaleAfter(tape, st))
         /\ ~Sought(tape).playing
<1> DEFINE s == Search(tape)
           on == Sought(tape)
           r2 == RiseAfter(tape, r)
           st2 == StaleAfter(tape, st)
           steep == SteepOnFrom(tape) # {}
           no == FALSE
           zero == 0
           there == [tape EXCEPT !.playing = no, !.positive = s.positive,
                                 !.slopeWas = s.slopeWas]
           time == s.found * SampleCycles - 1
<1>1. tape \in InTapes /\ LevelIs(tape, r) /\ Follows(tape, st) /\ tape.memory = "live"
      /\ st \in BOOLEAN
  BY DEF InInv
<1>2. Len(tape.samp) \in Nat
  BY <1>1, SampType DEF InTapes
<1>3. /\ s.found \in 0 .. Len(tape.samp) /\ s.positive \in BOOLEAN
      /\ s.slopeWas \in {-1, 0, 1}
      /\ s.found > 0 => s.slopeWas = tape.samp[s.found] /\ tape.samp[s.found] # 0
      /\ IF steep THEN s.slopeWas # 0 /\ s.positive = (s.slopeWas = r2)
         ELSE s.found = 0 /\ s.positive = tape.positive /\ s.slopeWas = tape.slopeWas
  <2>1. Sane(tape, r, s, Len(tape.samp) + 1)
    BY <1>1, SearchFinds
  <2>2. steep <=> \E j \in Start(tape) .. Len(tape.samp) + 1 - 1 : tape.samp[j] # 0
    BY <1>2 DEF SteepOnFrom
  <2> HIDE DEF s, r2, steep
  <2> QED
    BY <2>1, <2>2 DEF Sane, r2
<1>4. st2 = (s.found = 0 /\ (st \/ steep))
  BY DEF StaleAfter
<1>5. IF steep THEN r2 \in {-1, 1} ELSE r2 = r
  BY <1>1, RiseIsSteep DEF RiseAfter
<1>6. on = IF s.found > 0 THEN [there EXCEPT !.t = time, !.quiet = zero] ELSE there
  BY DEF Sought
<1>7. s.found > 0 => /\ time \in Nat
                     /\ time = SampleCycles * (s.found - 1) + (SampleCycles - 1)
                     /\ s.found - 1 \in Nat
  BY <1>2, <1>3, SampleCyclesType
<1>8. no \in BOOLEAN /\ ~no /\ zero \in Nat
  OBVIOUS
<1> HIDE DEF s, on, r2, st2, steep, no, zero, time
<1>9. /\ there \in InTapes /\ there.playing = no /\ there.loaded = tape.loaded
      /\ there.memory = tape.memory /\ there.samp = tape.samp /\ there.t = tape.t
      /\ there.positive = s.positive /\ there.slopeWas = s.slopeWas
  BY <1>1, <1>3, <1>8 DEF InTapes
<1> HIDE DEF there
<1>10. /\ on \in InTapes /\ on.playing = no /\ on.loaded = tape.loaded
       /\ on.memory = tape.memory /\ on.samp = tape.samp
       /\ on.positive = s.positive /\ on.slopeWas = s.slopeWas
       /\ on.t = IF s.found > 0 THEN time ELSE tape.t
  BY <1>6, <1>7, <1>8, <1>9 DEF InTapes
<1>11. LevelIs(on, r2)
  <2>1. CASE steep
    <3>1. on.slopeWas # 0 /\ r2 # 0 /\ r2 \in {-1, 0, 1}
      BY <1>3, <1>5, <1>10, <2>1
    <3>2. on.positive = (on.slopeWas = r2)
      BY <1>3, <1>10, <2>1, Zenon
    <3> QED
      BY <3>1, <3>2 DEF LevelIs
  <2>2. CASE ~steep
    BY <1>1, <1>3, <1>5, <1>10, <2>2 DEF LevelIs
  <2> QED
    BY <2>1, <2>2
<1>12. Follows(on, st2)
  <2>1. CASE s.found > 0
    <3>1. s.found \in 1 .. Len(tape.samp)
      BY <1>2, <1>3, <2>1
    <3>2. Place(on) = s.found - 1 /\ on.t % SampleCycles = SampleCycles - 1
      <4>1. SampleCycles - 1 \in 0 .. SampleCycles - 1
        BY SampleCyclesType
      <4>2. /\ time \div SampleCycles = s.found - 1
            /\ time % SampleCycles = SampleCycles - 1
        BY <1>7, <2>1, <4>1, DivModUnique
      <4> QED
        BY <1>10, <2>1, <4>2 DEF Place
    <3>3. Place(on) + 1 = s.found
      BY <1>7, <2>1, <3>1, <3>2
    <3>4. Ahead(on)
      BY <1>3, <1>10, <2>1, <3>1, <3>2, <3>3 DEF Ahead
    <3> QED
      BY <3>4 DEF Follows
  <2>2. CASE ~ (s.found > 0)
    <3>1. s.found = 0 /\ on.t = tape.t /\ Place(on) = Place(tape)
      BY <1>2, <1>3, <1>10, <2>2 DEF Place
    <3>2. ~st2 => ~st /\ ~steep
      BY <1>4, <3>1
    <3>3. ~steep => on.slopeWas = tape.slopeWas
      BY <1>3, <1>10
    <3> QED
      BY <1>1, <1>10, <3>1, <3>2, <3>3 DEF Follows, Ahead
  <2> QED
    BY <2>1, <2>2
<1>13. st2 \in BOOLEAN
  BY <1>1, <1>4
<1> QED
  BY <1>1, <1>8, <1>10, <1>11, <1>12, <1>13 DEF InInv, on, r2, st2

\* At its beginning a tape has no slope and a low level.
LEMMA RewoundStep ==
  ASSUME NEW tape \in InTapes
  PROVE  /\ Rewound(tape) \in InTapes /\ ~Rewound(tape).playing
         /\ Rewound(tape).loaded = tape.loaded /\ Rewound(tape).memory = tape.memory
         /\ LevelIs(Rewound(tape), 0) /\ Follows(Rewound(tape), FALSE)
<1> DEFINE on == Rewound(tape)
           no == FALSE
           zero == 0
<1>1. on = [tape EXCEPT !.t = zero, !.quiet = zero, !.slopeWas = zero, !.positive = no,
                        !.playing = no]
  BY DEF Rewound
<1>2. no \in BOOLEAN /\ ~no /\ zero \in Nat /\ zero \in {-1, 0, 1} /\ zero = 0
  OBVIOUS
<1> HIDE DEF on, no, zero
<1>3. /\ on \in InTapes /\ on.playing = no /\ on.loaded = tape.loaded
      /\ on.memory = tape.memory /\ on.t = zero /\ on.slopeWas = zero /\ on.positive = no
  BY <1>1, <1>2 DEF InTapes
<1>4. Place(on) = 0
  <2>1. 0 = SampleCycles * 0 + 0 /\ 0 \in 0 .. SampleCycles - 1
    BY SampleCyclesType
  <2>2. 0 \div SampleCycles = 0
    BY <2>1, DivModUnique
  <2> QED
    BY <1>2, <1>3, <2>2 DEF Place
<1>5. LastSlope(on.samp, 0) = 0
  BY DEF LastSlope
<1>6. LevelIs(on, 0)
  BY <1>2, <1>3 DEF LevelIs
<1> QED
  BY <1>2, <1>3, <1>4, <1>5, <1>6 DEF Follows, on

LEMMA EjectedInStep ==
  ASSUME NEW tape \in InTapes
  PROVE  /\ EjectedIn(tape) \in InTapes /\ ~EjectedIn(tape).playing /\ ~EjectedIn(tape).loaded
         /\ \A r : LevelIs(tape, r) => LevelIs(EjectedIn(tape), r)
<1> DEFINE on == EjectedIn(tape)
           no == FALSE
           t == IF tape.loaded THEN 0 ELSE tape.t
           quiet == IF tape.loaded THEN 0 ELSE tape.quiet
           memory == IF tape.memory = "null" THEN "null"
                     ELSE IF tape.memory = "live" THEN "freed" ELSE "twice"
<1>1. on = [tape EXCEPT !.loaded = no, !.playing = no, !.samp = NoTape, !.t = t,
                        !.quiet = quiet, !.memory = memory]
  BY DEF EjectedIn, InTapes
<1>2. no \in BOOLEAN /\ ~no /\ t \in Nat /\ quiet \in Nat
      /\ memory \in {"null", "live", "freed", "twice"}
  BY DEF InTapes
<1> HIDE DEF on, no, t, quiet, memory
<1>3. /\ on \in InTapes /\ on.playing = no /\ on.loaded = no
      /\ on.positive = tape.positive /\ on.slopeWas = tape.slopeWas
  BY <1>1, <1>2 DEF InTapes
<1>4. \A r : LevelIs(tape, r) => LevelIs(on, r)
  BY <1>3 DEF LevelIs
<1> QED
  BY <1>2, <1>3, <1>4 DEF on

LEMMA InsertedStep ==
  ASSUME tapeIn \in InTapes, NEW samp \in Recordings
  PROVE  InInv(Inserted(samp), 0, FALSE) /\ Inserted(samp).loaded
<1> DEFINE out == IF tapeIn.loaded THEN EjectedIn(tapeIn) ELSE tapeIn
           in == [out EXCEPT !.samp = samp, !.memory = "live", !.loaded = TRUE]
<1>1. out \in InTapes
  BY EjectedInStep
<1> HIDE DEF out
<1>2. in \in InTapes /\ in.loaded /\ in.memory = "live"
  BY <1>1 DEF InTapes
<1>3. Inserted(samp) = Rewound(in)
  BY DEF Inserted, out
<1> HIDE DEF in
<1> QED
  BY <1>2, <1>3, RewoundStep DEF InInv

-----------------------------------------------------------------------------
(* The invariant of the tape IN.                                           *)

LEMMA InitTapeInv == TapesInit => TapeInv
<1> SUFFICES ASSUME TapesInit PROVE TapeInv
  OBVIOUS
<1>1. tapeIn = EmptyIn /\ rise = 0 /\ stale = FALSE
  BY DEF TapesInit
<1>2. EmptyIn \in InTapes /\ ~EmptyIn.loaded /\ ~EmptyIn.playing
      /\ ~EmptyIn.positive /\ EmptyIn.slopeWas = 0 /\ EmptyIn.positive = FALSE
  BY DEF EmptyIn, InTapes
<1>3. LevelIs(tapeIn, rise)
  BY <1>1, <1>2 DEF LevelIs
<1> QED
  BY <1>1, <1>2, <1>3 DEF TapeInv, InInv, LevelIs, LevelFollowsTape

LEMMA NextTapeInv == TapeInv /\ [TapesNext]_tapeVars => TapeInv'
<1> SUFFICES ASSUME TapeInv, [TapesNext]_tapeVars PROVE TapeInv'
  OBVIOUS
<1>0. InInv(tapeIn, rise, stale) /\ tapeIn \in InTapes
  BY DEF TapeInv, InInv
<1>1. ASSUME InInv(tapeIn', rise', stale'),
             tapeIn'.playing /\ tapeIn'.t % SampleCycles = 0 /\ ~stale'
               => tapeIn'.slopeWas = LastSlope(tapeIn'.samp, Place(tapeIn'))
      PROVE  TapeInv'
  BY <1>1 DEF TapeInv, InInv, LevelIs, LevelFollowsTape, Place
<1>2. ASSUME NEW access \in {"none", "in", "out"}, Cycle(access) PROVE TapeInv'
  <2> DEFINE tape == IF access = "in" THEN Input(tapeIn) ELSE tapeIn
             on == Heard(tape)
             met == SlopeMet(tape, on)
             st2 == IF met = 0 THEN stale ELSE ~on.playing
  <2>1. InInv(tape, rise, stale) /\ tape.t = tapeIn.t /\ tape.samp = tapeIn.samp
    BY <1>0, InputStep
  <2>2. tapeIn' = on
    BY <1>2 DEF Cycle
  <2>3. SlopeMet(tapeIn, tapeIn') = met
    BY <2>1, <2>2 DEF SlopeMet
  <2>4. stale' = st2 /\ rise' = IF rise = 0 /\ on.playing THEN met ELSE rise
    BY <1>2, <2>2, <2>3 DEF Cycle
  <2>5. /\ InInv(on, IF rise = 0 /\ on.playing THEN met ELSE rise, st2)
        /\ on.playing /\ on.t % SampleCycles = 0 /\ ~st2
             => on.slopeWas = LastSlope(on.samp, Place(on))
    <3> HIDE DEF tape
    <3> QED
      BY <2>1, HeardStep
  <2> HIDE DEF on, met, st2
  <2> QED
    BY <1>1, <2>2, <2>4, <2>5
<1>3. ASSUME NEW tape, NEW r, NEW st, InInv(tape, r, st), tape.loaded,
             tapeIn' = Sought(tape), rise' = RiseAfter(tape, r), stale' = StaleAfter(tape, st)
      PROVE  TapeInv'
  BY <1>1, <1>3, SoughtStep
<1>4. ASSUME NEW samp \in Recordings, LoadIn(samp) PROVE TapeInv'
  BY <1>0, <1>3, <1>4, InsertedStep DEF LoadIn
<1>5. CASE ToneIn
  BY <1>0, <1>3, <1>5 DEF ToneIn
<1>6. CASE RewindIn
  <2>1. tapeIn' = Rewound(tapeIn) /\ rise' = 0 /\ stale' = FALSE
        /\ tapeIn.loaded /\ tapeIn.memory = "live"
    BY <1>0, <1>6 DEF RewindIn, InInv
  <2>2. InInv(tapeIn', rise', stale') /\ ~tapeIn'.playing
    BY <1>0, <2>1, RewoundStep DEF InInv
  <2> QED
    BY <1>1, <2>2
<1>7. CASE EjectIn
  <2>1. tapeIn' = EjectedIn(tapeIn) /\ rise' = rise /\ stale' = stale
    BY <1>7 DEF EjectIn
  <2>2. InInv(tapeIn', rise', stale') /\ ~tapeIn'.playing
    BY <1>0, <2>1, EjectedInStep DEF InInv
  <2> QED
    BY <1>1, <2>2
<1>8. CASE UNCHANGED <<tapeIn, rise, stale>>
  BY <1>8 DEF TapeInv, LevelFollowsTape
<1>9. ASSUME NEW answer \in Answers, NEW written \in BOOLEAN,
             \/ EjectOut(answer, written)
             \/ \E made \in BOOLEAN : Blank(answer, written, made)
             \/ \E disksAnswer \in Answers : Quit(answer, written, disksAnswer)
      PROVE  UNCHANGED <<tapeIn, rise, stale>>
  BY <1>9 DEF EjectOut, Blank, Quit
<1>10. ASSUME \/ \E written \in BOOLEAN : SaveOut(written)
              \/ WriteDisk
              \/ UNCHANGED tapeVars
       PROVE  UNCHANGED <<tapeIn, rise, stale>>
  BY <1>10 DEF SaveOut, WriteDisk, tapeVars
<1> QED
  BY <1>2, <1>4, <1>5, <1>6, <1>7, <1>8, <1>9, <1>10 DEF TapesNext

\* For every tape, tone and pause after which a tape stops, and whatever was pressed,
\* searched for and missed on the way: the level that CassetteIn::input returns is up
\* just after the slopes of one direction, and at a sample the slope heard last is the
\* tape's, but for what LevelFollowsTape names (a steep sample was missed, or a search
\* was in vain, and no steep one came since). And the samples are never read when
\* they are freed or at an end.
THEOREM LevelCorrect == TapesSpec => []LevelFollowsTape
<1>1. TapeInv => LevelFollowsTape
  BY DEF TapeInv
<1> QED
  BY <1>1, InitTapeInv, NextTapeInv, PTL DEF TapesSpec

-----------------------------------------------------------------------------
(* What the file tells of the recording.                                   *)

\* The intervals a tape keeps: of two samples or more, and not left out.
Kept(intervals) ==
  \A i \in 1 .. Len(intervals) :
    intervals[i] \div WaveCycles >= 2 /\ intervals[i] < Longest

\* The loops over the intervals, of the writer and of the sum of samples.
Halves(intervals, k, g) ==
  g = [i \in 0 .. k |-> IF i = 0 THEN <<>>
                        ELSE g[i - 1] \o HalfWave(intervals[i], FromTop(i))]

Sums(intervals, k, g) ==
  g = [i \in 0 .. k |-> IF i = 0 THEN 0 ELSE g[i - 1] + intervals[i] \div WaveCycles]

LEMMA HalvesExist ==
  ASSUME NEW intervals, NEW k \in Nat
  PROVE  \E g : Halves(intervals, k, g)
<1> DEFINE S == {m \in Nat : \E g : Halves(intervals, m, g)}
<1>1. 0 \in S
  <2> DEFINE g == [i \in 0 .. 0 |-> <<>>]
  <2>1. g = [i \in 0 .. 0 |-> IF i = 0 THEN <<>>
                              ELSE g[i - 1] \o HalfWave(intervals[i], FromTop(i))]
    OBVIOUS
  <2> QED
    BY <2>1 DEF Halves
<1>2. ASSUME NEW m \in S PROVE m + 1 \in S
  <2>1. PICK g : Halves(intervals, m, g)
    OBVIOUS
  <2> DEFINE next == g[m] \o HalfWave(intervals[m + 1], FromTop(m + 1))
             h == [i \in 0 .. m + 1 |-> IF i = m + 1 THEN next ELSE g[i]]
             b(i) == IF i = 0 THEN <<>> ELSE h[i - 1] \o HalfWave(intervals[i], FromTop(i))
  <2>2. ASSUME NEW i \in 0 .. m + 1 PROVE h[i] = b(i)
    <3>1. CASE i = m + 1
      <4>1. h[i] = next /\ i # 0 /\ i - 1 = m /\ h[m] = g[m]
        BY <3>1
      <4> HIDE DEF h
      <4> QED
        BY <3>1, <4>1
    <3>2. CASE i # m + 1
      <4>1. i \in 0 .. m /\ h[i] = g[i]
        BY <3>2
      <4>2. i # 0 => h[i - 1] = g[i - 1]
        BY <4>1
      <4>3. g[i] = IF i = 0 THEN <<>> ELSE g[i - 1] \o HalfWave(intervals[i], FromTop(i))
        BY <2>1, <4>1 DEF Halves
      <4> HIDE DEF h
      <4> QED
        BY <4>1, <4>2, <4>3
    <3> QED
      BY <3>1, <3>2
  <2>3. h = [i \in 0 .. m + 1 |-> b(i)]
    <3>1. h = [i \in 0 .. m + 1 |-> h[i]]
      OBVIOUS
    <3> HIDE DEF h, b
    <3> QED
      BY <2>2, <3>1
  <2> HIDE DEF h
  <2> QED
    BY <2>3 DEF Halves
<1>3. S = Nat
  <2>1. S \in SUBSET Nat
    OBVIOUS
  <2> HIDE DEF S
  <2> QED
    BY <1>1, <1>2, <2>1, Induction
<1> QED
  BY <1>3

\* One step of the writer's loop.
LEMMA HalvesStep ==
  ASSUME NEW intervals, NEW k \in Nat, NEW g, Halves(intervals, k, g)
  PROVE  /\ g[0] = <<>>
         /\ \A i \in 1 .. k : g[i] = g[i - 1] \o HalfWave(intervals[i], FromTop(i))
<1>1. \A i \in 0 .. k :
        g[i] = IF i = 0 THEN <<>> ELSE g[i - 1] \o HalfWave(intervals[i], FromTop(i))
  BY DEF Halves
<1>2. 0 \in 0 .. k /\ \A i \in 1 .. k : i \in 0 .. k /\ i # 0
  OBVIOUS
<1> QED
  BY <1>1, <1>2, Zenon

LEMMA SumsExist ==
  ASSUME NEW intervals, NEW k \in Nat
  PROVE  \E g : Sums(intervals, k, g)
<1> DEFINE S == {m \in Nat : \E g : Sums(intervals, m, g)}
<1>1. 0 \in S
  <2> DEFINE g == [i \in 0 .. 0 |-> 0]
  <2>1. g = [i \in 0 .. 0 |-> IF i = 0 THEN 0 ELSE g[i - 1] + intervals[i] \div WaveCycles]
    OBVIOUS
  <2> QED
    BY <2>1 DEF Sums
<1>2. ASSUME NEW m \in S PROVE m + 1 \in S
  <2>1. PICK g : Sums(intervals, m, g)
    OBVIOUS
  <2> DEFINE next == g[m] + intervals[m + 1] \div WaveCycles
             h == [i \in 0 .. m + 1 |-> IF i = m + 1 THEN next ELSE g[i]]
             b(i) == IF i = 0 THEN 0 ELSE h[i - 1] + intervals[i] \div WaveCycles
  <2>2. ASSUME NEW i \in 0 .. m + 1 PROVE h[i] = b(i)
    <3>1. CASE i = m + 1
      <4>1. h[i] = next /\ i # 0 /\ i - 1 = m /\ h[m] = g[m]
        BY <3>1
      <4> HIDE DEF h
      <4> QED
        BY <3>1, <4>1
    <3>2. CASE i # m + 1
      <4>1. i \in 0 .. m /\ h[i] = g[i]
        BY <3>2
      <4>2. i # 0 => h[i - 1] = g[i - 1]
        BY <4>1
      <4>3. g[i] = IF i = 0 THEN 0 ELSE g[i - 1] + intervals[i] \div WaveCycles
        BY <2>1, <4>1 DEF Sums
      <4> HIDE DEF h
      <4> QED
        BY <4>1, <4>2, <4>3
    <3> QED
      BY <3>1, <3>2
  <2>3. h = [i \in 0 .. m + 1 |-> b(i)]
    <3>1. h = [i \in 0 .. m + 1 |-> h[i]]
      OBVIOUS
    <3> HIDE DEF h, b
    <3> QED
      BY <2>2, <3>1
  <2> HIDE DEF h
  <2> QED
    BY <2>3 DEF Sums
<1>3. S = Nat
  <2>1. S \in SUBSET Nat
    OBVIOUS
  <2> HIDE DEF S
  <2> QED
    BY <1>1, <1>2, <2>1, Induction
<1> QED
  BY <1>3

\* The constants of the file.
LEMMA WaveType ==
  /\ WaveCycles \in Nat /\ WaveCycles > 0 /\ Longest \in Nat /\ Longest > 0
  /\ \A top \in BOOLEAN : FlatAt(top) \in Nat /\ FlatAt(top) >= 3 * WaveCycles /\ FlatAt(top) > 0
<1>1. /\ WaveCycles \in Nat /\ WaveCycles > 0 /\ Longest \in Nat /\ Longest > 0
      /\ FlatTop \in Nat /\ FlatBottom \in Nat
      /\ FlatTop >= 3 * WaveCycles /\ FlatBottom >= 3 * WaveCycles
  BY CassetteAssumption
<1> QED
  BY <1>1 DEF FlatAt

\* How often a length fits in another.
LEMMA Fits ==
  ASSUME NEW d \in Nat, NEW m \in Nat, m > 0, NEW s \in Nat
  PROVE  /\ d \div m \in Nat
         /\ s * m <= d <=> s <= d \div m
<1> DEFINE q == d \div m
           r == d % m
<1>1. q \in Nat /\ r \in 0 .. m - 1 /\ d = m * q + r
  OBVIOUS
<1> HIDE DEF q, r
<1>2. CASE s <= q
  <2>1. q = s + (q - s) /\ q - s \in Nat
    BY <1>1, <1>2
  <2>2. m * (q - s) >= 0
    BY <2>1
  <2>3. m * q = s * m + m * (q - s)
    BY <1>1, <2>1
  <2> QED
    BY <1>1, <1>2, <2>2, <2>3 DEF q
<1>3. CASE s > q
  <2>1. s = q + 1 + (s - q - 1) /\ s - q - 1 \in Nat
    BY <1>1, <1>3
  <2>2. m * (s - q - 1) >= 0
    BY <2>1
  <2>3. s * m = m * q + m + m * (s - q - 1)
    BY <1>1, <2>1
  <2> QED
    BY <1>1, <1>3, <2>2, <2>3 DEF q
<1> QED
  BY <1>1, <1>2, <1>3

\* A half wave stays where it starts for the samples that lie flat there, then
\* leaves, and never turns.
LEMMA GoneGrows ==
  ASSUME NEW d \in Nat, NEW top \in BOOLEAN, d < Longest, d \div WaveCycles >= 2
  PROVE  LET n   == d \div WaveCycles
             lag == d \div FlatAt(top)
         IN  /\ n \in Nat /\ lag \in Nat /\ lag + 2 <= n
             /\ \A s \in 0 .. n - 1 :
                  /\ Gone(d, s, top) \in 0 .. Longest
                  /\ Gone(d, s, top) = 0 <=> s <= lag
             /\ \A s \in 0 .. n - 2 : Gone(d, s, top) <= Gone(d, s + 1, top)
<1> DEFINE n == d \div WaveCycles
           f == FlatAt(top)
           e == FlatAt(~top)
           lag == d \div f
<1>1. /\ WaveCycles \in Nat /\ WaveCycles > 0 /\ Longest \in Nat /\ Longest > 0
      /\ f \in Nat /\ f >= 3 * WaveCycles /\ f > 0 /\ e \in Nat
  BY WaveType
<1>2. n \in Nat /\ lag \in Nat /\ n * WaveCycles <= d /\ lag * f <= d /\ n >= 2
  <2> HIDE DEF f
  <2>1. n \in Nat /\ lag \in Nat
    BY <1>1
  <2>2. (n * WaveCycles <= d <=> n <= n) /\ (lag * f <= d <=> lag <= lag)
    <3>1. n * WaveCycles <= d <=> n <= d \div WaveCycles
      <4> DEFINE x == n
      <4>1. x \in Nat
        BY <2>1
      <4> HIDE DEF x
      <4>2. x * WaveCycles <= d <=> x <= d \div WaveCycles
        BY <1>1, <4>1, Fits
      <4> QED
        BY <4>2 DEF x
    <3>2. lag * f <= d <=> lag <= d \div f
      <4> DEFINE x == lag
      <4>1. x \in Nat
        BY <2>1
      <4> HIDE DEF x
      <4>2. x * f <= d <=> x <= d \div f
        BY <1>1, <4>1, Fits
      <4> QED
        BY <4>2 DEF x
    <3> QED
      BY <3>1, <3>2
  <2> QED
    BY <2>1, <2>2
<1>3. lag + 2 <= n
  <2>1. CASE lag = 0
    BY <1>2, <2>1
  <2>2. CASE lag > 0
    <3> DEFINE x == lag
    <3>1. x \in Nat /\ x * f <= d /\ x > 0
      BY <1>2, <2>2
    <3> HIDE DEF x, f
    <3>2. x * (3 * WaveCycles) <= x * f
      <4>1. f = 3 * WaveCycles + (f - 3 * WaveCycles) /\ f - 3 * WaveCycles >= 0
        BY <1>1
      <4>2. x * (f - 3 * WaveCycles) >= 0
        BY <1>1, <3>1, <4>1
      <4>3. x * f = x * (3 * WaveCycles) + x * (f - 3 * WaveCycles)
        BY <1>1, <3>1
      <4> QED
        BY <1>1, <3>1, <4>2, <4>3
    <3>3. (3 * x) * WaveCycles <= d /\ 3 * x \in Nat
      BY <1>1, <3>1, <3>2
    <3>4. 3 * x <= n
      BY <1>1, <3>3, Fits
    <3>5. x + 2 <= n
      BY <1>2, <3>1, <3>4
    <3> QED
      BY <3>5 DEF x
  <2> QED
    BY <1>2, <2>1, <2>2
<1>4. ASSUME NEW s \in 0 .. n - 1
      PROVE  s \in Nat /\ (s * f <= d <=> s <= lag) /\ s <= d /\ s < Longest
  <2>1. s \in Nat /\ s < n
    BY <1>2
  <2>2. s * f <= d <=> s <= lag
    BY <1>1, <2>1, Fits
  <2>3. n <= d
    <3>1. n <= n * WaveCycles
      BY <1>1, <1>2
    <3> QED
      BY <1>1, <1>2, <3>1
  <2> QED
    BY <1>1, <2>1, <2>2, <2>3, <1>2
<1> HIDE DEF n, f, e, lag
<1>5. \A s : Gone(d, s, top) =
        IF s * f <= d THEN 0
        ELSE IF (d - s * WaveCycles) * e <= d * WaveCycles THEN Longest ELSE s
  BY DEF Gone, f, e
<1>6. ASSUME NEW s \in 0 .. n - 1
      PROVE  Gone(d, s, top) \in 0 .. Longest /\ (Gone(d, s, top) = 0 <=> s <= lag)
  BY <1>1, <1>2, <1>4, <1>5
<1>7. ASSUME NEW s \in 0 .. n - 2
      PROVE  Gone(d, s, top) <= Gone(d, s + 1, top)
  <2>1. s \in 0 .. n - 1 /\ s + 1 \in 0 .. n - 1 /\ s \in Nat
    BY <1>2
  <2>2. /\ Gone(d, s, top) \in 0 .. Longest /\ (Gone(d, s, top) = 0 <=> s <= lag)
        /\ Gone(d, s + 1, top) \in 0 .. Longest /\ (Gone(d, s + 1, top) = 0 <=> s + 1 <= lag)
    BY <1>6, <2>1
  <2>3. CASE Gone(d, s, top) = 0
    BY <2>2, <2>3
  <2>4. CASE Gone(d, s + 1, top) = Longest
    BY <2>2, <2>4
  <2>5. CASE Gone(d, s, top) # 0 /\ Gone(d, s + 1, top) # Longest
    <3>1. s > lag /\ ~ (s * f <= d) /\ ~ ((s + 1) * f <= d)
      <4>1. ~ (s <= lag) /\ ~ (s + 1 <= lag)
        BY <1>2, <2>1, <2>2, <2>5
      <4> QED
        BY <1>2, <1>4, <2>1, <4>1
    <3>2. /\ Gone(d, s, top) = IF (d - s * WaveCycles) * e <= d * WaveCycles THEN Longest ELSE s
          /\ Gone(d, s + 1, top) =
               IF (d - (s + 1) * WaveCycles) * e <= d * WaveCycles THEN Longest ELSE s + 1
      BY <1>5, <3>1
    <3>3. ~ ((d - (s + 1) * WaveCycles) * e <= d * WaveCycles)
      BY <2>5, <3>2
    <3>4. (d - (s + 1) * WaveCycles) * e = (d - s * WaveCycles) * e - WaveCycles * e
          /\ WaveCycles * e >= 0
      BY <1>1, <2>1
    <3>5. ~ ((d - s * WaveCycles) * e <= d * WaveCycles)
      <4> DEFINE a == (d - s * WaveCycles) * e
                 b == WaveCycles * e
                 c == d * WaveCycles
      <4>1. a \in Int /\ b \in Int /\ c \in Int /\ b >= 0 /\ ~ (a - b <= c)
        BY <1>1, <2>1, <3>3, <3>4
      <4> HIDE DEF a, b, c
      <4>2. ~ (a <= c)
        BY <4>1
      <4> QED
        BY <4>2 DEF a, c
    <3> QED
      BY <2>1, <3>2, <3>3, <3>5
  <2> QED
    BY <2>3, <2>4, <2>5
<1> QED
  BY <1>2, <1>3, <1>6, <1>7 DEF n, f, lag

\* The slope of a half wave, and the byte where it starts.
Dir(top) == IF top THEN -1 ELSE 1
From(top) == IF top THEN Longest ELSE 0

\* The bytes v of a half wave: flat for lag samples, then on and never back.
IsHalf(v, n, lag, top) ==
  /\ v \in Seq(0 .. Longest) /\ Len(v) = n /\ n \in Nat /\ lag \in Nat /\ lag + 2 <= n
  /\ \A s \in 1 .. n : v[s] = From(top) <=> s <= lag + 1
  /\ \A s \in 1 .. n - 1 : IF top THEN v[s] >= v[s + 1] ELSE v[s] <= v[s + 1]

LEMMA HalfWaveIsHalf ==
  ASSUME NEW d \in Nat, NEW top \in BOOLEAN, d < Longest, d \div WaveCycles >= 2
  PROVE  IsHalf(HalfWave(d, top), d \div WaveCycles, d \div FlatAt(top), top)
<1> DEFINE n == d \div WaveCycles
           lag == d \div FlatAt(top)
           gone(s) == Gone(d, s - 1, top)
           v == HalfWave(d, top)
<1>1. /\ n \in Nat /\ lag \in Nat /\ lag + 2 <= n /\ n # 0 /\ Longest \in Nat
      /\ \A s \in 1 .. n : gone(s) \in 0 .. Longest /\ (gone(s) = 0 <=> s <= lag + 1)
      /\ \A s \in 1 .. n - 1 : gone(s) <= gone(s + 1)
  <2>1. /\ n \in Nat /\ lag \in Nat /\ lag + 2 <= n /\ Longest \in Nat
        /\ \A s \in 0 .. n - 1 :
             /\ Gone(d, s, top) \in 0 .. Longest
             /\ Gone(d, s, top) = 0 <=> s <= lag
        /\ \A s \in 0 .. n - 2 : Gone(d, s, top) <= Gone(d, s + 1, top)
    BY GoneGrows, WaveType
  <2> HIDE DEF n, lag
  <2>2. \A s \in 1 .. n : s - 1 \in 0 .. n - 1 /\ (s - 1 <= lag <=> s <= lag + 1)
    BY <2>1
  <2>3. \A s \in 1 .. n - 1 : s - 1 \in 0 .. n - 2 /\ s - 1 + 1 = s + 1 - 1
    BY <2>1
  <2> QED
    BY <2>1, <2>2, <2>3
<1>2. v = [s \in 1 .. n |-> IF top THEN Longest - gone(s) ELSE gone(s)]
  BY <1>1 DEF HalfWave
<1> HIDE DEF n, lag, gone, v
<1>3. \A s \in 1 .. n : v[s] = (IF top THEN Longest - gone(s) ELSE gone(s)) /\ v[s] \in 0 .. Longest
  BY <1>1, <1>2
<1>4. v \in Seq(0 .. Longest) /\ Len(v) = n
  BY <1>1, <1>2, <1>3
<1>5. \A s \in 1 .. n : v[s] = From(top) <=> s <= lag + 1
  BY <1>1, <1>3 DEF From
<1>6. \A s \in 1 .. n - 1 : IF top THEN v[s] >= v[s + 1] ELSE v[s] <= v[s + 1]
  <2>1. TAKE s \in 1 .. n - 1
  <2>2. s \in 1 .. n /\ s + 1 \in 1 .. n
    BY <1>1
  <2> QED
    BY <1>1, <1>3, <2>2
<1> QED
  BY <1>1, <1>4, <1>5, <1>6 DEF IsHalf, n, lag, v

\* The slopes of a file.
LEMMA SlopesType ==
  ASSUME NEW w \in Seq(0 .. Longest), Len(w) > 0
  PROVE  /\ Slopes(w) \in Seq({-1, 0, 1}) /\ Len(Slopes(w)) = Len(w) - 1
         /\ \A j \in 1 .. Len(w) - 1 :
              Slopes(w)[j] = IF w[j] < w[j + 1] THEN 1 ELSE IF w[j] > w[j + 1] THEN -1 ELSE 0
<1>1. Len(w) \in Nat /\ Len(w) - 1 \in Nat
  BY LenProperties
<1> QED
  BY <1>1 DEF Slopes

\* Two tapes that begin with the same slopes.
LEMMA SameLast ==
  ASSUME NEW x \in Seq({-1, 0, 1}), NEW y \in Seq({-1, 0, 1}), NEW k \in Nat,
         k <= Len(x), k <= Len(y), \A j \in 1 .. k : x[j] = y[j]
  PROVE  \A p \in 0 .. k : LastSlope(x, p) = LastSlope(y, p)
<1> DEFINE S == {p \in Nat : p <= k => LastSlope(x, p) = LastSlope(y, p)}
<1>1. 0 \in S
  <2>1. LastSlope(x, 0) = 0 /\ LastSlope(y, 0) = 0
    BY DEF LastSlope
  <2> QED
    BY <2>1
<1>2. ASSUME NEW p \in S PROVE p + 1 \in S
  <2>1. SUFFICES ASSUME p + 1 <= k PROVE LastSlope(x, p + 1) = LastSlope(y, p + 1)
    OBVIOUS
  <2>2. Len(x) \in Nat /\ Len(y) \in Nat
    BY LenProperties
  <2>3. /\ p \in Nat /\ p + 1 <= Len(x) /\ p + 1 <= Len(y)
        /\ LastSlope(x, p) = LastSlope(y, p) /\ x[p + 1] = y[p + 1]
    BY <2>1, <2>2
  <2> HIDE DEF S
  <2> QED
    BY <2>3, NextSample
<1>3. S = Nat
  <2>1. S \in SUBSET Nat
    OBVIOUS
  <2> HIDE DEF S
  <2> QED
    BY <1>1, <1>2, <2>1, Induction
<1> QED
  BY <1>3

\* A slope stays while the tape goes on or lies flat.
LEMMA LastKept ==
  ASSUME NEW x \in Seq({-1, 0, 1}), NEW a \in Nat, NEW b \in Nat, b <= Len(x),
         NEW d, LastSlope(x, a) = d, \A j \in a + 1 .. b : x[j] \in {0, d}
  PROVE  \A p \in a .. b : LastSlope(x, p) = d
<1> DEFINE S == {m \in Nat : a + m <= b => LastSlope(x, a + m) = d}
<1>1. 0 \in S
  BY a + 0 = a
<1>2. ASSUME NEW m \in S PROVE m + 1 \in S
  <2>1. SUFFICES ASSUME a + (m + 1) <= b PROVE LastSlope(x, a + (m + 1)) = d
    OBVIOUS
  <2>2. Len(x) \in Nat
    BY LenProperties
  <2> DEFINE p == a + m
  <2>3. /\ p \in Nat /\ p + 1 <= Len(x) /\ LastSlope(x, p) = d
        /\ p + 1 = a + (m + 1) /\ p + 1 \in a + 1 .. b
    BY <2>1, <2>2
  <2>4. x[p + 1] \in {0, d}
    BY <2>3
  <2> HIDE DEF p, S
  <2>5. LastSlope(x, p + 1) = IF x[p + 1] # 0 THEN x[p + 1] ELSE LastSlope(x, p)
    BY <2>3, NextSample
  <2> QED
    BY <2>3, <2>4, <2>5
<1>3. S = Nat
  <2>1. S \in SUBSET Nat
    OBVIOUS
  <2> HIDE DEF S
  <2> QED
    BY <1>1, <1>2, <2>1, Induction
<1>4. ASSUME NEW p \in a .. b PROVE LastSlope(x, p) = d
  <2>1. p - a \in Nat /\ a + (p - a) = p /\ p <= b
    OBVIOUS
  <2>2. \A m \in Nat : a + m <= b => LastSlope(x, a + m) = d
    BY <1>3
  <2> HIDE DEF S
  <2> QED
    BY <2>1, <2>2
<1> QED
  BY <1>4

\* The slopes x of l samples that end with the slope -d, whose slopes are y, and
\* of more, flat at first and then d from c to m.
Turns(x, y, l, m, c, d) ==
  /\ x \in Seq({-1, 0, 1}) /\ y \in Seq({-1, 0, 1}) /\ {l, m, c} \subseteq Nat /\ d \in {-1, 1}
  /\ l < c /\ c <= m /\ Len(x) = m
  /\ l > 0 => /\ Len(y) = l - 1 /\ LastSlope(y, l - 1) = -d
              /\ \A j \in 1 .. l - 1 : x[j] = y[j]
              /\ x[l] \in {0, -d}
  /\ \A j \in l + 1 .. m : (j < c => x[j] = 0) /\ (j = c => x[j] = d) /\ x[j] \in {0, d}

\* They turn once.
LEMMA TurnedOnce ==
  ASSUME NEW x, NEW y, NEW l, NEW m, NEW c, NEW d, Turns(x, y, l, m, c, d)
  PROVE  /\ LastSlope(x, m) = d
         /\ Edges(x) = (IF l = 0 THEN {} ELSE Edges(y)) \cup {c}
<1> USE DEF Turns
<1>1. PICK a \in Nat : a = (IF l = 0 THEN 0 ELSE l - 1)
  OBVIOUS
<1>2. PICK e \in {-1, 0, 1} : e = (IF l = 0 THEN 0 ELSE -d)
  OBVIOUS
<1>3. PICK b \in Nat : b = c - 1
  OBVIOUS
<1>4. \A p \in 0 .. a : LastSlope(x, p) = (IF l = 0 THEN 0 ELSE LastSlope(y, p))
  <2>1. CASE l = 0
    <3>1. LastSlope(x, 0) = 0
      BY DEF LastSlope
    <3> QED
      BY <1>1, <2>1, <3>1
  <2>2. CASE l > 0
    <3>1. a = l - 1 /\ a <= Len(x) /\ a <= Len(y) /\ \A j \in 1 .. a : x[j] = y[j]
      BY <1>1, <2>2
    <3>2. \A p \in 0 .. a : LastSlope(x, p) = LastSlope(y, p)
      BY <3>1, SameLast
    <3> QED
      BY <2>2, <3>2
  <2> QED
    BY <2>1, <2>2
\* The slope before the half wave turns, and after it.
<1>5. \A p \in a .. b : LastSlope(x, p) = e
  <2>1. LastSlope(x, a) = e
    BY <1>1, <1>2, <1>4
  <2>2. \A j \in a + 1 .. b : x[j] \in {0, e}
    <3>1. TAKE j \in a + 1 .. b
    <3>2. CASE j <= l
      <4>1. l > 0 /\ j = l
        BY <1>1, <3>2
      <4> QED
        BY <1>2, <4>1
    <3>3. CASE j > l
      BY <1>1, <1>3, <3>3
    <3> QED
      BY <1>1, <1>3, <3>2, <3>3
  <2>3. b <= Len(x)
    BY <1>3
  <2> QED
    BY <2>1, <2>2, <2>3, LastKept
<1>6. LastSlope(x, c) = d
  <2>1. b \in Nat /\ b + 1 = c /\ b + 1 <= Len(x) /\ x[b + 1] = d /\ d # 0
    BY <1>3
  <2>2. LastSlope(x, b + 1) = IF x[b + 1] # 0 THEN x[b + 1] ELSE LastSlope(x, b)
    BY <2>1, NextSample
  <2> QED
    BY <2>1, <2>2
<1>7. \A p \in c .. m : LastSlope(x, p) = d
  <2>1. \A j \in c + 1 .. m : x[j] \in {0, d}
    OBVIOUS
  <2>2. x \in Seq({-1, 0, 1}) /\ c \in Nat /\ m \in Nat /\ m <= Len(x)
    OBVIOUS
  <2> HIDE DEF Turns
  <2> QED
    BY <1>6, <2>1, <2>2, LastKept
<1>8. ASSUME NEW j \in 1 .. m
      PROVE  x[j] \notin {0, LastSlope(x, j - 1)}
               <=> (l # 0 /\ j <= l - 1 /\ y[j] \notin {0, LastSlope(y, j - 1)}) \/ j = c
  <2>1. CASE j <= l - 1
    <3>1. l > 0 /\ j - 1 \in 0 .. a /\ j \in 1 .. l - 1 /\ j # c /\ l # 0
      BY <1>1, <2>1
    <3>2. LastSlope(x, j - 1) = LastSlope(y, j - 1) /\ x[j] = y[j]
      BY <1>4, <3>1
    <3> QED
      BY <2>1, <3>1, <3>2
  <2>2. CASE j = l
    <3>1. j - 1 \in a .. b /\ l > 0 /\ j # c /\ ~ (j <= l - 1)
      BY <1>1, <1>3, <2>2
    <3>2. LastSlope(x, j - 1) = -d /\ x[j] \in {0, -d}
      BY <1>2, <1>5, <2>2, <3>1
    <3> QED
      BY <3>1, <3>2
  <2>3. CASE j > l /\ j < c
    <3>1. x[j] = 0 /\ j # c /\ ~ (j <= l - 1)
      BY <2>3
    <3> QED
      BY <3>1
  <2>4. CASE j = c
    <3>1. j - 1 \in a .. b /\ x[j] = d
      BY <1>1, <1>3, <2>4
    <3>2. LastSlope(x, j - 1) = e
      BY <1>5, <3>1
    <3>3. d \notin {0, e}
      BY <1>2
    <3> QED
      BY <2>4, <3>1, <3>2, <3>3
  <2>5. CASE j > c
    <3>1. j - 1 \in c .. m /\ j \in l + 1 .. m /\ ~ (j <= l - 1) /\ j # c
      BY <2>5
    <3>2. LastSlope(x, j - 1) = d /\ x[j] \in {0, d}
      BY <1>7, <3>1
    <3> QED
      BY <3>1, <3>2
  <2> QED
    BY <2>1, <2>2, <2>3, <2>4, <2>5
<1>9. Edges(x) = (IF l = 0 THEN {} ELSE Edges(y)) \cup {c}
  <2>1. Edges(x) = {j \in 1 .. m : x[j] \notin {0, LastSlope(x, j - 1)}}
    BY DEF Edges
  <2>2. l # 0 => Edges(y) = {j \in 1 .. l - 1 : y[j] \notin {0, LastSlope(y, j - 1)}}
    BY DEF Edges
  <2>3. c \in 1 .. m /\ \A j \in 1 .. l - 1 : j \in 1 .. m
    OBVIOUS
  <2>4. \A j \in 1 .. m : j <= l - 1 <=> j \in 1 .. l - 1
    OBVIOUS
  <2>5. \A j : j \in Edges(x) <=> j \in (IF l = 0 THEN {} ELSE Edges(y)) \cup {c}
    BY <1>8, <2>1, <2>2, <2>3, <2>4
  <2> QED
    BY <2>5
<1> QED
  BY <1>7, <1>9

\* Two files, one after the other.
LEMMA FilesJoined ==
  ASSUME NEW w \in Seq(0 .. Longest), NEW v \in Seq(0 .. Longest),
         NEW l \in Nat, l = Len(w), NEW n \in Nat, n = Len(v)
  PROVE  /\ w \o v \in Seq(0 .. Longest) /\ Len(w \o v) = l + n
         /\ \A j \in 1 .. l : (w \o v)[j] = w[j]
         /\ \A s \in 1 .. n : (w \o v)[l + s] = v[s]
<1> DEFINE T == 0 .. Longest
<1>1. w \in Seq(T) /\ v \in Seq(T)
  OBVIOUS
<1> HIDE DEF T
<1>2. /\ w \o v \in Seq(T) /\ Len(w \o v) = Len(w) + Len(v)
      /\ \A j \in 1 .. Len(w) + Len(v) :
           (w \o v)[j] = IF j <= Len(w) THEN w[j] ELSE v[j - Len(w)]
  BY ONLY <1>1, ConcatProperties, Zenon
<1>3. \A j \in 1 .. l : j \in 1 .. Len(w) + Len(v) /\ j <= Len(w)
  OBVIOUS
<1>4. \A s \in 1 .. n : /\ l + s \in 1 .. Len(w) + Len(v) /\ ~ (l + s <= Len(w))
                        /\ l + s - Len(w) = s
  OBVIOUS
<1> QED
  BY <1>2, <1>3, <1>4 DEF T

\* The l bytes w of a file to which a half wave is added.
IsFile(w, l, top) ==
  /\ w \in Seq(0 .. Longest) /\ l \in Nat /\ l = Len(w)
  /\ l = 0 \/ (l >= 2 /\ LastSlope(Slopes(w), l - 1) = -Dir(top))

\* Another half wave begins once, after its flat samples; the last byte before it is
\* on its way to where it starts.
LEMMA HalfAppended ==
  ASSUME NEW w, NEW l, NEW top \in BOOLEAN, NEW v, NEW n, NEW lag,
         IsFile(w, l, top), IsHalf(v, n, lag, top)
  PROVE  /\ w \o v \in Seq(0 .. Longest) /\ Len(w \o v) = l + n
         /\ LastSlope(Slopes(w \o v), l + n - 1) = Dir(top)
         /\ Edges(Slopes(w \o v)) = (IF l = 0 THEN {} ELSE Edges(Slopes(w))) \cup {l + 1 + lag}
<1> USE DEF IsFile
<1>1. /\ n \in Nat /\ lag \in Nat /\ lag + 2 <= n /\ v \in Seq(0 .. Longest) /\ Len(v) = n
      /\ \A s \in 1 .. n : v[s] = From(top) <=> s <= lag + 1
      /\ \A s \in 1 .. n - 1 : IF top THEN v[s] >= v[s + 1] ELSE v[s] <= v[s + 1]
  BY DEF IsHalf
<1>2. Longest \in Nat /\ \A s \in 1 .. n : v[s] \in 0 .. Longest
  BY <1>1, WaveType
<1>3. PICK d \in {-1, 1} : d = Dir(top)
  BY DEF Dir
<1>4. PICK u : u = w \o v
  OBVIOUS
<1>5. /\ u \in Seq(0 .. Longest) /\ Len(u) = l + n
      /\ \A j \in 1 .. l : u[j] = w[j]
      /\ \A s \in 1 .. n : u[l + s] = v[s]
  <2>1. n = Len(v) /\ n \in Nat /\ l = Len(w) /\ v \in Seq(0 .. Longest)
    BY <1>1
  <2>2. /\ w \o v \in Seq(0 .. Longest) /\ Len(w \o v) = l + n
        /\ \A j \in 1 .. l : (w \o v)[j] = w[j]
        /\ \A s \in 1 .. n : (w \o v)[l + s] = v[s]
    BY <2>1, FilesJoined
  <2> QED
    BY <1>4, <2>2
<1>6. PICK m \in Nat : m = l + n - 1
  <2>1. l + n - 1 \in Nat
    BY <1>1
  <2> QED
    BY <2>1, Zenon
<1>7. PICK c \in Nat : c = l + 1 + lag
  BY <1>1
<1>8. PICK x : x = Slopes(u)
  OBVIOUS
<1>9. /\ x \in Seq({-1, 0, 1}) /\ Len(x) = m
      /\ \A j \in 1 .. m : x[j] = IF u[j] < u[j + 1] THEN 1 ELSE IF u[j] > u[j + 1] THEN -1 ELSE 0
  <2>1. Len(u) > 0 /\ Len(u) - 1 = m
    BY <1>1, <1>5, <1>6
  <2> QED
    BY <1>5, <1>8, <2>1, SlopesType
<1>10. l < c /\ c <= m
  BY <1>1, <1>6, <1>7
<1>11. PICK y \in Seq({-1, 0, 1}) : l > 0 => y = Slopes(w)
  <2>1. l > 0 => Slopes(w) \in Seq({-1, 0, 1})
    BY SlopesType
  <2>2. <<>> \in Seq({-1, 0, 1})
    OBVIOUS
  <2> QED
    BY <2>1, <2>2, Zenon
<1>12. ASSUME l > 0
       PROVE  /\ Len(y) = l - 1 /\ LastSlope(y, l - 1) = -d
              /\ \A j \in 1 .. l - 1 : x[j] = y[j]
              /\ x[l] \in {0, -d}
  <2>1. /\ Len(y) = l - 1
        /\ \A j \in 1 .. l - 1 :
             y[j] = IF w[j] < w[j + 1] THEN 1 ELSE IF w[j] > w[j + 1] THEN -1 ELSE 0
    BY <1>11, <1>12, SlopesType
  <2>2. \A j \in 1 .. l - 1 : x[j] = y[j]
    <3>1. TAKE j \in 1 .. l - 1
    <3>2. j \in 1 .. l /\ j + 1 \in 1 .. l /\ j \in 1 .. m
      BY <1>1, <1>6
    <3>3. u[j] = w[j]
      BY <1>5, <3>2, Zenon
    <3>4. u[j + 1] = w[j + 1]
      BY <1>5, <3>2, Zenon
    <3>5. x[j] = IF u[j] < u[j + 1] THEN 1 ELSE IF u[j] > u[j + 1] THEN -1 ELSE 0
      BY <1>9, <3>2, Zenon
    <3>6. y[j] = IF w[j] < w[j + 1] THEN 1 ELSE IF w[j] > w[j + 1] THEN -1 ELSE 0
      BY <2>1, <3>1, Zenon
    <3>7. x[j] = IF w[j] < w[j + 1] THEN 1 ELSE IF w[j] > w[j + 1] THEN -1 ELSE 0
      BY <3>3, <3>4, <3>5
    <3> QED
      BY <3>6, <3>7, Zenon
  <2>3. x[l] \in {0, -d}
    <3>1. l \in 1 .. m /\ l \in 1 .. l /\ 1 \in 1 .. n /\ 1 <= lag + 1
      BY <1>1, <1>6, <1>12
    <3>2. w[l] \in 0 .. Longest
      BY <3>1, Zenon, ElementOfSeq
    <3>3. u[l] = w[l] /\ u[l + 1] = v[1] /\ v[1] = From(top)
      BY <1>1, <1>5, <3>1, Zenon
    <3> QED
      BY <1>2, <1>3, <1>9, <3>1, <3>2, <3>3 DEF From, Dir
  <2> QED
    BY <1>3, <1>11, <1>12, <2>1, <2>2, <2>3
<1>13. ASSUME NEW j \in l + 1 .. m
       PROVE  (j < c => x[j] = 0) /\ (j = c => x[j] = d) /\ x[j] \in {0, d}
  <2>1. PICK s \in Nat : s = j - l
    OBVIOUS
  <2>2. s \in 1 .. n - 1 /\ s + 1 \in 1 .. n /\ s \in 1 .. n /\ j \in 1 .. m
        /\ j = l + s /\ j + 1 = l + (s + 1)
    BY <1>1, <1>6, <2>1
  <2>3. x[j] = IF v[s] < v[s + 1] THEN 1 ELSE IF v[s] > v[s + 1] THEN -1 ELSE 0
    BY <1>5, <1>9, <2>2
  <2>4. /\ v[s] = From(top) <=> s <= lag + 1
        /\ v[s + 1] = From(top) <=> s + 1 <= lag + 1
        /\ IF top THEN v[s] >= v[s + 1] ELSE v[s] <= v[s + 1]
        /\ v[s] \in 0 .. Longest /\ v[s + 1] \in 0 .. Longest
    BY <1>1, <1>2, <2>2
  <2>5. (j < c <=> s + 1 <= lag + 1) /\ (j = c <=> s <= lag + 1 /\ ~ (s + 1 <= lag + 1))
    BY <1>1, <1>7, <2>2
  <2> QED
    BY <1>2, <1>3, <2>3, <2>4, <2>5 DEF Dir, From
<1>14. /\ LastSlope(x, m) = d
       /\ Edges(x) = (IF l = 0 THEN {} ELSE Edges(y)) \cup {c}
  <2>1. l > 0 => /\ Len(y) = l - 1 /\ LastSlope(y, l - 1) = -d
                 /\ \A j \in 1 .. l - 1 : x[j] = y[j]
                 /\ x[l] \in {0, -d}
    BY <1>12
  <2>2. \A j \in l + 1 .. m : (j < c => x[j] = 0) /\ (j = c => x[j] = d) /\ x[j] \in {0, d}
    BY <1>13
  <2>3. x \in Seq({-1, 0, 1}) /\ Len(x) = m
    BY <1>9
  <2>4. {l, m, c} \subseteq Nat
    OBVIOUS
  <2>5. Turns(x, y, l, m, c, d)
    BY <1>10, <2>1, <2>2, <2>3, <2>4, Zenon DEF Turns
  <2> QED
    BY <2>5, TurnedOnce
<1>15. l # 0 => Edges(y) = Edges(Slopes(w))
  BY <1>11
<1> QED
  BY <1>3, <1>4, <1>5, <1>6, <1>7, <1>8, <1>14, <1>15

\* The file of the first i intervals, whose samples are t.
Written(intervals, w, t, i) ==
  /\ w \in Seq(0 .. Longest) /\ Len(w) = t[i] /\ t[i] \in Nat
  /\ i = 0 => w = <<>> /\ t[i] = 0
  /\ i > 0 => /\ t[i] >= 2 /\ LastSlope(Slopes(w), t[i] - 1) = Dir(FromTop(i))
              /\ Edges(Slopes(w)) = {t[r - 1] + 1 + intervals[r] \div FlatAt(FromTop(r)) : r \in 1 .. i}

\* Half waves take turns.
LEMMA TurnsAbout ==
  ASSUME NEW i \in Nat
  PROVE  FromTop(i) \in BOOLEAN /\ Dir(FromTop(i)) = -Dir(FromTop(i + 1))
<1>1. i % 2 = 0 <=> ~ ((i + 1) % 2 = 0)
  OBVIOUS
<1> QED
  BY <1>1 DEF FromTop, Dir

LEMMA WrittenNext ==
  ASSUME NEW intervals \in Seq(Nat), Kept(intervals), NEW w, NEW t, NEW i \in Nat,
         i + 1 <= Len(intervals), Written(intervals, w, t, i),
         t[i + 1] = t[i] + intervals[i + 1] \div WaveCycles
  PROVE  Written(intervals, w \o HalfWave(intervals[i + 1], FromTop(i + 1)), t, i + 1)
<1>1. PICK d \in Nat : d = intervals[i + 1]
  <2>1. i + 1 \in 1 .. Len(intervals)
    OBVIOUS
  <2> QED
    BY <2>1, Zenon, ElementOfSeq
<1>2. d < Longest /\ d \div WaveCycles >= 2
  BY <1>1 DEF Kept
<1>3. PICK top \in BOOLEAN : top = FromTop(i + 1)
  BY TurnsAbout
<1>4. PICK v : v = HalfWave(d, top)
  OBVIOUS
<1>5. PICK n \in Nat : n = d \div WaveCycles
  <2>1. d \div WaveCycles \in Nat
    BY <1>2, WaveType
  <2> QED
    BY <2>1, Zenon
<1>6. PICK lag : lag = d \div FlatAt(top)
  OBVIOUS
<1>7. IsHalf(v, n, lag, top)
  BY <1>1, <1>2, <1>3, <1>4, <1>5, <1>6, HalfWaveIsHalf
<1>8. PICK l \in Nat : l = t[i]
  BY DEF Written
<1>9. w \in Seq(0 .. Longest) /\ l = Len(w)
      /\ (i = 0 => l = 0)
      /\ (i > 0 => l >= 2 /\ LastSlope(Slopes(w), l - 1) = -Dir(top)
                   /\ Edges(Slopes(w)) = {t[r - 1] + 1 + intervals[r] \div FlatAt(FromTop(r)) : r \in 1 .. i})
  BY <1>3, <1>8, TurnsAbout DEF Written
<1>10. /\ w \o v \in Seq(0 .. Longest) /\ Len(w \o v) = l + n
       /\ LastSlope(Slopes(w \o v), l + n - 1) = Dir(top)
       /\ Edges(Slopes(w \o v)) = (IF l = 0 THEN {} ELSE Edges(Slopes(w))) \cup {l + 1 + lag}
  <2>1. l = 0 \/ (l >= 2 /\ LastSlope(Slopes(w), l - 1) = -Dir(top))
    BY <1>9
  <2>2. IsFile(w, l, top)
    BY <1>9, <2>1 DEF IsFile
  <2> QED
    BY <1>7, <2>2, HalfAppended
<1>11. t[i + 1] = l + n /\ n >= 2 /\ i + 1 > 0 /\ ~ (i + 1 = 0)
  BY <1>1, <1>2, <1>5, <1>8
<1>12. Edges(Slopes(w \o v))
         = {t[r - 1] + 1 + intervals[r] \div FlatAt(FromTop(r)) : r \in 1 .. i + 1}
  <2> DEFINE at(r) == t[r - 1] + 1 + intervals[r] \div FlatAt(FromTop(r))
  <2>1. at(i + 1) = l + 1 + lag
    <3>1. i + 1 - 1 = i
      OBVIOUS
    <3> QED
      BY <1>1, <1>3, <1>6, <1>8, <3>1
  <2>2. (IF l = 0 THEN {} ELSE Edges(Slopes(w))) = {at(r) : r \in 1 .. i}
    <3>1. CASE i = 0
      <4>1. l = 0 /\ \A r : r \notin 1 .. i
        BY <1>9, <3>1
      <4> HIDE DEF at
      <4>2. {at(r) : r \in 1 .. i} = {}
        BY <4>1, Zenon
      <4> QED
        BY <4>1, <4>2
    <3>2. CASE i > 0
      <4>1. l # 0 /\ Edges(Slopes(w)) = {at(r) : r \in 1 .. i}
        BY <1>9, <3>2
      <4> HIDE DEF at
      <4> QED
        BY <4>1, Zenon
    <3> HIDE DEF at
    <3>3. i = 0 \/ i > 0
      OBVIOUS
    <3> QED
      BY <3>1, <3>2, <3>3, Zenon
  <2> HIDE DEF at
  <2>3. {at(r) : r \in 1 .. i + 1} = {at(r) : r \in 1 .. i} \cup {at(i + 1)}
    <3>1. \A r : r \in 1 .. i + 1 <=> r \in 1 .. i \/ r = i + 1
      OBVIOUS
    <3> QED
      BY <3>1, Zenon
  <2>4. Edges(Slopes(w \o v)) = {at(r) : r \in 1 .. i + 1}
    BY <1>10, <2>1, <2>2, <2>3
  <2> QED
    BY <2>4 DEF at
<1>13. Written(intervals, w \o v, t, i + 1)
  <2>1. l + n \in Nat /\ l + n >= 2
    BY <1>11
  <2>2. t[i + 1] \in Nat /\ t[i + 1] >= 2 /\ Len(w \o v) = t[i + 1]
        /\ LastSlope(Slopes(w \o v), t[i + 1] - 1) = Dir(FromTop(i + 1))
    <3>1. Len(w \o v) = l + n /\ LastSlope(Slopes(w \o v), l + n - 1) = Dir(FromTop(i + 1))
      BY <1>3, <1>10
    <3> QED
      BY <1>11, <2>1, <3>1
  <2> QED
    BY <1>10, <1>11, <1>12, <2>2, Zenon DEF Written
<1> QED
  BY <1>1, <1>3, <1>4, <1>13

\* What the file of any intervals tells.
LEMMA FileTells ==
  ASSUME NEW intervals \in Seq(Nat), Kept(intervals), NEW t, Sums(intervals, Len(intervals), t)
  PROVE  Edges(Slopes(FileBytes(intervals)))
           = {t[i - 1] + 1 + intervals[i] \div FlatAt(FromTop(i)) : i \in 1 .. Len(intervals)}
<1>1. PICK k \in Nat : k = Len(intervals)
  OBVIOUS
<1>2. PICK g : Halves(intervals, k, g)
  BY HalvesExist
<1>3. \A i \in 1 .. k : g[i] = g[i - 1] \o HalfWave(intervals[i], FromTop(i))
  BY <1>2, HalvesStep
<1>7. FileBytes(intervals) = g[k]
  <2> DEFINE b(h) == [i \in 0 .. k |-> IF i = 0 THEN <<>>
                                       ELSE h[i - 1] \o HalfWave(intervals[i], FromTop(i))]
             f == CHOOSE h : h = b(h)
  <2>1. g = b(g)
    BY <1>2 DEF Halves
  <2>2. f = b(f)
    <3> HIDE DEF b
    <3> QED
      BY <2>1
  <2>3. FileBytes(intervals) = f[k]
    BY <1>1 DEF FileBytes
  <2>4. Halves(intervals, k, f)
    <3> HIDE DEF f
    <3> QED
      BY <2>2 DEF Halves
  <2> HIDE DEF f, b
  <2>5. \A i \in 1 .. k : f[i] = f[i - 1] \o HalfWave(intervals[i], FromTop(i))
    BY <2>4, HalvesStep
  <2>6. f[k] = g[k]
    <3> DEFINE S == {m \in Nat : m <= k => f[m] = g[m]}
    <3>1. 0 \in S
      <4>1. f[0] = <<>>
        BY <2>4, HalvesStep
      <4>2. g[0] = <<>>
        BY <1>2, HalvesStep
      <4>3. f[0] = g[0]
        BY <4>1, <4>2, Zenon
      <4> QED
        BY <4>3
    <3>2. ASSUME NEW m \in S PROVE m + 1 \in S
      <4>1. SUFFICES ASSUME m + 1 <= k PROVE f[m + 1] = g[m + 1]
        OBVIOUS
      <4>2. PICK j \in 1 .. k : j = m + 1 /\ j - 1 = m /\ f[m] = g[m]
        BY <4>1
      <4> HIDE DEF S
      <4>3. f[j] = f[j - 1] \o HalfWave(intervals[j], FromTop(j))
        BY <2>5, Zenon
      <4>4. g[j] = g[j - 1] \o HalfWave(intervals[j], FromTop(j))
        BY <1>3, Zenon
      <4>5. f[j] = g[j]
        BY <4>2, <4>3, <4>4, Zenon
      <4> QED
        BY <4>2, <4>5
    <3>3. S = Nat
      <4>1. S \in SUBSET Nat
        OBVIOUS
      <4> HIDE DEF S
      <4> QED
        BY <3>1, <3>2, <4>1, Induction
    <3> QED
      BY <3>3
  <2> QED
    BY <2>3, <2>6
<1>4. Written(intervals, g[k], t, k)
  <2> DEFINE S == {m \in Nat : m <= k => Written(intervals, g[m], t, m)}
  <2>1. 0 \in S
    <3>1. g[0] = <<>>
      BY <1>2, HalvesStep
    <3>2. t[0] = 0
      BY <1>1 DEF Sums
    <3>3. <<>> \in Seq(0 .. Longest) /\ Len(<<>>) = 0
      OBVIOUS
    <3>4. Written(intervals, <<>>, t, 0)
      BY <3>2, <3>3 DEF Written
    <3> QED
      BY <3>1, <3>4
  <2>2. ASSUME NEW m \in S PROVE m + 1 \in S
    <3>1. SUFFICES ASSUME m + 1 <= k PROVE Written(intervals, g[m + 1], t, m + 1)
      OBVIOUS
    <3>2. m \in Nat /\ m + 1 \in 0 .. k /\ m + 1 # 0 /\ m + 1 - 1 = m
      BY <3>1
    <3>3. Written(intervals, g[m], t, m)
      BY <3>1, <3>2
    <3>4. g[m + 1] = g[m] \o HalfWave(intervals[m + 1], FromTop(m + 1))
      <4>1. PICK j \in 1 .. k : j = m + 1 /\ j - 1 = m
        BY <3>2
      <4>2. g[j] = g[j - 1] \o HalfWave(intervals[j], FromTop(j))
        BY <1>3, Zenon
      <4> QED
        BY <4>1, <4>2, Zenon
    <3>5. t[m + 1] = t[m] + intervals[m + 1] \div WaveCycles
      BY <1>1, <3>2 DEF Sums
    <3> QED
      BY <1>1, <3>1, <3>2, <3>3, <3>4, <3>5, WrittenNext
  <2>3. S = Nat
    <3>1. S \in SUBSET Nat
      OBVIOUS
    <3> HIDE DEF S
    <3> QED
      BY <2>1, <2>2, <3>1, Induction
  <2> QED
    BY <2>3
<1>5. CASE k = 0
  <2>1. g[k] = <<>> /\ \A i : i \notin 1 .. k
    BY <1>4, <1>5 DEF Written
  <2>2. Edges(Slopes(<<>>)) = {}
    <3>1. Len(Slopes(<<>>)) = 0
      <4>1. Slopes(<<>>) = <<>>
        BY DEF Slopes
      <4> QED
        BY <4>1
    <3> QED
      BY <3>1 DEF Edges
  <2> QED
    BY <1>1, <1>7, <2>1, <2>2
<1>6. CASE k > 0
  BY <1>1, <1>4, <1>6, <1>7 DEF Written
<1> QED
  BY <1>5, <1>6

\* The file of a recording tells its intervals (cassetteout.cpp:104): half waves
\* of their own, by turns, however many there are and whatever lies flat.
LEMMA TypeTells ==
  ASSUME tapeOut.sampOut \in Seq(Nat)
  PROVE  FileTellsIntervals
<1> DEFINE intervals == tapeOut.sampOut
           b(h) == [i \in 0 .. Len(intervals) |->
                      IF i = 0 THEN 0 ELSE h[i - 1] + intervals[i] \div WaveCycles]
           t == CHOOSE h : h = b(h)
<1>1. Sums(intervals, Len(intervals), t)
  <2>1. PICK g : Sums(intervals, Len(intervals), g)
    <3>1. Len(intervals) \in Nat
      BY LenProperties
    <3> QED
      BY <3>1, SumsExist
  <2>2. g = b(g)
    BY <2>1 DEF Sums
  <2>3. t = b(t)
    <3> HIDE DEF b
    <3> QED
      BY <2>2
  <2> HIDE DEF t
  <2> QED
    BY <2>3 DEF Sums
<1>2. FileTellsIntervals
        <=> ((\A i \in DOMAIN intervals :
                intervals[i] \div WaveCycles >= 2 /\ intervals[i] < Longest)
               => Edges(Slopes(FileBytes(intervals)))
                    = {t[i - 1] + 1 + intervals[i] \div FlatAt(FromTop(i)) : i \in DOMAIN intervals})
  BY Zenon DEF FileTellsIntervals
<1> HIDE DEF t, b, intervals
<1>3. intervals \in Seq(Nat) /\ DOMAIN intervals = 1 .. Len(intervals)
  BY DEF intervals
<1> QED
  BY <1>1, <1>2, <1>3, FileTells, Zenon DEF Kept

-----------------------------------------------------------------------------
(* The types.                                                              *)

\* A tape's time without use stays within the pause after which it stops, and a
\* tape that moves has some of the pause left.
Paused(tape) ==
  tape.quiet \in 0 .. StopAfter /\ (tape.playing => tape.quiet < StopAfter)

Times == Seq(0 .. StopAfter)

TypeInv ==
  /\ Paused(tapeIn)
  /\ Paused(tapeOut) /\ tapeOut.sampOut \in Times
  /\ onFile = Damaged \/ onFile \in Times
  /\ disksDirty \in BOOLEAN /\ quit \in BOOLEAN
  /\ {asked.tape, asked.disks} \subseteq Answers \cup {"none"}

\* What the program and the operator do to the tape IN leaves its time in bounds.
LEMMA InPaused ==
  ASSUME NEW tape \in InTapes, Paused(tape)
  PROVE  /\ Paused(Input(tape)) /\ Paused(Heard(tape)) /\ Paused(Sought(tape))
         /\ Paused(Rewound(tape)) /\ Paused(EjectedIn(tape))
<1> DEFINE zero == 0
           no == FALSE
           yes == TRUE
           more == tape.quiet + 1
           on == more < StopAfter
<1>1. /\ zero \in 0 .. StopAfter /\ zero < StopAfter /\ zero \in Nat /\ zero = 0
      /\ no \in BOOLEAN /\ ~no /\ yes \in BOOLEAN
  BY StopAfterType
<1>2. on \in BOOLEAN /\ (tape.playing => more \in 0 .. StopAfter) /\ (on => more < StopAfter)
  BY StopAfterType DEF Paused, InTapes
<1> HIDE DEF no, yes, more, on
<1>3. Paused(Input(tape))
  <2>1. Input(tape) \in {tape, [tape EXCEPT !.playing = yes, !.quiet = zero]}
    BY DEF Input, yes
  <2>2. Paused([tape EXCEPT !.playing = yes, !.quiet = zero])
    BY <1>1 DEF Paused, InTapes
  <2> QED
    BY <2>1, <2>2
<1>4. Paused(Heard(tape))
  <2> DEFINE moved == [Moved(tape) EXCEPT !.t = IF tape.playing THEN @ + 1 ELSE @]
  <2>1. CASE ~tape.playing
    <3>1. moved = tape
      BY <2>1 DEF Moved, InTapes
    <3>2. HeardAt(tape) = tape
      BY <2>1 DEF HeardAt
    <3> QED
      BY <3>1, <3>2 DEF Heard
  <2>2. CASE tape.playing
    <3> DEFINE t == tape.t + 1
    <3>1. moved = [tape EXCEPT !.quiet = more, !.playing = on, !.t = t]
      BY <2>2 DEF Moved, InTapes, more, on
    <3> HIDE DEF t
    <3>2. moved.quiet = more /\ moved.playing = on /\ Paused(moved)
          /\ DOMAIN moved = DOMAIN tape
      BY <1>2, <2>2, <3>1 DEF Paused, InTapes
    <3> HIDE DEF moved
    <3>3. /\ HeardAt(moved).quiet \in {moved.quiet, zero}
          /\ HeardAt(moved).playing => moved.playing /\ HeardAt(moved).quiet = moved.quiet
      BY <3>1, <3>2 DEF HeardAt, InTapes
    <3> QED
      BY <1>1, <3>2, <3>3 DEF Heard, Paused, moved
  <2> QED
    BY <2>1, <2>2
<1>5. Paused(Sought(tape))
  <2> DEFINE s == Search(tape)
             there == [tape EXCEPT !.playing = no, !.positive = s.positive,
                                   !.slopeWas = s.slopeWas]
             time == s.found * SampleCycles - 1
  <2>1. Sought(tape) \in {there, [there EXCEPT !.t = time, !.quiet = zero]}
    BY DEF Sought, no
  <2> HIDE DEF s, time
  <2>2. Paused(there)
    BY <1>1 DEF Paused, InTapes
  <2>3. Paused([there EXCEPT !.t = time, !.quiet = zero])
    BY <1>1 DEF Paused, InTapes
  <2> QED
    BY <2>1, <2>2, <2>3
<1>6. Paused(Rewound(tape))
  <2>1. Rewound(tape) = [tape EXCEPT !.t = zero, !.quiet = zero, !.slopeWas = zero,
                                     !.positive = no, !.playing = no]
    BY DEF Rewound, no
  <2> QED
    BY <1>1, <2>1 DEF Paused, InTapes
<1>7. Paused(EjectedIn(tape))
  <2> DEFINE t == IF tape.loaded THEN 0 ELSE tape.t
             quiet == IF tape.loaded THEN zero ELSE tape.quiet
             memory == IF tape.memory = "null" THEN "null"
                       ELSE IF tape.memory = "live" THEN "freed" ELSE "twice"
  <2>1. EjectedIn(tape) = [tape EXCEPT !.loaded = no, !.playing = no, !.samp = NoTape,
                                       !.t = t, !.quiet = quiet, !.memory = memory]
    BY DEF EjectedIn, InTapes, no
  <2>2. quiet \in 0 .. StopAfter
    BY <1>1 DEF Paused
  <2> HIDE DEF t, quiet, memory
  <2> QED
    BY <1>1, <2>1, <2>2 DEF Paused, InTapes
<1> QED
  BY <1>3, <1>4, <1>5, <1>6, <1>7

LEMMA InsertedPaused ==
  ASSUME tapeIn \in InTapes, NEW samp \in Recordings
  PROVE  Paused(Inserted(samp))
<1> DEFINE out == IF tapeIn.loaded THEN EjectedIn(tapeIn) ELSE tapeIn
           in == [out EXCEPT !.samp = samp, !.memory = "live", !.loaded = TRUE]
           zero == 0
           no == FALSE
<1>1. out \in InTapes
  BY EjectedInStep
<1> HIDE DEF out
<1>2. in \in InTapes
  BY <1>1 DEF InTapes
<1>3. Inserted(samp) = [in EXCEPT !.t = zero, !.quiet = zero, !.slopeWas = zero,
                                  !.positive = no, !.playing = no]
  BY DEF Inserted, Rewound, out
<1>4. zero \in 0 .. StopAfter /\ ~no
  BY StopAfterType
<1> HIDE DEF in, zero, no
<1> QED
  BY <1>2, <1>3, <1>4 DEF Paused, InTapes

\* What the program does to the tape OUT, and the time it records.
LEMMA OutPaused ==
  ASSUME NEW tape \in Tapes, Paused(tape), tape.sampOut \in Times
  PROVE  /\ Paused(Output(tape)) /\ Output(tape).sampOut \in Times
         /\ Paused(Moved(tape)) /\ Moved(tape).sampOut \in Times
<1>1. Paused(Output(tape))
  <2>1. CASE tape.loaded
    BY <2>1, OutputStep, StopAfterType DEF Paused
  <2>2. CASE ~tape.loaded
    BY <2>2, OutputStep
  <2> QED
    BY <2>1, <2>2
<1>2. Output(tape).sampOut \in Times
  <2>1. Append(tape.sampOut, tape.quiet) \in Times
    BY AppendProperties DEF Paused, Times
  <2>2. CASE tape.loaded /\ tape.playing
    BY <2>1, <2>2, OutputStep
  <2>3. CASE ~tape.loaded \/ ~tape.playing
    BY <2>3, OutputStep
  <2> QED
    BY <2>2, <2>3 DEF Tapes
<1>3. Paused(Moved(tape))
  <2>1. CASE tape.playing
    BY <2>1, MovedStep, StopAfterType DEF Paused, Tapes
  <2>2. CASE ~tape.playing
    BY <2>2 DEF Moved
  <2> QED
    BY <2>1, <2>2
<1>4. Moved(tape).sampOut \in Times
  BY MovedStep
<1> QED
  BY <1>1, <1>2, <1>3, <1>4

\* No tape, and a new one.
LEMMA EmptyPaused ==
  /\ Paused(EmptyOut) /\ EmptyOut.sampOut \in Times /\ Paused(EmptyIn)
  /\ Paused([EmptyOut EXCEPT !.loaded = TRUE])
  /\ [EmptyOut EXCEPT !.loaded = TRUE].sampOut \in Times
  /\ <<>> \in Times
<1>1. <<>> \in Times
  BY EmptySeq DEF Times
<1> QED
  BY <1>1, StopAfterType DEF EmptyOut, EmptyIn, Paused

LEMMA EjectedTypes ==
  ASSUME TypeInv, TypeOut, NEW answer \in Answers, NEW written \in BOOLEAN
  PROVE  LET e == Ejected(answer, written)
         IN  /\ e.done \in BOOLEAN
             /\ Paused(e.tape) /\ e.tape.sampOut \in Times
             /\ e.file = Damaged \/ e.file \in Times
             /\ e.asked.tape \in Answers \cup {"none"} /\ e.asked.disks = "none"
             /\ e.asked = [tape |-> e.asked.tape, disks |-> "none", file |-> e.asked.file]
<1> DEFINE asks == tapeOut.loaded /\ tapeOut.modified
           writes == asks /\ answer = "yes"
           content == IF ~writes THEN onFile ELSE IF written THEN tapeOut.sampOut ELSE Damaged
           done == asks => answer = "no" \/ (writes /\ written)
           tape == IF done THEN EmptyOut ELSE tapeOut
           file == IF asks THEN content ELSE <<>>
           says == IF asks THEN answer ELSE "none"
           e == Ejected(answer, written)
<1>1. e = [done |-> done, file |-> content, tape |-> tape,
           asked |-> [tape |-> says, disks |-> "none", file |-> file]]
  BY DEF Ejected
<1>2. done \in BOOLEAN
  BY DEF TypeOut, Tapes
<1>3. Paused(tape) /\ tape.sampOut \in Times
  BY EmptyPaused DEF TypeInv
<1>4. content = Damaged \/ content \in Times
  BY DEF TypeInv
<1>5. says \in Answers \cup {"none"}
  OBVIOUS
<1> HIDE DEF done, content, tape, file, says, e
<1> QED
  BY <1>1, <1>2, <1>3, <1>4, <1>5 DEF e

LEMMA InitTypeInv == TapesInit => TypeInv
<1> SUFFICES ASSUME TapesInit PROVE TypeInv
  OBVIOUS
<1> QED
  BY EmptyPaused DEF TapesInit, TypeInv, NoAnswer

LEMMA NextTypeInv ==
  IInv /\ TapeInv /\ TypeInv /\ [TapesNext]_tapeVars => TypeInv'
<1> SUFFICES ASSUME IInv, TapeInv, TypeInv, [TapesNext]_tapeVars PROVE TypeInv'
  OBVIOUS
<1>1. /\ tapeIn \in InTapes /\ InInv(tapeIn, rise, stale) /\ Paused(tapeIn)
      /\ TypeOut /\ tapeOut \in Tapes /\ Paused(tapeOut) /\ tapeOut.sampOut \in Times
      /\ onFile = Damaged \/ onFile \in Times
      /\ disksDirty \in BOOLEAN /\ quit \in BOOLEAN
      /\ {asked.tape, asked.disks} \subseteq Answers \cup {"none"}
  BY DEF IInv, TypeOut, TapeInv, InInv, TypeInv
<1>2. {NoAnswer.tape, NoAnswer.disks} \subseteq Answers \cup {"none"}
  BY DEF NoAnswer
<1>3. ASSUME NEW access \in {"none", "in", "out"}, Cycle(access) PROVE TypeInv'
  <2> DEFINE in == IF access = "in" THEN Input(tapeIn) ELSE tapeIn
             out == IF access = "out" THEN Output(tapeOut) ELSE tapeOut
  <2>1. tapeIn' = Heard(in) /\ tapeOut' = Moved(out)
    BY <1>3 DEF Cycle
  <2>2. in \in InTapes /\ Paused(in)
    <3>1. InInv(in, rise, stale)
      BY <1>1, InputStep
    <3> QED
      BY <1>1, <3>1, InPaused DEF InInv
  <2>3. out \in Tapes /\ Paused(out) /\ out.sampOut \in Times
    BY <1>1, OutputStep, OutPaused
  <2> HIDE DEF in, out
  <2>4. Paused(tapeIn') /\ Paused(tapeOut') /\ tapeOut'.sampOut \in Times
    BY <2>1, <2>2, <2>3, InPaused, OutPaused
  <2> QED
    BY <1>1, <1>2, <1>3, <2>4 DEF Cycle, TypeInv, Paused
<1>4. ASSUME NEW answer \in Answers, NEW written \in BOOLEAN, EjectOut(answer, written)
      PROVE  TypeInv'
  BY <1>1, <1>4, EjectedTypes DEF EjectOut, TypeInv, Paused
<1>5. ASSUME NEW answer \in Answers, NEW written \in BOOLEAN, NEW made \in BOOLEAN,
             Blank(answer, written, made)
      PROVE  TypeInv'
  <2> DEFINE e == Ejected(answer, written)
             new == [EmptyOut EXCEPT !.loaded = TRUE]
  <2>1. /\ tapeOut' = IF e.done /\ made THEN new ELSE e.tape
        /\ onFile' = IF e.done /\ made THEN <<>> ELSE e.file
        /\ asked' = e.asked
        /\ UNCHANGED <<tapeIn, disksDirty, quit>>
    BY <1>5 DEF Blank
  <2>2. /\ Paused(e.tape) /\ e.tape.sampOut \in Times /\ (e.file = Damaged \/ e.file \in Times)
        /\ {e.asked.tape, e.asked.disks} \subseteq Answers \cup {"none"}
    BY <1>1, EjectedTypes
  <2>3. Paused(new) /\ new.sampOut \in Times /\ <<>> \in Times
    BY EmptyPaused
  <2> HIDE DEF e, new
  <2> QED
    BY <1>1, <2>1, <2>2, <2>3 DEF TypeInv, Paused
<1>6. ASSUME NEW answer \in Answers, NEW written \in BOOLEAN, NEW disksAnswer \in Answers,
             Quit(answer, written, disksAnswer)
      PROVE  TypeInv'
  <2> DEFINE e == Ejected(answer, written)
             asks == e.done /\ disksDirty
             says == IF asks THEN disksAnswer ELSE "none"
  <2>1. /\ tapeOut' = e.tape /\ onFile' = e.file /\ tapeIn' = tapeIn
        /\ disksDirty' = (disksDirty /\ ~(asks /\ disksAnswer = "yes"))
        /\ quit' = (e.done /\ (asks => disksAnswer # "cancel"))
        /\ asked' = [e.asked EXCEPT !.disks = says]
    BY <1>6 DEF Quit
  <2>2. /\ Paused(e.tape) /\ e.tape.sampOut \in Times /\ (e.file = Damaged \/ e.file \in Times)
        /\ e.asked.tape \in Answers \cup {"none"} /\ e.done \in BOOLEAN
        /\ e.asked = [tape |-> e.asked.tape, disks |-> "none", file |-> e.asked.file]
    BY <1>1, EjectedTypes
  <2>3. says \in Answers \cup {"none"} /\ asks \in BOOLEAN
    BY <1>1, <2>2
  <2> HIDE DEF e, asks, says
  <2>4. asked'.tape = e.asked.tape /\ asked'.disks = says
    BY <2>1, <2>2
  <2>5. disksDirty' \in BOOLEAN /\ quit' \in BOOLEAN
    BY <2>1, <2>2, <2>3
  <2> QED
    BY <1>1, <2>1, <2>2, <2>3, <2>4, <2>5 DEF TypeInv, Paused
<1>7. ASSUME NEW written \in BOOLEAN, SaveOut(written) PROVE TypeInv'
  <2>1. /\ tapeOut'.quiet = tapeOut.quiet /\ tapeOut'.playing = tapeOut.playing
        /\ tapeOut'.sampOut = tapeOut.sampOut
    BY <1>1, <1>7 DEF SaveOut, Tapes
  <2> QED
    BY <1>1, <1>2, <1>7, <2>1 DEF SaveOut, TypeInv, Paused
<1>8. ASSUME NEW samp \in Recordings, LoadIn(samp) PROVE TypeInv'
  <2>1. Inserted(samp) \in InTapes
    BY <1>1, InsertedStep DEF InInv
  <2>2. Paused(Sought(Inserted(samp)))
    BY <1>1, <2>1, InsertedPaused, InPaused
  <2> QED
    BY <1>1, <1>2, <1>8, <2>2 DEF LoadIn, TypeInv, Paused
<1>9. CASE RewindIn \/ ToneIn
  <2>1. Paused(tapeIn')
    BY <1>1, <1>9, InPaused DEF RewindIn, ToneIn, Paused
  <2> QED
    BY <1>1, <1>2, <1>9, <2>1 DEF RewindIn, ToneIn, TypeInv, Paused
<1>12. CASE EjectIn
  <2>1. Paused(tapeIn')
    BY <1>1, <1>12, InPaused DEF EjectIn, Paused
  <2>2. quit' \in BOOLEAN
    BY <1>12, Zenon DEF EjectIn
  <2> QED
    BY <1>1, <1>2, <1>12, <2>1, <2>2 DEF EjectIn, TypeInv, Paused
<1>10. CASE WriteDisk
  BY <1>1, <1>2, <1>10 DEF WriteDisk, TypeInv, Paused
<1>11. CASE UNCHANGED tapeVars
  BY <1>1, <1>11 DEF tapeVars, TypeInv, Paused
<1> QED
  BY <1>3, <1>4, <1>5, <1>6, <1>7, <1>8, <1>9, <1>10, <1>11, <1>12 DEF TapesNext

\* Whatever is recorded, played, ejected and saved, and for every pause after which
\* a tape stops: no time of a tape, in its recording or in its file is longer than
\* that pause, and only the answers that the dialogs offer are given.
THEOREM TypeCorrect == TapesSpec => []TapesTypeOK
<1>1. IInv /\ TapeInv /\ TypeInv => TapesTypeOK
  <2> SUFFICES ASSUME IInv, TapeInv, TypeInv PROVE TapesTypeOK
    OBVIOUS
  <2>1. tapeIn \in InTapes /\ tapeIn.quiet \in 0 .. StopAfter
        /\ rise \in {-1, 0, 1} /\ stale \in BOOLEAN
    BY DEF TapeInv, InInv, LevelIs, TypeInv, Paused
  <2>2. tapeOut \in Tapes /\ tapeOut.quiet \in 0 .. StopAfter /\ tapeOut.sampOut \in Times
        /\ since \in 0 .. StopAfter
    BY DEF IInv, TypeOut, TypeInv, Paused
  <2>3. tapeIn \in [loaded : BOOLEAN, playing : BOOLEAN, quiet : 0 .. StopAfter, t : Nat,
                    samp : Recordings \cup {NoTape}, memory : {"null", "live", "freed", "twice"},
                    positive : BOOLEAN, slopeWas : {-1, 0, 1}]
    BY <2>1 DEF InTapes
  <2>4. tapeOut \in [loaded : BOOLEAN, playing : BOOLEAN, quiet : 0 .. StopAfter,
                     modified : BOOLEAN, sampOut : Seq(0 .. StopAfter), lamp : BOOLEAN]
    BY <2>2 DEF Tapes, Times
  <2> QED
    BY <2>1, <2>2, <2>3, <2>4 DEF TapesTypeOK, TypeInv, Times
<1> QED
  BY <1>1, InitIInv, NextIInv, InitTapeInv, NextTapeInv, InitTypeInv, NextTypeInv, PTL DEF TapesSpec

\* For every recording and every length of a sample and of what lies flat: the file
\* of the tape has a half wave for each interval and no more, each beginning where
\* those before it end and as much later as is flat, as long as each interval is of
\* two samples or more and is not left out.
THEOREM FileTellsRecording == TapesSpec => []FileTellsIntervals
<1>1. TypeInv => FileTellsIntervals
  <2> SUFFICES ASSUME TypeInv PROVE FileTellsIntervals
    OBVIOUS
  <2>1. tapeOut.sampOut \in Seq(0 .. StopAfter)
    BY DEF TypeInv, Times
  <2>2. \A i \in 0 .. StopAfter : i \in Nat
    BY StopAfterType
  <2>3. tapeOut.sampOut \in Seq(Nat)
    <3> DEFINE T == 0 .. StopAfter
    <3>1. T \subseteq Nat
      BY <2>2
    <3>2. tapeOut.sampOut \in Seq(T)
      BY <2>1
    <3> HIDE DEF T
    <3> QED
      BY <3>1, <3>2, SeqMonotonic
  <2> QED
    BY <2>3, TypeTells
<1> QED
  BY <1>1, InitIInv, NextIInv, InitTapeInv, NextTapeInv, InitTypeInv, NextTypeInv, PTL DEF TapesSpec
=============================================================================
