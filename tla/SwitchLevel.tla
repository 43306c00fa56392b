----------------------------- MODULE SwitchLevel -----------------------------
(***************************************************************************)
(* The processor simulated transistor by transistor (Segment and Trans of  *)
(* trans.h, Circuit, StateCalculator, TransNetwork, Cpu6502 and            *)
(* Cpu6502Helper): a network of n-channel transistors whose segments are   *)
(* on or off, recalculated in rounds until nothing changes.                *)
(*                                                                         *)
(* A network is a record [trans, up, vss, vcc, pins]: its transistors, each *)
(* a tuple <<c1, gate, c2>>, the segments whose name begins with a plus     *)
(* (they have a pull-up), ground, supply, and the segments that the         *)
(* program calls by name.  Segments are numbers in the order of their       *)
(* names, the order in which the program goes through a set of them.       *)
(***************************************************************************)
EXTENDS Integers, Sequences, FiniteSetsExt, SequencesExt

\* StateCalculator gives up, with an exception nobody catches, in this round.
SANE == 100

Segments(net) == UNION {{t[1], t[2], t[3]} : t \in net.trans}
Gates(net, segment) == {t \in net.trans : t[2] = segment}

\* The network read from the file: pulls by name, everything off.
Unpowered(net) ==
  [pull |-> [s \in Segments(net) |-> IF s \in net.up THEN "up" ELSE "float"],
   on |-> {}, conducting |-> {}, thrown |-> FALSE]

-----------------------------------------------------------------------------
(* Circuit: the segments connected to one, and what they amount to.        *)

\* The other legs of the conducting transistors at a segment.
Connected(net, state, segment) ==
  {t[3] : t \in {u \in state.conducting : u[1] = segment}}
    \cup {t[1] : t \in {u \in state.conducting : u[3] = segment}}

\* Neither ground nor supply is passed.
RECURSIVE Extended(_, _, _, _)
Extended(net, state, segs, next) ==
  IF next = {} THEN segs
  ELSE LET found == UNION {Connected(net, state, s) : s \in next \ {net.vss, net.vcc}}
       IN  Extended(net, state, segs \cup found, found \ segs)

Extend(net, state, segment) == Extended(net, state, {segment}, {segment})

RECURSIVE ByName(_)
ByName(segs) ==
  IF segs = {} THEN <<>> ELSE LET first == Min(segs) IN <<first>> \o ByName(segs \ {first})

\* A group with ground is off.  Otherwise the first segment, by name, that has
\* a pull or is a floating one that is on decides.
GetValue(net, state, segs) ==
  /\ net.vss \notin segs
  /\ LET decisive == SelectSeq(ByName(segs), LAMBDA s : state.pull[s] # "float" \/ s \in state.on)
     IN  /\ decisive # <<>>
         /\ state.pull[Head(decisive)] # "down"

-----------------------------------------------------------------------------
(* StateCalculator.                                                        *)

\* FAULT: the legs of a transistor switched off are not looked at.
SetSegOnOnly(net, calc, segment, on) ==
  LET gates == Gates(net, segment)
  IN  [state |-> [calc.state EXCEPT
           !.on = IF on THEN @ \cup {segment} ELSE @ \ {segment},
           !.conducting = IF on THEN @ \cup gates ELSE @ \ gates],
       segs |-> calc.segs \cup UNION {{t[1], t[3]} : t \in IF on THEN gates \ calc.state.conducting ELSE {}}]

\* The transistors that the segment switches, and the legs of those to look at.
SetSeg(net, calc, segment, on) ==
  IF (segment \in calc.state.on) = on THEN calc
  ELSE LET gates   == Gates(net, segment)
           turned  == IF on THEN gates \ calc.state.conducting
                      ELSE gates \cap calc.state.conducting
       IN  [state |-> [calc.state EXCEPT
                !.on = IF on THEN @ \cup {segment} ELSE @ \ {segment},
                !.conducting = IF on THEN @ \cup gates ELSE @ \ gates],
            segs |-> calc.segs \cup UNION {{t[1], t[3]} : t \in turned}]

\* The value is worked out again for every segment of the group, which is the
\* one of before the first was set.
RecalcNode(net, calc, segment) ==
  IF segment \in {net.vss, net.vcc} THEN calc
  ELSE LET group == Extend(net, calc.state, segment)
       IN  FoldLeft(LAMBDA c, s : SetSeg(net, c, s, GetValue(net, c.state, group)),
                    calc, ByName(group))

RECURSIVE Rounds(_, _, _, _)
Rounds(net, state, changed, sanity) ==
  IF changed = {} THEN state
  ELSE IF sanity + 1 >= SANE THEN [state EXCEPT !.thrown = TRUE]
  ELSE LET calc == FoldLeft(LAMBDA c, s : RecalcNode(net, c, s),
                            [state |-> state, segs |-> {}], ByName(changed))
       IN  Rounds(net, calc.state, calc.segs, sanity + 1)

Recalc(net, state, segs) == IF state.thrown THEN state ELSE Rounds(net, state, segs, 0)

\* TransNetwork: the network as it is once read.
Read(net) == Recalc(net, Unpowered(net), Segments(net))

\* Cpu6502::setPins: pins is a function from segments to booleans.
SetPins(net, state, pins) ==
  Recalc(net,
         [state EXCEPT !.pull = [s \in DOMAIN @ |-> IF s \in DOMAIN pins
                                                    THEN IF pins[s] THEN "up" ELSE "down"
                                                    ELSE @[s]]],
         DOMAIN pins)

-----------------------------------------------------------------------------
(* Cpu6502 and its helper: phases of the clock, and the bus in the second. *)
(* A machine is [state, nextPhase, bus, written]; its bus answers with a    *)
(* byte of as many bits as the network has data pins, and keeps what is     *)
(* written.                                                                *)

\* Segment::asByte and asWord: the places of the segments that are on.
Pattern(state, segs) == {place \in DOMAIN segs : segs[place] \in state.on}

DataPinSettings(net, data) ==
  [s \in ToSet(net.pins.db) |-> \E place \in data : net.pins.db[place] = s]

PowerOn(net, bus) ==
  LET p == net.pins
  IN  [state |-> SetPins(net, Read(net),
          [s \in {net.vcc, net.vss} \cup p.high \cup p.low |-> s = net.vcc \/ s \in p.high]),
       nextPhase |-> TRUE, bus |-> bus, written |-> <<>>]

ReadData(net, m) ==
  IF net.pins.rw \in m.state.on
  THEN [m EXCEPT !.state = SetPins(net, @, DataPinSettings(net, m.bus))]
  ELSE m

WriteData(net, m) ==
  IF net.pins.rw \in m.state.on THEN m
  ELSE [m EXCEPT !.written = Append(@, Pattern(m.state, net.pins.db))]

Rw(net, m) == IF net.pins.clk2out \in m.state.on THEN WriteData(net, ReadData(net, m)) ELSE m

Clock(net, m, phase) ==
  Rw(net, [m EXCEPT !.state = SetPins(net, @, [s \in {net.pins.clk0} |-> phase])])

Step(net, m) == Clock(net, [m EXCEPT !.nextPhase = ~@], ~m.nextPhase)

EmuTick(net, m) == Step(net, Step(net, m))

\* The helper's reset lets go of the pin that held the processor.
EmuReset(net, m) == [m EXCEPT !.state = SetPins(net, @, [s \in {net.pins.res} |-> TRUE])]

-----------------------------------------------------------------------------
(* Nothing is left to do: transistors are as their gates, segments as their *)
(* groups say.                                                             *)
AtRest(net, state) ==
  /\ state.conducting = {t \in net.trans : t[2] \in state.on}
  /\ \A s \in Segments(net) \ {net.vss, net.vcc} :
       (s \in state.on) = GetValue(net, state, Extend(net, state, s))
=============================================================================
