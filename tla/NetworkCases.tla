----------------------------- MODULE NetworkCases -----------------------------
(***************************************************************************)
(* Small networks of transistors, each a part that the network of the 6502 *)
(* is made of, with what it should come to: rings of inverters, a flip-flop *)
(* of two gates, and a processor of two bits that keeps the data of a read  *)
(* cycle and writes it in the next write cycle.                            *)
(***************************************************************************)
EXTENDS SwitchLevel

\* Segments by name: those with a plus before the others, the supply first and
\* ground last.
Network(trans, pins) == [trans |-> trans, up |-> 1 .. 19, vss |-> 90, vcc |-> 1, pins |-> pins]

Inverter(in, out) == <<out, in, 90>>

Ring(n) == Network({Inverter(1 + k, 2 + (k % n)) : k \in 1 .. n}, <<>>)

\* Two gates, each with the output of the other and a pin of its own (60, 61).
FlipFlop == Network({<<2, 60, 90>>, <<2, 3, 90>>, <<3, 61, 90>>, <<3, 2, 90>>}, <<>>)

CLK0 == 30
CLK2OUT == 31
RES == 40
RW == 41

\* A bit of the processor: the data pin is stored (segment 2 on: reading), and
\* driven from what is stored by two transistors when writing.
DataBit(pin, stored, inverted, high, low) ==
  {<<pin, 2, stored>>, Inverter(stored, inverted),
   Inverter(RW, high), Inverter(inverted, high), Inverter(RW, low), Inverter(stored, low),
   <<1, high, pin>>, <<90, low, pin>>}

TwoBits ==
  Network({Inverter(CLK0, 3), Inverter(RW, 4), Inverter(3, 2), Inverter(4, 2),
           <<1, CLK0, CLK2OUT>>, <<90, 3, CLK2OUT>>, Inverter(RES, 17)}
            \cup DataBit(32, 50, 5, 6, 7) \cup DataBit(33, 51, 8, 9, 10),
          [db |-> <<32, 33>>, clk0 |-> CLK0, clk2out |-> CLK2OUT, rw |-> RW, res |-> RES,
           high |-> {RW}, low |-> {RES}])

Cycles == [rw : BOOLEAN, data : SUBSET {1, 2}]

Networks ==
  [fn : {"ring"}, n : 1 .. 4]
    \cup [fn : {"flip-flop"}, pins : [1 .. 4 -> SUBSET {60, 61}]]
    \cup [fn : {"two bits"}, cycles : UNION {[1 .. n -> Cycles] : n \in 1 .. 3}]

\* A cycle of the processor, with the direction and the memory's answer.
Cycle(m, cycle) ==
  EmuTick(TwoBits, [m EXCEPT !.bus = cycle.data,
                             !.state = SetPins(TwoBits, @, [s \in {RW} |-> cycle.rw])])

WrittenIn(cycles) ==
  FoldLeft(LAMBDA r, cycle : IF cycle.rw THEN [r EXCEPT !.held = cycle.data]
                             ELSE [r EXCEPT !.written = Append(@, r.held)],
           [held |-> {}, written |-> <<>>], cycles).written

Settles(net) ==
  CASE net.fn = "ring" ->
         LET state == Read(Ring(net.n))
         IN  /\ state.thrown = (net.n % 2 = 1)
             /\ ~state.thrown => AtRest(Ring(net.n), state)
    [] net.fn = "flip-flop" ->
         LET state == FoldLeft(LAMBDA s, pins : SetPins(FlipFlop, s, [p \in {60, 61} |-> p \in pins]),
                               Read(FlipFlop), net.pins)
             used  == SelectSeq(net.pins, LAMBDA pins : pins # {})
             out   == state.on \cap {2, 3}
         IN  /\ ~state.thrown /\ AtRest(FlipFlop, state)
             /\ net.pins[4] = {60} => out = {3}
             /\ net.pins[4] = {61} => out = {2}
             /\ net.pins[4] = {60, 61} => out = {}
             /\ net.pins[4] = {} => Cardinality(out) = 1
             /\ net.pins[4] = {} /\ used # <<>> =>
                  /\ Last(used) = {60} => out = {3}
                  /\ Last(used) = {61} => out = {2}
    [] OTHER ->
         LET cycles == <<[rw |-> TRUE, data |-> {1}]>> \o net.cycles
             m      == FoldLeft(Cycle, EmuReset(TwoBits, PowerOn(TwoBits, {})), cycles)
         IN  /\ ~m.state.thrown /\ AtRest(TwoBits, m.state)
             /\ m.written = WrittenIn(cycles)
=============================================================================
