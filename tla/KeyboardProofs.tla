--------------------------- MODULE KeyboardProofs ---------------------------
(***************************************************************************)
(* Proofs about Keyboard, for every set of keys and any number of keys     *)
(* typed; about the motor, the paddles, the power and the reset of         *)
(* Peripherals, for all delays and places of the mouse; and about the      *)
(* counters of Picture, with the power switched in any cycle.              *)
(***************************************************************************)
EXTENDS Keyboard, PeripheralCases, PictureCases, SequenceTheorems, TLAPS

Chars == Keys \cup {Noise}

\* Buffering is off only when it has been off.
IInv ==
  /\ KeyboardTypeOK
  /\ ~buffered => unbuffered
  /\ NoKeyLost

-----------------------------------------------------------------------------
\* The key in the latch as a sequence.
LEMMA WaitingType ==
  ASSUME NEW l \in Latches
  PROVE  Waiting(l) \in Seq(Chars)
<1>1. l.key \in Chars
  BY DEF Latches, Chars
<1>2. <<l.key>> \in Seq(Chars) /\ <<>> \in Seq(Chars)
  BY <1>1
<1>3. QED
  BY <1>2 DEF Waiting

\* A queue is its head followed by its tail.
LEMMA HeadThenTail ==
  ASSUME NEW s \in Seq(Chars), s # <<>>
  PROVE  s = <<Head(s)>> \o Tail(s)
<1>1. Len(s) \in Nat \ {0}
  BY EmptySeq
<1>2. SubSeq(s, 1, Len(s)) = <<s[1]>> \o SubSeq(s, 2, Len(s))
  BY <1>1, SubSeqRecursiveFirst
<1>3. Tail(s) = SubSeq(s, 2, Len(s))
  BY TailIsSubSeq
<1>4. SubSeq(s, 1, Len(s)) = s
  BY SubSeqFull
<1>5. Head(s) = s[1]
  OBVIOUS
<1>6. QED
  BY <1>2, <1>3, <1>4, <1>5

LEMMA InitIInv == KeyboardInit => IInv
<1> SUFFICES ASSUME KeyboardInit PROVE IInv
  OBVIOUS
<1>1. latch \in Latches
  BY DEF KeyboardInit, Latches
<1>2. Waiting(latch) \in Seq(Chars)
  BY <1>1, WaitingType
<1>3. <<>> \in Seq(Keys) /\ <<>> \in Seq(Chars)
  BY EmptySeq
<1>4. typed = Waiting(latch) /\ cleared = <<>> /\ keys = <<>>
  BY DEF KeyboardInit
<1>5. typed = cleared \o Waiting(latch) \o keys
  BY <1>2, <1>4, ConcatEmptySeq
<1>6. QED
  BY <1>1, <1>2, <1>3, <1>4, <1>5 DEF KeyboardInit, IInv, KeyboardTypeOK, NoKeyLost, Chars

LEMMA NextIInv == IInv /\ [KeyboardNext]_keyboardVars => IInv'
<1> SUFFICES ASSUME IInv, [KeyboardNext]_keyboardVars PROVE IInv'
  OBVIOUS
<1>1. /\ keys \in Seq(Keys) /\ keys \in Seq(Chars)
      /\ latch \in Latches /\ Waiting(latch) \in Seq(Chars)
      /\ typed \in Seq(Chars) /\ cleared \in Seq(Chars)
      /\ cleared \o Waiting(latch) \in Seq(Chars)
  BY WaitingType, ConcatProperties, SeqMonotonic DEF IInv, KeyboardTypeOK, Chars
<1>2. ASSUME NEW k \in Keys, Type(k) PROVE IInv'
  <2>1. /\ keys' = keys \o <<k>> /\ typed' = typed \o <<k>>
        /\ UNCHANGED <<latch, buffered, cleared, unbuffered>>
    BY <1>1, <1>2, AppendIsConcat DEF Type, Chars
  <2>2. <<k>> \in Seq(Keys) /\ <<k>> \in Seq(Chars)
    BY DEF Chars
  <2>3. keys' \in Seq(Keys) /\ typed' \in Seq(Chars)
    BY <1>1, <2>1, <2>2, ConcatProperties
  <2>4. (cleared \o Waiting(latch) \o keys) \o <<k>>
          = cleared \o Waiting(latch) \o (keys \o <<k>>)
    BY <1>1, <2>2, ConcatAssociative
  <2>5. NoKeyLost'
    BY <2>1, <2>4 DEF IInv, NoKeyLost
  <2>6. QED
    BY <1>1, <2>1, <2>3, <2>5 DEF IInv, KeyboardTypeOK, Chars
<1>3. CASE Get /\ ReadsNext
  <2>1. /\ latch' = [key |-> Head(keys), strobe |-> TRUE] /\ keys' = Tail(keys)
        /\ UNCHANGED <<buffered, typed, cleared, unbuffered>>
        /\ keys # <<>>
    BY <1>3 DEF Get, ReadsNext
  <2>2. Head(keys) \in Keys /\ Tail(keys) \in Seq(Keys) /\ Tail(keys) \in Seq(Chars)
    BY <1>1, <2>1, HeadTailProperties, SeqMonotonic DEF Chars
  <2>3. latch' \in Latches
    BY <2>1, <2>2 DEF Latches
  <2>4. Waiting(latch)' = <<Head(keys)>> /\ <<Head(keys)>> \in Seq(Chars)
    BY <2>1, <2>2 DEF Waiting, Chars
  <2>5. ASSUME ~unbuffered PROVE typed = cleared \o Waiting(latch)' \o Tail(keys)
    <3>1. ~latch.strobe
      BY <1>3, <2>5 DEF IInv, ReadsNext
    <3>2. typed = cleared \o <<>> \o keys
      BY <2>5, <3>1 DEF IInv, NoKeyLost, Waiting
    <3>3. typed = cleared \o (<<Head(keys)>> \o Tail(keys))
      BY <1>1, <2>1, <3>2, HeadThenTail, ConcatEmptySeq
    <3>4. QED
      BY <1>1, <2>2, <2>4, <3>3, ConcatAssociative
  <2>6. NoKeyLost'
    BY <2>1, <2>5 DEF NoKeyLost
  <2>7. QED
    BY <1>1, <2>1, <2>2, <2>3, <2>6 DEF IInv, KeyboardTypeOK, Chars
<1>4. CASE Get /\ ~ReadsNext
  <2>1. UNCHANGED keyboardVars
    BY <1>4 DEF Get, keyboardVars
  <2>2. QED
    BY <2>1 DEF keyboardVars, IInv, KeyboardTypeOK, NoKeyLost, Waiting
<1>5. CASE Clear
  <2>1. /\ latch' = [latch EXCEPT !.strobe = FALSE]
        /\ cleared' = cleared \o Waiting(latch)
        /\ UNCHANGED <<keys, buffered, typed, unbuffered>>
    BY <1>5 DEF Clear
  <2>2. latch' \in Latches /\ ~latch'.strobe
    BY <1>1, <2>1 DEF Latches
  <2>3. cleared' \o Waiting(latch)' = cleared \o Waiting(latch)
    BY <1>1, <2>1, <2>2, ConcatEmptySeq DEF Waiting
  <2>4. NoKeyLost'
    BY <2>1, <2>3 DEF IInv, NoKeyLost
  <2>5. QED
    BY <1>1, <2>1, <2>2, <2>4 DEF IInv, KeyboardTypeOK, Chars
<1>6. CASE ToggleBuffered
  <2>1. /\ buffered' = ~buffered /\ unbuffered' = (unbuffered \/ buffered)
        /\ UNCHANGED <<keys, latch, typed, cleared>>
    BY <1>6 DEF ToggleBuffered
  <2>2. KeyboardTypeOK' /\ (~buffered => unbuffered)'
    BY <2>1 DEF IInv, KeyboardTypeOK
  <2>3. NoKeyLost'
    BY <2>1 DEF IInv, NoKeyLost
  <2>4. QED
    BY <2>2, <2>3 DEF IInv
<1>7. CASE UNCHANGED keyboardVars
  BY <1>7 DEF keyboardVars, IInv, KeyboardTypeOK, NoKeyLost, Waiting
<1>8. QED
  BY <1>2, <1>3, <1>4, <1>5, <1>6, <1>7 DEF KeyboardNext

-----------------------------------------------------------------------------
(* The order of the keys when some are lost.                               *)

\* s is a subsequence of t: the places of its elements increase.
Embeds(s, t) ==
  \E p \in [1 .. Len(s) -> 1 .. Len(t)] :
    /\ \A i \in 1 .. Len(s) : t[p[i]] = s[i]
    /\ \A i, j \in 1 .. Len(s) : i < j => p[i] < p[j]

\* The keys that the program may still clear, after those it has.
Remaining == cleared \o Waiting(latch) \o keys

OrderInv == KeyboardTypeOK /\ Embeds(Remaining, typed)

LEMMA EmbedsItself ==
  ASSUME NEW S, NEW s \in Seq(S)
  PROVE  Embeds(s, s)
<1> DEFINE p == [i \in 1 .. Len(s) |-> i]
<1>1. p \in [1 .. Len(s) -> 1 .. Len(s)]
  OBVIOUS
<1>2. \A i \in 1 .. Len(s) : s[p[i]] = s[i]
  OBVIOUS
<1>3. \A i, j \in 1 .. Len(s) : i < j => p[i] < p[j]
  OBVIOUS
<1>4. QED
  BY <1>1, <1>2, <1>3 DEF Embeds

\* The last elements of both are the same.
LEMMA EmbedsAfterAppend ==
  ASSUME NEW S, NEW s \in Seq(S), NEW t \in Seq(S), NEW k \in S, Embeds(s, t)
  PROVE  Embeds(Append(s, k), Append(t, k))
<1>1. PICK p \in [1 .. Len(s) -> 1 .. Len(t)] :
        /\ \A i \in 1 .. Len(s) : t[p[i]] = s[i]
        /\ \A i, j \in 1 .. Len(s) : i < j => p[i] < p[j]
  BY DEF Embeds
<1> DEFINE q == [i \in 1 .. Len(s) + 1 |-> IF i = Len(s) + 1 THEN Len(t) + 1 ELSE p[i]]
<1>2. /\ Len(s) \in Nat /\ Len(t) \in Nat
      /\ Len(Append(s, k)) = Len(s) + 1 /\ Len(Append(t, k)) = Len(t) + 1
  OBVIOUS
<1>3. q \in [1 .. Len(s) + 1 -> 1 .. Len(t) + 1]
  BY <1>2
<1>4. ASSUME NEW i \in 1 .. Len(s) + 1 PROVE Append(t, k)[q[i]] = Append(s, k)[i]
  <2>1. CASE i = Len(s) + 1
    BY <1>2, <2>1
  <2>2. CASE i # Len(s) + 1
    <3>1. i \in 1 .. Len(s) /\ q[i] = p[i] /\ p[i] \in 1 .. Len(t)
      BY <1>2, <2>2
    <3>2. Append(t, k)[p[i]] = t[p[i]] /\ Append(s, k)[i] = s[i]
      BY <1>2, <3>1
    <3>3. QED
      BY <1>1, <3>1, <3>2
  <2>3. QED
    BY <2>1, <2>2
<1>5. ASSUME NEW i \in 1 .. Len(s) + 1, NEW j \in 1 .. Len(s) + 1, i < j
      PROVE  q[i] < q[j]
  <2>1. i \in 1 .. Len(s) /\ i # Len(s) + 1
    BY <1>2, <1>5
  <2>2. q[i] = p[i] /\ p[i] \in 1 .. Len(t)
    BY <2>1
  <2>3. CASE j = Len(s) + 1
    <3>1. q[j] = Len(t) + 1
      BY <2>3
    <3>2. QED
      BY <1>2, <2>2, <3>1
  <2>4. CASE j # Len(s) + 1
    <3>1. j \in 1 .. Len(s) /\ q[j] = p[j]
      BY <1>2, <2>4
    <3>2. p[i] < p[j]
      BY <1>1, <1>5, <2>1, <3>1
    <3>3. QED
      BY <2>2, <3>1, <3>2
  <2>5. QED
    BY <2>3, <2>4
<1> HIDE DEF q
<1>6. Embeds(Append(s, k), Append(t, k))
  <2>1. \A i \in 1 .. Len(s) + 1 : Append(t, k)[q[i]] = Append(s, k)[i]
    BY <1>4
  <2>2. \A i, j \in 1 .. Len(s) + 1 : i < j => q[i] < q[j]
    BY <1>5
  <2>3. q \in [1 .. Len(Append(s, k)) -> 1 .. Len(Append(t, k))]
    BY <1>2, <1>3
  <2>4. QED
    BY <1>2, <2>1, <2>2, <2>3 DEF Embeds
<1>7. QED
  BY <1>6

\* A subsequence remains one when a part of it is left out.
LEMMA EmbedsWithout ==
  ASSUME NEW S, NEW a \in Seq(S), NEW b \in Seq(S), NEW c \in Seq(S), NEW t \in Seq(S),
         Embeds(a \o b \o c, t)
  PROVE  Embeds(a \o c, t)
<1> DEFINE s == a \o b \o c
           r == a \o c
           From(i) == IF i <= Len(a) THEN i ELSE i + Len(b)
<1>1. PICK p \in [1 .. Len(s) -> 1 .. Len(t)] :
        /\ \A i \in 1 .. Len(s) : t[p[i]] = s[i]
        /\ \A i, j \in 1 .. Len(s) : i < j => p[i] < p[j]
  BY DEF Embeds
<1>2. /\ Len(a) \in Nat /\ Len(b) \in Nat /\ Len(c) \in Nat
      /\ a \o b \in Seq(S) /\ Len(a \o b) = Len(a) + Len(b)
      /\ Len(s) = Len(a) + Len(b) + Len(c) /\ Len(r) = Len(a) + Len(c)
  BY ConcatProperties
<1>3. ASSUME NEW i \in 1 .. Len(r) PROVE From(i) \in 1 .. Len(s) /\ s[From(i)] = r[i]
  <2>1. CASE i <= Len(a)
    <3>1. i \in 1 .. Len(a) /\ i \in 1 .. Len(a \o b) /\ From(i) = i
      BY <1>2, <2>1
    <3>2. r[i] = a[i] /\ (a \o b)[i] = a[i] /\ s[i] = (a \o b)[i]
      BY <1>2, <3>1, ConcatProperties
    <3>3. QED
      BY <1>2, <3>1, <3>2
  <2>2. CASE ~(i <= Len(a))
    <3>1. /\ i - Len(a) \in 1 .. Len(c) /\ From(i) = i + Len(b)
          /\ i + Len(b) \in Len(a) + Len(b) + 1 .. Len(s)
          /\ (i + Len(b)) - (Len(a) + Len(b)) = i - Len(a)
      BY <1>2, <2>2
    <3>2. r[i] = c[i - Len(a)]
      BY <1>2, <2>2, ConcatProperties
    <3>3. s[i + Len(b)] = c[(i + Len(b)) - Len(a \o b)]
      BY <1>2, <3>1, ConcatProperties
    <3>4. QED
      BY <1>2, <3>1, <3>2, <3>3
  <2>3. QED
    BY <2>1, <2>2
<1>4. ASSUME NEW i \in 1 .. Len(r), NEW j \in 1 .. Len(r), i < j
      PROVE  From(i) < From(j)
  BY <1>2, <1>4
<1> DEFINE q == [i \in 1 .. Len(r) |-> p[From(i)]]
<1> HIDE DEF From, s, r
<1>5. q \in [1 .. Len(r) -> 1 .. Len(t)]
  BY <1>3
<1>6. \A i \in 1 .. Len(r) : t[q[i]] = r[i]
  BY <1>1, <1>3
<1>7. \A i, j \in 1 .. Len(r) : i < j => q[i] < q[j]
  BY <1>1, <1>3, <1>4
<1> HIDE DEF q
<1>8. Embeds(r, t)
  BY <1>5, <1>6, <1>7 DEF Embeds
<1>9. QED
  BY <1>8 DEF r

LEMMA InitOrder == KeyboardInit => OrderInv
<1> SUFFICES ASSUME KeyboardInit PROVE OrderInv
  OBVIOUS
<1>1. KeyboardTypeOK
  BY InitIInv DEF IInv
<1>2. typed \in Seq(Chars) /\ typed = Remaining
  BY <1>1, ConcatEmptySeq DEF KeyboardInit, KeyboardTypeOK, Remaining, Chars
<1>3. Embeds(Remaining, typed)
  BY <1>2, EmbedsItself
<1>4. QED
  BY <1>1, <1>3 DEF OrderInv

LEMMA NextOrder == OrderInv /\ KeyboardTypeOK' /\ [KeyboardNext]_keyboardVars => OrderInv'
<1> SUFFICES ASSUME OrderInv, KeyboardTypeOK', [KeyboardNext]_keyboardVars PROVE OrderInv'
  OBVIOUS
<1>1. /\ keys \in Seq(Keys) /\ keys \in Seq(Chars)
      /\ latch \in Latches /\ Waiting(latch) \in Seq(Chars)
      /\ typed \in Seq(Chars) /\ cleared \in Seq(Chars)
      /\ cleared \o Waiting(latch) \in Seq(Chars) /\ Remaining \in Seq(Chars)
  BY WaitingType, ConcatProperties, SeqMonotonic DEF OrderInv, KeyboardTypeOK, Chars, Remaining
<1>2. Embeds(Remaining, typed)
  BY DEF OrderInv
<1>3. SUFFICES Embeds(Remaining', typed')
  BY DEF OrderInv
<1>4. ASSUME NEW k \in Keys, Type(k) PROVE Embeds(Remaining', typed')
  <2>1. /\ keys' = keys \o <<k>> /\ typed' = Append(typed, k)
        /\ UNCHANGED <<latch, cleared>> /\ k \in Chars /\ <<k>> \in Seq(Chars)
    BY <1>1, <1>4, AppendIsConcat DEF Type, Chars
  <2>2. Remaining' = Remaining \o <<k>>
    BY <1>1, <2>1, ConcatAssociative DEF Remaining
  <2>3. Remaining' = Append(Remaining, k)
    BY <1>1, <2>1, <2>2, AppendIsConcat
  <2>4. QED
    BY <1>1, <1>2, <2>1, <2>3, EmbedsAfterAppend
<1>5. CASE Get /\ ReadsNext
  <2>1. /\ latch' = [key |-> Head(keys), strobe |-> TRUE] /\ keys' = Tail(keys)
        /\ UNCHANGED <<typed, cleared>> /\ keys # <<>>
    BY <1>5 DEF Get, ReadsNext
  <2>2. /\ Head(keys) \in Keys /\ Tail(keys) \in Seq(Chars)
        /\ <<Head(keys)>> \in Seq(Chars) /\ Waiting(latch)' = <<Head(keys)>>
    BY <1>1, <2>1, HeadTailProperties, SeqMonotonic DEF Chars, Waiting
  <2>3. Embeds(cleared \o keys, typed)
    BY <1>1, <1>2, EmbedsWithout DEF Remaining
  <2>4. cleared \o keys = cleared \o <<Head(keys)>> \o Tail(keys)
    BY <1>1, <2>1, <2>2, HeadThenTail, ConcatAssociative
  <2>5. QED
    BY <2>1, <2>2, <2>3, <2>4 DEF Remaining
<1>6. CASE Get /\ ~ReadsNext
  BY <1>2, <1>6 DEF Get, Remaining, Waiting
<1>7. CASE Clear
  <2>1. /\ latch' = [latch EXCEPT !.strobe = FALSE]
        /\ cleared' = cleared \o Waiting(latch) /\ UNCHANGED <<keys, typed>>
    BY <1>7 DEF Clear
  <2>2. Waiting(latch)' = <<>>
    BY <1>1, <2>1 DEF Latches, Waiting
  <2>3. cleared' \o <<>> = cleared \o Waiting(latch)
    BY <1>1, <2>1, ConcatEmptySeq
  <2>4. QED
    BY <1>2, <2>1, <2>2, <2>3 DEF Remaining
<1>8. CASE ToggleBuffered
  BY <1>2, <1>8 DEF ToggleBuffered, Remaining, Waiting
<1>9. CASE UNCHANGED keyboardVars
  BY <1>2, <1>9 DEF keyboardVars, Remaining, Waiting
<1>10. QED
  BY <1>4, <1>5, <1>6, <1>7, <1>8, <1>9 DEF KeyboardNext

-----------------------------------------------------------------------------
\* Every reachable state is well typed.
THEOREM TypeCorrect == KeyboardSpec => []KeyboardTypeOK
<1>1. IInv => KeyboardTypeOK
  BY DEF IInv
<1>2. QED
  BY <1>1, InitIInv, NextIInv, PTL DEF KeyboardSpec

\* A buffered keyboard loses, repeats and reorders no key.
THEOREM BufferedKeyboardLosesNoKey == KeyboardSpec => []NoKeyLost
<1>1. IInv => NoKeyLost
  BY DEF IInv
<1>2. QED
  BY <1>1, InitIInv, NextIInv, PTL DEF KeyboardSpec

\* Whenever buffering is switched, and however many keys are lost without it: what
\* the program clears is in the order in which it was typed (keyboard.cpp:42).
THEOREM KeysAreClearedInOrder == KeyboardSpec => []ClearedInOrder
<1>1. ASSUME OrderInv PROVE ClearedInOrder
  <2>1. /\ typed \in Seq(Chars) /\ cleared \in Seq(Chars)
        /\ Waiting(latch) \o keys \in Seq(Chars) /\ <<>> \in Seq(Chars)
        /\ Waiting(latch) \in Seq(Chars) /\ keys \in Seq(Chars)
    BY <1>1, WaitingType, ConcatProperties, SeqMonotonic DEF OrderInv, KeyboardTypeOK, Chars
  <2>2. cleared \o (Waiting(latch) \o keys) \o <<>> = Remaining
    BY <2>1, ConcatAssociative, ConcatEmptySeq, ConcatProperties DEF Remaining
  <2>3. Embeds(cleared \o <<>>, typed)
    BY <1>1, <2>1, <2>2, EmbedsWithout DEF OrderInv
  <2>4. Embeds(cleared, typed)
    BY <2>1, <2>3, ConcatEmptySeq
  <2>5. QED
    BY <2>4 DEF Embeds, ClearedInOrder
<1>2. KeyboardTypeOK /\ OrderInv /\ KeyboardTypeOK' /\ [KeyboardNext]_keyboardVars => OrderInv'
  BY NextOrder
<1>3. QED
  BY <1>1, <1>2, InitOrder, TypeCorrect, PTL DEF KeyboardSpec

-----------------------------------------------------------------------------
(* Motor, paddles, power and reset (drivemotor.cpp, paddles.cpp,           *)
(* powerupreset.cpp, emulator.cpp).                                        *)

Machines ==
  [powered : BOOLEAN, delay : Nat, revision : Nat, running : BOOLEAN, on : BOOLEAN,
   pendingTicks : Int, timer : [0 .. 2 -> Nat]]

\* Only the parts that an operation is about change.
SamePower(n, m) ==
  n.powered = m.powered /\ n.delay = m.delay /\ n.revision = m.revision /\ n.running = m.running

\* A machine with its history.
Histories ==
  [fn : {"machine"}, m : Machines, asked : [0 .. 2 -> Nat], since : [0 .. 2 -> Nat], spun : BOOLEAN]

\* A timer that runs has left what was asked of it less what has passed.
TimersInv(i) ==
  \A paddle \in 0 .. 2 :
    i.m.timer[paddle] = IF Measured(i, paddle) THEN 0 ELSE i.asked[paddle] - i.since[paddle]

\* With a power-up reset the processor runs when the reset has come.
ResetInv(m) == m.revision > 0 /\ m.powered /\ m.delay = 0 => m.running

PortsInv(i) ==
  /\ i \in Histories
  /\ TimersInv(i)
  /\ i.m.on => i.spun
  /\ ResetInv(i.m)

\* The counts left and what is asked agree on which timers have run out.
LEMMA PortsInvImplies ==
  ASSUME NEW i, PortsInv(i)
  PROVE  MachineRight(i)
<1>1. ASSUME NEW paddle \in 0 .. 2
      PROVE  IsTimedOut(i.m, paddle) = Measured(i, paddle)
  <2>1. i.asked[paddle] \in Nat /\ i.since[paddle] \in Nat
    BY DEF PortsInv, Histories
  <2>2. i.m.timer[paddle] = IF Measured(i, paddle) THEN 0 ELSE i.asked[paddle] - i.since[paddle]
    BY DEF PortsInv, TimersInv
  <2>3. Measured(i, paddle) \in BOOLEAN /\ IsTimedOut(i.m, paddle) \in BOOLEAN
    BY DEF Measured, IsTimedOut
  <2>4. IsTimedOut(i.m, paddle) <=> Measured(i, paddle)
    BY <2>1, <2>2 DEF IsTimedOut, Measured
  <2>5. QED
    BY <2>3, <2>4
<1>2. QED
  BY <1>1 DEF MachineRight, PortsInv, ResetInv

\* What StartTimers changes: the timers that do not run.
LEMMA StartTimersKeeps ==
  ASSUME Reference \in Nat, NEW m \in Machines, NEW mouse \in Nat \X Nat
  PROVE  /\ StartTimers(m, mouse) \in Machines
         /\ SamePower(StartTimers(m, mouse), m)
         /\ StartTimers(m, mouse).on = m.on
         /\ \A paddle \in 0 .. 2 :
              StartTimers(m, mouse).timer[paddle] =
                IF ~IsTimedOut(m, paddle) THEN m.timer[paddle]
                ELSE IF paddle = 2 THEN Reference ELSE mouse[paddle + 1]
<1> DEFINE new == StartTimers(m, mouse)
           timer == [paddle \in 0 .. 2 |->
                       IF ~IsTimedOut(m, paddle) THEN m.timer[paddle]
                       ELSE IF paddle = 2 THEN Reference ELSE mouse[paddle + 1]]
<1>1. new = [m EXCEPT !.timer = timer]
  BY DEF StartTimers
<1>2. timer \in [0 .. 2 -> Nat]
  <2>1. m.timer \in [0 .. 2 -> Nat]
    BY DEF Machines
  <2>2. \A paddle \in 0 .. 2 : paddle # 2 => mouse[paddle + 1] \in Nat
    OBVIOUS
  <2>3. QED
    BY <2>1, <2>2
<1>3. \A paddle \in 0 .. 2 :
        timer[paddle] = IF ~IsTimedOut(m, paddle) THEN m.timer[paddle]
                        ELSE IF paddle = 2 THEN Reference ELSE mouse[paddle + 1]
  OBVIOUS
<1> HIDE DEF timer, new
<1>4. /\ new \in Machines /\ new.timer = timer /\ new.on = m.on
      /\ new.powered = m.powered /\ new.delay = m.delay /\ new.revision = m.revision
      /\ new.running = m.running
  BY <1>1, <1>2 DEF Machines
<1>5. QED
  BY <1>3, <1>4 DEF new, SamePower

\* What DriveMotor::power changes.
LEMMA MotorPowerKeeps ==
  ASSUME OffDelay \in Nat, NEW m \in Machines, NEW on \in BOOLEAN
  PROVE  /\ MotorPower(m, on) \in Machines
         /\ SamePower(MotorPower(m, on), m)
         /\ MotorPower(m, on).timer = m.timer
         /\ MotorPower(m, on).on => m.on \/ on
<1> DEFINE new == MotorPower(m, on)
           yes == TRUE
           zero == 0
<1>1. zero \in Int /\ yes = TRUE /\ yes \in BOOLEAN /\ OffDelay \in Int
  OBVIOUS
<1>2. CASE on
  <2>1. new = [m EXCEPT !.on = yes, !.pendingTicks = zero]
    BY <1>2 DEF MotorPower
  <2> HIDE DEF new, yes, zero
  <2>2. /\ new \in Machines /\ new.timer = m.timer
        /\ new.powered = m.powered /\ new.delay = m.delay /\ new.revision = m.revision
        /\ new.running = m.running
    BY <1>1, <2>1 DEF Machines
  <2>3. QED
    BY <1>2, <2>2 DEF new, SamePower
<1>3. CASE ~on
  <2>1. new = [m EXCEPT !.pendingTicks = OffDelay]
    BY <1>3 DEF MotorPower
  <2> HIDE DEF new
  <2>2. /\ new \in Machines /\ new.timer = m.timer /\ new.on = m.on
        /\ new.powered = m.powered /\ new.delay = m.delay /\ new.revision = m.revision
        /\ new.running = m.running
    BY <1>1, <2>1 DEF Machines
  <2>3. QED
    BY <2>2 DEF new, SamePower
<1>4. QED
  BY <1>2, <1>3

\* What DriveMotor::tick changes.
LEMMA MotorTickKeeps ==
  ASSUME NEW m \in Machines
  PROVE  /\ MotorTick(m) \in Machines
         /\ SamePower(MotorTick(m), m)
         /\ MotorTick(m).timer = m.timer
         /\ MotorTick(m).on => m.on
<1> DEFINE new == MotorTick(m)
           on == m.pendingTicks > 1
           left == m.pendingTicks - 1
<1>1. CASE m.on /\ m.pendingTicks > 0
  <2>1. new = [m EXCEPT !.pendingTicks = left, !.on = on]
    BY <1>1 DEF MotorTick
  <2>2. on \in BOOLEAN /\ left \in Int
    BY DEF Machines
  <2> HIDE DEF new, on, left
  <2>3. /\ new \in Machines /\ new.timer = m.timer
        /\ new.powered = m.powered /\ new.delay = m.delay /\ new.revision = m.revision
        /\ new.running = m.running
    BY <2>1, <2>2 DEF Machines
  <2>4. QED
    BY <1>1, <2>3 DEF new, SamePower
<1>2. CASE ~(m.on /\ m.pendingTicks > 0)
  BY <1>2 DEF MotorTick, SamePower
<1>3. QED
  BY <1>1, <1>2

\* What Paddles::tick changes: each timer that runs.
LEMMA PaddlesTickKeeps ==
  ASSUME NEW m \in Machines
  PROVE  /\ PaddlesTick(m) \in Machines
         /\ SamePower(PaddlesTick(m), m)
         /\ PaddlesTick(m).on = m.on
         /\ \A paddle \in 0 .. 2 :
              PaddlesTick(m).timer[paddle] =
                IF m.timer[paddle] > 0 THEN m.timer[paddle] - 1 ELSE m.timer[paddle]
<1> DEFINE new == PaddlesTick(m)
           timer == [paddle \in 0 .. 2 |->
                       IF m.timer[paddle] > 0 THEN m.timer[paddle] - 1 ELSE m.timer[paddle]]
<1>1. new = [m EXCEPT !.timer = timer]
  BY DEF PaddlesTick
<1>2. timer \in [0 .. 2 -> Nat]
  <2>1. m.timer \in [0 .. 2 -> Nat]
    BY DEF Machines
  <2>2. QED
    BY <2>1
<1>3. \A paddle \in 0 .. 2 :
        timer[paddle] = IF m.timer[paddle] > 0 THEN m.timer[paddle] - 1 ELSE m.timer[paddle]
  OBVIOUS
<1> HIDE DEF timer, new
<1>4. /\ new \in Machines /\ new.timer = timer /\ new.on = m.on
      /\ new.powered = m.powered /\ new.delay = m.delay /\ new.revision = m.revision
      /\ new.running = m.running
  BY <1>1, <1>2 DEF Machines
<1>5. QED
  BY <1>3, <1>4 DEF new, SamePower

\* What the reset changes.
LEMMA ResetAllKeeps ==
  ASSUME NEW m \in Machines
  PROVE  /\ ResetAll(m) \in Machines
         /\ ResetAll(m).timer = m.timer /\ ~ResetAll(m).on
         /\ ResetAll(m).powered = m.powered /\ ResetAll(m).delay = m.delay
         /\ ResetAll(m).revision = m.revision /\ ResetAll(m).running = m.powered
<1> DEFINE new == ResetAll(m)
           off == FALSE
<1>1. new = [m EXCEPT !.running = m.powered, !.on = off]
  BY DEF ResetAll
<1>2. m.powered \in BOOLEAN /\ off \in BOOLEAN /\ ~off
  BY DEF Machines
<1> HIDE DEF new, off
<1>3. /\ new \in Machines /\ new.timer = m.timer /\ new.on = off
      /\ new.powered = m.powered /\ new.delay = m.delay /\ new.revision = m.revision
      /\ new.running = m.powered
  BY <1>1, <1>2 DEF Machines
<1>4. QED
  BY <1>2, <1>3 DEF new

\* What toggleComputerPower changes.
LEMMA TogglePowerKeeps ==
  ASSUME PowerUpTicks \in Nat \ {0}, NEW m \in Machines
  PROVE  /\ TogglePower(m) \in Machines
         /\ TogglePower(m).timer = m.timer /\ TogglePower(m).on = m.on
         /\ ResetInv(TogglePower(m))
<1> DEFINE new == TogglePower(m)
           off == FALSE
           on == TRUE
<1>1. off \in BOOLEAN /\ ~off /\ on \in BOOLEAN
  OBVIOUS
<1>2. CASE m.powered
  <2>1. new = [m EXCEPT !.powered = off, !.running = off]
    BY <1>2 DEF TogglePower
  <2> HIDE DEF new, off
  <2>2. new \in Machines /\ new.timer = m.timer /\ new.on = m.on /\ new.powered = off
    BY <1>1, <2>1 DEF Machines
  <2>3. QED
    BY <1>1, <2>2 DEF new, ResetInv
<1>3. CASE ~m.powered
  <2>1. new = [m EXCEPT !.powered = on, !.delay = PowerUpTicks]
    BY <1>3 DEF TogglePower
  <2> HIDE DEF new, on
  <2>2. new \in Machines /\ new.timer = m.timer /\ new.on = m.on /\ new.delay = PowerUpTicks
    BY <1>1, <2>1 DEF Machines
  <2>3. QED
    BY <2>2 DEF new, ResetInv
<1>4. QED
  BY <1>2, <1>3

\* What a cycle changes: the motor may stop, the timers go on, and the last cycle
\* of the delay ends in the reset.
LEMMA MachineTickKeeps ==
  ASSUME NEW m \in Machines, ResetInv(m)
  PROVE  /\ MachineTick(m) \in Machines
         /\ ResetInv(MachineTick(m))
         /\ MachineTick(m).on => m.on /\ ~(m.revision > 0 /\ m.delay = 1)
         /\ \A paddle \in 0 .. 2 :
              MachineTick(m).timer[paddle] =
                IF m.timer[paddle] > 0 THEN m.timer[paddle] - 1 ELSE m.timer[paddle]
<1> DEFINE stopped == MotorTick(m)
           ticked == PaddlesTick(stopped)
           counts == m.revision > 0 /\ m.delay > 0
           left == ticked.delay - 1
           counted == IF counts THEN [ticked EXCEPT !.delay = left] ELSE ticked
           new == MachineTick(m)
<1>1. new = IF counts /\ counted.delay = 0 THEN ResetAll(counted) ELSE counted
  BY DEF MachineTick
<1>2. stopped \in Machines /\ SamePower(stopped, m) /\ stopped.timer = m.timer /\ (stopped.on => m.on)
  BY MotorTickKeeps
<1>3. /\ ticked \in Machines /\ SamePower(ticked, stopped) /\ ticked.on = stopped.on
      /\ \A paddle \in 0 .. 2 :
           ticked.timer[paddle] =
             IF stopped.timer[paddle] > 0 THEN stopped.timer[paddle] - 1 ELSE stopped.timer[paddle]
  <2> HIDE DEF stopped
  <2>1. QED
    BY <1>2, PaddlesTickKeeps
<1>4. /\ ticked.powered = m.powered /\ ticked.delay = m.delay /\ ticked.revision = m.revision
      /\ ticked.running = m.running
  BY <1>2, <1>3 DEF SamePower
<1>5. m.delay \in Nat /\ m.revision \in Nat
  BY DEF Machines
<1>6. /\ counted \in Machines /\ counted.timer = ticked.timer /\ counted.on = ticked.on
      /\ counted.powered = m.powered /\ counted.revision = m.revision
      /\ counted.running = m.running
      /\ counted.delay = IF counts THEN m.delay - 1 ELSE m.delay
  <2>1. CASE counts
    <3>1. left \in Nat /\ left = m.delay - 1
      BY <1>4, <1>5, <2>1
    <3>2. counted = [ticked EXCEPT !.delay = left]
      BY <2>1
    <3> HIDE DEF ticked, left, counted
    <3>3. /\ counted \in Machines /\ counted.timer = ticked.timer /\ counted.on = ticked.on
          /\ counted.powered = ticked.powered /\ counted.revision = ticked.revision
          /\ counted.running = ticked.running /\ counted.delay = left
      BY <1>3, <3>1, <3>2 DEF Machines
    <3>4. QED
      BY <1>4, <2>1, <3>1, <3>3
  <2>2. CASE ~counts
    <3>1. counted = ticked
      BY <2>2
    <3> HIDE DEF ticked, counted
    <3>2. QED
      BY <1>3, <1>4, <2>2, <3>1
  <2>3. QED
    BY <2>1, <2>2
<1> HIDE DEF counted, ticked, stopped, new
<1>7. CASE counts /\ counted.delay = 0
  <2>1. new = ResetAll(counted)
    BY <1>1, <1>7
  <2>2. /\ new \in Machines /\ new.timer = counted.timer /\ ~new.on
        /\ new.powered = counted.powered /\ new.running = counted.powered
    BY <1>6, <2>1, ResetAllKeeps
  <2>3. ResetInv(new)
    BY <2>2 DEF ResetInv
  <2>4. QED
    BY <1>2, <1>3, <1>6, <2>2, <2>3 DEF new
<1>8. CASE ~(counts /\ counted.delay = 0)
  <2>1. new = counted
    BY <1>1, <1>8
  <2>2. ResetInv(counted)
    BY <1>5, <1>6, <1>8 DEF ResetInv
  <2>3. ~(m.revision > 0 /\ m.delay = 1)
    BY <1>5, <1>6, <1>8
  <2>4. counted.on => m.on
    BY <1>2, <1>3, <1>6
  <2>5. QED
    BY <1>2, <1>3, <1>6, <2>1, <2>2, <2>3, <2>4 DEF new
<1>9. QED
  BY <1>7, <1>8

\* The history when a program starts the timers.
LEMMA StartedInv ==
  ASSUME Reference \in Nat, NEW places \in SUBSET Nat,
         NEW i, PortsInv(i), NEW mouse \in places \X places
  PROVE  PortsInv([Asked(i, mouse) EXCEPT !.m = StartTimers(i.m, mouse)])
<1> DEFINE m == StartTimers(i.m, mouse)
           asked == [paddle \in 0 .. 2 |->
                       IF ~Measured(i, paddle) THEN i.asked[paddle]
                       ELSE IF paddle = 2 THEN Reference ELSE mouse[paddle + 1]]
           since == [paddle \in 0 .. 2 |-> IF Measured(i, paddle) THEN 0 ELSE i.since[paddle]]
           once == Asked(i, mouse)
           new == [once EXCEPT !.m = m]
<1>1. i \in Histories /\ i.m \in Machines
  BY DEF PortsInv, Histories
<1>2. mouse \in Nat \X Nat
  OBVIOUS
<1>3. /\ m \in Machines /\ SamePower(m, i.m) /\ m.on = i.m.on
      /\ \A paddle \in 0 .. 2 :
           m.timer[paddle] = IF ~IsTimedOut(i.m, paddle) THEN i.m.timer[paddle]
                             ELSE IF paddle = 2 THEN Reference ELSE mouse[paddle + 1]
  BY <1>1, <1>2, StartTimersKeeps
<1>4. i.asked \in [0 .. 2 -> Nat] /\ i.since \in [0 .. 2 -> Nat] /\ i.spun \in BOOLEAN
  BY <1>1 DEF Histories
<1>5. mouse[1] \in Nat /\ mouse[2] \in Nat
  BY <1>2
<1>6. \A paddle \in 0 .. 2 : paddle # 2 => mouse[paddle + 1] \in Nat
  BY <1>5
<1>7. asked \in [0 .. 2 -> Nat] /\ since \in [0 .. 2 -> Nat]
  BY <1>4, <1>6
<1>8. ASSUME NEW paddle \in 0 .. 2
      PROVE  m.timer[paddle] = IF since[paddle] >= asked[paddle] THEN 0
                               ELSE asked[paddle] - since[paddle]
  <2>1. i.m.timer[paddle] = IF Measured(i, paddle) THEN 0 ELSE i.asked[paddle] - i.since[paddle]
    BY DEF PortsInv, TimersInv
  <2>2. i.asked[paddle] \in Nat /\ i.since[paddle] \in Nat
    BY <1>4
  <2>3. IsTimedOut(i.m, paddle) <=> Measured(i, paddle)
    BY <2>1, <2>2 DEF IsTimedOut, Measured
  <2>4. /\ asked[paddle] = IF ~Measured(i, paddle) THEN i.asked[paddle]
                           ELSE IF paddle = 2 THEN Reference ELSE mouse[paddle + 1]
        /\ since[paddle] = IF Measured(i, paddle) THEN 0 ELSE i.since[paddle]
    OBVIOUS
  <2> HIDE DEF m, asked, since
  <2>5. CASE ~Measured(i, paddle)
    BY <1>3, <2>1, <2>2, <2>3, <2>4, <2>5 DEF Measured
  <2>6. CASE Measured(i, paddle)
    <3>1. m.timer[paddle] = asked[paddle] /\ since[paddle] = 0
      BY <1>3, <2>3, <2>4, <2>6
    <3>2. asked[paddle] \in Nat
      BY <1>7
    <3>3. QED
      BY <3>1, <3>2
  <2>7. QED
    BY <2>5, <2>6
<1>9. once = [i EXCEPT !.asked = asked, !.since = since]
  BY DEF Asked
<1>10. new = [once EXCEPT !.m = m]
  OBVIOUS
<1> HIDE DEF m, asked, since, once, new
<1>11. /\ once \in Histories /\ once.asked = asked /\ once.since = since /\ once.spun = i.spun
  BY <1>1, <1>7, <1>9 DEF Histories
<1>12. /\ new \in Histories /\ new.m = m /\ new.asked = asked /\ new.since = since
       /\ new.spun = i.spun
  BY <1>3, <1>10, <1>11 DEF Histories
<1>13. TimersInv(new)
  BY <1>8, <1>12 DEF TimersInv, Measured
<1>14. new.m.on => new.spun
  BY <1>3, <1>12 DEF PortsInv
<1>15. ResetInv(new.m)
  BY <1>3, <1>12 DEF PortsInv, ResetInv, SamePower
<1>16. QED
  BY <1>12, <1>13, <1>14, <1>15 DEF PortsInv, m, new, once

\* The history in a cycle.
LEMMA TickedInv ==
  ASSUME NEW i, PortsInv(i)
  PROVE  PortsInv([Later(i) EXCEPT !.m = MachineTick(i.m),
                                   !.spun = @ /\ ~(i.m.revision > 0 /\ i.m.delay = 1)])
<1> DEFINE m == MachineTick(i.m)
           since == [paddle \in 0 .. 2 |->
                       IF Measured(i, paddle) THEN i.since[paddle] ELSE i.since[paddle] + 1]
           once == Later(i)
           spun == once.spun /\ ~(i.m.revision > 0 /\ i.m.delay = 1)
           new == [once EXCEPT !.m = m, !.spun = spun]
<1>1. i \in Histories /\ i.m \in Machines
  BY DEF PortsInv, Histories
<1>2. /\ m \in Machines /\ ResetInv(m)
      /\ (m.on => i.m.on /\ ~(i.m.revision > 0 /\ i.m.delay = 1))
      /\ \A paddle \in 0 .. 2 :
           m.timer[paddle] = IF i.m.timer[paddle] > 0 THEN i.m.timer[paddle] - 1
                             ELSE i.m.timer[paddle]
  BY <1>1, MachineTickKeeps DEF PortsInv
<1>3. i.asked \in [0 .. 2 -> Nat] /\ i.since \in [0 .. 2 -> Nat] /\ i.spun \in BOOLEAN
  BY <1>1 DEF Histories
<1>4. since \in [0 .. 2 -> Nat]
  BY <1>3
<1>5. ASSUME NEW paddle \in 0 .. 2
      PROVE  m.timer[paddle] = IF since[paddle] >= i.asked[paddle] THEN 0
                               ELSE i.asked[paddle] - since[paddle]
  <2>1. i.m.timer[paddle] = IF Measured(i, paddle) THEN 0 ELSE i.asked[paddle] - i.since[paddle]
    BY DEF PortsInv, TimersInv
  <2>2. i.asked[paddle] \in Nat /\ i.since[paddle] \in Nat
    BY <1>3
  <2>3. since[paddle] = IF Measured(i, paddle) THEN i.since[paddle] ELSE i.since[paddle] + 1
    OBVIOUS
  <2>4. m.timer[paddle] = IF i.m.timer[paddle] > 0 THEN i.m.timer[paddle] - 1
                          ELSE i.m.timer[paddle]
    BY <1>2
  <2> HIDE DEF m, since
  <2>5. QED
    BY <2>1, <2>2, <2>3, <2>4 DEF Measured
<1>6. once = [i EXCEPT !.since = since]
  BY DEF Later
<1>7. new = [once EXCEPT !.m = m, !.spun = spun]
  OBVIOUS
<1>8. spun \in BOOLEAN /\ (spun <=> once.spun /\ ~(i.m.revision > 0 /\ i.m.delay = 1))
  OBVIOUS
<1> HIDE DEF m, since, once, spun, new
<1>9. once \in Histories /\ once.asked = i.asked /\ once.since = since /\ once.spun = i.spun
  BY <1>1, <1>4, <1>6 DEF Histories
<1>10. /\ new \in Histories /\ new.m = m /\ new.asked = i.asked /\ new.since = since
       /\ new.spun = spun
  BY <1>2, <1>7, <1>8, <1>9 DEF Histories
<1>11. TimersInv(new)
  BY <1>5, <1>10 DEF TimersInv, Measured
<1>12. new.m.on => new.spun
  BY <1>2, <1>8, <1>9, <1>10 DEF PortsInv
<1>13. PortsInv(new)
  BY <1>2, <1>10, <1>11, <1>12 DEF PortsInv
<1>14. QED
  BY <1>13 DEF new, m, spun, once

\* The history when only the machine changes, and the motor perhaps.
LEMMA ChangedInv ==
  ASSUME NEW i, PortsInv(i), NEW m \in Machines, NEW spun \in BOOLEAN,
         m.timer = i.m.timer, m.on => spun, ResetInv(m)
  PROVE  PortsInv([i EXCEPT !.m = m, !.spun = spun])
<1> DEFINE new == [i EXCEPT !.m = m, !.spun = spun]
<1>1. i \in Histories
  BY DEF PortsInv
<1>2. new = [i EXCEPT !.m = m, !.spun = spun]
  OBVIOUS
<1> HIDE DEF new
<1>3. /\ new \in Histories /\ new.m = m /\ new.asked = i.asked /\ new.since = i.since
      /\ new.spun = spun
  BY <1>1, <1>2 DEF Histories
<1>4. TimersInv(new)
  BY <1>3 DEF PortsInv, TimersInv, Measured
<1>5. QED
  BY <1>3, <1>4 DEF PortsInv, new

\* The machine after each of the operations.
LEMMA PortsInvKept ==
  ASSUME OffDelay \in Nat, PowerUpTicks \in Nat \ {0}, Reference \in Nat,
         NEW places \in SUBSET Nat, NEW i, PortsInv(i), NEW j \in MachineStep(i, places)
  PROVE  PortsInv(j)
<1>1. i \in Histories /\ i.m \in Machines /\ i.spun \in BOOLEAN /\ ResetInv(i.m)
  BY DEF PortsInv, Histories
<1>2. ASSUME NEW mouse \in places \X places,
             j = [Asked(i, mouse) EXCEPT !.m = StartTimers(i.m, mouse)]
      PROVE  PortsInv(j)
  BY <1>2, StartedInv
<1>3. ASSUME NEW on \in BOOLEAN, j = [i EXCEPT !.m = MotorPower(i.m, on), !.spun = @ \/ on]
      PROVE  PortsInv(j)
  <2> DEFINE m == MotorPower(i.m, on)
             spun == i.spun \/ on
  <2>1. m \in Machines /\ SamePower(m, i.m) /\ m.timer = i.m.timer /\ (m.on => i.m.on \/ on)
    BY <1>1, MotorPowerKeeps
  <2>2. spun \in BOOLEAN /\ (spun <=> i.spun \/ on)
    BY <1>1
  <2>3. j = [i EXCEPT !.m = m, !.spun = spun]
    BY <1>3
  <2> HIDE DEF m, spun
  <2>4. m.on => spun
    BY <2>1, <2>2 DEF PortsInv
  <2>5. ResetInv(m)
    BY <1>1, <2>1 DEF ResetInv, SamePower
  <2>6. PortsInv([i EXCEPT !.m = m, !.spun = spun])
    BY <2>1, <2>2, <2>4, <2>5, ChangedInv
  <2>7. QED
    BY <2>3, <2>6
<1>4. ASSUME j = [Later(i) EXCEPT !.m = MachineTick(i.m),
                                  !.spun = @ /\ ~(i.m.revision > 0 /\ i.m.delay = 1)]
      PROVE  PortsInv(j)
  BY <1>4, TickedInv
<1>5. ASSUME j = [i EXCEPT !.m = TogglePower(i.m)]
      PROVE  PortsInv(j)
  <2> DEFINE m == TogglePower(i.m)
             spun == i.spun
  <2>1. m \in Machines /\ m.timer = i.m.timer /\ m.on = i.m.on /\ ResetInv(m)
    BY <1>1, TogglePowerKeeps
  <2>2. spun \in BOOLEAN /\ (m.on => spun)
    BY <1>1, <2>1 DEF PortsInv
  <2>3. j = [i EXCEPT !.m = m]
    BY <1>5
  <2> HIDE DEF m
  <2>4. [i EXCEPT !.m = m] = [i EXCEPT !.m = m, !.spun = spun]
    <3>1. ASSUME NEW a, a = [i EXCEPT !.m = m], NEW b, b = [i EXCEPT !.m = m, !.spun = spun]
          PROVE  a = b
      BY <1>1, <3>1 DEF Histories
    <3>2. QED
      BY <3>1
  <2>5. PortsInv([i EXCEPT !.m = m, !.spun = spun])
    <3> HIDE DEF spun
    <3>1. QED
      BY <2>1, <2>2, ChangedInv
  <2>6. QED
    BY <2>3, <2>4, <2>5
<1>6. ASSUME j = [i EXCEPT !.m = ResetAll(i.m), !.spun = FALSE]
      PROVE  PortsInv(j)
  <2> DEFINE m == ResetAll(i.m)
             spun == FALSE
  <2>1. /\ m \in Machines /\ m.timer = i.m.timer /\ ~m.on
        /\ m.powered = i.m.powered /\ m.running = i.m.powered
    BY <1>1, ResetAllKeeps
  <2>2. spun \in BOOLEAN
    OBVIOUS
  <2>3. j = [i EXCEPT !.m = m, !.spun = spun]
    BY <1>6
  <2> HIDE DEF m, spun
  <2>4. ResetInv(m)
    BY <2>1 DEF ResetInv
  <2>5. PortsInv([i EXCEPT !.m = m, !.spun = spun])
    BY <2>1, <2>2, <2>4, ChangedInv
  <2>6. QED
    BY <2>3, <2>5
<1>7. \/ \E mouse \in places \X places :
           j = [Asked(i, mouse) EXCEPT !.m = StartTimers(i.m, mouse)]
      \/ \E on \in BOOLEAN : j = [i EXCEPT !.m = MotorPower(i.m, on), !.spun = @ \/ on]
      \/ j = [Later(i) EXCEPT !.m = MachineTick(i.m),
                              !.spun = @ /\ ~(i.m.revision > 0 /\ i.m.delay = 1)]
      \/ j = [i EXCEPT !.m = TogglePower(i.m)]
      \/ j = [i EXCEPT !.m = ResetAll(i.m), !.spun = FALSE]
  BY DEF MachineStep
<1>8. QED
  BY <1>2, <1>3, <1>4, <1>5, <1>6, <1>7

\* A new machine.
LEMMA FirstInv ==
  ASSUME NEW i \in FirstMachines
  PROVE  PortsInv(i)
<1>1. PICK r \in {0, 1} :
        i = [fn |-> "machine", m |-> NewMachine(r), asked |-> [paddle \in 0 .. 2 |-> 0],
             since |-> [paddle \in 0 .. 2 |-> 0], spun |-> FALSE]
  BY DEF FirstMachines
<1> DEFINE zeros == [paddle \in 0 .. 2 |-> 0]
<1>2. zeros \in [0 .. 2 -> Nat] /\ \A paddle \in 0 .. 2 : zeros[paddle] = 0
  OBVIOUS
<1>3. NewMachine(r) = [powered |-> FALSE, delay |-> 0, revision |-> r, running |-> FALSE,
                       on |-> FALSE, pendingTicks |-> 0, timer |-> zeros]
  BY DEF NewMachine
<1>4. i = [fn |-> "machine", m |-> NewMachine(r), asked |-> zeros, since |-> zeros, spun |-> FALSE]
  BY <1>1
<1> HIDE DEF zeros
<1>5. /\ NewMachine(r) \in Machines
      /\ ~NewMachine(r).powered /\ ~NewMachine(r).on /\ NewMachine(r).timer = zeros
  BY <1>2, <1>3 DEF Machines
<1>6. i \in Histories
  BY <1>2, <1>4, <1>5 DEF Histories
<1>7. i.m = NewMachine(r) /\ i.asked = zeros /\ i.since = zeros
  BY <1>4
<1>8. TimersInv(i)
  BY <1>2, <1>5, <1>7 DEF TimersInv, Measured
<1>9. QED
  BY <1>5, <1>6, <1>7, <1>8 DEF PortsInv, ResetInv

\* Whatever program and operator do to motor, timers, power and reset, and when:
\* a timer measures the place that was asked for when it had last run out, however
\* often it is started meanwhile (paddles.cpp:67); a motor runs only if it was
\* switched on since the last reset, and with a power-up reset none runs on that
\* ran when the power went off (emulator.cpp:63, powerupreset.cpp).  For every
\* delay, every reference timer and every place of the mouse.
THEOREM MachineStaysRight ==
  ASSUME OffDelay \in Nat, PowerUpTicks \in Nat \ {0}, Reference \in Nat,
         NEW places \in SUBSET Nat, NEW VARIABLE i
  PROVE  i \in FirstMachines /\ [][i' \in MachineStep(i, places)]_i => []MachineRight(i)
<1>1. i \in FirstMachines => PortsInv(i)
  BY FirstInv
<1>2. PortsInv(i) /\ [i' \in MachineStep(i, places)]_i => PortsInv(i)'
  <2>1. CASE i' \in MachineStep(i, places)
    BY <2>1, PortsInvKept
  <2>2. CASE i' = i
    BY <2>2 DEF PortsInv
  <2>3. QED
    BY <2>1, <2>2
<1>3. PortsInv(i) => MachineRight(i)
  BY PortsInvImplies
<1>4. QED
  BY <1>1, <1>2, <1>3, PTL

-----------------------------------------------------------------------------
(* The picture's counters (picturegenerator.cpp, video.cpp,                *)
(* videostaticgenerator.cpp).                                              *)

\* Counters, of which those that nothing sets before power on are anything.
Counters ==
  [power : BOOLEAN, t : Int, hpos : Int, line : Int, at : Int, noiseHpos : Int, noiseAt : Int,
   signal : {"picture", "noise"}, drawn : {"picture", "noise", "none"}]

\* While the picture is on its counters are at a column of a row.
AtRow(f) ==
  \E row \in 0 .. Rows - 1 :
    /\ f.hpos \in 0 .. Columns - 1
    /\ f.t = Columns * row + f.hpos
    /\ f.at = LineSamples * row + Crystal * f.hpos
    /\ f.t > 0 => f.line = row

FieldInv(f) ==
  /\ f \in Counters
  /\ f.power => AtRow(f)
  /\ f.signal = IF f.power THEN "picture" ELSE "noise"
  /\ f.drawn # "none" => /\ f.drawn = f.signal
                         /\ IF f.power THEN f.at = 0 /\ f.t = 0 ELSE f.noiseAt = 0 /\ f.noiseHpos = 0

\* The numbers of the counters.
LEMMA FieldConstants ==
  Columns = 65 /\ Rows = 262 /\ FieldCycles = 17030 /\ LineSamples = 912 /\ Crystal = 14 /\ LongExtra = 2
BY DEF Columns, Rows, FieldCycles, LineSamples, Crystal, LongExtra

\* The row, in numbers.
LEMMA RowOfCounters ==
  ASSUME NEW f, FieldInv(f), f.power
  PROVE  \E row \in 0 .. 261 :
           /\ f.hpos \in 0 .. 64
           /\ f.t = 65 * row + f.hpos
           /\ f.at = 912 * row + 14 * f.hpos
           /\ f.t > 0 => f.line = row
<1>1. PICK row \in 0 .. Rows - 1 :
        /\ f.hpos \in 0 .. Columns - 1
        /\ f.t = Columns * row + f.hpos
        /\ f.at = LineSamples * row + Crystal * f.hpos
        /\ f.t > 0 => f.line = row
  BY DEF FieldInv, AtRow
<1>2. row \in 0 .. 261 /\ f.hpos \in 0 .. 64
  BY <1>1, FieldConstants
<1>3. f.t = 65 * row + f.hpos /\ f.at = 912 * row + 14 * f.hpos
  BY <1>1, FieldConstants
<1>4. QED
  BY <1>1, <1>2, <1>3

\* At a column of a row the counters are in step.
LEMMA FieldInvImplies ==
  ASSUME NEW f, FieldInv(f)
  PROVE  InStep(f)
<1>1. ASSUME f.power
      PROVE  /\ f.hpos = f.t % Columns
             /\ f.at = SamplesBefore(f.t)
             /\ f.t > 0 => f.line = f.t \div Columns
  <2>1. PICK row \in 0 .. 261 :
          /\ f.hpos \in 0 .. 64
          /\ f.t = 65 * row + f.hpos
          /\ f.at = 912 * row + 14 * f.hpos
          /\ f.t > 0 => f.line = row
    BY <1>1, RowOfCounters
  <2>2. \A r, h \in Nat : h < 65 => (65 * r + h) % 65 = h /\ (65 * r + h) \div 65 = r
    OBVIOUS
  <2>3. f.t % 65 = f.hpos /\ f.t \div 65 = row
    <3>1. row \in Nat /\ f.hpos \in Nat /\ f.hpos < 65
      BY <2>1
    <3>2. (65 * row + f.hpos) % 65 = f.hpos /\ (65 * row + f.hpos) \div 65 = row
      BY <2>2, <3>1
    <3>3. f.t = 65 * row + f.hpos
      BY <2>1
    <3>4. QED
      BY <3>2, <3>3
  <2>4. QED
    BY <2>1, <2>3, FieldConstants DEF SamplesBefore
<1>2. QED
  BY <1>1 DEF FieldInv, InStep

\* The power goes off, or has not been on yet.
LEMMA NoiseOnInv ==
  ASSUME NEW f \in Counters
  PROVE  FieldInv(NoiseOn(f))
<1> DEFINE off == FALSE
           signal == "noise"
           drawn == "none"
           zero == 0
           new == NoiseOn(f)
<1>1. new = [f EXCEPT !.power = off, !.noiseHpos = zero, !.noiseAt = zero, !.signal = signal, !.drawn = drawn]
  BY DEF NoiseOn
<1>2. off = FALSE /\ signal = "noise" /\ drawn = "none" /\ off \in BOOLEAN
      /\ zero = 0 /\ zero \in Int
      /\ signal \in {"picture", "noise"} /\ drawn \in {"picture", "noise", "none"}
  OBVIOUS
<1> HIDE DEF off, signal, drawn, zero, new
<1>3. new \in Counters /\ new.power = off /\ new.signal = signal /\ new.drawn = drawn
  BY <1>1, <1>2 DEF Counters
<1>4. QED
  BY <1>2, <1>3 DEF FieldInv, new

\* The power goes on.
LEMMA PictureOnInv ==
  ASSUME NEW f \in Counters
  PROVE  FieldInv(PictureOn(f))
<1> DEFINE on == TRUE
           signal == "picture"
           drawn == "none"
           zero == 0
           new == PictureOn(f)
<1>1. new = [f EXCEPT !.power = on, !.t = zero, !.hpos = zero, !.line = zero, !.at = zero, !.signal = signal,
                      !.drawn = drawn]
  BY DEF PictureOn
<1>2. on = TRUE /\ signal = "picture" /\ drawn = "none" /\ on \in BOOLEAN
      /\ zero = 0 /\ zero \in Int
      /\ signal \in {"picture", "noise"} /\ drawn \in {"picture", "noise", "none"}
  OBVIOUS
<1> HIDE DEF on, signal, drawn, zero, new
<1>3. /\ new \in Counters /\ new.power = on /\ new.signal = signal /\ new.drawn = drawn
      /\ new.t = zero /\ new.hpos = zero /\ new.line = zero /\ new.at = zero
  BY <1>1, <1>2 DEF Counters
<1>4. AtRow(new)
  <2>1. 0 \in 0 .. 261
    OBVIOUS
  <2>2. QED
    BY <1>2, <1>3, <2>1, FieldConstants DEF AtRow
<1>5. QED
  BY <1>2, <1>3, <1>4 DEF FieldInv, new

\* A cycle of the picture: on the row, to the next one, or to the first.
LEMMA PictureCountedInv ==
  ASSUME NEW f, FieldInv(f), f.power
  PROVE  FieldInv(PictureCounted(f))
<1> DEFINE wrap == f.hpos = Columns - 1
           samples == f.at + SamplesAt(f.hpos)
           full == wrap /\ samples >= LineSamples * Rows
           hpos == IF wrap THEN 0 ELSE f.hpos + 1
           line == (IF f.t = 0 THEN 0 ELSE f.line) + (IF wrap THEN 1 ELSE 0)
           at == IF full THEN 0 ELSE samples
           drawn == IF full THEN f.signal ELSE "none"
           t == IF f.t + 1 >= FieldCycles THEN 0 ELSE f.t + 1
           new == PictureCounted(f)
<1>1. new = [f EXCEPT !.hpos = hpos, !.line = line, !.at = at, !.drawn = drawn, !.t = t]
  BY DEF PictureCounted
<1>2. PICK row \in 0 .. 261 :
          /\ f.hpos \in 0 .. 64
          /\ f.t = 65 * row + f.hpos
          /\ f.at = 912 * row + 14 * f.hpos
          /\ f.t > 0 => f.line = row
  BY RowOfCounters
<1>3. f \in Counters
  BY DEF FieldInv
<1>4. samples = IF wrap THEN 912 * (row + 1) ELSE 912 * row + 14 * (f.hpos + 1)
  BY <1>2, FieldConstants DEF SamplesAt
<1>5. full <=> wrap /\ row = 261
  BY <1>2, <1>4, FieldConstants
<1>6. f.t + 1 >= FieldCycles <=> wrap /\ row = 261
  BY <1>2, FieldConstants
<1>7. /\ hpos \in 0 .. 64 /\ hpos \in Int /\ line \in Int /\ at \in Int /\ t \in Int
      /\ drawn \in {"picture", "noise", "none"}
  <2>1. f.hpos \in Int /\ f.line \in Int /\ f.at \in Int /\ f.t \in Int
        /\ f.signal \in {"picture", "noise"}
    BY <1>3 DEF Counters
  <2>2. samples \in Int
    BY <1>2, <1>4
  <2> HIDE DEF samples, full
  <2>3. drawn \in {"picture", "noise", "none"}
    BY <2>1
  <2>4. at \in Int
    BY <2>2
  <2>5. line \in Int /\ t \in Int
    BY <2>1
  <2>6. hpos \in 0 .. 64
    BY <1>2, FieldConstants
  <2> HIDE DEF drawn, at, line, t, hpos
  <2>7. QED
    BY <2>3, <2>4, <2>5, <2>6
<1>8. \E next \in 0 .. 261 :
        t = 65 * next + hpos /\ at = 912 * next + 14 * hpos /\ (t > 0 => line = next)
  <2>1. CASE ~wrap
    <3>1. t = 65 * row + hpos /\ at = 912 * row + 14 * hpos
      BY <1>2, <1>4, <1>5, <1>6, <2>1
    <3>2. line = row
      BY <1>2, <1>3, <2>1 DEF Counters
    <3>3. QED
      BY <3>1, <3>2
  <2>2. CASE wrap /\ row = 261
    <3>1. t = 0 /\ hpos = 0 /\ at = 0
      BY <1>5, <1>6, <2>2
    <3>2. 0 \in 0 .. 261
      OBVIOUS
    <3>3. QED
      BY <3>1, <3>2
  <2>3. CASE wrap /\ row # 261
    <3>1. row + 1 \in 0 .. 261 /\ hpos = 0
      BY <1>2, <2>3
    <3>2. t = 65 * (row + 1) + hpos
      BY <1>2, <1>6, <2>3, FieldConstants
    <3>3. at = 912 * (row + 1) + 14 * hpos
      BY <1>4, <1>5, <2>3, <3>1
    <3>4. line = row + 1
      BY <1>2, <2>3, FieldConstants
    <3>5. QED
      BY <3>1, <3>2, <3>3, <3>4
  <2>4. QED
    BY <2>1, <2>2, <2>3
<1>9. drawn # "none" => drawn = f.signal /\ at = 0 /\ t = 0
  BY <1>5, <1>6
<1> HIDE DEF wrap, samples, full, hpos, line, at, drawn, t, new
<1>10. /\ new \in Counters /\ new.power = f.power /\ new.signal = f.signal
       /\ new.hpos = hpos /\ new.line = line /\ new.at = at /\ new.drawn = drawn /\ new.t = t
  BY <1>1, <1>3, <1>7 DEF Counters
<1>11. AtRow(new)
  BY <1>7, <1>8, <1>10, FieldConstants DEF AtRow
<1>12. QED
  BY <1>9, <1>10, <1>11 DEF FieldInv, new

\* A cycle of the noise.
LEMMA NoiseCountedInv ==
  ASSUME NEW f, FieldInv(f), ~f.power
  PROVE  FieldInv(NoiseCounted(f))
<1> DEFINE wrap == f.noiseHpos = Columns - 1
           samples == f.noiseAt + SamplesAt(f.noiseHpos)
           full == wrap /\ samples >= LineSamples * Rows
           hpos == IF wrap THEN 0 ELSE f.noiseHpos + 1
           at == IF full THEN 0 ELSE samples
           drawn == IF full THEN f.signal ELSE "none"
           new == NoiseCounted(f)
<1>1. new = [f EXCEPT !.noiseHpos = hpos, !.noiseAt = at, !.drawn = drawn]
  BY DEF NoiseCounted
<1>2. f \in Counters
  BY DEF FieldInv
<1>3. hpos \in Int /\ at \in Int /\ drawn \in {"picture", "noise", "none"}
  <2>1. f.noiseHpos \in Int /\ f.noiseAt \in Int /\ f.signal \in {"picture", "noise"}
    BY <1>2 DEF Counters
  <2>2. samples \in Int
    BY <2>1, FieldConstants DEF SamplesAt
  <2> HIDE DEF samples, full
  <2>3. QED
    BY <2>1, <2>2, FieldConstants
<1>4. drawn # "none" => drawn = f.signal /\ at = 0 /\ hpos = 0
  OBVIOUS
<1> HIDE DEF wrap, samples, full, hpos, at, drawn, new
<1>5. /\ new \in Counters /\ new.power = f.power /\ new.signal = f.signal
      /\ new.noiseHpos = hpos /\ new.noiseAt = at /\ new.drawn = drawn
  BY <1>1, <1>2, <1>3 DEF Counters
<1>6. QED
  BY <1>4, <1>5 DEF FieldInv, new

\* A step.
FieldsNext(f, g) == g \in {FieldTick(f), ToggledPower(f)}

\* The counters after a cycle or a change of power.
LEMMA FieldInvKept ==
  ASSUME NEW f, FieldInv(f), NEW g, FieldsNext(f, g)
  PROVE  FieldInv(g)
<1>1. f \in Counters
  BY DEF FieldInv
<1>2. FieldInv(FieldTick(f))
  BY PictureCountedInv, NoiseCountedInv DEF FieldTick
<1>3. FieldInv(ToggledPower(f))
  BY <1>1, NoiseOnInv, PictureOnInv DEF ToggledPower
<1>4. QED
  BY <1>2, <1>3 DEF FieldsNext

\* However often and in whatever cycle of a field the power is switched, the beam's
\* position, the picture's column and line and the place of the samples agree, and
\* a field is displayed only when it is complete, from the generator that is on
\* (picturegenerator.cpp, video.cpp, videostaticgenerator.cpp).  What a counter
\* holds that nothing sets before power on does not matter.
THEOREM CountersStayInStep ==
  ASSUME NEW VARIABLE f
  PROVE  (\E g \in Counters : f = NoiseOn(g)) /\ [][FieldsNext(f, f')]_f => []InStep(f)
<1>1. (\E g \in Counters : f = NoiseOn(g)) => FieldInv(f)
  BY NoiseOnInv
<1>2. FieldInv(f) /\ [FieldsNext(f, f')]_f => FieldInv(f)'
  BY FieldInvKept
<1>3. FieldInv(f) => InStep(f)
  BY FieldInvImplies
<1>4. QED
  BY <1>1, <1>2, <1>3, PTL
=============================================================================
