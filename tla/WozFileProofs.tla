--------------------------- MODULE WozFileProofs ----------------------------
(***************************************************************************)
(* Proofs about WozFile, for every number of quarter tracks and cells and  *)
(* every file.                                                             *)
(***************************************************************************)
EXTENDS WozFile, FiniteSetTheorems, TLAPS

-----------------------------------------------------------------------------
(* Induction on numbers, over a set rather than a formula, and the minima  *)
(* and maxima that follow.                                                 *)

LEMMA LeastNumber ==
  ASSUME NEW S \in SUBSET Nat, S # {}
  PROVE  \E x \in S : \A y \in S : x <= y
<1>1. IsWellFoundedOn(OpToRel(<, Nat), Nat)
  BY NatLessThanWellFounded
<1>2. PICK x \in S : \A y \in S : ~ (<<y, x>> \in OpToRel(<, Nat))
  BY <1>1, WFMin
<1>3. \A y \in S : ~ (y < x)
  BY <1>2 DEF OpToRel
<1> QED
  BY <1>3

LEMMA Induction ==
  ASSUME NEW S \in SUBSET Nat, 0 \in S, \A n \in S : n + 1 \in S
  PROVE  S = Nat
<1>1. SUFFICES ASSUME Nat \ S # {} PROVE FALSE
  OBVIOUS
<1>2. PICK x \in Nat \ S : \A y \in Nat \ S : x <= y
  BY <1>1, LeastNumber
<1>3. x - 1 \in Nat /\ x - 1 \in S
  BY <1>2
<1> QED
  BY <1>3

LEMMA MinOfQuarters ==
  ASSUME NEW S \in SUBSET Quarters, S # {}
  PROVE  Min(S) \in S /\ \A y \in S : Min(S) <= y
<1>1. \E x \in S : \A y \in S : x <= y
  BY LeastNumber, WozAssumption DEF Quarters
<1> QED
  BY <1>1 DEF Min

LEMMA MaxOfQuarters ==
  ASSUME NEW S \in SUBSET Quarters, S # {}
  PROVE  Max(S) \in S /\ \A y \in S : Max(S) >= y
<1> DEFINE T == {n \in Nat : C_QTRACK - n \in S}
<1>1. T # {}
  <2>1. PICK y \in S : TRUE
    OBVIOUS
  <2>2. C_QTRACK - y \in T
    BY <2>1, WozAssumption DEF Quarters
  <2> QED
    BY <2>2
<1>2. PICK n \in T : \A m \in T : n <= m
  <2> HIDE DEF T
  <2>1. T \in SUBSET Nat
    BY DEF T
  <2> QED
    BY <1>1, <2>1, LeastNumber
<1>3. \A y \in S : C_QTRACK - y \in T
  BY WozAssumption DEF Quarters
<1>4. ASSUME NEW y \in S PROVE C_QTRACK - n >= y
  <2>1. n <= C_QTRACK - y
    BY <1>2, <1>3
  <2>2. n \in Nat /\ y \in Nat /\ C_QTRACK \in Nat
    BY WozAssumption DEF Quarters
  <2> QED
    BY <2>1, <2>2
<1>5. \E x \in S : \A y \in S : x >= y
  BY <1>2, <1>4
<1> QED
  BY <1>5 DEF Max

-----------------------------------------------------------------------------
(* What holds of disks, whatever is done to them.                          *)

GoodDisk(d) == d \in Disks /\ WellFormed(d)

\* Two disks have the same bits, and every quarter track with a track on the
\* first has one as long on the second.
SameTracks(d, e) ==
  /\ BitsOf(e) = BitsOf(d)
  /\ \A q \in Quarters : d.tmap[q] # FF =>
       e.tmap[q] # FF /\ BitsAt(e, q) = BitsAt(d, q)

LEMMA FFNoQuarter == FF \notin Quarters
  BY WozAssumption DEF FF, Quarters

LEMMA TrackOfGoodDisk ==
  ASSUME NEW d, GoodDisk(d), NEW q \in Quarters, d.tmap[q] # FF
  PROVE  /\ d.tmap[q] \in Quarters
         /\ d.trk[d.tmap[q]] \in Tracks
         /\ BitsAt(d, q) \in 1 .. CellCount
         /\ BitsOf(d)[q] = TrackOf(d, q).cell
<1>1. d.tmap[q] \in Quarters
  BY DEF GoodDisk, Disks
<1>2. d.tmap[q] \in {d.tmap[r] : r \in Quarters} \ {FF}
  OBVIOUS
<1>3. d.trk[d.tmap[q]] # NoTrack
  BY <1>2 DEF GoodDisk, WellFormed
<1>4. d.trk[d.tmap[q]] \in Tracks
  BY <1>1, <1>3 DEF GoodDisk, Disks
<1> QED
  BY <1>1, <1>4 DEF BitsAt, TrackOf, Tracks, BitsOf

LEMMA TracksAreTracks ==
  ASSUME NEW t \in Tracks
  PROVE  t # NoTrack
  BY WozAssumption DEF Tracks, NoTrack

\* A quarter track that has no track, or shares one, leaves a slot free for it.
LEMMA FreeSlotExists ==
  ASSUME NEW d, GoodDisk(d), NEW q \in Quarters,
         d.tmap[q] = FF \/ \E r \in Quarters \ {q} : d.tmap[r] = d.tmap[q]
  PROVE  FreeSlot(d) \in Quarters /\ d.trk[FreeSlot(d)] = NoTrack
<1> DEFINE S == Quarters \ {q}
           used == {d.tmap[r] : r \in S}
           free == {s \in Quarters : d.trk[s] = NoTrack}
<1>1. IsFiniteSet(Quarters) /\ Cardinality(Quarters) = C_QTRACK
  <2>1. /\ IsFiniteSet(0 .. C_QTRACK - 1)
        /\ Cardinality(0 .. C_QTRACK - 1)
             = IF 0 > C_QTRACK - 1 THEN 0 ELSE C_QTRACK - 1 - 0 + 1
    BY FS_Interval, WozAssumption
  <2> QED
    BY <2>1, WozAssumption DEF Quarters
<1>2. IsFiniteSet(S) /\ Cardinality(S) = C_QTRACK - 1
  BY <1>1, FS_RemoveElement
<1>3. IsFiniteSet(used) /\ Cardinality(used) <= C_QTRACK - 1
  <2> DEFINE f == [r \in S |-> d.tmap[r]]
  <2>1. f \in Surjection(S, used)
    BY DEF Surjection
  <2> HIDE DEF f, used, S
  <2> QED
    BY <1>2, <2>1, FS_Surjection
<1>4. ~ (Quarters \subseteq used)
  <2> HIDE DEF used
  <2> QED
    BY <1>1, <1>3, FS_Subset, FS_CardinalityType, WozAssumption
<1>5. PICK s \in Quarters : s \notin used
  BY <1>4
<1>6. s \notin {d.tmap[r] : r \in Quarters} \ {FF}
  BY <1>5, FFNoQuarter
<1>7. s \in free
  BY <1>6 DEF GoodDisk, WellFormed
<1> QED
  BY <1>7, MinOfQuarters DEF FreeSlot

-----------------------------------------------------------------------------
(* expandTracks.                                                           *)

\* A slot that is free belongs to no quarter track.
LEMMA FreeSlotIsNobodys ==
  ASSUME NEW d, GoodDisk(d), NEW s \in Quarters, d.trk[s] = NoTrack
  PROVE  \A q \in Quarters : d.tmap[q] # s
<1>1. s \notin {d.tmap[q] : q \in Quarters} \ {FF}
  BY DEF GoodDisk, WellFormed
<1> QED
  BY <1>1, FFNoQuarter

\* The track t has the bits of quarter track q, which has no track or shares one.
OwnTrack(d, q, t) ==
  /\ t \in Tracks
  /\ \/ d.tmap[q] = FF /\ t.cell = [c \in Cells |-> FALSE]
     \/ /\ \E r \in Quarters \ {q} : d.tmap[r] = d.tmap[q]
        /\ d.tmap[q] # FF /\ t = TrackOf(d, q)

\* A copy of its own, or a blank track, in a free slot: the quarter track has the
\* bits it had.
LEMMA WithOwnTrack ==
  ASSUME NEW d, GoodDisk(d), NEW q \in Quarters,
         NEW s \in Quarters, d.trk[s] = NoTrack,
         NEW t, OwnTrack(d, q, t)
  PROVE  /\ GoodDisk(WithTrack(d, q, s, t))
         /\ SameTracks(d, WithTrack(d, q, s, t))
         /\ WithTrack(d, q, s, t).tmap = [d.tmap EXCEPT ![q] = s]
         /\ \A r \in Quarters : d.tmap[r] # s
<1> DEFINE e == WithTrack(d, q, s, t)
<1>1. d \in Disks /\ d.tmap \in [Quarters -> Quarters \cup {FF}]
      /\ d.trk \in [Quarters -> Tracks \cup {NoTrack}]
  BY DEF GoodDisk, Disks
<1>2. e.tmap = [d.tmap EXCEPT ![q] = s] /\ e.trk = [d.trk EXCEPT ![s] = t]
  BY DEF WithTrack
<1>3. e \in Disks
  BY <1>1 DEF WithTrack, Disks, OwnTrack
<1>4. \A r \in Quarters : d.tmap[r] # s
  BY FreeSlotIsNobodys
<1>5. \A r \in Quarters \ {q} : e.tmap[r] = d.tmap[r]
  BY <1>1, <1>2
<1>6. e.tmap[q] = s /\ e.trk[s] = t /\ t # NoTrack /\ s # FF
  BY <1>1, <1>2, TracksAreTracks, FFNoQuarter DEF OwnTrack
<1>7. \A u \in Quarters \ {s} : e.trk[u] = d.trk[u]
  BY <1>1, <1>2
<1> HIDE DEF e
<1>8. WellFormed(e)
  <2>1. {d.tmap[r] : r \in Quarters} \ {FF} = {u \in Quarters : d.trk[u] # NoTrack}
    BY DEF GoodDisk, WellFormed
  <2>2. \A r \in Quarters : e.tmap[r] # FF =>
          e.tmap[r] \in Quarters /\ e.trk[e.tmap[r]] # NoTrack
    <3>1. TAKE r \in Quarters
    <3>2. CASE r = q
      BY <3>2, <1>6
    <3>3. CASE r # q /\ d.tmap[r] # FF
      <4>1. d.tmap[r] \in Quarters /\ d.trk[d.tmap[r]] # NoTrack
        BY <3>3, TrackOfGoodDisk, TracksAreTracks
      <4> QED
        BY <4>1, <3>3, <1>4, <1>5, <1>7
    <3> QED
      BY <3>2, <3>3, <1>5
  <2>3. \A u \in Quarters : e.trk[u] # NoTrack =>
          u # FF /\ \E r \in Quarters : e.tmap[r] = u
    <3>1. SUFFICES ASSUME NEW u \in Quarters, e.trk[u] # NoTrack
                   PROVE  \E r \in Quarters : e.tmap[r] = u
      BY FFNoQuarter
    <3>2. CASE u = s
      BY <3>2, <1>6
    <3>3. CASE u # s
      <4>1. d.trk[u] # NoTrack
        BY <3>1, <3>3, <1>7
      <4>2. PICK r \in Quarters : d.tmap[r] = u
        BY <2>1, <4>1
      <4>3. CASE r # q
        BY <4>2, <4>3, <1>5
      <4>4. CASE r = q
        <5>1. d.tmap[q] # FF
          BY <4>2, <4>4, FFNoQuarter
        <5>2. PICK r2 \in Quarters \ {q} : d.tmap[r2] = d.tmap[q]
          BY <5>1 DEF OwnTrack
        <5> QED
          BY <5>2, <4>2, <4>4, <1>5
      <4> QED
        BY <4>3, <4>4
    <3> QED
      BY <3>2, <3>3
  <2> QED
    BY <2>2, <2>3 DEF WellFormed
<1>9. \A r \in Quarters \ {q} : /\ BitsOf(e)[r] = BitsOf(d)[r]
                                /\ BitsAt(e, r) = BitsAt(d, r)
  <2>1. TAKE r \in Quarters \ {q}
  <2>2. d.tmap[r] # FF => d.tmap[r] \in Quarters \ {s}
    BY <1>1, <1>4
  <2> QED
    BY <2>2, <1>5, <1>7 DEF BitsOf, BitsAt, TrackOf
<1>10. BitsOf(e)[q] = t.cell /\ BitsAt(e, q) = t.bits
  BY <1>6 DEF BitsOf, BitsAt, TrackOf
<1>11. BitsOf(d)[q] = t.cell /\ (d.tmap[q] # FF => BitsAt(d, q) = t.bits)
  BY DEF OwnTrack, BitsOf, BitsAt
<1>12. BitsOf(e) = BitsOf(d)
  <2>1. \A r \in Quarters : BitsOf(e)[r] = BitsOf(d)[r]
    BY <1>9, <1>10, <1>11
  <2> QED
    BY <2>1 DEF BitsOf
<1>13. SameTracks(d, e)
  BY <1>5, <1>6, <1>9, <1>10, <1>11, <1>12 DEF SameTracks
<1> QED
  BY <1>2, <1>3, <1>4, <1>8, <1>13 DEF e, GoodDisk

LEMMA NewTrackLengthFits ==
  ASSUME NEW d, GoodDisk(d), NEW q \in Quarters
  PROVE  NewTrackLength(d, q) \in 1 .. CellCount
<1> DEFINE below == {r \in HasTrack(d) : r < q}
           above == {r \in HasTrack(d) : r > q}
           t1 == IF below = {} THEN 0 ELSE BitsAt(d, Max(below))
           t2 == IF above = {} THEN 0 ELSE BitsAt(d, Min(above))
<1>1. \A r \in HasTrack(d) : r \in Quarters /\ BitsAt(d, r) \in 1 .. CellCount
  BY TrackOfGoodDisk DEF HasTrack
<1>2. t1 \in 0 .. CellCount
  <2>1. below # {} => Max(below) \in below
    BY MaxOfQuarters DEF HasTrack
  <2> QED
    BY <2>1, <1>1, WozAssumption
<1>3. t2 \in 0 .. CellCount
  <2>1. above # {} => Min(above) \in above
    BY MinOfQuarters DEF HasTrack
  <2> QED
    BY <2>1, <1>1, WozAssumption
<1>4. NewTrackLength(d, q) = IF t1 = 0 /\ t2 = 0 THEN DefaultLength
                             ELSE IF t1 # 0 /\ t2 # 0 THEN (t1 + t2) \div 2
                             ELSE t1 + t2
  BY DEF NewTrackLength
<1> HIDE DEF t1, t2
<1> QED
  BY <1>2, <1>3, <1>4, WozAssumption

\* e is the disk d, of which the quarter tracks below n are expanded: they have
\* tracks of their own.
Expanding(d, e, n) ==
  /\ GoodDisk(e) /\ SameTracks(d, e)
  /\ \A q \in 0 .. n - 1 : e.tmap[q] # FF
  /\ \A q, r \in 0 .. n - 1 : q # r => e.tmap[q] # e.tmap[r]

LEMMA SameTracksTransitive ==
  ASSUME NEW d, NEW e, NEW f, SameTracks(d, e), SameTracks(e, f)
  PROVE  SameTracks(d, f)
  BY DEF SameTracks

LEMMA ExpandTrackStep ==
  ASSUME NEW d, NEW e, NEW n \in Quarters, Expanding(d, e, n)
  PROVE  Expanding(d, ExpandTrack(e, n), n + 1)
<1> DEFINE f == ExpandTrack(e, n)
           shared == \E r \in 0 .. n - 1 : e.tmap[r] = e.tmap[n]
<1>1. /\ n \in Nat /\ 0 .. n = (0 .. n - 1) \cup {n} /\ n \notin 0 .. n - 1
      /\ 0 .. n - 1 \subseteq Quarters
  BY WozAssumption DEF Quarters
<1>2. CASE e.tmap[n] # FF /\ ~ shared
  <2>1. f = e
    BY <1>2 DEF ExpandTrack, CopyTrack
  <2>2. \A q \in 0 .. n : e.tmap[q] # FF
    BY <1>1, <1>2 DEF Expanding
  <2>3. \A q, r \in 0 .. n : q # r => e.tmap[q] # e.tmap[r]
    BY <1>1, <1>2 DEF Expanding
  <2> QED
    BY <1>1, <2>1, <2>2, <2>3 DEF Expanding
<1>3. CASE e.tmap[n] = FF \/ shared
  <2> DEFINE s == FreeSlot(e)
  <2>1. s \in Quarters /\ e.trk[s] = NoTrack
    BY <1>1, <1>3, FreeSlotExists DEF Expanding
  <2>2. PICK t : f = WithTrack(e, n, s, t) /\ OwnTrack(e, n, t)
    <3>1. CASE e.tmap[n] = FF
      <4> DEFINE t == [bits |-> NewTrackLength(e, n), cell |-> [c \in Cells |-> FALSE]]
      <4>1. t \in Tracks
        BY NewTrackLengthFits DEF Expanding, Tracks
      <4>2. f = WithTrack(e, n, s, t)
        BY <3>1 DEF ExpandTrack, CreateNewTrack
      <4>3. OwnTrack(e, n, t)
        BY <3>1, <4>1 DEF OwnTrack
      <4> QED
        BY <4>2, <4>3
    <3>2. CASE e.tmap[n] # FF /\ shared
      <4>1. f = WithTrack(e, n, s, TrackOf(e, n))
        BY <3>2 DEF ExpandTrack, CopyTrack
      <4>2. TrackOf(e, n) \in Tracks
        BY <3>2, TrackOfGoodDisk DEF Expanding, TrackOf
      <4>3. \E r \in Quarters \ {n} : e.tmap[r] = e.tmap[n]
        BY <3>2, <1>1
      <4>4. OwnTrack(e, n, TrackOf(e, n))
        BY <3>2, <4>2, <4>3 DEF OwnTrack
      <4> QED
        BY <4>1, <4>4
    <3> QED
      BY <1>3, <3>1, <3>2
  <2>3. /\ GoodDisk(f) /\ SameTracks(e, f)
        /\ f.tmap = [e.tmap EXCEPT ![n] = s]
        /\ \A r \in Quarters : e.tmap[r] # s
    <3>1. GoodDisk(e)
      BY DEF Expanding
    <3> HIDE DEF f, s
    <3>2. /\ GoodDisk(WithTrack(e, n, s, t))
          /\ SameTracks(e, WithTrack(e, n, s, t))
          /\ WithTrack(e, n, s, t).tmap = [e.tmap EXCEPT ![n] = s]
          /\ \A r \in Quarters : e.tmap[r] # s
      BY <2>1, <2>2, <3>1, WithOwnTrack
    <3> QED
      BY <2>2, <3>2
  <2>4. SameTracks(d, f)
    BY <2>3, SameTracksTransitive DEF Expanding
  <2>5. e.tmap \in [Quarters -> Quarters \cup {FF}]
    BY DEF Expanding, GoodDisk, Disks
  <2>6. f.tmap[n] = s /\ \A r \in 0 .. n - 1 : f.tmap[r] = e.tmap[r]
    BY <1>1, <2>3, <2>5
  <2>7. s # FF
    BY <2>1, FFNoQuarter
  <2> HIDE DEF f, s
  <2>8. \A q \in 0 .. n : f.tmap[q] # FF
    BY <1>1, <2>6, <2>7 DEF Expanding
  <2>9. \A q, r \in 0 .. n : q # r => f.tmap[q] # f.tmap[r]
    BY <1>1, <2>3, <2>6 DEF Expanding
  <2> QED
    BY <1>1, <2>3, <2>4, <2>8, <2>9 DEF Expanding, f
<1> QED
  BY <1>2, <1>3

\* The disks of the loop of expandTracks, up to quarter track m.
Loop(d, m, g) ==
  g = [n \in 0 .. m |-> IF n = 0 THEN d ELSE ExpandTrack(g[n - 1], n - 1)]

LEMMA LoopExists ==
  ASSUME NEW d, NEW k \in Nat
  PROVE  \E g : Loop(d, k, g)
<1> DEFINE S == {m \in Nat : \E g : Loop(d, m, g)}
<1>1. 0 \in S
  <2> DEFINE g == [n \in 0 .. 0 |-> d]
  <2>1. g = [n \in 0 .. 0 |-> IF n = 0 THEN d ELSE ExpandTrack(g[n - 1], n - 1)]
    OBVIOUS
  <2> QED
    BY <2>1 DEF Loop
<1>2. ASSUME NEW m \in S PROVE m + 1 \in S
  <2>1. PICK g : Loop(d, m, g)
    OBVIOUS
  <2> DEFINE h == [n \in 0 .. m + 1 |-> IF n = m + 1 THEN ExpandTrack(g[m], m) ELSE g[n]]
             b(n) == IF n = 0 THEN d ELSE ExpandTrack(h[n - 1], n - 1)
  <2>2. ASSUME NEW n \in 0 .. m + 1 PROVE h[n] = b(n)
    <3>1. CASE n = m + 1
      BY <3>1
    <3>2. CASE n # m + 1
      <4>1. n \in 0 .. m /\ h[n] = g[n]
        BY <3>2
      <4>2. n # 0 => h[n - 1] = g[n - 1]
        BY <4>1
      <4>3. g[n] = IF n = 0 THEN d ELSE ExpandTrack(g[n - 1], n - 1)
        BY <2>1, <4>1 DEF Loop
      <4> HIDE DEF h
      <4> QED
        BY <4>1, <4>2, <4>3
    <3> QED
      BY <3>1, <3>2
  <2>3. h = [n \in 0 .. m + 1 |-> b(n)]
    <3>1. h = [n \in 0 .. m + 1 |-> h[n]]
      OBVIOUS
    <3> HIDE DEF h, b
    <3> QED
      BY <2>2, <3>1
  <2>4. Loop(d, m + 1, h)
    <3> HIDE DEF h
    <3> QED
      BY <2>3 DEF Loop
  <2> QED
    BY <2>4
<1>3. S = Nat
  <2>1. S \in SUBSET Nat
    OBVIOUS
  <2> HIDE DEF S
  <2> QED
    BY <1>1, <1>2, <2>1, Induction
<1> QED
  BY <1>3

\* What expandTracks makes of a disk that was read from a file: the same bits on
\* tracks as long, and a track of its own for every quarter track.
LEMMA ExpandTracksExpands ==
  ASSUME NEW d, GoodDisk(d)
  PROVE  Expanding(d, ExpandTracks(d), C_QTRACK)
<1> DEFINE g == CHOOSE f : Loop(d, C_QTRACK, f)
<1>1. C_QTRACK \in Nat
  BY WozAssumption
<1>2. ExpandTracks(d) = g[C_QTRACK]
  BY DEF ExpandTracks, Loop
<1>3. Loop(d, C_QTRACK, g)
  BY <1>1, LoopExists
<1> HIDE DEF g
<1> DEFINE S == {m \in Nat : m <= C_QTRACK => Expanding(d, g[m], m)}
<1>4. 0 \in S
  <2>1. g[0] = d
    BY <1>1, <1>3 DEF Loop
  <2> QED
    BY <2>1 DEF Expanding, SameTracks
<1>5. ASSUME NEW m \in S PROVE m + 1 \in S
  <2>1. SUFFICES ASSUME m + 1 <= C_QTRACK PROVE Expanding(d, g[m + 1], m + 1)
    OBVIOUS
  <2>2. m \in Quarters /\ Expanding(d, g[m], m)
    BY <1>1, <2>1 DEF Quarters
  <2>3. g[m + 1] = ExpandTrack(g[m], m)
    <3>1. m + 1 \in 0 .. C_QTRACK /\ m + 1 # 0 /\ m + 1 - 1 = m
      BY <1>1, <2>1
    <3>2. \A n \in 0 .. C_QTRACK : g[n] = IF n = 0 THEN d ELSE ExpandTrack(g[n - 1], n - 1)
      BY <1>3 DEF Loop
    <3>3. g[m + 1] = ExpandTrack(g[m + 1 - 1], m + 1 - 1)
      BY <3>1, <3>2
    <3> QED
      BY <3>1, <3>3
  <2> QED
    BY <2>2, <2>3, ExpandTrackStep
<1>6. S = Nat
  <2>1. S \in SUBSET Nat
    OBVIOUS
  <2> HIDE DEF S
  <2> QED
    BY <1>4, <1>5, <2>1, Induction
<1> QED
  BY <1>1, <1>2, <1>6

-----------------------------------------------------------------------------
(* reduceTracks.                                                           *)

\* A track of zeroes and no track are the same bits.
LEMMA RemoveZeroesKeepsBits ==
  ASSUME NEW d, GoodDisk(d)
  PROVE  LET e == RemoveZeroes(d)
         IN  /\ GoodDisk(e) /\ BitsOf(e) = BitsOf(d)
             /\ \A q \in Quarters : e.tmap[q] # FF => BitsAt(e, q) = BitsAt(d, q)
<1> DEFINE zero == {q \in HasTrack(d) : TrackIsZeroes(TrackOf(d, q))}
           gone == {d.tmap[q] : q \in zero}
           e    == RemoveZeroes(d)
<1>1. /\ d.tmap \in [Quarters -> Quarters \cup {FF}]
      /\ d.trk \in [Quarters -> Tracks \cup {NoTrack}]
  BY DEF GoodDisk, Disks
<1>2. /\ e.tmap = [q \in Quarters |-> IF q \in zero THEN FF ELSE d.tmap[q]]
      /\ e.trk = [s \in Quarters |-> IF s \in gone THEN NoTrack ELSE d.trk[s]]
  BY DEF RemoveZeroes, WithoutTracks
<1>3. e \in Disks
  <2>1. e = [tmap |-> e.tmap, trk |-> e.trk]
    BY DEF RemoveZeroes
  <2> HIDE DEF e, zero, gone
  <2>2. e.tmap \in [Quarters -> Quarters \cup {FF}]
    BY <1>1, <1>2
  <2>3. e.trk \in [Quarters -> Tracks \cup {NoTrack}]
    BY <1>1, <1>2
  <2> QED
    BY <2>1, <2>2, <2>3 DEF Disks
\* The quarter tracks that share a track of zeroes lose it together.
<1>4. \A q \in Quarters : d.tmap[q] # FF => (q \in zero <=> d.tmap[q] \in gone)
  <2>1. TAKE q \in Quarters
  <2>2. ASSUME d.tmap[q] # FF, d.tmap[q] \in gone PROVE q \in zero
    <3>1. PICK r \in zero : d.tmap[r] = d.tmap[q]
      BY <2>2
    <3> QED
      BY <2>2, <3>1 DEF TrackOf, HasTrack
  <2> QED
    BY <2>2
<1>5. \A q \in Quarters : q \in zero => d.tmap[q] # FF
  BY DEF HasTrack
<1>6. \A q \in zero : BitsOf(d)[q] = [c \in Cells |-> FALSE]
  <2>1. TAKE q \in zero
  <2>2. q \in Quarters /\ d.tmap[q] # FF /\ TrackOf(d, q) \in Tracks
    BY TrackOfGoodDisk DEF HasTrack, TrackOf
  <2>3. TrackOf(d, q).cell \in [Cells -> BOOLEAN]
        /\ \A c \in Cells : ~ TrackOf(d, q).cell[c]
    BY <2>2 DEF TrackIsZeroes, Tracks
  <2>4. TrackOf(d, q).cell = [c \in Cells |-> FALSE]
    BY <2>3
  <2> QED
    BY <2>2, <2>4 DEF BitsOf
<1> HIDE DEF e, zero, gone
<1>7. WellFormed(e)
  <2>1. {d.tmap[q] : q \in Quarters} \ {FF} = {u \in Quarters : d.trk[u] # NoTrack}
    BY DEF GoodDisk, WellFormed
  <2>2. \A q \in Quarters : e.tmap[q] # FF =>
          e.tmap[q] \in Quarters /\ e.trk[e.tmap[q]] # NoTrack
    BY <1>1, <1>2, <1>4, TrackOfGoodDisk, TracksAreTracks
  <2>3. \A u \in Quarters : e.trk[u] # NoTrack => \E q \in Quarters : e.tmap[q] = u
    <3>1. SUFFICES ASSUME NEW u \in Quarters, e.trk[u] # NoTrack
                   PROVE  \E q \in Quarters : e.tmap[q] = u
      OBVIOUS
    <3>2. d.trk[u] # NoTrack /\ u \notin gone
      BY <1>2, <3>1
    <3>3. PICK q \in Quarters : d.tmap[q] = u /\ u # FF
      BY <2>1, <3>2
    <3>4. q \notin zero
      BY <1>4, <3>2, <3>3
    <3> QED
      BY <1>2, <3>3, <3>4
  <2> QED
    BY <2>2, <2>3, FFNoQuarter DEF WellFormed
<1>8. \A q \in Quarters \ zero : /\ BitsOf(e)[q] = BitsOf(d)[q]
                                 /\ BitsAt(e, q) = BitsAt(d, q)
  <2>1. TAKE q \in Quarters \ zero
  <2>2. e.tmap[q] = d.tmap[q]
    BY <1>2
  <2>3. d.tmap[q] # FF => e.trk[d.tmap[q]] = d.trk[d.tmap[q]]
    BY <1>1, <1>2, <1>4
  <2> QED
    BY <2>2, <2>3 DEF BitsOf, BitsAt, TrackOf
<1>9. \A q \in zero : e.tmap[q] = FF /\ BitsOf(e)[q] = BitsOf(d)[q]
  <2>1. TAKE q \in zero
  <2>2. q \in Quarters
    BY DEF zero, HasTrack
  <2>3. e.tmap[q] = FF
    BY <1>2, <2>2
  <2>4. BitsOf(e)[q] = [c \in Cells |-> FALSE]
    BY <2>2, <2>3 DEF BitsOf
  <2> QED
    BY <1>6, <2>3, <2>4
<1>10. BitsOf(e) = BitsOf(d)
  <2>1. \A q \in Quarters : BitsOf(e)[q] = BitsOf(d)[q]
    BY <1>8, <1>9
  <2> QED
    BY <2>1 DEF BitsOf
<1> QED
  BY <1>3, <1>7, <1>8, <1>9, <1>10 DEF GoodDisk, e

LEMMA MergeIdenticalKeepsBits ==
  ASSUME NEW d, GoodDisk(d)
  PROVE  LET e == MergeIdentical(d)
         IN  /\ GoodDisk(e) /\ BitsOf(e) = BitsOf(d)
             /\ \A q \in Quarters : e.tmap[q] # FF => BitsAt(e, q) = BitsAt(d, q)
<1> DEFINE first(q) == Min({r \in HasTrack(d) :
                         r <= q /\ TracksAreIdentical(TrackOf(d, r), TrackOf(d, q))})
           tmap == [q \in Quarters |-> IF d.tmap[q] = FF THEN FF ELSE d.tmap[first(q)]]
           kept == {tmap[q] : q \in Quarters}
           e    == MergeIdentical(d)
<1>1. /\ d.tmap \in [Quarters -> Quarters \cup {FF}]
      /\ d.trk \in [Quarters -> Tracks \cup {NoTrack}]
  BY DEF GoodDisk, Disks
<1>2. ASSUME NEW q \in Quarters, d.tmap[q] # FF
      PROVE  /\ first(q) \in Quarters /\ d.tmap[first(q)] # FF
             /\ TracksAreIdentical(TrackOf(d, first(q)), TrackOf(d, q))
  <2> DEFINE R == {r \in HasTrack(d) :
                     r <= q /\ TracksAreIdentical(TrackOf(d, r), TrackOf(d, q))}
  <2>1. q \in R
    BY <1>2, WozAssumption DEF HasTrack, TracksAreIdentical, Quarters
  <2>2. R \in SUBSET Quarters
    BY DEF HasTrack
  <2>3. Min(R) \in R
    <3> HIDE DEF R
    <3> QED
      BY <2>1, <2>2, MinOfQuarters
  <2> QED
    BY <2>3 DEF HasTrack
<1>3. /\ e.tmap = tmap
      /\ e.trk = [s \in Quarters |-> IF s \in Quarters \ kept THEN NoTrack ELSE d.trk[s]]
      /\ e = [tmap |-> e.tmap, trk |-> e.trk]
  BY DEF MergeIdentical, WithoutTracks
<1>4. \A q \in Quarters : tmap[q] = IF d.tmap[q] = FF THEN FF ELSE d.tmap[first(q)]
  OBVIOUS
<1>5. tmap \in [Quarters -> Quarters \cup {FF}]
  <2> HIDE DEF first
  <2> QED
    BY <1>1, <1>2
<1> HIDE DEF e, first, tmap
<1>6. e \in Disks
  <2>1. e.trk \in [Quarters -> Tracks \cup {NoTrack}]
    BY <1>1, <1>3
  <2> QED
    BY <1>3, <1>5, <2>1 DEF Disks
<1>7. ASSUME NEW q \in Quarters, d.tmap[q] # FF
      PROVE  /\ tmap[q] \in Quarters /\ d.trk[tmap[q]] \in Tracks
             /\ e.trk[tmap[q]] = d.trk[tmap[q]]
             /\ d.trk[tmap[q]].bits = TrackOf(d, q).bits
             /\ d.trk[tmap[q]].cell = TrackOf(d, q).cell
  <2>1. tmap[q] = d.tmap[first(q)]
    BY <1>4, <1>7
  <2>2. tmap[q] \in Quarters /\ d.trk[tmap[q]] \in Tracks
    BY <1>2, <1>7, <2>1, TrackOfGoodDisk
  <2>3. e.trk[tmap[q]] = d.trk[tmap[q]]
    BY <1>3, <2>2
  <2>4. TracksAreIdentical(d.trk[tmap[q]], TrackOf(d, q))
    BY <1>2, <1>7, <2>1 DEF TrackOf
  <2>5. TrackOf(d, q) \in Tracks
    BY <1>7, TrackOfGoodDisk DEF TrackOf
  <2>6. /\ d.trk[tmap[q]].cell \in [Cells -> BOOLEAN]
        /\ TrackOf(d, q).cell \in [Cells -> BOOLEAN]
    BY <2>2, <2>5 DEF Tracks
  <2>7. d.trk[tmap[q]].cell = TrackOf(d, q).cell
    BY <2>4, <2>6 DEF TracksAreIdentical
  <2> QED
    BY <2>2, <2>3, <2>4, <2>7 DEF TracksAreIdentical
<1>8. WellFormed(e)
  <2>1. \A q \in Quarters : tmap[q] # FF =>
          tmap[q] \in Quarters /\ e.trk[tmap[q]] # NoTrack
    BY <1>4, <1>7, TracksAreTracks
  <2>2. \A u \in Quarters : e.trk[u] # NoTrack => \E q \in Quarters : tmap[q] = u
    BY <1>3
  <2> QED
    BY <1>3, <2>1, <2>2, FFNoQuarter DEF WellFormed
<1>9. \A q \in Quarters : e.tmap[q] # FF <=> d.tmap[q] # FF
  BY <1>3, <1>4, <1>7, FFNoQuarter
<1>10. \A q \in Quarters : /\ BitsOf(e)[q] = BitsOf(d)[q]
                           /\ e.tmap[q] # FF => BitsAt(e, q) = BitsAt(d, q)
  <2>1. TAKE q \in Quarters
  <2>2. CASE d.tmap[q] = FF
    BY <2>2, <1>9 DEF BitsOf
  <2>3. CASE d.tmap[q] # FF
    <3>1. /\ TrackOf(e, q) = d.trk[tmap[q]]
      BY <2>3, <1>3, <1>7 DEF TrackOf
    <3>2. /\ TrackOf(e, q).cell = TrackOf(d, q).cell
          /\ TrackOf(e, q).bits = TrackOf(d, q).bits
      BY <2>3, <3>1, <1>7
    <3> QED
      BY <2>3, <1>9, <3>2 DEF BitsOf, BitsAt
  <2> QED
    BY <2>2, <2>3
<1>11. BitsOf(e) = BitsOf(d)
  <2>1. \A q \in Quarters : BitsOf(e)[q] = BitsOf(d)[q]
    BY <1>10
  <2> QED
    BY <2>1 DEF BitsOf
<1> QED
  BY <1>6, <1>8, <1>10, <1>11 DEF GoodDisk, e

LEMMA DropKludgeMayBlank ==
  ASSUME NEW d, GoodDisk(d)
  PROVE  LET e == DropKludge(d)
         IN  /\ GoodDisk(e)
             /\ BitsOf(e) \in Floppy!AfterSave(BitsOf(d))
             /\ \A q \in Quarters : e.tmap[q] # FF => BitsAt(e, q) = BitsAt(d, q)
<1> DEFINE e == DropKludge(d)
           drop == /\ HasTrack(d) # {}
                   /\ Max(HasTrack(d)) = Kludge
                   /\ d.tmap[Kludge] = d.tmap[Kludge - 1]
           blank == [c \in Cells |-> FALSE]
<1>1. /\ d.tmap \in [Quarters -> Quarters \cup {FF}]
      /\ d.trk \in [Quarters -> Tracks \cup {NoTrack}]
      /\ d = [tmap |-> d.tmap, trk |-> d.trk]
      /\ Kludge \in Quarters /\ Kludge - 1 \in Quarters /\ Kludge - 1 # Kludge
  BY WozAssumption DEF GoodDisk, Disks, Quarters
<1>2. CASE ~ drop
  <2>1. e = d
    BY <1>2 DEF DropKludge
  <2>2. BitsOf(d) \in Floppy!AfterSave(BitsOf(d))
    BY DEF Floppy!AfterSave
  <2> QED
    BY <2>1, <2>2
<1>3. CASE drop
  <2>1. /\ e.tmap = [d.tmap EXCEPT ![Kludge] = FF] /\ e.trk = d.trk
        /\ e = [tmap |-> e.tmap, trk |-> e.trk]
    BY <1>1, <1>3 DEF DropKludge
  <2>2. \A q \in Quarters : Kludge < q => d.tmap[q] = FF
    <3>1. HasTrack(d) \in SUBSET Quarters
      BY DEF HasTrack
    <3>2. \A q \in HasTrack(d) : Kludge >= q
      BY <1>3, <3>1, MaxOfQuarters
    <3> QED
      BY <1>1, <3>2 DEF HasTrack, Quarters
  <2> HIDE DEF e
  <2>3. e.tmap[Kludge] = FF /\ \A q \in Quarters \ {Kludge} : e.tmap[q] = d.tmap[q]
    BY <1>1, <2>1
  <2>4. e \in Disks
    <3>1. e.tmap \in [Quarters -> Quarters \cup {FF}]
      BY <1>1, <2>1
    <3> QED
      BY <1>1, <2>1, <3>1 DEF Disks
  <2>5. WellFormed(e)
    <3>1. {d.tmap[q] : q \in Quarters} \ {FF} = {e.tmap[q] : q \in Quarters} \ {FF}
      BY <1>1, <1>3, <2>3
    <3> QED
      BY <2>1, <3>1 DEF GoodDisk, WellFormed
  <2>6. \A q \in Quarters \ {Kludge} : BitsOf(e)[q] = BitsOf(d)[q]
    BY <2>1, <2>3 DEF BitsOf, TrackOf
  <2>7. BitsOf(e)[Kludge] = blank
    BY <1>1, <2>3 DEF BitsOf
  <2>8. BitsOf(e) = [BitsOf(d) EXCEPT ![Kludge] = blank]
    <3>1. /\ BitsOf(e) = [q \in Quarters |-> BitsOf(e)[q]]
          /\ BitsOf(d) = [q \in Quarters |-> BitsOf(d)[q]]
      BY DEF BitsOf
    <3> HIDE DEF blank
    <3> QED
      BY <3>1, <2>6, <2>7
  <2>9. BitsOf(e) \in Floppy!AfterSave(BitsOf(d))
    <3>1. CASE BitsOf(d)[Kludge] = blank
      <4>1. BitsOf(e) = BitsOf(d)
        <5>1. BitsOf(d) = [q \in Quarters |-> BitsOf(d)[q]]
          BY DEF BitsOf
        <5> HIDE DEF blank
        <5> QED
          BY <3>1, <2>8, <5>1
      <4> QED
        BY <4>1 DEF Floppy!AfterSave
    <3>2. CASE BitsOf(d)[Kludge] # blank
      <4>1. BitsOf(d)[Kludge] = BitsOf(d)[Kludge - 1]
        BY <1>1, <1>3 DEF BitsOf, TrackOf
      <4>2. \A q \in Kludge + 1 .. C_QTRACK - 1 : BitsOf(d)[q] = blank
        <5>1. TAKE q \in Kludge + 1 .. C_QTRACK - 1
        <5>2. q \in Quarters /\ d.tmap[q] = FF
          BY <2>2, WozAssumption DEF Quarters
        <5> QED
          BY <5>2 DEF BitsOf
      <4>3. Floppy!MayBlankKludge(BitsOf(d))
        BY <3>2, <4>1, <4>2 DEF Floppy!MayBlankKludge, Floppy!BlankBits, Floppy!Cells, Cells
      <4> QED
        BY <2>8, <4>3 DEF Floppy!AfterSave, Floppy!BlankBits, Floppy!Cells, Cells
    <3> QED
      BY <3>1, <3>2
  <2>10. \A q \in Quarters : e.tmap[q] # FF => BitsAt(e, q) = BitsAt(d, q)
    BY <2>1, <2>3 DEF BitsAt, TrackOf
  <2> QED
    BY <2>4, <2>5, <2>9, <2>10 DEF e, GoodDisk
<1> QED
  BY <1>2, <1>3

\* What reduceTracks makes of a disk: the same bits, but for the quarter track it
\* drops, on tracks as long.
LEMMA ReduceTracksKeepsBits ==
  ASSUME NEW d, GoodDisk(d)
  PROVE  LET e == ReduceTracks(d)
         IN  /\ GoodDisk(e)
             /\ BitsOf(e) \in Floppy!AfterSave(BitsOf(d))
             /\ \A q \in Quarters : e.tmap[q] # FF => BitsAt(e, q) = BitsAt(d, q)
<1> DEFINE d1 == RemoveZeroes(d)
           d2 == MergeIdentical(d1)
           d3 == DropKludge(d2)
<1>1. /\ GoodDisk(d1) /\ BitsOf(d1) = BitsOf(d)
      /\ \A q \in Quarters : d1.tmap[q] # FF => BitsAt(d1, q) = BitsAt(d, q)
  BY RemoveZeroesKeepsBits
<1> HIDE DEF d1
<1>2. /\ GoodDisk(d2) /\ BitsOf(d2) = BitsOf(d1)
      /\ \A q \in Quarters : d2.tmap[q] # FF => BitsAt(d2, q) = BitsAt(d1, q)
  BY <1>1, MergeIdenticalKeepsBits
<1> HIDE DEF d2
<1>3. /\ GoodDisk(d3) /\ BitsOf(d3) \in Floppy!AfterSave(BitsOf(d2))
      /\ \A q \in Quarters : d3.tmap[q] # FF => BitsAt(d3, q) = BitsAt(d2, q)
  BY <1>2, DropKludgeMayBlank
<1> HIDE DEF d3
<1>4. ASSUME NEW q \in Quarters, d3.tmap[q] # FF
      PROVE  BitsAt(d3, q) = BitsAt(d, q)
  <2>1. BitsAt(d3, q) # 0 /\ BitsAt(d3, q) = BitsAt(d2, q)
    BY <1>3, <1>4, TrackOfGoodDisk
  <2>2. d2.tmap[q] # FF
    BY <2>1 DEF BitsAt
  <2>3. BitsAt(d2, q) # 0 /\ BitsAt(d2, q) = BitsAt(d1, q)
    BY <1>2, <2>1, <2>2
  <2>4. d1.tmap[q] # FF
    BY <2>3 DEF BitsAt
  <2> QED
    BY <1>1, <2>1, <2>3, <2>4
<1> QED
  BY <1>1, <1>2, <1>3, <1>4 DEF ReduceTracks, d1, d2, d3

-----------------------------------------------------------------------------
(* The inductive invariant.                                                *)

\* Every quarter track has a track of its own.
Expanded(d) ==
  /\ HasTrack(d) = Quarters
  /\ \A q, r \in Quarters : q # r => d.tmap[q] # d.tmap[r]
  /\ \A q \in Quarters : BitsAt(d, q) > 0

IInv ==
  /\ TypeOK
  /\ WellFormed(disk)
  /\ file # NoImage => WellFormed(file.disk)
  /\ loaded => Expanded(disk)
  /\ UnmodifiedIsSaved

LEMMA ExpandTracksResult ==
  ASSUME NEW d, GoodDisk(d)
  PROVE  LET e == ExpandTracks(d)
         IN  GoodDisk(e) /\ Expanded(e) /\ SameTracks(d, e)
<1> DEFINE e == ExpandTracks(d)
<1>1. Expanding(d, e, C_QTRACK)
  BY ExpandTracksExpands
<1> HIDE DEF e
<1>2. GoodDisk(e) /\ SameTracks(d, e)
  BY <1>1 DEF Expanding
<1>3. \A q \in Quarters : e.tmap[q] # FF
  BY <1>1 DEF Expanding, Quarters
<1>4. \A q, r \in Quarters : q # r => e.tmap[q] # e.tmap[r]
  BY <1>1 DEF Expanding, Quarters
<1>5. \A q \in Quarters : BitsAt(e, q) > 0
  BY <1>2, <1>3, TrackOfGoodDisk, WozAssumption
<1> QED
  BY <1>2, <1>3, <1>4, <1>5 DEF Expanded, HasTrack, e

\* A save reduces the tracks and expands them again.
LEMMA SavedDisk ==
  ASSUME NEW d, GoodDisk(d)
  PROVE  LET r == ReduceTracks(d)
             e == ExpandTracks(r)
         IN  /\ GoodDisk(r) /\ GoodDisk(e) /\ Expanded(e)
             /\ BitsOf(e) = BitsOf(r)
             /\ BitsOf(r) \in Floppy!AfterSave(BitsOf(d))
             /\ \A q \in Quarters : BitsOf(e)[q] # [c \in Cells |-> FALSE]
                                      => BitsAt(e, q) = BitsAt(d, q)
<1> DEFINE r == ReduceTracks(d)
           e == ExpandTracks(r)
<1>1. /\ GoodDisk(r)
      /\ BitsOf(r) \in Floppy!AfterSave(BitsOf(d))
      /\ \A q \in Quarters : r.tmap[q] # FF => BitsAt(r, q) = BitsAt(d, q)
  BY ReduceTracksKeepsBits
<1> HIDE DEF r
<1>2. GoodDisk(e) /\ Expanded(e) /\ SameTracks(r, e)
  BY <1>1, ExpandTracksResult
<1> HIDE DEF e
<1>3. ASSUME NEW q \in Quarters, BitsOf(e)[q] # [c \in Cells |-> FALSE]
      PROVE  BitsAt(e, q) = BitsAt(d, q)
  <2>1. r.tmap[q] # FF
    BY <1>2, <1>3 DEF SameTracks, BitsOf
  <2> QED
    BY <1>1, <1>2, <2>1 DEF SameTracks
<1> QED
  BY <1>1, <1>2, <1>3 DEF SameTracks, e, r

LEMMA NoDiskIsGood == GoodDisk(NoDisk) /\ BitsOf(NoDisk) = Floppy!Blank
<1>1. NoDisk \in Disks
  BY DEF NoDisk, Disks
<1>2. WellFormed(NoDisk)
  BY DEF NoDisk, WellFormed
<1>3. BitsOf(NoDisk) = Floppy!Blank
  BY DEF BitsOf, NoDisk, Floppy!Blank, Floppy!BlankBits, Floppy!Quarters,
         Floppy!Cells, Quarters, Cells
<1> QED
  BY <1>1, <1>2, <1>3 DEF GoodDisk

LEMMA InitIInv == Init => IInv
<1> SUFFICES ASSUME Init PROVE IInv
  OBVIOUS
<1>1. file \in Files /\ WellFormed(file.disk) /\ file # NoImage
  BY WozAssumption DEF Init
<1>2. C_QTRACK \div 2 \in Quarters
  BY WozAssumption DEF Quarters
<1>3. 0 \in Cells /\ 0 \in 0 .. WriteLimit
  BY WozAssumption DEF Cells
<1>4. TypeOK
  BY <1>1, <1>2, <1>3, NoDiskIsGood DEF Init, TypeOK, GoodDisk, Timings
<1> QED
  BY <1>1, <1>4, NoDiskIsGood DEF Init, IInv, GoodDisk, UnmodifiedIsSaved

-----------------------------------------------------------------------------
(* What the actions do, in terms of the lemmas.                            *)

LEMMA LoadDoes ==
  ASSUME IInv, NEW mayWrite \in BOOLEAN, Load(mayWrite)
  PROVE  /\ file # NoImage /\ file' = file /\ loaded' = TRUE
         /\ GoodDisk(disk') /\ Expanded(disk')
         /\ BitsOf(disk') = BitsOf(file.disk)
<1>1. file \in Files /\ file # NoImage
  BY DEF Load, ReadInfo, IInv, TypeOK
<1>2. GoodDisk(file.disk)
  BY <1>1 DEF IInv, GoodDisk, Files
<1> QED
  BY <1>1, <1>2, ExpandTracksResult DEF Load, SameTracks

LEMMA SaveDoes ==
  ASSUME IInv, Save \/ SaveFails
  PROVE  /\ loaded /\ loaded' = loaded
         /\ GoodDisk(ReduceTracks(disk)) /\ GoodDisk(disk') /\ Expanded(disk')
         /\ BitsOf(disk') = BitsOf(ReduceTracks(disk))
         /\ BitsOf(disk') \in Floppy!AfterSave(BitsOf(disk))
         /\ \A q \in Quarters : BitsOf(disk')[q] # [c \in Cells |-> FALSE]
                                  => BitsAt(disk', q) = BitsAt(disk, q)
<1>1. GoodDisk(disk) /\ loaded /\ loaded' = loaded
  BY DEF IInv, TypeOK, GoodDisk, Save, SaveFails
<1>2. disk' = ExpandTracks(ReduceTracks(disk))
  BY DEF Save, SaveFails
<1> QED
  BY <1>1, <1>2, SavedDisk

\* Bits are set on the tracks of the quarter tracks the head reaches.
LEMMA SetBitDoes ==
  ASSUME IInv, NEW on \in BOOLEAN, SetBit(on)
  PROVE  /\ loaded /\ loaded' = loaded
         /\ GoodDisk(disk') /\ Expanded(disk')
         /\ BitsOf(disk') = Floppy!Written(BitsOf(disk), head, position, on)
<1> DEFINE near == {head - 1, head, head + 1} \cap Quarters
           reached == {disk.tmap[q] : q \in near}
<1>1. /\ GoodDisk(disk) /\ loaded /\ loaded' = loaded
      /\ Expanded(disk) /\ position \in Cells /\ head \in Quarters
  BY DEF SetBit, IInv, TypeOK, GoodDisk
<1>2. /\ disk.tmap \in [Quarters -> Quarters \cup {FF}]
      /\ disk.trk \in [Quarters -> Tracks \cup {NoTrack}]
      /\ disk = [tmap |-> disk.tmap, trk |-> disk.trk]
  BY <1>1 DEF GoodDisk, Disks
<1>3. /\ disk'.tmap = disk.tmap
      /\ disk'.trk = [s \in Quarters |-> IF s \in reached
                        THEN [disk.trk[s] EXCEPT !.cell[position] = on] ELSE disk.trk[s]]
      /\ disk' = [tmap |-> disk'.tmap, trk |-> disk'.trk]
  BY <1>2 DEF SetBit
<1>4. \A q \in Quarters : /\ disk.tmap[q] \in Quarters
                          /\ disk.trk[disk.tmap[q]] \in Tracks
                          /\ disk.tmap[q] # FF
  BY <1>1, TrackOfGoodDisk DEF Expanded, HasTrack
<1>5. \A q \in Quarters : disk.tmap[q] \in reached <=> q \in near
  BY <1>1 DEF Expanded
<1> HIDE DEF reached
<1>6. ASSUME NEW t \in Tracks
      PROVE  /\ [t EXCEPT !.cell[position] = on] \in Tracks
             /\ [t EXCEPT !.cell[position] = on].bits = t.bits
             /\ [t EXCEPT !.cell[position] = on].cell = [t.cell EXCEPT ![position] = on]
  BY <1>1 DEF Tracks
<1>7. ASSUME NEW q \in Quarters
      PROVE  /\ TrackOf(disk', q) \in Tracks
             /\ BitsAt(disk', q) = BitsAt(disk, q)
             /\ BitsOf(disk')[q] = IF q \in near
                  THEN [BitsOf(disk)[q] EXCEPT ![position] = on] ELSE BitsOf(disk)[q]
  <2> DEFINE t == TrackOf(disk, q)
             u == TrackOf(disk', q)
  <2>1. t \in Tracks /\ BitsOf(disk)[q] = t.cell /\ BitsAt(disk, q) = t.bits
    BY <1>4 DEF TrackOf, BitsOf, BitsAt
  <2>2. u = IF q \in near THEN [t EXCEPT !.cell[position] = on] ELSE t
    BY <1>3, <1>4, <1>5 DEF TrackOf
  <2>3. BitsOf(disk')[q] = u.cell /\ BitsAt(disk', q) = u.bits
    BY <1>3, <1>4 DEF BitsOf, BitsAt
  <2> HIDE DEF t, u, near
  <2> QED
    BY <1>6, <2>1, <2>2, <2>3 DEF u
<1>8. \A s \in Quarters : disk'.trk[s] \in Tracks \cup {NoTrack}
                          /\ (disk'.trk[s] # NoTrack <=> disk.trk[s] # NoTrack)
  <2>1. \A s \in Quarters : s \in reached => disk.trk[s] \in Tracks
    BY <1>4 DEF reached
  <2>2. TAKE s \in Quarters
  <2>3. CASE s \in reached
    <3>1. disk'.trk[s] \in Tracks /\ disk.trk[s] \in Tracks
      BY <1>3, <1>6, <2>1, <2>3
    <3> QED
      BY <3>1, TracksAreTracks
  <2>4. CASE s \notin reached
    BY <1>2, <1>3, <2>4
  <2> QED
    BY <2>3, <2>4
<1>9. GoodDisk(disk')
  <2>1. disk' \in Disks
    BY <1>2, <1>3, <1>8 DEF Disks
  <2>2. WellFormed(disk')
    <3>1. {s \in Quarters : disk'.trk[s] # NoTrack} = {s \in Quarters : disk.trk[s] # NoTrack}
      BY <1>8
    <3>2. {disk'.tmap[q] : q \in Quarters} = {disk.tmap[q] : q \in Quarters}
      BY <1>3
    <3>3. {disk.tmap[q] : q \in Quarters} \ {FF} = {s \in Quarters : disk.trk[s] # NoTrack}
      BY <1>1 DEF GoodDisk, WellFormed
    <3> QED
      BY <3>1, <3>2, <3>3 DEF WellFormed
  <2> QED
    BY <2>1, <2>2 DEF GoodDisk
<1>10. Expanded(disk')
  BY <1>1, <1>3, <1>7 DEF Expanded, HasTrack
<1>11. BitsOf(disk') = Floppy!Written(BitsOf(disk), head, position, on)
  <2>1. \A q \in Quarters : q \in near <=> q \in (head - 1 .. head + 1) \cap Quarters
    BY <1>1, WozAssumption DEF Quarters
  <2>2. BitsOf(disk') = [q \in Quarters |-> BitsOf(disk')[q]]
    BY DEF BitsOf
  <2> HIDE DEF near
  <2> QED
    BY <1>7, <2>1, <2>2 DEF Floppy!Written, Floppy!Reached, Floppy!Quarters, Quarters
<1> QED
  BY <1>1, <1>9, <1>10, <1>11

\* Wherever the head was and how long that track is, the rotation ends on the
\* track under the head.
LEMMA RotateDoes ==
  ASSUME IInv, RotateOneBit
  PROVE  position' \in Nat /\ position' < BitsAt(disk, head) /\ position' \in Cells
<1> DEFINE newLen == BitsAt(disk, head)
           oldLen == BitsAt(disk, lastQuarterTrack)
           p == position + 1
<1>1. /\ loaded /\ GoodDisk(disk) /\ Expanded(disk) /\ head \in Quarters
      /\ p \in Nat /\ lastQuarterTrack \in Quarters \cup {Unset}
  BY WozAssumption DEF RotateOneBit, IInv, TypeOK, GoodDisk, Cells
<1>2. \A q \in Quarters : BitsAt(disk, q) \in 1 .. CellCount
  BY <1>1, TrackOfGoodDisk DEF Expanded, HasTrack
<1>3. newLen \in 1 .. CellCount
  BY <1>1, <1>2
<1>4. position' \in Positions(p)
  BY DEF RotateOneBit
<1>5. \A n \in Nat : Wrapped(n, newLen) \in 0 .. newLen - 1
  BY <1>3, WozAssumption DEF Wrapped
<1>6. ASSUME oldLen \in 1 .. CellCount
      PROVE  Rescaled(p, oldLen, newLen) \in Nat
  <2> HIDE DEF oldLen, newLen, p
  <2>1. \A a \in Nat, b \in Nat \ {0} : Rounded(a, b) \in Nat
    BY DEF Rounded
  <2>2. p * newLen \in Nat /\ oldLen \in Nat \ {0}
    BY <1>1, <1>3, <1>6, WozAssumption
  <2> QED
    BY <1>1, <2>1, <2>2 DEF Rescaled
<1>7. position' \in 0 .. newLen - 1
  <2>1. CASE lastQuarterTrack = Unset
    <3>1. lastQuarterTrack # head
      BY <1>1, <2>1, WozAssumption
    <3>2. Positions(p) = 0 .. newLen - 1
      BY <2>1, <3>1 DEF Positions
    <3> QED
      BY <1>4, <3>2
  <2>2. CASE lastQuarterTrack # Unset
    <3>1. oldLen \in 1 .. CellCount
      BY <1>1, <1>2, <2>2
    <3>2. position' \in {Wrapped(p, newLen), Wrapped(Rescaled(p, oldLen, newLen), newLen)}
      BY <1>4, <2>2 DEF Positions
    <3> HIDE DEF oldLen, newLen, p
    <3> QED
      BY <1>1, <1>5, <1>6, <3>1, <3>2
  <2> QED
    BY <2>1, <2>2
<1> QED
  BY <1>3, <1>7, WozAssumption DEF Cells

LEMMA NextIInv == IInv /\ [Next]_vars => IInv'
<1> SUFFICES ASSUME IInv, [Next]_vars PROVE IInv'
  OBVIOUS
<1>0. TypeOK /\ WellFormed(disk) /\ GoodDisk(disk)
  BY DEF IInv, TypeOK, GoodDisk
<1>1. ASSUME NEW mayWrite \in BOOLEAN, Load(mayWrite) PROVE IInv'
  <2>1. /\ file # NoImage /\ file' = file /\ loaded' = TRUE
        /\ GoodDisk(disk') /\ Expanded(disk')
        /\ BitsOf(disk') = BitsOf(file.disk)
    BY <1>1, LoadDoes
  <2>2. file \in Files
    BY <1>0, <2>1 DEF TypeOK
  <2>3. timing' \in Timings /\ writable' \in BOOLEAN
    BY <1>1, <2>2 DEF Load, ReadInfo, CheckForWriteProtection, Files
  <2>4. 0 \in Cells
    BY WozAssumption DEF Cells
  <2>5. TypeOK'
    BY <1>0, <1>1, <2>1, <2>3, <2>4 DEF Load, TypeOK, GoodDisk
  <2> QED
    BY <2>1, <2>5 DEF IInv, GoodDisk, UnmodifiedIsSaved
<1>2. CASE LoadFails \/ Unload
  <2>1. Removed /\ writable' \in BOOLEAN
    BY <1>2 DEF LoadFails, Unload
  <2>2. 0 \in Cells
    BY WozAssumption DEF Cells
  <2>3. TypeOK'
    BY <1>0, <2>1, <2>2, NoDiskIsGood DEF Removed, TypeOK, GoodDisk
  <2> QED
    BY <2>1, <2>3, NoDiskIsGood DEF IInv, Removed, GoodDisk, UnmodifiedIsSaved
<1>3. CASE Save \/ SaveFails
  <2>1. /\ loaded /\ loaded' = loaded
        /\ GoodDisk(ReduceTracks(disk)) /\ GoodDisk(disk') /\ Expanded(disk')
        /\ BitsOf(disk') = BitsOf(ReduceTracks(disk))
    BY <1>3, SaveDoes
  <2>2. FileOf(ReduceTracks(disk)) \in Files
    BY <1>0, <2>1 DEF FileOf, Files, GoodDisk, Timings, TypeOK
  <2>3. /\ modified' = FALSE /\ unsaved' \in BOOLEAN
        /\ UNCHANGED <<writable, timing, position, lastQuarterTrack, head, writes>>
    BY <1>3 DEF Save, SaveFails
  <2>4. file' \in {file, NoImage, FileOf(ReduceTracks(disk))}
    BY <1>3 DEF Save, SaveFails
  <2>5. TypeOK'
    BY <1>0, <2>1, <2>2, <2>3, <2>4 DEF TypeOK, GoodDisk
  <2>6. file' # NoImage => WellFormed(file'.disk)
    <3>1. WellFormed(FileOf(ReduceTracks(disk)).disk)
      BY <2>1 DEF FileOf, GoodDisk
    <3> QED
      BY <2>4, <3>1 DEF IInv
  <2>7. UnmodifiedIsSaved'
    <3>1. CASE Save
      <4>1. file' = FileOf(ReduceTracks(disk))
        BY <3>1 DEF Save
      <4>2. file' # NoImage
        BY <2>2, <4>1, WozAssumption
      <4>3. BitsOf(file'.disk) = BitsOf(disk')
        BY <2>1, <4>1 DEF FileOf
      <4> QED
        BY <4>2, <4>3 DEF UnmodifiedIsSaved
    <3>2. CASE SaveFails
      BY <3>2 DEF SaveFails, UnmodifiedIsSaved
    <3> QED
      BY <1>3, <3>1, <3>2
  <2> QED
    BY <2>1, <2>5, <2>6, <2>7 DEF IInv, GoodDisk
<1>4. CASE MoveHead
  <2>1. TypeOK'
    BY <1>0, <1>4 DEF MoveHead, state, TypeOK
  <2> QED
    BY <1>4, <2>1 DEF MoveHead, state, IInv, UnmodifiedIsSaved
<1>5. CASE RotateOneBit
  <2>1. TypeOK'
    BY <1>0, <1>5, RotateDoes DEF RotateOneBit, state, TypeOK
  <2> QED
    BY <1>5, <2>1 DEF RotateOneBit, state, IInv, UnmodifiedIsSaved
<1>6. ASSUME NEW on \in BOOLEAN, SetBit(on) PROVE IInv'
  <2>1. loaded' = loaded /\ GoodDisk(disk') /\ Expanded(disk')
    BY <1>6, SetBitDoes
  <2>2. writes' \in 0 .. WriteLimit
    BY <1>0, <1>6, WozAssumption DEF SetBit, TypeOK
  <2>3. TypeOK'
    BY <1>0, <1>6, <2>1, <2>2 DEF SetBit, ModifiedBy, TypeOK, GoodDisk
  <2> QED
    BY <1>6, <2>1, <2>3 DEF SetBit, ModifiedBy, IInv, GoodDisk, UnmodifiedIsSaved
<1>7. CASE UNCHANGED vars
  BY <1>7 DEF vars, state, IInv, TypeOK, UnmodifiedIsSaved
<1> QED
  BY <1>1, <1>2, <1>3, <1>4, <1>5, <1>6, <1>7 DEF Next

-----------------------------------------------------------------------------
(* The theorems.                                                           *)

\* Every variable of the image has its type, whatever is loaded, saved and
\* written: above all, an expanded disk has a track for each quarter track it
\* names, and the rotational position is a cell.
THEOREM TypeCorrect == Spec => []TypeOK
<1>1. IInv => TypeOK
  BY DEF IInv
<1> QED
  BY <1>1, InitIInv, NextIInv, PTL DEF Spec

\* A disk that isModified calls unmodified has the bits of the file, also after
\* reduceTracks and expandTracks have rearranged its tracks for a save.
THEOREM UnmodifiedCorrect == Spec => []UnmodifiedIsSaved
<1>1. IInv => UnmodifiedIsSaved
  BY DEF IInv
<1> QED
  BY <1>1, InitIInv, NextIInv, PTL DEF Spec

LEMMA LengthsSurvive ==
  ASSUME IInv, [Next]_vars, file' # file
  PROVE  \A q \in Quarters : BitsOf(disk')[q] # [c \in Cells |-> FALSE]
                               => BitsAt(disk', q) = BitsAt(disk, q)
<1>1. Save \/ SaveFails
  BY DEF Next, vars, state, Load, LoadFails, Unload, Removed, MoveHead, RotateOneBit, SetBit
<1> QED
  BY <1>1, SaveDoes

\* A loaded disk has a track of its own, with bits, for each quarter track, as
\* setBit needs, and a save keeps the length of each that has bits.
THEOREM TracksSurvive == Spec => TracksSurviveSaves
<1> DEFINE Own == loaded => /\ HasTrack(disk) = Quarters
                            /\ \A q, r \in Quarters : q # r => disk.tmap[q] # disk.tmap[r]
                            /\ \A q \in Quarters : BitsAt(disk, q) > 0
           Kept == file' # file =>
                     \A q \in Quarters : BitsOf(disk')[q] # [c \in Cells |-> FALSE]
                                           => BitsAt(disk', q) = BitsAt(disk, q)
<1>1. IInv => Own
  BY DEF IInv, Expanded
<1>2. IInv /\ [Next]_vars => [Kept]_vars
  BY LengthsSurvive
<1>3. Spec => []Own /\ [][Kept]_vars
  <2> HIDE DEF Own, Kept
  <2> QED
    BY <1>1, <1>2, InitIInv, NextIInv, PTL DEF Spec
<1> QED
  BY <1>3 DEF TracksSurviveSaves

\* rotateOneBit leaves the position on the track under the head: getBit and setBit,
\* which follow it, touch no cell behind the end of a track.
THEOREM BitReadCorrect == Spec => BitReadIsOnTrack
<1>1. IInv /\ [Next]_vars => [RotateOneBit => position' < BitsAt(disk, head)]_vars
  BY RotateDoes
<1> QED
  BY <1>1, InitIInv, NextIInv, PTL DEF Spec, BitReadIsOnTrack

-----------------------------------------------------------------------------
(* The refinement of Floppy.                                               *)

AbstractImage == IF file = NoImage THEN NoImage ELSE BitsOf(file.disk)

LEMMA BitsAreBits ==
  ASSUME NEW d, GoodDisk(d)
  PROVE  BitsOf(d) \in [Quarters -> [Cells -> BOOLEAN]]
<1>1. ASSUME NEW q \in Quarters PROVE BitsOf(d)[q] \in [Cells -> BOOLEAN]
  <2>1. CASE d.tmap[q] = FF
    BY <2>1 DEF BitsOf
  <2>2. CASE d.tmap[q] # FF
    BY <2>2, TrackOfGoodDisk DEF Tracks, TrackOf
  <2> QED
    BY <2>1, <2>2
<1>2. BitsOf(d) = [q \in Quarters |-> BitsOf(d)[q]]
  BY DEF BitsOf
<1> QED
  BY <1>1, <1>2

\* The image of a file is no empty file.
LEMMA ImageOfFile ==
  ASSUME IInv, file # NoImage
  PROVE  AbstractImage = BitsOf(file.disk) /\ AbstractImage # NoImage
<1>1. GoodDisk(file.disk)
  BY DEF IInv, TypeOK, Files, GoodDisk
<1> QED
  BY <1>1, BitsAreBits, WozAssumption DEF AbstractImage

LEMMA InitRefines == Init => Floppy!Init
<1> SUFFICES ASSUME Init PROVE Floppy!Init
  OBVIOUS
<1>1. file \in Files /\ WellFormed(file.disk) /\ file # NoImage
  BY WozAssumption DEF Init
<1>2. BitsOf(file.disk) \in [Quarters -> [Cells -> BOOLEAN]]
  BY <1>1, BitsAreBits DEF GoodDisk, Files
<1> QED
  BY <1>1, <1>2, NoDiskIsGood
     DEF Init, Floppy!Init, Floppy!Quarters, Floppy!Cells, Quarters, Cells

\* A load, a save and a write are those of the floppy; what moves the head or the
\* disk is a stutter.
LEMMA StepRefines == IInv /\ [Next]_vars => [Floppy!Next]_(Floppy!vars)
<1> SUFFICES ASSUME IInv, [Next]_vars PROVE [Floppy!Next]_(Floppy!vars)
  OBVIOUS
<1>0. IInv'
  BY NextIInv
<1>1. ASSUME NEW mayWrite \in BOOLEAN, Load(mayWrite) PROVE Floppy!Load
  <2>1. /\ file # NoImage /\ file' = file /\ loaded' = TRUE
        /\ BitsOf(disk') = BitsOf(file.disk)
    BY <1>1, LoadDoes
  <2>2. AbstractImage = BitsOf(file.disk) /\ AbstractImage # NoImage
        /\ AbstractImage' = AbstractImage
    BY <2>1, ImageOfFile DEF AbstractImage
  <2>3. modified' = FALSE
    BY <1>1 DEF Load
  <2> QED
    BY <2>1, <2>2, <2>3 DEF Floppy!Load, AbstractImage
<1>2. CASE LoadFails \/ Unload
  <2>1. Removed
    BY <1>2 DEF LoadFails, Unload
  <2>2. Floppy!Unload
    BY <2>1, NoDiskIsGood DEF Removed, Floppy!Unload
  <2> QED
    BY <2>2 DEF Floppy!Next
<1>3. CASE Save \/ SaveFails
  <2>1. /\ loaded /\ loaded' = loaded
        /\ BitsOf(disk') = BitsOf(ReduceTracks(disk))
        /\ BitsOf(disk') \in Floppy!AfterSave(BitsOf(disk))
        /\ GoodDisk(ReduceTracks(disk))
    BY <1>3, SaveDoes
  <2>2. modified' = FALSE
    BY <1>3 DEF Save, SaveFails
  <2>3. CASE Save
    <3>1. file' = FileOf(ReduceTracks(disk)) /\ file' \in Files
      BY <2>1, <2>3, <1>0 DEF Save, FileOf, Files, GoodDisk, IInv, TypeOK, Timings
    <3>2. AbstractImage' = BitsOf(disk')
      BY <2>1, <3>1, WozAssumption DEF AbstractImage, FileOf
    <3>3. Floppy!Save
      BY <2>1, <2>2, <3>2 DEF Floppy!Save, AbstractImage
    <3> QED
      BY <3>3 DEF Floppy!Next
  <2>4. CASE SaveFails
    <3>1. AbstractImage' \in {AbstractImage, NoImage}
      BY <2>4 DEF SaveFails, AbstractImage
    <3>2. Floppy!SaveFails
      BY <2>1, <2>2, <3>1 DEF Floppy!SaveFails, AbstractImage
    <3> QED
      BY <3>2 DEF Floppy!Next
  <2> QED
    BY <1>3, <2>3, <2>4
<1>4. CASE MoveHead \/ RotateOneBit \/ UNCHANGED vars
  BY <1>4 DEF MoveHead, RotateOneBit, vars, state, Floppy!vars
<1>5. ASSUME NEW on \in BOOLEAN, SetBit(on) PROVE [Floppy!Next]_(Floppy!vars)
  <2>1. /\ loaded /\ loaded' = loaded
        /\ BitsOf(disk') = Floppy!Written(BitsOf(disk), head, position, on)
    BY <1>5, SetBitDoes
  <2>2. modified' = TRUE /\ file' = file
    BY <1>5 DEF SetBit, ModifiedBy
  <2>3. head \in Floppy!Quarters /\ position \in Floppy!Cells
    BY DEF IInv, TypeOK, Floppy!Quarters, Floppy!Cells, Quarters, Cells
  <2>4. Floppy!Write(head, position, on)
    BY <2>1, <2>2 DEF Floppy!Write
  <2> QED
    BY <2>3, <2>4 DEF Floppy!Next
<1> QED
  BY <1>1, <1>2, <1>3, <1>4, <1>5 DEF Next, Floppy!Next

\* For a program that reads and writes it, the image is the floppy of wozfile.h: a
\* write changes its quarter track and those beside it, a save changes no bit but
\* those of the quarter track it drops, and what was saved is what is loaded.
THEOREM FloppyImplemented == Spec => ImplementsFloppy
<1>1. Spec => Floppy!Init /\ [][Floppy!Next]_(Floppy!vars)
  BY InitIInv, NextIInv, InitRefines, StepRefines, PTL DEF Spec
<1> QED
  BY <1>1 DEF ImplementsFloppy, Floppy!Spec
=============================================================================
