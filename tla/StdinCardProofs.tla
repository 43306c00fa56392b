-------------------------- MODULE StdinCardProofs --------------------------
(***************************************************************************)
(* Proofs about StdinCard, for all inputs of any length: what the program  *)
(* receives of a text, and when the card says that the input has ended.    *)
(***************************************************************************)
EXTENDS StdinCard, SequenceTheorems, FiniteSetTheorems, TLAPS

Codes == Chars \cup {EOF}

\* The characters are not each other.
LEMMA CharsDiffer ==
  /\ CR \in Chars /\ LF \in Chars /\ DEL \in Chars
  /\ EOF \notin Chars /\ Garbage \notin Chars /\ Garbage \notin Codes
  /\ CR # LF /\ CR # DEL /\ LF # DEL /\ CR # EOF /\ LF # EOF /\ DEL # EOF
  BY StdinAssumption DEF Chars, Codes

-----------------------------------------------------------------------------
(* Sequences, from their end and from their beginning.                     *)

\* Induction on numbers, over a set rather than a formula.
LEMMA Induction ==
  ASSUME NEW S \in SUBSET Nat, 0 \in S, \A n \in S : n + 1 \in S
  PROVE  S = Nat
<1>1. SUFFICES ASSUME Nat \ S # {} PROVE FALSE
  OBVIOUS
<1>2. IsWellFoundedOn(OpToRel(<, Nat), Nat)
  BY NatLessThanWellFounded
<1>3. PICK x \in Nat \ S : \A y \in Nat \ S : ~ (<<y, x>> \in OpToRel(<, Nat))
  <2>1. Nat \ S \subseteq Nat
    OBVIOUS
  <2> QED
    BY <1>1, <1>2, <2>1, WFMin
<1>4. \A y \in Nat \ S : ~ (y < x)
  BY <1>3 DEF OpToRel
<1>5. x - 1 \in Nat /\ x - 1 \in S
  BY <1>4
<1> QED
  BY <1>5

\* A sequence that is not empty is one with a last element appended.
LEMMA LastAppended ==
  ASSUME NEW T, NEW s \in Seq(T), Len(s) > 0
  PROVE  \E r \in Seq(T), c \in T : s = Append(r, c) /\ Len(r) = Len(s) - 1
<1>1. s # <<>>
  BY EmptySeq
<1>2. PICK r \in Seq(T), c \in T : s = Append(r, c)
  BY <1>1, SequenceEmptyOrAppend
<1>3. Len(s) = Len(r) + 1 /\ Len(r) \in Nat
  BY <1>2, AppendProperties, LenProperties
<1> QED
  BY <1>2, <1>3

\* Induction on sequences, likewise.
LEMMA AppendInduction ==
  ASSUME NEW T, NEW P, <<>> \in P,
         \A s \in Seq(T), c \in T : s \in P => Append(s, c) \in P
  PROVE  Seq(T) \subseteq P
<1> DEFINE S == {n \in Nat : \A s \in Seq(T) : Len(s) = n => s \in P}
<1>1. 0 \in S
  <2>1. ASSUME NEW s \in Seq(T), Len(s) = 0 PROVE s \in P
    BY <2>1, EmptySeq
  <2> QED
    BY <2>1
<1>2. ASSUME NEW n \in S PROVE n + 1 \in S
  <2>1. ASSUME NEW s \in Seq(T), Len(s) = n + 1 PROVE s \in P
    <3>1. PICK r \in Seq(T), c \in T : s = Append(r, c) /\ Len(r) = Len(s) - 1
      BY <2>1, LastAppended
    <3>2. r \in P
      BY <2>1, <3>1
    <3> QED
      BY <3>1, <3>2
  <2> QED
    BY <2>1
<1>3. S = Nat
  <2>1. S \in SUBSET Nat
    OBVIOUS
  <2> HIDE DEF S
  <2> QED
    BY <1>1, <1>2, <2>1, Induction
<1> QED
  BY <1>3, LenProperties

-----------------------------------------------------------------------------
(* Without.                                                                *)

\* The loop that Without stands for.
Keeps(s, skipped, k, g) ==
  g = [i \in 0 .. k |-> IF i = 0 THEN <<>>
                        ELSE IF s[i] \in skipped THEN g[i - 1] ELSE Append(g[i - 1], s[i])]

LEMMA KeepsExists ==
  ASSUME NEW s, NEW skipped, NEW k \in Nat
  PROVE  \E g : Keeps(s, skipped, k, g)
<1> DEFINE S == {m \in Nat : \E g : Keeps(s, skipped, m, g)}
<1>1. 0 \in S
  <2> DEFINE g == [i \in 0 .. 0 |-> <<>>]
  <2>1. g = [i \in 0 .. 0 |-> IF i = 0 THEN <<>>
                              ELSE IF s[i] \in skipped THEN g[i - 1] ELSE Append(g[i - 1], s[i])]
    OBVIOUS
  <2> QED
    BY <2>1 DEF Keeps
<1>2. ASSUME NEW m \in S PROVE m + 1 \in S
  <2>1. PICK g : Keeps(s, skipped, m, g)
    OBVIOUS
  <2> DEFINE next == IF s[m + 1] \in skipped THEN g[m] ELSE Append(g[m], s[m + 1])
             h == [i \in 0 .. m + 1 |-> IF i = m + 1 THEN next ELSE g[i]]
             b(i) == IF i = 0 THEN <<>>
                     ELSE IF s[i] \in skipped THEN h[i - 1] ELSE Append(h[i - 1], s[i])
  <2>2. ASSUME NEW i \in 0 .. m + 1 PROVE h[i] = b(i)
    <3>1. CASE i = m + 1
      <4>1. h[i] = next /\ i # 0 /\ i - 1 = m /\ h[m] = g[m]
        BY <3>1
      <4> HIDE DEF h
      <4> QED
        BY <3>1, <4>1
    <3>2. CASE i # m + 1
      <4>1. i \in 0 .. m /\ h[i] = g[i]
        BY <3>2
      <4>2. i # 0 => h[i - 1] = g[i - 1]
        BY <4>1
      <4>3. g[i] = IF i = 0 THEN <<>>
                   ELSE IF s[i] \in skipped THEN g[i - 1] ELSE Append(g[i - 1], s[i])
        BY <2>1, <4>1 DEF Keeps
      <4> HIDE DEF h
      <4> QED
        BY <4>1, <4>2, <4>3
    <3> QED
      BY <3>1, <3>2
  <2>3. h = [i \in 0 .. m + 1 |-> b(i)]
    <3>1. h = [i \in 0 .. m + 1 |-> h[i]]
      OBVIOUS
    <3> HIDE DEF h, b
    <3> QED
      BY <2>2, <3>1
  <2> HIDE DEF h
  <2> QED
    BY <2>3 DEF Keeps
<1>3. S = Nat
  <2>1. S \in SUBSET Nat
    OBVIOUS
  <2> HIDE DEF S
  <2> QED
    BY <1>1, <1>2, <2>1, Induction
<1> QED
  BY <1>3

\* Without is the last value of its loop.
LEMMA WithoutKeeps ==
  ASSUME NEW T, NEW s \in Seq(T), NEW skipped
  PROVE  \E g : Keeps(s, skipped, Len(s), g) /\ Without(s, skipped) = g[Len(s)]
<1> DEFINE g == CHOOSE f : Keeps(s, skipped, Len(s), f)
<1>1. Keeps(s, skipped, Len(s), g)
  BY KeepsExists, LenProperties
<1>2. Without(s, skipped) = g[Len(s)]
  BY DEF Without, Keeps
<1> QED
  BY <1>1, <1>2

\* The loop does not look further than it has come.
LEMMA KeepsAgree ==
  ASSUME NEW s, NEW t, NEW skipped, NEW n \in Nat, NEW k \in Nat, n <= k, NEW l \in Nat, n <= l,
         \A i \in 1 .. n : s[i] = t[i],
         NEW g, NEW h, Keeps(s, skipped, k, g), Keeps(t, skipped, l, h)
  PROVE  g[n] = h[n]
<1> DEFINE S == {m \in Nat : m <= n => g[m] = h[m]}
<1>1. /\ \A i \in 0 .. k : g[i] = IF i = 0 THEN <<>>
                 ELSE IF s[i] \in skipped THEN g[i - 1] ELSE Append(g[i - 1], s[i])
      /\ \A i \in 0 .. l : h[i] = IF i = 0 THEN <<>>
                 ELSE IF t[i] \in skipped THEN h[i - 1] ELSE Append(h[i - 1], t[i])
  BY DEF Keeps
<1>2. 0 \in S
  BY <1>1
<1>3. ASSUME NEW m \in S PROVE m + 1 \in S
  <2>1. SUFFICES ASSUME m + 1 <= n PROVE g[m + 1] = h[m + 1]
    OBVIOUS
  <2>2. ASSUME NEW j \in 1 .. n, g[j - 1] = h[j - 1] PROVE g[j] = h[j]
    <3>1. j \in 0 .. k /\ j \in 0 .. l /\ j # 0 /\ s[j] = t[j]
      OBVIOUS
    <3> QED
      BY <1>1, <2>2, <3>1
  <2>3. m + 1 \in 1 .. n /\ m + 1 - 1 = m /\ g[m] = h[m]
    BY <2>1
  <2> QED
    BY <2>2, <2>3
<1>4. S = Nat
  <2>1. S \in SUBSET Nat
    OBVIOUS
  <2> HIDE DEF S
  <2> QED
    BY <1>2, <1>3, <2>1, Induction
<1> QED
  BY <1>4

\* Nothing is left of nothing.
LEMMA WithoutEmpty ==
  ASSUME NEW skipped
  PROVE  Without(<<>>, skipped) = <<>>
<1>1. <<>> \in Seq({}) /\ Len(<<>>) = 0
  BY EmptySeq
<1>2. PICK g : Keeps(<<>>, skipped, 0, g) /\ Without(<<>>, skipped) = g[0]
  BY <1>1, WithoutKeeps
<1>3. g[0] = <<>>
  BY <1>2 DEF Keeps
<1> QED
  BY <1>2, <1>3

\* A character more is kept or skipped.
LEMMA WithoutAppend ==
  ASSUME NEW T, NEW s \in Seq(T), NEW c \in T, NEW skipped
  PROVE  Without(Append(s, c), skipped) = IF c \in skipped THEN Without(s, skipped)
                                          ELSE Append(Without(s, skipped), c)
<1> DEFINE x == Append(s, c)
           n == Len(s)
<1>1. /\ n \in Nat /\ x \in Seq(T) /\ Len(x) = n + 1 /\ x[n + 1] = c
      /\ \A i \in 1 .. n : x[i] = s[i]
  BY AppendProperties, LenProperties
<1> HIDE DEF x
<1>2. PICK g : Keeps(s, skipped, n, g) /\ Without(s, skipped) = g[n]
  BY WithoutKeeps
<1>3. PICK h : Keeps(x, skipped, n + 1, h) /\ Without(x, skipped) = h[n + 1]
  BY <1>1, WithoutKeeps
<1> HIDE DEF n
<1>4. g[n] = h[n]
  BY <1>1, <1>2, <1>3, KeepsAgree
<1>5. ASSUME NEW j \in 0 .. n + 1, NEW m, j # 0, j - 1 = m
      PROVE  h[j] = IF x[j] \in skipped THEN h[m] ELSE Append(h[m], x[j])
  BY <1>3, <1>5 DEF Keeps
<1>6. h[n + 1] = IF x[n + 1] \in skipped THEN h[n] ELSE Append(h[n], x[n + 1])
  <2> DEFINE j == n + 1
  <2>1. j \in 0 .. n + 1 /\ j # 0 /\ j - 1 = n
    BY <1>1
  <2> HIDE DEF j
  <2>2. h[j] = IF x[j] \in skipped THEN h[n] ELSE Append(h[n], x[j])
    BY <1>5, <2>1
  <2> QED
    BY <2>2 DEF j
<1> QED
  BY <1>1, <1>2, <1>3, <1>4, <1>6 DEF x

\* What is left are characters of the sequence.
LEMMA WithoutType ==
  ASSUME NEW T, NEW skipped
  PROVE  \A s \in Seq(T) : Without(s, skipped) \in Seq(T)
<1> DEFINE P == {s \in Seq(T) : Without(s, skipped) \in Seq(T)}
<1>1. <<>> \in P
  BY WithoutEmpty, EmptySeq
<1>2. ASSUME NEW s \in Seq(T), NEW c \in T, s \in P PROVE Append(s, c) \in P
  <2>1. Append(s, c) \in Seq(T) /\ Without(s, skipped) \in Seq(T)
    BY <1>2, AppendProperties
  <2>2. Without(Append(s, c), skipped) \in Seq(T)
    BY <2>1, WithoutAppend, AppendProperties
  <2> QED
    BY <2>1, <2>2
<1>3. Seq(T) \subseteq P
  <2> HIDE DEF P
  <2> QED
    BY <1>1, <1>2, AppendInduction
<1> QED
  BY <1>3

\* A sequence without any of them stays as it is.
LEMMA WithoutNone ==
  ASSUME NEW T, NEW skipped, T \cap skipped = {}
  PROVE  \A s \in Seq(T) : Without(s, skipped) = s
<1> DEFINE P == {s \in Seq(T) : Without(s, skipped) = s}
<1>1. <<>> \in P
  BY WithoutEmpty, EmptySeq
<1>2. ASSUME NEW s \in Seq(T), NEW c \in T, s \in P PROVE Append(s, c) \in P
  <2>1. Append(s, c) \in Seq(T) /\ Without(s, skipped) = s /\ c \notin skipped
    BY <1>2, AppendProperties
  <2>2. Without(Append(s, c), skipped) = Append(s, c)
    BY <2>1, WithoutAppend
  <2> QED
    BY <2>1, <2>2
<1>3. Seq(T) \subseteq P
  <2> HIDE DEF P
  <2> QED
    BY <1>1, <1>2, AppendInduction
<1> QED
  BY <1>3

\* A character taken from the front is kept or skipped.
LEMMA WithoutPrepended ==
  ASSUME NEW T, NEW a \in T, NEW skipped
  PROVE  \A s \in Seq(T) :
           Without(<<a>> \o s, skipped) = (IF a \in skipped THEN <<>> ELSE <<a>>) \o Without(s, skipped)
<1> DEFINE first == IF a \in skipped THEN <<>> ELSE <<a>>
           P == {s \in Seq(T) : Without(<<a>> \o s, skipped) = first \o Without(s, skipped)}
<1>1. /\ <<a>> \in Seq(T) /\ <<>> \in Seq(T) /\ <<a>> = Append(<<>>, a)
      /\ <<a>> \o <<>> = <<a>> /\ first \in Seq(T)
  BY EmptySeq, ConcatEmptySeq
<1>2. <<>> \in P
  <2>1. Without(<<a>>, skipped) = first
    <3>1. Without(Append(<<>>, a), skipped)
             = IF a \in skipped THEN Without(<<>>, skipped) ELSE Append(Without(<<>>, skipped), a)
      BY <1>1, WithoutAppend
    <3> QED
      BY <1>1, <3>1, WithoutEmpty
  <2>2. first \o <<>> = first
    BY <1>1, ConcatEmptySeq
  <2> HIDE DEF first
  <2> QED
    BY <1>1, <2>1, <2>2, WithoutEmpty
<1>3. ASSUME NEW s \in Seq(T), NEW c \in T, s \in P PROVE Append(s, c) \in P
  <2> DEFINE x == <<a>> \o s
             y == Without(s, skipped)
  <2>1. x \in Seq(T) /\ y \in Seq(T) /\ Append(s, c) \in Seq(T) /\ <<c>> \in Seq(T)
    BY <1>1, ConcatProperties, WithoutType, AppendProperties
  <2>2. <<a>> \o Append(s, c) = Append(x, c)
    BY <1>1, <2>1, AppendIsConcat, ConcatAssociative
  <2>3. first \o Append(y, c) = Append(first \o y, c)
    <3> HIDE DEF first, y
    <3>1. first \o y \in Seq(T)
      BY <1>1, <2>1, ConcatProperties
    <3> QED
      BY <1>1, <2>1, <3>1, AppendIsConcat, ConcatAssociative
  <2>4. Without(x, skipped) = first \o y
    BY <1>3
  <2>5. Without(Append(x, c), skipped) = IF c \in skipped THEN Without(x, skipped)
                                         ELSE Append(Without(x, skipped), c)
    <3> HIDE DEF x
    <3> QED
      BY <2>1, WithoutAppend
  <2>6. Without(Append(s, c), skipped) = IF c \in skipped THEN y ELSE Append(y, c)
    BY WithoutAppend
  <2>7. Without(<<a>> \o Append(s, c), skipped) = first \o Without(Append(s, c), skipped)
    <3> HIDE DEF first, x, y
    <3> QED
      BY <2>2, <2>3, <2>4, <2>5, <2>6
  <2> QED
    BY <2>1, <2>7
<1>4. Seq(T) \subseteq P
  <2> HIDE DEF P
  <2> QED
    BY <1>2, <1>3, AppendInduction
<1> QED
  BY <1>4

-----------------------------------------------------------------------------
(* Text.                                                                   *)

Endings == {"unix", "mac", "dos"}

\* A character more in a text is a character more of its lines, but for the second
\* half of a line end.
LEMMA LinesAppend ==
  ASSUME NEW s \in Seq(Chars), NEW c \in Chars, NEW ending
  PROVE  /\ Lines(ending, s) \in Seq(Chars)
         /\ Lines(ending, Append(s, c)) = IF ending = "dos" /\ c = LF THEN Lines(ending, s)
                                          ELSE Append(Lines(ending, s), Translated(c))
<1>1. CASE ending = "dos"
  <2>1. Lines(ending, s) = Without(s, {LF}) /\ Lines(ending, Append(s, c)) = Without(Append(s, c), {LF})
    BY <1>1 DEF Lines
  <2>2. Without(s, {LF}) \in Seq(Chars)
    BY WithoutType
  <2>3. Without(Append(s, c), {LF}) = IF c = LF THEN Without(s, {LF}) ELSE Append(Without(s, {LF}), c)
    BY WithoutAppend
  <2> QED
    BY <1>1, <2>1, <2>2, <2>3 DEF Translated
<1>2. CASE ending # "dos"
  <2> DEFINE tr(t) == [i \in DOMAIN t |-> IF t[i] = LF THEN CR ELSE t[i]]
             x == Append(s, c)
             n == Len(s)
  <2>1. /\ n \in Nat /\ DOMAIN s = 1 .. n /\ x \in Seq(Chars) /\ DOMAIN x = 1 .. n + 1
        /\ x[n + 1] = c /\ \A i \in 1 .. n : x[i] = s[i] /\ s[i] \in Chars
    BY AppendProperties, LenProperties, ElementOfSeq
  <2>2. ASSUME NEW t \in Seq(Chars) PROVE tr(t) \in Seq(Chars) /\ Len(tr(t)) = Len(t)
    <3>1. DOMAIN t = 1 .. Len(t) /\ Len(t) \in Nat /\ \A i \in 1 .. Len(t) : t[i] \in Chars
      BY LenProperties, ElementOfSeq
    <3>2. tr(t) \in [1 .. Len(t) -> Chars]
      BY <3>1, CharsDiffer
    <3> QED
      BY <3>1, <3>2
  <2>3. tr(s) \in Seq(Chars) /\ Len(tr(s)) = n /\ tr(x) \in Seq(Chars) /\ Len(tr(x)) = n + 1
    <3>1. Len(x) = n + 1
      BY <2>1, AppendProperties
    <3> HIDE DEF tr, x
    <3> QED
      BY <2>1, <2>2, <3>1
  <2>4. Translated(c) \in Chars
    BY CharsDiffer DEF Translated
  <2>5. /\ \A i \in 1 .. n : tr(x)[i] = tr(s)[i]
        /\ tr(x)[n + 1] = Translated(c)
    <3>1. \A i \in 1 .. n + 1 : tr(x)[i] = IF x[i] = LF THEN CR ELSE x[i]
      BY <2>1
    <3>2. \A i \in 1 .. n : tr(s)[i] = IF s[i] = LF THEN CR ELSE s[i]
      BY <2>1
    <3> HIDE DEF x, n, tr
    <3>3. \A i \in 1 .. n : i \in 1 .. n + 1
      BY <2>1
    <3>4. n + 1 \in 1 .. n + 1
      BY <2>1
    <3>5. tr(x)[n + 1] = IF c = LF THEN CR ELSE c
      BY <2>1, <3>1, <3>4
    <3> QED
      BY <2>1, <3>1, <3>2, <3>3, <3>5 DEF Translated
  <2>6. tr(x) = Append(tr(s), Translated(c))
    <3> DEFINE a == tr(x)
               b == tr(s)
               e == Translated(c)
    <3>1. /\ a \in Seq(Chars) /\ b \in Seq(Chars) /\ e \in Chars
          /\ Len(b) = n /\ Len(a) = n + 1 /\ n \in Nat
          /\ \A i \in 1 .. n : a[i] = b[i]
          /\ a[n + 1] = e
      BY <2>1, <2>3, <2>4, <2>5
    <3> HIDE DEF a, b, e, n
    <3>2. /\ Append(b, e) \in Seq(Chars) /\ Len(Append(b, e)) = n + 1
          /\ \A i \in 1 .. n : Append(b, e)[i] = b[i]
          /\ Append(b, e)[n + 1] = e
      BY <3>1, AppendProperties
    <3>3. \A i \in 1 .. n + 1 : a[i] = Append(b, e)[i]
      <4>1. \A i \in 1 .. n + 1 : i \in 1 .. n \/ i = n + 1
        BY <3>1
      <4> QED
        BY <3>1, <3>2, <4>1
    <3>4. a = Append(b, e)
      BY <3>1, <3>2, <3>3, SeqEqual
    <3> QED
      BY <3>4 DEF a, b, e
  <2>7. Lines(ending, s) = tr(s) /\ Lines(ending, x) = tr(x)
    BY <1>2 DEF Lines
  <2> HIDE DEF tr, x
  <2> QED
    BY <1>2, <2>3, <2>6, <2>7 DEF x
<1> QED
  BY <1>1, <1>2

\* A text whose lines end in a way had them end so before its last character too,
\* which says something of that character and the one before.
LEMMA UsesAppend ==
  ASSUME NEW s \in Seq(Chars), NEW c \in Chars, NEW ending \in Endings,
         Uses(ending, Append(s, c))
  PROVE  /\ Uses(ending, s)
         /\ ending = "unix" => c # CR
         /\ ending = "mac" => c # LF
         /\ ending = "dos" => (c = LF <=> s # <<>> /\ s[Len(s)] = CR)
<1> DEFINE x == Append(s, c)
           n == Len(s)
<1>1. /\ n \in Nat /\ DOMAIN s = 1 .. n /\ x \in Seq(Chars) /\ DOMAIN x = 1 .. n + 1 /\ Len(x) = n + 1
      /\ x[n + 1] = c /\ \A i \in 1 .. n : x[i] = s[i]
      /\ s # <<>> <=> n > 0
  BY AppendProperties, LenProperties, EmptySeq
<1> HIDE DEF x
<1>2. CASE ending \in {"unix", "mac"}
  <2>1. Range(s) \subseteq Range(x) /\ c \in Range(x)
    <3>1. ASSUME NEW i \in 1 .. n PROVE s[i] \in Range(x)
      <4>1. i \in 1 .. n + 1 /\ s[i] = x[i]
        BY <1>1
      <4> QED
        BY <1>1, <4>1 DEF Range
    <3>2. \A v \in Range(s) : \E i \in 1 .. n : v = s[i]
      BY <1>1 DEF Range
    <3>3. c \in Range(x)
      <4>1. n + 1 \in 1 .. n + 1
        BY <1>1
      <4> QED
        BY <1>1, <4>1 DEF Range
    <3> QED
      BY <3>1, <3>2, <3>3
  <2> QED
    BY <1>2, <2>1 DEF Uses, x
<1>3. CASE ending = "dos"
  <2>1. \A i \in 1 .. n + 1 : /\ x[i] = LF => i > 1 /\ x[i - 1] = CR
                              /\ x[i] = CR => i = n + 1 \/ x[i + 1] = LF
    BY <1>1, <1>3 DEF Uses, x
  <2>2. Uses("dos", s) <=> \A i \in 1 .. n : /\ s[i] = LF => i > 1 /\ s[i - 1] = CR
                                             /\ s[i] = CR => i = n \/ s[i + 1] = LF
    BY <1>1 DEF Uses
  <2>3. Uses("dos", s)
    <3>1. ASSUME NEW i \in 1 .. n PROVE /\ s[i] = LF => i > 1 /\ s[i - 1] = CR
                                        /\ s[i] = CR => i = n \/ s[i + 1] = LF
      <4>1. i \in 1 .. n + 1 /\ i # n + 1 /\ x[i] = s[i]
        BY <1>1
      <4>2. i > 1 => i - 1 \in 1 .. n /\ x[i - 1] = s[i - 1]
        BY <1>1
      <4>3. i # n => i + 1 \in 1 .. n /\ x[i + 1] = s[i + 1]
        <5>1. SUFFICES ASSUME i # n PROVE i + 1 \in 1 .. n /\ x[i + 1] = s[i + 1]
          OBVIOUS
        <5>2. i + 1 \in 1 .. n
          <6> HIDE DEF n
          <6> QED
            BY <1>1, <5>1
        <5> QED
          BY <1>1, <5>2
      <4> QED
        BY <2>1, <4>1, <4>2, <4>3
    <3> QED
      BY <2>2, <3>1
  <2>4. n + 1 \in 1 .. n + 1 /\ n + 1 - 1 = n
    BY <1>1
  <2>5. c = LF => n > 0 /\ s[n] = CR
    <3>1. c = LF => n + 1 > 1 /\ x[n] = CR
      BY <1>1, <2>1, <2>4
    <3> QED
      BY <1>1, <3>1
  <2>6. n > 0 /\ s[n] = CR => c = LF
    BY <1>1, <2>1
  <2> QED
    BY <1>1, <1>3, <2>3, <2>5, <2>6
<1> QED
  BY <1>2, <1>3 DEF Endings

-----------------------------------------------------------------------------
(* The invariant.                                                          *)

Moved == pushing # NoPush /\ pushing.moved

\* What is on its way into the queue.
Coming == IF pushing = NoPush THEN <<>> ELSE <<pushing.char>>

\* The queue without the cell that is not filled.
Filled(q) == q \in Seq(Codes) /\ chars = IF Moved THEN Append(q, Garbage) ELSE q

\* The end of the input is the last of the queue, and of the thread.
EndIsLast(q) ==
  /\ \A i \in 1 .. Len(q) : q[i] = EOF => i = Len(q) /\ state = "GOT_EOF" /\ pushing = NoPush
  /\ gotEOF => state = "GOT_EOF" /\ chars = <<>> /\ pushing = NoPush
  /\ pushing # NoPush /\ pushing.char = EOF => state = "GOT_EOF"

\* Where the thread is in a line end, for a text of each kind.
InLineEnd ==
  state # "GOT_EOF" =>
    /\ Uses("unix", input) => state # "GOT_CR"
    /\ Uses("mac", input) => state # "GOT_LF"
    /\ Uses("dos", input) =>
         state = IF input # <<>> /\ input[Len(input)] = CR THEN "GOT_CR" ELSE "START"

\* The codes that the routine does not return: the end, and what is taken for it.
Unheard == {EOF, DEL}

FedOf(q) == received \o Without(q \o Coming, Unheard)

FedInOrder(q) ==
  \A ending \in Endings :
    Uses(ending, input) => FedOf(q) = Without(Lines(ending, input), {DEL})

IInv ==
  /\ StdinTypeOK
  /\ polling => ~charLatch.strobe
  /\ InLineEnd
  /\ raced \/ \E q \in Seq(Codes) : Filled(q) /\ EndIsLast(q) /\ FedInOrder(q)

-----------------------------------------------------------------------------
(* What is fed, step by step.                                              *)

All == Codes \cup {Garbage}

\* What is received is no code but of a character or of a cell not filled.
LEMMA Types ==
  ASSUME StdinTypeOK, NEW q \in Seq(Codes)
  PROVE  /\ received \in Seq(All) /\ q \in Seq(All) /\ Without(q, Unheard) \in Seq(All)
         /\ Coming \in Seq(Codes) /\ q \o Coming \in Seq(Codes)
         /\ pushing # NoPush => pushing.char \in Codes /\ pushing.moved \in BOOLEAN
<1>1. received \in Seq(All) /\ q \in Seq(All)
  <2>1. Chars \cup {Garbage} \subseteq All /\ Codes \subseteq All
    BY DEF All, Codes
  <2> QED
    BY <2>1, SeqMonotonic DEF StdinTypeOK
<1>2. pushing # NoPush => pushing.char \in Codes /\ pushing.moved \in BOOLEAN
  BY DEF StdinTypeOK, Codes
<1>3. Coming \in Seq(Codes)
  BY <1>2, EmptySeq DEF Coming
<1> QED
  BY <1>1, <1>2, <1>3, WithoutType, ConcatProperties

\* The cell that is not filled hides nothing of what is to come.
LEMMA FedIs ==
  ASSUME StdinTypeOK, NEW q \in Seq(Codes), Filled(q)
  PROVE  Fed = FedOf(q)
<1>1. CASE ~Moved
  BY <1>1 DEF Fed, FedOf, Unheard, Moved, Coming, Filled
<1>2. CASE Moved
  <2> DEFINE c == pushing.char
             x == Append(q, Garbage)
             y == Append(q, c)
  <2>1. /\ pushing # NoPush /\ pushing.moved /\ c \in Codes /\ Coming = <<c>>
        /\ chars = x /\ q \in Seq(All) /\ Garbage \in All /\ c \in All
    BY <1>2, Types DEF Moved, Coming, Filled, All
  <2>2. x \in Seq(All) /\ x \o <<c>> = Append(x, c)
    BY <2>1, AppendProperties, AppendIsConcat
  <2>3. q \o <<c>> = y /\ y \in Seq(Codes)
    BY <2>1, AppendProperties, AppendIsConcat
  <2>4. c \notin {Garbage} /\ Codes \cap {Garbage} = {}
    BY <2>1, CharsDiffer
  <2>5. Without(q, {Garbage}) = q
    BY <2>4, WithoutNone
  <2>6. Without(x, {Garbage}) = q
    BY <2>1, <2>5, WithoutAppend
  <2>7. Without(Append(x, c), {Garbage}) = y
    <3> HIDE DEF c, x
    <3>1. Without(Append(x, c), {Garbage}) = Append(Without(x, {Garbage}), c)
      <4>1. x \in Seq(All) /\ c \in All /\ c \notin {Garbage}
        BY <2>1, <2>2, <2>4
      <4> QED
        BY ONLY <4>1, WithoutAppend, Zenon
    <3> QED
      BY <2>6, <3>1
  <2>8. Fed = received \o Without(Without(chars \o <<c>>, {Garbage}), {EOF, DEL})
    BY <2>1 DEF Fed
  <2>9. Without(chars \o <<c>>, {Garbage}) = q \o <<c>>
    <3> HIDE DEF c, x, y
    <3> QED
      BY <2>1, <2>2, <2>3, <2>7
  <2> HIDE DEF c, x, y
  <2> QED
    BY <2>1, <2>8, <2>9 DEF FedOf, Unheard
<1> QED
  BY <1>1, <1>2

\* A code more to come is heard, if it is not the end nor taken for it.
LEMMA FedGrows ==
  ASSUME NEW r \in Seq(All), NEW q \in Seq(Codes), NEW c \in Codes
  PROVE  /\ q \o <<c>> = Append(q, c) /\ Append(q, c) \in Seq(Codes)
         /\ r \o Without(q \o <<c>>, Unheard)
              = IF c \in Unheard THEN r \o Without(q, Unheard)
                ELSE Append(r \o Without(q, Unheard), c)
<1> DEFINE w == Without(q, Unheard)
<1>1. q \o <<c>> = Append(q, c) /\ Append(q, c) \in Seq(Codes)
  BY AppendIsConcat, AppendProperties
<1>2. Without(Append(q, c), Unheard) = IF c \in Unheard THEN w ELSE Append(w, c)
  BY WithoutAppend
<1>3. w \in Seq(All) /\ c \in All
  <2>1. w \in Seq(Codes) /\ Codes \subseteq All
    BY WithoutType DEF All
  <2> QED
    BY <2>1, SeqMonotonic
<1> HIDE DEF w
<1>4. r \o Append(w, c) = Append(r \o w, c)
  <2>1. <<c>> \in Seq(All) /\ r \o w \in Seq(All)
    BY <1>3, ConcatProperties
  <2>2. r \o (w \o <<c>>) = (r \o w) \o <<c>>
    BY <1>3, <2>1, ConcatAssociative
  <2> QED
    BY <1>3, <2>1, <2>2, AppendIsConcat
<1> QED
  BY <1>1, <1>2, <1>4 DEF w

\* A code taken from the queue and received, if it is heard, was to come.
LEMMA FedShifts ==
  ASSUME NEW r \in Seq(All), NEW q \in Seq(Codes), q # <<>>, NEW coming \in Seq(Codes)
  PROVE  r \o Without(q \o coming, Unheard)
           = (IF Head(q) \in Unheard THEN r ELSE Append(r, Head(q))) \o Without(Tail(q) \o coming, Unheard)
<1> DEFINE a == Head(q)
           t == Tail(q) \o coming
           w == Without(t, Unheard)
<1>1. a \in Codes /\ Tail(q) \in Seq(Codes) /\ t \in Seq(Codes) /\ <<a>> \in Seq(Codes)
  BY HeadTailProperties, ConcatProperties
<1>2. q = <<a>> \o Tail(q)
  <2>1. Len(q) \in Nat /\ Len(q) >= 1 /\ SubSeq(q, 1, Len(q)) = q /\ Tail(q) = SubSeq(q, 2, Len(q))
    BY EmptySeq, SubSeqFull, TailIsSubSeq
  <2>2. SubSeq(q, 1, Len(q)) = <<q[1]>> \o SubSeq(q, 1 + 1, Len(q))
    BY <2>1, SubSeqRecursiveFirst
  <2>3. q[1] = a
    OBVIOUS
  <2> QED
    BY <2>1, <2>2, <2>3
<1>3. q \o coming = <<a>> \o t
  <2>1. (<<a>> \o Tail(q)) \o coming = <<a>> \o t
    BY <1>1, ConcatAssociative
  <2> HIDE DEF a, t
  <2> QED
    BY <1>2, <2>1
<1> HIDE DEF a, t
<1>4. Without(<<a>> \o t, Unheard) = (IF a \in Unheard THEN <<>> ELSE <<a>>) \o w
  BY <1>1, WithoutPrepended
<1>5. w \in Seq(All) /\ <<a>> \in Seq(All) /\ a \in All
  <2>1. w \in Seq(Codes) /\ Codes \subseteq All
    BY <1>1, WithoutType DEF All
  <2> QED
    BY <1>1, <2>1, SeqMonotonic
<1> HIDE DEF w
<1>6. r \o (<<>> \o w) = r \o w
  BY <1>5, ConcatEmptySeq
<1>7. r \o (<<a>> \o w) = Append(r, a) \o w
  BY <1>5, ConcatAssociative, AppendIsConcat
<1> QED
  BY <1>3, <1>4, <1>6, <1>7 DEF w, t, a

-----------------------------------------------------------------------------
(* The steps.                                                              *)

LEMMA InitIInv == StdinInit => IInv
<1> SUFFICES ASSUME StdinInit PROVE IInv
  OBVIOUS
<1>1. StdinTypeOK /\ (polling => ~charLatch.strobe)
  <2>1. PICK c \in Others : charLatch = [char |-> c, strobe |-> FALSE]
    BY DEF StdinInit
  <2>2. charLatch \in [char : Chars \cup {EOF, Garbage}, strobe : BOOLEAN]
    BY <2>1 DEF Chars
  <2>3. Len(<<>>) = 0 /\ \A T : <<>> \in Seq(T)
    BY EmptySeq
  <2>4. input \in Seq(Chars) /\ received \in Seq(Chars \cup {Garbage}) /\ Len(input) <= InputLimit
    BY <2>3, StdinAssumption DEF StdinInit
  <2>5. chars \in Seq(Chars \cup {EOF, Garbage})
    BY <2>3 DEF StdinInit
  <2> QED
    BY <2>2, <2>4, <2>5 DEF StdinInit, StdinTypeOK
<1>2. InLineEnd
  BY DEF StdinInit, InLineEnd
<1>3. Filled(<<>>) /\ EndIsLast(<<>>) /\ <<>> \in Seq(Codes)
  <2>1. Len(<<>>) = 0 /\ \A T : <<>> \in Seq(T)
    BY EmptySeq
  <2> QED
    BY <2>1 DEF StdinInit, Filled, EndIsLast, Moved
<1>4. FedInOrder(<<>>)
  <2>1. ASSUME NEW ending \in Endings PROVE Lines(ending, <<>>) = <<>>
    BY WithoutEmpty DEF Lines
  <2>2. FedOf(<<>>) = <<>>
    BY WithoutEmpty DEF FedOf, StdinInit, Coming
  <2> QED
    BY <2>1, <2>2, WithoutEmpty DEF FedInOrder, StdinInit
<1> QED
  BY <1>1, <1>2, <1>3, <1>4 DEF IInv

\* The invariant after a step is that of the queue after the step.
LEMMA ReadStep ==
  ASSUME IInv, NEW c \in Chars, Read(c)
  PROVE  IInv'
<1>1. StdinTypeOK /\ InLineEnd /\ (polling => ~charLatch.strobe)
  BY DEF IInv
<1>2. /\ state # "GOT_EOF" /\ pushing = NoPush /\ input' = Append(input, c) /\ state' = After(c)
      /\ pushing' = IF Dropped(c) THEN NoPush ELSE [char |-> Translated(c), moved |-> FALSE]
      /\ chars' = chars /\ charLatch' = charLatch /\ gotEOF' = gotEOF /\ polling' = polling
      /\ received' = received /\ raced' = raced /\ Len(input) < InputLimit
  BY DEF Read, card, program
<1>3. Translated(c) \in Chars /\ Translated(c) \in Codes
  BY CharsDiffer DEF Translated, Codes
<1>4. ~Moved /\ ~Moved' /\ Coming = <<>> /\ Coming' = (IF Dropped(c) THEN <<>> ELSE <<Translated(c)>>)
  <2>1. [char |-> Translated(c), moved |-> FALSE].char = Translated(c)
    OBVIOUS
  <2>2. [char |-> Translated(c), moved |-> FALSE] # NoPush
    BY DEF NoPush
  <2> QED
    BY <1>2, <2>1, <2>2 DEF Moved, Coming
<1>5. StdinTypeOK'
  <2>1. input \in Seq(Chars) /\ Len(input) \in Nat /\ InputLimit \in Nat
    BY <1>1, LenProperties, StdinAssumption DEF StdinTypeOK
  <2>2. input' \in Seq(Chars) /\ Len(input') <= InputLimit
    <3>1. input' \in Seq(Chars) /\ Len(input') = Len(input) + 1
      BY <1>2, <2>1, AppendProperties
    <3> QED
      BY <1>2, <2>1, <3>1
  <2>3. state' \in {"START", "GOT_CR", "GOT_LF", "GOT_EOF"}
    BY <1>2 DEF After
  <2>4. pushing' \in {NoPush} \cup [char : Chars \cup {EOF}, moved : BOOLEAN]
    BY <1>2, <1>3
  <2> QED
    BY <1>1, <1>2, <2>2, <2>3, <2>4 DEF StdinTypeOK
<1>6. ASSUME NEW ending \in Endings, Uses(ending, input')
      PROVE  /\ Uses(ending, input)
             /\ ending = "unix" => c # CR
             /\ ending = "mac" => c # LF
             /\ ending = "dos" => (c = LF <=> input # <<>> /\ input[Len(input)] = CR)
  <2>1. input \in Seq(Chars) /\ Uses(ending, Append(input, c))
    BY <1>1, <1>2, <1>6 DEF StdinTypeOK
  <2> QED
    BY <2>1, UsesAppend
<1>7. Uses("dos", input) => state = IF input # <<>> /\ input[Len(input)] = CR THEN "GOT_CR" ELSE "START"
  BY <1>1, <1>2 DEF InLineEnd
<1>8. InLineEnd'
  <2>1. Uses("unix", input') => state' # "GOT_CR"
    BY <1>2, <1>6 DEF Endings, After
  <2>2. Uses("mac", input') => state' # "GOT_LF"
    BY <1>2, <1>6 DEF Endings, After
  <2>3. input' # <<>> /\ input'[Len(input')] = c
    BY <1>1, <1>2, AppendProperties DEF StdinTypeOK
  <2>4. ASSUME Uses("dos", input') PROVE state' = IF c = CR THEN "GOT_CR" ELSE "START"
    <3>1. Uses("dos", input) /\ (c = LF <=> input # <<>> /\ input[Len(input)] = CR)
      BY <1>6, <2>4 DEF Endings
    <3>2. state = IF c = LF THEN "GOT_CR" ELSE "START"
      BY <1>7, <3>1
    <3> QED
      BY <1>2, <3>2, CharsDiffer DEF After
  <2> QED
    BY <2>1, <2>2, <2>3, <2>4 DEF InLineEnd
<1>9. ASSUME NEW ending \in Endings, Uses(ending, input') PROVE Dropped(c) <=> ending = "dos" /\ c = LF
  <2>1. CASE ending = "unix"
    BY <1>1, <1>2, <1>6, <1>9, <2>1 DEF InLineEnd, Dropped
  <2>2. CASE ending = "mac"
    BY <1>1, <1>2, <1>6, <1>9, <2>2 DEF InLineEnd, Dropped
  <2>3. CASE ending = "dos"
    BY <1>6, <1>7, <1>9, <2>3, CharsDiffer DEF Dropped
  <2> QED
    BY <2>1, <2>2, <2>3 DEF Endings
<1>10. ASSUME ~raced PROVE \E q \in Seq(Codes) : (Filled(q) /\ EndIsLast(q) /\ FedInOrder(q))'
  <2>1. PICK q \in Seq(Codes) : Filled(q) /\ EndIsLast(q) /\ FedInOrder(q)
    BY <1>10 DEF IInv
  <2>2. Filled(q)'
    BY <1>2, <1>4, <2>1 DEF Filled
  <2>3. EndIsLast(q)'
    <3>1. pushing' # NoPush => pushing'.char # EOF
      BY <1>2, <1>3, CharsDiffer
    <3> QED
      BY <1>2, <2>1, <3>1 DEF EndIsLast
  <2>4. FedInOrder(q)'
    <3>1. SUFFICES ASSUME NEW ending \in Endings, Uses(ending, input')
                   PROVE  FedOf(q)' = Without(Lines(ending, input'), {DEL})
      BY DEF FedInOrder
    <3> DEFINE e == Translated(c)
               lines == Lines(ending, input)
    <3>2. FedOf(q) = Without(lines, {DEL})
      BY <1>6, <2>1, <3>1 DEF FedInOrder
    <3>3. /\ lines \in Seq(Chars)
          /\ Lines(ending, input') = IF Dropped(c) THEN lines ELSE Append(lines, e)
      <4>1. input \in Seq(Chars)
        BY <1>1 DEF StdinTypeOK
      <4>2. Dropped(c) <=> ending = "dos" /\ c = LF
        BY <1>9, <3>1
      <4> QED
        BY <1>2, <4>1, <4>2, LinesAppend
    <3>4. q \o <<>> = q
      BY ConcatEmptySeq
    <3>5. FedOf(q) = received \o Without(q, Unheard)
      BY <1>4, <3>4 DEF FedOf
    <3>6. FedOf(q)' = received \o Without(q \o Coming', Unheard)
      BY <1>2 DEF FedOf
    <3> HIDE DEF e, lines
    <3>7. CASE Dropped(c)
      <4>1. Coming' = <<>> /\ Lines(ending, input') = lines
        BY <1>4, <3>3, <3>7
      <4> QED
        BY <3>2, <3>4, <3>5, <3>6, <4>1
    <3>8. CASE ~Dropped(c)
      <4>1. Coming' = <<e>> /\ Lines(ending, input') = Append(lines, e)
        BY <1>4, <3>3, <3>8 DEF e
      <4>2. e \in Chars /\ e \in Codes /\ (e \in Unheard <=> e \in {DEL})
        BY <1>3, CharsDiffer DEF Unheard, e
      <4>3. received \in Seq(All)
        BY <1>1, <2>1, Types
      <4>4. received \o Without(q \o <<e>>, Unheard)
              = IF e \in Unheard THEN received \o Without(q, Unheard)
                ELSE Append(received \o Without(q, Unheard), e)
        BY <4>2, <4>3, FedGrows
      <4>5. Without(Append(lines, e), {DEL}) = IF e \in {DEL} THEN Without(lines, {DEL})
                                               ELSE Append(Without(lines, {DEL}), e)
        BY <3>3, <4>2, WithoutAppend
      <4> QED
        BY <3>2, <3>5, <3>6, <4>1, <4>2, <4>4, <4>5
    <3> QED
      BY <3>7, <3>8
  <2> QED
    BY <2>2, <2>3, <2>4
<1>11. (polling => ~charLatch.strobe)'
  BY <1>1, <1>2
<1>12. (raced \/ \E q \in Seq(Codes) : Filled(q) /\ EndIsLast(q) /\ FedInOrder(q))'
  BY <1>2, <1>10
<1> QED
  BY <1>5, <1>8, <1>11, <1>12 DEF IInv

\* A step that reads nothing keeps the text, and the order, if it keeps what is fed.
LEMMA SameText ==
  ASSUME InLineEnd, input' = input, state' \in {state, "GOT_EOF"}
  PROVE  /\ InLineEnd'
         /\ \A q, r : FedInOrder(q) /\ FedOf(r)' = FedOf(q) => FedInOrder(r)'
<1>1. InLineEnd'
  BY DEF InLineEnd
<1>2. \A q, r : FedInOrder(q) /\ FedOf(r)' = FedOf(q) => FedInOrder(r)'
  BY DEF FedInOrder
<1> QED
  BY <1>1, <1>2

LEMMA ReadEOFStep ==
  ASSUME IInv, ReadEOF
  PROVE  IInv'
<1>1. StdinTypeOK /\ InLineEnd /\ (polling => ~charLatch.strobe)
  BY DEF IInv
<1>2. /\ state # "GOT_EOF" /\ pushing = NoPush /\ input' = input /\ state' = "GOT_EOF"
      /\ pushing' = [char |-> EOF, moved |-> FALSE]
      /\ chars' = chars /\ charLatch' = charLatch /\ gotEOF' = gotEOF /\ polling' = polling
      /\ received' = received /\ raced' = raced
  BY DEF ReadEOF, PushedAtEnd, card, program
<1>3. ~Moved /\ ~Moved' /\ Coming = <<>> /\ Coming' = <<EOF>> /\ pushing' # NoPush
  <2>1. [char |-> EOF, moved |-> FALSE].char = EOF
    OBVIOUS
  <2>2. [char |-> EOF, moved |-> FALSE] # NoPush
    BY DEF NoPush
  <2> QED
    BY <1>2, <2>1, <2>2 DEF Moved, Coming
<1>4. StdinTypeOK'
  BY <1>1, <1>2 DEF StdinTypeOK
<1>5. ASSUME ~raced PROVE \E q \in Seq(Codes) : (Filled(q) /\ EndIsLast(q) /\ FedInOrder(q))'
  <2>1. PICK q \in Seq(Codes) : Filled(q) /\ EndIsLast(q) /\ FedInOrder(q)
    BY <1>5 DEF IInv
  <2>2. Filled(q)' /\ EndIsLast(q)'
    BY <1>2, <1>3, <2>1 DEF Filled, EndIsLast
  <2>3. FedOf(q)' = FedOf(q)
    <3>1. received \in Seq(All) /\ EOF \in Codes /\ EOF \in Unheard /\ q \o <<>> = q
      BY <1>1, <2>1, Types, ConcatEmptySeq DEF Codes, Unheard
    <3>2. received \o Without(q \o <<EOF>>, Unheard) = received \o Without(q, Unheard)
      BY <3>1, FedGrows
    <3> QED
      BY <1>2, <1>3, <3>1, <3>2 DEF FedOf
  <2> QED
    BY <1>1, <1>2, <2>1, <2>2, <2>3, SameText
<1>6. InLineEnd'
  BY <1>1, <1>2, SameText
<1>7. (raced \/ \E q \in Seq(Codes) : Filled(q) /\ EndIsLast(q) /\ FedInOrder(q))'
  BY <1>2, <1>5
<1> QED
  BY <1>1, <1>2, <1>4, <1>6, <1>7 DEF IInv

\* Of a push what is fed does not see whether it is done in one step, begun or ended.
LEMMA PushStep ==
  ASSUME IInv, Push \/ MoveEnd \/ FillCell
  PROVE  IInv'
<1> DEFINE e == pushing.char
<1>1. StdinTypeOK /\ InLineEnd /\ (polling => ~charLatch.strobe)
  BY DEF IInv
<1>2. /\ pushing # NoPush /\ state' = state /\ input' = input /\ charLatch' = charLatch
      /\ gotEOF' = gotEOF /\ polling' = polling /\ received' = received /\ raced' = raced
  BY DEF Push, MoveEnd, FillCell, card, program
<1>3. e \in Codes /\ Coming = <<e>> /\ received \in Seq(All)
  BY <1>1, <1>2, Types, EmptySeq DEF Coming
<1>4. chars \in Seq(All) /\ Garbage \in All /\ e \in All
  BY <1>1, <1>3 DEF StdinTypeOK, All, Codes
<1>5. pushing' = NoPush \/ pushing' = [pushing EXCEPT !.moved = TRUE]
  BY DEF Push, MoveEnd, FillCell
<1>6. StdinTypeOK'
  <2>1. chars' \in Seq(Chars \cup {EOF, Garbage})
    <3>1. All = Chars \cup {EOF, Garbage}
      BY DEF All, Codes
    <3>2. chars # <<>> => Len(chars) \in 1 .. Len(chars)
      BY <1>4, EmptySeq, LenProperties
    <3>3. chars # <<>> => [chars EXCEPT ![Len(chars)] = e] \in Seq(All)
      BY <1>4, <3>2, ExceptSeq
    <3>4. Append(chars, e) \in Seq(All) /\ Append(chars, Garbage) \in Seq(All)
      BY <1>4, AppendProperties
    <3> QED
      BY <1>4, <3>1, <3>3, <3>4 DEF Push, MoveEnd, FillCell
  <2>2. pushing' \in {NoPush} \cup [char : Chars \cup {EOF}, moved : BOOLEAN]
    BY <1>1, <1>2, <1>5 DEF StdinTypeOK
  <2> QED
    BY <1>1, <1>2, <2>1, <2>2 DEF StdinTypeOK
<1>7. ASSUME ~raced PROVE \E q \in Seq(Codes) : (Filled(q) /\ EndIsLast(q) /\ FedInOrder(q))'
  <2>1. PICK q \in Seq(Codes) : Filled(q) /\ EndIsLast(q) /\ FedInOrder(q)
    BY <1>7 DEF IInv
  <2>0. PICK r \in Seq(Codes) : r = Append(q, e)
    BY <1>3, <2>1, FedGrows
  <2>2. \A i \in 1 .. Len(q) : q[i] # EOF
    BY <1>2, <2>1 DEF EndIsLast
  <2>3. gotEOF = FALSE
    BY <1>1, <1>2, <2>1 DEF EndIsLast, StdinTypeOK
  <2>4. q \o <<e>> = r
    BY <1>3, <2>0, FedGrows
  <2>5. FedOf(q) = received \o Without(r, Unheard)
    BY <1>3, <2>4 DEF FedOf
  <2>6. ASSUME pushing' = NoPush, chars' = r
        PROVE  (Filled(r) /\ EndIsLast(r) /\ FedInOrder(r))'
    <3>1. Filled(r)'
      BY <2>6 DEF Filled, Moved
    <3>2. EndIsLast(r)'
      <4>1. Len(r) = Len(q) + 1 /\ r[Len(q) + 1] = e /\ (\A i \in 1 .. Len(q) : r[i] = q[i])
            /\ Len(q) \in Nat
        BY <1>3, <2>0, AppendProperties, LenProperties
      <4>2. e = EOF => state' = "GOT_EOF"
        BY <1>2, <2>1 DEF EndIsLast
      <4>3. ASSUME NEW i \in 1 .. Len(r), r[i] = EOF PROVE i = Len(r) /\ e = EOF
        <5> HIDE DEF e
        <5>1. i \notin 1 .. Len(q)
          BY <2>2, <4>1, <4>3
        <5>2. i = Len(q) + 1
          BY <4>1, <5>1
        <5> QED
          BY <4>1, <4>3, <5>2
      <4> HIDE DEF e
      <4> QED
        BY <1>2, <2>3, <2>6, <4>2, <4>3 DEF EndIsLast
    <3>3. FedOf(r)' = FedOf(q)
      <4>1. Coming' = <<>> /\ r \o <<>> = r
        BY <2>6, ConcatEmptySeq DEF Coming
      <4> QED
        BY <1>2, <2>5, <4>1 DEF FedOf
    <3> QED
      BY <1>1, <1>2, <2>1, <3>1, <3>2, <3>3, SameText
  <2>7. CASE Push
    <3>1. pushing' = NoPush /\ chars' = r
      BY <2>0, <2>1, <2>7 DEF Push, Filled, Moved
    <3> QED
      BY <2>6, <3>1
  <2>8. CASE MoveEnd
    <3>1. /\ ~Moved /\ chars' = Append(chars, Garbage) /\ pushing' = [pushing EXCEPT !.moved = TRUE]
      BY <2>8 DEF MoveEnd, Moved
    <3>2. pushing' # NoPush /\ pushing'.moved /\ pushing'.char = e
      BY <1>1, <1>2, <3>1 DEF StdinTypeOK, NoPush
    <3>3. Moved' /\ Coming' = Coming
      BY <1>2, <3>2 DEF Moved, Coming
    <3>4. Filled(q)' /\ EndIsLast(q)'
      BY <1>2, <2>1, <2>2, <2>3, <3>1, <3>2, <3>3 DEF Filled, EndIsLast
    <3>5. FedOf(q)' = FedOf(q)
      BY <1>2, <3>3 DEF FedOf
    <3> QED
      BY <1>1, <1>2, <2>1, <3>4, <3>5, SameText
  <2>9. CASE FillCell
    <3>1. chars = Append(q, Garbage) /\ pushing' = NoPush
      BY <1>2, <2>1, <2>9 DEF FillCell, Filled, Moved
    <3>2. /\ chars # <<>> /\ Len(chars) = Len(q) + 1 /\ Len(q) \in Nat
          /\ \A i \in 1 .. Len(q) : chars[i] = q[i]
      <4>1. q \in Seq(All)
        BY <1>1, Types
      <4> QED
        BY <1>4, <3>1, <4>1, AppendProperties, LenProperties
    <3>3. chars' = [chars EXCEPT ![Len(chars)] = e]
      BY <2>9, <3>2 DEF FillCell
    <3>4. Len(chars) \in 1 .. Len(chars)
      BY <3>2
    <3>5. /\ chars' \in Seq(All) /\ Len(chars') = Len(q) + 1
          /\ \A i \in 1 .. Len(q) + 1 : chars'[i] = IF i = Len(q) + 1 THEN e ELSE chars[i]
      BY <1>4, <3>2, <3>3, <3>4, ExceptSeq
    <3>6. /\ r \in Seq(All) /\ Len(r) = Len(q) + 1 /\ r[Len(q) + 1] = e
          /\ \A i \in 1 .. Len(q) : r[i] = q[i]
      <4>1. q \in Seq(All)
        BY <1>1, Types
      <4> QED
        BY <1>4, <2>0, <4>1, AppendProperties
    <3> HIDE DEF e
    <3>7. \A i \in 1 .. Len(q) + 1 : chars'[i] = r[i]
      <4>1. \A i \in 1 .. Len(q) + 1 : i \in 1 .. Len(q) \/ i = Len(q) + 1
        BY <3>2
      <4> QED
        BY <3>2, <3>5, <3>6, <4>1
    <3>8. chars' = r
      BY <3>5, <3>6, <3>7, SeqEqual
    <3> QED
      BY <2>6, <3>1, <3>8
  <2> QED
    BY <2>7, <2>8, <2>9
<1>8. InLineEnd'
  BY <1>1, <1>2, SameText
<1>9. (raced \/ \E q \in Seq(Codes) : Filled(q) /\ EndIsLast(q) /\ FedInOrder(q))'
  BY <1>2, <1>7
<1> QED
  BY <1>1, <1>2, <1>6, <1>8, <1>9 DEF IInv

\* The routine clears the strobe of the character before, which tells nothing of
\* the queue.
LEMMA CallStep ==
  ASSUME IInv, Call
  PROVE  IInv'
<1>1. StdinTypeOK /\ InLineEnd
  BY DEF IInv
<1>2. /\ state' = state /\ pushing' = pushing /\ input' = input /\ chars' = chars /\ gotEOF' = gotEOF
      /\ received' = received /\ raced' = raced /\ polling' = TRUE
      /\ charLatch' = [charLatch EXCEPT !.strobe = FALSE]
  BY DEF Call, ClearSwitch, thread
<1>3. StdinTypeOK' /\ ~charLatch'.strobe
  BY <1>1, <1>2 DEF StdinTypeOK
<1>4. InLineEnd'
  BY <1>1, <1>2, SameText
<1>5. ASSUME ~raced PROVE \E q \in Seq(Codes) : (Filled(q) /\ EndIsLast(q) /\ FedInOrder(q))'
  <2>1. PICK q \in Seq(Codes) : Filled(q) /\ EndIsLast(q) /\ FedInOrder(q)
    BY <1>5 DEF IInv
  <2>2. Filled(q)' /\ EndIsLast(q)' /\ FedOf(q)' = FedOf(q)
    BY <1>2, <2>1 DEF Filled, EndIsLast, FedOf, Moved, Coming
  <2> QED
    BY <1>1, <1>2, <2>1, <2>2, SameText
<1>6. (raced \/ \E q \in Seq(Codes) : Filled(q) /\ EndIsLast(q) /\ FedInOrder(q))'
  BY <1>2, <1>5
<1> QED
  BY <1>3, <1>4, <1>6 DEF IInv

LEMMA PollStep ==
  ASSUME IInv, Poll
  PROVE  IInv'
<1>1. StdinTypeOK /\ InLineEnd /\ ~charLatch.strobe /\ polling
  BY DEF IInv, Poll
<1>2. /\ state' = state /\ pushing' = pushing /\ input' = input
      /\ polling' = ~charLatch'.strobe
      /\ received' = IF charLatch'.strobe /\ IsChar(charLatch'.char) THEN Append(received, charLatch'.char) ELSE received
      /\ PollSwitch
  BY DEF Poll, thread
<1>3. InLineEnd'
  BY <1>1, <1>2, SameText
<1>4. CASE /\ charLatch' = charLatch \/ charLatch' = [char |-> EOF, strobe |-> TRUE]
           /\ UNCHANGED <<chars, gotEOF, raced>>
  <2>1. chars' = chars /\ gotEOF' = gotEOF /\ raced' = raced
    BY <1>4
  <2>2. received' = received
    <3>1. [char |-> EOF, strobe |-> TRUE].char = EOF
      OBVIOUS
    <3> QED
      BY <1>1, <1>2, <1>4, <3>1 DEF IsChar
  <2>3. charLatch' \in [char : Chars \cup {EOF, Garbage}, strobe : BOOLEAN]
    <3>1. [char |-> EOF, strobe |-> TRUE] \in [char : Chars \cup {EOF, Garbage}, strobe : BOOLEAN]
      OBVIOUS
    <3>2. charLatch \in [char : Chars \cup {EOF, Garbage}, strobe : BOOLEAN]
      BY <1>1 DEF StdinTypeOK
    <3> QED
      BY <1>4, <3>1, <3>2, Zenon
  <2>4. StdinTypeOK' /\ (polling => ~charLatch.strobe)'
    BY <1>1, <1>2, <2>1, <2>2, <2>3 DEF StdinTypeOK
  <2>5. ASSUME ~raced PROVE \E q \in Seq(Codes) : (Filled(q) /\ EndIsLast(q) /\ FedInOrder(q))'
    <3>1. PICK q \in Seq(Codes) : Filled(q) /\ EndIsLast(q) /\ FedInOrder(q)
      BY <2>5 DEF IInv
    <3>2. Filled(q)' /\ EndIsLast(q)' /\ FedOf(q)' = FedOf(q)
      BY <1>2, <2>1, <2>2, <3>1 DEF Filled, EndIsLast, FedOf, Moved, Coming
    <3> QED
      BY <1>1, <1>2, <3>1, <3>2, SameText
  <2>6. (raced \/ \E q \in Seq(Codes) : Filled(q) /\ EndIsLast(q) /\ FedInOrder(q))'
    BY <2>1, <2>5
  <2> QED
    BY <1>3, <2>4, <2>6 DEF IInv
<1>5. CASE /\ ~gotEOF /\ chars # <<>>
           /\ charLatch' = [char |-> Latched(Head(chars)), strobe |-> TRUE]
           /\ gotEOF' = IsEnd(Head(chars))
           /\ chars' = Tail(chars)
           /\ raced' = (raced \/ Head(chars) = Garbage)
  <2> DEFINE a == Head(chars)
  <2>1. chars \in Seq(All) /\ received \in Seq(Chars \cup {Garbage}) /\ All = Chars \cup {EOF, Garbage}
    BY <1>1 DEF StdinTypeOK, All, Codes
  <2>2. a \in All /\ Tail(chars) \in Seq(All)
    BY <1>5, <2>1, HeadTailProperties
  <2>3. charLatch'.strobe = TRUE /\ charLatch'.char = Latched(a)
    BY <1>5
  <2>4. Latched(a) \in All /\ (Latched(a) = EOF <=> a \in Unheard) /\ (a \notin Unheard => Latched(a) = a)
    BY <2>1, <2>2, CharsDiffer DEF Latched, Unheard
  <2>5. received' = IF a \in Unheard THEN received ELSE Append(received, a)
    BY <1>2, <2>3, <2>4 DEF IsChar
  <2>6. StdinTypeOK' /\ (polling => ~charLatch.strobe)'
    <3>1. charLatch' \in [char : Chars \cup {EOF, Garbage}, strobe : BOOLEAN]
      BY <1>5, <2>1, <2>4
    <3>2. received' \in Seq(Chars \cup {Garbage})
      <4>1. a \notin Unheard => a \in Chars \cup {Garbage}
        BY <2>1, <2>2 DEF Unheard
      <4> HIDE DEF a
      <4> QED
        BY <2>1, <2>5, <4>1, AppendProperties
    <3>3. gotEOF' \in BOOLEAN /\ raced' \in BOOLEAN /\ polling' \in BOOLEAN /\ ~polling'
      BY <1>1, <1>2, <1>5, <2>3 DEF IsEnd, StdinTypeOK
    <3>4. chars' \in Seq(Chars \cup {EOF, Garbage})
      BY <1>5, <2>1, <2>2
    <3> HIDE DEF a
    <3> QED
      BY <1>1, <1>2, <3>1, <3>2, <3>3, <3>4 DEF StdinTypeOK
  <2>7. ASSUME ~raced' PROVE \E q \in Seq(Codes) : (Filled(q) /\ EndIsLast(q) /\ FedInOrder(q))'
    <3>1. ~raced /\ a # Garbage
      BY <1>5, <2>7
    <3>2. PICK q \in Seq(Codes) : Filled(q) /\ EndIsLast(q) /\ FedInOrder(q)
      BY <3>1 DEF IInv
    <3>3. q # <<>>
      BY <1>5, <3>1, <3>2, HeadTailAppend DEF Filled
    <3>4. PICK r \in Seq(Codes) :
            /\ r = Tail(q) /\ Len(r) = Len(q) - 1 /\ Len(q) \in Nat
            /\ \A i \in 1 .. Len(r) : r[i] = q[i + 1]
      BY <3>3, HeadTailProperties, LenProperties
    <3>5. a = Head(q) /\ chars' = IF Moved THEN Append(r, Garbage) ELSE r
      BY <1>5, <3>2, <3>3, <3>4, HeadTailAppend DEF Filled
    <3>6. Moved' = Moved /\ Coming' = Coming
      BY <1>2 DEF Moved, Coming
    <3>7. Filled(r)'
      BY <3>4, <3>5, <3>6 DEF Filled
    <3>8. EndIsLast(r)'
      <4>1. ASSUME NEW i \in 1 .. Len(r), r[i] = EOF
            PROVE  i = Len(r) /\ state = "GOT_EOF" /\ pushing = NoPush
        <5>1. i + 1 \in 1 .. Len(q) /\ q[i + 1] = EOF
          BY <3>4, <4>1
        <5>2. i + 1 = Len(q) /\ state = "GOT_EOF" /\ pushing = NoPush
          BY <3>2, <5>1 DEF EndIsLast
        <5>3. i = Len(q) - 1
          BY <5>2
        <5> QED
          BY <3>4, <5>2, <5>3
      <4>2. ASSUME a = EOF PROVE state = "GOT_EOF" /\ pushing = NoPush /\ chars' = <<>>
        <5>1. Len(q) > 0
          BY <3>3, EmptySeq
        <5>2. 1 \in 1 .. Len(q) /\ q[1] = EOF
          BY <3>4, <3>5, <4>2, <5>1
        <5>3. 1 = Len(q) /\ state = "GOT_EOF" /\ pushing = NoPush
          BY <3>2, <5>2 DEF EndIsLast
        <5>4. r = <<>>
          BY <3>4, <5>3, EmptySeq
        <5> QED
          BY <3>5, <5>3, <5>4 DEF Moved
      <4>3. gotEOF' <=> a = EOF
        BY <1>5 DEF IsEnd
      <4> HIDE DEF a
      <4> QED
        BY <1>2, <3>2, <4>1, <4>2, <4>3 DEF EndIsLast
    <3>9. FedOf(r)' = FedOf(q)
      <4>1. received \in Seq(All) /\ Coming \in Seq(Codes)
        BY <1>1, <3>2, Types
      <4>2. received \o Without(q \o Coming, Unheard)
              = (IF Head(q) \in Unheard THEN received ELSE Append(received, Head(q)))
                  \o Without(Tail(q) \o Coming, Unheard)
        BY <3>3, <4>1, FedShifts
      <4>3. FedOf(r)' = received' \o Without(r \o Coming', Unheard)
        BY DEF FedOf
      <4> HIDE DEF a
      <4> QED
        BY <2>5, <3>4, <3>5, <3>6, <4>2, <4>3 DEF FedOf
    <3> QED
      BY <1>1, <1>2, <3>2, <3>7, <3>8, <3>9, SameText
  <2> QED
    BY <1>3, <2>6, <2>7 DEF IInv
<1> QED
  BY <1>1, <1>2, <1>4, <1>5 DEF PollSwitch, card

LEMMA NextIInv == IInv /\ [StdinNext]_stdinVars => IInv'
<1> SUFFICES ASSUME IInv, [StdinNext]_stdinVars PROVE IInv'
  OBVIOUS
<1>1. CASE UNCHANGED stdinVars
  <2>1. StdinTypeOK' /\ InLineEnd' /\ (polling => ~charLatch.strobe)'
    BY <1>1 DEF IInv, stdinVars, thread, card, program, StdinTypeOK, InLineEnd
  <2>2. \A q : (Filled(q) /\ EndIsLast(q) /\ FedInOrder(q))' <=> Filled(q) /\ EndIsLast(q) /\ FedInOrder(q)
    BY <1>1 DEF stdinVars, thread, card, program, Filled, EndIsLast, FedInOrder, FedOf, Moved, Coming
  <2> QED
    BY <1>1, <2>1, <2>2 DEF IInv, stdinVars
<1>2. CASE StdinNext
  BY <1>2, ReadStep, ReadEOFStep, PushStep, CallStep, PollStep DEF StdinNext
<1> QED
  BY <1>1, <1>2

\* What the thread, the card and the routine keep stays what it is.
THEOREM TypeCorrect == StdinSpec => []StdinTypeOK
<1>1. IInv => StdinTypeOK
  BY DEF IInv
<1> QED
  BY <1>1, InitIInv, NextIInv, PTL DEF StdinSpec

\* Text whose lines all end in the same way reaches the program complete, in order
\* and with a CR for each line end, however the thread's reads and pushes
\* interleave with the routine's polls of the card; and when the card says that
\* the input has ended, nothing is left of it: for every text of any length.
THEOREM FedCorrect == StdinSpec => []LinesFedInOrder
<1>1. IInv => LinesFedInOrder
  <2>1. SUFFICES ASSUME IInv, ~raced PROVE LinesFedInOrder
    BY DEF LinesFedInOrder
  <2>2. PICK q \in Seq(Codes) : Filled(q) /\ EndIsLast(q) /\ FedInOrder(q)
    BY <2>1 DEF IInv
  <2>3. Fed = FedOf(q)
    BY <2>1, <2>2, FedIs DEF IInv
  <2> QED
    BY <2>2, <2>3 DEF LinesFedInOrder, FedInOrder, EndIsLast, Endings
<1> QED
  BY <1>1, InitIInv, NextIInv, PTL DEF StdinSpec
=============================================================================
