------------------------------ MODULE Keyboard ------------------------------
(***************************************************************************)
(* The keyboard of the Apple as its program sees it (keyboard.cpp): the    *)
(* queue of the keys the emulator has pushed, the latch at $C000 with its  *)
(* strobe bit, which any access to $C010 clears, and the operator's choice *)
(* to buffer keys or not (F12).                                            *)
(*                                                                         *)
(* Abstracted: a key is any element of Keys; the low seven bits of the     *)
(* latch are the key, its high bit is the strobe.  The delay of a program  *)
(* that polls too fast changes no state that the program sees.             *)
(***************************************************************************)
EXTENDS Naturals, Sequences

CONSTANTS
  Keys,        \* what can be typed
  Noise,       \* what the latch holds before the first key: it is not set
  TypedLimit   \* bound: keys typed in a behaviour

ASSUME KeyboardAssumption == Noise \notin Keys /\ TypedLimit \in Nat

VARIABLES
  keys,       \* pushed and not read yet
  latch,      \* the last key read, and the strobe
  buffered,   \* TRUE: a key waits until the strobe is cleared
  typed,      \* history: every key, and the noise when it looks like one
  cleared,    \* history: the keys whose strobe the program has cleared
  unbuffered  \* history: buffering has been off

keyboardVars == <<keys, latch, buffered, typed, cleared, unbuffered>>

Latches == [key : Keys \cup {Noise}, strobe : BOOLEAN]

KeyboardTypeOK ==
  /\ keys \in Seq(Keys)
  /\ latch \in Latches
  /\ buffered \in BOOLEAN /\ unbuffered \in BOOLEAN
  /\ typed \in Seq(Keys \cup {Noise}) /\ cleared \in Seq(Keys \cup {Noise})

\* What the latch holds for the program, as a sequence of no key or one.
Waiting(l) == IF l.strobe THEN <<l.key>> ELSE <<>>

\* The latch is not initialised, so its strobe may be set.
KeyboardInit ==
  /\ keys = <<>> /\ buffered = TRUE
  /\ latch \in {[key |-> Noise, strobe |-> s] : s \in BOOLEAN}
  /\ typed = Waiting(latch) /\ cleared = <<>> /\ unbuffered = FALSE

\* The emulator pushes a key.
Type(k) ==
  /\ Len(typed) < TypedLimit
  /\ keys' = Append(keys, k)
  /\ typed' = Append(typed, k)
  /\ UNCHANGED <<latch, buffered, cleared, unbuffered>>

\* FAULT: a key is taken from the queue on every read.
ReadsNextAlways == keys # <<>>

ReadsNext == keys # <<>> /\ (~buffered \/ ~latch.strobe)

\* FAULT: the newest key is read first.
GetNewest ==
  /\ IF ReadsNext
     THEN /\ latch' = [key |-> keys[Len(keys)], strobe |-> TRUE]
          /\ keys' = SubSeq(keys, 1, Len(keys) - 1)
     ELSE UNCHANGED <<latch, keys>>
  /\ UNCHANGED <<buffered, typed, cleared, unbuffered>>

\* The program reads $C000.
Get ==
  /\ IF ReadsNext
     THEN latch' = [key |-> Head(keys), strobe |-> TRUE] /\ keys' = Tail(keys)
     ELSE UNCHANGED <<latch, keys>>
  /\ UNCHANGED <<buffered, typed, cleared, unbuffered>>

\* The program accesses $C010.
Clear ==
  /\ latch' = [latch EXCEPT !.strobe = FALSE]
  /\ cleared' = cleared \o Waiting(latch)
  /\ UNCHANGED <<keys, buffered, typed, unbuffered>>

\* F12.
ToggleBuffered ==
  /\ buffered' = ~buffered
  /\ unbuffered' = (unbuffered \/ buffered)
  /\ UNCHANGED <<keys, latch, typed, cleared>>

KeyboardNext == Get \/ Clear \/ ToggleBuffered \/ \E k \in Keys : Type(k)

KeyboardSpec == KeyboardInit /\ [][KeyboardNext]_keyboardVars

-----------------------------------------------------------------------------
(* Properties.                                                             *)

\* As long as keys are buffered, whatever the program does and however fast the
\* operator types or pastes, the keys whose strobe was cleared, the key in the
\* latch and the keys in the queue are the keys typed: none is lost, none is
\* seen twice and none overtakes another.
NoKeyLost == ~unbuffered => typed = cleared \o Waiting(latch) \o keys

\* With or without buffering no key is made up and none is overtaken: what was
\* cleared is a subsequence of what was typed (the positions p increase).
ClearedInOrder ==
  \E p \in [1 .. Len(cleared) -> 1 .. Len(typed)] :
    /\ \A i \in 1 .. Len(cleared) : typed[p[i]] = cleared[i]
    /\ \A i, j \in 1 .. Len(cleared) : i < j => p[i] < p[j]
=============================================================================
