----------------------------- MODULE StdinCard -----------------------------
(***************************************************************************)
(* The standard input card (standardin.cpp), the thread that feeds it      *)
(* (standardinproducer.cpp) and the routine in its ROM (rom/stdin.m4).     *)
(* The thread reads characters, makes one CR of each kind of line end, and *)
(* pushes them on a queue.  For every character the program wants, the     *)
(* routine clears the strobe with switch 1 and polls switch 0 until the    *)
(* strobe is set; at the end of the input it asks the keyboard instead.    *)
(*                                                                         *)
(* The queue is a std::queue without a lock.  The thread's push fills a    *)
(* cell and moves the end of the queue, in either order as the program     *)
(* sees it, so the program can take a cell that is not filled yet.         *)
(*                                                                         *)
(* Abstracted: all characters but CR, LF and DEL are alike.                *)
(***************************************************************************)
EXTENDS Naturals, Sequences, SequencesExt

CONSTANTS
  CR, LF,       \* the two line ends
  DEL,          \* 0x7F, which with the strobe is the code of the end
  Others,       \* the other characters
  EOF,          \* the end of the input, 0xFF
  Garbage,      \* what a cell holds before it is filled
  InputLimit    \* bound: characters read in a behaviour

Chars == {CR, LF, DEL} \cup Others

ASSUME StdinAssumption ==
  /\ CR \notin {LF, DEL, EOF, Garbage} /\ LF \notin {DEL, EOF, Garbage}
  /\ DEL \notin {EOF, Garbage} /\ EOF # Garbage
  /\ Others \cap {CR, LF, DEL, EOF, Garbage} = {}
  /\ InputLimit \in Nat

VARIABLES
  state,      \* the thread: where it is in a line end
  pushing,    \* the thread: a cell it is in the middle of pushing, or none
  chars,      \* the queue
  charLatch,  \* the card: the character in the latch, and the strobe
  gotEOF,     \* the card: the end has been taken from the queue
  polling,    \* the routine is waiting for a character
  input,      \* history: the characters read
  received,   \* history: the characters the routine has returned
  raced       \* history: a cell was taken that was not filled

thread  == <<state, pushing, input>>
card    == <<charLatch, gotEOF>>
program == <<polling, received>>
stdinVars == <<thread, chars, card, program, raced>>

NoPush == <<>>

StdinTypeOK ==
  /\ state \in {"START", "GOT_CR", "GOT_LF", "GOT_EOF"}
  /\ pushing \in {NoPush} \cup [char : Chars \cup {EOF}, moved : BOOLEAN]
  /\ chars \in Seq(Chars \cup {EOF, Garbage})
  /\ charLatch \in [char : Chars \cup {EOF, Garbage}, strobe : BOOLEAN]
  /\ gotEOF \in BOOLEAN /\ polling \in BOOLEAN /\ raced \in BOOLEAN
  /\ input \in Seq(Chars) /\ received \in Seq(Chars \cup {Garbage})
  /\ Len(input) <= InputLimit

\* The latch starts as zero, a character like another but without the strobe.
StdinInit ==
  /\ state = "START" /\ pushing = NoPush /\ chars = <<>>
  /\ charLatch \in {[char |-> c, strobe |-> FALSE] : c \in Others}
  /\ gotEOF = FALSE /\ polling = FALSE
  /\ input = <<>> /\ received = <<>> /\ raced = FALSE

-----------------------------------------------------------------------------
(* The thread.                                                             *)

\* FAULT: a line end leaves the state of the line end before it.
AfterSticky(c) ==
  IF c = CR THEN "GOT_CR" ELSE IF c = LF THEN "GOT_LF" ELSE "START"

\* The state after the character c.  The character after a line end always
\* leads back to START, also when it is a line end itself.
After(c) ==
  IF state # "START" THEN "START"
  ELSE IF c = CR THEN "GOT_CR" ELSE IF c = LF THEN "GOT_LF" ELSE "START"

\* The second half of a line end.
Dropped(c) == (state = "GOT_CR" /\ c = LF) \/ (state = "GOT_LF" /\ c = CR)

Translated(c) == IF c = LF THEN CR ELSE c

\* A character arrives.
Read(c) ==
  /\ state # "GOT_EOF" /\ pushing = NoPush
  /\ Len(input) < InputLimit
  /\ input' = Append(input, c)
  /\ state' = After(c)
  /\ pushing' = IF Dropped(c) THEN NoPush ELSE [char |-> Translated(c), moved |-> FALSE]
  /\ UNCHANGED <<chars, card, program, raced>>

\* FAULT: the end is not pushed.
PushedAtEndNothing == NoPush

PushedAtEnd == [char |-> EOF, moved |-> FALSE]

\* The input ends, and with it the thread.
ReadEOF ==
  /\ state # "GOT_EOF" /\ pushing = NoPush
  /\ state' = "GOT_EOF"
  /\ pushing' = PushedAtEnd
  /\ UNCHANGED <<input, chars, card, program, raced>>

\* The push, as one step or with the end of the queue moved first.
Push ==
  /\ pushing # NoPush /\ ~pushing.moved
  /\ chars' = Append(chars, pushing.char)
  /\ pushing' = NoPush
  /\ UNCHANGED <<state, input, card, program, raced>>

MoveEnd ==
  /\ pushing # NoPush /\ ~pushing.moved
  /\ chars' = Append(chars, Garbage)
  /\ pushing' = [pushing EXCEPT !.moved = TRUE]
  /\ UNCHANGED <<state, input, card, program, raced>>

\* The cell is the last of the queue, if it has not been taken.
FillCell ==
  /\ pushing # NoPush /\ pushing.moved
  /\ chars' = IF chars = <<>> THEN chars ELSE [chars EXCEPT ![Len(chars)] = pushing.char]
  /\ pushing' = NoPush
  /\ UNCHANGED <<state, input, card, program, raced>>

-----------------------------------------------------------------------------
(* The card and the routine.                                               *)

\* The character as the latch holds it with the strobe.
Latched(c) == IF c = DEL THEN EOF ELSE c

IsEnd(c) == c = EOF

\* Switch 0.  Once the end has been taken it is delivered again and again.
PollSwitch ==
  \/ /\ charLatch.strobe \/ (~gotEOF /\ chars = <<>>)
     /\ UNCHANGED <<chars, card, raced>>
  \/ /\ ~charLatch.strobe /\ gotEOF
     /\ charLatch' = [char |-> EOF, strobe |-> TRUE]
     /\ UNCHANGED <<chars, gotEOF, raced>>
  \/ /\ ~charLatch.strobe /\ ~gotEOF /\ chars # <<>>
     /\ charLatch' = [char |-> Latched(Head(chars)), strobe |-> TRUE]
     /\ gotEOF' = IsEnd(Head(chars))
     /\ chars' = Tail(chars)
     /\ raced' = (raced \/ Head(chars) = Garbage)

\* Switch 1.
ClearSwitch == charLatch' = [charLatch EXCEPT !.strobe = FALSE]

\* The routine is called: it clears the strobe of the character before.
Call ==
  /\ ~polling /\ polling' = TRUE
  /\ ClearSwitch
  /\ UNCHANGED <<thread, chars, gotEOF, received, raced>>

IsChar(c) == c # EOF

\* One turn of the routine's loop; at the end of the input it reads a key of
\* the keyboard, which is not recorded.
Poll ==
  /\ polling
  /\ PollSwitch
  /\ polling' = ~charLatch'.strobe
  /\ received' = IF charLatch'.strobe /\ IsChar(charLatch'.char) THEN Append(received, charLatch'.char) ELSE received
  /\ UNCHANGED thread

StdinNext == ReadEOF \/ Push \/ MoveEnd \/ FillCell \/ Call \/ Poll \/ \E c \in Chars : Read(c)

StdinSpec == StdinInit /\ [][StdinNext]_stdinVars

\* The thread finishes its push, and the program goes on asking for characters.
FairStdinSpec == StdinSpec /\ WF_stdinVars(Push \/ MoveEnd \/ FillCell) /\ WF_stdinVars(Call) /\ WF_stdinVars(Poll)

-----------------------------------------------------------------------------
(* Properties.                                                             *)

\* The characters of s that are not in skipped.
Without(s, skipped) ==
  LET kept[i \in 0 .. Len(s)] ==
        IF i = 0 THEN <<>>
        ELSE IF s[i] \in skipped THEN kept[i - 1] ELSE Append(kept[i - 1], s[i])
  IN  kept[Len(s)]

\* What the input is to the Apple when its lines end in the given way.
Uses(ending, s) ==
  CASE ending = "unix" -> CR \notin Range(s)
    [] ending = "mac"  -> LF \notin Range(s)
    [] ending = "dos"  -> \A i \in DOMAIN s :
                            /\ s[i] = LF => i > 1 /\ s[i - 1] = CR
                            /\ s[i] = CR => i = Len(s) \/ s[i + 1] = LF

Lines(ending, s) ==
  IF ending = "dos" THEN Without(s, {LF})
  ELSE [i \in DOMAIN s |-> IF s[i] = LF THEN CR ELSE s[i]]

\* What has been or will be received.
Fed ==
  LET coming == chars \o (IF pushing = NoPush THEN <<>> ELSE <<pushing.char>>)
      real   == IF pushing # NoPush /\ pushing.moved THEN Without(coming, {Garbage}) ELSE coming
  IN  received \o Without(real, {EOF, DEL})

\* Text whose lines all end in the same way, LF, CR or CR LF, reaches the
\* program complete, in order and with a CR for each line end, however the
\* thread and the program interleave, as long as their race on the queue does
\* not strike; and the card says that the input has ended only when nothing is
\* left behind the end. DEL is the exception: the routine takes it for the end.
LinesFedInOrder ==
  ~raced =>
    /\ \A ending \in {"unix", "mac", "dos"} :
         Uses(ending, input) => Fed = Without(Lines(ending, input), {DEL})
    /\ gotEOF => state = "GOT_EOF" /\ chars = <<>> /\ pushing = NoPush

\* Once the input ends, a program that goes on asking comes to the end.
EndIsSeen == (state = "GOT_EOF") ~> (gotEOF \/ raced)
=============================================================================
