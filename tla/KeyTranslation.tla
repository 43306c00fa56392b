--------------------------- MODULE KeyTranslation ---------------------------
(***************************************************************************)
(* From a key of the PC's keyboard and its modifiers to a character of the *)
(* Apple's keyboard: translateKeysToAppleModernized (emulator.cpp), as a   *)
(* function of the key code and of Shift and Control.  The code of a key   *)
(* is the ASCII code of what it types unshifted, or a larger number when   *)
(* it types nothing.                                                       *)
(*                                                                         *)
(* The steps of the function are kept in their order, because the later    *)
(* ones look at what the earlier ones made of the key.                     *)
(***************************************************************************)
EXTENDS Integers, TLC

Letters   == 97 .. 122
Digits    == 48 .. 57
Capitals  == 65 .. 90
Arrows    == [left |-> 1073741904, right |-> 1073741903, up |-> 1073741906]
Tab == 9
Space == 32
Slash == 47
At == 64
LeftBracket == 91
Backslash == 92
RightBracket == 93
Caret == 94
Backquote == 96
Delete == 127

\* The keys of an American keyboard: Backspace, Tab, Return, Escape, the
\* printing ones and the arrows.
KeyCodes ==
  {8, Tab, 13, 27, Space, 39, 44, 45, 46, Slash, 59, 61, LeftBracket, Backslash,
   RightBracket, Backquote, Delete, Arrows.left, Arrows.right, Arrows.up}
    \cup Digits \cup Letters

Sent(c) == [sent |-> TRUE, char |-> c]
NotSent == [sent |-> FALSE, char |-> 0]

\* What Shift makes of a key: the symbols of an American keyboard, and three
\* letters with the symbols they have on the Apple's.
ShiftedSymbols ==
  Backquote :> 126 @@ 49 :> 33 @@ 50 :> At @@ 51 :> 35 @@ 52 :> 36 @@ 53 :> 37
  @@ 54 :> Caret @@ 55 :> 38 @@ 56 :> 42 @@ 57 :> 40 @@ 48 :> 41 @@ 45 :> 95
  @@ 61 :> 43 @@ 59 :> 58 @@ 39 :> 34 @@ 44 :> 60 @@ 46 :> 62 @@ Slash :> 63
  @@ 109 :> RightBracket @@ 110 :> Caret @@ 112 :> At

\* The low seven bits of the code in upper case, or the shifted symbol.
Symbol(c, sh) ==
  LET low == c % 128
  IN  IF sh /\ c \in DOMAIN ShiftedSymbols THEN ShiftedSymbols[c]
      ELSE IF low \in Letters THEN low - 32 ELSE low

\* FAULT: Control works on letters only.
ControlledLetter(key, ct) == IF ct /\ key \in Capitals THEN key - 64 ELSE key

Controlled(key, ct) ==
  IF ct /\ key \in Capitals \cup {RightBracket, Caret, At} THEN key - 64 ELSE key

\* The keys that cannot be typed on an Apple.  NUL is taken for one of them.
Untypable(c, key) == key = 0 \/ c \in {Tab, Backquote, LeftBracket, Backslash, Delete}

Translate(c, sh, ct) ==
  LET key == Controlled(Symbol(c, sh), ct)
  IN  IF c = Arrows.left THEN Sent(8)
      ELSE IF c = Arrows.right THEN Sent(21)
      ELSE IF c >= 256 THEN NotSent
      ELSE IF sh /\ ct /\ c = Space THEN Sent(Space)
      ELSE IF ct /\ ~sh /\ c \in Digits \cup {Slash, Space} THEN Sent(c)
      ELSE IF c = RightBracket
           THEN IF sh THEN NotSent ELSE Sent(IF ct THEN 29 ELSE key)
      ELSE IF Untypable(c, key) THEN NotSent ELSE Sent(key)

-----------------------------------------------------------------------------
(* Properties.                                                             *)

\* A character the Apple's keyboard has: the control characters that are Control
\* with "@", a letter, "]" or "^", the digits, symbols and capitals up to "Z", "]"
\* and "^".
AppleChars == (0 .. 27) \cup {29, 30} \cup (32 .. 90) \cup {RightBracket, Caret}

\* The stroke sends such a character, or an underscore, or nothing.
SendsAppleChar(c, sh, ct) ==
  LET t == Translate(c, sh, ct) IN t.sent => t.char \in AppleChars \cup {95}

\* There is a stroke on an American keyboard for the character.
Typable(char) ==
  \E c \in KeyCodes, sh, ct \in BOOLEAN : Translate(c, sh, ct) = Sent(char)
=============================================================================
