------------------------------- MODULE MCBus --------------------------------
(***************************************************************************)
(* The bus for TLC: a language card and a firmware card, of which either   *)
(* may be in the lower slot, or two firmware cards, or a disk controller   *)
(* above one of them, all of which may be taken out and put in again; one  *)
(* byte to write, so that stored (1) and fresh (0) memory differ; a write  *)
(* counter that overflows at 3; and half the switches, as bit 2 of their   *)
(* number selects nothing.                                                 *)
(***************************************************************************)
EXTENDS Bus

MCCardTypes ==
  [s \in {0, 7} |-> {"language", "firmware", "empty"}
                      \cup (IF s = 0 THEN {} ELSE {"disk", "mistyped"})]

\* The memories of two language cards would be too many states.
OneLanguageCard == \E s \in Slots : \A t \in Slots \ {s} : cards[t].kind # "language"

\* $D000, $F800
MCBankAddresses == {0, \h2800}
=============================================================================
