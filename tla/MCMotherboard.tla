--------------------------- MODULE MCMotherboard ----------------------------
(***************************************************************************)
(* Motherboard with a program in ROM that reads and writes memory, uses    *)
(* the stack and branches, for ever.                                       *)
(***************************************************************************)
EXTENDS Motherboard

Program ==
  << \hA5, \h10,         \* FF00  LDA $10
     \h49, \h01,         \*       EOR #$01
     \h85, \h10,         \*       STA $10
     \h20, \h0C, \hFF,   \*       JSR $FF0C
     \h4C, \h00, \hFF,   \*       JMP $FF00
     \h48,               \* FF0C  PHA
     \hD0, \h00,         \*       BNE $FF0F
     \h68,               \* FF0F  PLA
     \h60 >>             \*       RTS

MCRest(address) ==
  IF address - \hFF00 + 1 \in DOMAIN Program THEN Program[address - \hFF00 + 1]
  ELSE IF address = RESET_VECTOR + 1 THEN \hFF ELSE 0

MCRamContents == {\h10 :> 1 @@ \h1FF :> \h55}
=============================================================================
