----------------------------- MODULE MCCassette -----------------------------
(***************************************************************************)
(* The cassette ports with short tapes, a tape in one port at a time: the  *)
(* ports share nothing but the cycle and the end of the program.           *)
(***************************************************************************)
EXTENDS Cassette

\* Half waves of two and three samples, flat and steep, with and without a tone.
MCRecordings ==
  {<<0, 1, 1, -1, -1, 1, 1, -1, -1, -1, 1, 1>>,
   <<-1, -1, 0, -1, 1, 1, 1>>}

OneTape == ~(tapeIn.loaded /\ tapeOut.loaded)
=============================================================================
