----------------------------- MODULE MCWozFile ------------------------------
EXTENDS WozFile

Cell(on) == [c \in Cells |-> c \in on]
Track(n, on) == [bits |-> n, cell |-> Cell(on)]

\* A file whose quarter tracks use the tracks ts as tmap says.
File(tmap, ts, w, t) ==
  [disk |-> [tmap |-> [q \in Quarters |-> tmap[q + 1]],
             trk  |-> [s \in Quarters |-> IF s < Len(ts) THEN ts[s + 1] ELSE NoTrack]],
   writable |-> w, timing |-> t]

\* Tracks that share, with a gap and two lengths; one that ends with the
\* quarter track a save drops, and may not be written; one without tracks.
MCImages ==
  { File(<<0, FF, 0, 1>>, <<Track(2, {0}), Track(3, {0, 2})>>, TRUE, 28),
    File(<<0, 1, 1, FF>>, <<Track(3, {1}), Track(2, {0})>>, TRUE, 32),
    File(<<FF, FF, FF, FF>>, <<>>, FALSE, 32) }
=============================================================================
