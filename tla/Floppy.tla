------------------------------- MODULE Floppy -------------------------------
(***************************************************************************)
(* What a drive and its user may expect of a floppy disk image             *)
(* (wozfile.h): a platter of bits for each quarter track, read from a file *)
(* and written back to it.  Each quarter track has bits of its own, but    *)
(* the head is so wide that a write reaches the two quarters beside it.    *)
(* Nothing but a write and a load changes a bit, but for the quarter       *)
(* Kludge, which a save may blank.                                         *)
(*                                                                         *)
(* Abstracted: lengths of tracks; a quarter track has a bit for each cell  *)
(* of the longest.                                                         *)
(***************************************************************************)
EXTENDS Integers

CONSTANTS
  C_QTRACK,   \* quarter tracks (160)
  Kludge,     \* the quarter track a save may blank (0x89)
  CellCount,  \* cells of a track
  NoImage     \* what a file holds that is no image

Quarters == 0 .. C_QTRACK - 1
Cells    == 0 .. CellCount - 1

BlankBits == [c \in Cells |-> FALSE]
Blank     == [q \in Quarters |-> BlankBits]

VARIABLES
  inserted,   \* a disk is in the drive
  dirty,      \* it is said to have changes that are not in the file
  platter,    \* the bits of the disk
  image       \* the bits in the file, or NoImage

vars == <<inserted, dirty, platter, image>>

Init ==
  /\ inserted = FALSE /\ dirty = FALSE /\ platter = Blank
  /\ image \in [Quarters -> [Cells -> BOOLEAN]]

\* The quarter tracks a write with the head on q reaches.
Reached(q) == (q - 1 .. q + 1) \cap Quarters

Written(p, q, c, on) ==
  [r \in Quarters |-> IF r \in Reached(q) THEN [p[r] EXCEPT ![c] = on] ELSE p[r]]

Write(q, c, on) ==
  /\ inserted /\ dirty' = TRUE
  /\ platter' = Written(platter, q, c, on)
  /\ UNCHANGED <<inserted, image>>

\* The platter after a save of p: the same, unless the last quarter track
\* with a bit is Kludge and repeats the one before it.
MayBlankKludge(p) ==
  /\ p[Kludge] # BlankBits /\ p[Kludge] = p[Kludge - 1]
  /\ \A q \in Kludge + 1 .. C_QTRACK - 1 : p[q] = BlankBits

AfterSave(p) ==
  {p} \cup (IF MayBlankKludge(p) THEN {[p EXCEPT ![Kludge] = BlankBits]} ELSE {})

Save ==
  /\ inserted
  /\ platter' \in AfterSave(platter)
  /\ image' = platter' /\ dirty' = FALSE
  /\ UNCHANGED inserted

\* The file could not be written, which nobody notices.
SaveFails ==
  /\ inserted
  /\ platter' \in AfterSave(platter)
  /\ image' \in {image, NoImage} /\ dirty' = FALSE
  /\ UNCHANGED inserted

Load ==
  /\ image # NoImage
  /\ inserted' = TRUE /\ dirty' = FALSE /\ platter' = image
  /\ UNCHANGED image

\* Taken out, by the user or by loading something that is no image.
Unload ==
  /\ inserted' = FALSE /\ dirty' = FALSE /\ platter' = Blank
  /\ UNCHANGED image

Next ==
  \/ \E q \in Quarters, c \in Cells, on \in BOOLEAN : Write(q, c, on)
  \/ Save \/ SaveFails \/ Load \/ Unload

Spec == Init /\ [][Next]_vars
=============================================================================
