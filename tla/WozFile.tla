------------------------------ MODULE WozFile -------------------------------
(***************************************************************************)
(* The WOZ 2.0 image of a floppy disk (wozfile.cpp).  In the file several  *)
(* quarter tracks share a track and blank ones have none (tmap, trk); in   *)
(* memory each has a track of its own, which expandTracks makes after a    *)
(* load and reduceTracks undoes for a save.  Tracks differ in length, so   *)
(* the rotational position is rescaled when the head has moved.            *)
(*                                                                         *)
(* The arm (StepperMotor) moves the head between a rotation and the next   *)
(* write, and the user loads, saves and unloads at any time between.       *)
(*                                                                         *)
(* Abstracted: a position is one number for byt and bit; the checksum, the *)
(* creator and other fields of INFO that nothing uses; the file's blocks.  *)
(***************************************************************************)
EXTENDS Integers, SequencesExt

CONSTANTS
  C_QTRACK,       \* quarter tracks, and tracks a file may have (160)
  Kludge,         \* quarter track 34.25, which a save drops (0x89)
  CellCount,      \* cells of a track: its bits and what pads them to blocks
  DefaultLength,  \* bits of a track of a disk without tracks (0xC780)
  Images,         \* the files a behaviour may start with
  NoImage,        \* an empty file
  Unset,          \* a value never set
  WriteLimit      \* bound: bits written in a behaviour

Quarters == 0 .. C_QTRACK - 1
Cells    == 0 .. CellCount - 1
NoTrack  == [bits |-> 0]
FF       == 255              \* in tmap: no track

Tracks  == [bits : 1 .. CellCount, cell : [Cells -> BOOLEAN]]
Disks   == [tmap : [Quarters -> Quarters \cup {FF}],
            trk  : [Quarters -> Tracks \cup {NoTrack}]]
Timings == {28, 32}          \* optimal timing, in 1/8 microseconds per bit
Files   == [disk : Disks, writable : BOOLEAN, timing : Timings]

\* The tracks of a file that quarter tracks use are just those it has.
WellFormed(d) ==
  {d.tmap[q] : q \in Quarters} \ {FF} = {s \in Quarters : d.trk[s] # NoTrack}

ASSUME WozAssumption ==
  /\ C_QTRACK \in 1 .. 254 /\ Kludge \in 1 .. C_QTRACK - 1
  /\ CellCount \in Nat \ {0} /\ DefaultLength \in 1 .. CellCount
  /\ Images \subseteq Files /\ \A i \in Images : WellFormed(i.disk)
  /\ NoImage \notin Files \cup [Quarters -> [Cells -> BOOLEAN]]
  /\ Unset \notin Quarters /\ WriteLimit \in Nat

VARIABLES
  loaded, modified, writable, timing,
  disk,               \* tmap and trk
  position,           \* the bit under the head, byt * 8 + bit
  lastQuarterTrack,   \* where the head was at the last rotation
  head,               \* where the head is
  file,               \* the file, or NoImage
  unsaved,            \* history: the last save failed, unknown to the program
  writes              \* bound: bits written

state == <<loaded, modified, writable, timing, disk>>
vars  == <<state, position, lastQuarterTrack, head, file, unsaved, writes>>

NoDisk == [tmap |-> [q \in Quarters |-> FF], trk |-> [s \in Quarters |-> NoTrack]]

TypeOK ==
  /\ loaded \in BOOLEAN /\ modified \in BOOLEAN /\ writable \in BOOLEAN
  /\ timing \in Timings
  /\ disk \in Disks
  /\ position \in Cells
  /\ lastQuarterTrack \in Quarters \cup {Unset}
  /\ head \in Quarters
  /\ file \in Files \cup {NoImage}
  /\ unsaved \in BOOLEAN /\ writes \in 0 .. WriteLimit

\* The constructor unloads; nothing sets lastQuarterTrack.
Init ==
  /\ loaded = FALSE /\ modified = FALSE /\ writable = TRUE /\ timing = 32
  /\ disk = NoDisk /\ position = 0 /\ lastQuarterTrack = Unset
  /\ head = C_QTRACK \div 2
  /\ file \in Images /\ unsaved = FALSE /\ writes = 0

-----------------------------------------------------------------------------
(* Tracks.                                                                 *)

TrackOf(d, q) == d.trk[d.tmap[q]]
BitsAt(d, q)  == IF d.tmap[q] = FF THEN 0 ELSE TrackOf(d, q).bits

HasTrack(d) == {q \in Quarters : d.tmap[q] # FF}

\* The first slot without a track.
FreeSlot(d) == Min({s \in Quarters : d.trk[s] = NoTrack})

\* Gives quarter track q the slot s with the track t.
WithTrack(d, q, s, t) ==
  [tmap |-> [d.tmap EXCEPT ![q] = s], trk |-> [d.trk EXCEPT ![s] = t]]

\* copyTrack: a copy of its own for a quarter track that shares one with a
\* quarter track below it.
CopyTrack(d, q) ==
  IF \E r \in 0 .. q - 1 : d.tmap[r] = d.tmap[q]
  THEN WithTrack(d, q, FreeSlot(d), TrackOf(d, q)) ELSE d

\* calcNewTrackLengthBits: the average of the tracks on both sides.
NewTrackLength(d, q) ==
  LET below == {r \in HasTrack(d) : r < q}
      above == {r \in HasTrack(d) : r > q}
      t1 == IF below = {} THEN 0 ELSE BitsAt(d, Max(below))
      t2 == IF above = {} THEN 0 ELSE BitsAt(d, Min(above))
  IN  IF t1 = 0 /\ t2 = 0 THEN DefaultLength
      ELSE IF t1 # 0 /\ t2 # 0 THEN (t1 + t2) \div 2
      ELSE t1 + t2

CreateNewTrack(d, q) ==
  WithTrack(d, q, FreeSlot(d),
            [bits |-> NewTrackLength(d, q), cell |-> [c \in Cells |-> FALSE]])

ExpandTrack(d, q) ==
  IF d.tmap[q] = FF THEN CreateNewTrack(d, q) ELSE CopyTrack(d, q)

\* FAULT: quarter tracks keep sharing a track.
ExpandBlankTracks(d) ==
  LET expanded[n \in 0 .. C_QTRACK] ==
        IF n = 0 THEN d
        ELSE IF d.tmap[n - 1] = FF THEN CreateNewTrack(expanded[n - 1], n - 1)
        ELSE expanded[n - 1]
  IN  expanded[C_QTRACK]

\* From quarter track 0 up; expanded[n] is the disk after n of them.
ExpandTracks(d) ==
  LET expanded[n \in 0 .. C_QTRACK] ==
        IF n = 0 THEN d ELSE ExpandTrack(expanded[n - 1], n - 1)
  IN  expanded[C_QTRACK]

-----------------------------------------------------------------------------
(* reduceTracks, which is called with a track for each quarter track.      *)

\* removeTrack, for each of the slots.
WithoutTracks(trk, slots) == [s \in Quarters |-> IF s \in slots THEN NoTrack ELSE trk[s]]

TrackIsZeroes(t) == \A c \in Cells : ~t.cell[c]

RemoveZeroes(d) ==
  LET zero == {q \in HasTrack(d) : TrackIsZeroes(TrackOf(d, q))}
  IN  [tmap |-> [q \in Quarters |-> IF q \in zero THEN FF ELSE d.tmap[q]],
       trk  |-> WithoutTracks(d.trk, {d.tmap[q] : q \in zero})]

\* FAULT: the lengths are not compared.
TracksOfSameCells(t, u) == \A c \in Cells : t.cell[c] = u.cell[c]

TracksAreIdentical(t, u) ==
  t.bits = u.bits /\ \A c \in Cells : t.cell[c] = u.cell[c]

\* Each quarter track uses the first track that is identical to its own.
MergeIdentical(d) ==
  LET first(q) == Min({r \in HasTrack(d) :
                         r <= q /\ TracksAreIdentical(TrackOf(d, r), TrackOf(d, q))})
      tmap == [q \in Quarters |-> IF d.tmap[q] = FF THEN FF ELSE d.tmap[first(q)]]
  IN  [tmap |-> tmap,
       trk  |-> WithoutTracks(d.trk, Quarters \ {tmap[q] : q \in Quarters})]

\* "kludge? remove track $22.25 if standard disk"
DropKludge(d) ==
  LET drop == /\ HasTrack(d) # {}
              /\ Max(HasTrack(d)) = Kludge
              /\ d.tmap[Kludge] = d.tmap[Kludge - 1]
  IN  IF drop THEN [d EXCEPT !.tmap[Kludge] = FF] ELSE d

ReduceTracks(d) == DropKludge(MergeIdentical(RemoveZeroes(d)))

-----------------------------------------------------------------------------
(* The file.                                                               *)

\* The drive's slot is empty and the disk's position forgotten.
Removed ==
  /\ loaded' = FALSE /\ modified' = FALSE
  /\ disk' = NoDisk /\ position' = 0 /\ unsaved' = FALSE
  /\ UNCHANGED <<timing, lastQuarterTrack, head, file, writes>>

\* unload
Unload == writable' = TRUE /\ Removed

\* load, up to INFO.
ReadInfo == file # NoImage /\ timing' = file.timing

\* checkForWriteProtection: the user may not be allowed to write to the file.
CheckForWriteProtection(mayWrite) == writable' = (file.writable /\ mayWrite)

\* load, of the file, from its tracks on.
Load(mayWrite) ==
  /\ ReadInfo
  /\ CheckForWriteProtection(mayWrite)
  /\ loaded' = TRUE /\ modified' = FALSE
  /\ disk' = ExpandTracks(file.disk)
  /\ position' = 0 /\ unsaved' = FALSE
  /\ UNCHANGED <<lastQuarterTrack, head, file, writes>>

\* load, of a file that turns out not to be the image of a 5.25" disk.  Its
\* INFO may have been read by then.
LoadFails == writable' \in BOOLEAN /\ Removed

\* What save writes: INFO with the standard timing, TMAP and TRKS.
FileOf(d) == [disk |-> d, writable |-> writable, timing |-> 32]

\* save: the tracks are reduced for the file and expanded again.
Save ==
  /\ loaded /\ writable
  /\ modified' = FALSE /\ unsaved' = FALSE
  /\ UNCHANGED <<loaded, writable, timing, position, lastQuarterTrack, head, writes>>
  /\ file' = FileOf(ReduceTracks(disk))
  /\ disk' = ExpandTracks(ReduceTracks(disk))

\* save when the file cannot be opened any more, or not be written once it
\* has been emptied; the writes are not checked.
SaveFails ==
  /\ loaded /\ writable
  /\ modified' = FALSE /\ unsaved' = TRUE
  /\ UNCHANGED <<loaded, writable, timing, position, lastQuarterTrack, head, writes>>
  /\ file' \in {file, NoImage}
  /\ disk' = ExpandTracks(ReduceTracks(disk))

-----------------------------------------------------------------------------
(* The drive.                                                              *)

\* The arm moves the head by a quarter track.
MoveHead ==
  /\ head' \in {head - 1, head + 1} \cap Quarters
  /\ UNCHANGED <<state, position, lastQuarterTrack, file, unsaved, writes>>

\* round() of a quotient.
Rounded(a, b) == (2 * a + b) \div (2 * b)

\* The position p of a track of oldLen bits on one of newLen bits; lengths
\* that differ by less than 1/10000 count as equal.
Rescaled(p, oldLen, newLen) ==
  LET difference == IF oldLen < newLen THEN newLen - oldLen ELSE oldLen - newLen
  IN  IF difference * 10000 < oldLen THEN p ELSE Rounded(p * newLen, oldLen)

Wrapped(p, len) == IF len <= p THEN 0 ELSE p

\* FAULT: the end is that of the track of the last rotation.
PositionsWrappedByLast(p) ==
  LET oldLen == BitsAt(disk, lastQuarterTrack)
      newLen == BitsAt(disk, head)
  IN  IF lastQuarterTrack = Unset THEN 0 .. newLen - 1
      ELSE {Wrapped(Rescaled(p, oldLen, newLen), oldLen)}

\* Where the position p of the last rotation is under the head now.  A
\* lastQuarterTrack that was never set may name any length at all.
Positions(p) ==
  LET newLen == BitsAt(disk, head)
  IN  CASE lastQuarterTrack = Unset -> 0 .. newLen - 1
        [] lastQuarterTrack = head  -> {Wrapped(p, newLen)}
        [] OTHER -> {Wrapped(Rescaled(p, BitsAt(disk, lastQuarterTrack), newLen), newLen)}

\* rotateOneBit
RotateOneBit ==
  /\ loaded
  /\ position' \in Positions(position + 1)
  /\ lastQuarterTrack' = head
  /\ UNCHANGED <<state, head, file, unsaved, writes>>

\* FAULT: only the quarter track under the head tells whether a bit changes.
ModifiedIfChanged(on) == modified \/ TrackOf(disk, head).cell[position] # on

ModifiedBy(on) == TRUE

\* setBit, with rawSet on the quarter tracks the head reaches.
SetBit(on) ==
  /\ loaded /\ writable
  /\ writes < WriteLimit /\ writes' = writes + 1
  /\ LET reached == {disk.tmap[q] : q \in {head - 1, head, head + 1} \cap Quarters}
     IN  disk' = [disk EXCEPT !.trk =
                    [s \in Quarters |-> IF s \in reached
                                        THEN [@[s] EXCEPT !.cell[position] = on]
                                        ELSE @[s]]]
  /\ modified' = ModifiedBy(on)
  /\ UNCHANGED <<loaded, writable, timing, position, lastQuarterTrack, head, file, unsaved>>

Next ==
  \/ \E mayWrite \in BOOLEAN : Load(mayWrite)
  \/ LoadFails \/ Unload \/ Save \/ SaveFails
  \/ MoveHead \/ RotateOneBit
  \/ \E on \in BOOLEAN : SetBit(on)

Spec == Init /\ [][Next]_vars

-----------------------------------------------------------------------------
(* Properties.                                                             *)

\* The bits of a disk, whether its tracks are reduced or expanded.
BitsOf(d) ==
  [q \in Quarters |->
     IF d.tmap[q] = FF THEN [c \in Cells |-> FALSE] ELSE TrackOf(d, q).cell]

\* A disk that is not marked as modified has the bits of the file, unless the
\* last save failed.
UnmodifiedIsSaved ==
  loaded /\ ~modified /\ ~unsaved => /\ file # NoImage
                                     /\ BitsOf(disk) = BitsOf(file.disk)

\* A loaded disk has a track of its own for each quarter track, so that a write
\* changes no quarter track but those the head reaches; and a save, which alone
\* changes the file, leaves each quarter track that has bits its length, whichever
\* tracks it merges and makes anew.
TracksSurviveSaves ==
  /\ [](loaded => /\ HasTrack(disk) = Quarters
                  /\ \A q, r \in Quarters : q # r => disk.tmap[q] # disk.tmap[r]
                  /\ \A q \in Quarters : BitsAt(disk, q) > 0)
  /\ [][file' # file =>
          \A q \in Quarters : BitsOf(disk')[q] # [c \in Cells |-> FALSE]
                               => BitsAt(disk', q) = BitsAt(disk, q)]_vars

\* The bit that is read, right after a rotation, is one of the track under
\* the head, wherever the head was before and whatever was loaded or saved.
BitReadIsOnTrack == [][RotateOneBit => position' < BitsAt(disk, head)]_vars

Floppy == INSTANCE Floppy WITH
  inserted <- loaded, dirty <- modified,
  platter  <- BitsOf(disk),
  image    <- IF file = NoImage THEN NoImage ELSE BitsOf(file.disk)

\* For a program that reads and writes it, the image is a floppy with bits of
\* their own on each quarter track, however its tracks are shared in the file
\* and copied in memory.
ImplementsFloppy == Floppy!Spec
=============================================================================
