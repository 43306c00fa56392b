------------------------------- MODULE MCMedia -------------------------------
(***************************************************************************)
(* What the operator loads, saves and ejects: the cassette tapes, and the  *)
(* disk in a drive with its file.  They share nothing that these modules   *)
(* model, so that a behaviour is one of one of them and the other stays as *)
(* it was at the start.                                                    *)
(***************************************************************************)
EXTENDS MCCassette, MCWozFile

VARIABLE medium   \* the one that is in use

mediaVars == <<tapeVars, vars, medium>>

\* No tape and no disk is in; which files there are only matters to the disk.
MediaInit ==
  /\ medium \in {"tapes", "disk"}
  /\ TapesInit /\ Init
  /\ medium # "disk" => file = CHOOSE image \in Images : TRUE

MediaNext ==
  /\ UNCHANGED medium
  /\ \/ medium = "tapes" /\ TapesNext /\ OneTape'
        /\ UNCHANGED vars
     \/ medium = "disk" /\ Next
        /\ UNCHANGED tapeVars

MediaSpec == MediaInit /\ [][MediaNext]_mediaVars
=============================================================================
