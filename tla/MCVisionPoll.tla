----------------------------- MODULE MCVisionPoll -----------------------------
(* VisionPoll for TLC: its constants are numbers, given in the .cfg files. *)
EXTENDS VisionPoll
=============================================================================
