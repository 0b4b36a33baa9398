-------------------------- MODULE MCSourceArchive --------------------------
(* Small instances of SourceArchive for TLC: the constants are in the cfgs. *)
EXTENDS SourceArchive
=============================================================================
