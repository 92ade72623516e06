---------------------------- MODULE MCAnnouncer ----------------------------
(* Instances of Announcer for TLC; the constants are set in the cfg files. *)
EXTENDS Announcer
=============================================================================
