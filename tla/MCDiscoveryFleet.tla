--------------------------- MODULE MCDiscoveryFleet ---------------------------
(* Small instances of DiscoveryFleet, and of the PollQueue in it, for TLC. *)
EXTENDS DiscoveryFleet
=============================================================================
