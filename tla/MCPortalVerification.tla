----------------------- MODULE MCPortalVerification -----------------------
(***************************************************************************)
(* Small instance of the verification of a portal: two worker threads and   *)
(* one desk.  The threads run the same code, and only safety is checked     *)
(* with them exchanged.                                                     *)
(***************************************************************************)
EXTENDS PortalVerification
=============================================================================
