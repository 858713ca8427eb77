-------------------------- MODULE MCBrowserSession --------------------------
(***************************************************************************)
(* Small instances of the browser-assist sessions: two requests of one     *)
(* process beside a call of another, which may also be a scheduler's pass. *)
(***************************************************************************)
EXTENDS BrowserSession

CONSTANTS p1, p2

\* p1 serves two requests at once, on two threads.
MCThreads == [c \in Calls |-> IF c = p2 THEN p2 ELSE p1]
=============================================================================
