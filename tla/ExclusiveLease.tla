--------------------------- MODULE ExclusiveLease ---------------------------
(***************************************************************************)
(* What the leases of this system promise, whatever they protect: the      *)
(* agent's single orchestrator (agent/run_state.py), a portal's poll or    *)
(* verification (workers/leasing.py), an execution (applications/queue.py).*)
(* A live lease passes to another holder only after its holder gave it     *)
(* back or its time ran out, also when the holder died; nobody gives back  *)
(* the lease of somebody else.  It says nothing of the work done under a   *)
(* lease: a holder may go on after its lease has lapsed, and the           *)
(* components say what follows.                                            *)
(***************************************************************************)
CONSTANTS
  Holders,     \* those who may take the lease
  Nobody,      \* the owner of a free lease
  Dead         \* the owner of one whose holder is no more

VARIABLES
  owner,       \* who took the lease last and has not given it back
  live         \* its time has not run out

LeaseVars == <<owner, live>>

TypeOK == owner \in Holders \cup {Nobody, Dead} /\ live \in BOOLEAN

Init == owner = Nobody /\ live = FALSE

\* An unowned or lapsed lease is taken by anyone, a live one by its owner again.
Take(h) ==
  /\ owner = Nobody \/ ~live \/ owner = h
  /\ owner' = h
  /\ live' = TRUE

\* The owner extends the lease, lapsed or not, as long as nobody else took it.
Renew(h) == owner = h /\ live' = TRUE /\ UNCHANGED owner

GiveBack(h) == owner = h /\ owner' = Nobody /\ live' = FALSE

\* A holder dies: nobody can renew the lease or give it back.
Die(h) == owner = h /\ owner' = Dead /\ UNCHANGED live

Lapse == live /\ live' = FALSE /\ UNCHANGED owner

Next ==
  \/ \E h \in Holders : Take(h) \/ Renew(h) \/ GiveBack(h) \/ Die(h)
  \/ Lapse

Spec == Init /\ [][Next]_LeaseVars
=============================================================================
