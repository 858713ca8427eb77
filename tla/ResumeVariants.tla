--------------------------- MODULE ResumeVariants ---------------------------
(***************************************************************************)
(* The variants of one job's resume (resume_optimizer/): the optimizer     *)
(* makes one for the text of the job and the candidate's profile, at most  *)
(* one is current, and the current one may be promoted to be what the      *)
(* application uploads.                                                    *)
(*                                                                         *)
(* The optimizer runs in a stage of the agent, in a scheduler of its own   *)
(* and on request, without a lease.  What keeps the callers apart is the   *)
(* unique identity of a row (job, text, profile, version of the optimizer) *)
(* and one transaction that grades a row and moves "current".  The text of *)
(* a stored job and the optimizer do not change, so that the identity of a *)
(* variant is the version of the profile it was made for.                  *)
(***************************************************************************)
EXTENDS Naturals

CONSTANTS
  Stages,     \* the agent's stage and the optimizer's own scheduler
  Requests,   \* requests of the dashboard and the command line
  Profiles,   \* versions of the candidate's profile
  MaxFaults,  \* bound on crashes and exceptions
  None        \* no row, no resume, nothing at work

VARIABLES
  eligible,   \* the state and the sponsorship of the job admit a variant
  reached,    \* a pass that lists the jobs now gets to this one
  resume,     \* what jobs.resume_*_path name: a variant, the PACKAGE, or nothing
  promoted,   \* jobs.promoted_resume_variant_id
  variant,    \* resume_variants.status by profile version
  current,    \* resume_variants.current by profile version
  profile,    \* the version of the profile on disk
  pc, frame,  \* where each caller is, and its local variables
  lost,       \* history: profile versions a caller died with before it finalized
  faults

jobVars == <<eligible, reached, resume, promoted>>
variantVars == <<variant, current>>
callVars == <<pc, frame>>
history == <<lost, faults>>
vars == <<jobVars, variantVars, profile, callVars, history>>

Failures == {"REVIEW_REQUIRED", "CLAIM_CHECK_FAILED", "ATS_PARSE_FAILED"}
ResumeVariantStatus == {"GENERATING", "READY", "STALE"} \cup Failures

ASSUME VariantsAssumption ==
  /\ MaxFaults \in Nat /\ Stages \cap Requests = {}
  /\ None \notin Profiles \cup ResumeVariantStatus
  /\ "PACKAGE" \notin Profiles

Makers == Stages \cup Requests

Steps == {"optimize", "claim", "make", "fetch", "promote"}

\* variant: the profile version at work; promotes: auto_approve_resume.
Frames == [variant : Profiles \cup {None}, promotes : BOOLEAN]
NoFrame == [variant |-> None, promotes |-> FALSE]

Goto(m, step) == pc' = [pc EXCEPT ![m] = step]
Return(m) == Goto(m, "idle") /\ frame' = [frame EXCEPT ![m] = NoFrame]

-----------------------------------------------------------------------------
(* The optimizer. *)

\* The query of _find_jobs_needing_optimization(): a generating row is never current.
NeedsVariant == \A p \in Profiles : current[p] => variant[p] \in {"STALE", "GENERATING"}

\* The agent's stage, which may promote, or the scheduler's pass, which does not,
\* lists the job: the setting is not OFF, fewer than LIMIT eligible jobs have a higher
\* priority, fewer than a batch of these are feasible, and this one is not REJECT.
Pick(m) ==
  /\ pc[m] = "idle"
  /\ eligible /\ NeedsVariant /\ reached
  /\ Goto(m, "optimize")
  /\ \E promotes \in BOOLEAN : frame' = [frame EXCEPT ![m].promotes = promotes]
  /\ UNCHANGED <<jobVars, variantVars, profile, history>>

\* The dashboard and the command line ask for any job.
Ask(m) ==
  /\ pc[m] = "idle"
  /\ Goto(m, "optimize")
  /\ UNCHANGED <<jobVars, variantVars, profile, frame, history>>

\* optimize_resume(): a variant of this very profile is returned, unless forced.
Optimize(m) ==
  /\ pc[m] = "optimize"
  /\ \/ variant[profile] = "READY" /\ Return(m)
     \/ Goto(m, "claim") /\ frame' = [frame EXCEPT ![m].variant = profile]
  /\ UNCHANGED <<jobVars, variantVars, profile, history>>

\* claim_variant(): INSERT; a row of the same identity, whatever became of it, is
\* returned as it is.
ClaimVariant(m) ==
  LET p == frame[m].variant IN
  /\ pc[m] = "claim"
  /\ IF variant[p] = None
     THEN variant' = [variant EXCEPT ![p] = "GENERATING"] /\ Goto(m, "make") /\ UNCHANGED frame
     ELSE Return(m) /\ UNCHANGED variant
  /\ UNCHANGED <<jobVars, current, profile, history>>

\* The outcome of the claim check, the one-page ladder and the parse check.
Graded == {"READY"} \cup Failures

Demote(v, p) ==
  [q \in Profiles |-> IF q # p /\ current[q] /\ v[q] = "READY" THEN "STALE" ELSE v[q]]

\* MUTANT: a variant that failed does not become current.
CurrentIfReady(p, st) == IF st = "READY" THEN [q \in Profiles |-> q = p] ELSE current

MakeCurrent(p, st) == [q \in Profiles |-> q = p]

\* finalize_variant(make_current=True), one transaction.
Finalize(m) ==
  LET p == frame[m].variant IN
  /\ pc[m] = "make"
  /\ \E st \in Graded :
       /\ variant' = [Demote(variant, p) EXCEPT ![p] = st]
       /\ current' = MakeCurrent(p, st)
  /\ IF frame[m].promotes THEN Goto(m, "fetch") /\ UNCHANGED frame ELSE Return(m)
  /\ UNCHANGED <<jobVars, profile, history>>

\* MUTANT: whatever is current is promoted.
PromotableAny(p) == current[p]

Promotable(p) == current[p] /\ variant[p] = "READY"

\* _run_resume_stage() after a result it made, and promote_current_variant() on
\* request, look at the variant that is current now.
Fetch(m) ==
  /\ pc[m] = "fetch"
  /\ \/ \E p \in Profiles :
          Promotable(p) /\ Goto(m, "promote") /\ frame' = [frame EXCEPT ![m].variant = p]
     \/ (\A p \in Profiles : ~Promotable(p)) /\ Return(m)
  /\ UNCHANGED <<jobVars, variantVars, profile, history>>

Approve(m) ==
  /\ pc[m] = "idle"
  /\ Goto(m, "fetch")
  /\ UNCHANGED <<jobVars, variantVars, profile, frame, history>>

\* promote_variant()
Promote(m) ==
  /\ pc[m] = "promote"
  /\ resume' = frame[m].variant /\ promoted' = frame[m].variant
  /\ Return(m)
  /\ UNCHANGED <<eligible, reached, variantVars, profile, history>>

-----------------------------------------------------------------------------
(* Around it. *)

\* generate_assist_outputs() names the files of the package, and leaves
\* promoted_resume_variant_id as it is; a person may ask for it in any state.
Package ==
  /\ resume' = "PACKAGE"
  /\ UNCHANGED <<eligible, reached, promoted, variantVars, profile, callVars, history>>

\* The analysis, executions and people move the job (JobPreparation).
JobMoves ==
  /\ eligible' = ~eligible
  /\ UNCHANGED <<reached, resume, promoted, variantVars, profile, callVars, history>>

\* So do the setting, the feasibility of the job, and the jobs before it: these need
\* not move at all, since a job nothing can be made for stays on the list.
ListMoves ==
  /\ reached' = ~reached
  /\ UNCHANGED <<eligible, resume, promoted, variantVars, profile, callVars, history>>

EditProfile(p) ==
  /\ p # profile
  /\ profile' = p
  /\ UNCHANGED <<jobVars, variantVars, callVars, history>>

\* An exception, which the caller logs and forgets, or the end of the process.
Fail(m) ==
  /\ pc[m] # "idle" /\ faults < MaxFaults
  /\ faults' = faults + 1
  /\ lost' = IF pc[m] = "make" THEN lost \cup {frame[m].variant} ELSE lost
  /\ Return(m)
  /\ UNCHANGED <<jobVars, variantVars, profile>>

-----------------------------------------------------------------------------
Init ==
  /\ eligible = FALSE /\ reached \in BOOLEAN /\ resume = None /\ promoted = None
  /\ variant = [p \in Profiles |-> None] /\ current = [p \in Profiles |-> FALSE]
  /\ profile \in Profiles
  /\ pc = [m \in Makers |-> "idle"] /\ frame = [m \in Makers |-> NoFrame]
  /\ lost = {} /\ faults = 0

Step(m) == Optimize(m) \/ ClaimVariant(m) \/ Finalize(m) \/ Fetch(m) \/ Promote(m)

Next ==
  \/ \E m \in Stages : Pick(m)
  \/ \E m \in Requests : Ask(m) \/ Approve(m)
  \/ \E m \in Makers : Step(m) \/ Fail(m)
  \/ \E p \in Profiles : EditProfile(p)
  \/ Package \/ JobMoves \/ ListMoves

Spec == Init /\ [][Next]_vars

\* Whoever has begun goes on.  A pass starts on an interval, and works through the
\* jobs it listed: while the job stays on the list, the next pass takes it.
FairSpec == Spec /\ (\A m \in Makers : WF_vars(Step(m))) /\ \A m \in Stages : WF_vars(Pick(m))

-----------------------------------------------------------------------------
(* Properties. *)

\* Every variable keeps its type.
TypeOK ==
  /\ eligible \in BOOLEAN /\ reached \in BOOLEAN
  /\ resume \in Profiles \cup {"PACKAGE", None} /\ promoted \in Profiles \cup {None}
  /\ variant \in [Profiles -> ResumeVariantStatus \cup {None}]
  /\ current \in [Profiles -> BOOLEAN]
  /\ profile \in Profiles
  /\ pc \in [Makers -> {"idle"} \cup Steps]
  /\ frame \in [Makers -> Frames]
  /\ lost \subseteq Profiles /\ faults \in 0..MaxFaults

\* However callers race, fail and supersede each other: a variant that is the job's
\* resume is labelled as such, and passed every check when it was made.
PromotedPassed ==
  \A p \in Profiles : promoted = p \/ resume = p =>
    /\ variant[p] \in {"READY", "STALE"}
    /\ resume \in {promoted, "PACKAGE"}

\* As soon as one variant was finalized, exactly one is current, and it is final.
OneCurrent ==
  /\ \A p, q \in Profiles : current[p] /\ current[q] => p = q
  /\ \A p \in Profiles : current[p] => variant[p] \in Graded
  /\ (\E p \in Profiles : variant[p] \in Graded) => \E p \in Profiles : current[p]

\* A job that its passes get to has a current variant in the end, whichever callers
\* race for it, and wherever they die: a death between the claim and the grade costs
\* the one identity it claimed, and the next edit of the profile is made again
\* (optimize_resume(), claim_variant()).
VariantArrives ==
  <>[]reached =>
    \A p \in Profiles :
      eligible /\ profile = p ~>
        ~eligible \/ profile # p \/ p \in lost \/ \E q \in Profiles : current[q]

\* The same for the identity that was lost: not so in this code, which lists its job
\* again in every pass and finds the identity claimed.
VariantAlwaysArrives ==
  <>[]reached =>
    \A p \in Profiles :
      eligible /\ profile = p ~> ~eligible \/ profile # p \/ \E q \in Profiles : current[q]

\* The same for a job that other jobs keep from being listed: not so either.
VariantArrivesUnlisted ==
  \A p \in Profiles :
    eligible /\ profile = p ~>
      ~eligible \/ profile # p \/ p \in lost \/ \E q \in Profiles : current[q]

\* A READY variant of the profile as it is stays current.
FreshStaysCurrent ==
  [][\A p \in Profiles :
       current[p] /\ variant[p] = "READY" /\ profile = p => current'[p]]_vars

\* The label of a promoted variant names the resume that is uploaded.
LabelNamesResume == promoted # None => resume = promoted

\* What a promotion puts onto the job is still READY then: "never promotes a ... STALE
\* variant" (promotion.py:41-44).
NeverPromotesStale ==
  [][\A p \in Profiles : promoted' = p /\ promoted # p => variant[p] = "READY"]_vars
=============================================================================
