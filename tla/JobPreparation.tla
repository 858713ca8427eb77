--------------------------- MODULE JobPreparation ---------------------------
(***************************************************************************)
(* What happens to one posting before an application of it is queued:      *)
(* discovery stores it and analyzes it (agent/cycle.py, pipeline.py,       *)
(* sponsorship/decision.py), and an eligible job gets its documents.       *)
(*                                                                         *)
(* Nothing here holds a lease: workers and the agent's cycle process the   *)
(* posting whenever a poll returns it, while people regenerate its         *)
(* documents and refresh its sponsorship.  Each step is one transaction.   *)
(*                                                                         *)
(* The posting comes from one source, and its text never changes once it   *)
(* is stored: a later poll only touches last_seen_at, and nothing calls    *)
(* reanalyze_job().                                                        *)
(***************************************************************************)
EXTENDS PostingPolicy

CONSTANTS
  Postings,   \* the postings a run may be about
  OldFilings, NewFilings,  \* what is on file of the employer, and what an import adds
  FirstYear, LastYear,
  Pollers,    \* threads that process the posting after a poll
  Desks,      \* people at the dashboard and the command line
  MaxFailures \* bound on crashes and exceptions

ASSUME PreparationAssumption ==
  /\ MaxFailures \in Nat /\ Pollers \cap Desks = {}
  /\ FirstYear \in Nat /\ LastYear \in Nat /\ FirstYear <= LastYear
  /\ None \notin {"ANALYZED", "REVIEW_REQUIRED", "APPLIED"}

VARIABLES
  posting,      \* the posting, as it is and stays on its board
  state,        \* jobs.application_state, None before the row exists
  sponsorship,  \* jobs.sponsorship_status
  decided,      \* sponsorship_decisions has the first version of the job
  filings,      \* employer_sponsorship_evidence of the employer
  profile,      \* employer_sponsorship_profile: what was made of it and cached, or None
  year,         \* the calendar year
  aged,         \* FRESHNESS_MAX_DAYS have passed since the posting was published
  importing,    \* an import has stored its filings and not yet recomputed the profile
  at, frame,    \* where each caller is, and its local variables
  overlapped,   \* history: the last call to begin met another one at work
  failures

jobVars == <<state, sponsorship, decided>>
evidenceVars == <<filings, profile, year, aged, importing>>
callVars == <<at, frame>>
history == <<overlapped, failures>>
preparationVars == <<posting, jobVars, evidenceVars, callVars, history>>

Callers == Pollers \cup Desks

EligibleSponsorship == {"CONFIRMED_SPONSOR", "LIKELY_SPONSOR"}

\* SKIPPED stands for every hard skip of the analysis, APPLIED for every state that
\* executions and people give a job.
ApplicationState ==
  {"DISCOVERED", "ANALYZED", "SKIPPED", "CLAIM_VALIDATION_FAILED", "READY_TO_APPLY",
   "REVIEW_REQUIRED", "APPLIED"}

Steps == {"insert", "analyze", "decide", "write analysis", "reread", "generate", "write", "refresh"}

\* verdict: the sponsorship that was read or decided; first: no decision was stored yet.
Frames == [verdict : SponsorshipStatus \cup {None}, first : BOOLEAN]
NoFrame == [verdict |-> None, first |-> FALSE]

Proceed(c, step) == at' = [at EXCEPT ![c] = step]
Return(c) == Proceed(c, "idle") /\ frame' = [frame EXCEPT ![c] = NoFrame]

\* A call begins, on its own or beside others.
BeginIntake == overlapped' = \E c \in Callers : at[c] # "idle"

-----------------------------------------------------------------------------
(* _process_raw_job(): fetched, not filtered, looked up, stored, analyzed. *)

\* MUTANT: every known job is analyzed again.
UnfinishedAlways(s) == TRUE
\* MUTANT: no known job is analyzed again.
UnfinishedNever(s) == FALSE

Unfinished(s) == s = "DISCOVERED"

Poll(c) ==
  /\ at[c] = "idle"
  /\ PreFilter(posting, aged)
  /\ \/ state = None /\ Proceed(c, "insert")
     \/ state # None /\ Unfinished(state) /\ Proceed(c, "analyze")
  /\ BeginIntake
  /\ UNCHANGED <<posting, jobVars, evidenceVars, frame, failures>>

\* insert_job(): the index on (provider, external_job_id) raises for the second.
Insert(c) ==
  /\ at[c] = "insert"
  /\ IF state = None THEN state' = "DISCOVERED" /\ Proceed(c, "analyze") /\ UNCHANGED frame
     ELSE Return(c) /\ UNCHANGED state
  /\ UNCHANGED <<posting, sponsorship, decided, evidenceVars, history>>

\* get_or_compute_profile(): what is cached is what was true when it was computed.
Profile == IF profile # None THEN profile ELSE EmployerProfile(filings, year)

\* decide_sponsorship() and get_latest_decision().
DecideNow(c) ==
  /\ frame' = [frame EXCEPT ![c].verdict = DecideSponsorship(posting, Profile),
                            ![c].first = ~decided]
  /\ profile' = IF ReadsProfile(posting) THEN Profile ELSE profile
  /\ Proceed(c, "decide")

\* Not a target role; or a decision on its sponsorship.
Analyze(c) ==
  /\ at[c] = "analyze"
  /\ \/ ~IsTargetRole(posting) /\ state' = "SKIPPED" /\ Return(c) /\ UNCHANGED profile
     \/ IsTargetRole(posting) /\ DecideNow(c) /\ UNCHANGED state
  /\ UNCHANGED <<posting, sponsorship, decided, filings, year, aged, importing, history>>

\* The INSERT of a decision; two first ones collide in (job_id, decision_version).
Decide(c) ==
  /\ at[c] = "decide"
  /\ IF frame[c].first /\ decided THEN Return(c) /\ UNCHANGED decided
     ELSE /\ decided' = TRUE
          /\ Proceed(c, IF c \in Pollers THEN "write analysis" ELSE "refresh") /\ UNCHANGED frame
  /\ UNCHANGED <<posting, state, sponsorship, evidenceVars, history>>

\* The gates of analyze_job().
WriteAnalysis(c) ==
  /\ at[c] = "write analysis"
  /\ sponsorship' = frame[c].verdict
  /\ state' = IF frame[c].verdict # "NO_SPONSORSHIP" /\ Gates(posting)
              THEN "ANALYZED" ELSE "SKIPPED"
  /\ Proceed(c, "reread")
  /\ UNCHANGED <<posting, decided, evidenceVars, frame, history>>

\* analyze_job() returns the row as it is now.
Reread(c) ==
  /\ at[c] = "reread"
  /\ IF state = "ANALYZED" /\ sponsorship # "UNKNOWN"
     THEN Proceed(c, "generate") /\ UNCHANGED frame
     ELSE Return(c)
  /\ UNCHANGED <<posting, jobVars, evidenceVars, history>>

\* generate_assist_outputs() reads it once more, and refuses or goes on with that.
Generate(c) ==
  /\ at[c] = "generate"
  /\ IF sponsorship \in EligibleSponsorship
     THEN Proceed(c, "write") /\ frame' = [frame EXCEPT ![c].verdict = sponsorship]
     ELSE Return(c)
  /\ UNCHANGED <<posting, jobVars, evidenceVars, history>>

FinalState(verdict) ==
  IF verdict = "LIKELY_SPONSOR" THEN "REVIEW_REQUIRED" ELSE "READY_TO_APPLY"

\* The documents, whose claims are checked, and the last _transition().
Write(c) ==
  /\ at[c] = "write"
  /\ state' \in {"CLAIM_VALIDATION_FAILED", FinalState(frame[c].verdict)}
  /\ Return(c)
  /\ UNCHANGED <<posting, sponsorship, decided, evidenceVars, history>>

-----------------------------------------------------------------------------
(* People: regenerate the package, refresh the sponsorship. *)

Regenerate(d) ==
  /\ at[d] = "idle" /\ state # None
  /\ Proceed(d, "generate")
  /\ BeginIntake
  /\ UNCHANGED <<posting, jobVars, evidenceVars, frame, failures>>

\* refresh_job_sponsorship(): a decision, and the sponsorship columns alone.
Refresh(d) ==
  /\ at[d] = "idle" /\ state # None
  /\ DecideNow(d)
  /\ BeginIntake
  /\ UNCHANGED <<posting, jobVars, filings, year, aged, importing, failures>>

WriteSponsorship(d) ==
  /\ at[d] = "refresh"
  /\ sponsorship' = frame[d].verdict
  /\ Return(d)
  /\ UNCHANGED <<posting, state, decided, evidenceVars, history>>

-----------------------------------------------------------------------------
(* Around them. *)

\* The command of an import: its rows first, then the profile of every company they
\* name.  Filings and years concern a posting whose decision reads the profile.
Import ==
  /\ ReadsProfile(posting) /\ ~importing /\ filings # filings \cup NewFilings
  /\ filings' = filings \cup NewFilings
  /\ importing' = TRUE
  /\ UNCHANGED <<posting, jobVars, profile, year, aged, callVars, history>>

Recompute ==
  /\ importing
  /\ profile' = EmployerProfile(filings, year)
  /\ importing' = FALSE
  /\ UNCHANGED <<posting, jobVars, filings, year, aged, callVars, history>>

\* The command dies in between.
AbandonImport ==
  /\ importing /\ failures < MaxFailures
  /\ importing' = FALSE
  /\ failures' = failures + 1
  /\ UNCHANGED <<posting, jobVars, filings, profile, year, aged, callVars, overlapped>>

NewYear ==
  /\ ReadsProfile(posting) /\ year < LastYear
  /\ year' = year + 1
  /\ UNCHANGED <<posting, jobVars, filings, profile, aged, importing, callVars, history>>

Age ==
  /\ posting.dated /\ ~aged
  /\ aged' = TRUE
  /\ UNCHANGED <<posting, jobVars, filings, profile, year, importing, callVars, history>>

\* The tracker board, whatever else is going on; APPLIED stands for what
\* SubmissionPipeline makes of a job, too.
ManualTargets(s) ==
  CASE s = "READY_TO_APPLY" -> {"APPLIED", "SKIPPED"}
    [] s = "REVIEW_REQUIRED" -> {"READY_TO_APPLY", "APPLIED", "SKIPPED"}
    [] s \in {"ANALYZED", "CLAIM_VALIDATION_FAILED"} -> {"SKIPPED"}
    [] OTHER -> {}

UpdateState ==
  /\ state' \in ManualTargets(state)
  /\ UNCHANGED <<posting, sponsorship, decided, evidenceVars, callVars, history>>

\* An exception, which the caller logs and forgets, or the end of the process.
Fail(c) ==
  /\ at[c] # "idle" /\ failures < MaxFailures
  /\ failures' = failures + 1
  /\ Return(c)
  /\ UNCHANGED <<posting, jobVars, evidenceVars, overlapped>>

-----------------------------------------------------------------------------
PreparationInit ==
  /\ state = None /\ sponsorship = "UNKNOWN" /\ decided = FALSE
  /\ posting \in Postings /\ filings \in OldFilings
  /\ profile = None /\ year = FirstYear /\ aged = FALSE /\ importing = FALSE
  /\ at = [c \in Callers |-> "idle"] /\ frame = [c \in Callers |-> NoFrame]
  /\ overlapped = FALSE /\ failures = 0

PollerStep(c) ==
  \/ Insert(c) \/ Analyze(c) \/ Decide(c) \/ WriteAnalysis(c) \/ Reread(c)
  \/ Generate(c) \/ Write(c)
DeskStep(d) == Decide(d) \/ WriteSponsorship(d) \/ Generate(d) \/ Write(d)

PreparationNext ==
  \/ \E c \in Pollers : Poll(c) \/ PollerStep(c)
  \/ \E d \in Desks : Regenerate(d) \/ Refresh(d) \/ DeskStep(d)
  \/ \E c \in Callers : Fail(c)
  \/ Import \/ Recompute \/ AbandonImport \/ NewYear \/ Age \/ UpdateState

PreparationSpec == PreparationInit /\ [][PreparationNext]_preparationVars

\* Whoever has begun goes on, and the posting stays on its board and is polled again.
FairPreparation ==
  /\ PreparationSpec
  /\ \A c \in Pollers : WF_preparationVars(Poll(c)) /\ WF_preparationVars(PollerStep(c))
  /\ \A d \in Desks : WF_preparationVars(DeskStep(d))

-----------------------------------------------------------------------------
(* Properties. *)

\* Every variable keeps its type.
PreparationTypeOK ==
  /\ state \in ApplicationState \cup {None}
  /\ sponsorship \in SponsorshipStatus
  /\ decided \in BOOLEAN /\ importing \in BOOLEAN
  /\ posting \in Postings /\ year \in FirstYear..LastYear /\ aged \in BOOLEAN
  /\ at \in [Callers -> {"idle"} \cup Steps]
  /\ frame \in [Callers -> Frames]
  /\ overlapped \in BOOLEAN /\ failures \in 0..MaxFailures

\* A person says READY_TO_APPLY of a job that was up for review.
MovedByHand == state = "REVIEW_REQUIRED" /\ at' = at

\* Documents are made on evidence.  A job becomes READY_TO_APPLY only if its posting
\* promises and nowhere refuses, and REVIEW_REQUIRED, or READY_TO_APPLY by a person's
\* move from there, only if it does not just refuse, whoever overlaps and whatever is
\* imported.  With no overlap since all were idle, a call packages only while the row says
\* CONFIRMED_SPONSOR and LIKELY_SPONSOR, and, unless a person had it made,
\* only if the executor's own gates will admit the job; these read employment words
\* more strictly than discovery does.
PackagedOnEvidence ==
  [][state' # state /\ state' \in {"READY_TO_APPLY", "REVIEW_REQUIRED"} =>
       /\ state' = "READY_TO_APPLY" /\ ~MovedByHand => Promises(posting) /\ ~Refuses(posting)
       /\ Promises(posting) \/ ~Refuses(posting)
       /\ ~overlapped' /\ ~MovedByHand =>
            /\ sponsorship =
                 IF state' = "READY_TO_APPLY" THEN "CONFIRMED_SPONSOR" ELSE "LIKELY_SPONSOR"
            /\ \/ ExecutorAdmits(posting, sponsorship)
               \/ EmploymentType(posting) \notin {"FULL_TIME", "UNKNOWN"}
               \/ \E d \in Desks : at[d] = "write"]_preparationVars

\* A job that went on to an application is left alone by discovery, unless the last
\* call to begin met another at work on its row; a person may regenerate it.
AppliedKept ==
  [][state = "APPLIED" /\ state' # state =>
       overlapped \/ \E d \in Desks : at[d] = "write"]_preparationVars

\* The same of calls that overlap: not so in this code.  A poller that found the row
\* unfinished writes its analysis over the application (_process_raw_job()).
AppliedAlwaysKept ==
  [][state = "APPLIED" /\ state' # state => \E d \in Desks : at[d] = "write"]_preparationVars

\* A job is put up for review by the sponsorship that is on its row then: not so in this
\* code, which decides by the row as it was read before the documents were made, while
\* another call refreshes it (generate_assist_outputs()).
ReviewedOnTheRow ==
  [][state' = "REVIEW_REQUIRED" /\ state' # state => sponsorship = "LIKELY_SPONSOR"]_preparationVars

\* A posting that was stored is analyzed in the end, whoever died in between, unless
\* it grew older than the cutoff of discovery first.
DiscoveredIsAnalyzed == state = "DISCOVERED" ~> state # "DISCOVERED" \/ aged

\* The same without the exception.  An analysis that failed is not taken up again once
\* the filter of _process_raw_job() refuses the posting for its age.
AlwaysAnalyzed == state = "DISCOVERED" ~> state # "DISCOVERED"

\* A silent posting is called likely for what its employer filed lately.  The cached
\* profile is made again by imports only, so it outlives the years it was made of.
LikelyOnRecentFilings ==
  [][\A c \in Callers :
       /\ at[c] # "decide" /\ at'[c] = "decide"
       /\ Classify(posting) = "UNKNOWN" /\ frame'[c].verdict = "LIKELY_SPONSOR"
       => EmployerProfile(filings, year).strength = "STRONG_RECENT"]_preparationVars

\* An eligible job that was analyzed gets its package.
AnalyzedIsPackaged ==
  state = "ANALYZED" /\ sponsorship \in EligibleSponsorship ~>
    state # "ANALYZED" \/ sponsorship \notin EligibleSponsorship
=============================================================================
