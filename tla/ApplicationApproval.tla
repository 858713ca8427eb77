------------------------- MODULE ApplicationApproval -------------------------
(***************************************************************************)
(* What an approval covers and what is then sent: one execution of one     *)
(* application, prepared by a worker or by Retry Preparation, approved by  *)
(* APPROVE & APPLY from any number of tabs (applications/approval.py), and *)
(* run by process_execution() (executor.py), while the candidate edits the *)
(* profile, the posting is analysed anew, the resume file is generated     *)
(* again and the provider changes its form.                                *)
(*                                                                         *)
(* SubmissionPipeline has the control of all this with many executions and *)
(* leases, and leaves open what a gate answers; here there is one row in   *)
(* ASSIST mode, two runs of it do not overlap, and the gates compare data: *)
(* the row, the posting, the profile, the file and the form are read where *)
(* the code reads them.  Profiles and files are versions, a posting is a   *)
(* record [jd, sponsorship], a form the record of FormFilling.             *)
(***************************************************************************)
EXTENDS FormFilling

CONSTANTS
  Clicks,         \* dashboard requests
  Workers,        \* application workers
  ProfileAt,      \* the answers of each version of the candidate's profile
  Postings,       \* what the analysis of the posting may come to
  Files,          \* contents of the resume file
  Forms,          \* the forms the provider may show
  Evidence,       \* answers [label, value] a human may give in the live browser
  Providers,      \* adapters the job may belong to
  ProfileReverts, \* may an edit of the profile be taken back?
  MaxEdits,       \* bound on what changes in the world
  MaxApprovals,   \* bound on approvals of the one execution
  MaxAttempts,    \* APPLICATION_SUBMIT_RETRY_MAX_ATTEMPTS
  MaxFaults       \* bound on crashes

Procs == Clicks \cup Workers
Profiles == DOMAIN ProfileAt

ASSUME ApprovalAssumption ==
  /\ Clicks \cap Workers = {}
  /\ 1 \in Profiles /\ Profiles \subseteq Nat
  /\ Postings \subseteq
       [jd : Nat, sponsorship : {"CONFIRMED_SPONSOR", "LIKELY_SPONSOR", "NO_SPONSORSHIP"}]
  /\ None \notin Files /\ None \notin Forms
  /\ \A f \in Forms : \A q \in f.questions : IsFiniteSet(q.label)
  /\ Providers \subseteq {"mock_ats", "greenhouse"}
  /\ ProfileReverts \in BOOLEAN
  /\ {MaxEdits, MaxApprovals, MaxAttempts, MaxFaults} \subseteq Nat

VARIABLES
  provider,     \* the adapter of the job
  profile,      \* the version of the candidate's profile on disk
  posting,      \* the job row: description, sponsorship
  file,         \* the content of the job's resume file, or None
  form,         \* the form the provider shows, or None
  evidence,     \* browser_verified_field_evidence, the latest row of each label
  row,          \* the execution: status, resume_artifact_hash, answers_version, form_fingerprint
  baseline,     \* application_form_baselines of the posting
  approvals,    \* application_approvals of the execution, oldest first
  attempts,     \* attempt_count
  pc, frame,    \* where each process is, and its local variables
  sent,         \* what provider.submit() was called with
  ready,        \* did the row become SUBMISSION_READY since the last approval?
  edits, faults \* changes of the world and crashes so far

world == <<provider, profile, posting, file, form, evidence, edits>>
vars == <<world, row, baseline, approvals, attempts, pc, frame, sent, ready, faults>>

Ended == {"PERMANENT_SUBMISSION_FAILURE", "JOB_NO_LONGER_ACTIVE",
          "DUPLICATE_APPLICATION_BLOCKED", "APPLIED"}
Claimable ==
  {"QUEUED", "STARTED", "FORM_DISCOVERED", "FORM_FILLED", "SUBMITTING",
   "RETRYABLE_SUBMISSION_FAILURE"}
Statuses == Ended \cup Claimable \cup
  {"VALIDATION_REQUIRED", "NEEDS_USER_ACTION", "SUBMISSION_READY", "APPROVED",
   "SUBMISSION_STATUS_UNKNOWN"}

InRun(p) == pc[p] \in {"record", "begin", "verify", "discover", "fill", "gate", "submit"}
MayRun == \A p \in Procs : ~InRun(p)

Blank == [approved |-> FALSE, allow |-> TRUE, row |-> None, posting |-> None, profile |-> 1,
          digest |-> None, form |-> None, draft |-> <<>>]

Goto(p, step, f) ==
  /\ pc' = [pc EXCEPT ![p] = step]
  /\ frame' = [frame EXCEPT ![p] = f]

\* A write of the row in the middle of a run ...
Go(p, r, step, f) ==
  /\ row' = r
  /\ Goto(p, step, f)
  /\ UNCHANGED <<world, approvals, ready, faults>>

\* ... and one that ends it.
Rest(p, r) ==
  /\ row' = r
  /\ Goto(p, "idle", Blank)
  /\ ready' = (ready \/ r.status = "SUBMISSION_READY")
  /\ UNCHANGED <<world, approvals, faults>>

\* A step that writes nothing.
Step(p, step, f) ==
  /\ Goto(p, step, f)
  /\ UNCHANGED <<world, row, baseline, approvals, attempts, sent, ready, faults>>

With(status) == [row EXCEPT !.status = status]

-----------------------------------------------------------------------------
(* The ways into process_execution().                                      *)

\* A worker claims the row; after a retryable failure it runs it as approved.
Claim(w) ==
  /\ pc[w] = "idle" /\ MayRun
  /\ row.status \in Claimable
  /\ \E draining \in BOOLEAN :
       Step(w, "begin", [Blank EXCEPT !.approved = row.status = "RETRYABLE_SUBMISSION_FAILURE",
                                      !.allow = ~draining])

\* Retry Preparation runs any active execution, never as approved.
Retry(c) ==
  /\ pc[c] = "idle" /\ MayRun
  /\ row.status \notin Ended
  /\ Step(c, "begin", Blank)

\* approve_and_apply() reads the job and the execution ...
OpenReady(c) ==
  /\ pc[c] = "idle"
  /\ row.status = "SUBMISSION_READY"
  /\ Step(c, "claim", [Blank EXCEPT !.approved = TRUE, !.row = row, !.posting = posting])

\* MUTANT: the status is trusted as it was read.
ClaimReadyAsRead(c) ==
  /\ pc[c] = "claim" /\ MayRun
  /\ row' = With("STARTED")
  /\ Goto(c, "record", frame[c])
  /\ UNCHANGED <<world, baseline, approvals, attempts, sent, ready, faults>>

\* ... claims the row with an atomic SUBMISSION_READY -> STARTED ...
ClaimReady(c) ==
  /\ pc[c] = "claim" /\ MayRun
  /\ IF row.status = "SUBMISSION_READY"
     THEN row' = With("STARTED") /\ Goto(c, "record", frame[c])
     ELSE Goto(c, "idle", Blank) /\ UNCHANGED row
  /\ UNCHANGED <<world, baseline, approvals, attempts, sent, ready, faults>>

\* ... and records what is being approved: the job and the row as they were read
\* before the claim, the profile as it is now.
RecordApproval(c) ==
  /\ pc[c] = "record"
  /\ Len(approvals) < MaxApprovals
  /\ approvals' = Append(approvals,
       [posting |-> frame[c].posting, hash |-> frame[c].row.hash,
        answers |-> frame[c].row.answers, form |-> frame[c].row.form,
        profile |-> profile, supported |-> SubmissionSupported(provider)])
  /\ ready' = FALSE
  /\ Goto(c, "begin", [Blank EXCEPT !.approved = TRUE])
  /\ UNCHANGED <<world, row, baseline, attempts, sent, faults>>

-----------------------------------------------------------------------------
(* process_execution().                                                    *)

\* The row and the job are read; an ended or unknown execution is left alone, an
\* interrupted submission becomes unknown, any other row is STARTED.
Begin(p) ==
  /\ pc[p] = "begin"
  /\ UNCHANGED <<baseline, attempts, sent>>
  /\ CASE row.status \in Ended \cup {"SUBMISSION_STATUS_UNKNOWN"} -> Rest(p, row)
       [] row.status = "SUBMITTING" -> Rest(p, With("SUBMISSION_STATUS_UNKNOWN"))
       [] OTHER -> Go(p, With("STARTED"), "verify",
                      [frame[p] EXCEPT !.row = row, !.posting = posting])

\* Eligibility of the job as read, _verify_resume_artifact() against the hash as
\* read, load_profile().  A mismatch stops the run and is written over the hash.
VerifyResume(p) ==
  /\ pc[p] = "verify"
  /\ UNCHANGED <<baseline, attempts, sent>>
  /\ IF frame[p].posting.sponsorship = "NO_SPONSORSHIP"
     THEN Rest(p, With("PERMANENT_SUBMISSION_FAILURE"))
     ELSE IF file = None \/ (frame[p].row.hash # None /\ frame[p].row.hash # file)
     THEN Rest(p, [row EXCEPT !.status = "VALIDATION_REQUIRED", !.hash = file])
     ELSE Go(p, [row EXCEPT !.hash = IF frame[p].row.hash = None THEN file ELSE @],
             "discover", [frame[p] EXCEPT !.digest = file, !.profile = profile])

Answers(p) == ApplicationFields(ProfileAt[frame[p].profile], frame[p].digest)

\* snapshot_answers(), discover_form() and check_and_record_baseline(): a form that
\* is not the one first seen stops the run and leaves the baseline.
Discover(p) ==
  LET seen == [row EXCEPT !.status = "FORM_DISCOVERED", !.form = Fingerprint(form),
                          !.answers = AnswersVersion(Answers(p))]
  IN /\ pc[p] = "discover"
     /\ UNCHANGED <<attempts, sent>>
     /\ baseline' = IF baseline = None THEN Fingerprint(form) ELSE baseline
     /\ IF form # None /\ Fingerprint(form) # baseline'
        THEN Rest(p, [seen EXCEPT !.status = "NEEDS_USER_ACTION"])
        ELSE Go(p, seen, "fill", [frame[p] EXCEPT !.form = form])

\* build_application_field_overrides(): what is not stale for the job as read.
Current(p) == {v \in evidence : v.jd = frame[p].posting.jd}

\* map_fields(), fill_draft(), validate(), and a drained worker stopping here.
Fill(p) ==
  LET draft == IF frame[p].form = None THEN <<>>
               ELSE FillDraft(provider, frame[p].form, Answers(p), Current(p))
  IN /\ pc[p] = "fill"
     /\ UNCHANGED <<baseline, attempts, sent>>
     /\ IF ~ValidationOk(provider, frame[p].form, draft)
        THEN Rest(p, With("NEEDS_USER_ACTION"))
        ELSE IF ~frame[p].allow
        THEN Rest(p, With("SUBMISSION_READY"))
        ELSE Go(p, With("FORM_FILLED"), "gate", [frame[p] EXCEPT !.draft = draft])

\* MUTANT: the answers are compared by their number only.
IsCurrentValidByCount(a) ==
  /\ posting = a.posting
  /\ row.hash = None \/ a.hash = None \/ row.hash = a.hash
  /\ row.answers = a.answers /\ row.form = a.form
  /\ SubmissionSupported(provider) = a.supported

\* is_current_valid() of approval a: the job and the profile as they are now, and
\* what this run wrote to the row.
IsCurrentValid(a) ==
  /\ posting = a.posting
  /\ row.hash = None \/ a.hash = None \/ row.hash = a.hash
  /\ profile = a.profile
  /\ row.answers = a.answers /\ row.form = a.form
  /\ SubmissionSupported(provider) = a.supported

\* verify_durable_approval_for_submission() within _approved_submit_permitted().
ApprovedSubmitPermitted(p) ==
  /\ frame[p].approved
  /\ approvals # <<>> /\ IsCurrentValid(approvals[Len(approvals)])
  /\ SubmissionSupported(provider)

\* The job is read afresh; the posting may be gone, or no longer eligible; the
\* budget may be exhausted, or another application of the candidate found.
Gate(p) ==
  /\ pc[p] = "gate"
  /\ UNCHANGED <<baseline, sent>>
  /\ \/ Rest(p, With("JOB_NO_LONGER_ACTIVE")) /\ UNCHANGED attempts
     \/ /\ posting.sponsorship # "NO_SPONSORSHIP"
        /\ IF ApprovedSubmitPermitted(p)
           THEN \/ /\ \E status \in {"NEEDS_USER_ACTION", "DUPLICATE_APPLICATION_BLOCKED"} :
                        Rest(p, With(status))
                   /\ UNCHANGED attempts
                \/ /\ attempts' = attempts + 1
                   /\ Go(p, With("SUBMITTING"), "submit", [frame[p] EXCEPT !.posting = posting])
           ELSE /\ Rest(p, With(IF frame[p].approved THEN "APPROVED" ELSE "SUBMISSION_READY"))
                /\ UNCHANGED attempts

Sent(p) == Append(sent,
  [posting |-> frame[p].posting, profile |-> frame[p].profile, verified |-> frame[p].digest,
   file |-> file, form |-> frame[p].form, draft |-> frame[p].draft,
   approval |-> Len(approvals)])

\* provider.submit() and what its answer makes of the row.
Submit(p) ==
  /\ pc[p] = "submit"
  /\ sent' = Sent(p)
  /\ UNCHANGED <<baseline, attempts>>
  /\ \E status \in {"APPLIED", "SUBMISSION_STATUS_UNKNOWN",
                    "RETRYABLE_SUBMISSION_FAILURE", "PERMANENT_SUBMISSION_FAILURE"} :
       /\ status = "RETRYABLE_SUBMISSION_FAILURE" => attempts < MaxAttempts
       /\ Rest(p, With(status))

\* The process dies between two steps, or after the provider got the application.
\* (A row left SUBMITTED is a row left SUBMITTING to whoever reads it.)
Crash(p) ==
  /\ faults < MaxFaults
  /\ pc[p] # "idle"
  /\ Goto(p, "idle", Blank)
  /\ faults' = faults + 1
  /\ sent' \in IF pc[p] = "submit" THEN {sent, Sent(p)} ELSE {sent}
  /\ UNCHANGED <<world, row, baseline, approvals, attempts, ready>>

-----------------------------------------------------------------------------
(* The world outside.                                                      *)

Edit ==
  /\ edits < MaxEdits
  /\ edits' = edits + 1
  /\ UNCHANGED <<provider, row, baseline, approvals, attempts, pc, frame, sent, ready, faults>>

EditProfile(v) ==
  /\ Edit
  /\ IF ProfileReverts THEN v # profile ELSE v > profile
  /\ profile' = v
  /\ UNCHANGED <<posting, file, form, evidence>>

ReanalyzePosting(q) ==
  /\ Edit
  /\ posting' = q
  /\ UNCHANGED <<profile, file, form, evidence>>

ReplaceFile(f) ==
  /\ Edit
  /\ file' = f
  /\ UNCHANGED <<profile, posting, form, evidence>>

ChangeForm(f) ==
  /\ Edit
  /\ form' = f
  /\ UNCHANGED <<profile, posting, file, evidence>>

\* record_verified_custom_answer(), in a browser session of the execution.
RecordVerifiedAnswer(v) ==
  /\ Edit
  /\ provider # "mock_ats"
  /\ row.status \in {"APPROVED", "NEEDS_USER_ACTION"}
  /\ evidence' = {w \in evidence : w.label # v.label} \cup
                   {[label |-> v.label, value |-> v.value, jd |-> posting.jd]}
  /\ UNCHANGED <<profile, posting, file, form>>

-----------------------------------------------------------------------------
Init ==
  /\ provider \in Providers
  /\ profile = 1
  /\ posting \in {q \in Postings : q.jd = 1 /\ q.sponsorship # "NO_SPONSORSHIP"}
  /\ file \in Files
  /\ form \in Forms
  /\ evidence = {}
  /\ row = [status |-> "QUEUED", hash |-> None, answers |-> 0, form |-> None]
  /\ baseline = None
  /\ approvals = <<>>
  /\ attempts = 0
  /\ pc = [p \in Procs |-> "idle"]
  /\ frame = [p \in Procs |-> Blank]
  /\ sent = <<>>
  /\ ready = FALSE
  /\ edits = 0
  /\ faults = 0

Run(p) ==
  Begin(p) \/ VerifyResume(p) \/ Discover(p) \/ Fill(p) \/ Gate(p) \/ Submit(p)

World ==
  \/ \E v \in Profiles : EditProfile(v)
  \/ \E q \in Postings : ReanalyzePosting(q)
  \/ \E f \in Files \cup {None} : ReplaceFile(f)
  \/ \E f \in Forms \cup {None} : ChangeForm(f)
  \/ \E v \in Evidence : RecordVerifiedAnswer(v)

Next ==
  \/ \E p \in Procs : Run(p) \/ Crash(p)
  \/ \E w \in Workers : Claim(w)
  \/ \E c \in Clicks : Retry(c) \/ OpenReady(c) \/ ClaimReady(c) \/ RecordApproval(c)
  \/ World

Spec == Init /\ [][Next]_vars

-----------------------------------------------------------------------------
(* Properties.                                                             *)

TypeOK ==
  /\ profile \in Profiles /\ posting \in Postings
  /\ file \in Files \cup {None} /\ form \in Forms \cup {None}
  /\ row.status \in Statuses /\ row.hash \in Files \cup {None}
  /\ row.answers \in 0..Len(FieldOrder)
  /\ attempts \in 0..MaxAttempts
  /\ Len(approvals) <= MaxApprovals /\ Len(sent) <= MaxAttempts

\* Whatever the candidate, the analysis and the provider change while a run is
\* under way, what is sent is what its latest approval covers: the posting, the
\* profile, the form, and the resume as the run verified it.
SentAsApproved ==
  \A i \in DOMAIN sent :
    /\ sent[i].approval > 0
    /\ LET a == approvals[sent[i].approval] IN
       /\ sent[i].posting = a.posting
       /\ sent[i].profile = a.profile
       /\ Fingerprint(sent[i].form) = a.form
       /\ sent[i].verified = a.hash

\* However many tabs approve at once, and whoever runs the row in between, no
\* approval is recorded unless the row became ready for it after the one before.
OneApprovalPerReady == [][approvals' # approvals => ready]_vars

\* Nothing that is sent is guessed: a required question has an answer, the answer
\* is one of the offered choices, and a strict field answers, or is declined, only
\* where its own alias asks for it.
SentAnswered ==
  \A i \in DOMAIN sent : \A q \in sent[i].form.questions :
    LET m == MatchField(q)
        value == sent[i].draft[q]
    IN /\ q.required => value # None
       /\ value # None /\ q.choices # {} /\ q.input # "file" => value \in q.choices
       /\ value # None /\ m.field \in Strict => m.confidence \in {"EXACT", "HIGH"}

\* The manifest never promises what the pipeline then refuses: when it reports no
\* required question unanswered, the draft has an answer to each, but for one that
\* is an offered choice in another case, which the manifest overlooks.
ManifestHonest ==
  LET answers == ApplicationFields(ProfileAt[profile], file)
      known == {v \in evidence : v.jd = posting.jd}
      Value(q) == ResolvedBy(provider, q, answers, known).value
  IN form # None /\ UnansweredRequired(form, answers, known) = {} =>
       \A q \in Unresolved(form, FillDraft(provider, form, answers, known)) :
         \E c \in q.choices : Value(q) # None /\ Fold[c] = Fold[Value(q)]

\* A short alias does not answer a long label that merely contains it, as
\* _token_overlap_candidate() has it; the candidate's own address goes to who is
\* asked for another's all the same.
NoMinorClause ==
  \A i \in DOMAIN sent : \A q \in sent[i].form.questions :
    LET m == MatchField(q) IN
    sent[i].draft[q] # None /\ m.confidence = "MEDIUM" =>
      \E a \in Aliases[m.field] : a \subseteq q.label /\ 2 * Cardinality(a) >= Cardinality(q.label)
=============================================================================
