----------------------------- MODULE FormFilling -----------------------------
(***************************************************************************)
(* What the program makes of the questions of an application form: which   *)
(* canonical field a question asks for (applications/mapping.py), what the *)
(* candidate's profile answers to it (schema.py), the draft a provider     *)
(* adapter fills (mock_ats.py, providers_greenhouse.py), what validation   *)
(* says of the draft, and what the pre-submit manifest reports about the   *)
(* form (form_model.py, presubmit_manifest.py).  Every operator is pure.   *)
(*                                                                         *)
(* A label is the set of its normalised words, a value is a model value.   *)
(* A question is a record                                                  *)
(*   [label, name : words, input : "text" | "select" | "file",             *)
(*    required : BOOLEAN, choices : set of values]                         *)
(* and a form a record [questions, challenge], where challenge says that   *)
(* it shows a captcha, a login, MFA or another wall.                       *)
(***************************************************************************)
EXTENDS Integers, Sequences, FiniteSetsExt

CONSTANTS
  FieldOrder,     \* the canonical fields, in the order of FIELD_ALIASES
  CategoryOf,     \* their categories
  Aliases,        \* the labels each of them is known by, each a set of words
  Declining,      \* the choices that decline to answer
  Fold,           \* a value stripped and in lower case
  None            \* no field, no value, no form

Fields == Range(FieldOrder)

ASSUME FormAssumption ==
  /\ FieldOrder \in Seq(Fields)
  /\ \A f \in Fields : {} \notin Aliases[f]
  /\ None \notin Fields \cup Declining

Sensitive == {"DEMOGRAPHICS", "VOLUNTARY_DISCLOSURE", "LEGAL_ATTESTATION", "SIGNATURE"}

\* Fields that only an exact alias may ever match.
Strict == {f \in Fields : CategoryOf[f] \in Sensitive \cup {"CONSENT"}}

-----------------------------------------------------------------------------
(* mapping.py: which field a question asks for.                            *)

\* _ALIAS_INDEX: of two fields with one alias the later one owns it.
AliasIndex(words) ==
  LET owners == {i \in DOMAIN FieldOrder : words \in Aliases[FieldOrder[i]]}
  IN IF owners = {} THEN None ELSE FieldOrder[Max(owners)]

\* MUTANT: the fallback reaches the strict fields too.
TokenOverlapOfAny(label) ==
  LET hits == {h \in (DOMAIN FieldOrder) \X UNION {Aliases[f] : f \in Fields} :
                 h[2] \in Aliases[FieldOrder[h[1]]] /\ h[2] \subseteq label}
      score == Max({Cardinality(h[2]) : h \in hits})
  IN IF hits = {} THEN None
     ELSE FieldOrder[Min({h[1] : h \in {g \in hits : Cardinality(g[2]) = score}})]

\* The fallback: the field with the longest alias whose words all occur in the
\* label, the first such field on a tie.
TokenOverlapCandidate(label) ==
  LET hits == {h \in (DOMAIN FieldOrder) \X UNION {Aliases[f] : f \in Fields} :
                 /\ FieldOrder[h[1]] \notin Strict
                 /\ h[2] \in Aliases[FieldOrder[h[1]]] /\ h[2] \subseteq label}
      score == Max({Cardinality(h[2]) : h \in hits})
  IN IF hits = {} THEN None
     ELSE FieldOrder[Min({h[1] : h \in {g \in hits : Cardinality(g[2]) = score}})]

MatchField(q) ==
  IF AliasIndex(q.label) # None
  THEN [field |-> AliasIndex(q.label), confidence |-> "EXACT"]
  ELSE IF q.name # {} /\ AliasIndex(q.name) # None
  THEN [field |-> AliasIndex(q.name), confidence |-> "HIGH"]
  ELSE IF TokenOverlapCandidate(q.label) # None
  THEN [field |-> TokenOverlapCandidate(q.label), confidence |-> "MEDIUM"]
  ELSE [field |-> None, confidence |-> "LOW"]

-----------------------------------------------------------------------------
(* schema.py: what the profile answers.                                    *)

\* build_application_fields(): legal attestations and signatures have no place
\* in the profile and are never answered; the resume is the generated file.
\* (A field of two entries, a name or a location, is unanswered unless both
\* are there: the profile given here says what comes of them.)
ApplicationFields(profile, resume) ==
  [f \in Fields |->
     IF CategoryOf[f] \in {"LEGAL_ATTESTATION", "SIGNATURE"} THEN None
     ELSE IF f = "resume_file" THEN resume
     ELSE profile[f]]

\* repo.snapshot_answers(): answers_version is how many fields have an answer.
AnswersVersion(answers) == Cardinality({f \in Fields : answers[f] # None})

\* What a question resolves to: the answer, where it comes from and how sure the
\* match is.  evidence: the answers a human gave to this very question in the
\* live browser and that are not stale, as records [label, value].
Resolved(q, answers) ==
  LET m == MatchField(q) IN
  [category |-> IF m.field = None THEN "" ELSE CategoryOf[m.field],
   value |-> IF m.field = None THEN None ELSE answers[m.field],
   confidence |-> m.confidence, verified |-> FALSE]

\* match_field_with_application_fields(): evidence answers the question of its
\* exact label, unless an alias of a field that is not sensitive is exact.
ResolvedWith(q, answers, evidence) ==
  LET alias == AliasIndex(q.label)
      given == {v \in evidence : v.label = q.label}
  IN IF given # {} /\ (alias = None \/ CategoryOf[alias] \in Sensitive)
     THEN [category |-> "CUSTOM_TEXT", value |-> (CHOOSE v \in given : TRUE).value,
           confidence |-> "EXACT", verified |-> TRUE]
     ELSE Resolved(q, answers)

-----------------------------------------------------------------------------
(* fill_draft() and validate() of the two adapters that read a form.       *)

\* A demographic question without an answer is declined where the form lets one;
\* an answer that is not one of the offered choices is never forced into one.
FillValue(q, r) ==
  IF r.value = None
  THEN IF r.category = "DEMOGRAPHICS" /\ q.choices \cap Declining # {}
       THEN CHOOSE c \in q.choices \cap Declining : TRUE ELSE None
  ELSE IF q.input # "file" /\ q.choices # {} /\ r.value \notin q.choices
  THEN None
  ELSE r.value

\* The mock ATS maps without evidence, Greenhouse with it.
ResolvedBy(provider, q, answers, evidence) ==
  IF provider = "mock_ats" THEN Resolved(q, answers) ELSE ResolvedWith(q, answers, evidence)

FillDraft(provider, form, answers, evidence) ==
  [q \in form.questions |-> FillValue(q, ResolvedBy(provider, q, answers, evidence))]

Unresolved(form, draft) == {q \in form.questions : q.required /\ draft[q] = None}

\* Without a form the mock ATS refuses and Greenhouse has nothing to object to.
ValidationOk(provider, form, draft) ==
  IF form = None THEN provider # "mock_ats"
  ELSE /\ Unresolved(form, draft) = {}
       /\ provider = "mock_ats" => ~form.challenge

\* Only the mock ATS has a tested interface to submit through.
SubmissionSupported(provider) == provider = "mock_ats"

\* The fingerprint covers the questions and nothing else of the form.
Fingerprint(form) == IF form = None THEN None ELSE form.questions

-----------------------------------------------------------------------------
(* form_model.py and presubmit_manifest.py: what the manifest reports.     *)

\* MUTANT: the offered choices are not looked at.
SafeAnswerOfAnyChoice(q, r) ==
  /\ r.value # None /\ r.confidence # "LOW"
  /\ r.category \in Sensitive => r.verified

\* _normalize_one(): safe_answer_available, in whatever case the choice is written.
SafeAnswer(q, r) ==
  /\ r.value # None /\ r.confidence # "LOW"
  /\ r.category \in Sensitive => r.verified
  /\ q.choices # {} /\ q.input # "file" => \E c \in q.choices : Fold[c] = Fold[r.value]

\* NormalizedForm.unanswered_required(); high_risk_pending is a part of it.
UnansweredRequired(form, answers, evidence) ==
  {q \in form.questions : q.required /\ ~SafeAnswer(q, ResolvedWith(q, answers, evidence))}
=============================================================================
