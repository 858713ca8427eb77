---------------------------- MODULE PostingPolicy ----------------------------
(***************************************************************************)
(* What the program makes of a posting's text: the filters before it is    *)
(* stored (agent/cycle.py), the gates of the analysis (matching/,          *)
(* pipeline.py), and the sponsorship it decides on (sponsorship/), from    *)
(* the posting itself first and, when that is silent, from what is on file *)
(* about the employer.  Every operator is pure.                            *)
(*                                                                         *)
(* A posting is a record                                                   *)
(*   [title : words, sentences : its sentences about sponsorship,          *)
(*    field, text : the employment words of a provider's field and of the  *)
(*      description, page, human : the employment types of its page and of *)
(*      a person who looked it up, abroad : BOOLEAN,                       *)
(*    dated : it says when it was published,                               *)
(*    years : the years of experience it names, first to last,             *)
(*    pay : the published maximum or None, skills : what it asks for,      *)
(*    known, alias : BOOLEAN, namesakes : companies of its employer's name]*)
(* and a filing a record [year, title : words, code : BOOLEAN], where code *)
(* says that its occupation code is a computer occupation.                 *)
(***************************************************************************)
EXTENDS Integers, FiniteSets, Sequences

LOCAL INSTANCE FiniteSetsExt
LOCAL INSTANCE Functions

CONSTANTS
  Refusing, Promising, Conditional,  \* the sentences each pattern list matches
  SoftwareWords,   \* _SOFTWARE_FAMILY_TOKENS
  RoleWords,       \* STEM_SIGNAL_TOKENS: every target role has one of them
  SeniorWords,     \* SENIOR_TITLE_TOKENS
  EmploymentWords, \* employment words, each with the type it is a signal of
  NotFullTime,     \* NON_FULL_TIME_SIGNALS
  Skills,          \* the candidate's
  MinMatchScore, MinSalary,
  None

MaxYears == 5    \* MAX_ACCEPTABLE_YEARS
SkipYears == 7   \* HARD_SKIP_YEARS

ASSUME PolicyAssumption ==
  /\ MinMatchScore \in 1..100 /\ MinSalary \in Nat
  /\ NotFullTime \subseteq DOMAIN EmploymentWords
  /\ None \notin {"CONFIRMED_SPONSOR", "LIKELY_SPONSOR", "NO_SPONSORSHIP", "UNKNOWN"}

SponsorshipStatus == {"UNKNOWN", "CONFIRMED_SPONSOR", "LIKELY_SPONSOR", "NO_SPONSORSHIP"}

-----------------------------------------------------------------------------
(* classifier.py: what the posting itself says.                            *)

Refuses(p) == p.sentences \cap Refusing # {}
Promises(p) == p.sentences \cap Promising # {}

\* classify_sponsorship_detailed(): both is a conflict, for a person to resolve.
Classify(p) ==
  CASE Refuses(p) /\ Promises(p) -> "LIKELY_SPONSOR"
    [] Refuses(p) /\ ~Promises(p) -> "NO_SPONSORSHIP"
    [] Promises(p) /\ ~Refuses(p) -> "CONFIRMED_SPONSOR"
    [] OTHER -> IF p.sentences \cap Conditional # {} \/ p.known THEN "LIKELY_SPONSOR" ELSE "UNKNOWN"

-----------------------------------------------------------------------------
(* profile.py, similarity.py, identity.py: what is on file.                *)

\* compute_employer_profile(): the filings of one employer, seen from a year.
EmployerProfile(filings, year) ==
  LET recent == {f \in filings : f.year \in year - 1..year}
      continuity == {f.year : f \in filings} \cap (year - 3..year)
      technical == \E f \in recent : f.code \/ f.title \cap {"software", "developer"} # {}
  IN [strength |->
        IF Cardinality(recent) >= 3 /\ Cardinality(continuity) >= 2 /\ technical
        THEN "STRONG_RECENT"
        ELSE IF \E f \in filings : f.year >= year - 2 THEN "SOME"
        ELSE IF filings # {} THEN "OLD" ELSE "NONE",
      titles |-> {f.title : f \in recent} \ {{}}]

Tiers == <<"NONE", "WEAK", "MODERATE", "STRONG">>

\* role_similarity(), as the rank of its tier.
RoleSimilarity(title, occupation) ==
  LET overlap == title \cap occupation
      software == title \cap SoftwareWords # {} /\ occupation \cap SoftwareWords # {}
  IN CASE occupation = {} -> 1
       [] title = occupation \/ (overlap # {} /\ title \subseteq occupation) -> 4
       [] OTHER -> IF software THEN IF Cardinality(overlap) >= 2 THEN 4 ELSE 3
                   ELSE IF overlap # {} THEN 2 ELSE 1

\* The best tier over the recent occupations.
RoleTier(title, profile) ==
  Tiers[Max({1} \cup {RoleSimilarity(title, o) : o \in profile.titles})]

\* resolve_company(): a verified alias, or the only company of that name.
Matched(p) == p.alias \/ p.namesakes = 1

\* MUTANT: a strong history confirms.
HistoricalUpgradeConfirms(p, profile) ==
  IF Matched(p) /\ profile.strength = "STRONG_RECENT" THEN "CONFIRMED_SPONSOR" ELSE "UNKNOWN"

\* _apply_historical_upgrade(): history makes a silent posting likely, at the most.
HistoricalUpgrade(p, profile) ==
  IF /\ Matched(p)
     /\ profile.strength = "STRONG_RECENT"
     /\ RoleTier(p.title, profile) \in {"MODERATE", "STRONG"}
  THEN "LIKELY_SPONSOR" ELSE "UNKNOWN"

\* Whether a decision on the posting reads the employer's profile.
ReadsProfile(p) == Matched(p) /\ Classify(p) \in {"UNKNOWN", "LIKELY_SPONSOR"}

\* decide_sponsorship()
DecideSponsorship(p, profile) ==
  IF Classify(p) = "UNKNOWN" THEN HistoricalUpgrade(p, profile) ELSE Classify(p)

-----------------------------------------------------------------------------
(* matching/: the gates.                                                   *)

\* The types a set of words is a signal of, the most severe first.
NegativeTypes ==
  <<"C2C", "INTERNSHIP", "TEMPORARY", "SEASONAL", "FREELANCE", "PART_TIME", "CONTRACT">>

\* _scan_signal(): in prose the bare word "contract" is no signal.
ScanSignal(words, prose) ==
  LET bare == IF prose THEN {"contract"} ELSE {}
      types == {EmploymentWords[w] : w \in (words \cap DOMAIN EmploymentWords) \ bare}
      negative == {i \in DOMAIN NegativeTypes : NegativeTypes[i] \in types}
  IN IF negative # {} THEN NegativeTypes[Min(negative)]
     ELSE IF "FULL_TIME" \in types THEN "FULL_TIME" ELSE None

\* resolve_employment_type_evidence(): any source's refusal wins, the text's first.
EmploymentType(p) ==
  LET votes == <<ScanSignal(p.title \cup p.text, TRUE), ScanSignal(p.field, FALSE), p.page, p.human>>
      negative == {i \in DOMAIN votes : votes[i] \notin {None, "FULL_TIME"}}
  IN IF negative # {} THEN votes[Min(negative)]
     ELSE IF "FULL_TIME" \in Range(votes) THEN "FULL_TIME" ELSE "UNKNOWN"

IsFullTime(p) == (p.field \cup p.text) \cap NotFullTime = {}
IsUsLocation(p) == ~p.abroad
IsTargetRole(p) == p.title \cap RoleWords # {}

\* evaluate_seniority(): the first figure counts.
SeniorityOk(p) ==
  LET stated == p.years # <<>> IN
  /\ stated => Head(p.years) < SkipYears
  /\ p.title \cap SeniorWords # {} => stated /\ Head(p.years) <= MaxYears

CompensationOk(p) == p.pay # None => p.pay >= MinSalary

\* match_candidate_skills(): a posting that asks for nothing scores nothing.
ScoreOk(p) ==
  100 * Cardinality(p.skills \cap Skills) >= MinMatchScore * Cardinality(p.skills)
    /\ p.skills # {}

\* _pre_filter_reason(): what discovery does not even look up; aged says that
\* FRESHNESS_MAX_DAYS have passed.
PreFilter(p, aged) == IsFullTime(p) /\ IsUsLocation(p) /\ ~(p.dated /\ aged)

\* The hard skips of analyze_job() beside the sponsorship and the role.
Gates(p) == SeniorityOk(p) /\ CompensationOk(p) /\ ScoreOk(p)

\* evaluate_executor_eligibility(), as far as the posting and its sponsorship go.
ExecutorAdmits(p, sponsorship) ==
  /\ EmploymentType(p) \in {"FULL_TIME", "UNKNOWN"}
  /\ IsUsLocation(p) /\ IsTargetRole(p) /\ Gates(p)
  /\ sponsorship \in {"CONFIRMED_SPONSOR", "LIKELY_SPONSOR"}
=============================================================================
