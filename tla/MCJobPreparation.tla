-------------------------- MODULE MCJobPreparation --------------------------
(* Two pollers and one person around one posting, which differs from a plain *)
(* one in one respect.  Sentences are named after what they say; "we do not  *)
(* provide visa sponsorship" and "limited sponsorship is available" match    *)
(* the patterns of a promise as well.                                        *)
EXTENDS JobPreparation

MCRefusing == {"unable to sponsor", "do not provide visa sponsorship"}
MCPromising ==
  {"visa sponsorship available", "do not provide visa sponsorship", "limited sponsorship is available"}
MCConditional == {"case by case", "limited sponsorship is available"}
MCEmploymentWords ==
  [w \in {"full-time", "contract", "contractor", "freelance"} |->
     CASE w = "full-time" -> "FULL_TIME" [] w = "freelance" -> "FREELANCE" [] OTHER -> "CONTRACT"]

Plain ==
  [title |-> {"backend", "engineer"}, sentences |-> {}, field |-> {"full-time"}, text |-> {},
   page |-> None, human |-> None, abroad |-> FALSE, dated |-> FALSE, years |-> <<3>>,
   pay |-> 120, skills |-> {"python", "go"}, known |-> FALSE, alias |-> FALSE, namesakes |-> 0]
Promising1 == [Plain EXCEPT !.sentences = {"visa sponsorship available"}]

\* What the employer of a silent posting filed: two years, three filings of late.
Filing(y, words) == [year |-> y, title |-> words, code |-> TRUE]
MCOldFilings == {{}, {Filing(3, {"software", "developer"})}}
MCNewFilings ==
  {Filing(4, {"software", "developer"}), Filing(4, {"accountant"}), Filing(5, {"data", "analyst"})}

MCPostings ==
  {[Plain EXCEPT !.namesakes = 1], [Plain EXCEPT !.namesakes = 2, !.known = TRUE]}
  \cup {[Plain EXCEPT !.sentences = {s}, !.dated = (s = "visa sponsorship available")] :
          s \in MCRefusing \cup MCPromising \cup MCConditional}
  \cup {[Plain EXCEPT !.sentences = {"unable to sponsor", "visa sponsorship available"}],
        [Promising1 EXCEPT !.title = {"accountant"}],
        [Promising1 EXCEPT !.title = {"staff", "engineer"}, !.years = <<6>>],
        [Promising1 EXCEPT !.years = <<7, 3>>],
        [Promising1 EXCEPT !.pay = 79],
        [Promising1 EXCEPT !.skills = {"go", "rust", "perl", "cobol", "ada"}],
        [Promising1 EXCEPT !.text = {"contractor"}],
        [Promising1 EXCEPT !.field = {"contract"}],
        [Promising1 EXCEPT !.abroad = TRUE]}

\* A posting whose only sentence turns sponsorship down is skipped.  Its words may match
\* the pattern of a promise too, and then it is up for review.
RefusalIsSkipped ==
  [][posting.sentences = {"do not provide visa sponsorship"} => state' # "REVIEW_REQUIRED"]_preparationVars
=============================================================================
