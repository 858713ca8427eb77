------------------------ MODULE MCApplicationApproval ------------------------
(* Two tabs and a worker over one row.  The canonical fields are those of    *)
(* FIELD_ALIASES that differ in how they may be matched and answered; the    *)
(* candidate's second profile answers the work authorization as the form of  *)
(* the choice wants it, the first does not.                                  *)
EXTENDS ApplicationApproval, TLC

CONSTANTS c1, c2, cv1, cv2, none

MCFieldOrder == <<"email", "resume_file", "work_authorization_status", "gender">>

MCCategoryOf ==
  "email" :> "CONTACT" @@ "resume_file" :> "FILE_UPLOAD" @@
  "work_authorization_status" :> "WORK_AUTHORIZATION" @@ "gender" :> "DEMOGRAPHICS"

MCAliases ==
  "email" :> {{"email"}, {"email", "address"}} @@ "resume_file" :> {{"resume"}} @@
  "work_authorization_status" :> {{"work", "authorization"}} @@ "gender" :> {{"gender"}}

MCDeclining == {"Decline"}

MCFold == "Yes" :> "yes" @@ "YES" :> "yes" @@ "No" :> "no" @@ "OPT" :> "opt" @@
          "a@b" :> "a@b" @@ "Male" :> "male" @@ "Decline" :> "decline"

Person(authorization) ==
  [f \in {"email", "resume_file", "work_authorization_status", "gender"} |->
     IF f = "email" THEN "a@b"
     ELSE IF f = "work_authorization_status" THEN authorization ELSE none]

MCProfileAt == <<Person("OPT"), Person("Yes")>>

Question(label, name, input, required, choices) ==
  [label |-> label, name |-> name, input |-> input, required |-> required, choices |-> choices]

Email == Question({"email"}, {}, "text", TRUE, {})
Upload == Question({"your", "cv"}, {"resume"}, "file", TRUE, {})
Gender == Question({"gender"}, {}, "select", FALSE, {"Male", "Decline"})
Authorization(label) == Question(label, {}, "select", TRUE, {"Yes", "No"})

\* A form that also asks for another's gender and address in labels no alias knows;
\* one whose choice question only the second profile answers, under a label that
\* the alias is a part of; and the first one behind a captcha.
Plain ==
  [questions |->
     {Email, Upload, Gender,
      [Gender EXCEPT !.label = {"gender", "of", "parent"}],
      [Email EXCEPT !.label = {"email", "of", "your", "manager"}, !.required = FALSE]},
   challenge |-> FALSE]
Choice ==
  [questions |-> {Email, Authorization({"work", "authorization", "status"})},
   challenge |-> FALSE]

MCForms == {Plain, Choice, [Plain EXCEPT !.challenge = TRUE]}

MCEvidence == {[label |-> {"work", "authorization", "status"}, value |-> "Yes"]}

MCPostings ==
  {[jd |-> 1, sponsorship |-> "CONFIRMED_SPONSOR"], [jd |-> 2, sponsorship |-> "LIKELY_SPONSOR"],
   [jd |-> 1, sponsorship |-> "NO_SPONSORSHIP"]}

TabsAndFiles == Permutations({c1, c2}) \cup Permutations({cv1, cv2})
=============================================================================
