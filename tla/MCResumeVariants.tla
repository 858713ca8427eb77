-------------------------- MODULE MCResumeVariants --------------------------
(* One pass, one request and two versions of the profile.                    *)
EXTENDS ResumeVariants
=============================================================================
