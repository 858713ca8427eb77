------------------------ MODULE ResumeVariantsProofs ------------------------
(***************************************************************************)
(* Proofs about ResumeVariants, for any number of callers, versions of the *)
(* profile, crashes and exceptions.                                        *)
(***************************************************************************)
EXTENDS ResumeVariants, TLAPS

\* What passed every check, when it was made.
Passed == {"READY", "STALE"}

\* The row a caller claimed is its own until it grades it; what a caller is about to
\* promote passed.
Claimed ==
  /\ \A m \in Makers : pc[m] \in {"claim", "make", "promote"} => frame[m].variant \in Profiles
  /\ \A m \in Makers : pc[m] = "make" => variant[frame[m].variant] = "GENERATING"
  /\ \A m, n \in Makers :
       pc[m] = "make" /\ pc[n] = "make" /\ frame[m].variant = frame[n].variant => m = n
  /\ \A m \in Makers : pc[m] = "promote" => variant[frame[m].variant] \in Passed

VariantInv == TypeOK /\ Claimed /\ OneCurrent /\ PromotedPassed

LEMMA NoFrameTyped == NoFrame \in Frames
BY DEF NoFrame, Frames

LEMMA InitHolds == Init => VariantInv
<1> SUFFICES ASSUME Init PROVE VariantInv
  OBVIOUS
<1>1. /\ eligible \in BOOLEAN /\ current \in [Profiles -> BOOLEAN]
      /\ \A p \in Profiles : ~current[p]
  BY DEF Init
<1>2. /\ variant \in [Profiles -> ResumeVariantStatus \cup {None}]
      /\ \A p \in Profiles : variant[p] = None
  BY DEF Init
<1>3. /\ pc \in [Makers -> {"idle"} \cup Steps] /\ frame \in [Makers -> Frames]
      /\ \A m \in Makers : pc[m] = "idle"
  BY NoFrameTyped DEF Init
<1>4. TypeOK
  BY <1>1, <1>2, <1>3, VariantsAssumption DEF Init, TypeOK
<1>5. Claimed
  BY <1>3 DEF Claimed
<1>6. OneCurrent
  BY <1>1, <1>2, VariantsAssumption DEF OneCurrent, Graded, ResumeVariantStatus
<1>7. PromotedPassed
  BY VariantsAssumption DEF Init, PromotedPassed
<1> QED BY <1>4, <1>5, <1>6, <1>7 DEF VariantInv

\* A step that leaves the rows and the job alone keeps what is said of them.
LEMMA RowsAlone ==
  ASSUME OneCurrent, PromotedPassed, UNCHANGED <<variantVars, resume, promoted>>
  PROVE  OneCurrent' /\ PromotedPassed'
BY DEF OneCurrent, PromotedPassed, variantVars

\* A caller that moves on, with a frame, while the rows stay.
LEMMA CallMoves ==
  ASSUME VariantInv, NEW m \in Makers, NEW step \in {"idle"} \cup Steps, NEW f \in Frames,
         pc' = [pc EXCEPT ![m] = step], frame' = [frame EXCEPT ![m] = f],
         UNCHANGED variantVars, step # "make",
         step \in {"claim", "promote"} => f.variant \in Profiles,
         step = "promote" => variant[f.variant] \in Passed
  PROVE  /\ Claimed'
         /\ pc' \in [Makers -> {"idle"} \cup Steps] /\ frame' \in [Makers -> Frames]
<1>1. pc' \in [Makers -> {"idle"} \cup Steps] /\ frame' \in [Makers -> Frames]
  BY DEF VariantInv, TypeOK
<1>2. /\ pc'[m] = step /\ frame'[m] = f
      /\ \A n \in Makers \ {m} : pc'[n] = pc[n] /\ frame'[n] = frame[n]
  BY DEF VariantInv, TypeOK
<1>3. Claimed'
  BY <1>2 DEF VariantInv, Claimed, variantVars
<1> QED BY <1>1, <1>3

\* Frames with one field replaced are frames.
LEMMA FrameTyped ==
  ASSUME TypeOK, NEW m \in Makers
  PROVE  /\ frame[m] \in Frames
         /\ \A b \in BOOLEAN : /\ [frame[m] EXCEPT !.promotes = b] \in Frames
         /\ \A p \in Profiles : /\ [frame[m] EXCEPT !.variant = p] \in Frames
                                /\ [frame[m] EXCEPT !.variant = p].variant = p
BY DEF TypeOK, Frames

LEMMA NextHolds == VariantInv /\ [Next]_vars => VariantInv'
<1> SUFFICES ASSUME VariantInv, [Next]_vars PROVE VariantInv'
  OBVIOUS
<1> USE VariantsAssumption
<1>t. TypeOK /\ Claimed /\ OneCurrent /\ PromotedPassed
  BY DEF VariantInv
<1>1. ASSUME NEW m \in Makers, Pick(m) PROVE VariantInv'
  <2>1. PICK b \in BOOLEAN : frame' = [frame EXCEPT ![m].promotes = b]
    BY <1>1 DEF Pick
  <2>2. frame' = [frame EXCEPT ![m] = [frame[m] EXCEPT !.promotes = b]]
    BY <2>1, <1>t DEF TypeOK
  <2>3. Claimed' /\ pc' \in [Makers -> {"idle"} \cup Steps] /\ frame' \in [Makers -> Frames]
    BY <1>1, <1>t, <2>2, FrameTyped, CallMoves DEF Pick, Goto, Steps
  <2>4. TypeOK'
    BY <1>1, <1>t, <2>3 DEF Pick, TypeOK, jobVars, variantVars, history
  <2> QED BY <1>1, <1>t, <2>3, <2>4, RowsAlone DEF Pick, VariantInv, jobVars
<1>2. ASSUME NEW m \in Makers, Ask(m) \/ Approve(m) PROVE VariantInv'
  <2>1. PICK step \in {"optimize", "fetch"} : pc' = [pc EXCEPT ![m] = step]
    BY <1>2 DEF Ask, Approve, Goto
  <2>2. frame' = [frame EXCEPT ![m] = frame[m]]
    BY <1>2, <1>t DEF Ask, Approve, TypeOK
  <2>3. Claimed' /\ pc' \in [Makers -> {"idle"} \cup Steps] /\ frame' \in [Makers -> Frames]
    BY <1>2, <1>t, <2>1, <2>2, FrameTyped, CallMoves DEF Ask, Approve, Steps
  <2>4. TypeOK'
    BY <1>2, <1>t, <2>3 DEF Ask, Approve, TypeOK, jobVars, variantVars, history
  <2> QED BY <1>2, <1>t, <2>3, <2>4, RowsAlone DEF Ask, Approve, VariantInv, jobVars
<1>3. ASSUME NEW m \in Makers, Optimize(m) PROVE VariantInv'
  <2>1. CASE Return(m)
    <3>1. Claimed' /\ pc' \in [Makers -> {"idle"} \cup Steps] /\ frame' \in [Makers -> Frames]
      BY <1>3, <1>t, <2>1, NoFrameTyped, CallMoves DEF Optimize, Return, Goto
    <3>2. TypeOK'
      BY <1>3, <1>t, <3>1 DEF Optimize, TypeOK, jobVars, variantVars, history
    <3> QED BY <1>3, <1>t, <3>1, <3>2, RowsAlone DEF Optimize, VariantInv, jobVars
  <2>2. CASE Goto(m, "claim") /\ frame' = [frame EXCEPT ![m].variant = profile]
    <3>0. profile \in Profiles
      BY <1>t DEF TypeOK
    <3>1. frame' = [frame EXCEPT ![m] = [frame[m] EXCEPT !.variant = profile]]
      BY <2>2, <1>t DEF TypeOK
    <3> DEFINE f == [frame[m] EXCEPT !.variant = profile]
    <3>a. f \in Frames /\ f.variant \in Profiles
      BY <1>t, <3>0, FrameTyped
    <3>b. frame' = [frame EXCEPT ![m] = f] /\ pc' = [pc EXCEPT ![m] = "claim"] /\ UNCHANGED variantVars
      BY <1>3, <2>2, <3>1 DEF Optimize, Goto
    <3> HIDE DEF f
    <3>2. Claimed' /\ pc' \in [Makers -> {"idle"} \cup Steps] /\ frame' \in [Makers -> Frames]
      BY <3>a, <3>b, CallMoves DEF Steps
    <3>3. TypeOK'
      BY <1>3, <1>t, <3>2 DEF Optimize, TypeOK, jobVars, variantVars, history
    <3> QED BY <1>3, <1>t, <3>2, <3>3, RowsAlone DEF Optimize, VariantInv, jobVars
  <2> QED BY <1>3, <2>1, <2>2 DEF Optimize
<1>4. ASSUME NEW m \in Makers, ClaimVariant(m) PROVE VariantInv'
  <2> DEFINE p == frame[m].variant
  <2>0. p \in Profiles
    BY <1>4, <1>t DEF ClaimVariant, Claimed
  <2>1. CASE variant[p] # None
    <3>1. Claimed' /\ pc' \in [Makers -> {"idle"} \cup Steps] /\ frame' \in [Makers -> Frames]
      BY <1>4, <1>t, <2>1, NoFrameTyped, CallMoves DEF ClaimVariant, Return, Goto, variantVars
    <3>2. TypeOK'
      BY <1>4, <1>t, <2>1, <3>1 DEF ClaimVariant, TypeOK, jobVars, history
    <3> QED BY <1>4, <1>t, <2>1, <3>1, <3>2, RowsAlone
            DEF ClaimVariant, VariantInv, jobVars, variantVars
  <2>2. CASE variant[p] = None
    <3>1. /\ variant' = [variant EXCEPT ![p] = "GENERATING"]
          /\ pc' = [pc EXCEPT ![m] = "make"] /\ frame' = frame
          /\ UNCHANGED <<current, resume, promoted>>
      BY <1>4, <2>2 DEF ClaimVariant, Goto, jobVars
    <3>2. TypeOK'
      BY <1>4, <1>t, <2>0, <3>1 DEF ClaimVariant, TypeOK, Steps, ResumeVariantStatus, jobVars, history
    <3>3. /\ variant'[p] = "GENERATING" /\ \A q \in Profiles \ {p} : variant'[q] = variant[q]
          /\ pc'[m] = "make" /\ \A n \in Makers \ {m} : pc'[n] = pc[n]
      BY <1>t, <2>0, <3>1 DEF TypeOK
    <3>4. \A n \in Makers \ {m} : pc[n] = "make" => frame[n].variant # p
      BY <1>4, <1>t, <2>0, <2>2 DEF Claimed, Passed, ResumeVariantStatus
    <3>5. \A n \in Makers \ {m} : pc[n] = "promote" => frame[n].variant # p
      BY <1>4, <1>t, <2>0, <2>2 DEF Claimed, Passed, ResumeVariantStatus
    <3>6. Claimed'
      BY <1>t, <2>0, <3>1, <3>3, <3>4, <3>5 DEF Claimed
    <3>7. OneCurrent'
      BY <1>t, <2>0, <2>2, <3>1, <3>3 DEF OneCurrent, Graded, Failures, ResumeVariantStatus
    <3>8. PromotedPassed'
      BY <1>t, <2>0, <2>2, <3>1, <3>3 DEF PromotedPassed, ResumeVariantStatus
    <3> QED BY <3>2, <3>6, <3>7, <3>8 DEF VariantInv
  <2> QED BY <2>1, <2>2
<1>5. ASSUME NEW m \in Makers, Finalize(m) PROVE VariantInv'
  <2> DEFINE p == frame[m].variant
  <2>0. p \in Profiles /\ variant[p] = "GENERATING"
    BY <1>5, <1>t DEF Finalize, Claimed
  <2>1. PICK st \in Graded : /\ variant' = [Demote(variant, p) EXCEPT ![p] = st]
                             /\ current' = MakeCurrent(p, st)
    BY <1>5 DEF Finalize
  <2>2. /\ variant'[p] = st
        /\ \A q \in Profiles \ {p} :
             variant'[q] = IF current[q] /\ variant[q] = "READY" THEN "STALE" ELSE variant[q]
        /\ \A q \in Profiles : current'[q] = (q = p)
    BY <2>0, <2>1 DEF Demote, MakeCurrent
  <2>3. variant' \in [Profiles -> ResumeVariantStatus \cup {None}]
    BY <1>t, <2>0, <2>1 DEF Demote, Graded, ResumeVariantStatus, TypeOK
  <2>4. current' \in [Profiles -> BOOLEAN]
    BY <2>1 DEF MakeCurrent
  <2>5. PICK step \in {"idle", "fetch"}, f \in Frames :
          pc' = [pc EXCEPT ![m] = step] /\ frame' = [frame EXCEPT ![m] = f]
    <3>1. CASE Return(m)
      BY <3>1, NoFrameTyped DEF Return, Goto
    <3>2. CASE Goto(m, "fetch") /\ UNCHANGED frame
      <4>1. frame' = [frame EXCEPT ![m] = frame[m]]
        BY <3>2, <1>t DEF TypeOK
      <4> QED BY <3>2, <4>1, <1>t, FrameTyped DEF Goto
    <3> QED BY <1>5, <3>1, <3>2 DEF Finalize
  <2>6. /\ pc' \in [Makers -> {"idle"} \cup Steps] /\ frame' \in [Makers -> Frames]
        /\ pc'[m] \in {"idle", "fetch"}
        /\ \A n \in Makers \ {m} : pc'[n] = pc[n] /\ frame'[n] = frame[n]
    BY <1>t, <2>5 DEF TypeOK, Steps
  <2>7. TypeOK'
    BY <1>5, <1>t, <2>3, <2>4, <2>6 DEF Finalize, TypeOK, jobVars, history
  <2>8. \A n \in Makers \ {m} : pc[n] = "make" => frame[n].variant # p
    BY <1>5, <1>t DEF Finalize, Claimed
  <2>9. \A n \in Makers \ {m} : pc[n] = "promote" => frame[n].variant # p
    BY <1>t, <2>0 DEF Claimed, Passed
  <2>10. \A q \in Profiles \ {p} :
           /\ variant[q] = "GENERATING" => variant'[q] = "GENERATING"
           /\ variant[q] \in Passed => variant'[q] \in Passed
    BY <2>2 DEF Passed
  <2>11. Claimed'
    <3>1. \A n \in Makers : pc'[n] \in {"claim", "make", "promote"} =>
            n # m /\ pc[n] = pc'[n] /\ frame'[n] = frame[n] /\ frame[n].variant \in Profiles
      BY <1>t, <2>6 DEF Claimed
    <3>2. \A n \in Makers : pc'[n] \in {"make", "promote"} => frame[n].variant # p
      BY <2>8, <2>9, <3>1
    <3>3. ASSUME NEW n \in Makers, pc'[n] = "make" PROVE variant'[frame'[n].variant] = "GENERATING"
      <4>1. /\ pc[n] = "make" /\ frame'[n] = frame[n]
            /\ frame[n].variant \in Profiles \ {p}
        BY <3>3, <3>1, <3>2
      <4>2. variant[frame[n].variant] = "GENERATING"
        BY <1>t, <4>1 DEF Claimed
      <4>3. variant'[frame[n].variant] = "GENERATING"
        BY <2>10, <4>1, <4>2
      <4> QED BY <4>1, <4>3
    <3>4. ASSUME NEW n \in Makers, pc'[n] = "promote" PROVE variant'[frame'[n].variant] \in Passed
      <4>1. /\ pc[n] = "promote" /\ frame'[n] = frame[n]
            /\ frame[n].variant \in Profiles \ {p}
        BY <3>4, <3>1, <3>2
      <4>2. variant[frame[n].variant] \in Passed
        BY <1>t, <4>1 DEF Claimed
      <4>3. variant'[frame[n].variant] \in Passed
        BY <2>10, <4>1, <4>2
      <4> QED BY <4>1, <4>3
    <3>5. \A n, o \in Makers : pc'[n] = "make" /\ pc'[o] = "make"
                                /\ frame'[n].variant = frame'[o].variant => n = o
      BY <1>t, <3>1 DEF Claimed
    <3> QED BY <3>1, <3>3, <3>4, <3>5 DEF Claimed
  <2>12. OneCurrent'
    <3> HIDE DEF p
    <3>0. \A q \in Profiles : current'[q] => q = p
      BY <2>2, Zenon
    <3>1. \A q, r \in Profiles : current'[q] /\ current'[r] => q = r
      BY <3>0, Zenon
    <3>2. \A q \in Profiles : current'[q] => variant'[q] \in Graded
      BY <2>1, <2>2, <3>0, Zenon
    <3>3. \E q \in Profiles : current'[q]
      BY <2>0, <2>2
    <3> QED BY <3>1, <3>2, <3>3 DEF OneCurrent, Graded, Failures
  <2>13. PromotedPassed'
    <3>1. UNCHANGED <<resume, promoted>>
      BY <1>5 DEF Finalize, jobVars
    <3>2. \A q \in Profiles : promoted = q \/ resume = q => q # p
      BY <1>t, <2>0 DEF PromotedPassed
    <3> QED BY <1>t, <2>10, <3>1, <3>2 DEF PromotedPassed, Passed
  <2> QED BY <2>7, <2>11, <2>12, <2>13 DEF VariantInv
<1>6. ASSUME NEW m \in Makers, Fetch(m) PROVE VariantInv'
  <2>1. CASE Return(m)
    <3>1. Claimed' /\ pc' \in [Makers -> {"idle"} \cup Steps] /\ frame' \in [Makers -> Frames]
      BY <1>6, <1>t, <2>1, NoFrameTyped, CallMoves DEF Fetch, Return, Goto
    <3>2. TypeOK'
      BY <1>6, <1>t, <3>1 DEF Fetch, TypeOK, jobVars, variantVars, history
    <3> QED BY <1>6, <1>t, <3>1, <3>2, RowsAlone DEF Fetch, VariantInv, jobVars
  <2>2. ASSUME NEW p \in Profiles, Promotable(p), Goto(m, "promote"),
               frame' = [frame EXCEPT ![m].variant = p]
        PROVE  VariantInv'
    <3>1. frame' = [frame EXCEPT ![m] = [frame[m] EXCEPT !.variant = p]]
      BY <2>2, <1>t DEF TypeOK
    <3> DEFINE f == [frame[m] EXCEPT !.variant = p]
    <3>a. f \in Frames /\ f.variant \in Profiles /\ variant[f.variant] \in Passed
      BY <1>t, <2>2, FrameTyped DEF Promotable, Passed
    <3>b. frame' = [frame EXCEPT ![m] = f] /\ pc' = [pc EXCEPT ![m] = "promote"] /\ UNCHANGED variantVars
      BY <1>6, <2>2, <3>1 DEF Fetch, Goto
    <3> HIDE DEF f
    <3>2. Claimed' /\ pc' \in [Makers -> {"idle"} \cup Steps] /\ frame' \in [Makers -> Frames]
      BY <3>a, <3>b, CallMoves DEF Steps
    <3>3. TypeOK'
      BY <1>6, <1>t, <3>2 DEF Fetch, TypeOK, jobVars, variantVars, history
    <3> QED BY <1>6, <1>t, <3>2, <3>3, RowsAlone DEF Fetch, VariantInv, jobVars
  <2> QED BY <1>6, <2>1, <2>2 DEF Fetch
<1>7. ASSUME NEW m \in Makers, Promote(m) PROVE VariantInv'
  <2>1. frame[m].variant \in Profiles /\ variant[frame[m].variant] \in Passed
    BY <1>7, <1>t DEF Promote, Claimed
  <2>2. Claimed' /\ pc' \in [Makers -> {"idle"} \cup Steps] /\ frame' \in [Makers -> Frames]
    BY <1>7, <1>t, NoFrameTyped, CallMoves DEF Promote, Return, Goto
  <2>3. TypeOK'
    BY <1>7, <1>t, <2>1, <2>2 DEF Promote, TypeOK, variantVars, history
  <2>4. OneCurrent'
    BY <1>7, <1>t DEF Promote, OneCurrent, variantVars
  <2>5. PromotedPassed'
    BY <1>7, <1>t, <2>1 DEF Promote, PromotedPassed, variantVars, Passed
  <2> QED BY <2>2, <2>3, <2>4, <2>5 DEF VariantInv
<1>8. ASSUME NEW m \in Makers, Fail(m) PROVE VariantInv'
  <2>1. Claimed' /\ pc' \in [Makers -> {"idle"} \cup Steps] /\ frame' \in [Makers -> Frames]
    BY <1>8, <1>t, NoFrameTyped, CallMoves DEF Fail, Return, Goto
  <2>2. lost' \subseteq Profiles
    BY <1>8, <1>t DEF Fail, TypeOK, Claimed
  <2>3. faults' \in 0..MaxFaults
    BY <1>8, <1>t DEF Fail, TypeOK
  <2>4. TypeOK'
    BY <1>8, <1>t, <2>1, <2>2, <2>3 DEF Fail, TypeOK, jobVars, variantVars
  <2> QED BY <1>8, <1>t, <2>1, <2>4, RowsAlone DEF Fail, VariantInv, jobVars
<1>9. ASSUME NEW p \in Profiles, EditProfile(p) PROVE VariantInv'
  <2>1. TypeOK' /\ Claimed'
    BY <1>9, <1>t DEF EditProfile, TypeOK, Claimed, jobVars, variantVars, callVars, history
  <2> QED BY <1>9, <1>t, <2>1, RowsAlone DEF EditProfile, VariantInv, jobVars
<1>10. CASE Package
  <2>1. TypeOK' /\ Claimed' /\ OneCurrent'
    BY <1>10, <1>t DEF Package, TypeOK, Claimed, OneCurrent, variantVars, callVars, history
  <2>2. PromotedPassed'
    BY <1>10, <1>t DEF Package, PromotedPassed, variantVars
  <2> QED BY <2>1, <2>2 DEF VariantInv
<1>11. CASE JobMoves
  <2>1. TypeOK' /\ Claimed'
    BY <1>11, <1>t DEF JobMoves, TypeOK, Claimed, variantVars, callVars, history
  <2> QED BY <1>11, <1>t, <2>1, RowsAlone DEF JobMoves, VariantInv
<1>13. CASE ListMoves
  <2>1. TypeOK' /\ Claimed'
    BY <1>13, <1>t DEF ListMoves, TypeOK, Claimed, variantVars, callVars, history
  <2> QED BY <1>13, <1>t, <2>1, RowsAlone DEF ListMoves, VariantInv
<1>12. CASE UNCHANGED vars
  <2>1. TypeOK' /\ Claimed'
    BY <1>12, <1>t DEF vars, TypeOK, Claimed, jobVars, variantVars, callVars, history
  <2> QED BY <1>12, <1>t, <2>1, RowsAlone DEF vars, VariantInv, jobVars
<1> QED
  BY <1>1, <1>2, <1>3, <1>4, <1>5, <1>6, <1>7, <1>8, <1>9, <1>10, <1>11, <1>12, <1>13
     DEF Next, Step, Makers

LEMMA InvHolds == Spec => []VariantInv
BY InitHolds, NextHolds, PTL DEF Spec

\* Every variable keeps its type, whoever crashes, for any number of callers and profiles.
THEOREM TypeCorrect == Spec => []TypeOK
<1>1. VariantInv => TypeOK
  BY DEF VariantInv
<1> QED BY <1>1, InvHolds, PTL

\* claim_variant() and finalize_variant() leave exactly one current variant once one was
\* graded, however many callers interleave or die in between.
THEOREM OneIsCurrent == Spec => []OneCurrent
<1>1. VariantInv => OneCurrent
  BY DEF VariantInv
<1> QED BY <1>1, InvHolds, PTL

\* promote_variant() never puts a variant on the job that did not pass every check,
\* although it writes what another transaction read.
THEOREM PromotedDidPass == Spec => []PromotedPassed
<1>1. VariantInv => PromotedPassed
  BY DEF VariantInv
<1> QED BY <1>1, InvHolds, PTL
=============================================================================
