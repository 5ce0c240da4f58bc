------------------------- MODULE ExpandAllSidebarProofs -------------------------
(***************************************************************************)
(* Proofs about the expand-everything script, for every tree, every       *)
(* maxTries and every poll limit.                                          *)
(***************************************************************************)
EXTENDS ExpandAllSidebar, SidebarTreeProofs

(***************************************************************************)
(* TypeOK is not inductive: a poll at the limit or an expandStep after    *)
(* the last allowed run would leave the bounds.  While the script polls   *)
(* it has run no step and has polled fewer than maxWaitMs / 100 times;    *)
(* while a step is queued, fewer than maxTries runs have happened.         *)
(***************************************************************************)
Counting ==
    /\ phase \in {"loading", "polling"} => tries = 0 /\ polls < MaxPolls
    /\ phase = "stepping" => tries < MaxTries

AllInv == TypeOK /\ GlyphShowsState /\ Counting

(* The initial states satisfy the invariant. *)
LEMMA AllInit == Init => AllInv
BY PollsAssumption, ClicksAssumption, TriesAssumption
DEF Init, TreeInit, AllInv, TypeOK, TreeTypeOK, GlyphShowsState, Counting

(***************************************************************************)
(* One expandStep run keeps the arrows truthful and counts itself within  *)
(* maxTries, from a state where fewer than maxTries runs happened.         *)
(***************************************************************************)
LEMMA StepKeeps ==
    ASSUME TypeOK, GlyphShowsState, tries < MaxTries, Step,
           UNCHANGED <<parent, inDom, clicks, polls>>
    PROVE  TypeOK' /\ GlyphShowsState' /\ Counting'
<1> DEFINE S == Collapsed(glyph, inDom)
           W == {n \in inDom : HasToggle(n)}
<1>1. \A n \in W \cap Node : HasToggle(n) => (n \in S <=> ~glyph[n])
    BY DEF Collapsed
<1>2. /\ open' \in [Node -> BOOLEAN]
      /\ glyph' \in [Node -> BOOLEAN]
      /\ Truthful(glyph', open')
    BY <1>1, ClickKeepsTruth DEF Step, TypeOK, TreeTypeOK, GlyphShowsState, Truthful
<1>3. tries' \in 0..MaxTries /\ Counting'
    BY TriesAssumption DEF Step, TypeOK, Counting
<1>4. phase' \in {"loading", "polling", "stepping", "finished", "gaveUp"}
    BY DEF Step
<1>5. GlyphShowsState'
    <2>1. \A n \in Node : HasToggle(n)' <=> HasToggle(n)
        BY DEF HasToggle
    <2>2. QED
        BY <1>2, <2>1 DEF GlyphShowsState, Truthful
<1>6. TreeTypeOK'
    BY <1>2 DEF TypeOK, TreeTypeOK
<1>7. QED
    BY <1>3, <1>4, <1>5, <1>6 DEF TypeOK

(* Every step keeps the invariant. *)
LEMMA AllStep == AllInv /\ [Next]_vars => AllInv'
<1> SUFFICES ASSUME AllInv, [Next]_vars PROVE AllInv'
    OBVIOUS
<1> USE DEF AllInv
<1>1. CASE Start
    BY <1>1 DEF Start, tree, TypeOK, TreeTypeOK, GlyphShowsState, HasToggle, Counting
<1>2. CASE Poll
    <2>1. CASE inDom # {}
        <3>1. tries = 0 /\ 0 < MaxTries
            BY <1>2, TriesAssumption DEF Poll, Counting
        <3>2. QED
            BY <1>2, <2>1, <3>1, StepKeeps DEF Poll
    <2>2. CASE inDom = {}
        <3>1. polls' \in 0..MaxPolls /\ Counting'
            BY <1>2, <2>2, PollsAssumption DEF Poll, Counting, TypeOK
        <3>2. UNCHANGED tree /\ UNCHANGED tries
            BY <1>2, <2>2 DEF Poll
        <3>3. phase' \in {"polling", "gaveUp"}
            BY <1>2, <2>2 DEF Poll
        <3>4. QED
            BY <3>1, <3>2, <3>3 DEF tree, TypeOK, TreeTypeOK, GlyphShowsState, HasToggle
    <2>3. QED
        BY <2>1, <2>2
<1>3. CASE FireStep
    BY <1>3, StepKeeps DEF FireStep, Counting
<1>4. ASSUME NEW n \in Node, Render(n) PROVE AllInv'
    BY <1>4 DEF Render, TreeRender, TypeOK, TreeTypeOK, GlyphShowsState, HasToggle, Counting
<1>5. ASSUME NEW n \in Node, Toggle(n) PROVE AllInv'
    <2>1. TreeTypeOK' /\ GlyphShowsState'
        BY <1>5, ToggleKeepsTruth DEF Toggle, TypeOK
    <2>2. QED
        BY <1>5, <2>1 DEF Toggle, TypeOK, Counting
<1>6. CASE UNCHANGED vars
    BY <1>6 DEF vars, tree, TypeOK, TreeTypeOK, GlyphShowsState, HasToggle, Counting
<1>7. QED
    BY <1>1, <1>2, <1>3, <1>4, <1>5, <1>6 DEF Next

(***************************************************************************)
(* The expand-everything loop keeps within maxTries runs of expandStep    *)
(* and maxWaitMs / 100 polls, for every limit and every tree.              *)
(***************************************************************************)
THEOREM ExpandAllTypeCorrect == Spec => []TypeOK
BY AllInit, AllStep, PTL DEF Spec, AllInv

(***************************************************************************)
(* Interleaved with any clicks of the user, every arrow the loop has      *)
(* written or left reads '▼' exactly when its item is expanded: it clicks *)
(* only the arrows reading '►' (line 7), on a snapshot taken in the same  *)
(* task.                                                                   *)
(***************************************************************************)
THEOREM ExpandAllGlyphs == Spec => []GlyphShowsState
BY AllInit, AllStep, PTL DEF Spec, AllInv

(* A run of expandStep opens every rendered toggle and closes nothing. *)
LEMMA StepOpens ==
    ASSUME TypeOK, GlyphShowsState, Step
    PROVE  /\ \A n \in Node : open[n] => open'[n]
           /\ \A n \in inDom : HasToggle(n) => open'[n]
<1>1. glyph \in [Node -> BOOLEAN] /\ open \in [Node -> BOOLEAN] /\ Truthful(glyph, open)
      /\ inDom \subseteq Node
    BY DEF TypeOK, TreeTypeOK, GlyphShowsState, Truthful
<1>2. open' = ClickOpen(open, Collapsed(glyph, inDom))
    BY DEF Step
<1>3. QED
    BY <1>1, <1>2, CollapsedOpens

(* Only a run of expandStep counts a try. *)
LEMMA ExpandsStep ==
    ASSUME TypeOK, GlyphShowsState, [Next]_vars PROVE StepExpands
<1> SUFFICES ASSUME tries' = tries + 1
             PROVE  /\ \A n \in Node : open[n] => open'[n]
                    /\ \A n \in inDom : HasToggle(n) => open'[n]
    BY DEF StepExpands
<1>0. tries \in Nat
    BY DEF TypeOK
<1>1. CASE Poll
    <2>1. inDom # {}
        BY <1>0, <1>1 DEF Poll
    <2>2. QED
        BY <1>1, <2>1, StepOpens DEF Poll
<1>2. CASE FireStep
    BY <1>2, StepOpens DEF FireStep
<1>3. CASE Start \/ UNCHANGED vars
    BY <1>0, <1>3 DEF Start, vars
<1>4. ASSUME NEW n \in Node, Render(n) \/ Toggle(n) PROVE FALSE
    BY <1>0, <1>4 DEF Render, Toggle
<1>5. QED
    BY <1>1, <1>2, <1>3, <1>4 DEF Next

(***************************************************************************)
(* For every tree and limit, and whatever the user clicks between runs,   *)
(* each run of expandStep closes no item and leaves every toggle rendered *)
(* at that moment expanded, because it clicks only the arrows reading '►'  *)
(* and the arrows tell the truth (ExpandAllGlyphs).                        *)
(***************************************************************************)
THEOREM ExpandAllStepsExpand == Spec => StepExpandsRendered
<1>1. Spec => []AllInv
    BY AllInit, AllStep, PTL DEF Spec
<1>2. AllInv /\ [Next]_vars => [StepExpands]_vars
    BY ExpandsStep DEF AllInv
<1>3. QED
    BY <1>1, <1>2, PTL DEF Spec, StepExpandsRendered
=============================================================================
