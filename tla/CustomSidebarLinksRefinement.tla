--------------------- MODULE CustomSidebarLinksRefinement ---------------------
(***************************************************************************)
(* Proof that the link retargeter implements its promise, SidebarRetarget *)
(* (spec 4.1), when the map lookup of line 167 meets no inherited member  *)
(* and sessionStorage accepts what a click stores.                         *)
(***************************************************************************)
EXTENDS CustomSidebarLinksProofs

(***************************************************************************)
(* A link the running pass has still to visit and has not rewritten still *)
(* has its '#': only a visit rewrites an href, and a visit takes the link *)
(* out of the pass.                                                        *)
(***************************************************************************)
TodoHashed == \A a \in todo \ processed : HasHash(href[a])

RefInv == TypeOK /\ InSidebar /\ TargetsAreUrls /\ TodoHashed

(* An href without '#' that is not junk names a page. *)
LEMMA PageHrefs ==
    ASSUME NEW h \in Href, h # JunkHref, ~HasHash(h)
    PROVE  h \in HeadingHref
BY SentinelAssumption DEF Href, HeadingHref, HasHash, JunkHref

(* The first anchor of a set of anchors without '#' has an href naming a page. *)
LEMMA FirstHrefPage ==
    ASSUME TypeOK, TargetsAreUrls, NEW S \in SUBSET Anchor,
           \A a \in S : ~HasHash(href[a])
    PROVE  FirstHref(S) \in HeadingHref \cup {None}
<1>1. CASE S # {}
    <2>1. Earliest(S) \in S
        BY <1>1, NAssumption, EarliestSpec DEF Anchor
    <2>2. href[Earliest(S)] \in HeadingHref
        BY <2>1, PageHrefs DEF TypeOK, TargetsAreUrls
    <2>3. QED
        BY <1>1, <2>2 DEF FirstHref
<1>2. QED
    BY <1>1 DEF FirstHref

(***************************************************************************)
(* With no inherited member hit, every strategy of lines 97-203 yields an *)
(* href naming a page, or nothing.                                         *)
(***************************************************************************)
LEMMA TargetPage ==
    ASSUME TypeOK, TargetsAreUrls, ProtoText = {}, NEW l \in Anchor
    PROVE  Target(l) \in HeadingHref \cup {None}
<1>0. PageLinks \subseteq Anchor
    BY SideAssumption DEF PageLinks, TypeOK
<1>1. HeadingTarget(l) \in HeadingHref \cup {None}
    BY DEF HeadingTarget, TypeOK
<1>2. SameTextTarget(l) \in HeadingHref \cup {None}
    BY <1>0, FirstHrefPage DEF SameTextTarget
<1>3. OtherPageTarget(l) \in HeadingHref \cup {None}
    BY <1>0, FirstHrefPage DEF OtherPageTarget
<1>4. MapTarget(l) \in HeadingHref \cup {None}
    <2>1. CASE label[l] \in DOMAIN MapUrl
        BY <2>1, MapAssumption DEF MapTarget, HeadingHref, Href
    <2>2. QED
        BY <2>1 DEF MapTarget
<1>5. SamePageTarget(l) \in HeadingHref \cup {None}
    <2>1. href[l] \in Href /\ href[l] # JunkHref
        BY DEF TypeOK, TargetsAreUrls
    <2>2. ASSUME href[l].page # NoPage PROVE href[l].page \in Page
        <3>1. CASE href[l] \in [page : Page, frag : BOOLEAN]
            BY <3>1
        <3>2. CASE href[l] = [page |-> NoPage, frag |-> TRUE]
            BY <2>2, <3>2
        <3>3. QED
            BY <2>1, <3>1, <3>2 DEF Href
    <2>3. QED
        BY <2>2 DEF SamePageTarget, BasePage, HeadingHref, Href
<1>6. QED
    BY <1>1, <1>2, <1>3, <1>4, <1>5, FirstFoundType DEF Target
-----------------------------------------------------------------------------
(* The initial states satisfy the invariant the refinement rests on. *)
LEMMA RefInit == Init => RefInv
<1>1. Init => TargetsAreUrls /\ TodoHashed
    BY DEF Init, TargetsAreUrls, TodoHashed
<1>2. QED
    BY <1>1, TypeInit DEF Init, RefInv, InSidebar

(* Every step keeps it, when no inherited member is hit. *)
LEMMA RefStep ==
    ASSUME ProtoText = {}
    PROVE  RefInv /\ [Next]_vars => RefInv'
<1> SUFFICES ASSUME RefInv, [Next]_vars PROVE RefInv'
    OBVIOUS
<1> USE DEF RefInv
<1>1. TypeOK' /\ InSidebar'
    BY TypeStep, InSidebarStep
<1>2. CASE Visit
    <2>1. PICK l \in todo : /\ todo' = todo \ {l}
                            /\ IF l \notin processed /\ Target(l) # None
                               THEN /\ href' = [href EXCEPT ![l] = Target(l)]
                                    /\ processed' = processed \cup {l}
                               ELSE UNCHANGED <<href, processed>>
        BY <1>2 DEF Visit
    <2>2. l \in Anchor
        BY SideAssumption DEF TypeOK
    <2>3. Target(l) \in HeadingHref \cup {None}
        BY <2>2, TargetPage
    <2>4. Target(l) # None => Target(l) # JunkHref
        BY <2>3, SentinelAssumption DEF HeadingHref, JunkHref
    <2>5. TargetsAreUrls'
        BY <2>1, <2>4 DEF TargetsAreUrls, TypeOK
    <2>6. TodoHashed'
        <3>1. SUFFICES ASSUME NEW a \in todo' \ processed' PROVE HasHash(href'[a])
            BY DEF TodoHashed
        <3>2. a \in todo /\ a # l
            BY <2>1
        <3>3. CASE l \notin processed /\ Target(l) # None
            <4>1. a \notin processed /\ href'[a] = href[a]
                BY <2>1, <3>2, <3>3, SideAssumption DEF TypeOK
            <4>2. QED
                BY <3>2, <4>1 DEF TodoHashed
        <3>4. CASE ~(l \notin processed /\ Target(l) # None)
            <4>1. a \notin processed /\ href'[a] = href[a]
                BY <2>1, <3>4
            <4>2. QED
                BY <3>2, <4>1 DEF TodoHashed
        <3>5. QED
            BY <3>3, <3>4
    <2>7. QED
        BY <1>1, <2>5, <2>6
<1>3. CASE UpdateBegin
    BY <1>1, <1>3 DEF UpdateBegin, HashLinks, TargetsAreUrls, TodoHashed, dom
<1>4. CASE ~Visit /\ ~UpdateBegin
    <2>1. UNCHANGED <<href, processed>>
        BY <1>4 DEF Next, TaskStep, Environment, Render, ArrowClick, Insert, ClickLink,
                    UpdateSkipped, UpdateNoLinks, UpdateEnd, RestoreHighlighting,
                    RestoreThrows, RunScript, FireDelayed, FireUpdate, vars, dom
    <2>2. todo' \subseteq todo
        BY <1>4 DEF Next, TaskStep, Environment, Render, ArrowClick, Insert, ClickLink,
                    UpdateSkipped, UpdateNoLinks, UpdateEnd, RestoreHighlighting,
                    RestoreThrows, RunScript, FireDelayed, FireUpdate, vars, ctl
    <2>3. QED
        BY <1>1, <2>1, <2>2 DEF TargetsAreUrls, TodoHashed
<1>5. QED
    BY <1>2, <1>3, <1>4
-----------------------------------------------------------------------------
(***************************************************************************)
(* Every step of the retargeter is a step of SidebarRetarget or leaves     *)
(* its variables alone: a visit that rewrites is a Retarget, an insertion *)
(* an Appear, the click handler a Click, a restore that finds the stored  *)
(* text a Restore; passes, timers and failed restores change nothing.      *)
(***************************************************************************)
LEMMA RefSim ==
    ASSUME ProtoText = {}, StorageWorks
    PROVE  RefInv /\ [Next]_vars => [Retarget!Next]_Retarget!avars
<1> SUFFICES ASSUME RefInv, [Next]_vars PROVE [Retarget!Next]_Retarget!avars
    OBVIOUS
<1> USE DEF RefInv
<1>1. CASE Visit
    <2>1. PICK l \in todo : /\ todo' = todo \ {l}
                            /\ IF l \notin processed /\ Target(l) # None
                               THEN /\ href' = [href EXCEPT ![l] = Target(l)]
                                    /\ processed' = processed \cup {l}
                               ELSE UNCHANGED <<href, processed>>
        BY <1>1 DEF Visit
    <2>2. CASE l \notin processed /\ Target(l) # None
        <3>1. l \in Anchor /\ l \in rendered
            BY SideAssumption DEF TypeOK, InSidebar
        <3>2. Target(l) \in HeadingHref
            BY <2>2, <3>1, TargetPage
        <3>3. href[l] \in {h \in Href : HasHash(h)}
            <4>1. HasHash(href[l])
                BY <2>2 DEF TodoHashed
            <4>2. href[l] \in Href
                BY <3>1 DEF TypeOK
            <4>3. QED
                BY <4>1, <4>2
        <3>4. Retarget!Retarget(l, Target(l))
            BY <1>1, <2>1, <2>2, <3>1, <3>2, <3>3 DEF Visit, Retarget!Retarget, page
        <3>5. QED
            BY <3>1, <3>2, <3>4 DEF Retarget!Next
    <2>3. CASE ~(l \notin processed /\ Target(l) # None)
        BY <1>1, <2>1, <2>3 DEF Visit, Retarget!avars, page
    <2>4. QED
        BY <2>2, <2>3
<1>2. ASSUME NEW b \in Batch \cup {{}}, NEW v, Insert(b, v)
      PROVE  [Retarget!Next]_Retarget!avars
    <2>1. b \subseteq SideAnchor \ rendered
        BY <1>2, BatchAssumption DEF Insert
    <2>2. Retarget!Appear(b)
        BY <1>2, <2>1 DEF Insert, Retarget!Appear, page
    <2>3. QED
        BY <2>1, <2>2 DEF Retarget!Next
<1>3. ASSUME NEW l \in SideAnchor, ClickLink(l)
      PROVE  [Retarget!Next]_Retarget!avars
    <2>1. Retarget!Click(l)
        BY <1>3 DEF ClickLink, Retarget!Click, page
    <2>2. QED
        BY <2>1, SideAssumption DEF Retarget!Next
<1>4. CASE RestoreHighlighting
    <2>1. CASE stored # NoText /\ StoredMatches # {}
        <3> DEFINE m == Latest(StoredMatches)
        <3>1. m \in StoredMatches /\ m \in Anchor
            BY <2>1, HighlightPick, SideAssumption
        <3>2. Retarget!Restore(m)
            BY <1>4, <2>1, <3>1 DEF RestoreHighlighting, Highlight, StoredMatches,
                                    Retarget!Restore, page
        <3>3. QED
            BY <3>1, <3>2 DEF Retarget!Next
    <2>2. CASE ~(stored # NoText /\ StoredMatches # {})
        BY <1>4, <2>2 DEF RestoreHighlighting, Retarget!avars, page
    <2>3. QED
        BY <2>1, <2>2
<1>5. CASE \/ UpdateSkipped \/ UpdateNoLinks \/ UpdateBegin \/ UpdateEnd \/ RestoreThrows
           \/ \E i \in Inst : RunScript(i) \/ FireDelayed(i) \/ FireUpdate(i)
           \/ UNCHANGED vars
    BY <1>5 DEF UpdateSkipped, UpdateNoLinks, UpdateBegin, UpdateEnd, RestoreThrows,
                RunScript, FireDelayed, FireUpdate, vars, page, dom, Retarget!avars
<1>6. QED
    BY <1>1, <1>2, <1>3, <1>4, <1>5 DEF Next, TaskStep, Environment, Render, ArrowClick

(* The hrefs a visit of l may write without the fault being l's own. *)
JunkFree(l) == {h \in Href : h = JunkHref => label[l] \in ProtoText}

(* The first anchor with l's text has an href that is junk only if l's is a prototype name. *)
LEMMA FirstHrefJunk ==
    ASSUME TypeOK, JunkOnlyProtoNames, NEW l \in Anchor, NEW S \in SUBSET Anchor,
           \A a \in S : label[a] = label[l]
    PROVE  FirstHref(S) \in JunkFree(l) \cup {None}
<1>1. CASE S # {}
    <2>1. Earliest(S) \in S
        BY <1>1, NAssumption, EarliestSpec DEF Anchor
    <2>2. href[Earliest(S)] \in Href
        BY <2>1 DEF TypeOK
    <2>3. QED
        BY <1>1, <2>1, <2>2 DEF FirstHref, JunkFree, JunkOnlyProtoNames
<1>2. QED
    BY <1>1 DEF FirstHref

(***************************************************************************)
(* Each strategy of lines 97-203 yields the junk href only for a link     *)
(* whose own text names an inherited member: the map lookup by that text, *)
(* a same-text link's href, or the link's own junk base page.              *)
(***************************************************************************)
LEMMA TargetJunk ==
    ASSUME TypeOK, JunkOnlyProtoNames, NEW l \in Anchor
    PROVE  Target(l) \in JunkFree(l) \cup {None}
<1>0. PageLinks \subseteq Anchor
    BY SideAssumption DEF PageLinks, TypeOK
<1>1. HeadingTarget(l) \in JunkFree(l) \cup {None}
    BY SentinelAssumption DEF HeadingTarget, TypeOK, HeadingHref, JunkFree, JunkHref
<1>2. SameTextTarget(l) \in JunkFree(l) \cup {None}
    BY <1>0, FirstHrefJunk DEF SameTextTarget
<1>3. OtherPageTarget(l) \in JunkFree(l) \cup {None}
    BY <1>0, FirstHrefJunk DEF OtherPageTarget
<1>4. MapTarget(l) \in JunkFree(l) \cup {None}
    <2>1. CASE label[l] \in DOMAIN MapUrl
        BY <2>1, MapAssumption, SentinelAssumption DEF MapTarget, JunkFree, Href, JunkHref
    <2>2. CASE label[l] \notin DOMAIN MapUrl
        BY <2>2 DEF MapTarget, JunkFree, Href
    <2>3. QED
        BY <2>1, <2>2
<1>5. SamePageTarget(l) \in JunkFree(l) \cup {None}
    <2>1. href[l] \in Href
        BY DEF TypeOK
    <2>2. ASSUME href[l].page # NoPage
          PROVE  BasePage(href[l]) \in Href
                 /\ (BasePage(href[l]) = JunkHref => href[l] = JunkHref)
        <3>1. CASE href[l] = JunkHref
            BY <3>1 DEF Href, BasePage, JunkHref
        <3>2. CASE href[l] \in [page : Page, frag : BOOLEAN]
            BY <3>2, SentinelAssumption DEF Href, BasePage, JunkHref
        <3>3. QED
            BY <2>1, <2>2, <3>1, <3>2 DEF Href
    <2>3. href[l] = JunkHref => label[l] \in ProtoText
        BY DEF JunkOnlyProtoNames
    <2>4. QED
        BY <2>2, <2>3 DEF SamePageTarget, JunkFree
<1>6. QED
    <2>1. <<HeadingTarget(l), SameTextTarget(l), OtherPageTarget(l),
            MapTarget(l), SamePageTarget(l)>> \in [1..5 -> JunkFree(l) \cup {None}]
        BY <1>1, <1>2, <1>3, <1>4, <1>5
    <2>2. QED
        BY <2>1, FirstFoundType DEF Target

(* The initial hrefs hold no junk. *)
LEMMA JunkInit == Init => JunkOnlyProtoNames
BY DEF Init, JunkOnlyProtoNames

(* Every step keeps the junk href on rewritten prototype-named links. *)
LEMMA JunkStep ==
    TypeOK /\ JunkOnlyProtoNames /\ [Next]_vars => JunkOnlyProtoNames'
<1> SUFFICES ASSUME TypeOK, JunkOnlyProtoNames, [Next]_vars
             PROVE  JunkOnlyProtoNames'
    OBVIOUS
<1>0. label' = label
    BY DEF Next, TaskStep, Environment, Render, ArrowClick, Insert, ClickLink,
           UpdateSkipped, UpdateNoLinks, UpdateBegin, Visit, UpdateEnd, RestoreHighlighting,
           RestoreThrows, RunScript, FireDelayed, FireUpdate, vars, page
<1>1. CASE Visit
    <2>1. PICK l \in todo : /\ todo' = todo \ {l}
                            /\ IF l \notin processed /\ Target(l) # None
                               THEN /\ href' = [href EXCEPT ![l] = Target(l)]
                                    /\ processed' = processed \cup {l}
                               ELSE UNCHANGED <<href, processed>>
        BY <1>1 DEF Visit
    <2>2. l \in Anchor
        BY SideAssumption DEF TypeOK
    <2>3. Target(l) \in JunkFree(l) \cup {None}
        BY <2>2, TargetJunk
    <2>4. QED
        BY <1>0, <2>1, <2>3 DEF JunkOnlyProtoNames, JunkFree, TypeOK
<1>2. CASE ~Visit
    <2>1. UNCHANGED <<href, processed>>
        BY <1>2 DEF Next, TaskStep, Environment, Render, ArrowClick, Insert, ClickLink,
                    UpdateSkipped, UpdateNoLinks, UpdateBegin, UpdateEnd, RestoreHighlighting,
                    RestoreThrows, RunScript, FireDelayed, FireUpdate, vars, dom
    <2>2. QED
        BY <1>0, <2>1 DEF JunkOnlyProtoNames
<1>3. QED
    BY <1>1, <1>2

(***************************************************************************)
(* For every page, whatever texts name prototype members: although        *)
(* strategies 2 and 3 copy live hrefs between links, the function text    *)
(* that the lookup of line 167 turns into an href stays on links a pass   *)
(* rewrote and whose own text names an inherited member; no other link is *)
(* ever pointed at it.                                                     *)
(***************************************************************************)
THEOREM JunkConfined == Spec => []JunkOnlyProtoNames
BY TypeInit, TypeStep, JunkInit, JunkStep, PTL DEF Spec

(***************************************************************************)
(* Initial states of the retargeter are initial states of the promise.    *)
(***************************************************************************)
LEMMA RefInitMaps == Init => Retarget!Init
BY DEF Init, Retarget!Init, Href

(***************************************************************************)
(* The retargeter implements spec 4.1 (SidebarRetarget): whatever the     *)
(* interleaving of both runScript runs, their timers, observers and arrow *)
(* listeners with the generator and the user, each '#' link is rewritten  *)
(* at most once, to an href naming a page, and the highlight only ever    *)
(* moves by a click on a rewritten link or a restore of the stored text;  *)
(* provided the map lookup of line 167 meets no inherited member and     *)
(* sessionStorage accepts what a click stores.                             *)
(***************************************************************************)
THEOREM Refinement ==
    ASSUME ProtoText = {}, StorageWorks
    PROVE  Spec => RetargetSpec
<1>1. Spec => []RefInv
    BY RefInit, RefStep, PTL DEF Spec
<1>2. QED
    BY <1>1, RefInitMaps, RefSim, PTL DEF Spec, RetargetSpec, Retarget!Spec
=============================================================================
