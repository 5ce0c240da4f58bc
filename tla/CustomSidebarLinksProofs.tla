---------------------- MODULE CustomSidebarLinksProofs ----------------------
(***************************************************************************)
(* Proofs about the link retargeter of CustomSidebarLinks, for every      *)
(* number of anchors, texts, pages and batches.                            *)
(***************************************************************************)
EXTENDS CustomSidebarLinks, WellFoundedInduction, TLAPS

(***************************************************************************)
(* A non-empty set of naturals has a least element: Earliest, the first   *)
(* anchor in document order, is well defined.                              *)
(***************************************************************************)
LEMMA MinExists ==
    ASSUME NEW S \in SUBSET Nat, S # {}
    PROVE  \E m \in S : \A k \in S : m <= k
<1>1. \E x \in S : \A y \in S : ~(<<y, x>> \in OpToRel(<, Nat))
    BY NatLessThanWellFounded, WFMin
<1>2. PICK x \in S : \A y \in S : ~(<<y, x>> \in OpToRel(<, Nat))
    BY <1>1
<1>3. ASSUME NEW y \in S PROVE x <= y
    <2>1. <<y, x>> \in Nat \X Nat
        OBVIOUS
    <2>2. ~(y < x)
        BY <2>1, <1>2 DEF OpToRel
    <2>3. QED
        BY <2>2
<1>4. QED
    BY <1>3

(* Earliest(S) is the first element of S in document order. *)
LEMMA EarliestSpec ==
    ASSUME NEW S \in SUBSET Nat, S # {}
    PROVE  /\ Earliest(S) \in S
           /\ \A b \in S : Earliest(S) <= b
BY MinExists DEF Earliest

(***************************************************************************)
(* A non-empty set of naturals bounded by n has a greatest element: the   *)
(* least upper bound, which lies in the set.  Latest(S), the last element *)
(* of S in document order, is well defined.                                *)
(***************************************************************************)
LEMMA LatestSpec ==
    ASSUME NEW S \in SUBSET Nat, S # {}, NEW n \in Nat, \A b \in S : b <= n
    PROVE  /\ Latest(S) \in S
           /\ \A b \in S : b <= Latest(S)
<1> DEFINE Up == {k \in Nat : \A b \in S : b <= k}
<1>1. n \in Up
    OBVIOUS
<1>2. PICK m \in Up : \A k \in Up : m <= k
    BY <1>1, MinExists
<1>3. m \in S
    <2>1. SUFFICES ASSUME m \notin S PROVE FALSE
        OBVIOUS
    <2>2. PICK b0 \in S : TRUE
        OBVIOUS
    <2>3. m - 1 \in Up
        BY <2>1, <2>2, <1>2
    <2>4. QED
        BY <2>3, <1>2
<1>4. \E a \in S : \A b \in S : b <= a
    BY <1>2, <1>3
<1>5. QED
    BY <1>4 DEF Latest

(* The first strategy that yields something yields a member of the tuple. *)
LEMMA FirstFoundType ==
    ASSUME NEW T, NEW c \in [1..5 -> T \cup {None}]
    PROVE  FirstFound(c) \in T \cup {None}
<1>1. CASE {k \in 1..5 : c[k] # None} = {}
    BY <1>1 DEF FirstFound
<1>2. CASE {k \in 1..5 : c[k] # None} # {}
    <2>1. Earliest({k \in 1..5 : c[k] # None}) \in 1..5
        BY <1>2, EarliestSpec
    <2>2. QED
        BY <1>2, <2>1 DEF FirstFound
<1>3. QED
    BY <1>1, <1>2

(* The first anchor of a set of anchors has an href. *)
LEMMA FirstHrefType ==
    ASSUME TypeOK, NEW S \in SUBSET Anchor
    PROVE  FirstHref(S) \in Href \cup {None}
<1>1. CASE S # {}
    <2>0. S \in SUBSET Nat
        BY NAssumption DEF Anchor
    <2>1. Earliest(S) \in Anchor
        BY <1>1, <2>0, EarliestSpec
    <2>2. QED
        BY <2>1 DEF FirstHref, TypeOK
<1>2. QED
    BY <1>1 DEF FirstHref

(***************************************************************************)
(* Every strategy of lines 97-203 yields an href or nothing: a rewritten  *)
(* link keeps an href.                                                     *)
(***************************************************************************)
LEMMA TargetType ==
    ASSUME TypeOK, NEW l \in Anchor
    PROVE  Target(l) \in Href \cup {None}
<1>1. HeadingTarget(l) \in Href \cup {None}
    BY DEF HeadingTarget, TypeOK, HeadingHref
<1>0. PageLinks \subseteq Anchor
    BY SideAssumption DEF PageLinks, TypeOK
<1>2. SameTextTarget(l) \in Href \cup {None}
    BY <1>0, FirstHrefType DEF SameTextTarget
<1>3. OtherPageTarget(l) \in Href \cup {None}
    BY <1>0, FirstHrefType DEF OtherPageTarget
<1>4. MapTarget(l) \in Href \cup {None}
    <2>1. label[l] \in Text
        BY DEF TypeOK
    <2>2. CASE label[l] \in DOMAIN MapUrl
        <3>1. MapUrl[label[l]] \in Page
            BY <2>2, MapAssumption
        <3>2. QED
            BY <2>2, <3>1 DEF MapTarget, Href
    <2>3. CASE label[l] \notin DOMAIN MapUrl
        BY <2>3 DEF MapTarget, Href, JunkHref
    <2>4. QED
        BY <2>2, <2>3
<1>5. SamePageTarget(l) \in Href \cup {None}
    <2>1. href[l] \in Href
        BY DEF TypeOK
    <2>2. ASSUME href[l].page # NoPage PROVE BasePage(href[l]) \in Href
        <3>1. CASE href[l].page \in Page
            BY <3>1 DEF Href, BasePage
        <3>2. CASE href[l].page \notin Page
            <4>1. href[l] = JunkHref
                BY <2>1, <2>2, <3>2 DEF Href
            <4>2. QED
                BY <4>1 DEF Href, BasePage, JunkHref
        <3>3. QED
            BY <3>1, <3>2
    <2>3. QED
        BY <2>2 DEF SamePageTarget
<1>6. QED
    BY <1>1, <1>2, <1>3, <1>4, <1>5, FirstFoundType DEF Target

(* Highlight picks the last rendered sidebar anchor with the stored text. *)
LEMMA HighlightPick ==
    ASSUME TypeOK, StoredMatches # {}
    PROVE  /\ Latest(StoredMatches) \in StoredMatches
           /\ Latest(StoredMatches) \in SideAnchor
<1>0. StoredMatches \subseteq 1..NA
    BY SideAssumption DEF StoredMatches, TypeOK, Anchor
<1>1. StoredMatches \in SUBSET Nat /\ \A b \in StoredMatches : b <= NA
    BY <1>0, NAssumption
<1>2. Latest(StoredMatches) \in StoredMatches
    BY <1>1, NAssumption, LatestSpec
<1>3. QED
    BY <1>2 DEF StoredMatches, TypeOK

-----------------------------------------------------------------------------
(* The initial states are well typed. *)
LEMMA TypeInit == Init => TypeOK
BY TogglesAssumption DEF Init, TypeOK, Href, NoTask, JunkHref

(* Every step of Next keeps the state well typed. *)
LEMMA TypeStep == TypeOK /\ [Next]_vars => TypeOK'
<1> SUFFICES ASSUME TypeOK, [Next]_vars PROVE TypeOK'
    OBVIOUS
<1>1. ASSUME NEW i \in Inst, RunScript(i) PROVE TypeOK'
    BY <1>1 DEF RunScript, page, dom, TypeOK, Task, Inst
<1>2. ASSUME NEW i \in Inst, FireDelayed(i) PROVE TypeOK'
    BY <1>2 DEF FireDelayed, page, dom, TypeOK, Task, Inst
<1>3. ASSUME NEW i \in Inst, FireUpdate(i) PROVE TypeOK'
    BY <1>3 DEF FireUpdate, page, dom, TypeOK, Task, Inst
<1>4. ASSUME NEW b \in Batch, Render(b) PROVE TypeOK'
    BY <1>4, BatchAssumption DEF Render, Insert, page, TypeOK, Inst
<1>5. ASSUME NEW b \in Batch \cup {{}}, ArrowClick(b) PROVE TypeOK'
    <2>1. b \subseteq SideAnchor
        BY BatchAssumption
    <2>2. toggles' \in 0..MaxToggles
        BY <1>5, TogglesAssumption DEF ArrowClick, TypeOK
    <2>3. pendUpd' \in [Inst -> Nat]
        BY <1>5 DEF ArrowClick, Insert, TypeOK
    <2>4. QED
        BY <1>5, <2>1, <2>2, <2>3 DEF ArrowClick, Insert, page, TypeOK
<1>6. ASSUME NEW l \in SideAnchor, ClickLink(l) PROVE TypeOK'
    BY <1>6, SideAssumption DEF ClickLink, page, ctl, TypeOK
<1>7. CASE UpdateSkipped
    BY <1>7 DEF UpdateSkipped, page, dom, Return, TypeOK, Task, NoTask
<1>8. CASE UpdateNoLinks
    BY <1>8 DEF UpdateNoLinks, page, dom, Return, TypeOK, Task, NoTask
<1>9. CASE UpdateBegin
    <2>1. {href[a] : a \in rendered} \subseteq Href
        BY SideAssumption DEF TypeOK
    <2>2. QED
        BY <1>9, <2>1 DEF UpdateBegin, page, dom, HashLinks, TypeOK, Task, NoTask
<1>10. CASE Visit
    <2>1. PICK l \in todo : /\ todo' = todo \ {l}
                            /\ IF l \notin processed /\ Target(l) # None
                               THEN /\ href' = [href EXCEPT ![l] = Target(l)]
                                    /\ processed' = processed \cup {l}
                               ELSE UNCHANGED <<href, processed>>
        BY <1>10 DEF Visit
    <2>2. l \in Anchor
        BY SideAssumption DEF TypeOK
    <2>3. Target(l) \in Href \cup {None}
        BY <2>2, TargetType
    <2>4. QED
        BY <1>10, <2>1, <2>3 DEF Visit, page, TypeOK
<1>11. CASE UpdateEnd
    BY <1>11 DEF UpdateEnd, page, dom, Return, TypeOK, Task, NoTask
<1>12. CASE RestoreHighlighting
    <2>1. selected' \subseteq SideAnchor
        <3>1. CASE stored # NoText /\ StoredMatches # {}
            BY <1>12, <3>1, HighlightPick DEF RestoreHighlighting, Highlight, TypeOK
        <3>2. CASE ~(stored # NoText /\ StoredMatches # {})
            BY <1>12, <3>2 DEF RestoreHighlighting, TypeOK
        <3>3. QED
            BY <3>1, <3>2
    <2>2. task \in Task
        BY <1>12 DEF RestoreHighlighting, TypeOK, NoTask
    <2>3. pendDelayed' \subseteq Inst
        BY <1>12, <2>2 DEF RestoreHighlighting, Finish, TypeOK, Task
    <2>4. QED
        BY <1>12, <2>1, <2>3 DEF RestoreHighlighting, Finish, page, TypeOK, NoTask
<1>13. CASE RestoreThrows
    BY <1>13 DEF RestoreThrows, page, dom, TypeOK, NoTask
<1>14. CASE UNCHANGED vars
    BY <1>14 DEF vars, page, dom, ctl, TypeOK
<1>15. QED
    BY <1>1, <1>2, <1>3, <1>4, <1>5, <1>6, <1>7, <1>8, <1>9, <1>10,
       <1>11, <1>12, <1>13, <1>14 DEF Next, TaskStep, Environment

(***************************************************************************)
(* Type correctness: every handler of both runs of runScript, every step  *)
(* of the update loop and every insertion by the generator keeps the      *)
(* state well typed.                                                       *)
(***************************************************************************)
THEOREM TypeCorrect == Spec => []TypeOK
BY TypeInit, TypeStep, PTL DEF Spec

-----------------------------------------------------------------------------
(***************************************************************************)
(* HighlightConsistent is not inductive by itself: a click on a link that  *)
(* is not rendered would not clear the highlighted entry, since the       *)
(* handler clears only the rendered ones (line 214).  The strengthening   *)
(* says every link a pass visits or rewrites, and every highlighted one,  *)
(* has been inserted into the sidebar.                                     *)
(***************************************************************************)
InSidebar ==
    /\ processed \subseteq rendered
    /\ todo \subseteq rendered
    /\ selected \subseteq rendered

HighlightInv == TypeOK /\ InSidebar /\ HighlightConsistent

(* The initial states satisfy the strengthened invariant. *)
LEMMA HighlightInit == Init => HighlightInv
BY TypeInit DEF Init, HighlightInv, InSidebar, HighlightConsistent

(***************************************************************************)
(* Every step keeps the visited, rewritten and highlighted links inside   *)
(* the rendered sidebar, whether or not storage works.                     *)
(***************************************************************************)
LEMMA InSidebarStep == TypeOK /\ InSidebar /\ [Next]_vars => InSidebar'
<1> SUFFICES ASSUME TypeOK, InSidebar, [Next]_vars PROVE InSidebar'
    OBVIOUS
<1>1. ASSUME NEW i \in Inst, RunScript(i) \/ FireDelayed(i) \/ FireUpdate(i)
      PROVE  InSidebar'
    BY <1>1 DEF RunScript, FireDelayed, FireUpdate, dom, InSidebar
<1>2. ASSUME NEW b, NEW v, Insert(b, v) PROVE InSidebar'
    BY <1>2 DEF Insert, InSidebar
<1>3. ASSUME NEW l \in SideAnchor, ClickLink(l) PROVE InSidebar'
    BY <1>3 DEF ClickLink, ctl, InSidebar
<1>4. CASE UpdateSkipped \/ UpdateNoLinks \/ UpdateEnd \/ RestoreThrows
    BY <1>4 DEF UpdateSkipped, UpdateNoLinks, UpdateEnd, RestoreThrows, dom, InSidebar
<1>5. CASE UpdateBegin
    BY <1>5 DEF UpdateBegin, HashLinks, dom, InSidebar
<1>6. CASE Visit
    BY <1>6 DEF Visit, InSidebar
<1>7. CASE RestoreHighlighting
    <2>1. CASE stored # NoText /\ StoredMatches # {}
        <3>1. Latest(StoredMatches) \in rendered
            BY <2>1, HighlightPick DEF StoredMatches
        <3>2. QED
            BY <1>7, <2>1, <3>1 DEF RestoreHighlighting, Highlight, InSidebar
    <2>2. CASE ~(stored # NoText /\ StoredMatches # {})
        BY <1>7, <2>2 DEF RestoreHighlighting, InSidebar
    <2>3. QED
        BY <2>1, <2>2
<1>8. CASE UNCHANGED vars
    BY <1>8 DEF vars, dom, ctl, InSidebar
<1>9. QED
    BY <1>1, <1>2, <1>3, <1>4, <1>5, <1>6, <1>7, <1>8
    DEF Next, TaskStep, Environment, Render, ArrowClick

(***************************************************************************)
(* Every step keeps the strengthened invariant, when sessionStorage       *)
(* accepts the text a click stores.                                        *)
(***************************************************************************)
LEMMA HighlightStep ==
    ASSUME StorageWorks
    PROVE  HighlightInv /\ [Next]_vars => HighlightInv'
<1> SUFFICES ASSUME HighlightInv, [Next]_vars
             PROVE  HighlightConsistent'
    BY TypeStep, InSidebarStep DEF HighlightInv
<1> USE DEF HighlightInv
<1>1. ASSUME NEW i \in Inst, RunScript(i) \/ FireDelayed(i) \/ FireUpdate(i)
      PROVE  HighlightConsistent'
    BY <1>1 DEF RunScript, FireDelayed, FireUpdate, page, dom, HighlightConsistent
<1>2. ASSUME NEW b, NEW v, Insert(b, v)
      PROVE  HighlightConsistent'
    BY <1>2 DEF Insert, page, HighlightConsistent
<1>3. ASSUME NEW l \in SideAnchor, ClickLink(l)
      PROVE  HighlightConsistent'
    <2>1. l \in rendered
        BY <1>3 DEF ClickLink, InSidebar
    <2>2. selected' = {l}
        BY <1>3, <2>1 DEF ClickLink, InSidebar
    <2>3. stored' = label[l] /\ label' = label /\ label[l] \in Text
        BY <1>3, SideAssumption DEF ClickLink, page, TypeOK
    <2>4. QED
        BY <2>2, <2>3, SentinelAssumption DEF HighlightConsistent
<1>4. CASE UpdateSkipped \/ UpdateNoLinks \/ UpdateEnd \/ RestoreThrows
    BY <1>4 DEF UpdateSkipped, UpdateNoLinks, UpdateEnd, RestoreThrows, page, dom,
                HighlightConsistent
<1>5. CASE UpdateBegin
    BY <1>5 DEF UpdateBegin, page, dom, HighlightConsistent
<1>6. CASE Visit
    BY <1>6 DEF Visit, page, HighlightConsistent
<1>7. CASE RestoreHighlighting
    <2>1. CASE stored # NoText /\ StoredMatches # {}
        <3>1. Latest(StoredMatches) \in StoredMatches
            BY <2>1, HighlightPick
        <3>2. selected' = (selected \ rendered) \cup {Latest(StoredMatches)}
            BY <1>7, <2>1 DEF RestoreHighlighting, Highlight
        <3>3. selected' = {Latest(StoredMatches)}
            BY <3>2 DEF InSidebar
        <3>4. QED
            BY <1>7, <2>1, <3>1, <3>3
            DEF RestoreHighlighting, page, HighlightConsistent, StoredMatches
    <2>2. CASE ~(stored # NoText /\ StoredMatches # {})
        BY <1>7, <2>2 DEF RestoreHighlighting, page, HighlightConsistent
    <2>3. QED
        BY <2>1, <2>2
<1>8. CASE UNCHANGED vars
    BY <1>8 DEF vars, page, dom, ctl, HighlightConsistent
<1>9. QED
    BY <1>1, <1>2, <1>3, <1>4, <1>5, <1>6, <1>7, <1>8
    DEF Next, TaskStep, Environment, Render, ArrowClick

(***************************************************************************)
(* Session highlight: whatever the interleaving of both runs' updates and  *)
(* restores, link clicks and insertions by the generator, at most one      *)
(* sidebar entry is highlighted and its text is the one in sessionStorage, *)
(* as long as sessionStorage accepts what the click handler stores (the   *)
(* run storage shows the failure when it does not).                       *)
(***************************************************************************)
THEOREM HighlightSafe ==
    ASSUME StorageWorks
    PROVE  Spec => []HighlightConsistent
<1>1. HighlightInv => HighlightConsistent
    BY DEF HighlightInv
<1>2. QED
    BY HighlightInit, HighlightStep, <1>1, PTL DEF Spec

-----------------------------------------------------------------------------
(* No run's flag is set before any task has run. *)
LEMMA UpdatingInit == Init => UpdatingOnlyInPass
BY DEF Init, UpdatingOnlyInPass, NoTask

(***************************************************************************)
(* Every step keeps each run's isUpdating flag in step with its pass:     *)
(* only UpdateBegin sets it, in the task that enters the loop, and every  *)
(* task leaves updateSidebarLinks through UpdateSkipped, UpdateNoLinks or *)
(* UpdateEnd, the last two resetting it.                                   *)
(***************************************************************************)
LEMMA UpdatingStep ==
    TypeOK /\ UpdatingOnlyInPass /\ [Next]_vars => UpdatingOnlyInPass'
<1> SUFFICES ASSUME TypeOK, UpdatingOnlyInPass, [Next]_vars
             PROVE  UpdatingOnlyInPass'
    OBVIOUS
<1>0. task \in Task \cup {NoTask} /\ updating \in [Inst -> BOOLEAN]
    BY DEF TypeOK
<1>1. ASSUME NEW i \in Inst, RunScript(i) \/ FireDelayed(i) \/ FireUpdate(i)
      PROVE  UpdatingOnlyInPass'
    <2>1. \A j \in Inst : ~updating[j]
        BY <1>1 DEF RunScript, FireDelayed, FireUpdate, UpdatingOnlyInPass, NoTask
    <2>2. task'.pc = "update" /\ updating' = updating
        BY <1>1 DEF RunScript, FireDelayed, FireUpdate
    <2>3. QED
        BY <2>1, <2>2 DEF UpdatingOnlyInPass
<1>2. ASSUME NEW b, NEW v, Insert(b, v) PROVE UpdatingOnlyInPass'
    BY <1>2 DEF Insert, UpdatingOnlyInPass
<1>3. ASSUME NEW l \in SideAnchor, ClickLink(l) PROVE UpdatingOnlyInPass'
    BY <1>3 DEF ClickLink, ctl, UpdatingOnlyInPass
<1>4. CASE UpdateSkipped
    <2>1. \A j \in Inst : ~updating[j]
        BY <1>4 DEF UpdateSkipped, UpdatingOnlyInPass
    <2>2. task'.pc # "visit" /\ updating' = updating
        BY <1>0, <1>4 DEF UpdateSkipped, Return, NoTask, Task
    <2>3. QED
        BY <2>1, <2>2 DEF UpdatingOnlyInPass
<1>5. CASE UpdateNoLinks
    <2>1. \A j \in Inst : ~updating[j]
        BY <1>5 DEF UpdateNoLinks, UpdatingOnlyInPass
    <2>2. task'.pc # "visit" /\ updating' = [updating EXCEPT ![task.inst] = FALSE]
        BY <1>0, <1>5 DEF UpdateNoLinks, Return, NoTask, Task
    <2>3. QED
        BY <1>0, <2>1, <2>2 DEF UpdatingOnlyInPass
<1>6. CASE UpdateBegin
    <2>1. \A j \in Inst : ~updating[j]
        BY <1>6 DEF UpdateBegin, UpdatingOnlyInPass
    <2>2. task \in Task
        BY <1>0, <1>6 DEF UpdateBegin, NoTask
    <2>3. task' = [task EXCEPT !.pc = "visit"]
          /\ updating' = [updating EXCEPT ![task.inst] = TRUE]
        BY <1>6 DEF UpdateBegin
    <2>4. QED
        BY <1>0, <2>1, <2>2, <2>3 DEF UpdatingOnlyInPass, Task
<1>7. CASE Visit
    BY <1>7 DEF Visit, UpdatingOnlyInPass
<1>8. CASE UpdateEnd
    <2>1. task \in Task /\ task.pc = "visit"
        BY <1>0, <1>8 DEF UpdateEnd, NoTask
    <2>2. task'.pc # "visit" /\ updating' = [updating EXCEPT ![task.inst] = FALSE]
        BY <1>0, <1>8 DEF UpdateEnd, Return, NoTask, Task
    <2>3. QED
        BY <1>0, <2>1, <2>2 DEF UpdatingOnlyInPass, Task
<1>9. CASE RestoreHighlighting \/ RestoreThrows
    <2>1. \A j \in Inst : ~updating[j]
        BY <1>9 DEF RestoreHighlighting, RestoreThrows, UpdatingOnlyInPass
    <2>2. task' = NoTask /\ updating' = updating
        BY <1>9 DEF RestoreHighlighting, RestoreThrows, Finish
    <2>3. QED
        BY <2>1, <2>2 DEF UpdatingOnlyInPass, NoTask
<1>10. CASE UNCHANGED vars
    BY <1>10 DEF vars, ctl, UpdatingOnlyInPass
<1>11. QED
    BY <1>1, <1>2, <1>3, <1>4, <1>5, <1>6, <1>7, <1>8, <1>9, <1>10
    DEF Next, TaskStep, Environment, Render, ArrowClick

(***************************************************************************)
(* For every page and every interleaving of the two runs' timers,         *)
(* observers, listeners and follow-ups, a run's isUpdating flag is set    *)
(* exactly while its own pass is in the loop; so the busy check of line   *)
(* 44 never turns an update away, and no early return leaves the flag set *)
(* to block the run's later updates.                                       *)
(***************************************************************************)
THEOREM UpdatingSafe == Spec => []UpdatingOnlyInPass
BY TypeInit, TypeStep, UpdatingInit, UpdatingStep, PTL DEF Spec
=============================================================================
