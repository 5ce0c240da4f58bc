----------------------- MODULE ExpandCurrentSectionProofs -----------------------
(***************************************************************************)
(* Proofs about the current-section expander, for every tree, every page  *)
(* and every poll limit.                                                   *)
(***************************************************************************)
EXTENDS ExpandCurrentSection, SidebarTreeProofs

(* While the script waits, it has polled fewer than maxWaitMs / 100 times. *)
Waiting == phase \in {"loading", "polling"} => polls < MaxPolls

CurInv == TypeOK /\ GlyphShowsState /\ Waiting

(* The initial states satisfy the invariant. *)
LEMMA CurInit == Init => CurInv
BY PollsAssumption, ClicksAssumption
DEF Init, TreeInit, CurInv, TypeOK, TreeTypeOK, GlyphShowsState, Waiting

(***************************************************************************)
(* The path pass: the path loop clicks the collapsed items of the path   *)
(* and writes '▼' into them; expandSubsectionsInPath then reads the       *)
(* arrows again, after the path loop, and clicks the ones still reading   *)
(* '►' inside the current item.  Both keep the arrows truthful.           *)
(***************************************************************************)
LEMMA PathKeepsTruth ==
    ASSUME NEW cur, glyph \in [Node -> BOOLEAN], open \in [Node -> BOOLEAN],
           Truthful(glyph, open), ExpandPath(cur)
    PROVE  open' \in [Node -> BOOLEAN] /\ glyph' \in [Node -> BOOLEAN] /\ Truthful(glyph', open')
<1> DEFINE S1 == Collapsed(glyph, PathToCurrent(cur))
           o1 == ClickOpen(open, S1)
           g1 == ClickGlyph(glyph, open, S1, S1)
           T2 == IF isHome THEN {} ELSE RenderedWithin(cur)
<1>1. o1 \in [Node -> BOOLEAN] /\ g1 \in [Node -> BOOLEAN] /\ Truthful(g1, o1)
    BY ClickCollapsed
<1>2. (IF isHome THEN {} ELSE Collapsed(g1, RenderedWithin(cur))) = Collapsed(g1, T2)
    BY DEF Collapsed
<1>3. /\ open' = ClickOpen(o1, Collapsed(g1, T2))
      /\ glyph' = ClickGlyph(g1, o1, Collapsed(g1, T2), Collapsed(g1, T2))
    BY <1>2 DEF ExpandPath
<1>4. QED
    BY <1>1, <1>3, ClickCollapsed

(* The one-shot pass keeps the state well typed and the arrows truthful. *)
LEMMA ExpandKeeps ==
    ASSUME TypeOK, GlyphShowsState, Expand
    PROVE  TypeOK' /\ GlyphShowsState'
<1>0. Truthful(glyph, open) /\ glyph \in [Node -> BOOLEAN] /\ open \in [Node -> BOOLEAN]
    BY DEF TypeOK, TreeTypeOK, GlyphShowsState, Truthful
<1>1. open' \in [Node -> BOOLEAN] /\ glyph' \in [Node -> BOOLEAN] /\ Truthful(glyph', open')
    <2>1. CASE CurrentLink # NoLink
        BY <1>0, <2>1, PathKeepsTruth DEF Expand
    <2>2. CASE CurrentLink = NoLink /\ isHome
        BY <1>0, <2>2, ClickCollapsed DEF Expand, ExpandMainSectionsOnly
    <2>3. CASE CurrentLink = NoLink /\ ~isHome
        <3> DEFINE S == Collapsed(glyph, inDom)
                   W == {n \in inDom : HasToggle(n)}
        <3>1. \A n \in W \cap Node : HasToggle(n) => (n \in S <=> ~glyph[n])
            BY DEF Collapsed
        <3>2. open' = ClickOpen(open, S) /\ glyph' = ClickGlyph(glyph, open, S, W)
            BY <2>3 DEF Expand, ExpandAllSections
        <3>3. QED
            BY <1>0, <3>1, <3>2, ClickKeepsTruth
    <2>4. QED
        BY <2>1, <2>2, <2>3
<1>2. UNCHANGED <<parent, inDom, clicks, page, polls>> /\ phase' = "done"
    BY DEF Expand
<1>3. \A n \in Node : HasToggle(n)' <=> HasToggle(n)
    BY <1>2 DEF HasToggle
<1>4. QED
    BY <1>1, <1>2, <1>3 DEF TypeOK, TreeTypeOK, GlyphShowsState, Truthful, page

(* Every step keeps the invariant. *)
LEMMA CurStep == CurInv /\ [Next]_vars => CurInv'
<1> SUFFICES ASSUME CurInv, [Next]_vars PROVE CurInv'
    OBVIOUS
<1> USE DEF CurInv
<1>1. CASE Start
    BY <1>1 DEF Start, tree, page, TypeOK, TreeTypeOK, GlyphShowsState, HasToggle, Waiting
<1>2. CASE Poll
    <2>1. polls' \in 0..MaxPolls /\ Waiting'
        BY <1>2, PollsAssumption DEF Poll, Waiting, TypeOK
    <2>2. phase' \in {"polling", "scheduled", "gaveUp"} /\ UNCHANGED <<tree, page>>
        BY <1>2 DEF Poll
    <2>3. QED
        BY <2>1, <2>2 DEF tree, page, TypeOK, TreeTypeOK, GlyphShowsState, HasToggle
<1>3. CASE Expand
    BY <1>3, ExpandKeeps DEF Expand, Waiting
<1>4. ASSUME NEW n \in Node, Render(n) PROVE CurInv'
    BY <1>4 DEF Render, TreeRender, page, TypeOK, TreeTypeOK, GlyphShowsState, HasToggle, Waiting
<1>5. ASSUME NEW n \in Node, Toggle(n) PROVE CurInv'
    <2>1. TreeTypeOK' /\ GlyphShowsState'
        BY <1>5, ToggleKeepsTruth DEF Toggle, TypeOK
    <2>2. QED
        BY <1>5, <2>1 DEF Toggle, page, TypeOK, Waiting
<1>6. CASE UNCHANGED vars
    BY <1>6 DEF vars, tree, page, TypeOK, TreeTypeOK, GlyphShowsState, HasToggle, Waiting
<1>7. QED
    BY <1>1, <1>2, <1>3, <1>4, <1>5, <1>6 DEF Next

-----------------------------------------------------------------------------
(***************************************************************************)
(* The parentElement walk.  In a tree numbered in document order, the     *)
(* items the walk passes from n are exactly n's Ancestor Path of the spec: *)
(* n and the items n lies inside.  The walk's set is the least one closed *)
(* under parent, so one inclusion needs no induction; the other takes the *)
(* first item inside m from which the walk would miss m.                   *)
(***************************************************************************)
TreeShape == parent \in [Node -> 0..NN] /\ IsTree(parent)

(* An item lies inside its parent. *)
LEMMA InsideParent ==
    ASSUME TreeShape, NEW m \in Node, parent[m] # 0
    PROVE  parent[m] \in Node /\ m \in Inside(parent[m])
BY DEF TreeShape, IsTree, Inside, Node

(* Lying inside is transitive. *)
LEMMA InsideTrans ==
    ASSUME TreeShape, NEW p \in Node, NEW m \in Inside(p), NEW n \in Inside(m)
    PROVE  n \in Inside(p)
<1>1. m \in Node /\ m > p /\ \A i \in p + 1 .. m : parent[i] >= p
    BY DEF Inside
<1>2. n \in Node /\ n > m /\ \A i \in m + 1 .. n : parent[i] >= m
    BY DEF Inside
<1>3. ASSUME NEW i \in p + 1 .. n PROVE parent[i] >= p
    <2>0. i \in Node
        BY <1>2, NNAssumption DEF Node
    <2>1. parent[i] \in 0..NN
        BY <2>0 DEF TreeShape
    <2>2. CASE i <= m
        BY <1>1, <2>2
    <2>3. CASE i > m
        BY <1>1, <1>2, <2>1, <2>3 DEF Node
    <2>4. QED
        BY <1>1, <1>2, <2>2, <2>3 DEF Node
<1>4. QED
    BY <1>1, <1>2, <1>3 DEF Inside, Node

(* The Ancestor Path of n is closed under parent. *)
LEMMA AncestorsWalked ==
    ASSUME TreeShape, NEW n \in Node
    PROVE  AncestorPath(n) \in SUBSET Node /\ Walked(n, AncestorPath(n))
<1>1. ASSUME NEW m \in AncestorPath(n), parent[m] # 0
      PROVE  parent[m] \in AncestorPath(n)
    <2>1. m \in Node /\ parent[m] \in Node /\ m \in Inside(parent[m])
        BY <1>1, InsideParent DEF AncestorPath
    <2>2. CASE m = n
        BY <2>1, <2>2 DEF AncestorPath
    <2>3. CASE m # n
        <3>1. n \in Inside(m)
            BY <2>3 DEF AncestorPath
        <3>2. QED
            BY <2>1, <3>1, InsideTrans DEF AncestorPath
    <2>4. QED
        BY <2>2, <2>3
<1>2. QED
    BY <1>1 DEF AncestorPath, Walked

(* The walk from n reaches every item n lies inside. *)
LEMMA WalkReaches ==
    ASSUME TreeShape, NEW n \in Node, NEW m \in Node, n \in Inside(m)
    PROVE  m \in PathToCurrent(n)
<1> SUFFICES ASSUME NEW S \in SUBSET Node, Walked(n, S) PROVE m \in S
    BY DEF PathToCurrent
<1> SUFFICES ASSUME m \notin S PROVE FALSE
    OBVIOUS
<1> DEFINE C == Inside(m) \cap S
           j == FirstOf(C)
<1>1. C \in SUBSET Node /\ C # {}
    BY DEF Walked, Inside
<1>2. j \in C /\ \A k \in C : j <= k
    BY <1>1, FirstOfSpec
<1>3. j \in Node /\ j \in S /\ j > m /\ \A i \in m + 1 .. j : parent[i] >= m
    BY <1>2 DEF Inside
<1>4. parent[j] \in 0..NN /\ parent[j] < j /\ parent[j] >= m
    <2>1. parent[j] \in 0..NN /\ (parent[j] = 0 \/ parent[j] < j)
        BY <1>3 DEF TreeShape, IsTree
    <2>2. parent[j] >= m
        BY <1>3, <2>1 DEF Node
    <2>3. QED
        BY <2>1, <2>2, <1>3 DEF Node
<1>5. parent[j] \in S
    <2>1. parent[j] # 0
        BY <1>4 DEF Node
    <2>2. QED
        BY <1>3, <2>1 DEF Walked
<1>6. parent[j] \in Inside(m)
    <2>1. parent[j] # m
        BY <1>5
    <2>2. parent[j] \in Node /\ parent[j] > m
        BY <1>4, <2>1 DEF Node
    <2>3. \A i \in m + 1 .. parent[j] : parent[i] >= m
        BY <1>3, <1>4, <2>2 DEF Node
    <2>4. QED
        BY <2>2, <2>3 DEF Inside
<1>7. parent[j] \in C
    BY <1>5, <1>6
<1>8. j <= parent[j]
    BY <1>2, <1>7
<1>9. QED
    BY <1>3, <1>4, <1>8 DEF Node

(* pathToCurrent is the spec's Ancestor Path. *)
LEMMA PathIsAncestry ==
    ASSUME TreeShape, NEW n \in Node
    PROVE  PathToCurrent(n) = AncestorPath(n)
<1>1. PathToCurrent(n) \subseteq AncestorPath(n)
    BY AncestorsWalked DEF PathToCurrent
<1>2. n \in PathToCurrent(n)
    BY DEF PathToCurrent, Walked
<1>3. QED
    BY <1>1, <1>2, WalkReaches DEF AncestorPath

(* The tree's shape never changes. *)
LEMMA ShapeKept == Spec => []TreeShape
<1>1. Init => TreeShape
    BY DEF Init, TreeInit, TreeShape
<1>2. TreeShape /\ [Next]_vars => TreeShape'
    <2> SUFFICES ASSUME TreeShape, [Next]_vars PROVE UNCHANGED parent
        BY DEF TreeShape, IsTree
    <2>1. CASE UNCHANGED vars
        BY <2>1 DEF vars, tree
    <2>2. QED
        BY <2>1 DEF Next, Start, Poll, Expand, Render, Toggle, TreeRender, TreeToggle, tree
<1>3. QED
    BY <1>1, <1>2, PTL DEF Spec

(* Only the one-shot pass takes the script from "scheduled" to "done". *)
LEMMA ExpandStepIsExpand ==
    ASSUME [Next]_vars, ExpandStep PROVE Expand
<1>1. ~Start /\ ~Poll
    BY DEF ExpandStep, Start, Poll
<1>2. \A n \in Node : ~Render(n) /\ ~Toggle(n)
    BY DEF ExpandStep, Render, Toggle
<1>3. ~UNCHANGED vars
    BY DEF ExpandStep, vars
<1>4. QED
    BY <1>1, <1>2, <1>3 DEF Next

(* The current link, when there is one, is a rendered item. *)
LEMMA CurrentLinkRendered ==
    ASSUME TypeOK, CurrentLink # NoLink
    PROVE  CurrentLink \in inDom
<1> DEFINE hits == {n \in inDom : match[n] # {}}
           examples == {n \in inDom : example[n]}
<1>1. hits \in SUBSET Node /\ examples \in SUBSET Node
    BY DEF TypeOK, TreeTypeOK
<1>2. CASE hits # {}
    BY <1>1, <1>2, FirstOfSpec DEF CurrentLink
<1>3. CASE hits = {} /\ examples # {}
    BY <1>1, <1>3, FirstOfSpec DEF CurrentLink
<1>4. CASE hits = {} /\ examples = {}
    BY <1>4 DEF CurrentLink
<1>5. QED
    BY <1>2, <1>3, <1>4

(* querySelectorAll inside the current item: its rendered descendants. *)
LEMMA RenderedInside ==
    ASSUME TypeOK, TreeShape, NEW cur \in Node
    PROVE  RenderedWithin(cur) = {d \in inDom : d = cur \/ d \in Inside(cur)}
<1>1. ASSUME NEW d \in inDom PROVE cur \in PathToCurrent(d) <=> (d = cur \/ d \in Inside(cur))
    <2>1. d \in Node
        BY DEF TypeOK, TreeTypeOK
    <2>2. QED
        BY <2>1, PathIsAncestry DEF AncestorPath
<1>2. QED
    BY <1>1 DEF RenderedWithin

(***************************************************************************)
(* The one-shot pass with a current link: the path loop opens the         *)
(* collapsed items of the path, expandSubsectionsInPath those still       *)
(* collapsed inside the current item.  Both passes only open items, the   *)
(* first leaves every toggle of the path open, the second every toggle    *)
(* rendered inside the item.                                               *)
(***************************************************************************)
LEMMA PathReveals ==
    ASSUME TypeOK, GlyphShowsState, TreeShape, NEW cur \in inDom, ExpandPath(cur)
    PROVE  /\ \A n \in Node : open[n] => open'[n]
           /\ \A n \in Node : open'[n] # open[n]
                 => n \in AncestorPath(cur) \cup (IF isHome THEN {} ELSE Inside(cur))
           /\ \A n \in AncestorPath(cur) : HasToggle(n) => open'[n]
           /\ ~isHome => \A n \in Inside(cur) \cap inDom : HasToggle(n) => open'[n]
<1> DEFINE P == PathToCurrent(cur)
           S1 == Collapsed(glyph, P)
           o1 == ClickOpen(open, S1)
           g1 == ClickGlyph(glyph, open, S1, S1)
           T2 == IF isHome THEN {} ELSE RenderedWithin(cur)
<1>0. cur \in Node /\ glyph \in [Node -> BOOLEAN] /\ open \in [Node -> BOOLEAN]
      /\ Truthful(glyph, open)
    BY DEF TypeOK, TreeTypeOK, GlyphShowsState, Truthful
<1>1. o1 \in [Node -> BOOLEAN] /\ g1 \in [Node -> BOOLEAN] /\ Truthful(g1, o1)
    BY <1>0, ClickCollapsed
<1>2. open' = ClickOpen(o1, Collapsed(g1, T2))
    <2>1. (IF isHome THEN {} ELSE Collapsed(g1, RenderedWithin(cur))) = Collapsed(g1, T2)
        BY DEF Collapsed
    <2>2. QED
        BY <2>1 DEF ExpandPath
<1>3. P = AncestorPath(cur)
    BY <1>0, PathIsAncestry
<1>4. T2 \subseteq {cur} \cup (IF isHome THEN {} ELSE Inside(cur))
      /\ (~isHome => Inside(cur) \cap inDom \subseteq T2)
    BY <1>0, RenderedInside
<1>5. cur \in AncestorPath(cur)
    BY DEF AncestorPath
<1>6. ASSUME NEW n \in Node
      PROVE  /\ open[n] => o1[n]
             /\ o1[n] # open[n] => n \in P
             /\ n \in P /\ HasToggle(n) => o1[n]
             /\ o1[n] => open'[n]
             /\ open'[n] # o1[n] => n \in T2
             /\ n \in T2 /\ HasToggle(n) => open'[n]
    <2>1. /\ open[n] => o1[n]
          /\ o1[n] # open[n] => n \in P
          /\ n \in P /\ HasToggle(n) => o1[n]
        BY <1>0, CollapsedOpens
    <2>2. /\ o1[n] => ClickOpen(o1, Collapsed(g1, T2))[n]
          /\ ClickOpen(o1, Collapsed(g1, T2))[n] # o1[n] => n \in T2
          /\ n \in T2 /\ HasToggle(n) => ClickOpen(o1, Collapsed(g1, T2))[n]
        BY <1>1, CollapsedOpens
    <2>3. QED
        BY <1>2, <2>1, <2>2
<1>7. \A n \in Node : open[n] \in BOOLEAN /\ o1[n] \in BOOLEAN /\ open'[n] \in BOOLEAN
    BY <1>0, <1>1, <1>2 DEF ClickOpen
<1>8. \A n \in Node : open[n] => open'[n]
    BY <1>6
<1>9. ASSUME NEW n \in Node, open'[n] # open[n]
      PROVE  n \in AncestorPath(cur) \cup (IF isHome THEN {} ELSE Inside(cur))
    <2>1. n \in P \/ n \in T2
        BY <1>6, <1>9
    <2>2. QED
        BY <2>1, <1>3, <1>4, <1>5
<1>10. ASSUME NEW n \in AncestorPath(cur), HasToggle(n) PROVE open'[n]
    <2>1. n \in Node /\ n \in P
        BY <1>0, <1>3 DEF AncestorPath
    <2>2. QED
        BY <2>1, <1>6, <1>10
<1>11. ~isHome => \A n \in Inside(cur) \cap inDom : HasToggle(n) => open'[n]
    BY <1>4, <1>6 DEF Inside
<1>12. QED
    BY <1>8, <1>9, <1>10, <1>11

(* The fallbacks click the collapsed toggles of a set of rendered items. *)
LEMMA FallbackReveals ==
    ASSUME TypeOK, GlyphShowsState, NEW T, open' = ClickOpen(open, Collapsed(glyph, T))
    PROVE  /\ \A n \in Node : open[n] => open'[n]
           /\ \A n \in Node : open'[n] # open[n] => n \in T
           /\ \A n \in T \cap Node : HasToggle(n) => open'[n]
<1>1. glyph \in [Node -> BOOLEAN] /\ open \in [Node -> BOOLEAN] /\ Truthful(glyph, open)
    BY DEF TypeOK, TreeTypeOK, GlyphShowsState, Truthful
<1>2. QED
    BY <1>1, CollapsedOpens

(* Every step of the page satisfies RevealsBranch. *)
LEMMA RevealStep ==
    ASSUME TypeOK, GlyphShowsState, TreeShape, [Next]_vars
    PROVE  RevealsBranch
<1>1. CASE ~ExpandStep
    BY <1>1 DEF RevealsBranch
<1>2. CASE ExpandStep
    <2>1. Expand
        BY <1>2, ExpandStepIsExpand
    <2>2. TypeOK'
        BY <2>1, ExpandKeeps
    <2>3. \A n \in Node : open[n] \in BOOLEAN /\ open'[n] \in BOOLEAN
        BY <2>2 DEF TypeOK, TreeTypeOK
    <2>4. CASE CurrentLink # NoLink
        <3>1. CurrentLink \in inDom /\ ExpandPath(CurrentLink)
            BY <2>1, <2>4, CurrentLinkRendered DEF Expand
        <3>2. QED
            BY <1>2, <2>3, <2>4, <3>1, PathReveals DEF RevealsBranch
    <2>5. CASE CurrentLink = NoLink /\ isHome
        <3>1. open' = ClickOpen(open, Collapsed(glyph, {n \in inDom : parent[n] = 0}))
            BY <2>1, <2>5 DEF Expand, ExpandMainSectionsOnly
        <3>2. QED
            BY <1>2, <2>3, <2>5, <3>1, FallbackReveals DEF RevealsBranch, TopLevel
    <2>6. CASE CurrentLink = NoLink /\ ~isHome
        <3>1. open' = ClickOpen(open, Collapsed(glyph, inDom))
            BY <2>1, <2>6 DEF Expand, ExpandAllSections
        <3>2. inDom \subseteq Node
            BY DEF TypeOK, TreeTypeOK
        <3>3. QED
            BY <1>2, <2>3, <2>6, <3>1, <3>2, FallbackReveals DEF RevealsBranch
    <2>7. QED
        BY <2>4, <2>5, <2>6
<1>3. QED
    BY <1>1, <1>2

(***************************************************************************)
(* The poll of waitForSidebarAndExpandCurrent stays within maxWaitMs and  *)
(* the script's state stays well typed, for every tree and page.           *)
(***************************************************************************)
THEOREM CurrentTypeCorrect == Spec => []TypeOK
BY CurInit, CurStep, PTL DEF Spec, CurInv

(***************************************************************************)
(* Interleaved with any clicks of the user, the one-shot pass never makes *)
(* an arrow lie: expandSubsectionsInPath reads the arrows after the path  *)
(* loop has rewritten them (line 159), so it never clicks an item the     *)
(* path loop has just opened.                                              *)
(***************************************************************************)
THEOREM CurrentGlyphs == Spec => []GlyphShowsState
BY CurInit, CurStep, PTL DEF Spec, CurInv

(***************************************************************************)
(* For every tree, every page and every interleaving of the generator's   *)
(* rendering and the user's clicks, the one-shot expandCurrentSectionPath *)
(* collapses nothing, opens the current entry's Ancestor Path and, off    *)
(* the home page, every item rendered inside the entry, and touches       *)
(* nothing else; without a current link it opens the top-level items on   *)
(* the home page and every rendered item elsewhere.                        *)
(***************************************************************************)
THEOREM CurrentBranchRevealed == Spec => RevealsCurrentBranch
<1>1. Spec => [](CurInv /\ TreeShape)
    BY CurInit, CurStep, ShapeKept, PTL DEF Spec
<1>2. CurInv /\ TreeShape /\ [Next]_vars => [RevealsBranch]_vars
    BY RevealStep DEF CurInv
<1>3. QED
    BY <1>1, <1>2, PTL DEF Spec, RevealsCurrentBranch
=============================================================================
