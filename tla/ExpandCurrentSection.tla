------------------------ MODULE ExpandCurrentSection ------------------------
(***************************************************************************)
(* The section expander of src/docs/format/expand-current-section.js.     *)
(*                                                                         *)
(* The generator renders the navigation tree as nested list items, each   *)
(* with a span.arrow and a label anchor; an item with children has a      *)
(* toggle whose arrow reads '►' (collapsed) or '▼' (expanded), a leaf a    *)
(* blank arrow.  The script polls every 100 ms until the tree has an      *)
(* arrow, then 100 ms later runs expandCurrentSectionPath once: it picks   *)
(* the link of the current page and opens the items on its path (and,     *)
(* off the home page, every collapsed item inside the current one), or,   *)
(* when no link matches, opens the top-level items (home page) or every    *)
(* item of the tree.                                                       *)
(*                                                                         *)
(* Items are the numbers 1..NN in document order; parent[n] is the item   *)
(* enclosing n, 0 for a top-level item.  The generator renders items      *)
(* asynchronously and a user may click toggles at any time.  Each timer   *)
(* callback runs to completion, so it is one step.                         *)
(***************************************************************************)
EXTENDS SidebarTree

CONSTANTS
    Strategy,   \* the strategies of lines 26-62 a link may satisfy (1..4)
    MaxPolls    \* maxWaitMs / 100: polls before the script gives up (50 in the code)

ASSUME StrategyAssumption == Strategy \subseteq 1..4
ASSUME PollsAssumption == MaxPolls \in Nat \ {0}

NoLink == 0

VARIABLES
    match,     \* [Node -> SUBSET Strategy]: strategies the item's link satisfies (static)
    example,   \* [Node -> BOOLEAN]: its text suggests an example and it has a real href (static)
    isHome,    \* the path or title looks like a home page (static)
    phase,     \* "loading", "polling", "scheduled", "done" or "gaveUp"
    polls      \* polls that found no tree: waited / 100

page == <<match, example, isHome>>
vars == <<tree, page, phase, polls>>

(***************************************************************************)
(* pathToCurrent (lines 105-113): the list items the parentElement walk   *)
(* passes from the link up to #nav-tree, the link's own item included.    *)
(* The walk goes from an item to its parent until it leaves the tree, so  *)
(* it collects the least set that holds the item and the parent of each   *)
(* of its members.                                                         *)
(***************************************************************************)
Walked(n, S) == n \in S /\ \A m \in S : parent[m] # 0 => parent[m] \in S
PathToCurrent(n) == {m \in Node : \A S \in SUBSET Node : Walked(n, S) => m \in S}

\* the rendered items inside item n, n included: n.querySelectorAll(...)
RenderedWithin(n) == {d \in inDom : n \in PathToCurrent(d)}

-----------------------------------------------------------------------------
(***************************************************************************)
(* Lines 20-63: the first link, in document order, that satisfies any one *)
(* of the four strategies; else (lines 76-85) the first example link.      *)
(***************************************************************************)
CurrentLink ==
    LET hits == {n \in inDom : match[n] # {}}
        examples == {n \in inDom : example[n]}
    IN  IF hits # {} THEN FirstOf(hits)
        ELSE IF examples # {} THEN FirstOf(examples)
        ELSE NoLink

\* expandAllSections (214-234): click every '►', then write '▼' into every arrow
ExpandAllSections ==
    LET S == Collapsed(glyph, inDom)
    IN  /\ open' = ClickOpen(open, S)
        /\ glyph' = ClickGlyph(glyph, open, S, {n \in inDom : HasToggle(n)})

\* expandMainSectionsOnly (236-261): the top-level items' collapsed toggles
ExpandMainSectionsOnly ==
    LET S == Collapsed(glyph, {n \in inDom : parent[n] = 0})
    IN  /\ open' = ClickOpen(open, S)
        /\ glyph' = ClickGlyph(glyph, open, S, S)

\* mutant: the collapsed arrows inside the current item are collected before the path is opened
ExpandPathStaleCheck(cur) ==
    LET S1 == Collapsed(glyph, PathToCurrent(cur))
        o1 == ClickOpen(open, S1)
        g1 == ClickGlyph(glyph, open, S1, S1)
        S2 == IF isHome THEN {} ELSE Collapsed(glyph, RenderedWithin(cur))
    IN  /\ open' = ClickOpen(o1, S2)
        /\ glyph' = ClickGlyph(g1, o1, S2, S2)

\* mutant: the subsections of pathElements[0], the top-level item, are opened
ExpandPathFromTop(cur) ==
    LET S1 == Collapsed(glyph, PathToCurrent(cur))
        o1 == ClickOpen(open, S1)
        g1 == ClickGlyph(glyph, open, S1, S1)
        S2 == IF isHome THEN {} ELSE Collapsed(g1, RenderedWithin(FirstOf(PathToCurrent(cur))))
    IN  /\ open' = ClickOpen(o1, S2)
        /\ glyph' = ClickGlyph(g1, o1, S2, S2)

(***************************************************************************)
(* Lines 118-146 and expandSubsectionsInPath (149-178): open the          *)
(* collapsed items of the path, then, off the home page, every collapsed  *)
(* item rendered inside the deepest one, checking each arrow as it goes.   *)
(***************************************************************************)
ExpandPath(cur) ==
    LET S1 == Collapsed(glyph, PathToCurrent(cur))
        o1 == ClickOpen(open, S1)
        g1 == ClickGlyph(glyph, open, S1, S1)
        S2 == IF isHome THEN {} ELSE Collapsed(g1, RenderedWithin(cur))
    IN  /\ open' = ClickOpen(o1, S2)
        /\ glyph' = ClickGlyph(g1, o1, S2, S2)

-----------------------------------------------------------------------------
Init ==
    /\ TreeInit
    /\ match \in [Node -> SUBSET Strategy]
    /\ example \in [Node -> BOOLEAN]
    /\ isHome \in BOOLEAN
    /\ phase = "loading"
    /\ polls = 0

\* DOMContentLoaded, or the script loaded late (lines 283-291)
Start ==
    /\ phase = "loading"
    /\ phase' = "polling"
    /\ UNCHANGED <<tree, page, polls>>

\* mutant: the interval is never cleared on timeout (lines 275-278 dropped)
PollNoTimeout ==
    /\ phase = "polling"
    /\ IF inDom # {}
       THEN /\ phase' = "scheduled"
            /\ UNCHANGED polls
       ELSE /\ polls' = polls + 1
            /\ UNCHANGED phase
    /\ UNCHANGED <<tree, page>>

\* mutant: the timeout is checked before the tree
PollTimeoutFirst ==
    /\ phase = "polling"
    /\ polls' = polls + 1
    /\ phase' = IF polls + 1 >= MaxPolls THEN "gaveUp"
                ELSE IF inDom # {} THEN "scheduled" ELSE "polling"
    /\ UNCHANGED <<tree, page>>

\* one tick of the setInterval of waitForSidebarAndExpandCurrent (265-280)
Poll ==
    /\ phase = "polling"
    /\ IF inDom # {}
       THEN /\ phase' = "scheduled"
            /\ UNCHANGED polls
       ELSE /\ polls' = polls + 1
            /\ phase' = IF polls + 1 >= MaxPolls THEN "gaveUp" ELSE "polling"
    /\ UNCHANGED <<tree, page>>

\* the setTimeout(expandCurrentSectionPath, 100) fires (lines 3-147)
Expand ==
    /\ phase = "scheduled"
    /\ phase' = "done"
    /\ IF CurrentLink # NoLink THEN ExpandPath(CurrentLink)
       ELSE IF isHome THEN ExpandMainSectionsOnly
       ELSE ExpandAllSections
    /\ UNCHANGED <<parent, inDom, clicks, page, polls>>

Render(n) == TreeRender(n) /\ UNCHANGED <<page, phase, polls>>

Toggle(n) == TreeToggle(n) /\ UNCHANGED <<page, phase, polls>>

Next ==
    \/ Start \/ Poll \/ Expand
    \/ \E n \in Node : Render(n) \/ Toggle(n)

(* The page's load event, the interval and the timeout fire. *)
Fairness == WF_vars(Start) /\ WF_vars(Poll) /\ WF_vars(Expand)

Spec == Init /\ [][Next]_vars
FairSpec == Spec /\ Fairness

-----------------------------------------------------------------------------
TypeOK ==
    /\ TreeTypeOK
    /\ match \in [Node -> SUBSET Strategy]
    /\ example \in [Node -> BOOLEAN]
    /\ isHome \in BOOLEAN
    /\ phase \in {"loading", "polling", "scheduled", "done", "gaveUp"}
    /\ polls \in 0..MaxPolls

(***************************************************************************)
(* The tree of the spec (section 2): the items inside item m are those    *)
(* that follow it in document order up to the first one outside it.       *)
(***************************************************************************)
Inside(m) == {j \in Node : j > m /\ \A i \in m + 1 .. j : parent[i] >= m}
AncestorPath(n) == {m \in Node : n \in Inside(m)} \cup {n}
TopLevel == {n \in Node : parent[n] = 0}

(***************************************************************************)
(* Spec 4.2 and section 8: the pass collapses nothing; with a current      *)
(* link it opens every item of the link's Ancestor Path and, off the home  *)
(* page, every rendered item inside it, and touches nothing else; without *)
(* one it opens exactly the top-level items on the home page and every    *)
(* rendered item elsewhere.                                                *)
(***************************************************************************)
ExpandStep == phase = "scheduled" /\ phase' = "done"

RevealsBranch ==
    ExpandStep =>
        LET cur == CurrentLink
            changed == {n \in Node : open'[n] # open[n]}
            toggles(S) == {n \in S \cap inDom : HasToggle(n)}
        IN  /\ \A n \in changed : open'[n]
            /\ IF cur # NoLink
               THEN /\ \A a \in toggles(AncestorPath(cur)) : open'[a]
                    /\ ~isHome => \A d \in toggles(Inside(cur)) : open'[d]
                    /\ changed \subseteq AncestorPath(cur) \cup (IF isHome THEN {} ELSE Inside(cur))
               ELSE IF isHome
               THEN /\ \A t \in toggles(TopLevel) : open'[t]
                    /\ changed \subseteq TopLevel
               ELSE \A n \in toggles(Node) : open'[n]

(* Every step of the page keeps to RevealsBranch: the one-shot pass of    *)
(* expandCurrentSectionPath reveals the current branch and nothing else.  *)
RevealsCurrentBranch == [][RevealsBranch]_vars

(***************************************************************************)
(* Once the tree has an arrow while the script still polls, the pass runs: *)
(* the interval notices it and the 100 ms timer fires.                     *)
(***************************************************************************)
ExpandsOnceRendered == (phase = "polling" /\ inDom # {}) ~> (phase = "done")

(***************************************************************************)
(* Spec 4.2: the four strategies are tried in order, the first that       *)
(* succeeds wins: the link chosen is the first one satisfying strategy 1, *)
(* else the first satisfying strategy 2, and so on.                        *)
(***************************************************************************)
SpecCurrentLink ==
    LET used == {k \in Strategy : \E n \in inDom : k \in match[n]}
    IN  IF used = {} THEN CurrentLink
        ELSE FirstOf({n \in inDom : FirstOf(used) \in match[n]})

StrategiesInOrder == [][ExpandStep => CurrentLink = SpecCurrentLink]_vars

(***************************************************************************)
(* Spec 4.2: reveal the current page's entry without exposing unrelated    *)
(* subsections: on a page other than the home page whose entry the tree   *)
(* has, the pass does not fall back to opening every item.                 *)
(***************************************************************************)
NoExpandAllWhenListed ==
    [][ExpandStep /\ ~isHome /\ (\E n \in Node : match[n] # {}) => CurrentLink # NoLink]_vars
=============================================================================
