-------------------------- MODULE ExpandAllSidebar --------------------------
(***************************************************************************)
(* The expand-everything variant of src/docs/format/expand-all-sidebar.js. *)
(* The script polls every 100 ms until the tree has an arrow, then runs    *)
(* expandStep at once: click every arrow reading '►', write '▼' into every *)
(* arrow, and, if it clicked any and has run fewer than maxTries times,    *)
(* run again 200 ms later.  The generator renders the children of an      *)
(* expanded item asynchronously (SidebarTree); when PromptRender holds it *)
(* has rendered everything it can before each timer fires.                 *)
(***************************************************************************)
EXTENDS SidebarTree

CONSTANTS
    MaxPolls,      \* maxWaitMs / 100: polls before the script gives up (50 in the code)
    MaxTries,      \* maxTries of expandAllSidebarSectionsRecursive (10 in the code)
    PromptRender   \* the generator renders all it can within 200 ms of a click

ASSUME PollsAssumption == MaxPolls \in Nat \ {0}
ASSUME TriesAssumption == MaxTries \in Nat \ {0}
ASSUME PromptAssumption == PromptRender \in BOOLEAN

VARIABLES
    phase,   \* "loading", "polling", "stepping" (an expandStep is queued), "finished" or "gaveUp"
    polls,   \* polls that found no tree: waited / 100
    tries    \* expandStep runs so far

vars == <<tree, phase, polls, tries>>

\* mutant: the stop test counts the run twice (tries + 1 < maxTries after tries++)
StepOffByOne ==
    LET S == Collapsed(glyph, inDom)
    IN  /\ open' = ClickOpen(open, S)
        /\ glyph' = ClickGlyph(glyph, open, S, {n \in inDom : HasToggle(n)})
        /\ tries' = tries + 1
        /\ phase' = IF S # {} /\ tries + 2 < MaxTries THEN "stepping" ELSE "finished"

\* mutant: the run goes on while it finds collapsed arrows, without a limit
StepNoLimit ==
    LET S == Collapsed(glyph, inDom)
    IN  /\ open' = ClickOpen(open, S)
        /\ glyph' = ClickGlyph(glyph, open, S, {n \in inDom : HasToggle(n)})
        /\ tries' = tries + 1
        /\ phase' = IF S # {} THEN "stepping" ELSE "finished"

\* mutant: every arrow is clicked, not only those reading '►' (line 7 dropped)
StepClickAll ==
    LET S == {n \in inDom : HasToggle(n)}
    IN  /\ open' = ClickOpen(open, S)
        /\ glyph' = ClickGlyph(glyph, open, S, {n \in inDom : HasToggle(n)})
        /\ tries' = tries + 1
        /\ phase' = IF S # {} /\ tries + 1 < MaxTries THEN "stepping" ELSE "finished"

(***************************************************************************)
(* expandStep (lines 5-25): click the arrows reading '►', write '▼' into   *)
(* every arrow (all read '►' or '▼'), and queue the next run if it clicked *)
(* any and tries < maxTries.                                                *)
(***************************************************************************)
Step ==
    LET S == Collapsed(glyph, inDom)
    IN  /\ open' = ClickOpen(open, S)
        /\ glyph' = ClickGlyph(glyph, open, S, {n \in inDom : HasToggle(n)})
        /\ tries' = tries + 1
        /\ phase' = IF S # {} /\ tries + 1 < MaxTries THEN "stepping" ELSE "finished"

\* a timer fires only once the generator is done, if it renders promptly
TimerMayFire == PromptRender => Renderable = {}

Init ==
    /\ TreeInit
    /\ phase = "loading"
    /\ polls = 0
    /\ tries = 0

\* DOMContentLoaded, or the script loaded late (lines 48-56)
Start ==
    /\ phase = "loading"
    /\ phase' = "polling"
    /\ UNCHANGED <<tree, polls, tries>>

\* one tick of the interval (lines 31-45); on success the first expandStep runs at once
Poll ==
    /\ phase = "polling"
    /\ TimerMayFire
    /\ IF inDom # {}
       THEN /\ Step
            /\ UNCHANGED <<parent, inDom, clicks, polls>>
       ELSE /\ polls' = polls + 1
            /\ phase' = IF polls + 1 >= MaxPolls THEN "gaveUp" ELSE "polling"
            /\ UNCHANGED <<tree, tries>>

\* the setTimeout(expandStep, 200) fires
FireStep ==
    /\ phase = "stepping"
    /\ TimerMayFire
    /\ Step
    /\ UNCHANGED <<parent, inDom, clicks, polls>>

Render(n) == TreeRender(n) /\ UNCHANGED <<phase, polls, tries>>

Toggle(n) == TreeToggle(n) /\ UNCHANGED <<phase, polls, tries>>

Next ==
    \/ Start \/ Poll \/ FireStep
    \/ \E n \in Node : Render(n) \/ Toggle(n)

(***************************************************************************)
(* The load event and the timers fire, and the generator renders the      *)
(* children of an expanded item once their data has loaded.               *)
(***************************************************************************)
Fairness ==
    /\ WF_vars(Start) /\ WF_vars(Poll) /\ WF_vars(FireStep)
    /\ \A n \in Node : WF_vars(Render(n))

Spec == Init /\ [][Next]_vars
FairSpec == Spec /\ Fairness

-----------------------------------------------------------------------------
TypeOK ==
    /\ TreeTypeOK
    /\ phase \in {"loading", "polling", "stepping", "finished", "gaveUp"}
    /\ polls \in 0..MaxPolls
    /\ tries \in 0..MaxTries

(***************************************************************************)
(* Spec 4.2: the variant expands every collapsible node of the whole tree: *)
(* once the poll has seen the tree, every item is eventually rendered and *)
(* every item with children is expanded for good (in a run where nobody    *)
(* clicks a toggle).                                                       *)
(***************************************************************************)
TreeFullyExpanded ==
    (phase = "polling" /\ inDom # {})
        ~> [](\A n \in Node : n \in inDom /\ (HasToggle(n) => open[n]))

(***************************************************************************)
(* Spec 4.2, one run of expandStep at a time, with the user clicking      *)
(* toggles in between: a run closes no item, and when it returns every    *)
(* toggle rendered at that moment is expanded.  It depends on the filter  *)
(* of line 7: clicking an arrow that reads '▼' would close its item.       *)
(***************************************************************************)
StepExpands ==
    tries' = tries + 1 =>
        /\ \A n \in Node : open[n] => open'[n]
        /\ \A n \in inDom : HasToggle(n) => open'[n]

StepExpandsRendered == [][StepExpands]_vars
=============================================================================
