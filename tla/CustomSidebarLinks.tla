------------------------- MODULE CustomSidebarLinks -------------------------
(***************************************************************************)
(* The link retargeter of src/docs/custom-sidebar-links.js.               *)
(*                                                                         *)
(* runScript() is run twice per page: once when the DOM is ready and once  *)
(* 100 ms after window "load".  Each run is a closure of its own: its own  *)
(* isUpdating flag, its own MutationObserver and its own click listener on *)
(* the sidebar, its own 500 ms follow-up timer.  updateSidebarLinks()      *)
(* rewrites the href of every sidebar anchor whose href contains '#' and   *)
(* for which one of five strategies finds a target; restoreHighlighting()  *)
(* re-applies the "selected" class from sessionStorage; the click handler  *)
(* of a rewritten anchor moves the "selected" class to it and stores its   *)
(* text.                                                                   *)
(*                                                                         *)
(* JavaScript runs one task at a time, to completion.  A running task is   *)
(* the variable task; while it is not NoTask no other event is handled.    *)
(* The for-loop of updateSidebarLinks is one Visit step per link, in       *)
(* document order, so that the states inside the loop are checked too.    *)
(*                                                                         *)
(* Anchors are the numbers 1..NA in document order.  A display text, a     *)
(* page and a fragment are model values: an href is a record of the page   *)
(* before '#' and whether it has a '#' part.                               *)
(***************************************************************************)
EXTENDS Naturals

CONSTANTS
    NA,          \* number of anchors on the page; anchor a is the a-th in document order
    SideAnchor,  \* the anchors inside the sidebar container
    Batch,       \* the generator inserts the anchors of one batch in one DOM mutation
    Text,        \* display texts (textContent.trim())
    Page,        \* page names: the part of an href before '#'
    MapUrl,      \* sidebarLinkMap: display text -> page
    ProtoText,   \* texts naming a member of Object.prototype ("constructor", ...)
    MaxToggles,  \* bound on clicks on expand/collapse arrows
    StorageWorks, \* sessionStorage.setItem succeeds (it throws when storage is disabled or full)
    None, NoText, NoPage, JunkPage

Anchor == 1..NA

ASSUME NAssumption == NA \in Nat
ASSUME SideAssumption == SideAnchor \subseteq Anchor
ASSUME BatchAssumption ==
    /\ Batch \subseteq (SUBSET SideAnchor) \ {{}}
    /\ \A b, c \in Batch : b # c => b \cap c = {}
ASSUME MapAssumption ==
    /\ DOMAIN MapUrl \subseteq Text
    /\ \A t \in DOMAIN MapUrl : MapUrl[t] \in Page
    /\ ProtoText \subseteq Text \ DOMAIN MapUrl
ASSUME TogglesAssumption == MaxToggles \in Nat
ASSUME StorageAssumption == StorageWorks \in BOOLEAN
ASSUME SentinelAssumption ==
    /\ None \notin Text \cup Page
    /\ NoText \notin Text
    /\ NoPage \notin Page /\ JunkPage \notin Page /\ NoPage # JunkPage

(* The two runs of runScript: 1 on DOMContentLoaded, 2 after window load. *)
Inst == {1, 2}

(***************************************************************************)
(* Hrefs.  "x.html#f" is [page |-> x, frag |-> TRUE]; "#f" has page       *)
(* NoPage.  JunkHref is what `link.href = f` stores when f is a function:  *)
(* the source text of the function, a relative URL without '#'.            *)
(***************************************************************************)
JunkHref == [page |-> JunkPage, frag |-> FALSE]
Href == [page : Page, frag : BOOLEAN]
          \cup {[page |-> NoPage, frag |-> TRUE], JunkHref}
\* href.includes("#")
HasHash(h) == h.frag
\* href.split("#")[0], as an href
BasePage(h) == [page |-> h.page, frag |-> FALSE]
\* the hrefs a heading's link may have to be used: not starting with '#'
HeadingHref == {h \in Href : h.page \in Page}

\* the first (last) element of a set of anchors in document order
Earliest(S) == CHOOSE a \in S : \A b \in S : a <= b
Latest(S) == CHOOSE a \in S : \A b \in S : b <= a

VARIABLES
    label,        \* [Anchor -> Text]: display text of each anchor (static)
    headingHref,  \* [Text -> HeadingHref \cup {None}]: href of the first usable heading link per text (static)
    hasSidebar,   \* a sidebar container exists on this page (static HTML)
    href,         \* [Anchor -> Href]: the href attribute
    rendered,     \* sidebar anchors the generator has inserted so far
    processed,    \* anchors carrying class custom-sidebar-link (and a click handler)
    selected,     \* anchors whose parent element carries class "selected"
    stored,       \* sessionStorage "selectedSidebarLink", or NoText
    started,      \* runs of runScript that have started
    updating,     \* [Inst -> BOOLEAN]: isUpdating of each run
    pendUpd,      \* [Inst -> Nat]: queued setTimeout(updateSidebarLinks, 50 | 100)
    pendDelayed,  \* runs whose 500 ms follow-up (update + restore) is queued
    toggles,      \* clicks on arrows so far
    task,         \* the running JavaScript task, or NoTask
    todo,         \* links of the running updateSidebarLinks not yet visited
    snap,         \* sidebarHrefs of the running updateSidebarLinks
    unseen        \* history: '#'-links rendered and not yet in a pass's snapshot

page == <<label, headingHref, hasSidebar>>
dom == <<href, rendered, processed, selected, stored>>
ctl == <<started, updating, pendUpd, pendDelayed, toggles, task, todo, snap>>
vars == <<page, dom, ctl, unseen>>

NoTask == [inst |-> 0, pc |-> "idle", caller |-> "none"]
Task == [inst : Inst, pc : {"update", "visit", "restore"},
         caller : {"runScript", "delayed", "timer"}]

(* Runs whose observer and arrow-click listener are installed: runScript  *)
(* installs them iff it found the sidebar.                                 *)
Observing == IF hasSidebar THEN started ELSE {}

-----------------------------------------------------------------------------
(***************************************************************************)
(* Target resolution (lines 97-203), for the link l being visited, on the  *)
(* current hrefs.  allPageLinks is every anchor of the page: the content   *)
(* anchors and the rendered sidebar anchors.                               *)
(***************************************************************************)
PageLinks == (Anchor \ SideAnchor) \cup rendered

FirstHref(S) == IF S = {} THEN None ELSE href[Earliest(S)]

\* 1. a heading with the same text whose link does not start with '#'
HeadingTarget(l) == headingHref[label[l]]

\* 2. a page link, not a sidebar href, with the same text and no '#'
SameTextTarget(l) ==
    FirstHref({a \in PageLinks : /\ href[a] \notin snap
                                 /\ label[a] = label[l]
                                 /\ ~HasHash(href[a])})

\* 3. the same, pointing to a page other than the link's base page
OtherPageTarget(l) ==
    FirstHref({a \in PageLinks : /\ href[a] \notin snap
                                 /\ label[a] = label[l]
                                 /\ href[a] # BasePage(href[l])
                                 /\ ~HasHash(href[a])})

\* 4. sidebarLinkMap[linkText]: an inherited member is truthy too
MapTarget(l) ==
    IF label[l] \in DOMAIN MapUrl
    THEN [page |-> MapUrl[label[l]], frag |-> FALSE]
    ELSE IF label[l] \in ProtoText THEN JunkHref ELSE None

\* 5. a page link equal to the link's base page, if it has one
SamePageTarget(l) ==
    IF href[l].page # NoPage /\ \E a \in PageLinks : href[a] = BasePage(href[l])
    THEN BasePage(href[l])
    ELSE None

\* the first strategy that yields a target
FirstFound(c) ==
    LET found == {k \in DOMAIN c : c[k] # None}
    IN  IF found = {} THEN None ELSE c[Earliest(found)]

Target(l) ==
    FirstFound(<<HeadingTarget(l), SameTextTarget(l), OtherPageTarget(l),
                 MapTarget(l), SamePageTarget(l)>>)

-----------------------------------------------------------------------------
Init ==
    /\ label \in [Anchor -> Text]
    /\ headingHref \in [Text -> HeadingHref \cup {None}]
    /\ hasSidebar \in BOOLEAN
    \* a content link with '#' takes part in no strategy: it is left out
    /\ href \in {h \in [Anchor -> Href \ {JunkHref}] :
                    \A a \in Anchor \ SideAnchor : ~HasHash(h[a])}
    /\ rendered = {}
    /\ processed = {}
    /\ selected = {}
    \* left by an earlier page of the same tab
    /\ stored \in Text \cup {NoText}
    /\ started = {}
    /\ updating = [i \in Inst |-> FALSE]
    /\ pendUpd = [i \in Inst |-> 0]
    /\ pendDelayed = {}
    /\ toggles = 0
    /\ task = NoTask
    /\ todo = {}
    /\ snap = {}
    /\ unseen = {}

-----------------------------------------------------------------------------
(* Events, each starting a task or handled at once.                        *)

\* runScript(): install observer and listener if the sidebar is found, then update
RunScript(i) ==
    /\ task = NoTask
    /\ i \notin started
    /\ i = 2 => 1 \in started
    /\ started' = started \cup {i}
    /\ task' = [inst |-> i, pc |-> "update", caller |-> "runScript"]
    /\ UNCHANGED <<page, dom, updating, pendUpd, pendDelayed, toggles, todo, snap, unseen>>

\* the 500 ms follow-up of run i: updateSidebarLinks(); restoreHighlighting()
FireDelayed(i) ==
    /\ task = NoTask
    /\ i \in pendDelayed
    /\ pendDelayed' = pendDelayed \ {i}
    /\ task' = [inst |-> i, pc |-> "update", caller |-> "delayed"]
    /\ UNCHANGED <<page, dom, started, updating, pendUpd, toggles, todo, snap, unseen>>

\* a queued setTimeout(updateSidebarLinks, 50 | 100) of run i
FireUpdate(i) ==
    /\ task = NoTask
    /\ pendUpd[i] > 0
    /\ pendUpd' = [pendUpd EXCEPT ![i] = @ - 1]
    /\ task' = [inst |-> i, pc |-> "update", caller |-> "timer"]
    /\ UNCHANGED <<page, dom, started, updating, pendDelayed, toggles, todo, snap, unseen>>

\* the observer callback: some added node is, or contains, an a[href*='#']
ObserverFires(b) == \E a \in b : HasHash(href[a])

(***************************************************************************)
(* The generator inserts batch b (its own rendering, or the expansion of   *)
(* an arrow when viaArrow).  Every installed observer whose callback fires *)
(* queues an update; an arrow click also queues one per installed click    *)
(* listener.  An arrow click may insert nothing (b = {}).                  *)
(***************************************************************************)
Insert(b, viaArrow) ==
    /\ task = NoTask
    /\ hasSidebar
    /\ b \cap rendered = {}
    /\ rendered' = rendered \cup b
    /\ pendUpd' = [i \in Inst |->
                     pendUpd[i] + (IF i \in Observing /\ ObserverFires(b) THEN 1 ELSE 0)
                                + (IF i \in Observing /\ viaArrow THEN 1 ELSE 0)]
    /\ unseen' = unseen \cup {a \in b : HasHash(href[a])}
    /\ UNCHANGED <<page, href, processed, selected, stored, started, updating,
                   pendDelayed, task, todo, snap>>

Render(b) ==
    /\ b \in Batch
    /\ Insert(b, FALSE)
    /\ UNCHANGED toggles

ArrowClick(b) ==
    /\ b \in Batch \cup {{}}
    /\ toggles < MaxToggles
    /\ toggles' = toggles + 1
    /\ Insert(b, TRUE)

(***************************************************************************)
(* The click handler attached to a rewritten link (lines 212-224): clear  *)
(* "selected" on the sidebar's anchors, set it on this one, store the     *)
(* text.  When storage refuses, setItem throws after the class has moved  *)
(* and the stored text stays what it was.                                  *)
(***************************************************************************)
ClickLink(l) ==
    /\ task = NoTask
    /\ l \in processed
    /\ selected' = (selected \ rendered) \cup {l}
    /\ stored' = IF StorageWorks THEN label[l] ELSE stored
    /\ UNCHANGED <<page, href, rendered, processed, ctl, unseen>>

-----------------------------------------------------------------------------
(* Steps of the running task.                                              *)

\* leaving updateSidebarLinks: a run or a follow-up goes on to restoreHighlighting
Return ==
    IF task.caller = "timer"
    THEN task' = NoTask
    ELSE task' = [task EXCEPT !.pc = "restore"]

\* links the pass visits: sidebar a[href*='#']
HashLinks == {a \in rendered : HasHash(href[a])}

(***************************************************************************)
(* The early returns of lines 44-48 (this run is already updating) and    *)
(* 50-64 (no sidebar container).  The flag set at line 48 is reset at line *)
(* 62 within the same task, so the step leaves it as it was.               *)
(***************************************************************************)
UpdateSkipped ==
    /\ task.pc = "update"
    /\ updating[task.inst] \/ ~hasSidebar
    /\ Return
    /\ UNCHANGED <<page, dom, started, updating, pendUpd, pendDelayed, toggles, todo, snap, unseen>>

\* mutant: the early return at line 70 forgets isUpdating = false (line 69)
UpdateNoLinksKeepsFlag ==
    /\ task.pc = "update"
    /\ ~updating[task.inst]
    /\ hasSidebar
    /\ HashLinks = {}
    /\ updating' = [updating EXCEPT ![task.inst] = TRUE]
    /\ Return
    /\ UNCHANGED <<page, dom, started, pendUpd, pendDelayed, toggles, todo, snap, unseen>>

UpdateNoLinks ==
    /\ task.pc = "update"
    /\ ~updating[task.inst]
    /\ hasSidebar
    /\ HashLinks = {}
    /\ updating' = [updating EXCEPT ![task.inst] = FALSE]
    /\ Return
    /\ UNCHANGED <<page, dom, started, pendUpd, pendDelayed, toggles, todo, snap, unseen>>

\* mutant: the loop takes every sidebar link, "a[href]" for "a[href*='#']" (line 67)
UpdateBeginAllLinks ==
    /\ task.pc = "update"
    /\ ~updating[task.inst]
    /\ hasSidebar
    /\ HashLinks # {}
    /\ updating' = [updating EXCEPT ![task.inst] = TRUE]
    /\ todo' = rendered
    /\ snap' = {href[a] : a \in rendered}
    /\ task' = [task EXCEPT !.pc = "visit"]
    /\ unseen' = unseen \ HashLinks
    /\ UNCHANGED <<page, dom, started, pendUpd, pendDelayed, toggles>>

UpdateBegin ==
    /\ task.pc = "update"
    /\ ~updating[task.inst]
    /\ hasSidebar
    /\ HashLinks # {}
    /\ updating' = [updating EXCEPT ![task.inst] = TRUE]
    /\ todo' = HashLinks
    /\ snap' = {href[a] : a \in rendered}
    /\ task' = [task EXCEPT !.pc = "visit"]
    /\ unseen' = unseen \ HashLinks
    /\ UNCHANGED <<page, dom, started, pendUpd, pendDelayed, toggles>>

Visit ==
    /\ task.pc = "visit"
    /\ \E l \in todo :
        /\ \A m \in todo : l <= m
        /\ todo' = todo \ {l}
        /\ IF l \notin processed /\ Target(l) # None
           THEN /\ href' = [href EXCEPT ![l] = Target(l)]
                /\ processed' = processed \cup {l}
           ELSE UNCHANGED <<href, processed>>
    /\ UNCHANGED <<page, rendered, selected, stored, started, updating, pendUpd,
                   pendDelayed, toggles, task, snap, unseen>>

UpdateEnd ==
    /\ task.pc = "visit"
    /\ todo = {}
    /\ updating' = [updating EXCEPT ![task.inst] = FALSE]
    /\ Return
    /\ UNCHANGED <<page, dom, started, pendUpd, pendDelayed, toggles, todo, snap, unseen>>

\* after restoreHighlighting returns; runScript then queues its follow-up
Finish ==
    /\ task' = NoTask
    /\ pendDelayed' = IF task.caller = "runScript"
                      THEN pendDelayed \cup {task.inst}
                      ELSE pendDelayed

\* mutant: the matches are looked up in the whole document, not the sidebar
StoredMatchesInDocument == {a \in Anchor : label[a] = stored}

\* rendered sidebar anchors whose text is the stored one
StoredMatches == {a \in rendered : label[a] = stored}

\* mutant: the loop forgets to clear the other links (lines 32-34 dropped)
HighlightNoClear(m) == selected \cup m

\* clear "selected" on every sidebar anchor, then set it on each match in turn
Highlight(m) == (selected \ rendered) \cup {Latest(m)}

RestoreHighlighting ==
    /\ task.pc = "restore"
    /\ \/ stored = NoText
       \/ hasSidebar
    /\ selected' = IF stored # NoText /\ StoredMatches # {}
                   THEN Highlight(StoredMatches)
                   ELSE selected
    /\ Finish
    /\ UNCHANGED <<page, href, rendered, processed, stored, started, updating,
                   pendUpd, toggles, todo, snap, unseen>>

\* no sidebar: sidebar.querySelectorAll throws; the rest of the task is lost
RestoreThrows ==
    /\ task.pc = "restore"
    /\ stored # NoText
    /\ ~hasSidebar
    /\ task' = NoTask
    /\ UNCHANGED <<page, dom, started, updating, pendUpd, pendDelayed, toggles, todo, snap, unseen>>

TaskStep ==
    \/ UpdateSkipped \/ UpdateNoLinks \/ UpdateBegin
    \/ Visit \/ UpdateEnd \/ RestoreHighlighting \/ RestoreThrows

Environment ==
    \/ \E b \in Batch : Render(b)
    \/ \E b \in Batch \cup {{}} : ArrowClick(b)
    \/ \E l \in SideAnchor : ClickLink(l)

Next ==
    \/ TaskStep
    \/ \E i \in Inst : RunScript(i) \/ FireDelayed(i) \/ FireUpdate(i)
    \/ Environment

(* A running task runs to completion, the two page events happen and      *)
(* queued timers fire; the generator and the user are under no obligation. *)
Fairness ==
    /\ WF_vars(TaskStep)
    /\ \A i \in Inst : WF_vars(RunScript(i)) /\ WF_vars(FireDelayed(i)) /\ WF_vars(FireUpdate(i))

Spec == Init /\ [][Next]_vars
FairSpec == Spec /\ Fairness

-----------------------------------------------------------------------------
TypeOK ==
    /\ label \in [Anchor -> Text]
    /\ headingHref \in [Text -> HeadingHref \cup {None}]
    /\ hasSidebar \in BOOLEAN
    /\ href \in [Anchor -> Href]
    /\ rendered \subseteq SideAnchor
    /\ processed \subseteq SideAnchor
    /\ selected \subseteq SideAnchor
    /\ stored \in Text \cup {NoText}
    /\ started \subseteq Inst
    /\ updating \in [Inst -> BOOLEAN]
    /\ pendUpd \in [Inst -> Nat]
    /\ pendDelayed \subseteq Inst
    /\ toggles \in 0..MaxToggles
    /\ task \in Task \cup {NoTask}
    /\ todo \subseteq SideAnchor
    /\ snap \subseteq Href
    /\ unseen \subseteq SideAnchor

(***************************************************************************)
(* Session highlight (spec section 3, 4.1): at most one sidebar entry is   *)
(* highlighted, and it is one whose text is the one kept in                *)
(* sessionStorage.  Click handlers and restoreHighlighting of both runs    *)
(* interleave with the generator inserting anchors.                        *)
(***************************************************************************)
HighlightConsistent ==
    \A a, b \in selected : a = b /\ stored # NoText /\ label[a] = stored

(***************************************************************************)
(* No missed link: every sidebar link with '#' the generator inserts is    *)
(* eventually in the snapshot of some updateSidebarLinks pass.  It rests   *)
(* on the observers, the arrow listeners and isUpdating being reset on     *)
(* every exit of updateSidebarLinks.                                       *)
(***************************************************************************)
EveryInsertedLinkExamined ==
    \A a \in SideAnchor : a \in unseen ~> a \notin unseen

(***************************************************************************)
(* Spec 4.1, steps 1-2: the target a heading or a non-sidebar anchor with  *)
(* the same text gives is fixed by the page; so two retargeted sidebar     *)
(* links with the same text, where such a target exists, get the same     *)
(* href whatever the order in which the generator inserted them.           *)
(***************************************************************************)
ContentTarget(t) ==
    IF headingHref[t] # None THEN headingHref[t]
    ELSE FirstHref({a \in Anchor \ SideAnchor : label[a] = t})

SameTextSameTarget ==
    \A a, b \in processed :
        label[a] = label[b] /\ ContentTarget(label[a]) # None => href[a] = href[b]

(***************************************************************************)
(* Spec 4.1 step 4: the map is consulted only for its own keys; every      *)
(* rewritten href is a page URL, never the text of a function.             *)
(***************************************************************************)
TargetsAreUrls ==
    \A a \in Anchor : href[a] # JunkHref

(***************************************************************************)
(* The fault of line 167 stays with its cause: strategies 2 and 3 copy    *)
(* other links' live hrefs (lines 126-163), yet a function's text is the  *)
(* href only of a link a pass rewrote and whose own text names an         *)
(* inherited Object.prototype member.                                      *)
(***************************************************************************)
JunkOnlyProtoNames ==
    \A a \in Anchor : href[a] = JunkHref => a \in processed /\ label[a] \in ProtoText

(***************************************************************************)
(* The isUpdating flag of a run (lines 44-48, 69, 227) is set exactly     *)
(* while that run's own pass is in its loop: every way out of             *)
(* updateSidebarLinks resets it, and a pass runs to completion, so the    *)
(* busy check of line 44 never turns away an update queued by an observer, *)
(* a listener or the follow-up.                                            *)
(***************************************************************************)
UpdatingOnlyInPass ==
    \A i \in Inst : updating[i] <=> (task.inst = i /\ task.pc = "visit")
-----------------------------------------------------------------------------
(***************************************************************************)
(* The retargeter implements the promise of spec 4.1 (SidebarRetarget):   *)
(* the passes, timers, observers and restores of both runs are, seen on   *)
(* the hrefs, the highlight and the stored text, only insertions, one     *)
(* retargeting per '#' link to an href naming a page, clicks on rewritten *)
(* links and restores of the stored text.  It needs the map lookup of     *)
(* line 167 to meet no inherited member (ProtoText = {}), and the write  *)
(* of line 223 to succeed (StorageWorks).                                  *)
(***************************************************************************)
Retarget == INSTANCE SidebarRetarget
                WITH Hrefs <- Href,
                     FragHref <- {h \in Href : HasHash(h)},
                     PageHref <- HeadingHref

RetargetSpec == Retarget!Spec
=============================================================================
