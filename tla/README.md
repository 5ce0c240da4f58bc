# TLA+ models of the documentation sidebar scripts

The repository holds three browser scripts that patch the navigation sidebar of
a generated documentation site:

| script | part | what it does |
|---|---|---|
| `src/docs/custom-sidebar-links.js` | link retargeter | rewrites sidebar links with a `#` fragment to a better page, installs a click handler that highlights the entry and stores its text in `sessionStorage`, and restores that highlight on load |
| `src/docs/format/expand-current-section.js` | section expander | finds the sidebar entry of the current page and opens the tree items on its path |
| `src/docs/format/expand-all-sidebar.js` | expand-everything variant | opens every collapsible item, one tree level per 200 ms step |

All three scripts work on the same DOM tree, which the documentation
generator renders. The generator is not part of this repository. It renders
items asynchronously, and it renders an item's children only after the item
has been expanded. The scripts interact only through that tree. An arrow click
made by an expander is a click on the sidebar, so the retargeter's click
listener queues an update. The retargeter's observer also sees the children
that the expansion renders. Each part is therefore modelled against the tree
as its environment.

Concurrency here comes from the JavaScript event loop. Each callback runs to
completion: a timer, an observer callback, a click handler or the load event.
No two callbacks run at the same time. The hard behaviours come from the
following:
- the order in which callbacks are queued and fired;
- rendering by the generator between callbacks;
- `runScript` running twice, so there are two closures, two observers, two
  listeners and two `isUpdating` flags;
- polls and step loops with a bound.

## Modules

| module | models |
|---|---|
| `CustomSidebarLinks` | the retargeter, the whole of `custom-sidebar-links.js` |
| `CustomSidebarLinksProofs` | TLAPS proofs about `CustomSidebarLinks` |
| `SidebarRetarget` | the abstract retargeter: what spec 4.1 promises, without passes, timers or strategies |
| `CustomSidebarLinksRefinement` | TLAPS proof that `CustomSidebarLinks` implements `SidebarRetarget` |
| `SidebarTreeProofs` | lemmas about clicking toggles, shared by both expander proofs |
| `ExpandCurrentSectionProofs`, `ExpandAllSidebarProofs` | TLAPS proofs about the two expanders |
| `SidebarTree` | the generator's tree, the environment shared by both expanders |
| `ExpandCurrentSection` | `expand-current-section.js` |
| `ExpandAllSidebar` | `expand-all-sidebar.js` |
| `MC_*` | TLC wrappers (they EXTEND the module and `TLC`) |

### CustomSidebarLinks

- **Constants.**
  - The anchors of the page are `1..NA`. `SideAnchor` are the ones inside the
    sidebar.
  - `Batch` partitions the sidebar anchors into the groups that the generator
    inserts in one mutation.
  - Display texts come from `Text`, pages from `Page`.
  - `MapUrl` is the static `sidebarLinkMap`.
  - `ProtoText` are the texts that name inherited `Object.prototype` members.
  - `MaxToggles` bounds arrow clicks.
  - `StorageWorks` says whether `sessionStorage.setItem` succeeds. When it is
    FALSE, the write at line 223 throws after the highlight has moved, and
    `stored` keeps its old value (the fault model of the click handler).
- **State.**
  - The document: static labels, heading links and `hasSidebar`; and `href`,
    `rendered`, `processed` and `selected` (the `.selected` class).
  - `stored`, the `sessionStorage` key.
  - Per run of `runScript`: `started`, `updating` (its `isUpdating`),
    `pendUpd` (queued `setTimeout(updateSidebarLinks, …)`) and `pendDelayed`
    (the 500 ms follow-up).
  - `task`, the callback now running, with its program counter.
  - `todo` and `snap`, the loop's remaining links and the `sidebarHrefs`
    snapshot.
- **Actions.**
  - `RunScript(i)`: lines 10-22 and 258-300, up to the first
    `updateSidebarLinks`. `Inst == {1,2}` covers the `DOMContentLoaded` run
    and the load+100 ms run.
  - `FireUpdate`, `FireDelayed`: the timers.
  - `UpdateSkipped`: the busy and no-sidebar returns, 44-64.
  - `UpdateNoLinks`: the early return at 69, which resets the flag.
  - `UpdateBegin`: flag set, `sidebarHrefs` taken, loop started, 72-87.
  - `Visit`: one loop iteration, 88-225, with the five strategies
    `HeadingTarget`, `SameTextTarget`, `OtherPageTarget`, `MapTarget` and
    `SamePageTarget`, combined in `Target`.
  - `UpdateEnd`: flag reset, 227.
  - `RestoreHighlighting` / `RestoreThrows`: 25-40. It throws when there is no
    sidebar.
  - `ClickLink`: the installed click handler, 212-224.
  - `Render`, `ArrowClick`: the generator inserts a batch. Every installed
    observer whose filter matches (237-252) queues an update. An arrow click
    also queues one per listener (276-288).

### SidebarRetarget (abstract spec) and the refinement

`SidebarRetarget` has the same document variables (`label`, `href`,
`rendered`, `processed`, `selected`, `stored`) and four actions:
- `Appear`: the generator inserts sidebar anchors;
- `Retarget(l, t)`: a rendered anchor with a `#` href, not retargeted before,
  gets an href `t` naming a page;
- `Click(l)`: a retargeted anchor becomes the one highlighted sidebar entry,
  and its text is stored;
- `Restore(l)`: a rendered entry carrying the stored text is highlighted.

`CustomSidebarLinks` ends with `Retarget == INSTANCE SidebarRetarget`. The
mapping is the identity on the shared variables. `Hrefs` is the model's
`Href`, `FragHref` the hrefs for which `HasHash` holds, and `PageHref` the
heading hrefs (`HeadingHref`). Every step of the implementation is one of:
- `Render` maps to `Appear`;
- a `Visit` that rewrites a link maps to `Retarget`;
- `ClickLink` maps to `Click`, and `RestoreHighlighting` to `Restore`;
- every other step (timers, flags, the loop's bookkeeping, a `Visit` that
  finds no target) is a stutter of the abstract spec.

### SidebarTree (environment)

- **Shape.** Items are `1..NN` in document order. `parent[n]` is the enclosing
  item, or 0 for a top-level item; `IsTree` requires `parent[n] < n`. `Inside`
  in `ExpandCurrentSection` gives the spec's subtree as a preorder interval.
- **State.**
  - `inDom`: rendered items.
  - `open`: the generator's expanded state.
  - `glyph`: whether the arrow text reads `▼`.
  - `clicks`: user clicks, bounded by `MaxClicks`.
- **Rendering.** `TreeRender(n)` renders a top-level item, or a child of an
  open rendered item.
- **Clicks.** `TreeToggle(n)` is a user click: it flips `open` and lets the
  generator rewrite the arrow.
- **Script helpers.**
  - `Collapsed` is the `textContent === '►'` filter.
  - `ClickOpen` is `click()`.
  - `ClickGlyph` is the scripts' own `textContent = '▼'` writes.
  - A script's click on an item flips `open`, as the generator's handler does.
    The arrow then reads what the script wrote.

### ExpandCurrentSection

- **Page facts.** `match[n]` is the set of strategies 1-4 (lines 26-62) that
  item n's link satisfies. `example[n]` holds when the link is an example link
  (76-85). `isHome` is the home-page test (88-100). These are static facts of
  the page, chosen in `Init`. The string tests themselves are abstracted to
  those facts.
- **Polling.** `phase` and `polls` are the interval and its timeout, 263-291.
- **Expansion.**
  - `CurrentLink`: the loop at 20-63. It takes the first rendered item, in
    document order, that satisfies any strategy, then the example fallback.
  - `PathToCurrent`: the `parentElement` walk, 104-113. The walk goes from
    the link's item to its parent until it leaves the tree. Its result is
    therefore defined as the least set of items that holds the link's item
    and is closed under `parent` (`Walked`). This needs no recursion, which
    is what lets TLAPS reason about it.
  - `ExpandPath`: the path loop, 118-146, and `expandSubsectionsInPath`,
    149-178. The second pass checks the arrow again after the path has been
    opened.
  - `ExpandMainSectionsOnly` and `ExpandAllSections`: the two fallbacks.
  - `Expand`: the one-shot pass, one step.
- **Dead code.** `expandFirstLevelSubsectionsOnly` is never called.

### ExpandAllSidebar

- `Poll` covers lines 31-45. On success it runs the first `expandStep` at
  once.
- `FireStep` is each later `setTimeout(expandStep, 200)`.
- `Step` covers lines 5-25:
  - it clicks every `►`;
  - it writes `▼` into every arrow;
  - it continues while it clicked something and `tries < maxTries`.
- `PromptRender` chooses between two environments:
  - when it is TRUE, the generator has finished rendering before each timer
    fires (`TimerMayFire`);
  - when it is FALSE, rendering may lag behind the timers.

## Runs

All runs use `CHECK_DEADLOCK FALSE`, because a page quiesces once its timers
have fired.

| run (cfg) | expect | checks | instance |
|---|---|---|---|
| highlight | pass | `TypeOK`, `HighlightConsistent`, `UpdatingOnlyInPass`, `RetargetSpec` | 3 anchors (2 sidebar, one batch), 2 texts, 1 page, a map entry, both runs, every page (labels, heading links, sidebar present or not) |
| examined | pass | `EveryInsertedLinkExamined` (fair) | 3 anchors, the sidebar links in two batches, 1 arrow click, under `FairSpec` |
| sametext | violation | `SameTextSameTarget` | two same-text sidebar links in separate batches |
| prototext | violation | `TargetsAreUrls` | a sidebar link labelled with a prototype name |
| expandpath | pass | `TypeOK`, `GlyphShowsState`, `RevealsCurrentBranch` | every tree of 4 items, every page, 1 user click |
| expandlive | pass | `ExpandsOnceRendered` (fair) | trees of 2 items, 3 polls, 2 clicks |
| priority | violation | `StrategiesInOrder` | strategies {1,4} on 2 items |
| lateentry | violation | `NoExpandAllWhenListed` | the matching item rendered after the poll |
| expandall | pass | `TreeFullyExpanded` (fair), `StepExpandsRendered` | every tree of 4 items, prompt rendering, maxTries 3 |
| expandalluser | pass | `TypeOK`, `GlyphShowsState` | every tree of 4 items, maxTries 3, rendering that may lag, 2 user clicks anywhere between the steps |
| expandalllate | violation | `TreeFullyExpanded` (fair) | rendering lags a step |
| storage | violation | `HighlightConsistent` | as highlight, with `StorageWorks = FALSE` |

Every retargeter run except `storage` sets `StorageWorks = TRUE`: the
storage fault is a question of its own.

What the properties say:
- **`HighlightConsistent`**: for every run, at most one anchor carries
  `.selected`. A selected anchor is a rendered sidebar anchor whose text is the
  stored one. Breaking it takes several actors: two restores, a click, and the
  generator inserting a same-text entry.
- **`EveryInsertedLinkExamined`**: every `#` link the generator inserts is
  eventually visited by an update pass. This depends on:
  - every early return resetting `isUpdating`;
  - the observer filter;
  - the arrow listener;
  - the 500 ms follow-up.
- **`RevealsCurrentBranch`** is an action property of the one-shot pass:
  - it collapses nothing;
  - it opens every item of the current entry's ancestor path, and off the home
    page every rendered item inside the entry;
  - it touches nothing else, or applies the right fallback.
- **`GlyphShowsState`**: for every item with a toggle, the arrow reads `▼`
  exactly when the item is open. The scripts write the arrow text themselves,
  so a click on an already-open item would make the arrow lie.
- **`TreeFullyExpanded`**: spec 4.2's "expands every collapsible node".
- **`StepExpandsRendered`**: each run of `expandStep` closes no item, and
  when it returns every rendered toggle is expanded. It rests on the `►`
  filter of line 7, because clicking an arrow that reads `▼` closes its item.
- **`UpdatingOnlyInPass`**: a run's `isUpdating` flag is set exactly while
  that run's own pass is in its loop. It follows that every early return
  resets the flag. It also follows that the busy check at line 44 never turns
  away an update, because a pass runs to completion within one task.
- **`RetargetSpec`**: the whole retargeter implements `SidebarRetarget`.
  Each `#` link is rewritten at most once, only while rendered, and only to a
  page. The highlight moves only through clicks on rewritten links and
  restores of the stored text. The second run of `runScript` makes a second
  pass meet links that are already rewritten.

**Bounds.** Four items give every tree shape of depth up to 3. That covers a
path of three items and a section with two children. The mutant that expands
the subsections of the top-level item instead of the current item needs depth
3 to show. Two batches and two runs are the least that exhibit:
- late insertion;
- doubled observers.

`MaxTries = 3` with 4 items makes the depth limit bite at the boundary. `expandalluser` uses the same limit, so the user's two clicks can fall
before, between and after the three runs of `expandStep`. The
poll limits (1-3) replace the code's 50, because only reaching the limit
matters.

**Mutants.** Every property of a passing run is broken by a plausible bug in
a mapped definition (`mutants` in `PROJECT.json`):
- a restore that does not clear the old highlight;
- the early return at line 69 keeping the flag;
- a stale arrow check;
- the timeout tested before the tree;
- an off-by-one in `maxTries`;
- clicking every arrow instead of only `►`;
- the loop taking every sidebar link, `a[href]` for `a[href*='#']` at line
  67 (breaks `RetargetSpec`).

## Fairness

The fairness assumptions rest on how the browser runs these scripts:
- Timers, the load event and observer callbacks are delivered by the browser,
  so the actions that fire them are weakly fair.
- In `ExpandAllSidebar`, rendering by the generator is weakly fair. Once its
  data has loaded, it does render the children of an expanded item.
- User clicks are never fair. They may or may not happen.

## Findings

See `findings` in `PROJECT.json`.

1. **Insertion order changes targets.** `sidebarHrefs` is taken from hrefs
   that were already rewritten, so a same-text sidebar link's target depends
   on when it was inserted.
2. **Prototype names become hrefs.** `sidebarLinkMap[text]` hits
   `Object.prototype` members, so the function's text becomes an href.
3. **Strategies are not tried in priority order.** The current-link search is
   done per link, not per strategy, against spec 4.2's priority order.
4. **Late entries expand everything.** An entry rendered after the one-shot
   pass makes a non-home page expand every section.
5. **The expand-all loop stops early.** It stops at the first step that finds
   nothing collapsed, so later-rendered items stay collapsed.
6. **A refused storage write leaves a stale selection.** The click handler
   moves `.selected` before `sessionStorage.setItem` (line 223), with no
   `try`. When storage refuses the write, the highlighted entry is not the
   stored one, and the next restore brings back the earlier entry (run
   `storage`).

## Proofs (TLAPS)

`CustomSidebarLinksProofs` proves, for all values of the constants that
satisfy the module's `ASSUME`s:
- **`TypeCorrect`**: `Spec => []TypeOK`. It rests on lemmas about the target
  strategies:
  - `FirstFound`, `FirstHref` and `Target` return hrefs;
  - `Earliest` and `Latest` pick a member of a non-empty finite set of
    naturals. The minimum comes from well-founded induction on `<`, and the
    maximum is the minimum of the set of upper bounds.
- **`HighlightSafe`**: assuming `StorageWorks`,
  `Spec => []HighlightConsistent`. Without that assumption it is false (run
  `storage`). `HighlightConsistent`
  is not inductive as it stands. A visit could mark an anchor the model does
  not know to be in the sidebar. The inductive invariant is therefore
  `TypeOK /\ InSidebar /\ HighlightConsistent`. `InSidebar` states that the
  processed, queued and selected anchors are all rendered sidebar anchors.
  TLC checked it as an invariant on both retargeter configurations before it
  was proved.
  - The step lemma has one case per action.
  - `RestoreHighlighting` and `ClickLink` clear all sidebar highlights before
    they set one.

`CustomSidebarLinksRefinement` proves:
- **`JunkConfined`**: `Spec => []JunkOnlyProtoNames`, with no assumption on
  `ProtoText`. The `prototext` run shows that the lookup of line 167 can
  write a function's text as an href. This theorem bounds that fault: the
  junk href is only ever on a link that a pass rewrote and whose own text
  names an inherited member. The question is not trivial, because
  strategies 2 and 3 copy other links' live hrefs and strategy 5 derives
  an href from the link's own. The argument is the lemma `TargetJunk`:
  every strategy's result is junk only if the link's text is a prototype
  name. The copying strategies take only from links with the same text
  (`FirstHrefJunk`), and a base page is junk only when the link's href
  already is. The invariant is inductive together with `TypeOK`. No run
  checks it: TLC checked it on the `prototext`, `highlight` and
  `examined` instances while it was written.
- **`Refinement`**: assuming `ProtoText = {}` and `StorageWorks`,
  `Spec => RetargetSpec`. The invariant `RefInv` is `TypeOK`, `InSidebar`,
  `TargetsAreUrls` and `TodoHashed`. `TodoHashed` says that every link still
  queued in a pass and not yet processed keeps its `#` href. It is needed
  because a `Visit` maps to `Retarget`, which requires a `#` href. Together
  with `HighlightSafe`'s invariant, it lets each step be matched by one
  abstract step or a stutter: `Init` maps to the abstract `Init`, and
  `RefSim` has one case per action.

`ExpandCurrentSectionProofs` and `ExpandAllSidebarProofs` prove, for every
tree, page and limit:
- **`CurrentTypeCorrect`**, **`ExpandAllTypeCorrect`**: `Spec => []TypeOK`.
  `TypeOK` is not inductive, because a poll at the limit or a step after the
  last allowed run would leave the bounds. The strengthenings are `Waiting`
  (`polls < MaxPolls` while polling) and `Counting` (also `tries = 0` while
  polling, and `tries < MaxTries` while a step is queued).
- **`CurrentGlyphs`**, **`ExpandAllGlyphs`**: `Spec => []GlyphShowsState`.
  The argument is the lemma `ClickKeepsTruth` of `SidebarTreeProofs`. It
  says that clicking the toggles of S and writing `▼` into those of W keeps
  the arrows truthful, provided each toggle of W is clicked exactly when its
  arrow reads `►`. Both scripts meet this proviso because they take `►` from
  the arrows in the same task. The path pass of `expandSubsectionsInPath`
  reads the arrows again after the path loop.
- **`CurrentBranchRevealed`**: `Spec => RevealsCurrentBranch`. It rests on
  the following:
  - `PathIsAncestry`: in a tree numbered in document order, the items the
    walk collects from `n` are exactly the spec's Ancestor Path of `n`.
    - One inclusion holds because the Ancestor Path is closed under
      `parent` (`InsideParent`, `InsideTrans`).
    - The other inclusion (`WalkReaches`) takes the first item inside `m`
      from which the walk would miss `m`, and derives a contradiction. This
      replaces induction with a least element, which the provers can use.
  - `RenderedInside`: the items that `querySelectorAll` finds inside the
    current item are the rendered items of the spec's subtree.
  - `CollapsedOpens` (`SidebarTreeProofs`): clicking the toggles whose
    arrows read `►` closes nothing, and leaves every toggle of the set
    expanded, provided the arrows are truthful.
  - The invariants `GlyphShowsState` and `TreeShape` (the parent map stays a
    tree).
- **`ExpandAllStepsExpand`**: `Spec => StepExpandsRendered`, from `AllInv`
  and `CollapsedOpens`. It holds whatever the user clicks between runs.
  The `expandall` run has no clicks, and `expandalluser` (which has clicks
  between steps) checks `GlyphShowsState` only. So for clicks interleaved
  with the steps, this property rests on the proof alone.

`CustomSidebarLinksProofs` also proves **`UpdatingSafe`**:
`Spec => []UpdatingOnlyInPass`. The invariant is inductive together with
`TypeOK`. Only `UpdateBegin` sets the flag, and every way out of
`updateSidebarLinks` either left it unset or resets it.

**Only model-checked:**
- The liveness properties (`EveryInsertedLinkExamined`, `ExpandsOnceRendered`,
  `TreeFullyExpanded`). TLAPS does not reason about fairness.

## Not modelled

- The injected CSS rule, `console.log` output and the IIFE/readyState
  plumbing. They change no state that another step reads.
- The two scripts on one page. `expand-current-section.js` reads the hrefs
  that `custom-sidebar-links.js` rewrites, so which entry it finds depends on
  which ran first. Which scripts a generated page loads is decided by the
  generator's configuration, outside this repository, and the expander's
  href tests are abstracted to fixed per-item facts. This is listed as a
  hazard without a property.
- The generator's own data loading, and the exact markup of `#nav-tree`. The
  models follow the spec's contract that top-level items are children of the
  tree root.
- The string tests of the expander, such as URL containment and filename
  comparison. They are abstracted to the per-item facts `match` and `example`.
