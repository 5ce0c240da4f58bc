-------------------------- MODULE SidebarRetarget --------------------------
(***************************************************************************)
(* What the link retargeter promises (spec 4.1), without passes, timers,  *)
(* observers or strategies.  The generator inserts sidebar anchors; each  *)
(* inserted anchor whose href has a '#' may be retargeted, once, to an    *)
(* href naming a page; a retargeted anchor, when clicked, becomes the one *)
(* highlighted sidebar entry and its text is stored; a restore highlights *)
(* one rendered entry carrying the stored text.  Which target is chosen   *)
(* and when is left open.                                                  *)
(***************************************************************************)
CONSTANTS
    Anchor,       \* every anchor of the page
    SideAnchor,   \* those the generator renders into the sidebar
    Text,         \* display texts
    NoText,       \* no stored selection
    Hrefs,        \* every href an anchor may have
    FragHref,     \* the hrefs containing '#'
    PageHref      \* the hrefs naming a page: the targets a link may be given

VARIABLES
    label,        \* [Anchor -> Text], fixed
    href,         \* [Anchor -> Hrefs]
    rendered,     \* sidebar anchors inserted so far
    processed,    \* anchors already retargeted
    selected,     \* anchors whose entry is highlighted
    stored        \* the stored selection

avars == <<label, href, rendered, processed, selected, stored>>

Init ==
    /\ label \in [Anchor -> Text]
    /\ href \in [Anchor -> Hrefs]
    /\ rendered = {}
    /\ processed = {}
    /\ selected = {}
    /\ stored \in Text \cup {NoText}

\* the generator inserts some new sidebar anchors
Appear(new) ==
    /\ new \subseteq SideAnchor \ rendered
    /\ rendered' = rendered \cup new
    /\ UNCHANGED <<label, href, processed, selected, stored>>

\* a rendered '#' link not retargeted before is pointed at page t
Retarget(l, t) ==
    /\ l \in rendered \ processed
    /\ href[l] \in FragHref
    /\ t \in PageHref
    /\ href' = [href EXCEPT ![l] = t]
    /\ processed' = processed \cup {l}
    /\ UNCHANGED <<label, rendered, selected, stored>>

\* the user clicks a retargeted link
Click(l) ==
    /\ l \in processed
    /\ selected' = (selected \ rendered) \cup {l}
    /\ stored' = label[l]
    /\ UNCHANGED <<label, href, rendered, processed>>

\* the stored selection is shown on a rendered entry carrying its text
Restore(l) ==
    /\ stored # NoText
    /\ l \in rendered
    /\ label[l] = stored
    /\ selected' = (selected \ rendered) \cup {l}
    /\ UNCHANGED <<label, href, rendered, processed, stored>>

Next ==
    \/ \E new \in SUBSET SideAnchor : Appear(new)
    \/ \E l \in Anchor, t \in PageHref : Retarget(l, t)
    \/ \E l \in Anchor : Click(l) \/ Restore(l)

Spec == Init /\ [][Next]_avars
=============================================================================
