---------------------------- MODULE SidebarTree ----------------------------
(***************************************************************************)
(* The navigation tree the documentation generator renders, as the two    *)
(* expander scripts see it (spec sections 2 and 5): nested list items,    *)
(* each with a span.arrow and a label anchor.  An item with children has  *)
(* a toggle whose arrow reads '►' (collapsed) or '▼' (expanded); a leaf   *)
(* has a blank arrow.  Clicking a toggle flips the item and rewrites its  *)
(* arrow; the generator renders an item's children only after the item    *)
(* has been expanded, and asynchronously.                                  *)
(*                                                                         *)
(* Items are the numbers 1..NN in document order; parent[n] is the item   *)
(* enclosing n, 0 for a top-level item.                                    *)
(***************************************************************************)
EXTENDS Naturals

CONSTANTS
    NN,         \* number of items of the tree
    MaxClicks   \* bound on toggle clicks by the user and by the generator

ASSUME NNAssumption == NN \in Nat
ASSUME ClicksAssumption == MaxClicks \in Nat

Node == 1..NN

\* the first item of a set in document order
FirstOf(S) == CHOOSE n \in S : \A m \in S : n <= m

(***************************************************************************)
(* A forest numbered in document order (preorder): an item's parent comes *)
(* before it, and every item between the two lies inside the parent.      *)
(***************************************************************************)
IsTree(p) ==
    \A n \in Node : p[n] = 0 \/ (p[n] < n /\ \A i \in p[n] + 1 .. n - 1 : p[i] >= p[n])

VARIABLES
    parent,    \* [Node -> 0..NN]: the enclosing item (static)
    inDom,     \* items the generator has rendered so far
    open,      \* [Node -> BOOLEAN]: the generator's expanded state of the item
    glyph,     \* [Node -> BOOLEAN]: the arrow text reads '▼' (else '►')
    clicks     \* toggle clicks by the user and the generator so far

tree == <<parent, inDom, open, glyph, clicks>>

\* the item has children, so a toggle with a '►'/'▼' arrow
HasToggle(n) == \E c \in Node : parent[c] = n

\* the collapsed toggles of a set of items: the arrow reads '►'
Collapsed(g, S) == {n \in S : HasToggle(n) /\ ~g[n]}

(***************************************************************************)
(* Clicking the toggles of S (the generator flips each and rewrites its   *)
(* arrow), then a script writing '▼' into the arrows of W.                 *)
(***************************************************************************)
ClickOpen(o, S) == [n \in Node |-> IF n \in S THEN ~o[n] ELSE o[n]]
ClickGlyph(g, o, S, W) ==
    [n \in Node |-> IF n \in W THEN TRUE ELSE IF n \in S THEN ~o[n] ELSE g[n]]

\* items the generator may render next: top-level ones, children of expanded ones
Renderable == {n \in Node \ inDom : parent[n] = 0 \/ (parent[n] \in inDom /\ open[parent[n]])}

TreeInit ==
    /\ parent \in {p \in [Node -> 0..NN] : IsTree(p)}
    /\ inDom = {}
    /\ open = [n \in Node |-> FALSE]
    /\ glyph = [n \in Node |-> FALSE]
    /\ clicks = 0

\* the generator renders an item
TreeRender(n) ==
    /\ n \in Renderable
    /\ inDom' = inDom \cup {n}
    /\ UNCHANGED <<parent, open, glyph, clicks>>

\* a user, or the generator's own navigation, clicks a toggle
TreeToggle(n) ==
    /\ n \in inDom
    /\ HasToggle(n)
    /\ clicks < MaxClicks
    /\ clicks' = clicks + 1
    /\ open' = ClickOpen(open, {n})
    /\ glyph' = ClickGlyph(glyph, open, {n}, {})
    /\ UNCHANGED <<parent, inDom>>

TreeTypeOK ==
    /\ parent \in [Node -> 0..NN]
    /\ inDom \subseteq Node
    /\ open \in [Node -> BOOLEAN]
    /\ glyph \in [Node -> BOOLEAN]
    /\ clicks \in 0..MaxClicks

(***************************************************************************)
(* The arrows tell the truth: a script that writes '▼' into an arrow      *)
(* itself after clicking it keeps an arrow reading '▼' exactly when its   *)
(* item is expanded only if it never clicks an item that is already open.  *)
(***************************************************************************)
GlyphShowsState == \A n \in Node : HasToggle(n) => (glyph[n] <=> open[n])
=============================================================================
