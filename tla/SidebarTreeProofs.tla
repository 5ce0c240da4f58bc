--------------------------- MODULE SidebarTreeProofs ---------------------------
(***************************************************************************)
(* Facts about clicking toggles of the navigation tree, shared by the     *)
(* proofs about both expander scripts.                                     *)
(***************************************************************************)
EXTENDS SidebarTree, WellFoundedInduction, TLAPS

(***************************************************************************)
(* A non-empty set of items has a first one in document order, so FirstOf *)
(* is well defined.                                                        *)
(***************************************************************************)
LEMMA FirstOfSpec ==
    ASSUME NEW S \in SUBSET Node, S # {}
    PROVE  /\ FirstOf(S) \in S
           /\ \A m \in S : FirstOf(S) <= m
<1>1. S \subseteq Nat
    BY DEF Node
<1>2. PICK x \in S : \A y \in S : ~(<<y, x>> \in OpToRel(<, Nat))
    BY <1>1, NatLessThanWellFounded, WFMin
<1>3. ASSUME NEW y \in S PROVE x <= y
    <2>1. <<y, x>> \in Nat \X Nat
        BY <1>1
    <2>2. ~(y < x)
        BY <2>1, <1>2 DEF OpToRel
    <2>3. QED
        BY <1>1, <2>2
<1>4. QED
    BY <1>3 DEF FirstOf

(* The arrows of g tell the state of o. *)
Truthful(g, o) == \A n \in Node : HasToggle(n) => (g[n] <=> o[n])

(***************************************************************************)
(* Clicking the toggles of S and then writing '▼' into the arrows of W    *)
(* keeps truthful arrows truthful, provided every toggle of W is clicked  *)
(* exactly when its arrow reads '►': a clicked one was collapsed and is   *)
(* now expanded, an unclicked one was already expanded.  A toggle clicked *)
(* and not written is rewritten by the generator itself.                   *)
(***************************************************************************)
LEMMA ClickKeepsTruth ==
    ASSUME NEW g \in [Node -> BOOLEAN], NEW o \in [Node -> BOOLEAN],
           NEW S, NEW W,
           Truthful(g, o),
           \A n \in W \cap Node : HasToggle(n) => (n \in S <=> ~g[n])
    PROVE  /\ ClickOpen(o, S) \in [Node -> BOOLEAN]
           /\ ClickGlyph(g, o, S, W) \in [Node -> BOOLEAN]
           /\ Truthful(ClickGlyph(g, o, S, W), ClickOpen(o, S))
<1>1. ClickOpen(o, S) \in [Node -> BOOLEAN]
    BY DEF ClickOpen
<1>2. ClickGlyph(g, o, S, W) \in [Node -> BOOLEAN]
    BY DEF ClickGlyph
<1>3. ASSUME NEW n \in Node, HasToggle(n)
      PROVE  ClickGlyph(g, o, S, W)[n] <=> ClickOpen(o, S)[n]
    <2>1. CASE n \in W /\ n \in S
        BY <1>3, <2>1 DEF Truthful, ClickGlyph, ClickOpen
    <2>2. CASE n \in W /\ n \notin S
        BY <1>3, <2>2 DEF Truthful, ClickGlyph, ClickOpen
    <2>3. CASE n \notin W
        BY <1>3, <2>3 DEF Truthful, ClickGlyph, ClickOpen
    <2>4. QED
        BY <2>1, <2>2, <2>3
<1>4. QED
    BY <1>1, <1>2, <1>3 DEF Truthful

(* Clicking the collapsed toggles of T and writing '▼' into them. *)
LEMMA ClickCollapsed ==
    ASSUME NEW g \in [Node -> BOOLEAN], NEW o \in [Node -> BOOLEAN], NEW T,
           Truthful(g, o)
    PROVE  /\ ClickOpen(o, Collapsed(g, T)) \in [Node -> BOOLEAN]
           /\ ClickGlyph(g, o, Collapsed(g, T), Collapsed(g, T)) \in [Node -> BOOLEAN]
           /\ Truthful(ClickGlyph(g, o, Collapsed(g, T), Collapsed(g, T)),
                       ClickOpen(o, Collapsed(g, T)))
<1>1. \A n \in Collapsed(g, T) \cap Node : HasToggle(n) => (n \in Collapsed(g, T) <=> ~g[n])
    BY DEF Collapsed
<1>2. QED
    BY <1>1, ClickKeepsTruth

(***************************************************************************)
(* Clicking the toggles of T whose arrows read '►', with truthful arrows, *)
(* closes nothing, changes only items of T, and leaves every toggle of T  *)
(* expanded.                                                               *)
(***************************************************************************)
LEMMA CollapsedOpens ==
    ASSUME NEW g \in [Node -> BOOLEAN], NEW o \in [Node -> BOOLEAN], NEW T,
           Truthful(g, o), NEW n \in Node
    PROVE  /\ o[n] => ClickOpen(o, Collapsed(g, T))[n]
           /\ ClickOpen(o, Collapsed(g, T))[n] # o[n] => n \in T
           /\ n \in T /\ HasToggle(n) => ClickOpen(o, Collapsed(g, T))[n]
<1>1. CASE n \in Collapsed(g, T)
    <2>1. n \in T /\ HasToggle(n) /\ ~o[n]
        BY <1>1 DEF Collapsed, Truthful
    <2>2. QED
        BY <1>1, <2>1 DEF ClickOpen
<1>2. CASE n \notin Collapsed(g, T)
    <2>1. n \in T /\ HasToggle(n) => o[n]
        BY <1>2 DEF Collapsed, Truthful
    <2>2. QED
        BY <1>2, <2>1 DEF ClickOpen
<1>3. QED
    BY <1>1, <1>2

(* A click on one toggle, with the generator rewriting its arrow. *)
LEMMA ToggleKeepsTruth ==
    ASSUME TreeTypeOK, GlyphShowsState, NEW n, TreeToggle(n)
    PROVE  TreeTypeOK' /\ GlyphShowsState'
<1>1. /\ open' \in [Node -> BOOLEAN]
      /\ glyph' \in [Node -> BOOLEAN]
      /\ Truthful(glyph', open')
    <2>1. \A m \in {} \cap Node : HasToggle(m) => (m \in {n} <=> ~glyph[m])
        OBVIOUS
    <2>2. QED
        BY <2>1, ClickKeepsTruth DEF TreeToggle, TreeTypeOK, GlyphShowsState, Truthful
<1>2. clicks' \in 0..MaxClicks
    BY ClicksAssumption DEF TreeToggle, TreeTypeOK
<1>3. QED
    BY <1>1, <1>2 DEF TreeToggle, TreeTypeOK, GlyphShowsState, Truthful, HasToggle
=============================================================================
