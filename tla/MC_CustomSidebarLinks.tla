----------------------- MODULE MC_CustomSidebarLinks -----------------------
(* Instances of the link retargeter for TLC.                               *)
EXTENDS CustomSidebarLinks, TLC

CONSTANTS t1, t2, p1, p2

(* a menu link, then two sidebar links, in document order *)
MCNA3 == 3
(* a menu link, two sidebar links, a content link *)
MCNA4 == 4
MCSideAnchor == {2, 3}
(* the generator inserts both sidebar links at once, or one at a time *)
MCOneBatch == {{2, 3}}
MCTwoBatches == {{2}, {3}}
MCMapUrl == t2 :> p1
MCMapUrlOne == t1 :> p1
MCNoMap == [t \in {} |-> p1]
=============================================================================
