----------------------------- MODULE MCOverlay -----------------------------
EXTENDS Overlay, TLC

\* A tile of three nodes that is crossed on two ways of the same length, a tile
\* that is best left and entered again, a loop, and a node that is far away.
CONSTANTS sa, sb, ma, mb, mc, ta, tb,
          s1, s2, in1, in2, m1, m2, m3, m4, out1, out2, t1, around, home
Row(x, y, w) == [from |-> x, to |-> y, weight |-> w]
Table == (s1 :> Row(sa, sb, 1)) @@ (s2 :> Row(sb, sa, 1)) @@ (in1 :> Row(sa, ma, 1)) @@
         (in2 :> Row(sb, mb, 1)) @@ (m1 :> Row(ma, mb, 1)) @@ (m2 :> Row(mb, mc, 1)) @@
         (m3 :> Row(ma, mc, 2)) @@ (m4 :> Row(mb, mb, 1)) @@ (out1 :> Row(mc, ta, 1)) @@
         (out2 :> Row(mb, ta, 4)) @@ (t1 :> Row(ta, tb, 5)) @@ (around :> Row(mc, sb, 1)) @@
         (home :> Row(ta, sa, 1))
MCNodeA == [x \in Edge |-> Table[x].from]
MCNodeB == [x \in Edge |-> Table[x].to]
MCWeight == [x \in Edge |-> Table[x].weight]
MCNumber == (sa :> 0) @@ (sb :> 1) @@ (ma :> 2) @@ (mb :> 3) @@ (mc :> 4) @@ (ta :> 5) @@ (tb :> 6)

Tiling(s, m, t) == [n \in Node |-> IF n \in s THEN 1 ELSE IF n \in m THEN 2 ELSE t]
MCTilings == {Tiling({sa, sb}, {ma, mb, mc}, 3), Tiling({sa, ma, ta}, {sb, mc}, 3),
              Tiling({sb}, {ma, mb}, 3)}
=============================================================================
