------------------------------- MODULE Shapes -------------------------------
(* Every tree of the module Tree up to a size, for TLC. *)
EXTENDS Tree, Integers, TLC

Empty == [root |-> 0, left |-> <<>>, right |-> <<>>, parent |-> <<>>,
          lo |-> <<>>, hi |-> <<>>]

(* The child as seen from its parent x: its own parent is x. *)
Under(x, s) == IF s.root = 0 THEN s.parent ELSE [s.parent EXCEPT ![s.root] = x]

Join(a, x, b, from, to) ==
  [root   |-> x,
   left   |-> (x :> a.root) @@ a.left @@ b.left,
   right  |-> (x :> b.root) @@ a.right @@ b.right,
   parent |-> (x :> 0) @@ Under(x, a) @@ Under(x, b),
   lo     |-> (x :> from) @@ a.lo @@ b.lo,
   hi     |-> (x :> to) @@ a.hi @@ b.hi]

(* The trees with the nodes from..to, for all from and to up to max. *)
Between(max) ==
  LET B[from \in 1..(max + 1), to \in 0..max] ==
        IF from > to THEN {Empty}
        ELSE UNION {{Join(a, x, b, from, to) :
                       a \in B[from, x - 1], b \in B[x + 1, to]} :
                    x \in from..to}
  IN B

(* The header, with its links to the root, the first and the last node. *)
WithHeader(s, n) ==
  LET h == n + 1 IN
  [n      |-> n,
   left   |-> s.left @@ (h :> IF n = 0 THEN h ELSE 1),
   right  |-> s.right @@ (h :> IF n = 0 THEN h ELSE n),
   parent |-> Under(h, s) @@ (h :> s.root),
   lo     |-> s.lo, hi |-> s.hi]

Trees(max) == UNION {{WithHeader(s, n) : s \in Between(max)[1, n]} : n \in 0..max}
=============================================================================
