------------------------------ MODULE MCWalks -------------------------------
(* Both walks on every tree of up to six nodes. *)
EXTENDS PropsWalk, Shapes

MCTrees == Trees(6)
=============================================================================
