------------------------------ MODULE MCTicks ------------------------------
(* Ticks on a small clock: a plain period, a defaulted one, a negative one. *)
EXTENDS Ticks

MCConfigTick == [t \in Timers |->
  CASE t = "guard" -> 1 [] t = "main" -> 0 [] t = "sync" -> -1]
MCDefaultTick == [t \in Timers |-> 2]
=============================================================================
