------------------------------- MODULE MCNet -------------------------------
(* Net on a small instance: packets of two and three units, of which two   *)
(* are the header, so that reads split headers and bodies.                 *)
EXTENDS Net

MCSizes == {2, 3}
=============================================================================
