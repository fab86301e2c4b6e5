------------------------------ MODULE MCBridge ------------------------------
(* Bridge with one process of two threads, forked before, between or after *)
(* the bootstrap's calls.                                                  *)
EXTENDS Bridge
=============================================================================
