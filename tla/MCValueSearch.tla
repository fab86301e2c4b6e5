--------------------------- MODULE MCValueSearch ---------------------------
(* Every sorted table of up to six records, every key in and around it. *)
EXTENDS ValueSearch, FiniteSetsExt, SequencesExt

MCKeys == 0..7
MCTables == {SetToSortSeq(ks, <) : ks \in SUBSET (1..6)}
=============================================================================
