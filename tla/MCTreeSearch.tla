---------------------------- MODULE MCTreeSearch ----------------------------
(* TreeSearch on every tree of up to four nodes, with keys of three bits  *)
(* in either order, around both ends of the range.                         *)
EXTENDS TreeSearch, Shapes, FiniteSetsExt, SequencesExt

Order(keys, signed) ==
  SetToSortSeq(keys, LAMBDA x, y : IF signed THEN Signed(x) < Signed(y) ELSE x < y)

MCMaps ==
  UNION {{[tree |-> t, key |-> Order(keys, signed), signed |-> signed] :
            keys \in kSubset(t.n, Bits), signed \in BOOLEAN} : t \in Trees(4)}
=============================================================================
