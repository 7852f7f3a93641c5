------------------------------ MODULE MCImport ------------------------------
(* Instances of Import for TLC: model values for paths and contents.       *)
EXTENDS ImportInv, TLC

CONSTANTS r1, r2, r3, c1, c2

TwoRels == {r1, r2}
ThreeRels == {r1, r2, r3}
OneContent == {c1}
TwoContents == {c1, c2}

Symmetry == Permutations(Rels) \cup Permutations(Contents)
=============================================================================
