------------------------------- MODULE MCApply -------------------------------
(* Instances of Apply for TLC: model values for paths, targets and hunks.  *)
EXTENDS ApplyInv

CONSTANTS g1, p1, p2, t1, t2, d1, d2, h1, h2

\* Two symlinks around a generated file of two hunks, in two directories.  The
\* user can make each of the three lead to the target of either link.
OneGen == {g1}
TwoLinks == {p1, p2}
LinksOrder == <<p1, g1, p2>>
TwoTargets == {t1, t2}
LinksReal == [p \in TwoLinks |-> IF p = p1 THEN t1 ELSE t2]
LinksDir == [p \in {g1, p1, p2} |-> IF p = p1 THEN d1 ELSE d2]
TwoDirs == {d1, d2}
TwoHunks == {h1, h2}
==============================================================================
