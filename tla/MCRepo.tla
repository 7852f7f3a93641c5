-------------------------------- MODULE MCRepo --------------------------------
(* Instances of Repo for TLC: model values for machines, files and values. *)
EXTENDS RepoInv, TLC

CONSTANTS m1, m2, other, v1, v2

OneMachine == {m1}
TwoMachines == {m1, m2}
TomlOnly == {Toml}
TwoFiles == {Toml, other}
OneValue == {v1}
TwoValues == {v1, v2}

\* --allow-dirty does for the other two modes what it does for --yes.
FourRuns == {Handoff("terminal"), Handoff("yes"), Handoff("dry"),
             [mode |-> "yes", dirty |-> TRUE]}
TwoRuns == {Handoff("terminal"), Handoff("yes")}

\* Machines are alike, and so are the values.
Alike == Permutations(TwoMachines) \cup Permutations(TwoValues)
===============================================================================
