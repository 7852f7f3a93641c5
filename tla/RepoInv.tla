------------------------------- MODULE RepoInv -------------------------------
(***************************************************************************)
(* The inductive invariant of Repo: what each command may rely on at each  *)
(* of its calls while the user of its machine leaves the repository alone  *)
(* (`fresh`).  MCRepo checks it, RepoProofs proves it.                     *)
(***************************************************************************)
EXTENDS Repo

\* Nothing is where there is no directory, and nothing is where bootstrap will
\* write: it looked before its prompts, and no command of zenops runs beside it.
MadeOK(m) ==
  /\ dir[m] = "absent" => tree[m] = Blank
  /\ stopped[m] => dir[m] = "git"
  /\ pc[m] \in {"write", "git_init", "first_commit"} => dir[m] # "absent"
  /\ pc[m] \in {"prompts", "mkdir", "write"} /\ fresh[m] => tree[m] = Blank

\* Only a run at a terminal asks, and only an answer decides to commit.
AskedOK(m) ==
  /\ pc[m] \in {"ask", "commit", "push"} => args[m].mode = "terminal"
  /\ decided[m] => pc[m] \in {"commit", "push", "materialise"}

\* The config in memory is the one in the work tree until it is committed, and
\* the committed one from then on.
LoadedOK(m) ==
  fresh[m] =>
    /\ pc[m] \in {"check", "ask", "commit"} => loaded[m] = tree[m][Toml]
    /\ pc[m] = "push" => loaded[m] = Tip(log[m])[Toml]
    /\ pc[m] = "materialise" /\ dir[m] = "git" /\ args[m].mode = "yes" /\ ~args[m].dirty =>
         loaded[m] = Tip(log[m])[Toml]

RInv ==
  /\ TypeOK
  /\ \A m \in Machines : MadeOK(m) /\ AskedOK(m) /\ LoadedOK(m)
=============================================================================
