------------------------------ MODULE RepoProofs ------------------------------
(* What is proved of Repo, for every set of machines, files and values and     *)
(* every bound: its types, and that commands apply what is committed, publish  *)
(* what they were told to, and keep what the user has not committed.           *)
EXTENDS RepoInv, TLAPS

Loaders == {"check", "ask", "commit", "push", "materialise"}
PCs == {"idle", "clone", "validate", "prompts", "mkdir", "write", "git_init",
        "first_commit", "pull", "load"} \cup Loaders
AllFlags == Flags \cup {Handoff("yes"), Handoff("terminal")}

\* TypeOK, for the repository and for the commands.
RepoTyped ==
  /\ dir \in [Machines -> {"absent", "plain", "git"}]
  /\ tree \in [Machines -> Contents]
  /\ log \in [Machines -> Seq(Commits)]
  /\ origin \in [Machines -> BOOLEAN]
  /\ stopped \in [Machines -> BOOLEAN]
  /\ saved \in [Machines -> Seq(Commits)]
  /\ remote \in Seq(Commits)

RunTyped ==
  /\ pc \in [Machines -> PCs]
  /\ args \in [Machines -> AllFlags]
  /\ loaded \in [Machines -> Values \cup {None}]
  /\ \A m \in Machines : pc[m] \in Loaders => loaded[m] # None
  /\ decided \in [Machines -> BOOLEAN]
  /\ applied \in [Machines -> Values \cup {None}]
  /\ faults \in Nat
  /\ edits \in Nat
  /\ fresh \in [Machines -> BOOLEAN]

LEMMA Types == TypeOK <=> RepoTyped /\ RunTyped
BY DEF TypeOK, RepoTyped, RunTyped, PCs, Loaders, AllFlags

LEMMA NextTypes == TypeOK' <=> RepoTyped' /\ RunTyped'
BY DEF TypeOK, RepoTyped, RunTyped, PCs, Loaders, AllFlags

-----------------------------------------------------------------------------
(* git                                                                     *)

LEMMA BlankContents == Blank \in Contents
BY RepoConstants DEF Blank, Contents

LEMMA TipContents ==
  ASSUME NEW s \in Seq(Commits)
  PROVE  Tip(s) \in Contents
<1>1. CASE s = <<>>
  BY <1>1, BlankContents DEF Tip
<1>2. CASE s # <<>>
  <2>1. Len(s) \in 1..Len(s)
    BY <1>2
  <2>2. s[Len(s)] \in Commits
    BY <2>1
  <2> QED BY <1>2, <2>2 DEF Tip, Last, Commits
<1> QED BY <1>1, <1>2

\* A commit on top of a branch is its tip.
LEMMA CommitTip ==
  ASSUME NEW s \in Seq(Commits), NEW c \in Commits
  PROVE  Append(s, c) \in Seq(Commits) /\ Tip(Append(s, c)) = c.files
<1>1. /\ Append(s, c) \in Seq(Commits) /\ Len(Append(s, c)) = Len(s) + 1
      /\ Append(s, c)[Len(s) + 1] = c /\ Append(s, c) # <<>>
  OBVIOUS
<1> QED BY <1>1 DEF Tip, Last

LEMMA RebaseContents ==
  ASSUME RepoTyped, NEW m \in Machines
  PROVE  Rebased(m) \in Contents
<1>1. Tip(log[m]) \in Contents /\ Tip(remote) \in Contents
  BY TipContents DEF RepoTyped
<1> DEFINE base == Tip(Shared(m))
           R(f) == CASE Tip(log[m])[f] = base[f] \/ Tip(log[m])[f] = Tip(remote)[f] -> Tip(remote)[f]
                     [] Tip(remote)[f] = base[f] -> Tip(log[m])[f]
                     [] OTHER -> Marked
<1>2. Rebased(m) = [f \in Files |-> R(f)]
  BY Zenon DEF Rebased
<1> HIDE DEF base
<1>3. \A f \in Files : R(f) \in Values \cup {Missing, Marked}
  BY <1>1 DEF Contents
<1> HIDE DEF R
<1> QED BY <1>2, <1>3 DEF Contents

LEMMA MachineCommits ==
  ASSUME RepoTyped, NEW m \in Machines, NEW files \in Contents
  PROVE  [by |-> m, files |-> files] \in Commits
BY DEF Commits

LEMMA AddsCommit ==
  ASSUME RepoTyped, NEW m \in Machines, AddCommit(m), remote' = remote
  PROVE  RepoTyped' /\ Tip(log'[m]) = tree[m]
<1>1. [by |-> m, files |-> tree[m]] \in Commits /\ log[m] \in Seq(Commits)
  BY DEF RepoTyped, Commits
<1>2. log' = [log EXCEPT ![m] = Append(log[m], [by |-> m, files |-> tree[m]])]
  BY DEF AddCommit
<1>3. log'[m] = Append(log[m], [by |-> m, files |-> tree[m]])
  BY <1>2 DEF RepoTyped
<1>4. log'[m] \in Seq(Commits) /\ Tip(log'[m]) = tree[m]
  BY <1>1, <1>3, CommitTip
<1>5. log' \in [Machines -> Seq(Commits)]
  BY <1>1, <1>2, CommitTip DEF RepoTyped
<1> QED BY <1>4, <1>5 DEF AddCommit, RepoTyped

-----------------------------------------------------------------------------
(* How the machines and the parts of the invariant keep out of each other's *)
(* way                                                                      *)

Local(m) == MadeOK(m) /\ AskedOK(m) /\ LoadedOK(m)

\* What a step of machine m leaves alone.
Elsewhere(m) ==
  \A n \in Machines \ {m} :
    /\ dir'[n] = dir[n] /\ tree'[n] = tree[n] /\ log'[n] = log[n] /\ stopped'[n] = stopped[n]
    /\ pc'[n] = pc[n] /\ args'[n] = args[n] /\ loaded'[n] = loaded[n]
    /\ decided'[n] = decided[n] /\ fresh'[n] = fresh[n]

LEMMA LocalElsewhere ==
  ASSUME NEW m \in Machines, Elsewhere(m), NEW n \in Machines \ {m}, Local(n)
  PROVE  Local(n)'
BY DEF Elsewhere, Local, MadeOK, AskedOK, LoadedOK

\* What is left to show of a step of machine m.
LEMMA Inductive ==
  ASSUME RInv, NEW m \in Machines, Elsewhere(m), RepoTyped', RunTyped', Local(m)'
  PROVE  RInv'
BY NextTypes, LocalElsewhere DEF RInv, Local

RepoElsewhere(m) ==
  \A n \in Machines \ {m} :
    dir'[n] = dir[n] /\ tree'[n] = tree[n] /\ log'[n] = log[n] /\ stopped'[n] = stopped[n]

RunElsewhere(m) ==
  \A n \in Machines \ {m} :
    /\ pc'[n] = pc[n] /\ args'[n] = args[n] /\ loaded'[n] = loaded[n]
    /\ decided'[n] = decided[n] /\ fresh'[n] = fresh[n]

LEMMA SplitElsewhere ==
  ASSUME NEW m \in Machines, RepoElsewhere(m), RunElsewhere(m)
  PROVE  Elsewhere(m)
BY DEF Elsewhere, RepoElsewhere, RunElsewhere

-----------------------------------------------------------------------------
(* The ways a command goes on                                              *)

LEMMA Faulty ==
  ASSUME RunTyped, NEW k, Fault(k)
  PROVE  faults' \in Nat
BY DEF RunTyped, Fault

LEMMA Ended ==
  ASSUME RunTyped, NEW m \in Machines, End(m), faults' \in Nat,
         applied' \in [Machines -> Values \cup {None}]
  PROVE  /\ RunTyped' /\ RunElsewhere(m)
         /\ pc'[m] = "idle" /\ ~decided'[m]
<1>1. pc' \in [Machines -> PCs] /\ args' \in [Machines -> AllFlags]
      /\ loaded' \in [Machines -> Values \cup {None}]
  BY DEF RunTyped, End, GoTo, AllFlags, PCs
<1>2. decided' \in [Machines -> BOOLEAN] /\ fresh' \in [Machines -> BOOLEAN] /\ edits' \in Nat
  BY DEF RunTyped, End
<1>3. pc'[m] = "idle" /\ ~decided'[m]
  BY DEF RunTyped, End, GoTo
<1>4. RunElsewhere(m)
  BY DEF RunTyped, End, GoTo, RunElsewhere
<1>5. \A n \in Machines : pc'[n] \in Loaders => loaded'[n] # None
  BY <1>3, <1>4 DEF RunTyped, RunElsewhere, Loaders
<1> QED BY <1>1, <1>2, <1>3, <1>4, <1>5 DEF RunTyped

LEMMA Continued ==
  ASSUME RunTyped, NEW m \in Machines, NEW next \in PCs, Continue(m, next),
         next \in Loaders => pc[m] \in Loaders,
         UNCHANGED <<decided, applied, faults>>
  PROVE  /\ RunTyped' /\ RunElsewhere(m)
         /\ pc'[m] = next /\ UNCHANGED <<args, loaded, decided, fresh>>
<1>1. pc' \in [Machines -> PCs] /\ pc'[m] = next /\ RunElsewhere(m)
  BY DEF RunTyped, Continue, GoTo, RunElsewhere
<1>2. \A n \in Machines : pc'[n] \in Loaders => loaded'[n] # None
  BY <1>1 DEF RunTyped, RunElsewhere, Continue
<1> QED BY <1>1, <1>2 DEF RunTyped, Continue

LEMMA Begun ==
  ASSUME RunTyped, NEW m \in Machines, NEW next \in PCs \ Loaders, NEW flags \in AllFlags,
         Begin(m, next, flags)
  PROVE  RunTyped' /\ RunElsewhere(m) /\ pc'[m] = next /\ decided' = decided /\ pc[m] = "idle"
<1>1. /\ pc' \in [Machines -> PCs] /\ pc'[m] = next /\ args' \in [Machines -> AllFlags]
      /\ RunElsewhere(m)
  BY DEF RunTyped, Begin, GoTo, RunElsewhere
<1>2. \A n \in Machines : pc'[n] \in Loaders => loaded'[n] # None
  BY <1>1 DEF RunTyped, RunElsewhere, Begin
<1> QED BY <1>1, <1>2 DEF RunTyped, Begin

\* A command that ends without a change to its repository.
LEMMA EndsQuietly ==
  ASSUME RInv, NEW m \in Machines, End(m), faults' \in Nat,
         applied' \in [Machines -> Values \cup {None}], UNCHANGED repo
  PROVE  RInv'
<1>1. RepoTyped /\ RunTyped /\ Local(m)
  BY Types DEF RInv, Local
<1>2. RunTyped' /\ RunElsewhere(m) /\ pc'[m] = "idle" /\ ~decided'[m]
  BY <1>1, Ended
<1>3. RepoTyped' /\ RepoElsewhere(m)
  BY <1>1 DEF RepoTyped, repo, RepoElsewhere, End
<1>4. Local(m)'
  BY <1>1, <1>2 DEF Local, MadeOK, AskedOK, LoadedOK, repo
<1> QED BY <1>2, <1>3, <1>4, SplitElsewhere, Inductive
-----------------------------------------------------------------------------
(* The steps of init                                                       *)

LEMMA AfterInitCases ==
  ASSUME NEW m \in Machines, AfterInit(m)
  PROVE  \/ End(m)
         \/ \E flags \in AllFlags :
              /\ GoTo(m, "load") /\ args' = [args EXCEPT ![m] = flags]
              /\ UNCHANGED <<loaded, decided, remote, edits, fresh>>
BY DEF AfterInit, AllFlags

\* From init to the load of apply, whatever became of the repository.
LEMMA HandsOver ==
  ASSUME RunTyped, NEW m \in Machines, NEW flags \in AllFlags,
         GoTo(m, "load"), args' = [args EXCEPT ![m] = flags],
         UNCHANGED <<loaded, decided, edits, fresh, applied, faults>>
  PROVE  RunTyped' /\ RunElsewhere(m) /\ pc'[m] = "load"
<1>1. pc' \in [Machines -> PCs] /\ pc'[m] = "load" /\ RunElsewhere(m)
  BY DEF RunTyped, GoTo, PCs, RunElsewhere
<1>2. \A n \in Machines : pc'[n] \in Loaders => loaded'[n] # None
  BY <1>1 DEF RunTyped, RunElsewhere, Loaders
<1> QED BY <1>1, <1>2 DEF RunTyped

LEMMA InitCloneStep ==
  ASSUME RInv, NEW m \in Machines, InitClone(m)
  PROVE  RInv'
<1>0. RepoTyped /\ RunTyped /\ Local(m)
  BY Types DEF RInv, Local
<1>1. CASE dir[m] = "absent" /\ Begin(m, "clone", Handoff("yes"))
  <2>1. RunTyped' /\ RunElsewhere(m) /\ pc'[m] = "clone" /\ ~decided'[m]
    BY <1>0, <1>1, Begun DEF AllFlags, PCs, Loaders, Local, AskedOK
  <2>2. RepoTyped' /\ RepoElsewhere(m)
    BY <1>0, <1>1 DEF Begin, RepoTyped, repo, RepoElsewhere
  <2>3. Local(m)'
    BY <1>0, <1>1, <2>1 DEF Begin, repo, Local, MadeOK, AskedOK, LoadedOK
  <2> QED BY <2>1, <2>2, <2>3, SplitElsewhere, Inductive
<1>2. CASE /\ dir[m] = "plain" /\ tree[m] = Blank /\ pc[m] = "idle" /\ GoTo(m, "clone")
           /\ dir' = [dir EXCEPT ![m] = "absent"]
           /\ UNCHANGED <<tree, log, origin, stopped, saved, remote, run, applied,
                          faults, edits, fresh>>
  <2>1. RepoTyped' /\ RepoElsewhere(m) /\ dir'[m] = "absent"
    BY <1>0, <1>2 DEF RepoTyped, RepoElsewhere
  <2>2. pc' \in [Machines -> PCs] /\ pc'[m] = "clone" /\ RunElsewhere(m)
    BY <1>0, <1>2 DEF RunTyped, GoTo, PCs, run, RunElsewhere
  <2>3. \A n \in Machines : pc'[n] \in Loaders => loaded'[n] # None
    BY <1>0, <1>2, <2>2 DEF RunTyped, RunElsewhere, run, Loaders
  <2>4. RunTyped'
    BY <1>0, <1>2, <2>2, <2>3 DEF RunTyped, run
  <2>5. Local(m)'
    BY <1>0, <1>2, <2>1, <2>2 DEF run, Local, MadeOK, AskedOK, LoadedOK
  <2> QED BY <2>1, <2>2, <2>4, <2>5, SplitElsewhere, Inductive
<1>3. CASE End(m) /\ UNCHANGED <<repo, applied, faults>>
  BY <1>0, <1>3, EndsQuietly DEF RunTyped
<1> QED BY <1>1, <1>2, <1>3 DEF InitClone

LEMMA CloneStep ==
  ASSUME RInv, NEW m \in Machines, Clone(m)
  PROVE  RInv'
<1>0. RepoTyped /\ RunTyped /\ Local(m)
  BY Types DEF RInv, Local
<1>1. RunTyped' /\ RunElsewhere(m) /\ pc'[m] = "validate" /\ UNCHANGED <<decided, fresh>>
  BY <1>0, Continued DEF Clone, PCs, Loaders
<1>2. RepoTyped'
  BY <1>0, TipContents DEF Clone, RepoTyped
<1>3. RepoElsewhere(m) /\ dir'[m] = "git"
  BY <1>0 DEF Clone, RepoTyped, RepoElsewhere
<1>4. Local(m)'
  BY <1>0, <1>1, <1>3 DEF Clone, Local, MadeOK, AskedOK, LoadedOK
<1> QED BY <1>1, <1>2, <1>3, <1>4, SplitElsewhere, Inductive

LEMMA InitBootstrapStep ==
  ASSUME RInv, NEW m \in Machines, InitBootstrap(m)
  PROVE  RInv'
<1>0. RepoTyped /\ RunTyped /\ Local(m)
  BY Types DEF RInv, Local
<1>1. CASE dir[m] = "absent" /\ Begin(m, "prompts", Handoff("yes"))
  <2>1. RunTyped' /\ RunElsewhere(m) /\ pc'[m] = "prompts" /\ ~decided'[m]
    BY <1>0, <1>1, Begun DEF AllFlags, PCs, Loaders, Local, AskedOK
  <2>2. RepoTyped' /\ RepoElsewhere(m)
    BY <1>0, <1>1 DEF Begin, RepoTyped, repo, RepoElsewhere
  <2>3. Local(m)'
    BY <1>0, <1>1, <2>1 DEF Begin, repo, Local, MadeOK, AskedOK, LoadedOK
  <2> QED BY <2>1, <2>2, <2>3, SplitElsewhere, Inductive
<1>2. CASE End(m) /\ UNCHANGED <<repo, applied, faults>>
  BY <1>0, <1>2, EndsQuietly DEF RunTyped
<1> QED BY <1>1, <1>2 DEF InitBootstrap

LEMMA BootstrapStep ==
  ASSUME RInv, NEW m \in Machines,
         \/ BootstrapAnswered(m) \/ BootstrapMkdir(m) \/ BootstrapGitInit(m)
         \/ \E v \in Values : BootstrapWrite(m, v)
  PROVE  RInv'
<1>0. RepoTyped /\ RunTyped /\ Local(m)
  BY Types DEF RInv, Local
<1>1. CASE BootstrapAnswered(m)
  <2>1. RunTyped' /\ RunElsewhere(m) /\ pc'[m] = "mkdir" /\ UNCHANGED <<decided, fresh>>
    BY <1>0, <1>1, Continued DEF BootstrapAnswered, PCs, Loaders
  <2>2. RepoTyped' /\ RepoElsewhere(m)
    BY <1>0, <1>1 DEF BootstrapAnswered, RepoTyped, repo, RepoElsewhere
  <2>3. Local(m)'
    BY <1>0, <1>1, <2>1 DEF BootstrapAnswered, repo, Local, MadeOK, AskedOK, LoadedOK
  <2> QED BY <2>1, <2>2, <2>3, SplitElsewhere, Inductive
<1>2. CASE BootstrapMkdir(m)
  <2>1. RunTyped' /\ RunElsewhere(m) /\ pc'[m] = "write" /\ UNCHANGED <<decided, fresh>>
    BY <1>0, <1>2, Continued DEF BootstrapMkdir, PCs, Loaders
  <2>2. RepoTyped' /\ RepoElsewhere(m) /\ dir'[m] # "absent" /\ (dir[m] = "git" => dir'[m] = "git")
    BY <1>0, <1>2 DEF BootstrapMkdir, RepoTyped, RepoElsewhere
  <2>3. Local(m)'
    BY <1>0, <1>2, <2>1, <2>2 DEF BootstrapMkdir, Local, MadeOK, AskedOK, LoadedOK
  <2> QED BY <2>1, <2>2, <2>3, SplitElsewhere, Inductive
<1>3. CASE BootstrapGitInit(m)
  <2>1. RunTyped' /\ RunElsewhere(m) /\ pc'[m] = "first_commit" /\ UNCHANGED <<decided, fresh>>
    BY <1>0, <1>3, Continued DEF BootstrapGitInit, PCs, Loaders
  <2>2. RepoTyped' /\ RepoElsewhere(m) /\ dir'[m] = "git"
    BY <1>0, <1>3 DEF BootstrapGitInit, RepoTyped, RepoElsewhere
  <2>3. Local(m)'
    BY <1>0, <1>3, <2>1, <2>2 DEF BootstrapGitInit, Local, MadeOK, AskedOK, LoadedOK
  <2> QED BY <2>1, <2>2, <2>3, SplitElsewhere, Inductive
<1>4. ASSUME NEW v \in Values, BootstrapWrite(m, v)
      PROVE  RInv'
  <2>1. RunTyped' /\ RunElsewhere(m) /\ pc'[m] = "git_init" /\ UNCHANGED <<decided, fresh>>
    BY <1>0, <1>4, Continued DEF BootstrapWrite, PCs, Loaders
  <2>2. [tree[m] EXCEPT ![Toml] = v] \in Contents
    BY <1>0 DEF RepoTyped, Contents
  <2>3. tree' = [tree EXCEPT ![m] = [tree[m] EXCEPT ![Toml] = v]]
    BY <1>4 DEF BootstrapWrite
  <2>4. RepoTyped' /\ RepoElsewhere(m)
    BY <1>0, <1>4, <2>2, <2>3 DEF BootstrapWrite, RepoTyped, RepoElsewhere
  <2>5. Local(m)'
    BY <1>0, <1>4, <2>1 DEF BootstrapWrite, Local, MadeOK, AskedOK, LoadedOK
  <2> QED BY <2>1, <2>4, <2>5, SplitElsewhere, Inductive
<1> QED BY <1>1, <1>2, <1>3, <1>4

\* What follows a step of init, with or without a commit.
LEMMA LeavesInit ==
  ASSUME RInv, NEW m \in Machines, pc[m] \in {"validate", "first_commit"},
         AfterInit(m), UNCHANGED <<applied, faults>>, RepoTyped', RepoElsewhere(m), UNCHANGED <<dir, tree, stopped>>
  PROVE  RInv'
<1>0. RepoTyped /\ RunTyped /\ Local(m)
  BY Types DEF RInv, Local
<1>1. CASE End(m)
  <2>1. RunTyped' /\ RunElsewhere(m) /\ pc'[m] = "idle" /\ ~decided'[m]
    BY <1>0, <1>1, Ended DEF RunTyped
  <2>2. Local(m)'
    BY <1>0, <2>1 DEF Local, MadeOK, AskedOK, LoadedOK
  <2> QED BY <2>1, <2>2, SplitElsewhere, Inductive
<1>2. ASSUME NEW flags \in AllFlags, GoTo(m, "load"), args' = [args EXCEPT ![m] = flags],
             UNCHANGED <<loaded, decided, remote, edits, fresh>>
      PROVE  RInv'
  <2>1. RunTyped' /\ RunElsewhere(m) /\ pc'[m] = "load"
    BY <1>0, <1>2, HandsOver
  <2>2. Local(m)'
    BY <1>0, <1>2, <2>1 DEF Local, MadeOK, AskedOK, LoadedOK
  <2> QED BY <2>1, <2>2, SplitElsewhere, Inductive
<1> QED BY <1>1, <1>2, AfterInitCases
LEMMA EndOfInitStep ==
  ASSUME RInv, NEW m \in Machines, Validate(m) \/ BootstrapCommit(m)
  PROVE  RInv'
<1>0. RepoTyped /\ RunTyped /\ Local(m)
  BY Types DEF RInv, Local
<1>1. CASE Validate(m)
  <2>1. remote' = remote
    BY <1>1 DEF Validate, AfterInit, End
  <2>2. RepoTyped' /\ RepoElsewhere(m)
    BY <1>0, <1>1, <2>1 DEF Validate, RepoTyped, repo, RepoElsewhere
  <2>3. CASE AfterInit(m)
    BY <1>1, <2>2, <2>3, LeavesInit DEF Validate, repo
  <2>4. CASE End(m)
    BY <1>0, <1>1, <2>4, EndsQuietly DEF Validate, RunTyped
  <2> QED BY <1>1, <2>3, <2>4 DEF Validate
<1>2. CASE BootstrapCommit(m)
  <2>1. remote' = remote
    BY <1>2 DEF BootstrapCommit, AfterInit, End
  <2>2. RepoTyped' /\ RepoElsewhere(m)
    BY <1>0, <1>2, <2>1, AddsCommit DEF BootstrapCommit, AddCommit, RepoTyped, RepoElsewhere
  <2> QED BY <1>2, <2>2, LeavesInit DEF BootstrapCommit, AddCommit
<1> QED BY <1>1, <1>2

-----------------------------------------------------------------------------
(* The steps of apply, and the end of every command                        *)

LEMMA EndStep ==
  ASSUME RInv, NEW m \in Machines,
         \/ CloneFails(m) \/ BootstrapInterrupted(m) \/ BootstrapCommitFails(m)
         \/ PullFails(m) \/ AnswerAbort(m) \/ CommitFails(m) \/ PushFails(m)
         \/ Materialise(m) \/ MaterialiseFails(m) \/ Crash(m)
  PROVE  RInv'
<1>0. RunTyped
  BY Types DEF RInv
<1>1. End(m) /\ UNCHANGED repo
  BY DEF CloneFails, BootstrapInterrupted, BootstrapCommitFails, PullFails, AnswerAbort,
         CommitFails, PushFails, Materialise, MaterialiseFails, Crash
<1>2. faults' = faults \/ \E k : Fault(k)
  BY DEF CloneFails, BootstrapInterrupted, BootstrapCommitFails, PullFails, AnswerAbort,
         CommitFails, PushFails, Materialise, MaterialiseFails, Crash
<1>3. faults' \in Nat
  BY <1>0, <1>2, Faulty DEF RunTyped
<1>4. CASE Materialise(m)
  <2>1. applied' \in [Machines -> Values \cup {None}]
    BY <1>0, <1>4 DEF Materialise, RunTyped
  <2> QED BY <1>1, <1>3, <2>1, EndsQuietly
<1>5. CASE ~Materialise(m)
  <2>1. applied' = applied
    BY <1>5 DEF CloneFails, BootstrapInterrupted, BootstrapCommitFails, PullFails, AnswerAbort,
                CommitFails, PushFails, MaterialiseFails, Crash
  <2> QED BY <1>0, <1>1, <1>3, <2>1, EndsQuietly DEF RunTyped
<1> QED BY <1>4, <1>5

LEMMA ApplyStep ==
  ASSUME RInv, NEW m \in Machines, NEW pull \in BOOLEAN, NEW a \in Flags, Apply(m, pull, a)
  PROVE  RInv'
<1>0. RepoTyped /\ RunTyped /\ Local(m)
  BY Types DEF RInv, Local
<1>1. PICK next \in {"pull", "load"} : Begin(m, next, a)
  BY DEF Apply
<1>2. RunTyped' /\ RunElsewhere(m) /\ pc'[m] = next /\ ~decided'[m]
  BY <1>0, <1>1, Begun DEF AllFlags, PCs, Loaders, Local, AskedOK
<1>3. RepoTyped' /\ RepoElsewhere(m)
  BY <1>0, <1>1 DEF Begin, RepoTyped, repo, RepoElsewhere
<1>4. Local(m)'
  BY <1>0, <1>1, <1>2 DEF Begin, repo, Local, MadeOK, AskedOK, LoadedOK
<1> QED BY <1>2, <1>3, <1>4, SplitElsewhere, Inductive

LEMMA PullStep ==
  ASSUME RInv, NEW m \in Machines, Pull(m)
  PROVE  RInv'
<1>0. RepoTyped /\ RunTyped /\ Local(m)
  BY Types DEF RInv, Local
<1>1. RunTyped' /\ RunElsewhere(m) /\ pc'[m] = "load" /\ UNCHANGED <<decided, fresh>>
  BY <1>0, Continued DEF Pull, PCs, Loaders
<1> DEFINE pulled == IF IsPrefix(remote, log[m]) THEN log[m]
                     ELSE IF Rebased(m) = Tip(remote) THEN remote
                     ELSE Append(remote, [by |-> m, files |-> Rebased(m)])
<1>2. pulled \in Seq(Commits)
  <2>1. Append(remote, [by |-> m, files |-> Rebased(m)]) \in Seq(Commits)
    BY <1>0, RebaseContents, MachineCommits, CommitTip DEF RepoTyped
  <2> QED BY <1>0, <2>1 DEF RepoTyped
<1>3. log' = [log EXCEPT ![m] = pulled]
  BY DEF Pull
<1>4. log' \in [Machines -> Seq(Commits)]
      /\ \A n \in Machines \ {m} : log'[n] = log[n]
  BY <1>0, <1>2, <1>3 DEF RepoTyped
<1> DEFINE files == [f \in Files |-> IF Untracked(m, f) THEN tree[m][f] ELSE Tip(log'[m])[f]]
<1>5. files \in Contents
  BY <1>0, <1>4, TipContents DEF RepoTyped, Contents
<1>6. tree' = [tree EXCEPT ![m] = files]
  BY DEF Pull
<1>7. tree' \in [Machines -> Contents] /\ \A n \in Machines \ {m} : tree'[n] = tree[n]
  BY <1>0, <1>5, <1>6 DEF RepoTyped
<1>8. RepoTyped' /\ RepoElsewhere(m)
  BY <1>0, <1>4, <1>7 DEF Pull, RepoTyped, RepoElsewhere
<1>9. Local(m)'
  BY <1>0, <1>1 DEF Pull, MayPull, Local, MadeOK, AskedOK, LoadedOK
<1> QED BY <1>1, <1>8, <1>9, SplitElsewhere, Inductive

LEMMA PullStopsStep ==
  ASSUME RInv, NEW m \in Machines, PullStops(m)
  PROVE  RInv'
<1>0. RepoTyped /\ RunTyped /\ Local(m)
  BY Types DEF RInv, Local
<1>1. RunTyped' /\ RunElsewhere(m) /\ pc'[m] = "idle" /\ ~decided'[m]
  BY <1>0, Ended DEF PullStops, RunTyped
<1> DEFINE files == [f \in Files |-> IF Untracked(m, f) THEN tree[m][f] ELSE Rebased(m)[f]]
<1>2. files \in Contents
  BY <1>0, RebaseContents DEF RepoTyped, Contents
<1>3. tree' = [tree EXCEPT ![m] = files]
  BY DEF PullStops
<1>4. tree' \in [Machines -> Contents] /\ \A n \in Machines \ {m} : tree'[n] = tree[n]
  BY <1>0, <1>2, <1>3 DEF RepoTyped
<1>5. RepoTyped' /\ RepoElsewhere(m)
  BY <1>0, <1>4 DEF PullStops, End, RepoTyped, RepoElsewhere
<1>6. Local(m)'
  BY <1>0, <1>1 DEF PullStops, MayPull, Local, MadeOK, AskedOK, LoadedOK
<1> QED BY <1>1, <1>5, <1>6, SplitElsewhere, Inductive

LEMMA LoadStep ==
  ASSUME RInv, NEW m \in Machines, Load(m)
  PROVE  RInv'
<1>0. RepoTyped /\ RunTyped /\ Local(m)
  BY Types DEF RInv, Local
<1>1. CASE tree[m][Toml] \in Values
  <2>1. /\ loaded' = [loaded EXCEPT ![m] = tree[m][Toml]]
        /\ GoTo(m, "check")
        /\ UNCHANGED <<remote, args, decided, edits, fresh, applied, faults>> /\ UNCHANGED repo
    BY <1>1 DEF Load
  <2>2. /\ pc' \in [Machines -> PCs] /\ pc'[m] = "check"
        /\ loaded' \in [Machines -> Values \cup {None}] /\ loaded'[m] = tree[m][Toml]
        /\ RunElsewhere(m)
    BY <1>0, <1>1, <2>1 DEF RunTyped, GoTo, PCs, Loaders, RunElsewhere
  <2>3. \A n \in Machines : pc'[n] \in Loaders => loaded'[n] # None
    BY <1>0, <1>1, <2>2, RepoConstants DEF RunTyped, RunElsewhere
  <2>4. RunTyped'
    BY <1>0, <2>1, <2>2, <2>3 DEF RunTyped
  <2>5. RepoTyped' /\ RepoElsewhere(m)
    BY <1>0, <2>1 DEF RepoTyped, repo, RepoElsewhere
  <2>6. Local(m)'
    BY <1>0, <2>1, <2>2 DEF Load, repo, Local, MadeOK, AskedOK, LoadedOK
  <2> QED BY <2>2, <2>4, <2>5, <2>6, SplitElsewhere, Inductive
<1>2. CASE tree[m][Toml] \notin Values
  BY <1>0, <1>2, EndsQuietly DEF Load, RunTyped
<1> QED BY <1>1, <1>2

LEMMA CheckStep ==
  ASSUME RInv, NEW m \in Machines, Check(m)
  PROVE  RInv'
<1>0. RepoTyped /\ RunTyped /\ Local(m)
  BY Types DEF RInv, Local
<1>1. CASE End(m)
  BY <1>0, <1>1, EndsQuietly DEF Check, RunTyped
<1>2. CASE /\ Continue(m, "materialise") /\ UNCHANGED <<remote, decided>>
           /\ ~Dirty(m) \/ args[m].dirty \/ args[m].mode = "dry"
  <2>1. RunTyped' /\ RunElsewhere(m) /\ pc'[m] = "materialise"
        /\ UNCHANGED <<args, loaded, decided, fresh>>
    BY <1>0, <1>2, Continued DEF Check, PCs, Loaders
  <2>2. RepoTyped' /\ RepoElsewhere(m)
    BY <1>0, <1>2 DEF Check, RepoTyped, repo, RepoElsewhere
  <2>3. Local(m)'
    BY <1>0, <1>2, <2>1 DEF Check, Dirty, repo, Local, MadeOK, AskedOK, LoadedOK
  <2> QED BY <2>1, <2>2, <2>3, SplitElsewhere, Inductive
<1>3. CASE Continue(m, "ask") /\ UNCHANGED <<remote, decided>> /\ args[m].mode = "terminal"
  <2>1. RunTyped' /\ RunElsewhere(m) /\ pc'[m] = "ask"
        /\ UNCHANGED <<args, loaded, decided, fresh>>
    BY <1>0, <1>3, Continued DEF Check, PCs, Loaders
  <2>2. RepoTyped' /\ RepoElsewhere(m)
    BY <1>0, <1>3 DEF Check, RepoTyped, repo, RepoElsewhere
  <2>3. Local(m)'
    BY <1>0, <1>3, <2>1 DEF Check, repo, Local, MadeOK, AskedOK, LoadedOK
  <2> QED BY <2>1, <2>2, <2>3, SplitElsewhere, Inductive
<1> QED BY <1>1, <1>2, <1>3 DEF Check

LEMMA AnswerStep ==
  ASSUME RInv, NEW m \in Machines, AnswerCommit(m) \/ AnswerContinue(m)
  PROVE  RInv'
<1>0. RepoTyped /\ RunTyped /\ Local(m)
  BY Types DEF RInv, Local
<1>1. RepoTyped' /\ RepoElsewhere(m)
  BY <1>0 DEF AnswerCommit, AnswerContinue, RepoTyped, repo, RepoElsewhere
<1>2. CASE AnswerContinue(m)
  <2>1. RunTyped' /\ RunElsewhere(m) /\ pc'[m] = "materialise"
        /\ UNCHANGED <<args, loaded, decided, fresh>>
    BY <1>0, <1>2, Continued DEF AnswerContinue, PCs, Loaders
  <2>2. Local(m)'
    BY <1>0, <1>2, <2>1 DEF AnswerContinue, repo, Local, MadeOK, AskedOK, LoadedOK
  <2> QED BY <1>1, <2>1, <2>2, SplitElsewhere, Inductive
<1>3. CASE AnswerCommit(m)
  <2>1. /\ pc' \in [Machines -> PCs] /\ pc'[m] = "commit"
        /\ decided' \in [Machines -> BOOLEAN] /\ RunElsewhere(m)
    BY <1>0, <1>3 DEF AnswerCommit, Continue, GoTo, RunTyped, PCs, Loaders, RunElsewhere
  <2>2. \A n \in Machines : pc'[n] \in Loaders => loaded'[n] # None
    BY <1>0, <1>3, <2>1 DEF RunTyped, RunElsewhere, AnswerCommit, Continue, Loaders
  <2>3. RunTyped'
    BY <1>0, <1>3, <2>1, <2>2 DEF AnswerCommit, Continue, RunTyped
  <2>4. Local(m)'
    BY <1>0, <1>3, <2>1 DEF AnswerCommit, Continue, repo, Local, MadeOK, AskedOK, LoadedOK
  <2> QED BY <1>1, <2>1, <2>3, <2>4, SplitElsewhere, Inductive
<1> QED BY <1>2, <1>3

LEMMA CommitStep ==
  ASSUME RInv, NEW m \in Machines, Commit(m)
  PROVE  RInv'
<1>0. RepoTyped /\ RunTyped /\ Local(m)
  BY Types DEF RInv, Local
<1>1. RunTyped' /\ RunElsewhere(m) /\ pc'[m] = "push" /\ UNCHANGED <<args, loaded, decided, fresh>>
  BY <1>0, Continued DEF Commit, PCs, Loaders
<1>2. RepoTyped' /\ Tip(log'[m]) = tree[m]
  BY <1>0, AddsCommit DEF Commit
<1>3. RepoElsewhere(m)
  BY <1>0 DEF Commit, AddCommit, RepoTyped, RepoElsewhere
<1>4. Local(m)'
  BY <1>0, <1>1, <1>2 DEF Commit, AddCommit, Local, MadeOK, AskedOK, LoadedOK
<1> QED BY <1>1, <1>2, <1>3, <1>4, SplitElsewhere, Inductive

LEMMA PushStep ==
  ASSUME RInv, NEW m \in Machines, Push(m)
  PROVE  RInv'
<1>0. RepoTyped /\ RunTyped /\ Local(m)
  BY Types DEF RInv, Local
<1>1. RunTyped' /\ RunElsewhere(m) /\ pc'[m] = "materialise"
      /\ UNCHANGED <<args, loaded, decided, fresh>>
  BY <1>0, Continued DEF Push, PCs, Loaders
<1>2. RepoTyped' /\ RepoElsewhere(m)
  BY <1>0 DEF Push, RepoTyped, repo, RepoElsewhere
<1>3. Local(m)'
  BY <1>0, <1>1 DEF Push, repo, Local, MadeOK, AskedOK, LoadedOK
<1> QED BY <1>1, <1>2, <1>3, SplitElsewhere, Inductive
-----------------------------------------------------------------------------
(* The user                                                                *)

\* Whatever the user does, no command is taken to have seen it.
LEMMA Touched ==
  ASSUME RunTyped, NEW m \in Machines, UserTouches(m), edits' \in Nat
  PROVE  /\ RunTyped' /\ RunElsewhere(m)
         /\ UNCHANGED <<pc, args, loaded, decided>>
         /\ pc[m] # "idle" => ~fresh'[m]
<1>1. fresh' = [fresh EXCEPT ![m] = (pc[m] = "idle")]
  BY DEF UserTouches
<1>2. fresh' \in [Machines -> BOOLEAN] /\ fresh'[m] = (pc[m] = "idle")
      /\ \A n \in Machines \ {m} : fresh'[n] = fresh[n]
  BY <1>1, Zenon DEF RunTyped
<1> QED BY <1>2 DEF UserTouches, run, RunTyped, RunElsewhere

LEMMA UserSteps ==
  ASSUME RInv, NEW m \in Machines, UserTouches(m), edits' \in Nat,
         RepoTyped', RepoElsewhere(m),
         dir'[m] = "absent" => tree'[m] = Blank,
         stopped'[m] => dir'[m] = "git",
         dir[m] # "absent" => dir'[m] # "absent"
  PROVE  RInv'
<1>0. RunTyped /\ Local(m)
  BY Types DEF RInv, Local
<1>1. /\ RunTyped' /\ RunElsewhere(m) /\ UNCHANGED <<pc, args, loaded, decided>>
      /\ pc[m] # "idle" => ~fresh'[m]
  BY <1>0, Touched
<1>2. Local(m)'
  BY <1>0, <1>1 DEF Local, MadeOK, AskedOK, LoadedOK
<1> QED BY <1>1, <1>2, SplitElsewhere, Inductive

LEMMA Edits ==
  ASSUME RunTyped, NEW m \in Machines, UserActs(m)
  PROVE  UserTouches(m) /\ edits' \in Nat
BY DEF UserActs, RunTyped

LEMMA UserStep ==
  ASSUME RInv, NEW m \in Machines, User(m)
  PROVE  RInv'
<1>0. RepoTyped /\ RunTyped /\ Local(m)
  BY Types DEF RInv, Local
<1>1. CASE UserCommits(m)
  <2>1. UserTouches(m) /\ edits' \in Nat
    BY <1>0, <1>1, Edits DEF UserCommits
  <2>2. RepoTyped' /\ RepoElsewhere(m)
    BY <1>0, <1>1, AddsCommit DEF UserCommits, AddCommit, RepoTyped, RepoElsewhere
  <2> QED BY <1>0, <1>1, <2>1, <2>2, UserSteps DEF UserCommits, AddCommit, Local, MadeOK
<1>2. CASE UserPushes(m)
  <2>1. UserTouches(m) /\ edits' \in Nat
    BY <1>0, <1>2, Edits DEF UserPushes
  <2>2. RepoTyped' /\ RepoElsewhere(m)
    BY <1>0, <1>2 DEF UserPushes, repo, RepoTyped, RepoElsewhere
  <2> QED BY <1>0, <1>2, <2>1, <2>2, UserSteps DEF UserPushes, repo, Local, MadeOK
<1>3. CASE UserPublishes(m)
  <2>1. UserTouches(m) /\ edits' \in Nat
    BY <1>0, <1>3, Edits DEF UserPublishes
  <2>2. RepoTyped' /\ RepoElsewhere(m)
    BY <1>0, <1>3 DEF UserPublishes, RepoTyped, RepoElsewhere
  <2> QED BY <1>0, <1>3, <2>1, <2>2, UserSteps DEF UserPublishes, Local, MadeOK
<1>4. CASE UserAborts(m)
  <2>1. UserTouches(m) /\ edits' \in Nat
    BY <1>0, <1>4 DEF UserAborts, RunTyped
  <2>2. Tip(saved[m]) \in Contents /\ saved[m] \in Seq(Commits) /\ <<>> \in Seq(Commits)
    BY <1>0, TipContents DEF RepoTyped
  <2>3. RepoTyped' /\ RepoElsewhere(m) /\ ~stopped'[m]
    BY <1>0, <1>4, <2>2 DEF UserAborts, RepoTyped, RepoElsewhere
  <2> QED BY <1>0, <1>4, <2>1, <2>3, UserSteps DEF UserAborts, Local, MadeOK
<1>5. ASSUME NEW v \in Values, UserResolves(m, v) PROVE RInv'
  <2>1. UserTouches(m) /\ edits' \in Nat
    BY <1>0, <1>5 DEF UserResolves, RunTyped
  <2> DEFINE files == [f \in Files |-> IF tree[m][f] = Marked THEN v ELSE tree[m][f]]
             resolved == IF files = Tip(log[m]) THEN log[m]
                         ELSE Append(log[m], [by |-> m, files |-> files])
  <2>2. files \in Contents
    BY <1>0 DEF RepoTyped, Contents
  <2>3. Append(log[m], [by |-> m, files |-> files]) \in Seq(Commits)
    BY <1>0, <2>2, MachineCommits, CommitTip DEF RepoTyped
  <2>4. tree' = [tree EXCEPT ![m] = files] /\ log' = [log EXCEPT ![m] = resolved]
    BY <1>5 DEF UserResolves
  <2> HIDE DEF files
  <2>5. resolved \in Seq(Commits) /\ <<>> \in Seq(Commits)
    BY <1>0, <2>3 DEF RepoTyped
  <2> HIDE DEF resolved
  <2>6. RepoTyped' /\ RepoElsewhere(m) /\ ~stopped'[m]
    BY <1>0, <1>5, <2>2, <2>4, <2>5, ZenonT(40) DEF UserResolves, RepoTyped, RepoElsewhere
  <2> QED BY <1>0, <1>5, <2>1, <2>6, UserSteps DEF UserResolves, Local, MadeOK
<1>6. ASSUME NEW f \in Files, NEW v \in Values \cup {Missing}, UserEdits(m, f, v) PROVE RInv'
  <2>1. UserTouches(m) /\ edits' \in Nat
    BY <1>0, <1>6, Edits DEF UserEdits
  <2>2. [tree[m] EXCEPT ![f] = v] \in Contents
    BY <1>0 DEF RepoTyped, Contents
  <2>3. tree' = [tree EXCEPT ![m] = [tree[m] EXCEPT ![f] = v]]
    BY <1>6 DEF UserEdits
  <2>4. RepoTyped' /\ RepoElsewhere(m) /\ dir'[m] # "absent" /\ (dir[m] = "git" => dir'[m] = "git")
    BY <1>0, <1>6, <2>2, <2>3 DEF UserEdits, RepoTyped, RepoElsewhere
  <2> QED BY <1>0, <1>6, <2>1, <2>4, UserSteps DEF UserEdits, Local, MadeOK
<1> QED BY <1>1, <1>2, <1>3, <1>4, <1>5, <1>6 DEF User

-----------------------------------------------------------------------------
(* The invariant                                                           *)

LEMMA InitInv == Init => RInv
<1> SUFFICES ASSUME Init PROVE RInv
  OBVIOUS
<1>1. \A c \in [Files -> Values \cup {Missing}] :
        <<[by |-> None, files |-> c]>> \in Seq(Commits)
  <2> TAKE c \in [Files -> Values \cup {Missing}]
  <2>1. [by |-> None, files |-> c] \in Commits
    BY DEF Commits, Contents
  <2> QED BY <2>1
<1>2. remote \in Seq(Commits)
  <2>1. remote = <<>> \/ \E c \in [Files -> Values \cup {Missing}] :
                           remote = <<[by |-> None, files |-> c]>>
    BY Zenon DEF Init
  <2>2. <<>> \in Seq(Commits)
    OBVIOUS
  <2> HIDE DEF Commits
  <2> QED BY <1>1, <2>1, <2>2, Zenon
<1>3. RepoTyped
  BY <1>2, BlankContents DEF Init, RepoTyped
<1>4. RunTyped
  BY DEF Init, RunTyped, PCs, Loaders, AllFlags
<1>5. ASSUME NEW m \in Machines PROVE MadeOK(m) /\ AskedOK(m) /\ LoadedOK(m)
  BY DEF Init, MadeOK, AskedOK, LoadedOK
<1> QED BY <1>3, <1>4, <1>5, Types DEF RInv

LEMMA StutterInv == RInv /\ UNCHANGED vars => RInv'
<1> SUFFICES ASSUME RInv, UNCHANGED vars PROVE RInv'
  OBVIOUS
<1>1. RepoTyped /\ RunTyped
  BY Types DEF RInv
<1>2. TypeOK'
  BY <1>1, NextTypes DEF vars, repo, run, RepoTyped, RunTyped
<1>3. ASSUME NEW m \in Machines PROVE (MadeOK(m) /\ AskedOK(m) /\ LoadedOK(m))'
  BY DEF RInv, vars, repo, run, MadeOK, AskedOK, LoadedOK
<1> QED BY <1>2, <1>3 DEF RInv

LEMMA NextInv == RInv /\ [Next]_vars => RInv'
<1> SUFFICES ASSUME RInv, Next PROVE RInv'
  BY StutterInv
<1>1. PICK m \in Machines : Command(m) \/ Step(m) \/ Crash(m) \/ User(m)
  BY DEF Next
<1>2. CASE Command(m)
  BY <1>2, InitCloneStep, InitBootstrapStep, ApplyStep DEF Command
<1>3. CASE Step(m)
  BY <1>3, CloneStep, BootstrapStep, EndOfInitStep, EndStep, PullStep, PullStopsStep,
     LoadStep, CheckStep, AnswerStep, CommitStep, PushStep DEF Step
<1>4. CASE Crash(m)
  BY <1>4, EndStep
<1>5. CASE User(m)
  BY <1>5, UserStep
<1> QED BY <1>1, <1>2, <1>3, <1>4, <1>5

\* While nobody else touches a machine's repository, every command relies at
\* each call on what it read before (lib.rs:327, init/mod.rs:94).
THEOREM Invariant == Spec => []RInv
BY InitInv, NextInv, PTL DEF Spec

\* The types of Repo: a command that may materialise, commit or push has a
\* config that parsed (config/mod.rs:155).
THEOREM TypeCorrect == Spec => []TypeOK
<1>1. RInv => TypeOK
  BY DEF RInv
<1> QED BY <1>1, Invariant, PTL

\* `apply --yes` applies what is committed (lib.rs:343).
THEOREM AppliesCommitted == Spec => []CommittedOnly
<1>1. RInv => CommittedOnly
  BY DEF RInv, LoadedOK, CommittedOnly
<1> QED BY <1>1, Invariant, PTL
-----------------------------------------------------------------------------
(* What a step does not do                                                 *)

\* A command comes to materialising from three places.
LEMMA ComesToMaterialise ==
  ASSUME RInv, NEW m \in Machines, Next, pc[m] # "materialise", pc'[m] = "materialise"
  PROVE  Check(m) \/ AnswerContinue(m) \/ Push(m)
<1>0. RunTyped
  BY Types DEF RInv
<1>1. PICK n \in Machines : Command(n) \/ Step(n) \/ Crash(n) \/ User(n)
  BY DEF Next
<1>2. ASSUME NEW k \in Machines, NEW next, GoTo(k, next), k # m \/ next # "materialise"
      PROVE  FALSE
  BY <1>0, <1>2 DEF GoTo, RunTyped
<1>3. ~User(n)
  BY DEF User, UserCommits, UserPushes, UserPublishes, UserAborts, UserResolves, UserEdits,
         UserActs, UserTouches
<1>4. \A k \in Machines : ~End(k)
  BY <1>2 DEF End
<1>5. \A k \in Machines : ~GoTo(k, "load") /\ ~GoTo(k, "clone") /\ ~GoTo(k, "pull")
                          /\ ~GoTo(k, "prompts")
  BY <1>2
<1>6. ~Command(n)
  BY <1>4, <1>5 DEF Command, InitClone, InitBootstrap, Apply, Begin
<1>7. ~Crash(n)
  BY <1>4 DEF Crash
<1>8. \A next : Continue(n, next) => n = m /\ next = "materialise"
  BY <1>2 DEF Continue
<1>9. ~AfterInit(n) /\ \A next : GoTo(n, next) => n = m /\ next = "materialise"
  BY <1>2, <1>4, <1>5 DEF AfterInit
<1>10. ~(\/ Clone(n) \/ CloneFails(n) \/ Validate(n)
         \/ BootstrapAnswered(n) \/ BootstrapInterrupted(n) \/ BootstrapMkdir(n)
         \/ \E v \in Values : BootstrapWrite(n, v)
         \/ BootstrapGitInit(n) \/ BootstrapCommit(n) \/ BootstrapCommitFails(n))
  BY <1>4, <1>8, <1>9 DEF Clone, CloneFails, Validate, BootstrapAnswered, BootstrapInterrupted,
     BootstrapMkdir, BootstrapWrite, BootstrapGitInit, BootstrapCommit, BootstrapCommitFails
<1>11. ~(\/ Pull(n) \/ PullStops(n) \/ PullFails(n) \/ Load(n)
         \/ AnswerCommit(n) \/ AnswerAbort(n) \/ Commit(n) \/ CommitFails(n)
         \/ PushFails(n) \/ Materialise(n) \/ MaterialiseFails(n))
  BY <1>4, <1>8, <1>9 DEF Pull, PullStops, PullFails, Load, AnswerCommit, AnswerAbort, Commit,
     CommitFails, PushFails, Materialise, MaterialiseFails
<1>12. Check(n) \/ AnswerContinue(n) \/ Push(n)
  BY <1>1, <1>3, <1>6, <1>7, <1>10, <1>11 DEF Step
<1>13. n = m
  BY <1>4, <1>8, <1>12 DEF Check, AnswerContinue, Push
<1> QED BY <1>12, <1>13

LEMMA SelfPrefix ==
  ASSUME NEW s \in Seq(Commits)
  PROVE  IsPrefix(s, s)
BY DEF IsPrefix

\* A run that was told to commit and push materialises what it has published
\* (lib.rs:356, git/mod.rs:268).
THEOREM PublishesFirst == Spec => PublishedFirst
<1> DEFINE Published(m) ==
      decided[m] /\ pc[m] # "materialise" /\ pc'[m] = "materialise" =>
        /\ IsPrefix(log'[m], remote')
        /\ fresh[m] => loaded'[m] = Tip(log'[m])[Toml]
<1>1. ASSUME RInv, Next, NEW m \in Machines,
             decided[m], pc[m] # "materialise", pc'[m] = "materialise"
      PROVE  IsPrefix(log'[m], remote') /\ (fresh[m] => loaded'[m] = Tip(log'[m])[Toml])
  <2>1. RepoTyped /\ AskedOK(m) /\ LoadedOK(m)
    BY <1>1, Types DEF RInv
  <2>2. Push(m)
    BY <1>1, <2>1, ComesToMaterialise DEF AskedOK, Check, AnswerContinue
  <2>3. remote' = log[m] /\ log' = log /\ loaded' = loaded /\ pc[m] = "push"
    BY <2>2 DEF Push, Continue, repo
  <2>4. log[m] \in Seq(Commits)
    BY <2>1 DEF RepoTyped
  <2> QED BY <2>1, <2>3, <2>4, SelfPrefix DEF LoadedOK
<1>2. RInv /\ Next => \A m \in Machines : Published(m)
  BY <1>1
<1>3. RInv /\ UNCHANGED vars => \A m \in Machines : Published(m)
  BY DEF vars
<1>4. RInv /\ [Next]_vars => [\A m \in Machines : Published(m)]_vars
  BY <1>2, <1>3
<1> QED BY <1>4, Invariant, PTL DEF Spec, PublishedFirst
\* Four steps of commands write to the work tree, each to its own machine's.
LEMMA WritesTree ==
  ASSUME RInv, NEW m \in Machines, Next, pc'[m] # pc[m], tree'[m] # tree[m]
  PROVE  Clone(m) \/ Pull(m) \/ PullStops(m) \/ \E v \in Values : BootstrapWrite(m, v)
<1>0. RepoTyped
  BY Types DEF RInv
<1>1. PICK n \in Machines : Command(n) \/ Step(n) \/ Crash(n) \/ User(n)
  BY DEF Next
<1>2. ~User(n)
  BY DEF User, UserCommits, UserPushes, UserPublishes, UserAborts, UserResolves, UserEdits,
         UserActs, UserTouches
<1>3. tree' # tree
  OBVIOUS
<1>4. ~Command(n) /\ ~Crash(n)
  BY <1>3 DEF Command, InitClone, InitBootstrap, Apply, Begin, Crash, repo
<1>5. ~(\/ CloneFails(n) \/ Validate(n)
        \/ BootstrapAnswered(n) \/ BootstrapInterrupted(n) \/ BootstrapMkdir(n)
        \/ BootstrapGitInit(n) \/ BootstrapCommit(n) \/ BootstrapCommitFails(n))
  BY <1>3 DEF CloneFails, Validate, BootstrapAnswered, BootstrapInterrupted, BootstrapMkdir,
     BootstrapGitInit, BootstrapCommit, BootstrapCommitFails, AddCommit, repo
<1>6. ~(\/ PullFails(n) \/ Load(n) \/ Check(n) \/ AnswerCommit(n) \/ AnswerContinue(n)
        \/ AnswerAbort(n) \/ Commit(n) \/ CommitFails(n) \/ Push(n) \/ PushFails(n)
        \/ Materialise(n) \/ MaterialiseFails(n))
  BY <1>3 DEF PullFails, Load, Check, AnswerCommit, AnswerContinue, AnswerAbort, Commit,
     CommitFails, Push, PushFails, Materialise, MaterialiseFails, AddCommit, repo
<1>7. Clone(n) \/ Pull(n) \/ PullStops(n) \/ \E v \in Values : BootstrapWrite(n, v)
  BY <1>1, <1>2, <1>4, <1>5, <1>6 DEF Step
<1>8. \E files : tree' = [tree EXCEPT ![n] = files]
  <2>1. CASE Clone(n)
    BY <2>1 DEF Clone
  <2>2. CASE Pull(n)
    BY <2>2 DEF Pull
  <2>3. CASE PullStops(n)
    BY <2>3 DEF PullStops
  <2>4. ASSUME NEW v \in Values, BootstrapWrite(n, v) 
        PROVE  tree' = [tree EXCEPT ![n] = [tree[n] EXCEPT ![Toml] = v]]
    BY <2>4 DEF BootstrapWrite
  <2> QED BY <1>7, <2>1, <2>2, <2>3, <2>4
<1>9. n = m
  BY <1>0, <1>8 DEF RepoTyped
<1> QED BY <1>7, <1>9

\* Whatever its user does meanwhile, no command writes over what they have not
\* committed, but for a config.toml that has appeared while bootstrap waited at
\* its prompts: init looks before them only, and git refuses (init/mod.rs:94, 117,
\* config/mod.rs:155).
THEOREM KeepsEdits == Spec => EditsKept
<1> DEFINE Kept(m) ==
      pc'[m] # pc[m] =>
        \A f \in Files :
          /\ tree[m][f] \notin {Missing, Tip(log[m])[f]}
          /\ ~(pc[m] = "write" /\ f = Toml /\ ~fresh[m])
          => tree'[m][f] = tree[m][f]
<1>1. ASSUME RInv, Next, NEW m \in Machines, pc'[m] # pc[m],
             NEW f \in Files, tree[m][f] \notin {Missing, Tip(log[m])[f]},
             ~(pc[m] = "write" /\ f = Toml /\ ~fresh[m])
      PROVE  tree'[m][f] = tree[m][f]
  <2>1. RepoTyped /\ MadeOK(m)
    BY <1>1, Types DEF RInv
  <2>2. tree[m] # Blank
    BY <1>1 DEF Blank
  <2>3. ~Clone(m)
    BY <2>2 DEF Clone
  <2>4. MayPull(m) => Untracked(m, f)
    BY <1>1 DEF MayPull
  <2>5. CASE Pull(m)
    BY <2>1, <2>4, <2>5 DEF Pull, RepoTyped
  <2>6. CASE PullStops(m)
    BY <2>1, <2>4, <2>6 DEF PullStops, RepoTyped
  <2>7. ASSUME NEW v \in Values, BootstrapWrite(m, v) PROVE tree'[m][f] = tree[m][f]
    <3>1. pc[m] = "write" /\ tree' = [tree EXCEPT ![m][Toml] = v]
      BY <2>7 DEF BootstrapWrite
    <3>2. ~fresh[m]
      BY <2>1, <2>2, <3>1 DEF MadeOK
    <3>3. f # Toml
      BY <1>1, <3>1, <3>2
    <3> QED BY <2>1, <3>1, <3>3 DEF RepoTyped
  <2>8. CASE tree'[m] = tree[m]
    BY <2>8
  <2> QED BY <1>1, <2>3, <2>5, <2>6, <2>7, <2>8, WritesTree
<1>2. RInv /\ Next => \A m \in Machines : Kept(m)
  BY <1>1
<1>3. RInv /\ UNCHANGED vars => \A m \in Machines : Kept(m)
  BY DEF vars
<1>4. RInv /\ [Next]_vars => [\A m \in Machines : Kept(m)]_vars
  BY <1>2, <1>3
<1> QED BY <1>4, Invariant, PTL DEF Spec, EditsKept
===============================================================================
