--------------------------------- MODULE Repo ---------------------------------
(***************************************************************************)
(* The config repository ~/.config/zenops on several machines, and the     *)
(* commands that create, read, commit, push and pull it: `zenops init` in  *)
(* both forms (src/src/init/mod.rs) and `zenops apply` up to the point     *)
(* where it hands the loaded config to the materialiser (src/src/lib.rs,   *)
(* src/src/git/mod.rs, src/src/config/mod.rs).                             *)
(*                                                                         *)
(* Every call of git and every access to the file system is an action of   *)
(* its own.  The machines share one remote.  The users act at any time.    *)
(*                                                                         *)
(* git is modelled from what the commands ask of it: a branch is a         *)
(* sequence of commits, a rebase carries the local commits over as one,    *)
(* and there is no index, since zenops stages everything it commits.       *)
(***************************************************************************)
EXTENDS Naturals, SequencesExt

CONSTANTS
  Machines,
  Files,      \* paths of the repository
  Toml,       \* config.toml, one of them
  Values,     \* what a file can say
  Missing,    \* no such file
  Marked,     \* a file with the conflict markers of a rebase
  None,       \* no config
  Inits,      \* the forms of init that are run
  Flags,      \* what apply is run with
  FaultKinds, \* what may fail (and "crash")
  MaxEvents,  \* bound on failures and on what users add to a behaviour
  MaxFaults   \* bound on failures among them

ASSUME RepoConstants ==
  /\ Toml \in Files
  /\ Missing \notin Values
  /\ Marked \notin Values \cup {Missing}
  /\ None \notin Values \cup {Missing, Marked}
  /\ Inits \subseteq {"clone", "bootstrap"}
  \* --yes and --dry-run exclude each other.
  /\ Flags \subseteq [mode : {"terminal", "yes", "dry"}, dirty : BOOLEAN]
  /\ MaxEvents \in Nat /\ MaxFaults \in Nat

Contents == [Files -> Values \cup {Missing, Marked}]
Commits == [by : Machines \cup {None}, files : Contents]
Blank == [f \in Files |-> Missing]

VARIABLES
  dir,      \* dir[m]: ~/.config/zenops is "absent", "plain" or a "git" work tree
  tree,     \* tree[m]: the files in it
  log,      \* log[m]: the commits HEAD leads to
  origin,   \* origin[m]: the branch follows the remote's
  stopped,  \* stopped[m]: a rebase waits for its conflicts to be resolved
  saved,    \* saved[m]: the branch as it was before that rebase
  remote,   \* the commits of the remote
  pc,       \* pc[m]: where the command running at m is
  args,     \* args[m]: the flags of the running apply
  loaded,   \* loaded[m]: the config.toml it has parsed, or None
  decided,  \* decided[m]: whether the user chose to commit and push
  applied,  \* applied[m]: the config.toml last materialised, or None
  faults, edits, \* counters for the bounds
  fresh     \* fresh[m], history: the user has not acted during the command at m

repo == <<dir, tree, log, origin, stopped, saved>>
run  == <<args, loaded, decided>>
vars == <<repo, remote, pc, run, applied, faults, edits, fresh>>

\* How init runs apply, and apply without a flag, or with --yes.
Handoff(mode) == [mode |-> mode, dirty |-> FALSE]

TypeOK ==
  /\ dir \in [Machines -> {"absent", "plain", "git"}]
  /\ tree \in [Machines -> Contents]
  /\ log \in [Machines -> Seq(Commits)]
  /\ origin \in [Machines -> BOOLEAN]
  /\ stopped \in [Machines -> BOOLEAN]
  /\ saved \in [Machines -> Seq(Commits)]
  /\ remote \in Seq(Commits)
  /\ pc \in [Machines -> {"idle", "clone", "validate", "prompts", "mkdir",
                          "write", "git_init", "first_commit", "pull", "load",
                          "check", "ask", "commit", "push", "materialise"}]
  /\ args \in [Machines -> Flags \cup {Handoff("yes"), Handoff("terminal")}]
  /\ loaded \in [Machines -> Values \cup {None}]
  /\ \A m \in Machines : pc[m] \in {"check", "ask", "commit", "push", "materialise"}
                           => loaded[m] # None
  /\ decided \in [Machines -> BOOLEAN]
  /\ applied \in [Machines -> Values \cup {None}]
  /\ faults \in Nat
  /\ edits \in Nat
  /\ fresh \in [Machines -> BOOLEAN]

Init ==
  /\ dir = [m \in Machines |-> "absent"]
  /\ tree = [m \in Machines |-> Blank]
  /\ log = [m \in Machines |-> <<>>]
  /\ origin = [m \in Machines |-> FALSE]
  /\ stopped = [m \in Machines |-> FALSE]
  /\ saved = [m \in Machines |-> <<>>]
  /\ \/ remote = <<>>
     \/ \E c \in [Files -> Values \cup {Missing}] :
          remote = <<[by |-> None, files |-> c]>>
  /\ pc = [m \in Machines |-> "idle"]
  /\ args = [m \in Machines |-> Handoff("yes")]
  /\ loaded = [m \in Machines |-> None]
  /\ decided = [m \in Machines |-> FALSE]
  /\ applied = [m \in Machines |-> None]
  /\ faults = 0 /\ edits = 0
  /\ fresh = [m \in Machines |-> TRUE]

-----------------------------------------------------------------------------
(* git                                                                     *)

Tip(s) == IF s = <<>> THEN Blank ELSE Last(s).files

Untracked(m, f) == Tip(log[m])[f] = Missing /\ tree[m][f] # Missing

\* git status --porcelain prints something.
Dirty(m) == dir[m] = "git" /\ tree[m] # Tip(log[m])

\* What the local branch and the remote have in common.
Shared(m) == LongestCommonPrefix({log[m], remote})

\* The local changes, carried over to the remote's tip.
Rebased(m) ==
  LET ours   == Tip(log[m])
      theirs == Tip(remote)
      base   == Tip(Shared(m))
  IN  [f \in Files |->
         CASE ours[f] = base[f] \/ ours[f] = theirs[f] -> theirs[f]
           [] theirs[f] = base[f]                      -> ours[f]
           [] OTHER                                    -> Marked]

Conflict(m) == \E f \in Files : Rebased(m)[f] = Marked

\* git refuses to pull over changes, and over untracked files in its way.
MayPull(m) ==
  /\ dir[m] = "git" /\ origin[m] /\ ~stopped[m]
  /\ remote # <<>>
  /\ \A f \in Files : tree[m][f] = Tip(log[m])[f] \/ Untracked(m, f)
  /\ \A f \in Files : Untracked(m, f) => Tip(remote)[f] = Missing

-----------------------------------------------------------------------------
(* How a command goes on                                                   *)

Fault(k) == k \in FaultKinds /\ faults < MaxFaults /\ faults + edits < MaxEvents
            /\ faults' = faults + 1

GoTo(m, next) == pc' = [pc EXCEPT ![m] = next]

Begin(m, next, flags) ==
  /\ pc[m] = "idle"
  /\ GoTo(m, next)
  /\ args' = [args EXCEPT ![m] = flags]
  /\ UNCHANGED <<repo, remote, loaded, decided, applied, faults, edits, fresh>>

End(m) ==
  /\ GoTo(m, "idle")
  /\ args' = [args EXCEPT ![m] = Handoff("yes")]
  /\ loaded' = [loaded EXCEPT ![m] = None]
  /\ decided' = [decided EXCEPT ![m] = FALSE]
  /\ fresh' = [fresh EXCEPT ![m] = TRUE]
  /\ UNCHANGED <<remote, edits>>

\* The command goes on with the same flags and the same config.
Continue(m, next) ==
  /\ GoTo(m, next)
  /\ UNCHANGED <<args, loaded, edits, fresh>>

-----------------------------------------------------------------------------
(* zenops init                                                             *)

\* A summary, or on to `apply`, with or without --yes.
AfterInit(m) ==
  \/ End(m)
  \/ \E mode \in {"terminal", "yes"} :
       /\ GoTo(m, "load")
       /\ args' = [args EXCEPT ![m] = Handoff(mode)]
       /\ UNCHANGED <<loaded, decided, remote, edits, fresh>>

\* preflight_clone: an empty directory is removed, any other refused.
InitClone(m) ==
  \/ /\ dir[m] = "absent"
     /\ Begin(m, "clone", Handoff("yes"))
  \/ /\ dir[m] = "plain" /\ tree[m] = Blank
     /\ pc[m] = "idle"
     /\ GoTo(m, "clone")
     /\ dir' = [dir EXCEPT ![m] = "absent"]
     /\ UNCHANGED <<tree, log, origin, stopped, saved, remote, run, applied,
                    faults, edits, fresh>>
  \/ /\ dir[m] = "git" \/ tree[m] # Blank
     /\ pc[m] = "idle"
     /\ End(m)
     /\ UNCHANGED <<repo, applied, faults>>

Clone(m) ==
  /\ pc[m] = "clone"
  /\ tree[m] = Blank
  /\ dir' = [dir EXCEPT ![m] = "git"]
  /\ tree' = [tree EXCEPT ![m] = Tip(remote)]
  /\ log' = [log EXCEPT ![m] = remote]
  /\ origin' = [origin EXCEPT ![m] = TRUE]
  /\ Continue(m, "validate")
  /\ UNCHANGED <<stopped, saved, remote, decided, applied, faults>>

CloneFails(m) ==
  /\ pc[m] = "clone"
  /\ \/ tree[m] # Blank /\ UNCHANGED faults
     \/ Fault("clone")
  /\ End(m)
  /\ UNCHANGED <<repo, applied>>

\* The clone of a repository without a config.toml is left in place.
Validate(m) ==
  /\ pc[m] = "validate"
  /\ IF tree[m][Toml] \in Values THEN AfterInit(m) ELSE End(m)
  /\ UNCHANGED <<repo, applied, faults>>

\* Mutant: bootstrap does not look whether there is a directory already.
InitBootstrapAnywhere(m) == Begin(m, "prompts", Handoff("yes"))

\* preflight_bootstrap: any path is refused, a repository with a hint to skip
\* init.
InitBootstrap(m) ==
  \/ /\ dir[m] = "absent"
     /\ Begin(m, "prompts", Handoff("yes"))
  \/ /\ dir[m] # "absent"
     /\ pc[m] = "idle"
     /\ End(m)
     /\ UNCHANGED <<repo, applied, faults>>

\* The user has answered for shell, name and email, or interrupts.
BootstrapAnswered(m) ==
  /\ pc[m] = "prompts"
  /\ Continue(m, "mkdir")
  /\ UNCHANGED <<repo, remote, decided, applied, faults>>

BootstrapInterrupted(m) ==
  /\ pc[m] = "prompts"
  /\ End(m)
  /\ UNCHANGED <<repo, applied, faults>>

\* create_dir_all
BootstrapMkdir(m) ==
  /\ pc[m] = "mkdir"
  /\ dir' = [dir EXCEPT ![m] = IF @ = "absent" THEN "plain" ELSE @]
  /\ Continue(m, "write")
  /\ UNCHANGED <<tree, log, origin, stopped, saved, remote, decided, applied, faults>>

BootstrapWrite(m, v) ==
  /\ pc[m] = "write"
  /\ tree' = [tree EXCEPT ![m][Toml] = v]
  /\ Continue(m, "git_init")
  /\ UNCHANGED <<dir, log, origin, stopped, saved, remote, decided, applied, faults>>

\* git init is content with a repository that exists.
BootstrapGitInit(m) ==
  /\ pc[m] = "git_init"
  /\ dir' = [dir EXCEPT ![m] = "git"]
  /\ Continue(m, "first_commit")
  /\ UNCHANGED <<tree, log, origin, stopped, saved, remote, decided, applied, faults>>

AddCommit(m) ==
  /\ Dirty(m)
  /\ log' = [log EXCEPT ![m] = Append(@, [by |-> m, files |-> tree[m]])]
  /\ UNCHANGED <<dir, tree, origin, stopped, saved>>

BootstrapCommit(m) ==
  /\ pc[m] = "first_commit"
  /\ AddCommit(m)
  /\ AfterInit(m)
  /\ UNCHANGED <<applied, faults>>

\* git has no identity to commit with, or nothing to commit.
BootstrapCommitFails(m) ==
  /\ pc[m] = "first_commit"
  /\ \/ ~Dirty(m) /\ UNCHANGED faults
     \/ Fault("commit")
  /\ End(m)
  /\ UNCHANGED <<repo, applied>>

-----------------------------------------------------------------------------
(* zenops apply                                                            *)

\* With or without --pull-config.
Apply(m, pull, flags) == Begin(m, IF pull THEN "pull" ELSE "load", flags)

\* Mutant: pull without --rebase, which git refuses when the branches diverge.
PullFastForward(m) ==
  /\ pc[m] = "pull"
  /\ MayPull(m)
  /\ IsPrefix(log[m], remote)
  /\ log' = [log EXCEPT ![m] = remote]
  /\ tree' = [tree EXCEPT ![m] = [f \in Files |->
                IF Untracked(m, f) THEN @[f] ELSE Tip(remote)[f]]]
  /\ Continue(m, "load")
  /\ UNCHANGED <<dir, origin, stopped, saved, remote, decided, applied, faults>>

\* git pull --rebase: local commits end up on top of the remote's, unless the
\* remote has them all, or has nothing new.
Pull(m) ==
  /\ pc[m] = "pull"
  /\ MayPull(m)
  /\ ~Conflict(m)
  /\ log' = [log EXCEPT ![m] =
               IF IsPrefix(remote, @) THEN @
               ELSE IF Rebased(m) = Tip(remote) THEN remote
               ELSE Append(remote, [by |-> m, files |-> Rebased(m)])]
  /\ tree' = [tree EXCEPT ![m] =
                [f \in Files |-> IF Untracked(m, f) THEN @[f] ELSE Tip(log'[m])[f]]]
  /\ Continue(m, "load")
  /\ UNCHANGED <<dir, origin, stopped, saved, remote, decided, applied, faults>>

\* The rebase stops with conflict markers in the files, HEAD on the remote's tip.
PullStops(m) ==
  /\ pc[m] = "pull"
  /\ MayPull(m)
  /\ Conflict(m)
  /\ stopped' = [stopped EXCEPT ![m] = TRUE]
  /\ saved' = [saved EXCEPT ![m] = log[m]]
  /\ log' = [log EXCEPT ![m] = remote]
  /\ tree' = [tree EXCEPT ![m] =
                [f \in Files |-> IF Untracked(m, f) THEN @[f] ELSE Rebased(m)[f]]]
  /\ End(m)
  /\ UNCHANGED <<dir, origin, applied, faults>>

PullFails(m) ==
  /\ pc[m] = "pull"
  /\ \/ ~MayPull(m) /\ UNCHANGED faults
     \/ Fault("pull")
  /\ End(m)
  /\ UNCHANGED <<repo, applied>>

\* Mutant: a config.toml that cannot be read is taken for an empty one.
LoadAnything(m) ==
  /\ pc[m] = "load"
  /\ loaded' = [loaded EXCEPT ![m] = tree[m][Toml]]
  /\ GoTo(m, "check")
  /\ UNCHANGED <<repo, remote, args, decided, applied, faults, edits, fresh>>

\* Config::load.  The config stays in memory from here on.
Load(m) ==
  /\ pc[m] = "load"
  /\ IF tree[m][Toml] \in Values
     THEN /\ loaded' = [loaded EXCEPT ![m] = tree[m][Toml]]
          /\ GoTo(m, "check")
          /\ UNCHANGED <<remote, args, decided, edits, fresh>>
     ELSE End(m)
  /\ UNCHANGED <<repo, applied, faults>>

\* Mutant: untracked files do not count as changes.
CheckTracked(m) ==
  /\ pc[m] = "check"
  /\ IF dir[m] = "git" /\ \E f \in Files : tree[m][f] # Tip(log[m])[f]
                                          /\ ~Untracked(m, f)
     THEN End(m)
     ELSE Continue(m, "materialise") /\ UNCHANGED <<remote, decided>>
  /\ UNCHANGED <<repo, applied, faults>>

\* build_prompter refuses to run without --yes, --dry-run or a terminal.
\* Uncommitted changes stop --yes, and let the others ask, for which `git diff
\* HEAD` is shown, unless --allow-dirty waves them through.
Check(m) ==
  /\ pc[m] = "check"
  /\ \/ args[m].mode = "terminal" /\ End(m)
     \/ /\ ~Dirty(m) \/ args[m].dirty
        /\ Continue(m, "materialise")
        /\ UNCHANGED <<remote, decided>>
     \/ /\ Dirty(m) /\ ~args[m].dirty
        /\ \/ args[m].mode = "yes" /\ End(m)
           \/ args[m].mode # "yes" /\ log[m] = <<>> /\ End(m)
           \/ /\ args[m].mode = "terminal" /\ log[m] # <<>>
              /\ Continue(m, "ask")
              /\ UNCHANGED <<remote, decided>>
           \/ /\ args[m].mode = "dry" /\ log[m] # <<>>
              /\ Continue(m, "materialise")
              /\ UNCHANGED <<remote, decided>>
  /\ UNCHANGED <<repo, applied, faults>>

AnswerCommit(m) ==
  /\ pc[m] = "ask"
  /\ decided' = [decided EXCEPT ![m] = TRUE]
  /\ Continue(m, "commit")
  /\ UNCHANGED <<repo, remote, applied, faults>>

AnswerContinue(m) ==
  /\ pc[m] = "ask"
  /\ Continue(m, "materialise")
  /\ UNCHANGED <<repo, remote, decided, applied, faults>>

\* Abort, end of input, Ctrl-C, or no commit message.
AnswerAbort(m) ==
  /\ pc[m] = "ask"
  /\ End(m)
  /\ UNCHANGED <<repo, applied, faults>>

\* Mutant: the push is forgotten.
CommitOnly(m) ==
  /\ pc[m] = "commit"
  /\ AddCommit(m)
  /\ Continue(m, "materialise")
  /\ UNCHANGED <<remote, decided, applied, faults>>

Commit(m) ==
  /\ pc[m] = "commit"
  /\ AddCommit(m)
  /\ Continue(m, "push")
  /\ UNCHANGED <<remote, decided, applied, faults>>

\* A hook refuses, or the changes have been undone at the prompt.
CommitFails(m) ==
  /\ pc[m] = "commit"
  /\ \/ ~Dirty(m) /\ UNCHANGED faults
     \/ Fault("commit")
  /\ End(m)
  /\ UNCHANGED <<repo, applied>>

MayPush(m) == origin[m] /\ ~stopped[m] /\ IsPrefix(remote, log[m])

Push(m) ==
  /\ pc[m] = "push"
  /\ MayPush(m)
  /\ remote' = log[m]
  /\ Continue(m, "materialise")
  /\ UNCHANGED <<repo, decided, applied, faults>>

\* The commit stays, the next run finds nothing to commit.
PushFails(m) ==
  /\ pc[m] = "push"
  /\ \/ ~MayPush(m) /\ UNCHANGED faults
     \/ Fault("push")
  /\ End(m)
  /\ UNCHANGED <<repo, applied>>

\* update_config_files and apply_changes, which Apply models.  At a terminal
\* the user may turn the changes down.
Materialise(m) ==
  /\ pc[m] = "materialise"
  /\ \/ args[m].mode # "dry" /\ applied' = [applied EXCEPT ![m] = loaded[m]]
     \/ args[m].mode # "yes" /\ UNCHANGED applied
  /\ End(m)
  /\ UNCHANGED <<repo, faults>>

MaterialiseFails(m) ==
  /\ pc[m] = "materialise"
  /\ Fault("materialise")
  /\ End(m)
  /\ UNCHANGED <<repo, applied>>

Crash(m) ==
  /\ pc[m] # "idle"
  /\ Fault("crash")
  /\ End(m)
  /\ UNCHANGED <<repo, applied>>

-----------------------------------------------------------------------------
(* The user of a machine, who does not wait for the commands               *)

UserTouches(m) ==
  /\ fresh' = [fresh EXCEPT ![m] = pc[m] = "idle"]
  /\ UNCHANGED <<pc, run, applied, faults>>

UserActs(m) ==
  /\ faults + edits < MaxEvents
  /\ edits' = edits + 1
  /\ UserTouches(m)

UserEdits(m, f, v) ==
  /\ UserActs(m)
  /\ tree[m][f] # v
  /\ dir' = [dir EXCEPT ![m] = IF @ = "absent" THEN "plain" ELSE @]
  /\ tree' = [tree EXCEPT ![m][f] = v]
  /\ UNCHANGED <<log, origin, stopped, saved, remote>>

\* zenops repo add and zenops repo commit
UserCommits(m) ==
  /\ UserActs(m)
  /\ ~stopped[m]
  /\ AddCommit(m)
  /\ UNCHANGED remote

\* zenops repo push
UserPushes(m) ==
  /\ UserActs(m)
  /\ MayPush(m)
  /\ remote # log[m]
  /\ remote' = log[m]
  /\ UNCHANGED repo

\* git remote add and git push -u, for a repository that init has made.
UserPublishes(m) ==
  /\ UserActs(m)
  /\ dir[m] = "git" /\ ~origin[m] /\ log[m] # <<>> /\ remote = <<>>
  /\ origin' = [origin EXCEPT ![m] = TRUE]
  /\ remote' = log[m]
  /\ UNCHANGED <<dir, tree, log, stopped, saved>>

\* git rebase --abort
UserAborts(m) ==
  /\ stopped[m]
  /\ UserTouches(m)
  /\ stopped' = [stopped EXCEPT ![m] = FALSE]
  /\ log' = [log EXCEPT ![m] = saved[m]]
  /\ tree' = [tree EXCEPT ![m] = Tip(saved[m])]
  /\ saved' = [saved EXCEPT ![m] = <<>>]
  /\ UNCHANGED <<dir, origin, remote, edits>>

\* Edit the files with markers, git add, git rebase --continue.
UserResolves(m, v) ==
  /\ stopped[m]
  /\ UserTouches(m)
  /\ LET files == [f \in Files |-> IF tree[m][f] = Marked THEN v ELSE tree[m][f]]
     IN  /\ tree' = [tree EXCEPT ![m] = files]
         /\ log' = [log EXCEPT ![m] = IF files = Tip(@) THEN @
                                      ELSE Append(@, [by |-> m, files |-> files])]
  /\ stopped' = [stopped EXCEPT ![m] = FALSE]
  /\ saved' = [saved EXCEPT ![m] = <<>>]
  /\ UNCHANGED <<dir, origin, remote, edits>>

User(m) ==
  \/ UserCommits(m) \/ UserPushes(m) \/ UserPublishes(m) \/ UserAborts(m)
  \/ \E v \in Values : UserResolves(m, v)
  \/ \E f \in Files, v \in Values \cup {Missing} : UserEdits(m, f, v)

Command(m) ==
  \/ "clone" \in Inits /\ InitClone(m)
  \/ "bootstrap" \in Inits /\ InitBootstrap(m)
  \/ \E pull \in BOOLEAN, a \in Flags : Apply(m, pull, a)

Step(m) ==
  \/ Clone(m) \/ CloneFails(m) \/ Validate(m)
  \/ BootstrapAnswered(m) \/ BootstrapInterrupted(m) \/ BootstrapMkdir(m)
  \/ \E v \in Values : BootstrapWrite(m, v)
  \/ BootstrapGitInit(m) \/ BootstrapCommit(m) \/ BootstrapCommitFails(m)
  \/ Pull(m) \/ PullStops(m) \/ PullFails(m) \/ Load(m) \/ Check(m)
  \/ AnswerCommit(m) \/ AnswerContinue(m) \/ AnswerAbort(m)
  \/ Commit(m) \/ CommitFails(m) \/ Push(m) \/ PushFails(m)
  \/ Materialise(m) \/ MaterialiseFails(m)

Next == \E m \in Machines : Command(m) \/ Step(m) \/ Crash(m) \/ User(m)

Spec == Init /\ [][Next]_vars

\* A command runs on until it ends, and every machine runs `apply --yes
\* --pull-config` again and again.
FairSpec == Spec /\ \A m \in Machines : /\ WF_vars(Step(m))
                                        /\ SF_vars(Apply(m, TRUE, Handoff("yes")))

-----------------------------------------------------------------------------
(* Properties                                                              *)

\* apply --yes materialises no config that is not committed, unless it is told
\* to, or ~/.config/zenops is no repository.
CommittedOnly ==
  \A m \in Machines :
    /\ pc[m] = "materialise" /\ fresh[m] /\ dir[m] = "git"
    /\ args[m].mode = "yes" /\ ~args[m].dirty
    => loaded[m] = Tip(log[m])[Toml]

\* A run that was told to commit and push comes to materialising only when the
\* remote has the commit, and with the config that was committed.
PublishedFirst ==
  [][\A m \in Machines :
       decided[m] /\ pc[m] # "materialise" /\ pc'[m] = "materialise" =>
         /\ IsPrefix(log'[m], remote')
         /\ fresh[m] => loaded'[m] = Tip(log'[m])[Toml]]_vars

\* Whatever the user does meanwhile, no command changes a file of theirs that is
\* not committed, with one exception: a config.toml that appears while bootstrap
\* waits at its prompts, which it writes over (init/mod.rs:122, NeverClobbers).
EditsKept ==
  [][\A m \in Machines : pc'[m] # pc[m] =>
       \A f \in Files :
         /\ tree[m][f] \notin {Missing, Tip(log[m])[f]}
         /\ ~(pc[m] = "write" /\ f = Toml /\ ~fresh[m])
         => tree'[m][f] = tree[m][f]]_vars

\* What init/error.rs:25 says of bootstrap: "Bootstrap refuses to touch any
\* existing path so it can never clobber a previous setup."  The code looks once,
\* before the prompts.
NeverClobbers ==
  [][\A m \in Machines : pc[m] \in {"prompts", "mkdir", "write"} /\ pc'[m] # pc[m] =>
       \A f \in Files : tree[m][f] # Missing => tree'[m][f] = tree[m][f]]_vars

\* Once every conflict is resolved for good, a machine that follows the remote
\* and has nothing uncommitted comes to have the remote's commits and to have
\* applied its config.
Converges ==
  (\A m \in Machines : <>[]~stopped[m]) =>
  <>[](\A m \in Machines :
         /\ origin[m] /\ ~Dirty(m)
         /\ Tip(log[m])[Toml] \in Values
         /\ remote # <<>>
         => IsPrefix(remote, log[m]) /\ applied[m] = Tip(log[m])[Toml])
===============================================================================
