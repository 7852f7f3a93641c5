------------------------------- MODULE Import -------------------------------
(***************************************************************************)
(* `zenops import` on one directory below $HOME (src/src/import/mod.rs).   *)
(*                                                                         *)
(* A run reads config.toml, plans, asks for confirmation, then changes the *)
(* home directory and the repository in four passes of system calls and at *)
(* last rewrites config.toml.  Every system call is an action of its own,  *)
(* so that any of them can fail and the process can die between any two.   *)
(* The user edits the home directory, and pulls the repository, between    *)
(* runs and while the prompt waits.                                        *)
(*                                                                         *)
(* A relative path r names both source_root/r and repo_dest/r.  Creating   *)
(* and trimming the directories of the repository is left out: git does    *)
(* not track them, and a failed mkdir ends as the failed call after it.    *)
(***************************************************************************)
EXTENDS Naturals

CONSTANTS
  Rels,        \* relative paths below the imported directory
  Contents,    \* contents of files
  Partial,     \* the content of a file whose writing was cut short
  Absent,      \* no directory entry
  Foreign,     \* a symlink that leads out of repo_dest, to nothing readable
  FaultKinds,  \* the system calls that may fail (and "crash")
  MaxFaults,   \* bound on failures in a behaviour
  MaxEdits     \* bound on the user's edits and pulls in a behaviour

Files == Contents \cup {Partial}

ASSUME EntriesDistinct ==
  /\ Rels \cap Files = {}
  /\ Absent \notin Rels \cup Files
  /\ Foreign \notin Rels \cup Files \cup {Absent}
  /\ Partial \notin Contents

ASSUME BoundsNat == MaxFaults \in Nat /\ MaxEdits \in Nat

VARIABLES
  home,    \* home[r]: a file's content, the r0 of a symlink to repo_dest/r0, ...
  repo,    \* repo[r]: the content of repo_dest/r, or Absent
  block,   \* config.toml has a [[pkg.<key>.configs]] entry for the directory
  listed,  \* the symlinks array of that entry
  toml,    \* config.toml parses ("intact") or was cut short ("torn")
  pc,      \* where the running import is
  plan,    \* its Plan
  todo,    \* what the current pass has still to visit
  cur,     \* the path whose link is being replaced, or Absent
  undo,    \* its UndoLog
  outcome, \* how the last import ended
  faults, edits, \* counters for the bounds
  before,  \* history: home and repo when the plan was confirmed
  exposed, \* history: paths that rollback deletes the last copy of
  fresh    \* history: the user has not acted since the last run was planned

disk == <<home, repo, block, listed, toml>>
run  == <<pc, plan, todo, cur, undo>>
history == <<before, exposed, fresh>>
vars == <<disk, run, outcome, faults, edits, history>>

HomeEntries == Files \cup Rels \cup {Absent, Foreign}
RepoEntries == Files \cup {Absent}

Plans == [mode     : {"single", "tree", "reconcile"},
          files    : SUBSET Rels,                \* copied, then linked
          from     : [Rels -> Rels \cup {Absent}], \* from[t] is renamed to t
          removals : SUBSET Rels,
          existing : SUBSET Rels,                \* the array as it was read
          added    : SUBSET Rels,
          dropped  : SUBSET Rels]

Targets(p) == {t \in Rels : p.from[t] # Absent}

NewPlan(mode, files, existing) ==
  [mode |-> mode, files |-> files, from |-> [t \in Rels |-> Absent],
   removals |-> {}, existing |-> existing, added |-> files \ existing,
   dropped |-> {}]

NoPlan == NewPlan("single", {}, {})

NoUndo == [copied |-> {}, linked |-> {}]

NoSnapshot == [home |-> [r \in Rels |-> Absent], repo |-> [r \in Rels |-> Absent]]

Passes == {"copy", "unlink", "link", "rename", "retarget", "relink",
           "remove", "write", "restore", "discard"}

TypeOK ==
  /\ home \in [Rels -> HomeEntries]
  /\ repo \in [Rels -> RepoEntries]
  /\ block \in BOOLEAN
  /\ listed \in SUBSET Rels
  /\ toml \in {"intact", "torn"}
  /\ pc \in {"idle", "prompt"} \cup Passes
  /\ plan \in Plans
  /\ todo \in SUBSET Rels
  /\ cur \in Rels \cup {Absent}
  /\ pc \in {"link", "retarget", "relink"} => cur \in Rels
  /\ pc \in {"rename", "retarget", "relink"} => todo \subseteq Targets(plan)
  /\ undo \in [copied : SUBSET Rels, linked : SUBSET Rels]
  /\ outcome \in {"none", "refused", "aborted", "failed", "crashed",
                  "rolled_back", "ok", "synced"}
  /\ faults \in Nat
  /\ edits \in Nat
  /\ before \in [home : [Rels -> HomeEntries], repo : [Rels -> RepoEntries]]
  /\ exposed \in SUBSET Rels
  /\ fresh \in BOOLEAN

\* The directory holds the user's files and links; nothing is managed yet.
Init ==
  /\ home \in [Rels -> Contents \cup {Absent, Foreign}]
  /\ repo = [r \in Rels |-> Absent]
  /\ block = FALSE
  /\ listed = {}
  /\ toml = "intact"
  /\ pc = "idle"
  /\ plan = NoPlan
  /\ todo = {}
  /\ cur = Absent
  /\ undo = NoUndo
  /\ outcome = "none"
  /\ faults = 0
  /\ edits = 0
  /\ before = NoSnapshot
  /\ exposed = {}
  /\ fresh = FALSE

-----------------------------------------------------------------------------
(* Planning                                                                *)

Walked == {r \in Rels : home[r] \in Files}

\* Mutant: a link at a path that the array lists already is taken for a move.
RenameCandidateListed(f, t) == f # t /\ home[t] = f /\ f \in listed

\* A home link at t, outside the array, to the repository copy of a listed f.
RenameCandidate(f, t) ==
  /\ f # t
  /\ home[t] = f
  /\ t \notin listed
  /\ f \in listed

\* The walk gives each listed path to the first link it meets; which one is
\* first is left open.
RenameMaps ==
  {m \in [Rels -> Rels \cup {Absent}] :
     /\ \A t \in Rels : m[t] # Absent => RenameCandidate(m[t], t)
     /\ \A t, u \in Rels : m[t] = m[u] /\ m[t] # Absent => t = u
     /\ \A f, t \in Rels : RenameCandidate(f, t) => \E u \in Rels : m[u] = f}

Renamed(m) == {f \in Rels : \E t \in Rels : m[t] = f}

\* Mutant: a path whose repository copy is gone too is not worth a removal.
GoneWithCopy(m) ==
  {r \in listed \ Renamed(m) : home[r] = Absent /\ repo[r] # Absent}

Gone(m) == {r \in listed \ Renamed(m) : home[r] = Absent}

ReconcilePlan(m) ==
  [mode |-> "reconcile", files |-> Walked \ listed, from |-> m,
   removals |-> Gone(m), existing |-> listed,
   added   |-> (Walked \ listed) \cup {t \in Rels : m[t] # Absent},
   dropped |-> Gone(m) \cup Renamed(m)]

TreePlan == NewPlan("tree", Walked, {})

SinglePlan(r) == NewPlan("single", {r}, listed)

IsNoop(p) == /\ p.mode = "reconcile"
             /\ p.files = {} /\ p.removals = {} /\ Targets(p) = {}

DestExists(files) == \E r \in files : repo[r] # Absent

\* A run that gives up while planning, or whose plan is declined, changes
\* nothing.
EndUnchanged(how) ==
  /\ outcome' = how
  /\ pc' = "idle"
  /\ plan' = NoPlan
  /\ fresh' = (fresh \/ pc = "idle")
  /\ UNCHANGED <<disk, todo, cur, undo, faults, edits, before, exposed>>

Propose(p) ==
  /\ plan' = p
  /\ pc' = "prompt"
  /\ exposed' = {}
  /\ fresh' = TRUE
  /\ UNCHANGED <<disk, todo, cur, undo, outcome, faults, edits, before>>

\* `import <file>`: a nested file of a package that is new, or extend mode.
ImportFile(r) ==
  /\ pc = "idle"
  /\ IF toml = "torn" \/ home[r] \notin Files \/ repo[r] # Absent
     THEN EndUnchanged("refused")
     ELSE Propose(SinglePlan(r))

\* `import <directory>` of a directory that no entry claims.
ImportTree ==
  /\ pc = "idle"
  /\ ~block
  /\ IF toml = "torn" \/ Walked = {} \/ DestExists(Walked)
     THEN EndUnchanged("refused")
     ELSE Propose(TreePlan)

\* `import <directory>` of the root of an entry.
Reconcile ==
  /\ pc = "idle"
  /\ block
  /\ IF toml = "torn" \/ DestExists(Walked \ listed)
     THEN EndUnchanged("refused")
     ELSE \E m \in RenameMaps :
            IF IsNoop(ReconcilePlan(m))
            THEN EndUnchanged("synced")
            ELSE Propose(ReconcilePlan(m))

\* `n`, end of input, --dry-run, or the death of the process at the prompt.
Decline == pc = "prompt" /\ EndUnchanged("aborted")

Confirm ==
  /\ pc = "prompt"
  /\ pc' = "copy"
  /\ todo' = plan.files
  /\ before' = [home |-> home, repo |-> repo]
  /\ UNCHANGED <<disk, plan, cur, undo, outcome, faults, edits, exposed, fresh>>

-----------------------------------------------------------------------------
(* apply_files: the four passes, then the write of config.toml             *)

Fault(k) == k \in FaultKinds /\ faults < MaxFaults /\ faults' = faults + 1

\* Mutant: the copy does not follow links.
ReadsNoFollow(r) == {home[r]} \ {Absent}

\* What fs::copy reads at source_root/r, following a link into the repository.
Reads(r) == IF home[r] \in Files THEN {home[r]}
            ELSE {repo[s] : s \in {s \in Rels : home[r] = s}} \ {Absent}

\* Leave the passes: nothing of the run remains but what it did to the disk.
Stop(how) ==
  /\ pc' = "idle"
  /\ outcome' = how
  /\ plan' = NoPlan
  /\ todo' = {}
  /\ cur' = Absent
  /\ undo' = NoUndo
  /\ before' = NoSnapshot
  /\ exposed' = {}
  /\ UNCHANGED <<edits, fresh>>

\* Mutant: the copies are deleted without putting the originals back.
StartRollbackNoRestore ==
  /\ pc' = "discard"
  /\ todo' = undo.copied
  /\ cur' = Absent
  /\ UNCHANGED <<plan, undo, outcome>>

StartRollback ==
  /\ pc' = "restore"
  /\ todo' = undo.linked
  /\ cur' = Absent
  /\ UNCHANGED <<plan, undo, outcome>>

\* Pass 1.
Copy(r) ==
  /\ pc = "copy"
  /\ r \in todo
  /\ \E c \in Reads(r) : repo' = [repo EXCEPT ![r] = c]
  /\ undo' = [copied |-> undo.copied \cup {r}, linked |-> undo.linked]
  /\ todo' = todo \ {r}
  /\ UNCHANGED <<home, block, listed, toml, pc, plan, cur, outcome, faults,
                 edits, history>>

\* A copy that fails may leave a cut-short file, which is not in the UndoLog.
CopyFails(r) ==
  /\ pc = "copy"
  /\ r \in todo
  /\ \/ Reads(r) = {} /\ UNCHANGED <<repo, faults>>
     \/ Fault("copy") /\ \E c \in {repo[r], Partial} : repo' = [repo EXCEPT ![r] = c]
  /\ StartRollback
  /\ UNCHANGED <<home, block, listed, toml, edits, history>>

\* Pass 2: remove the original, then put a link in its place.
Unlink(r) ==
  /\ pc = "unlink"
  /\ r \in todo
  /\ home[r] # Absent
  /\ home' = [home EXCEPT ![r] = Absent]
  /\ cur' = r
  /\ pc' = "link"
  /\ UNCHANGED <<repo, block, listed, toml, plan, todo, undo, outcome, faults,
                 edits, history>>

UnlinkFails(r) ==
  /\ pc = "unlink"
  /\ r \in todo
  /\ \/ home[r] = Absent /\ UNCHANGED faults
     \/ Fault("unlink")
  /\ StartRollback
  /\ UNCHANGED <<disk, edits, history>>

\* Mutant: the link is not entered in the UndoLog.
LinkUnlogged ==
  /\ pc = "link"
  /\ home' = [home EXCEPT ![cur] = cur]
  /\ todo' = todo \ {cur}
  /\ cur' = Absent
  /\ pc' = "unlink"
  /\ UNCHANGED <<repo, block, listed, toml, plan, undo, outcome, faults, edits,
                 history>>

Link ==
  /\ pc = "link"
  /\ home' = [home EXCEPT ![cur] = cur]
  /\ undo' = [copied |-> undo.copied, linked |-> undo.linked \cup {cur}]
  /\ todo' = todo \ {cur}
  /\ cur' = Absent
  /\ pc' = "unlink"
  /\ UNCHANGED <<repo, block, listed, toml, plan, outcome, faults, edits,
                 history>>

\* The original is gone and its link is not in the UndoLog, its copy is.
LinkFails ==
  /\ pc = "link"
  /\ Fault("symlink")
  /\ exposed' = exposed \cup {cur}
  /\ StartRollback
  /\ UNCHANGED <<disk, edits, before, fresh>>

\* Pass 3: move the repository copy, then retarget the link.
Rename(t) ==
  /\ pc = "rename"
  /\ t \in todo
  /\ repo[plan.from[t]] # Absent
  /\ repo' = [repo EXCEPT ![t] = repo[plan.from[t]], ![plan.from[t]] = Absent]
  /\ cur' = t
  /\ pc' = "retarget"
  /\ UNCHANGED <<home, block, listed, toml, plan, todo, undo, outcome, faults,
                 edits, history>>

Retarget ==
  /\ pc = "retarget"
  /\ home[cur] # Absent
  /\ home' = [home EXCEPT ![cur] = Absent]
  /\ pc' = "relink"
  /\ UNCHANGED <<repo, block, listed, toml, plan, todo, cur, undo, outcome,
                 faults, edits, history>>

\* Mutant: the link is made again with the target it had.
RelinkOld ==
  /\ pc = "relink"
  /\ home' = [home EXCEPT ![cur] = plan.from[cur]]
  /\ todo' = todo \ {cur}
  /\ cur' = Absent
  /\ pc' = "rename"
  /\ UNCHANGED <<repo, block, listed, toml, plan, undo, outcome, faults, edits,
                 history>>

Relink ==
  /\ pc = "relink"
  /\ home' = [home EXCEPT ![cur] = cur]
  /\ todo' = todo \ {cur}
  /\ cur' = Absent
  /\ pc' = "rename"
  /\ UNCHANGED <<repo, block, listed, toml, plan, undo, outcome, faults, edits,
                 history>>

\* Pass 4.  A copy that is already gone is not an error.
Remove(r) ==
  /\ pc = "remove"
  /\ r \in todo
  /\ repo' = [repo EXCEPT ![r] = Absent]
  /\ todo' = todo \ {r}
  /\ UNCHANGED <<home, block, listed, toml, pc, plan, cur, undo, outcome,
                 faults, edits, history>>

\* Passes 3 and 4 return their error without a rollback.
LatePassFails ==
  /\ \/ /\ pc = "rename"
        /\ \E t \in todo : repo[plan.from[t]] = Absent
        /\ UNCHANGED faults
     \/ pc = "retarget" /\ home[cur] = Absent /\ UNCHANGED faults
     \/ pc = "rename" /\ todo # {} /\ Fault("rename")
     \/ pc = "retarget" /\ Fault("unlink")
     \/ pc = "relink" /\ Fault("symlink")
     \/ pc = "remove" /\ todo # {} /\ Fault("remove")
  /\ Stop("failed")
  /\ UNCHANGED disk

EndPass ==
  /\ todo = {}
  /\ \/ pc = "copy"   /\ pc' = "unlink" /\ todo' = plan.files
     \/ pc = "unlink" /\ pc' = "rename" /\ todo' = Targets(plan)
     \/ pc = "rename" /\ pc' = "remove" /\ todo' = plan.removals
     \/ pc = "remove" /\ pc' = "write"  /\ todo' = {}
  /\ UNCHANGED <<disk, plan, cur, undo, outcome, faults, edits, history>>

\* The document that was parsed before the prompt is edited and written back.
WriteToml ==
  /\ pc = "write"
  /\ listed' = (plan.existing \cup plan.added) \ plan.dropped
  /\ block' = TRUE
  /\ Stop(IF plan.mode = "reconcile" THEN "synced" ELSE "ok")
  /\ UNCHANGED <<home, repo, toml, faults>>

\* update_doc or the write fails; a write cut short leaves a torn file.
WriteTomlFails ==
  /\ pc = "write"
  /\ \/ Fault("write") /\ UNCHANGED toml
     \/ Fault("torn") /\ toml' = "torn"
  /\ Stop("failed")
  /\ UNCHANGED <<home, repo, block, listed>>

-----------------------------------------------------------------------------
(* rollback                                                                *)

\* Replace a created link by a copy of its target, or lose the link and with
\* it the file, whose repository copy the next loop deletes.
Restore(r) ==
  /\ pc = "restore"
  /\ r \in todo
  /\ todo' = todo \ {r}
  /\ \/ /\ home' = [home EXCEPT ![r] = repo[r]]
        /\ UNCHANGED <<repo, faults, exposed>>
     \/ /\ Fault("restore")
        /\ \/ home' = [home EXCEPT ![r] = Absent] /\ UNCHANGED repo
           \/ repo' = [repo EXCEPT ![r] = Partial] /\ UNCHANGED home
        /\ exposed' = exposed \cup {r}
  /\ UNCHANGED <<block, listed, toml, pc, plan, cur, undo, outcome, edits,
                 before, fresh>>

Discard(r) ==
  /\ pc = "discard"
  /\ r \in todo
  /\ todo' = todo \ {r}
  /\ \/ repo' = [repo EXCEPT ![r] = Absent] /\ UNCHANGED faults
     \/ Fault("discard") /\ UNCHANGED repo
  /\ UNCHANGED <<home, block, listed, toml, pc, plan, cur, undo, outcome, edits,
                 history>>

\* Mutant: only the copies that have a link are deleted.
EndRestoreLinked ==
  /\ pc = "restore"
  /\ todo = {}
  /\ pc' = "discard"
  /\ todo' = undo.linked
  /\ UNCHANGED <<disk, plan, cur, undo, outcome, faults, edits, history>>

EndRestore ==
  /\ pc = "restore"
  /\ todo = {}
  /\ pc' = "discard"
  /\ todo' = undo.copied
  /\ UNCHANGED <<disk, plan, cur, undo, outcome, faults, edits, history>>

\* Mutant: after the rollback the passes are tried again.
EndRollbackRetries ==
  /\ pc = "discard"
  /\ todo = {}
  /\ pc' = "copy"
  /\ todo' = plan.files
  /\ undo' = NoUndo
  /\ UNCHANGED <<disk, plan, cur, outcome, faults, edits, history>>

EndRollback ==
  /\ pc = "discard"
  /\ todo = {}
  /\ Stop("rolled_back")
  /\ UNCHANGED <<disk, faults>>

\* The process dies, or an event cannot be written to the output: the `?` of
\* push_*_event returns from the middle of a pass without a rollback.
Crash ==
  /\ pc \in Passes
  /\ Fault("crash")
  /\ Stop("crashed")
  /\ UNCHANGED disk

-----------------------------------------------------------------------------
(* The user, between runs and while the prompt waits                       *)

UserActs ==
  /\ pc \in {"idle", "prompt"}
  /\ edits < MaxEdits
  /\ edits' = edits + 1
  /\ fresh' = FALSE
  /\ UNCHANGED <<block, toml, run, outcome, faults, before, exposed>>

UserWrites(r, c) ==
  /\ UserActs
  /\ home[r] \in Files \cup {Absent}
  /\ home' = [home EXCEPT ![r] = c]
  /\ UNCHANGED <<repo, listed>>

UserDeletes(r) ==
  /\ UserActs
  /\ home[r] # Absent
  /\ home' = [home EXCEPT ![r] = Absent]
  /\ UNCHANGED <<repo, listed>>

\* mv, which replaces what is at the new name.
UserMoves(r, s) ==
  /\ UserActs
  /\ r # s
  /\ home[r] # Absent
  /\ home' = [home EXCEPT ![s] = home[r], ![r] = Absent]
  /\ UNCHANGED <<repo, listed>>

\* cp -a
UserCopies(r, s) ==
  /\ UserActs
  /\ home[r] # Absent
  /\ home[s] = Absent
  /\ home' = [home EXCEPT ![s] = home[r]]
  /\ UNCHANGED <<repo, listed>>

\* A pull brings a file and its line of the array from another machine.
UserPulls(r, c) ==
  /\ UserActs
  /\ block
  /\ r \notin listed
  /\ repo[r] = Absent
  /\ repo' = [repo EXCEPT ![r] = c]
  /\ listed' = listed \cup {r}
  /\ UNCHANGED home

User ==
  \E r \in Rels :
    \/ UserDeletes(r)
    \/ \E c \in Contents : UserWrites(r, c) \/ UserPulls(r, c)
    \/ \E s \in Rels : UserMoves(r, s) \/ UserCopies(r, s)

Command == Reconcile \/ ImportTree \/ \E r \in Rels : ImportFile(r)

Step ==
  \/ EndPass \/ Link \/ LinkFails \/ Retarget \/ Relink \/ LatePassFails
  \/ WriteToml \/ WriteTomlFails \/ EndRestore \/ EndRollback
  \/ \E r \in Rels : \/ Copy(r) \/ CopyFails(r) \/ Unlink(r) \/ UnlinkFails(r)
                     \/ Rename(r) \/ Remove(r) \/ Restore(r) \/ Discard(r)

Next == Command \/ Confirm \/ Decline \/ Step \/ Crash \/ User

Spec == Init /\ [][Next]_vars

\* The process runs on until it ends; the user, who is told to, runs the
\* directory's import again and confirms it.
FairSpec == /\ Spec
            /\ WF_vars(Step)
            /\ WF_vars(Reconcile \/ ImportTree)
            /\ SF_vars(Confirm)

-----------------------------------------------------------------------------
(* Properties                                                              *)

\* A confirmed import keeps what it was given: the file that was at r in the
\* home directory is at r there, or at r in the repository.  Excepted are the
\* paths whose link could be neither made nor undone (`exposed`), and a
\* rename's target that the user replaced while the prompt was waiting.
HomeFilesKept ==
  pc \in Passes =>
    \A r \in Rels :
      /\ before.home[r] \in Files
      /\ plan.from[r] = Absent
      /\ r \notin exposed
      => before.home[r] \in {home[r], repo[r]}

\* The repository copy of a listed path stays, or moves with its rename, as
\* long as the plan does not remove it or copy over it.
RepoFilesKept ==
  pc \in Passes =>
    \A r \in plan.existing \ (plan.removals \cup plan.files) :
      \/ repo[r] = before.repo[r]
      \/ \E t \in Rels : plan.from[t] = r /\ repo[t] = before.repo[r]

\* After a rollback the home directory has its files again, and the repository
\* has nothing new but, at most, the beginning of the file whose copy failed.
RollbackRestores ==
  pc = "discard" /\ todo = {} =>
    \A r \in Rels :
      /\ before.home[r] \in Files /\ r \notin exposed => home[r] = before.home[r]
      /\ r \notin plan.files => home[r] = before.home[r] /\ repo[r] = before.repo[r]
      /\ "discard" \notin FaultKinds => repo[r] \in {before.repo[r], Absent, Partial}

\* config.toml gains a line only for a path whose file is in the repository and
\* whose link is in place: files first, array last.
ListedLast ==
  [][pc = "write" =>
       \A r \in listed' \ listed : repo'[r] # Absent /\ home'[r] = r]_vars

\* A reconcile that ended in success, with the user idle since it was planned,
\* leaves the next one nothing to refuse, nothing to remove and no link that has
\* moved.  (A file that took the place of a moved link is added by the next one,
\* and a second link to a listed path is taken for a move by the next one.)
ReconcileSettles ==
  pc = "idle" /\ outcome = "synced" /\ fresh =>
    /\ ~DestExists(Walked \ listed)
    /\ \A r \in listed : home[r] # Absent
    /\ \A f, t \in Rels : RenameCandidate(f, t) => home[f] # Absent

\* An import that was confirmed comes to an end, by success, error or rollback.
RunEnds == (pc \in Passes) ~> (pc = "idle")

\* An interrupted removal is completed by running the import again, as the
\* comment of apply_files promises: what could not be deleted is still listed.
\* The plan may be refused instead, for a file with an unknown repository copy,
\* or fail at the rename of a copy that is gone.
RemovalsRedriven ==
  (\E r \in listed : home[r] = Absent)
    ~> \/ \A r \in listed : home[r] # Absent
       \/ DestExists(Walked \ listed)
       \/ \E f, t \in Rels : RenameCandidate(f, t) /\ repo[f] = Absent

-----------------------------------------------------------------------------
(* What comments and documents say, and the code does not do.              *)

\* "Walks each step backward": a rolled-back import has lost no file, even if
\* it was the creation of a symlink that failed.
NothingLost ==
  pc \in Passes =>
    \A r \in Rels :
      before.home[r] \in Files /\ plan.from[r] = Absent
        => before.home[r] \in {home[r], repo[r]}

\* "A partial failure can be re-driven by re-running `import`": the user who
\* does so gets to a successful import.
Redriven == (outcome = "crashed") ~> (outcome \in {"ok", "synced"})
=============================================================================
