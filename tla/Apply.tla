-------------------------------- MODULE Apply --------------------------------
(***************************************************************************)
(* ConfigFiles::apply_changes, the materialiser of `zenops apply`          *)
(* (src/src/config_files/mod.rs), with its prompters.                      *)
(*                                                                         *)
(* Entries are visited in the order they were registered: the state of one *)
(* is read, its change is put to the prompter, and what was approved is    *)
(* done by system calls that act on what is on disk by then.  The user, or *)
(* another program, may touch the same files while the prompter waits.     *)
(*                                                                         *)
(* A text is a function from hunks to whoever wrote that hunk: Want(g) is  *)
(* the text in which every hunk is the one that the generated file g asks  *)
(* for.  The hunks stand for the groups of grouped_ops, and the text that  *)
(* reconstruct builds has the approved ones replaced.                      *)
(***************************************************************************)
EXTENDS Integers, Sequences

CONSTANTS
  Gens,       \* paths of generated files
  Links,      \* paths of managed symlinks
  Order,      \* all of them, in order of registration
  Targets,    \* the files that symlinks lead to, in the repository or outside
  Real,       \* Real[p]: the file of the repository that p is to lead to
  Dirs, Dir,  \* Dir[p]: the directory of p
  Hunks,
  User, Cut,  \* writers of hunks: the user, nobody (a write was cut short)
  Absent,     \* no directory entry
  Folder,     \* a directory, or anything else that is no file and no link
  FaultKinds, \* the system calls that may fail (and "crash")
  MaxFaults,  \* bound on failures in a behaviour
  MaxEdits    \* bound on the user's edits in a behaviour

Paths == Gens \cup Links
Texts == [Hunks -> Gens \cup {User, Cut}]
Entries == Texts \cup Targets \cup {Absent, Folder}

ASSUME OrderIsPaths ==
  /\ Order \in Seq(Paths)
  /\ \A p \in Paths : \E i \in 1..Len(Order) : Order[i] = p
  /\ \A i, j \in 1..Len(Order) : Order[i] = Order[j] => i = j

ASSUME PathsPlaced ==
  /\ Gens \cap Links = {}
  /\ Real \in [Links -> Targets]
  /\ Dir \in [Paths -> Dirs]

ASSUME EntriesDistinct ==
  /\ Targets \cap Texts = {}
  /\ Absent \notin Targets \cup Texts
  /\ Folder \notin Targets \cup Texts \cup {Absent}
  /\ User \notin Gens
  /\ Cut \notin Gens \cup {User}

ASSUME BoundsNat == MaxFaults \in Nat /\ MaxEdits \in Nat

VARIABLES
  fs,       \* fs[p]: a text, the target of a symlink, Absent or Folder
  file,     \* file[t]: the text of the target t, or Absent
  dir,      \* dir[d]: whether the directory d exists
  pc,       \* where the running apply is
  mode,     \* its prompter
  at,       \* the entry it is at
  status,   \* what entry_status said of that entry
  cur,      \* the text it read there, or Absent
  todo,     \* hunks still to be put to the prompter
  approved, \* hunks the prompter approved
  outcome,  \* how the last apply ended
  faults, edits, \* counters for the bounds
  fresh,    \* history: nobody else has touched the files since it started
  base      \* history: fs at its start

disk == <<fs, file, dir>>
run  == <<pc, mode, at, status, cur, todo, approved>>
vars == <<disk, run, outcome, faults, edits, fresh, base>>

Modes == {"terminal", "yes", "dry"}
Pending == {"new", "modified", "dir_missing", "wrong"}
Failing == {"unreadable", "real_missing", "occupied"}

TypeOK ==
  /\ fs \in [Paths -> Entries]
  /\ file \in [Targets -> Texts \cup {Absent}]
  /\ dir \in [Dirs -> BOOLEAN]
  /\ pc \in {"idle", "probe", "ask", "mkdir", "write", "unlink", "link"}
  /\ mode \in Modes
  /\ at \in 1..(Len(Order) + 1)
  /\ pc \in {"ask", "mkdir", "write", "unlink", "link"} => at <= Len(Order)
  /\ status \in Pending
  /\ cur \in Texts \cup {Absent}
  /\ pc \in {"ask", "write"} /\ status = "modified" => cur \in Texts
  /\ todo \in SUBSET Hunks
  /\ approved \in SUBSET Hunks
  /\ outcome \in {"none", "ok", "failed", "interrupted", "crashed"}
  /\ faults \in Nat
  /\ edits \in Nat
  /\ fresh \in BOOLEAN
  /\ base \in [Paths -> Entries]

Want(g) == [h \in Hunks |-> g]
ByUser == [h \in Hunks |-> User]
NoBase == [p \in Paths |-> Absent]

Init ==
  /\ dir \in [Dirs -> BOOLEAN]
  /\ fs \in {f \in [Paths -> {ByUser, Absent, Folder} \cup Targets] :
               \A p \in Paths : f[p] # Absent => dir[Dir[p]]}
  /\ file \in [Targets -> {ByUser, Absent}]
  /\ pc = "idle" /\ mode = "terminal" /\ at = 1
  /\ status = "new" /\ cur = Absent /\ todo = {} /\ approved = {}
  /\ outcome = "none"
  /\ faults = 0 /\ edits = 0
  /\ fresh = FALSE
  /\ base = NoBase

-----------------------------------------------------------------------------
(* entry_status                                                            *)

\* What reading p gives, through a symlink if p is one.
Reach(p) == IF fs[p] \in Targets THEN file[fs[p]] ELSE fs[p]

GenStatus(g) ==
  CASE Reach(g) = Absent  -> "new"
    [] Reach(g) = Folder  -> "unreadable"
    [] Reach(g) = Want(g) -> "ok"
    [] OTHER              -> "modified"

\* Mutant: whatever is in the place of a link is a link to replace.
LinkStatusClobbers(p) ==
  CASE fs[p] = Real[p] -> IF file[Real[p]] = Absent THEN "real_missing" ELSE "ok"
    [] fs[p] = Absent  -> IF dir[Dir[p]] THEN "new" ELSE "dir_missing"
    [] OTHER           -> "wrong"

LinkStatus(p) ==
  CASE fs[p] = Real[p] -> IF file[Real[p]] = Absent THEN "real_missing" ELSE "ok"
    [] fs[p] \in Targets \ {Real[p]} -> "wrong"
    [] fs[p] = Absent  -> IF dir[Dir[p]] THEN "new" ELSE "dir_missing"
    [] OTHER           -> "occupied"

EntryStatus(p) == IF p \in Gens THEN GenStatus(p) ELSE LinkStatus(p)

Differing(g) == {h \in Hunks : Reach(g)[h] # g}

-----------------------------------------------------------------------------
(* The walk over the entries                                               *)

Fault(k) == k \in FaultKinds /\ faults < MaxFaults /\ faults' = faults + 1

\* Mutant: the entries are visited from the last to the first.
HereReversed == Order[Len(Order) + 1 - at]

Here == Order[at]

\* What is kept of an entry ends with its turn in the walk.
LeaveEntry == status' = "new" /\ cur' = Absent /\ todo' = {} /\ approved' = {}

Stop(how) ==
  /\ pc' = "idle"
  /\ outcome' = how
  /\ LeaveEntry
  /\ UNCHANGED <<mode, at, edits, fresh, base>>

Advance ==
  /\ pc' = "probe"
  /\ at' = at + 1
  /\ LeaveEntry
  /\ UNCHANGED <<mode, outcome, edits, fresh, base>>

GoTo(next) ==
  /\ pc' = next
  /\ UNCHANGED <<mode, at, status, cur, todo, approved, outcome, edits, fresh, base>>

Start(m) ==
  /\ pc = "idle"
  /\ pc' = "probe"
  /\ mode' = m
  /\ at' = 1
  /\ fresh' = TRUE
  /\ base' = fs
  /\ UNCHANGED <<disk, status, cur, todo, approved, outcome, faults, edits>>

Probe ==
  /\ pc = "probe"
  /\ at <= Len(Order)
  /\ LET s == EntryStatus(Here) IN
       \/ s = "ok" /\ Advance
       \/ s \in Failing /\ Stop("failed")
       \/ /\ s \in Pending
          /\ pc' = "ask"
          /\ status' = s
          /\ cur' = IF s = "modified" THEN Reach(Here) ELSE Absent
          /\ todo' = IF s = "modified" THEN Differing(Here) ELSE {}
          /\ approved' = {}
          /\ UNCHANGED <<mode, at, outcome, edits, fresh, base>>
  /\ UNCHANGED <<disk, faults>>

ProbeFails ==
  /\ pc = "probe"
  /\ at <= Len(Order)
  /\ Fault("probe")
  /\ Stop("failed")
  /\ UNCHANGED disk

Finish ==
  /\ pc = "probe"
  /\ at > Len(Order)
  /\ Stop("ok")
  /\ UNCHANGED <<disk, faults>>

-----------------------------------------------------------------------------
(* The prompter                                                            *)

\* A question is open.
Waiting == pc = "ask" /\ (status = "modified" => todo # {})

\* Mutant: --dry-run is forgotten.
AnswersNoDry(m) == IF m = "yes" THEN {TRUE} ELSE BOOLEAN

\* --yes approves everything, --dry-run nothing, the terminal what the user says.
Answers(m) == CASE m = "yes" -> {TRUE} [] m = "dry" -> {FALSE} [] OTHER -> BOOLEAN

\* Mutants: the wrong link is not removed, the missing directory not created.
FirstCallNoRemove ==
  CASE status \in {"wrong", "new"} -> IF Here \in Links THEN "link" ELSE "write"
    [] status = "dir_missing" -> "mkdir"
    [] OTHER -> "write"

FirstCallNoMkdir ==
  CASE status = "wrong" -> "unlink"
    [] Here \in Links -> "link"
    [] OTHER -> "write"

\* An approved change starts with the system call that its status calls for.
FirstCall ==
  CASE status = "wrong" -> "unlink"
    [] status = "dir_missing" -> "mkdir"
    [] status = "new" -> IF Here \in Links THEN "link"
                         ELSE IF dir[Dir[Here]] THEN "write" ELSE "mkdir"
    [] OTHER -> "write"

Decide(yes) ==
  /\ pc = "ask"
  /\ status # "modified"
  /\ yes \in Answers(mode)
  /\ IF yes THEN GoTo(FirstCall) ELSE Advance
  /\ UNCHANGED <<disk, faults>>

\* One question per hunk of a generated file.
DecideHunk(h, yes) ==
  /\ pc = "ask"
  /\ status = "modified"
  /\ h \in todo
  /\ yes \in Answers(mode)
  /\ todo' = todo \ {h}
  /\ approved' = IF yes THEN approved \cup {h} ELSE approved
  /\ UNCHANGED <<disk, pc, mode, at, status, cur, outcome, faults, edits,
                 fresh, base>>

EndHunks ==
  /\ pc = "ask"
  /\ status = "modified"
  /\ todo = {}
  /\ IF approved = {} THEN Advance ELSE GoTo("write")
  /\ UNCHANGED <<disk, faults>>

\* Ctrl-C at the prompt, or a terminal that fails: the run ends there.
Interrupt ==
  /\ Waiting
  /\ mode = "terminal"
  /\ Stop("interrupted")
  /\ UNCHANGED <<disk, faults>>

-----------------------------------------------------------------------------
(* The system calls                                                        *)

\* create_dir_all, which is content with a directory that exists by now.
Mkdir ==
  /\ pc = "mkdir"
  /\ dir' = [dir EXCEPT ![Dir[Here]] = TRUE]
  /\ GoTo(IF Here \in Gens THEN "write" ELSE "link")
  /\ UNCHANGED <<fs, file, faults>>

\* Mutant: the hunks that were not approved are replaced with the others.
NewTextWhole == Want(Here)

\* Mutant: the arms of reconstruct are swapped.
NewTextSwapped == [h \in Hunks |-> IF status = "modified" /\ h \in approved
                                   THEN cur[h] ELSE Here]

\* What a generated file is to become: the text it was read with, with the
\* approved hunks replaced, or all of its text if it is new.
NewText == [h \in Hunks |-> IF status = "modified" /\ h \notin approved
                            THEN cur[h] ELSE Here]

\* fs::write: truncate or create whatever p leads to, and write the text c.
WriteText(p, c) ==
  /\ dir[Dir[p]]
  /\ fs[p] # Folder
  /\ IF fs[p] \in Targets
     THEN file' = [file EXCEPT ![fs[p]] = c] /\ UNCHANGED fs
     ELSE fs' = [fs EXCEPT ![p] = c] /\ UNCHANGED file
  /\ UNCHANGED dir

Write ==
  /\ pc = "write"
  /\ WriteText(Here, NewText)
  /\ Advance
  /\ UNCHANGED faults

\* A write that fails before it starts, or with the end of the text cut off.
WriteFails ==
  /\ pc = "write"
  /\ \/ (fs[Here] = Folder \/ ~dir[Dir[Here]]) /\ UNCHANGED <<disk, faults>>
     \/ Fault("write") /\ UNCHANGED disk
     \/ /\ Fault("torn")
        /\ \E cut \in SUBSET Hunks \ {{}} :
             WriteText(Here, [h \in Hunks |-> IF h \in cut THEN Cut ELSE NewText[h]])
  /\ Stop("failed")

\* remove_file, of the wrong symlink that entry_status saw or of what has taken
\* its place since.
Unlink ==
  /\ pc = "unlink"
  /\ fs[Here] \notin {Absent, Folder}
  /\ fs' = [fs EXCEPT ![Here] = Absent]
  /\ GoTo("link")
  /\ UNCHANGED <<file, dir, faults>>

\* create_symlink, which never replaces anything and does not look at its target.
Link ==
  /\ pc = "link"
  /\ fs[Here] = Absent
  /\ dir[Dir[Here]]
  /\ fs' = [fs EXCEPT ![Here] = Real[Here]]
  /\ Advance
  /\ UNCHANGED <<file, dir, faults>>

CallFails ==
  /\ \/ pc = "mkdir" /\ Fault("mkdir")
     \/ pc = "unlink" /\ fs[Here] \in {Absent, Folder} /\ UNCHANGED faults
     \/ pc = "unlink" /\ Fault("unlink")
     \/ pc = "link" /\ (fs[Here] # Absent \/ ~dir[Dir[Here]]) /\ UNCHANGED faults
     \/ pc = "link" /\ Fault("link")
  /\ Stop("failed")
  /\ UNCHANGED disk

\* The process dies, or an event cannot be written to the output.
Crash ==
  /\ pc # "idle"
  /\ Fault("crash")
  /\ Stop("crashed")
  /\ UNCHANGED disk

-----------------------------------------------------------------------------
(* Everybody else, between runs and while the prompter waits               *)

UserActs ==
  /\ pc = "idle" \/ Waiting
  /\ edits < MaxEdits
  /\ edits' = edits + 1
  /\ fresh' = FALSE
  /\ base' = NoBase
  /\ UNCHANGED <<run, outcome, faults>>

\* An editor, which writes through a symlink.
UserWrites(p, h) ==
  /\ UserActs
  /\ LET old == IF Reach(p) \in Texts THEN Reach(p) ELSE ByUser
     IN  WriteText(p, [old EXCEPT ![h] = User])

\* rm -r, ln -s and mkdir at the path of an entry.
UserPuts(p, e) ==
  /\ UserActs
  /\ dir[Dir[p]]
  /\ fs[p] # e
  /\ e # Absent => fs[p] = Absent
  /\ fs' = [fs EXCEPT ![p] = e]
  /\ UNCHANGED <<file, dir>>

\* A pull of the repository, or its undoing.
UserPulls(t, e) ==
  /\ UserActs
  /\ file[t] # e
  /\ file' = [file EXCEPT ![t] = e]
  /\ UNCHANGED <<fs, dir>>

UserRemovesDir(d) ==
  /\ UserActs
  /\ dir[d]
  /\ dir' = [dir EXCEPT ![d] = FALSE]
  /\ fs' = [p \in Paths |-> IF Dir[p] = d THEN Absent ELSE fs[p]]
  /\ UNCHANGED file

Others ==
  \/ \E p \in Paths : \/ \E h \in Hunks : UserWrites(p, h)
                      \/ \E e \in Targets \cup {Absent, Folder} : UserPuts(p, e)
  \/ \E t \in Targets, e \in {ByUser, Absent} : UserPulls(t, e)
  \/ \E d \in Dirs : UserRemovesDir(d)

Step ==
  \/ Probe \/ ProbeFails \/ Finish \/ EndHunks \/ Mkdir \/ Write \/ WriteFails
  \/ Unlink \/ Link \/ CallFails
  \/ \E yes \in BOOLEAN : Decide(yes) \/ \E h \in Hunks : DecideHunk(h, yes)

Next == (\E m \in Modes : Start(m)) \/ Step \/ Interrupt \/ Crash \/ Others

Spec == Init /\ [][Next]_vars

\* The process runs on and its questions are answered; apply --yes is run again
\* and again, by the user or by a timer.
FairSpec == Spec /\ WF_vars(Step) /\ SF_vars(Start("yes"))

-----------------------------------------------------------------------------
(* Properties                                                              *)

\* Two generated files that lead to the same file, through symlinks of the
\* user's, overwrite each other.
Contended(g) == \E q \in Paths \ {g} :
                  fs[g] \in Targets /\ fs[q] = fs[g] /\ q \in Gens

\* The entry is as it should be, or a correct link to a file that is missing,
\* which create_symlink does not check.
Settled(p) ==
  \/ EntryStatus(p) = "ok"
  \/ EntryStatus(p) = "real_missing"
  \/ p \in Gens /\ Contended(p)

\* With --yes, and nobody else at work, every entry the walk has passed is
\* settled, whether the walk goes on, has ended, has failed or has died.
PrefixSettled ==
  mode = "yes" /\ fresh =>
    /\ \A i \in 1..(at - 1) : Settled(Order[i])
    /\ pc = "idle" /\ outcome = "ok" => at = Len(Order) + 1

\* The entries after the one that failed are as they were: an error ends the
\* walk, and no step reaches ahead of it.
RestUntouched ==
  fresh => \A i \in (at + 1)..Len(Order) : fs[Order[i]] = base[Order[i]]

\* A file or a directory of the user's is never replaced by a symlink.
KeepsFiles ==
  [][fresh /\ fresh' =>
       \A p \in Links : fs[p] \in Texts \cup {Folder} => fs'[p] = fs[p]]_vars

\* A hunk that was not approved is in the file as it was read, after the write
\* that brings the others, but for a write that is cut short.
KeepsRejected ==
  [][fresh /\ pc = "write" /\ status = "modified" =>
       \A h \in Hunks \ approved, p \in Paths :
         p = Here => Reach(p)'[h] \in {Reach(p)[h], Cut}]_vars

\* --dry-run changes nothing on disk.
DryRunWritesNothing ==
  [][mode = "dry" /\ pc # "idle" /\ edits' = edits => UNCHANGED disk]_vars

\* Run again after failures, deaths and edits, apply --yes in the end settles
\* every entry that no failing one stands before.
Converges ==
  <>[](\A i \in 1..Len(Order) :
         \/ Settled(Order[i])
         \/ \E j \in 1..i : EntryStatus(Order[j]) \in Failing)
==============================================================================
