------------------------------- MODULE Output -------------------------------
(***************************************************************************)
(* One command of zenops, from main to its exit: the events it pushes, the *)
(* changes it makes and the questions it asks on the way, and what of them *)
(* has reached stdout (src/src/main.rs, lib.rs, doctor.rs, pkg_list.rs,    *)
(* config/mod.rs, config_files/mod.rs, init/mod.rs, import/mod.rs over the *)
(* renderers of module Renderer).                                          *)
(*                                                                         *)
(* A command is a sequence of stages, a stage a loop over its items.  What *)
(* a stage finds on the host is chosen when it looks.  Any call that the   *)
(* code follows with `?` may fail; main then exits with status 1 and drops *)
(* the renderer with what it still holds.                                  *)
(***************************************************************************)
EXTENDS Renderer, SequencesExt

CONSTANTS
  Commands, \* [name, json, diffs, all, mode, dirtyOk, thenApply]
  Pkgs,     \* number of packages of the configuration
  Files,    \* number of registered files
  GitPaths, \* bound on the paths of a git status
  Moves     \* the [act, item] sequences that an import's plan may come to

Modes == {"terminal", "yes", "dry"}
ActNames == {"created_dir", "created_file", "updated_file", "created_symlink",
             "replaced_symlink", "renamed_file", "removed_file", "removed_dir",
             "unlinked", "subdir"}
Acts == [act : ActNames, item : Nat]

ASSUME BoundsNat == Pkgs \in Nat /\ Files \in Nat /\ GitPaths \in Nat

ASSUME CommandsTyped ==
  /\ \A c \in Commands :
       /\ {c.json, c.diffs, c.all, c.dirtyOk, c.thenApply} \subseteq BOOLEAN
       /\ c.mode \in Modes
       /\ c.name \in {"status", "apply", "pkg", "doctor", "clone", "bootstrap", "import", "direct"}

ASSUME MovesTyped == \A m \in Moves : m \in Seq(Acts)

VARIABLES
  cmd,     \* the command
  host,    \* what no stage changes: the config loads, a manager is on PATH
  todo,    \* the stages left, the running one first
  at,      \* the item of the running stage
  acts,    \* the system calls left of an approved change or plan
  exit,    \* "running", "ok" or "failed"
  done,    \* the acts carried out on disk, in order; a removal counts although the
           \* copy was gone already
  journal, \* the events pushed, in order
  screen,  \* the pieces written to stdout, in order
  render   \* the renderer

vars == <<cmd, host, todo, at, acts, exit, done, journal, screen, render>>

ApplyStages == <<"load", "health", "dirty", "decide", "changes">>
Sections == <<"System", "Repo", "Config", "PkgManager", "User", "Shell", "Packages">>

Program(c) ==
  CASE c.name = "status"    -> <<"load", "health", "own", "files">>
    [] c.name = "apply"     -> ApplyStages
    [] c.name = "pkg"       -> <<"load", "note", "rows", "footer">>
    [] c.name = "doctor"    -> Sections
    [] c.name = "clone"     -> <<"clone", "summary">>
    [] c.name = "bootstrap" -> <<"bootstrap", "summary">>
    [] c.name = "import"    -> <<"parse", "plan">>
    [] c.name = "direct"    -> <<"direct">>

Init ==
  /\ cmd \in Commands
  /\ host \in [config : BOOLEAN, manager : BOOLEAN]
  /\ todo = Program(cmd)
  /\ at = 0
  /\ acts = <<>>
  /\ exit = "running"
  /\ done = <<>>
  /\ journal = <<>>
  /\ screen = <<>>
  /\ render = FreshRenderer

-----------------------------------------------------------------------------
(* What a step does to the command, and to the screen                      *)

In(stage) == exit = "running" /\ todo # <<>> /\ Head(todo) = stage

Stay == UNCHANGED <<cmd, host, todo>>
NextItem == at' = at + 1 /\ UNCHANGED <<cmd, host, todo, acts>>
Enters(stages) == todo' = stages /\ at' = 0 /\ acts' = <<>> /\ UNCHANGED <<cmd, host>>
NextStage == Enters(Tail(todo))

Quiet == UNCHANGED <<journal, screen, render, exit>>
NoChange == UNCHANGED done

\* main on an error: exit(1), without finalize.
Exits ==
  /\ exit' = "failed"
  /\ render' = FreshRenderer
  /\ UNCHANGED <<cmd, host, todo, at, acts>>

Fail == Exits /\ UNCHANGED <<done, journal, screen>>

Pushes(e) ==
  LET n == Len(journal) + 1 IN
    /\ journal' = Append(journal, e)
    /\ screen' = screen \o PushWrites(cmd, render, n, e)
    /\ render' = PushKeeps(cmd, render, n, e)
    /\ UNCHANGED exit

\* stdout fails under what a push has to write: the pieces before it stay.
PushFails(e) ==
  LET out == PushWrites(cmd, render, Len(journal) + 1, e) IN
    /\ journal' = Append(journal, e)
    /\ \E k \in 1..Len(out) : screen' = screen \o SubSeq(out, 1, k - 1)
    /\ Exits

\* Text that goes to stdout past the renderer: prompts, dry-run previews, git.
Prints(part) ==
  /\ screen' = Append(screen, [by |-> 0, part |-> part])
  /\ UNCHANGED <<journal, render, exit>>

-----------------------------------------------------------------------------
(* The stages of status, apply and pkg                                     *)

Load ==
  /\ In("load")
  /\ \/ host.config /\ NextStage /\ Quiet /\ NoChange
     \/ Fail

PkgStatus(item) == {Event("status", "pkg", is, item) : is \in {"ok", "missing"}}

\* push_pkg_health, and packages_block of doctor once its title is out.
\* first: the value of `at` at its first package.
PkgHealth(first) ==
  /\ \/ /\ at < Pkgs + first
        /\ \/ NextItem /\ Quiet
           \/ \E e \in PkgStatus(at + 1 - first) :
                \/ NextItem /\ Pushes(e)
                \/ PushFails(e)
     \/ at = Pkgs + first /\ NextStage /\ Quiet
  /\ NoChange

Health == In("health") /\ (PkgHealth(0) \/ Fail)

\* The kinds of git status differ in wording only.
GitStatus(item) == {Event("status", "git", is, item) : is \in {"modified", "untracked"}}

\* check_own_status: one row for every path of git status, at least one.
GitRows ==
  /\ at < GitPaths
  /\ \E e \in GitStatus(at + 1) :
       \/ NextItem /\ Pushes(e)
       \/ PushFails(e)
  /\ NoChange

Own ==
  /\ In("own")
  /\ \/ GitRows
     \/ at > 0 /\ NextStage /\ Quiet /\ NoChange
     \/ /\ at = 0
        /\ \/ NextStage /\ Quiet
           \/ LET e == Event("status", "repo", "clean", 0) IN
                (NextStage /\ Pushes(e)) \/ PushFails(e)
        /\ NoChange
     \/ Fail

\* The rows apply shows of a dirty repository; a clean one has no question.
Dirty ==
  /\ In("dirty")
  /\ \/ GitRows
     \/ at > 0 /\ NextStage /\ Quiet /\ NoChange
     \/ at = 0 /\ Enters(<<"changes">>) /\ Quiet /\ NoChange
     \/ Fail

\* The summary and confirm_pre_apply: the answers are commit, continue, abort.
Decide ==
  /\ In("decide")
  /\ \/ cmd.dirtyOk /\ NextStage /\ Quiet /\ NoChange
     \/ ~cmd.dirtyOk /\ cmd.mode = "dry" /\ NextStage /\ Prints("summary") /\ NoChange
     \/ /\ ~cmd.dirtyOk /\ cmd.mode = "terminal"
        /\ NextStage \/ Enters(<<>>)
        /\ Prints("prompt") /\ NoChange
     \/ ~cmd.dirtyOk /\ Fail

FileStatus(item) ==
  {Event("status", "generated", is, item) : is \in {"ok", "modified", "new"}} \cup
  {Event("status", "symlink", is, item) : is \in {"ok", "new", "wrong", "in_the_way"}}

CheckStatus ==
  /\ In("files")
  /\ \/ /\ at < Files
        /\ \E e \in FileStatus(at + 1) :
             \/ NextItem /\ Pushes(e)
             \/ PushFails(e)
        /\ NoChange
     \/ at = Files /\ NextStage /\ Quiet /\ NoChange
     \/ Fail

Act(act, item) == [act |-> act, item |-> item]

\* The system calls of one pending change of apply_changes.
Change(item) ==
  { <<Act("created_file", item)>>,
    <<Act("created_dir", item), Act("created_file", item)>>,
    <<Act("updated_file", item)>>,
    <<Act("created_symlink", item)>>,
    <<Act("created_dir", item), Act("created_symlink", item)>>,
    <<Act("unlinked", item), Act("replaced_symlink", item)>> }

\* apply_changes at an entry: settled, refused, or put to the prompter.
ApplyEntry ==
  /\ In("changes") /\ acts = <<>> /\ at < Files
  /\ \/ NextItem /\ Quiet /\ NoChange
     \/ cmd.mode # "yes" /\ NextItem /\ Prints("prompt") /\ NoChange
     \/ /\ cmd.mode # "dry"
        /\ acts' \in Change(at + 1)
        /\ at' = at + 1
        /\ Stay /\ NoChange
        /\ IF cmd.mode = "yes" THEN Quiet ELSE Prints("prompt")
     \/ Fail

\* Mutant: a directory is made without a word.
SilentOnDirs == {"unlinked", "subdir", "created_dir"}

\* Changes that have no event of their own: the old symlink or the original
\* that makes way for a link, a directory inside the imported tree.
Silent == {"unlinked", "subdir"}

\* One system call of an approved change, and its event.
DoAct ==
  /\ acts # <<>> /\ (In("changes") \/ In("moves"))
  /\ LET a == Head(acts)
         e == Event("action", a.act, "done", a.item) IN
       \/ Fail
       \/ /\ done' = Append(done, a)
          /\ \/ /\ a.act \notin Silent /\ Pushes(e)
                /\ acts' = Tail(acts) /\ UNCHANGED at /\ Stay
             \/ a.act \notin Silent /\ PushFails(e)
             \/ /\ a.act \in Silent /\ Quiet
                /\ acts' = Tail(acts) /\ UNCHANGED at /\ Stay

EndChanges ==
  /\ In("changes") /\ acts = <<>> /\ at = Files
  /\ NextStage /\ Quiet /\ NoChange

-----------------------------------------------------------------------------
(* zenops pkg                                                              *)

Note ==
  /\ In("note")
  /\ \/ host.manager /\ NextStage /\ Quiet
     \/ /\ ~host.manager
        /\ LET e == Event("pkg_note", "", "", 0) IN
             (NextStage /\ Pushes(e)) \/ PushFails(e)
     \/ Fail
  /\ NoChange

Rows ==
  /\ In("rows")
  /\ \/ /\ at < Pkgs
        /\ \/ NextItem /\ Quiet
           \/ \E is \in {"disabled", "installed", "missing"} :
                LET e == Event("pkg_row", "", is, at + 1) IN
                  (NextItem /\ Pushes(e)) \/ PushFails(e)
     \/ at = Pkgs /\ NextStage /\ Quiet
     \/ Fail
  /\ NoChange

SomeMissing == \E i \in DOMAIN journal : journal[i].type = "pkg_row" /\ journal[i].is = "missing"

PkgFooter ==
  /\ In("footer")
  /\ \/ NextStage /\ Quiet
     \/ /\ host.manager /\ SomeMissing
        /\ LET e == Event("pkg_footer", "", "", 0) IN
             (NextStage /\ Pushes(e)) \/ PushFails(e)
  /\ NoChange

-----------------------------------------------------------------------------
(* zenops doctor                                                           *)

\* The checks of a section: how many, which of them the block may leave out,
\* which look at something that may fail, and which end the block when bad.
Checks(s) ==
  CASE s = "System" -> <<"os", "git", "zenops">>
    [] s = "Repo" -> <<"path", "git repo", "remote", "branch", "uncommitted">>
    [] s = "Config" -> <<"status">>
    [] s = "PkgManager" -> <<"detected">>
    [] s = "User" -> <<"name", "email">>
    [] s = "Shell" -> <<"SHELL", "config", "match">>
    [] OTHER -> <<>>

MayBeLeftOut == {"branch", "match"}
Probing == {"git", "zenops", "path", "git repo", "remote", "branch", "uncommitted", "detected"}
EndsBlock == {"path", "git repo"}

Severities(label) ==
  CASE label = "status" -> IF host.config THEN {"fine"} ELSE {"bad"}
    [] label = "detected" -> IF host.manager THEN {"fine"} ELSE {"bad"}
    [] label \in {"os", "branch", "config"} -> {"fine"}
    [] OTHER -> {"fine", "bad"}

InDoctor == exit = "running" /\ cmd.name = "doctor" /\ todo # <<>>

\* DoctorEmitter::enter
EnterSection ==
  /\ InDoctor /\ at = 0
  /\ LET e == Event("section", Head(todo), "", 0) IN
       (NextItem /\ Pushes(e)) \/ PushFails(e)
  /\ NoChange

Check ==
  /\ InDoctor /\ at \in 1..Len(Checks(Head(todo)))
  /\ LET label == Checks(Head(todo))[at] IN
       \/ label \in MayBeLeftOut /\ NextItem /\ Quiet
       \/ \E is \in Severities(label) :
            LET e == Event("check", Head(todo), is, at) IN
              \/ /\ IF label \in EndsBlock /\ is = "bad" THEN NextStage ELSE NextItem
                 /\ Pushes(e)
              \/ PushFails(e)
       \/ label \in Probing /\ Fail
  /\ NoChange

\* Mutant: what needs the config is looked at without one.
EndSectionAnyway ==
  /\ InDoctor /\ Head(todo) # "Packages" /\ at = Len(Checks(Head(todo))) + 1
  /\ NextStage
  /\ Quiet /\ NoChange

\* Without a config that loads the sections that look into it are left out.
EndSection ==
  /\ InDoctor /\ Head(todo) # "Packages" /\ at = Len(Checks(Head(todo))) + 1
  /\ IF Head(todo) = "PkgManager" /\ ~host.config THEN Enters(<<>>) ELSE NextStage
  /\ Quiet /\ NoChange

Packages == InDoctor /\ Head(todo) = "Packages" /\ at > 0 /\ (PkgHealth(1) \/ Fail)

-----------------------------------------------------------------------------
(* zenops init and zenops import                                           *)

\* With --apply the command goes on as `zenops apply`, without a summary.
AfterSetup == IF cmd.thenApply THEN Enters(ApplyStages) ELSE NextStage

Clone ==
  /\ In("clone")
  /\ \/ host.config /\ AfterSetup /\ Quiet /\ NoChange
     \/ Fail

\* The questions, then a config.toml of its own, which loads.
Bootstrap ==
  /\ In("bootstrap")
  /\ \/ /\ todo' = IF cmd.thenApply THEN ApplyStages ELSE Tail(todo)
        /\ at' = 0 /\ acts' = <<>>
        /\ host' = [host EXCEPT !.config = TRUE]
        /\ UNCHANGED cmd
        /\ Prints("prompt") /\ NoChange
     \/ Fail

Summary ==
  /\ In("summary")
  /\ \/ LET e == Event("init_summary", cmd.name, "", 0) IN
          (NextStage /\ Pushes(e)) \/ PushFails(e)
     \/ Fail
  /\ NoChange

\* Parsing config.toml, build_plan and resolve_brew: every error of the plan.
Parse ==
  /\ In("parse")
  /\ \/ NextStage /\ Quiet
     \/ cmd.mode = "terminal" /\ NextStage /\ Prints("prompt")
     \/ Fail
  /\ NoChange

\* The plan event, then: a dry run ends, so does a plan with nothing to do.
PlanEvent ==
  /\ In("plan")
  /\ \E is \in {"noop", "work"} :
       LET e == Event("plan", "", is, 0) IN
         \/ /\ Pushes(e)
            /\ CASE cmd.mode = "dry" -> Enters(<<>>)
                 [] cmd.mode # "dry" /\ is = "noop" -> Enters(<<"applied_noop">>)
                 [] OTHER -> Enters(<<"confirm", "moves", "toml", "applied">>)
         \/ PushFails(e)
  /\ NoChange

Confirm ==
  /\ In("confirm")
  /\ \/ /\ todo' = Tail(todo) /\ at' = 0
        /\ acts' \in Moves
        /\ UNCHANGED <<cmd, host>>
        /\ IF cmd.mode = "yes" THEN Quiet ELSE Prints("prompt")
     \/ cmd.mode = "terminal" /\ Fail
  /\ NoChange

EndMoves == In("moves") /\ acts = <<>> /\ NextStage /\ Quiet /\ NoChange

WriteToml ==
  /\ In("toml")
  /\ \/ done' = Append(done, Act("config_written", 0)) /\ NextStage /\ Quiet
     \/ Fail

Applied(stage, is) ==
  /\ In(stage)
  /\ LET e == Event("applied", "", is, 0) IN
       (NextStage /\ Pushes(e)) \/ PushFails(e)
  /\ NoChange

-----------------------------------------------------------------------------
(* schema, repo and completions write to stdout themselves; the end        *)

Direct ==
  /\ In("direct")
  /\ (NextStage /\ Prints("text") /\ NoChange) \/ Fail

\* Mutant: main exits without finalize on success too.
FinishUnflushed ==
  /\ exit = "running" /\ todo = <<>>
  /\ exit' = "ok" /\ render' = FreshRenderer
  /\ UNCHANGED <<cmd, host, todo, at, acts, done, journal, screen>>

Finish ==
  /\ exit = "running" /\ todo = <<>>
  /\ UNCHANGED <<cmd, host, todo, at, acts, done, journal>>
  /\ render' = FreshRenderer
  /\ LET out == FinalWrites(cmd, render) IN
       \/ exit' = "ok" /\ screen' = screen \o out
       \/ exit' = "failed" /\ \E k \in 1..Len(out) : screen' = screen \o SubSeq(out, 1, k - 1)

Next ==
  \/ Load \/ Health \/ Own \/ Dirty \/ Decide \/ CheckStatus
  \/ ApplyEntry \/ DoAct \/ EndChanges
  \/ Note \/ Rows \/ PkgFooter
  \/ EnterSection \/ Check \/ EndSection \/ Packages
  \/ Clone \/ Bootstrap \/ Summary
  \/ Parse \/ PlanEvent \/ Confirm \/ EndMoves \/ WriteToml
  \/ Applied("applied_noop", "noop") \/ Applied("applied", "done")
  \/ Direct \/ Finish

Spec == Init /\ [][Next]_vars
-----------------------------------------------------------------------------
(* Properties                                                              *)

\* The parts that an event is to have on the screen, from the documentation
\* of the events; the title of a doctor section is a matter of the renderer.
DueParts(e) ==
  CASE cmd.json -> IF e.type = "section" THEN {} ELSE {"json"}
    [] ~cmd.json /\ e.type = "status" ->
         {p \in {"row", "diff"} : IF p = "row" THEN RowShown(cmd, e) ELSE DiffShown(cmd, e)}
    [] ~cmd.json /\ e.type \in {"action", "pkg_row"} -> {"row"}
    [] ~cmd.json /\ e.type = "pkg_footer" -> {"footer"}
    [] ~cmd.json /\ (e.type = "section" \/ (e.type = "applied" /\ e.is = "noop")) -> {}
    [] OTHER -> {"text"}

Due == UNION {[by : {n}, part : DueParts(journal[n])] : n \in DOMAIN journal}

ByEvent(piece) == piece.by > 0 /\ piece.part # "title"
Told == {piece \in {screen[i] : i \in DOMAIN screen} : ByEvent(piece)}

NumbersIn(numbers) == {numbers[i] : i \in DOMAIN numbers}
HeldBy(r) ==
  [by : NumbersIn(r.lines) \cup NumbersIn(r.rows), part : {"row"}] \cup
  [by : NumbersIn(r.diffs), part : {"diff"}] \cup
  [by : {r.footer} \ {0}, part : {"footer"}]
Held == HeldBy(render)

\* Every piece that the events pushed so far call for is either on the screen
\* or in the renderer's hands, never both; after finalize all are on the
\* screen, and no failure puts there what no event called for.
Conserved ==
  /\ Told \cup Held \subseteq Due
  /\ exit = "running" => Due \subseteq Told \cup Held /\ Told \cap Held = {}
  /\ exit = "ok" => Told = Due

\* TerminalRenderer and JsonOutput, under every command, do what the trait
\* promises.
Promise == INSTANCE Channel WITH
  sent <- Due,
  told <- Told,
  state <- CASE exit = "running" -> "open" [] exit = "ok" -> "closed" [] OTHER -> "dropped"
DeliversAll == Promise!Spec

Before(p, q) ==
  \/ p.by < q.by
  \/ p.by = q.by /\ p.part = "title" /\ q.part = "text"
  \/ p.part = "row" /\ q.part = "diff"
Ordered(pieces) ==
  \A i, j \in DOMAIN pieces :
    i < j /\ pieces[i].by > 0 /\ pieces[j].by > 0 => Before(pieces[i], pieces[j])

\* What an event wrote comes before what a later one wrote, and nothing is
\* written twice; only the diffs of a block stand after all of its rows.
InOrder == Ordered(screen)

SectionOf(e) == IF e.type = "status" THEN "Packages" ELSE e.of

SectionsOfEvents == [n \in DOMAIN journal |-> SectionOf(journal[n])]

\* sections: the section of each event.
Sectioned(pieces, sections) ==
  LET titles == {i \in DOMAIN pieces : pieces[i].part = "title"}
      Of(i) == sections[pieces[i].by] IN
    /\ \A i, j \in titles : i < j =>
         \E a, b \in DOMAIN Sections : a < b /\ Sections[a] = Of(i) /\ Sections[b] = Of(j)
    /\ \A i \in DOMAIN pieces \ titles :
         \E t \in titles :
           t < i /\ Of(t) = Of(i) /\ \A u \in titles : u < i => u <= t

\* Every check and every package row of `zenops doctor` stands under the title
\* of its own section, and the titles come once each, in the order of run().
UnderTheirSection ==
  cmd.name = "doctor" /\ ~cmd.json => Sectioned(screen, SectionsOfEvents)

ActsOf(e) == IF e.type = "action" THEN <<Act(e.of, e.item)>> ELSE <<>>
ActsOfEvents == [n \in DOMAIN journal |-> ActsOf(journal[n])]

\* told: what each event tells of changes.
ActsTold(pieces, told) ==
  FlattenSeq([i \in DOMAIN pieces |-> IF pieces[i].by = 0 THEN <<>> ELSE told[pieces[i].by]])
Reported == ActsTold(screen, ActsOfEvents)

IsVisible(a) == a.act \notin {"unlinked", "subdir", "config_written"}
ToTell(a) == IF IsVisible(a) THEN <<a>> ELSE <<>>
Made == FlattenSeq([i \in DOMAIN done |-> ToTell(done[i])])

\* A command that ends well has told every change it made on disk, each as
\* often as it made it and in that order, and no other.
ChangesReported == exit = "ok" => Reported = Made

ChecksShown == {journal[n] : n \in {k \in DOMAIN journal : \E p \in Told : p.by = k}}
BlockEnded(s, k) ==
  \E e \in ChecksShown : e.type = "check" /\ e.of = s /\ e.is = "bad" /\ e.item < k
                         /\ Checks(s)[e.item] \in EndsBlock

\* However broken the configuration is, a doctor that ends well has shown all
\* checks that do not need it, up to the package manager; with a configuration
\* that loads it has shown the rest, without one nothing of the rest.
DoctorReports ==
  cmd.name = "doctor" /\ exit = "ok" =>
    \A i \in DOMAIN Sections : \A k \in DOMAIN Checks(Sections[i]) :
      LET s == Sections[i]
          shown == \E e \in ChecksShown : e.type = "check" /\ e.of = s /\ e.item = k IN
        IF ~host.config /\ i > 4
          THEN ~shown
          ELSE shown \/ BlockEnded(s, k) \/ Checks(s)[k] \in MayBeLeftOut
=============================================================================
