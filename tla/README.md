# zenops in TLA+

zenops keeps a user's configuration in a git repository, `~/.config/zenops`, and
brings a home directory in line with it: it renders generated files, links
dotfiles to their copies in the repository, and moves existing dotfiles into the
repository. It is a sequential program, and what is hard about it is not threads.
It changes two places, the home directory and the repository, and a third file,
`config.toml`, that ties them together, by system calls each of which may fail;
it may die between any two; it reads, then waits for a person at a prompt, then
acts on what it read, while editors, `git pull` and other machines are at work;
and it is run again on what an earlier run left behind.

Paths below are relative to the repository's root as it is kept under `src/`.

## 1. The system

| Component | Source | State it keeps | Operations | Hard about it | Correct when |
| --- | --- | --- | --- | --- | --- |
| Import, the files | `src/import/mod.rs` | home files, repository copies, the `symlinks` array, the plan, the undo log | import of a file or a tree, extension of a tree by a file, reconcile; confirm; four passes; rollback; rewrite of `config.toml` | partial failure, rollback failing itself, death between passes, plans carried out after a prompt, moved and copied links | no file is lost; a rollback gives back what was there; the array names only what is in place; what was interrupted can be run again |
| Import, the document | `src/import/mod.rs` | `config.toml`: blocks by package, entries by index, each with its directory and its array | classify the path and the flags; find the entry that manages it or lay out a new one; preview; `update_doc` | one reading of the raw document by import and another of the parsed one by `apply`; an index kept across a prompt; a document changed by hand or by a pull | what an import took over stays linked by the `config.toml` it leaves; what was shown is what is written; one entry for a directory; no other entry changes |
| Materialiser | `src/config_files/mod.rs` | the home directory, the targets of its links | per entry: read, ask (per hunk), write, link | reading before and acting after a prompt, a walk that an error ends, links on generated paths | applied entries are as asked for; the user's files and rejected hunks stay; a later run converges |
| Prompter | `src/prompt/mod.rs`, `src/line_prompter.rs` | none | confirm, confirm_pre_apply | a dry run must not write | every write is approved |
| Apply command | `src/lib.rs` | the loaded config | pull, load, dirty check, pre-apply prompt, commit, push, materialise | the config is read before the commit is made | `--yes` applies only what is committed; what was told to be published is |
| Init | `src/init/mod.rs` | the repository | clone, bootstrap, handoff to apply | checks before three prompts, half-made repositories | nothing of the user's is overwritten |
| Git | `src/git/mod.rs` | work tree, history, remote | the git commands of the two above | other machines push; rebases stop in conflicts | machines converge |
| Config loading | `src/config/mod.rs` and its neighbours | the registry of files | merge of built-in and user config, compile, registration of the files of every part | merging values of different kinds, one path declared twice | what is registered is what the config declares for this host |
| Conditions | `src/config/condition.rs` | the conditions by name | compile, evaluate | cycles, dangling references, short circuits, a host that changes | compile accepts what evaluates; evaluation ends and answers what is written |
| Packages | `src/config/pkg/` | none | `is_installed` and four other questions | five questions of `when`, `enable` and `detect` in one command | every package is counted where it belongs, once |
| Shell, gitconfig, ssh | `src/config/shell/`, `git.rs`, `ssh/` | none | collect the packages' actions, render text, fetch keys | which packages' actions go in, what fails the command | (the text is unit-tested) |
| Package list and manager | `src/pkg_list.rs`, `src/pkg_manager.rs` | none | select and print | the same questions again | the list agrees with the questions |
| Doctor | `src/doctor.rs` | the section it is in | seven blocks of checks, each a row | it is run when things are broken | a broken configuration costs only the checks that need it, and every row stands under its own title |
| Output | `src/output/`, `src/main.rs` | the rows held back in the open block, the diffs, the footer, the section's title | `push` of an event, `flush_pending`, `finalize` | rows that wait in a block while other events are written at once; errors that end `main` without `finalize`; a stdout that fails | what is pushed is told once, in order; every change on disk that the command made has been told when it ends well |
| Template expansion | `crates/zenops-expand` | none | scan a string | boundaries of strings | (unit-tested text) |
| Safe relative paths | `crates/` | none | refuse `..` and absolute paths, drop `.` | where the same path is compared raw and where normalized | no accepted path leaves its directory |
| Schema, completions, entry point | `src/main.rs`, `src/schema.rs`, ... | none | choose the renderer, run, `finalize`, exit | | (text) |

How they interact. `main` parses the arguments and calls `lib.rs`, which calls
the component of the command. `apply` loads the config (after a pull, if asked),
looks whether the repository is clean, may ask, commit and push, then has every
part of the config register its files with the materialiser, which walks over
them with the prompter. `init` makes the repository and hands over to `apply`.
Before any file is registered, each package's `when` and
`detect` are evaluated against the host, once for every walk that wants to know.
`import` works on the home directory, the repository and `config.toml`, which the
next `apply` reads. Every command tells what it finds and does by pushing events to
the renderer that `main` chose, and asks its questions past it. The components share
the disk and nothing else; there are no threads, and the processes that run beside
each other are those of the user, of git, and of the other machines that follow the
same remote.

## 2. The modules

| Module | Models | EXTENDS |
| --- | --- | --- |
| `Import` | `zenops import` on one directory whose entry is known, system call by system call | |
| `ImportInv` | the inductive invariants of `Import` | `Import` |
| `ImportProofs` | the theorems about it | `ImportInv`, TLAPS |
| `MCImport` | instances for TLC | `ImportInv` |
| `Apply` | `ConfigFiles::apply_changes` with its prompters, system call by system call | |
| `ApplyInv`, `ApplyProofs`, `MCApply` | as above | |
| `Repo` | `init` and the part of `apply` before the materialiser, several machines and one remote | |
| `RepoInv`, `RepoProofs`, `MCRepo` | as above | |
| `Conditions` | `Conditions::compile`, `Conditions::evaluate` and `DetectStrategy::check`, call by call, on a host that changes | |
| `ConditionsInv` | the inductive invariants of `Conditions` | `Conditions` |
| `BasicFacts` | lemmas on numbers and sequences: least elements, and sequences put end to end | TLAPS |
| `ConditionsProofs` | the theorems about it | `ConditionsInv`, `BasicFacts` |
| `Pkgs` | what a command makes of its packages: load, questions, health report, package list, registered files; composed with `Conditions`, whose actions it takes as steps | `Conditions` |
| `PkgsInv` | the inductive invariants of `Pkgs` | `Pkgs`, `ConditionsInv` |
| `PkgsProofs` | a command is a behaviour of `Conditions`; what it reports and registers | `PkgsInv`, `ConditionsProofs` |
| `MCPkgs` | instances for TLC | `PkgsInv` |
| `Layout` | how an import finds or makes its entry in `config.toml`, previews and writes it, against what `apply` makes of that document | |
| `LayoutInv` | the inductive invariants of `Layout` | `Layout` |
| `LayoutProofs`, `MCLayout` | the theorems; instances for TLC | `LayoutInv` |
| `Channel` | what the `Output` trait promises a command: the abstract specification | |
| `Renderer` | `JsonOutput` and `TerminalRenderer` as functions from a renderer and an event to what is written and what is kept | |
| `Output` | every command from `main` to its exit: stages, events, changes, questions, errors; implements `Channel` | `Renderer`; INSTANCE `Channel` |
| `OutputInv` | the inductive invariants of `Output` | `Output` |
| `OutputProofs`, `MCOutput` | the theorems and the refinement; instances for TLC | `OutputInv` |

### Import

State: `home[r]` and `repo[r]` say what is at a relative path `r` below the
imported directory and below its place in the repository; `listed` is the
`symlinks` array of the directory's entry in `config.toml`, `block` whether there
is an entry, `toml` whether the file was cut short. `plan`, `todo`, `cur`, `undo`
and `pc` are the running command: its `Plan`, what the pass has yet to visit, the
path whose link is being replaced, its `UndoLog`, and where it is.

| Actions | Code |
| --- | --- |
| `ImportFile`, `ImportTree`, `Reconcile` (by `Propose`, `Walked`, `RenameMaps`, `ReconcilePlan`, `DestExists`) | `build_plan`, `build_extend_plan`, `build_reconcile_plan`, `walk_dir` |
| `Confirm`, `Decline` | `confirm` |
| `Copy`, `CopyFails` | pass 1 of `apply_files` |
| `Unlink`, `UnlinkFails`, `Link`, `LinkFails` | pass 2: `remove_file`, `symlink` |
| `Rename`, `Retarget`, `Relink`, `LatePassFails` | pass 3: `rename`, `remove_file`, `symlink` |
| `Remove` | pass 4 |
| `WriteToml`, `WriteTomlFails` | `update_doc` and the write of `config.toml` |
| `Restore`, `EndRestore`, `Discard`, `EndRollback` | `rollback` |
| `Crash` | the process dies, or its output fails |
| `User...` | an editor, `mv`, `cp -a`, `rm`, `git pull` |

The paths of one pass are visited in any order: the code visits them in the order
of the directory walk, and nothing depends on it. A rename maps a copied link to
its new place by one of the candidate maps, since the code's choice among several
links to one copy hangs on the order of the walk.

Left out: creating and trimming directories in the repository (git does not track
them; a `mkdir` that fails ends as the call after it does). The classification of
the argument, the choice of the entry and `install_hint` are in `Layout`.

### Apply

State: `fs[p]` is a text, a symlink's target, nothing, or something else at the
path of an entry, `file[t]` what is at the target, `dir[d]` whether the directory
exists. `at` is the entry the walk is at, `status` and `cur` what `entry_status`
read of it, `todo` and `approved` the hunks to ask for and those approved. A text
is a function from hunks to who wrote them: the hunks of `similar` are given, and
`NewText` is `reconstruct`.

| Actions | Code |
| --- | --- |
| `Start` | `build_prompter` and the call of `apply_changes` |
| `Probe`, `ProbeFails`, `Finish` | the loop with `entry_status` |
| `Decide`, `DecideHunk`, `EndHunks`, `Interrupt` | the prompter's answers |
| `Mkdir`, `Write`, `WriteFails`, `Unlink`, `Link`, `CallFails` | the calls that write |
| `Crash`, `User...` | as above |

Left out: the probe's system calls count as one (nothing of this program is
between them); a named pipe at a generated path, on which reading blocks.

### Repo

State, for each machine `m`: `dir[m]`, `tree[m]`, `log[m]` the directory, the work
tree and the commits HEAD leads to, `origin[m]` whether there is an upstream,
`stopped[m]` and `saved[m]` a rebase that waits for its conflicts to be resolved;
`pc[m]`, `args[m]`, `loaded[m]`, `decided[m]` the running command; `applied[m]`
the config last materialised. `remote` is the branch they share.

| Actions | Code |
| --- | --- |
| `InitClone`, `Clone`, `CloneFails`, `Validate` | `run_clone` |
| `InitBootstrap`, `BootstrapAnswered`, `...Interrupted`, `...Mkdir`, `...Write`, `...GitInit`, `...Commit`, `...CommitFails` | `run_bootstrap` |
| `Apply`, `Pull`, `PullStops`, `PullFails`, `Load` | `Config::load` |
| `Check`, `AnswerCommit`, `AnswerContinue`, `AnswerAbort` | `real_main` on `Cmd::Apply`, `confirm_pre_apply` |
| `Commit`, `CommitFails`, `Push`, `PushFails` | `commit_all_and_push` |
| `Materialise`, `MaterialiseFails` | the call of `apply_changes`, as one action |
| `User...` | an editor, `zenops repo commit/push`, `git rebase --abort/--continue`, `git push -u` |

git is external and modelled from what the code asks of it: a branch is a sequence
of commits; a rebase carries the local commits over as one commit; a file with
conflict markers is the value `Marked`. At most one command runs at a machine at a
time.

### Conditions

An expression is a number and `Node` says what it is made of; conditions and
detect strategies share the combinators and so share the model. A child has a
smaller number than its parent, as in any tree; a `ref` leads by its name to any
named condition, so the graph may have cycles. The recursion of the code is a
stack in a variable: `walk` for compile, with the child each call goes on with and
the name it is for, and `stack` and `value` for evaluate.

| Actions | Code |
| --- | --- |
| `WalkKey`, `WalkRef`, `WalkInline`, `WalkEnds`, `Accept` (by `Walk`, the three checks of `walk`) | `Conditions::compile`, `walk`, `walk_condition`, `walk_or_ref` |
| `Ask` | `PkgConfig::evaluate_when` and the calls of `DetectStrategy::check` |
| `EvalHost`, `Probe`, `ProbeFails`, `Unexpanded`, `EvalUnknown` | the leaves: os, shell and hostname; `exists`, `which` and `file_exists` |
| `Call`, `Exhausted`, `Resume` (by `Decides`) | `all`, `any`, `not`, `when` and a reference |
| `SystemInputs` | `build_system_inputs` |
| `HostChanges` | a tool or file comes or goes between two probes |

A leaf is what it answers: the matching of host names, paths, and the expansion of
templates are left out, but for whether every variable of a template is defined.

### Pkgs

State: `user` is the content of `config.toml` and `command` the command line;
`stage`, `pkg`, `asking` and `part` say which walk over the packages is under way
(`Walks`), at which package, with which of that walk's questions (`Questions`),
and whether its `when` or its `detect` is being evaluated. `taken`, `visible`,
`reports` and `files` are what the walks collect; `files` is the IndexMap of
`ConfigFiles`.

| Actions | Code |
| --- | --- |
| `ParseFails`, `Compiles`, `CompileFails`, `BrewProbeFails`, `Loaded` (by `DeepMerge`, `Deserializes`, `Registry`) | `Config::load`, `deep_merge` |
| `StartQuestion`, `WhenAnswered`, `DetectAnswered`, `Evaluates`, `EvaluationFails` (by `Dismissed`, `AskDetect`, `Answer`, `Proceeds`) | the questions of `PkgConfig`, `push_pkg_health`, `pkg_list::push`, `update_config_files` |
| `EndWalk`, `RenderFails`, `SshFails`, `ManagerFails`, `Finish` (by `ShellFiles`, `SourceFiles`, `Insert`) | `make_config_files` of the shells, `StoredGitConfig`, the ssh keys, `pkg_manager::detect`, `ConfigFiles::add` |

Left out: the text of every generated file, the sorting, patterns, hints and
colours of the package list, and the other tables of the config, which `deep_merge`
treats alike. A package's paths are its listed ones; `unplaced` says that it has an
entry placed by its key, and that the key is no path component, which ends the
command (`Answer`, `config/pkg_config_files.rs:71`). The prefix of
Homebrew is probed once, when the config is loaded. The variable that a hook needs
is the only one that can be undefined in an action.

### Layout

State: `home[p]` is nothing, a regular file, or a link into the repository; `repo`
the files there; `doc` is `config.toml` as parsed: for each package key a block,
with or without its install hint, written as a table or inline, and its `configs`
as tables or as an array. `run` is the running import, with its plan and the
document that the plan was made from. The history variables are `adopted`, what an
import took over and nobody changed since, and `touched`, whether this run changed
a file. `adopted` gets the paths whose link is the only one to its file, under a
document that `apply` can load; another link to the same file would count as a move
of it (section 3, "Met while modelling").

| Definitions and actions | Code |
| --- | --- |
| `Visible`, `RootOf`, `Slots`, `Managing`, `Nearest` | `pkg_has_configs_entries`, `find_managed_root`, `find_matching_config`: the raw document, tables only |
| `DirOf`, `ClaimsOf`, `Claims`, `Loads` | `StoredConfigFiles` and what `apply` links: the parsed document, either form |
| `NewRefused`, `NewPlan`, `NewEntry` | `classify`, `derive_pkg_key`, `build_plan` |
| `ExtendRefused`, `ExtendPlan`, `ReconcileRefused`, `ReconcilePlan`, `Renames`, `Walked` | `build_extend_plan`, `build_reconcile_plan`, `walk_dir` |
| `Preview` | `render_symlinks_array_preview`, `render_configs_entry_preview` |
| `Updated`, `Trimmed`, `HintAfter`, `Panics` | `update_doc`, `append_symlinks_to_configs_entry`, `remove_symlinks_from_configs_entry`, `populate_install_hint` |
| `Refuse`, `Propose`, `Confirm`, `ApplyFiles`, `WriteToml`, `WriteFails`, `UpdatePanics` | `run_with_prompter` |
| `EditHome`, `MoveLink`, `Replace` | an editor, `mv`, a pull |

`ApplyFiles` is all of `Import`'s passes as one step that may stop after any move,
a pass over new files being undone as a whole. `AfterMoves` says in one expression
what the moves so far have made of the disk: no plan has two moves that undo each
other, so their order does not show. Left out: paths outside `$HOME`,
links among the parents of a path, an import while another one runs; directories
are there throughout; a package's name is valid when it is one of `Keys`; a `dir`
is spelled without `.` and trailing slash (section 3 says what happens otherwise).

### Renderer, Output and Channel

State of `Output`: `cmd` the command line, `host` what no stage changes (does the
config load, is a package manager there); `todo` the stages left, `at` the item of
the running one, `acts` the system calls left of an approved change; `done` the
changes on disk, `journal` the events pushed, `screen` the pieces on stdout,
`render` the renderer. A piece is the part (row, diff, title, text, footer, json)
that event number `by` has on the screen.

| Definitions and actions | Code |
| --- | --- |
| `PushWrites`, `PushKeeps` (by `Block`, `Entered`, `Flushed`, `Buffered`, `Title`, `RowShown`, `DiffShown`), `FinalWrites` | `TerminalRenderer` and `JsonOutput`: `push`, `enter`, `flush_pending`, `finalize` |
| `Load`, `Health`, `Own`, `Dirty`, `Decide`, `CheckStatus` | `real_main` on `Cmd::Status` and `Cmd::Apply`, `push_pkg_health`, `check_own_status`, `check_status` |
| `ApplyEntry`, `DoAct`, `EndChanges` | `apply_changes` and its system calls, each with the event below it |
| `Note`, `Rows`, `PkgFooter` | `pkg_list::push` |
| `EnterSection`, `Check`, `EndSection`, `Packages` | `doctor::run`, `DoctorEmitter::enter` and the blocks |
| `Clone`, `Bootstrap`, `Summary` | `init` and its summary |
| `Parse`, `PlanEvent`, `Confirm`, `EndMoves`, `WriteToml`, `Applied` | `import` and its events |
| `Direct` | `schema`, `repo`, `completions`, which write to stdout themselves |
| `Finish`, `Exits` | `main` |

`Channel` has three variables: the pieces that the events so far call for, those on
stdout, and whether the renderer is open, closed or dropped. `Output` implements it
with `sent <- Due`, `told <- Told` and `state` from `exit`; `Due` says per kind of
event what its documentation promises, independently of the renderer's blocks. What
a stage finds is chosen when it looks: the models above say what it may find. Left
out: wording, colours, columns, indentation.

## 3. What is checked

The runs check for deadlock, but for those of `Pkgs`, `Output` and `Layout`, in
which a command ends and is not given again, or not more than `MaxRuns` times. The
counters `faults` and `edits` bound failures and acts of the user, `events` the
changes of the host, `runs` the imports of `Layout`; `FaultKinds` names the calls
that may fail in a run.

| Run | Instance | Shows |
| --- | --- | --- |
| `import_safety` | 3 paths, 2 contents, 2 failures of every kind but `discard`, 3 acts of the user | `HomeFilesKept`, `RepoFilesKept`, `RollbackRestores`, `ListedLast`, `ReconcileSettles`, and the inductive invariant `IInv` |
| `import_fair` | 2 paths, 1 content, 2 failures (a failing rollback among them), 3 acts | `RunEnds`, `RemovalsRedriven` |
| `apply_all` | 2 links around a generated file of 2 hunks, 2 directories, 1 failure of every kind, 1 act of the user | `PrefixSettled`, `RestUntouched`, `KeepsFiles`, `KeepsRejected`, `DryRunWritesNothing`, `Converges`, and the inductive invariant `AInv` |
| `repo_safety` | 2 machines, `config.toml` with 2 values, both forms of `init`, 4 ways to run `apply` | `CommittedOnly`, `PublishedFirst`, `EditsKept`, and the inductive invariant `RInv` |
| `repo_fair` | 2 machines that clone, 2 edits, so that histories diverge and conflict | `Converges` |
| `repo_clobber` | 1 machine that bootstraps, 2 edits, no failures | that `NeverClobbers` does not hold (below) |
| `pkgs_command` | a pool of 14 expressions over 3 names; every registry over 4 of them with a built-in that is kept, overridden or clashes, and 48 configs with 2 packages, in 8 of them one that cannot be placed; `apply` and two forms of `pkg`; 1 change of the host | `CompileExact`, `NoReentry`, `AnswersSound`, `Registered`, `Reported`, `Ends`, and the inductive invariant `CInv` |
| `output_all` | 48 command lines (every command, under both renderers and the options it has), 2 packages, 2 files, 2 paths of git, 3 plans of an import; every call may fail, stdout at every piece | `Conserved`, `InOrder`, `UnderTheirSection`, `ChangesReported`, `DoctorReports`, and that the commands implement `Channel` (`DeliversAll`) |
| `layout_all` | 7 files below `$HOME`, 9 documents, 72 requests, 2 imports, 1 act of the user, 1 failure | `AdoptedStays`, `OneRoot`, `PreviewExact`, `OthersKept`, and the inductive invariant `StayInv` |

Why the bounds are enough. A path of an import has a role (copied, renamed from,
renamed to, removed); three paths let a rename, an addition and a removal be in one
plan, and two contents tell a copy from what it replaces. Two failures let a failing
call start a rollback that fails too, or a second run meet what the first one left.
Three acts of the user are a `mv`, a new file at the old name and a change at the
prompt. The walk of `apply` treats its entries one by one; three entries put
something before and after each kind. One generated file is never `Contended`; the
case of two that the user has linked to one file is covered by the theorems of
`ApplyProofs`, which hold for any number of either. Two machines and two edits are
the smallest divergence; two values the smallest conflict. `repo_safety` uses
symmetry in machines and values, `import_safety` and `import_lost` in contents and
paths; no run with a liveness property uses any. The pool of `pkgs_command` has
every kind of leaf and combinator, references that are known, unknown and cyclic (a
name to itself, two to each other, through an inline condition), and leaves with a
system variable, with a variable of the package and with none; two packages are what
it takes for a path to be declared twice, and one of the two declares a file of the
shell as well. A change of the host before the first question is another host to
start on; one change in a command tells `AnswersSound`, which speaks of a host that
stood still for one question, from `Reported`, which needs it to stand still for all
of them, and lets `Registered` say what is left of the config's declarations when a
package comes or goes between the walk for the shell and the walk for the dotfiles
(the run has such commands: with one set of packages for both, `Registered` fails).
In `output_all` two items of every loop put a row before and after an event of
another block, which is what a buffer can get wrong; the three plans have every kind
of change an import makes, those without an event of their own included. In
`layout_all` the documents are an empty one, a block without entries, one entry, an
entry under another package's name and behind an entry without a directory, nested
entries, two entries for one directory, and the three inline forms; the requests
name every file, every directory, the repository itself, and combine `--pkg`,
`--source`, `--brew`, `--no-hint` and the ways to confirm. A second import extends
or reconciles what the first one laid out, and one act of the user is a new file, a
deleted or moved link, or another document, in particular while the prompt waits.

Fairness. `WF(Step)`: a process that is not killed goes on, and a prompt is
answered or interrupted. `WF`/`SF` of the command (`Reconcile \/ ImportTree`,
`Start("yes")`, `Apply(m, TRUE, Handoff("yes"))`): the user, whom the messages tell
to, or a timer runs the command again. Failures, deaths and edits are never
assumed to happen or to stop: the counters stop them, since an environment that
fails for ever lets nothing converge. `Converges` of `Repo` speaks of behaviours in
which rebases are resolved in the end, since nobody but the user can do it.

### What the code does not do

Four runs refute what the repository says of the program; the counterexample of
each is a few steps of the code.

| Run | Refutes |
| --- | --- |
| `import_lost` | rollback is said to walk each step backward (`import/mod.rs:1474`): `symlink` fails after `remove_file`, the pair is not in the undo log yet, rollback restores nothing for it and then deletes the copy in the repository, the last one |
| `import_redriven` | an import that stopped half-way is said to be re-driven by running it again (`import/mod.rs:10`): one that died in its passes is refused for ever (`DestExists`, or `SourceEmpty`) |
| `repo_clobber` | bootstrap is said to refuse any existing path, "so it can never clobber a previous setup" (`init/error.rs:25`): it looks once, before its three prompts (`init/mod.rs:101`), and writes over the `config.toml` that has appeared when they are answered (`init/mod.rs:122`) |
| `layout_late` | every error is said to come before any change of the file system (`import/mod.rs:221`): `update_doc` expects tables where `build_plan` took an inline form for nothing, and panics after the files were moved (`import/mod.rs:1690`, `1697`, `1712`) |

Met while modelling, in the models, and without a run of their own.

Import: a rename replaces a file of the repository that the array does not list
(`import/mod.rs:1118`); a link that was not retargeted after its copy moved makes
every later reconcile fail (`import/mod.rs:1303`). An entry of a single file at
`$HOME` has an empty `dir` and is passed over by the matching, so that a `~/.x`
which is a regular file again is refused as `PkgKeyTaken`; following that message's
`--pkg NEW` makes a second entry that claims `~/.x`, and its `--source` is refused
all the same. Entries written inline are invisible to import, though `apply` links
them. With entries nested in each other one path can be listed by both. A second link to a
listed file (`cp -a`, or a link moved away whose place was filled again) is taken by
the next reconcile for the new place of the file, without a look at whether the
listed one still has its link (`import/mod.rs:1138`): the copy in the repository is
renamed, the array follows, and the first link leads nowhere.

Apply: a link to a missing file is made and reported as success, and the next run
fails on it (`config_files/error.rs:42`); a file that took the place of a wrong link
while the prompt waited is deleted (`config_files/error.rs:59`).

Conditions and packages: a `which` leaf of a detect strategy with a variable that
nothing defines ends the command with an error, where the package should silently
miss (`docs/config.md:496`, `pkg/detect.rs:62`), as `exists` does; a dangling name
in a package's `when` is met at evaluation, in a command that may have committed and
pushed, although references are said to resolve at load (`docs/config.md:114`); a
user's condition of another kind under a built-in name does not override it but
makes a table of two kinds, which does not parse (`docs/config.md:103`). Of the files
under a package's `source` only those listed in `symlinks` are registered
(`config/pkg_config_files.rs:24`); the others are nowhere looked for, although they
are said to be copied as generated files (`docs/config.md:352`, `373`, `377`).
`Registered` has the code's meaning: what a package declares is what it lists. A
package that is `on` and has no `detect` is not reported, as `config/pkg/mod.rs:170`
and `tests/apply.rs:322` want it, although the doc of `push_pkg_health` says that it
is reported as ok (`config/mod.rs:336`). `Reported` has the code's meaning.

Output: prompts and previews of a dry run go to stdout between the events, under `-o
json` too, whose output is said to stay parseable (`main.rs:8`), and before rows
that were pushed earlier but are still held. An error loses what is held, such as
the rows of git's state before `DirtyRepoRequiresAllowDirty`, which are there "so
the user sees what's uncommitted" (`output/event.rs:506`), and the rows of changes
that were made before a later entry failed (`output/mod.rs:62` has "one row per
change `apply` actually wrote to disk"). The removal of an old link is told only
with the new one, so never when making the new one fails. `RemovedFile` is pushed
for a copy that was gone already, and the events of copies that a rollback takes
back stay.

Not in the models, for what they leave out: a `dir` written as `.ssh/` or `./.ssh`
is compared raw and found by no import.

The properties that hold say where they stop because of these: `HomeFilesKept`
leaves out the paths in `exposed`, whose link could be neither made nor undone;
`Settled` counts a correct link to a missing file as settled; `ChangesReported`
speaks of commands that end well; `OneRoot` of directories, not of single files;
`KeepsFiles` and `KeepsRejected` speak of runs in which nobody else acts;
`EditsKept` leaves out the `config.toml` that appears while bootstrap waits, and
nothing else that the user does; `Registered` speaks of listed files and `Reported`
of packages with a `detect`, on a host that stands still;
`CompileExact` speaks of the named conditions, which are all that compile walks;
`AdoptedStays` speaks of documents in which no entry keeps its files at or below the
place of another (`Apart`), where one import could not take the other's files away,
and of paths whose file has one link.

## 4. What is proved

Proved by TLAPS for every set of paths, contents, entries, hunks and every bound,
from the assumptions that the constants name different things (`EntriesDistinct`,
`NoneIsNothing`), that `Order` lists every path once (`OrderIsPaths`), that paths
have their places (`PathsPlaced`), that bounds are naturals (`BoundsNat`,
`BoundNat`), that expressions are trees (`NodesAreTrees`), that a config holds what
its parser lets through (`ConfigsParse`, `DocsParse`), that the constants of `Repo`
are what their names say (`RepoConstants`), that the files below `$HOME` are paths
and package keys are names, not `.`, `..` or a separator (`OrderTyped`,
`KeysAreNames`: a key becomes a component of a path), and that command lines,
requests and plans have their fields (`CommandsTyped`, `RequestsTyped`,
`MovesTyped`).

Induction over data is out of the provers' reach, in the form of the library's
theorems. Where a proof needs it (over a sequence put end to end, over the tree of an
expression, along a walk) it takes a least counterexample instead, by the lemma
`Least` of `BasicFacts`. There `FlattenSeq`, which the models use to put the pieces
of a list together, is shown to be what its recursive definition says: a table of
the prefixes exists (`FlattensExists`), any two agree (`FlattensAgree`), and so it
can be taken apart (`FlattenAppend`, `FlattenConcat`).

`ImportProofs`: `TypeCorrect`, `Invariant` (`IInv`), `HomeFilesAreKept`,
`RepoFilesAreKept`, `RollbackIsExact`, `ArrayIsLast`, `ReconcileIsFinal`. None of the properties is
inductive: that a file is at one of two places after pass 2 depends on pass 1
having copied every file of the plan and on no other pass touching the path. `IInv`
says this by pass: `PlanOK`, the paths of the passes do not overlap (this needs
that renames map to unlisted paths and two never from the same one); `UndoOK`, what
each `pc` knows of `todo` and the undo log; `HomeOK`, which links are made;
`CopiesOK`, a copy in the log is whole and equal to what was at home; `EarlyRepoOK`
and `LateRepoOK`, what the repository has before and after renames begin. The proof
takes each pass on its own; the history variable `before` is the disk when the plan
was confirmed. `ReconcileSettles` compares what a run leaves with what the next one
would find; on top of `IInv` it needs `SettleInv`: while the user is idle the plan
accounts for every listed path and every file that the plan's survey saw
(`PlanAccounts`), and a rename leaves nothing at the old place (`SourcesGone`).

`ApplyProofs`: `Invariant` (`AInv`), `AppliedPrefixIsSettled`, `RestIsUntouched`,
`FilesAreKept`, `DryRunIsDry`, `RejectedAreKept`. `AInv` adds to the properties
`KindOK` (which call belongs to which kind of entry and status), `ConsentOK` (what
is done was approved, and `--yes` approves everything that differs) and `ReadingOK`
(while nobody else acts, what was read is what is there). The main step is that
settling one entry unsettles none before it, with the exception that `Contended`
names: two generated paths which the user has linked to one file.

`ConditionsProofs`: `TypeCorrect`, `Invariant` (`CInv`), `NeverReenters`,
`DecidesExactly`, `AnswersInvariant` (`AnswerInv`), `AnswersAreSound`. That a walk was accepted says nothing by itself of how calls nest
later, so the history variable `rank` records when the walk of an expression ended.
`RankOK`: what has a rank leads only to what has a smaller one. `WalkOK`: the walk
is a path of the graph, and what a frame has passed is ranked; `ValidatedOK`,
`KeysOK`: a validated name, and every key passed but the one being walked, is
ranked; so on acceptance all named conditions are (`AcceptOK`). `StackOK`: a call
leads down `Below`, the order in which ranked expressions come below those that
compile never sees (a package's `when` and `detect`), which are ordered by their
numbers; as an order it has no loops, which is `NoReentry`. For `CompileExact`,
the ranked expressions are closed under references, a least one of a supposed cycle
would lead to something less, the frames above a repeated name are a cycle, and an
unknown name is reached from a named condition along the walk.
`AnswersSound` compares an answer with `Meaning`, a function defined by itself on
expressions that refer to each other. It has a value at all only where compile has
accepted (`MeaningIs`): expressions get a depth by their rank and number, a table of
the meanings before each depth exists, by a least depth for which there would be none
(`GroundedExists`), any two agree (`GroundedUnique`), and the whole is put together
from these. `AnswerInv` then says that the calls
under way are a path from what was asked, that what a call has passed has not settled
its answer, and that what was returned is what the child means, while the host
stands still.

`PkgsProofs`: `CommandRefines`, a command is a behaviour of `Conditions`
(`Spec => CSpec`), whatever the config; with it the theorems above hold of every
command (`CommandNeverReenters`, `CommandDecidesExactly`, `CommandInvariant`,
`CommandAnswersAreSound`). The proof is the classic one: initial states map to initial
states, each step of a command is a step of `Conditions` or leaves its variables
alone. `CommandReports` and `CommandRegisters` are about the whole of a command, from
the invariant `PInv` (`CommandPlace`): `PlaceOK` and `PartOK`, at which question of
which walk the command is and what the evaluation under way is for; `ReportsOK`, what
has been reported is what holds of the packages left behind; `FilesOK`, the files
registered so far are what the config declares up to this package, for packages that
some host makes installed (`Possible`: an answer never takes in a disabled package nor
leaves out one without conditions) and for the installed ones while the host stands
still. `Tabulates` is the
relation of an IndexMap to the insertions that made it, and one `Insert` keeps it
(`InsertTabulates`); that the walks together give the shell's, ssh's and git's paths
in their order is proved stage by stage.

`OutputProofs`, however many packages, files and changes there are, under every
command and both renderers. `OutputInv` (`OInv`), `OutputConserved`, `OutputDelivers`:
the commands implement `Channel` (`Spec => DeliversAll`). `Conserved` alone is not
inductive: `RenderOK` says that the renderer holds nothing outside its open block (so
that a flush, which takes one block, leaves nothing behind), and `PlaceInv` that a
footer, of which it holds only the last, is pushed once, in the last stage of its
command. The proof has a lemma for the renderer (`PushDelivers`: what a push writes
and keeps together is what was held and what the event calls for), one per way a step
uses it (`PushStep`, `PushFailStep`, `PrintStep`, `QuietStep`, `FailStep`,
`FinishStep`), and one per action of `Output`; each shows the step of `Channel` that
it is. `OutputInOrder` needs what is held as well: it comes after all that is on the
screen and stands in the order in which it was pushed (`OrderOK`).
`OutputTellsChanges` joins three sequences, what was done, what was pushed and what is
on the screen: `OutputDone` (`DoneInv`) the first two, `TellOK` the last two, with the
rows of the open block as what is still to be told. `OutputDoctor` (`DoctorInv`) says
where doctor is in its sections; from it follow `OutputTitles`, since a title is out
before anything of its section is pushed and what is held belongs to the last title,
and `OutputDoctorReports`, since what lies behind was looked at as far as there is a
config for it.

`RepoProofs`: `Invariant` (`RInv`), `TypeCorrect`, `AppliesCommitted`,
`PublishesFirst`, `KeepsEdits`, for any number of machines. A command reads the
config, asks, commits and goes on, and `CommittedOnly` compares the two ends:
`LoadedOK` says at each `pc` where the loaded config still is, in the work tree
before the commit and at the tip after it. It holds while the user of the machine
leaves the repository alone, which is the history variable `fresh`. `AskedOK`: only
a run at a terminal gets to commit; `MadeOK`: what `init` found missing is still
missing when it writes, unless the user has acted since, which is why `KeepsEdits`
has its one exception: every other step that writes the work tree (`WritesTree`)
either meets nothing there or is stopped by what it meets, whatever the user does. A
step of one machine leaves the others alone
(`LocalElsewhere`), so each action is proved for its own machine (`Inductive`). The
two action properties come from which steps lead to materialising
(`ComesToMaterialise`) and which write the work tree.

`LayoutProofs`: `Invariant` (`LInv`), `OneEntryForADirectory`,
`OtherEntriesAreKept`, `PreviewIsExact`, `AdoptedInvariant` (`StayInv`),
`AdoptedFilesStay`, for every home directory, document and request. `LInv`: a
plan under way knows of the document it was made from that it has the slot with the
directory it names (`ChangesSlot`), or that no slot has the directory of the entry
it adds (`AddsEntry`). That import's `RootOf` and the parser's `DirOf` agree is
`SameRoot`; that a path which some entry lies above has a nearest one is
`NearestThere`, by `Least` on the lengths; so a path that comes to a new entry has
none above it. The preview is the array before what is added and dropped, and the
document gets what was added before it loses what was dropped: these are the same
because a plan drops nothing that it adds (`Disjoint`, `TrimmedIs`).

`AdoptedStays` spans many imports, each of which may be refused, fail half-way or
panic. `StayInv` has two parts. `Held`, between imports: what was taken over is
linked and claimed, no other link leads to its file, and its document loads. `Ready`,
during one: the plan lists whatever it takes over and drops whatever it takes away
(`Lists`); until the files are moved the home directory is as it was surveyed
(`Surveyed`), no new file has a copy in its way (`Vacant`), and afterwards all is in
place (`InPlace`). The steps that matter: the moves of a plan touch no adopted path
and take no file that an adopted link leads to (`MovesKeep`), because a link that
points where the plan would rename from is either a sole link of the same entry, and
then not adopted under the listed name, or lies in another entry, which `Apart`
excludes (`NotAgain`, `NotDropped`); and the new document loads and claims what the
old one claimed and the plan took over (`UpdatedLoads`, `UpdatedAsks`,
`UpdatedTakes`). Without `Apart` the theorem is false: let the place of the entry
for `~/.d` be inside that of the entry for `~/.config/a`. A reconcile of `~/.d` removes
the copy of a deleted link and then fails to write the array; an import of
`~/.config/a` puts a new file there; the next reconcile of `~/.d` still finds its path
listed and the link gone, and removes that file.

Only model-checked: the liveness properties (`RunEnds`, `RemovalsRedriven`,
`Converges` of `Apply` and of `Repo`, `Ends`), which need fairness and ENABLED. Every
other property that a passing run checks is stated by a theorem. The invariants that
the theorems rest on are invariants of a run as well, for one of each module
(`IInv`, `AInv`, `CInv`, `RInv`, `StayInv`); TLC found the others (`LInv`,
`SettleInv`, `AnswerInv`, `PInv`, `OInv`, `DoneInv`, `DoctorInv`) without a
counterexample on the instances of the same runs before they were proved.

## 5. Plan

1. Done: `Import`, `Apply`, `Repo`, `Conditions`, `Pkgs`, `Layout`, `Output` with its
   abstract specification `Channel`, their runs, and their invariants with proofs.
2. Further abstract specifications: `Relocation` (a file is at home or in the
   repository, a link follows its file, the array follows the links) by `Import`;
   `Materialise` of `Repo` by a whole run of `Apply`; `ApplyFiles` of `Layout` by the
   passes of `Import`.
3. Done: theorems for every safety and action property that the runs check.
4. `Layout` with a second link to a listed file as an act of the user, and what then
   holds of the first one.
5. Algorithms against reference definitions over bounded inputs: `reconstruct` on
   lines and hunks with texts that have a lone carriage return, `status_from_xy`,
   template expansion.

### Not modelled

- Template expansion (`crates/zenops-expand`): a scan of a string, character by
  character, without state; what the models need of it, whether every variable is
  defined, is a set in `Conditions` and `Pkgs`.
- The text of shell, git and ssh configuration: pure functions from the config to
  lines, unit-tested, that no property here tells apart. Which files there are, when,
  and what fails a command is in `Pkgs`.
- The types and the macro of the safe relative paths: they carry a check from compile
  time or parsing to the use; the check is `IsSafe` and `Normalized` in `Layout`.
- The text of the schema, the completions and the release scripts: generated, or
  not part of the program that runs.
- The other tables of `config.toml`: `deep_merge` treats them as it treats
  `[conditions]`.
