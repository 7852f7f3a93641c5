--------------------------------- MODULE Pkgs ---------------------------------
(***************************************************************************)
(* What a command makes of its packages: Config::load (merge of the        *)
(* built-in and the user's config, src/src/config/mod.rs), the questions   *)
(* of PkgConfig (src/src/config/pkg/mod.rs), and the walks over the        *)
(* packages that report their health, list them, and register the files    *)
(* that the materialiser is to bring about.                                *)
(*                                                                         *)
(* A package is asked about several times in one command, and every        *)
(* question goes to the host again.  Conditions has the evaluation; its    *)
(* actions are steps of this specification.                                *)
(***************************************************************************)
EXTENDS Conditions, SequencesExt, FiniteSetsExt

CONSTANTS
  Configs,   \* the contents that config.toml may have
  Builtins,  \* the built-in [conditions], a table
  Orders,    \* the orders in which an IndexMap may have its keys
  Commands,  \* the commands that may be given
  Paths,     \* the paths that a file may be registered under
  Brew,      \* the probe of the Homebrew prefix
  BrewVar    \* ${brew_prefix}

VARIABLES
  user,      \* config.toml
  command,   \* the command, with its flags
  phase,     \* "load", "run" or "done"
  stage,     \* the walk over the packages under way, an index of Walks
  pkg,       \* the package it is at
  asking,    \* the question being answered, an index of Questions
  part,      \* "start", or the part of the package being evaluated
  taken,     \* the packages that this walk has collected
  visible,   \* the packages that `pkg` lists
  reports,   \* what was reported of which package
  files,     \* the files registered, an IndexMap from paths to who gave them
  outcome    \* how the command ended

pvars == <<user, command, phase, stage, pkg, asking, part, taken, visible, reports, files, outcome>>
vars == <<cvars, pvars>>

-----------------------------------------------------------------------------
(* Config::load.                                                           *)

\* Tables of the same name are joined; a value replaces what has its key.
DeepMerge(base, overlay) ==
  [n \in DOMAIN base \cup DOMAIN overlay |->
    IF n \notin DOMAIN base THEN overlay[n]
    ELSE IF n \notin DOMAIN overlay THEN base[n]
    ELSE overlay[n] @@ base[n]]

Merged(config) == DeepMerge(Builtins, config.conds)

\* Condition::deserialize wants a table of one kind.
Deserializes(table) == \A n \in DOMAIN table : \E kind \in DOMAIN table[n] : DOMAIN table[n] = {kind}

\* What the parser of the config sees to: conditions are conditions, and only a
\* `when`, a detect strategy or a child of a condition is a bare name.
ASSUME ConfigsParse ==
  /\ BrewVar \in Vars
  /\ {".zenops_bash_profile", ".zshenv", ".zprofile", ".zshrc",
      ".ssh/allowed_signers", ".gitconfig"} \subseteq Paths
  /\ Orders \subseteq Seq(Names)
  /\ \A c \in Configs :
       /\ \A n \in DOMAIN Merged(c) : \A kind \in DOMAIN Merged(c)[n] :
            /\ Merged(c)[n][kind] \in Exprs
            /\ Node[Merged(c)[n][kind]].kind # "ref"
       /\ c.shell \in {"none", "bash", "zsh"}
       /\ Len(c.pkgs) \in Nat
       /\ \A p \in 1..Len(c.pkgs) :
            /\ c.pkgs[p].when \in Exprs \cup {None}
            /\ c.pkgs[p].detect \in Exprs \cup {None}
            /\ c.pkgs[p].inputs \subseteq Vars
            /\ c.pkgs[p].unplaced \in BOOLEAN
            /\ c.pkgs[p].paths \in Seq(Paths)

Registry(table) ==
  [n \in Names |->
    IF n \in DOMAIN table /\ Deserializes(table)
    THEN table[n][CHOOSE kind \in DOMAIN table[n] : TRUE]
    ELSE None]

Stop(out) ==
  /\ phase' = "done"
  /\ outcome' = out
  /\ UNCHANGED <<user, command, stage, pkg, asking, part, taken, visible, reports, files>>

ParseFails ==
  /\ phase = "load"
  /\ ~Deserializes(Merged(user))
  /\ Stop("ParseDb")
  /\ UNCHANGED cvars

Compiles ==
  /\ phase = "load"
  /\ Deserializes(Merged(user))
  /\ Compile
  /\ UNCHANGED pvars

CompileFails ==
  /\ phase = "load"
  /\ verdict \in {"UnknownRef", "Cycle"}
  /\ Stop("CompileConditions")
  /\ UNCHANGED cvars

BrewProbeFails ==
  /\ phase = "load"
  /\ verdict = "accepted"
  /\ Stop("BrewProbeFailed")
  /\ UNCHANGED cvars

Loaded ==
  /\ phase = "load"
  /\ SystemInputs(IF host[Brew] THEN {BrewVar} ELSE {})
  /\ phase' = "run"
  /\ UNCHANGED <<user, command, stage, pkg, asking, part, taken, visible, reports, files, outcome>>

-----------------------------------------------------------------------------
(* The questions of PkgConfig.                                             *)

\* The shell's files are made of three walks, one for each stage of its start.
Walks ==
  CASE command.name = "pkg" -> <<"visible", "state">>
    [] command.name # "pkg" /\ user.shell = "none" -> <<"health", "configs">>
    [] OTHER -> <<"health", "env", "login", "interactive", "configs">>

Stage == Walks[stage]

Questions ==
  CASE Stage = "health" -> <<"missing", "matches">>
    [] Stage = "visible" -> <<"relevant">>
    [] Stage = "state" -> IF command.verbose THEN <<"installed", "matched">> ELSE <<"installed">>
    [] OTHER -> <<"installed">>

Question == Questions[asking]
Pkg == user.pkgs[pkg]

\* Mutant: every package is checked, also one that is enabled by its detect.
DismissedNever ==
  \/ Question = "relevant" /\ Pkg.enable = "disabled" /\ ~command.all
  \/ Stage = "state" /\ pkg \notin visible
  \/ Stage = "state" /\ Question = "installed" /\ Pkg.enable = "disabled"

\* The package is answered for before its `when` is looked at.
Dismissed ==
  \/ Question \in {"missing", "matches"} /\ Pkg.enable # "on"
  \/ Question = "relevant" /\ Pkg.enable = "disabled" /\ ~command.all
  \/ Stage = "state" /\ pkg \notin visible
  \/ Stage = "state" /\ Question = "installed" /\ Pkg.enable = "disabled"

\* Mutant: the first declaration of a path wins.
InsertFirst(fs, path, owner) ==
  IF \E k \in 1..Len(fs) : fs[k].path = path
  THEN fs
  ELSE Append(fs, [path |-> path, owner |-> owner])

\* IndexMap::insert: a path keeps its place and gets its last owner.
Insert(fs, path, owner) ==
  IF \E k \in 1..Len(fs) : fs[k].path = path
  THEN [k \in 1..Len(fs) |-> IF fs[k].path = path THEN [fs[k] EXCEPT !.owner = owner] ELSE fs[k]]
  ELSE Append(fs, [path |-> path, owner |-> owner])

InsertAll(fs, paths, owner) ==
  LET upto[k \in 0..Len(paths)] ==
        IF k = 0 THEN fs ELSE Insert(upto[k - 1], paths[k], owner)
  IN  upto[Len(paths)]

NextPkg == pkg' = pkg + 1 /\ asking' = 1 /\ part' = "start"

NextQuestion == pkg' = pkg /\ asking' = asking + 1 /\ part' = "start"

\* What the caller does with the answer to its question.
Proceeds(yes) ==
  /\ IF asking < Len(Questions) /\ ~(Question = "missing" /\ yes)
     THEN NextQuestion ELSE NextPkg
  /\ reports' = IF yes /\ Question \notin {"relevant", "matched"} /\ Stage \in {"health", "state"}
               THEN reports \cup {<<pkg, Question>>} ELSE reports
  /\ visible' = IF yes /\ Stage = "visible" THEN visible \cup {pkg} ELSE visible
  /\ taken' = IF yes /\ Pkg.hook # None /\ Pkg.hook.stage = Stage THEN taken \cup {pkg} ELSE taken
  /\ files' = IF yes /\ Stage = "configs" THEN InsertAll(files, Pkg.paths, pkg) ELSE files
  /\ UNCHANGED <<user, command, phase, stage, outcome>>

\* A `.config` entry without a name is placed by the package's key, which need
\* not be a path component; the files are lost with the command.
Answer(yes) ==
  IF yes /\ Stage = "configs" /\ Pkg.unplaced THEN Stop("SafeRelativePath") ELSE Proceeds(yes)

\* The `when` has let the package through.
AskDetect ==
  IF Question = "relevant" THEN Answer(TRUE) /\ UNCHANGED cvars
  ELSE IF Pkg.enable = "disabled" THEN Answer(FALSE) /\ UNCHANGED cvars
  ELSE IF Pkg.detect = None THEN Answer(Question = "installed") /\ UNCHANGED cvars
  ELSE /\ Ask(Pkg.detect, Pkg.inputs)
       /\ part' = "detect"
       /\ UNCHANGED <<user, command, phase, stage, pkg, asking, taken, visible, reports, files, outcome>>

InWalk == phase = "run" /\ stage <= Len(Walks) /\ pkg <= Len(user.pkgs)

StartQuestion ==
  /\ InWalk /\ part = "start"
  /\ IF Dismissed THEN Answer(FALSE) /\ UNCHANGED cvars
     ELSE IF Pkg.when = None THEN AskDetect
     ELSE /\ Ask(Pkg.when, {})
          /\ part' = "when"
          /\ UNCHANGED <<user, command, phase, stage, pkg, asking, taken, visible, reports, files, outcome>>

Answered(parts) == InWalk /\ part \in parts /\ stack = <<>>

WhenAnswered ==
  /\ Answered({"when"}) /\ value \in {"yes", "no"}
  /\ IF value = "yes" THEN AskDetect ELSE Answer(FALSE) /\ UNCHANGED cvars

DetectAnswered ==
  /\ Answered({"detect"}) /\ value \in {"yes", "no"}
  /\ Answer(IF Question = "missing" THEN value = "no" ELSE value = "yes")
  /\ UNCHANGED cvars

EvaluationFails ==
  /\ Answered({"when", "detect"}) /\ value \in Errors
  /\ Stop(value)
  /\ UNCHANGED cvars

Evaluates ==
  /\ InWalk /\ part \in {"when", "detect"}
  /\ Evaluate
  /\ UNCHANGED pvars

-----------------------------------------------------------------------------
(* The ends of the walks: what is registered for the shell, ssh and git.   *)

\* Rendering the actions of this walk meets a variable that nothing defines.
Unresolved ==
  \E p \in taken :
    /\ ~user.pkgs[p].hook.optional
    /\ user.pkgs[p].hook.var \notin {None} \cup system \cup user.pkgs[p].inputs

\* The shell's files, each when the walk that it is made of ends.
ShellFiles ==
  CASE user.shell = "bash" /\ Stage = "interactive" -> <<".zenops_bash_profile">>
    [] user.shell = "zsh" /\ Stage = "env" -> <<".zshenv">>
    [] user.shell = "zsh" /\ Stage = "login" /\ taken # {} -> <<".zprofile">>
    [] user.shell = "zsh" /\ Stage = "interactive" -> <<".zshrc">>
    [] OTHER -> <<>>

\* ssh and git come between the shell and the packages.
SourceFiles ==
  IF stage = Len(Walks) - 1 /\ command.name # "pkg"
  THEN (IF user.ssh = "none" THEN <<>> ELSE <<".ssh/allowed_signers">>)
       \o (IF user.git THEN <<".gitconfig">> ELSE <<>>)
  ELSE <<>>

WalkEnd == phase = "run" /\ stage <= Len(Walks) /\ pkg > Len(user.pkgs)

EndWalk ==
  /\ WalkEnd /\ ~Unresolved
  /\ files' = InsertAll(files, ShellFiles \o SourceFiles, 0)
  /\ stage' = stage + 1 /\ pkg' = 1 /\ taken' = {}
  /\ UNCHANGED <<cvars, user, command, phase, asking, part, visible, reports, outcome>>

RenderFails ==
  /\ WalkEnd /\ Unresolved
  /\ Stop("UnresolvedInput")
  /\ UNCHANGED cvars

\* curl is not there, or GitHub does not answer.
SshFails ==
  /\ WalkEnd /\ ~Unresolved
  /\ user.ssh = "github" /\ SourceFiles # <<>>
  /\ Stop("Ssh")
  /\ UNCHANGED cvars

\* pkg_manager::detect, before the first walk.
ManagerFails ==
  /\ phase = "run" /\ stage = 1 /\ pkg = 1 /\ asking = 1 /\ part = "start"
  /\ Stop("Which")
  /\ UNCHANGED cvars

Finish ==
  /\ phase = "run" /\ stage > Len(Walks)
  /\ Stop("ok")
  /\ UNCHANGED cvars

-----------------------------------------------------------------------------
Init ==
  /\ user \in Configs
  /\ command \in Commands
  /\ byName = Registry(Merged(user))
  /\ keys \in Orders
  /\ ToSet(keys) = {n \in Names : Known(n)}
  /\ CStart
  /\ phase = "load" /\ outcome = "none"
  /\ stage = 1 /\ pkg = 1 /\ asking = 1 /\ part = "start"
  /\ taken = {} /\ visible = {} /\ reports = {} /\ files = <<>>

Step ==
  \/ ParseFails \/ Compiles \/ CompileFails \/ BrewProbeFails \/ Loaded
  \/ ManagerFails \/ StartQuestion \/ Evaluates \/ WhenAnswered \/ DetectAnswered
  \/ EvaluationFails \/ EndWalk \/ RenderFails \/ SshFails \/ Finish

\* Nothing reads the host before the first question but Loaded; a change before
\* that is another host to start on.
EnvHostChanges == phase = "run" /\ HostChanges /\ UNCHANGED pvars

Next == Step \/ EnvHostChanges

Spec == Init /\ [][Next]_vars
FairSpec == Spec /\ WF_vars(Step)

-----------------------------------------------------------------------------
(* What is checked.                                                        *)

\* What is true of the packages on a host that stands still.
Relevant(p) == user.pkgs[p].when = None \/ Meaning({})[user.pkgs[p].when] = "yes"
Detected(p) == user.pkgs[p].detect = None \/ Meaning(user.pkgs[p].inputs)[user.pkgs[p].detect] = "yes"
Installed(p) == user.pkgs[p].enable # "disabled" /\ Relevant(p) /\ Detected(p)
Expected(p) == user.pkgs[p].enable = "on" /\ Relevant(p) /\ user.pkgs[p].detect # None

\* What a host can make of the packages that are installed.
Enabled == {p \in 1..Len(user.pkgs) : user.pkgs[p].enable # "disabled"}
Unconditional == {p \in Enabled : user.pkgs[p].when = None /\ user.pkgs[p].detect = None}
InstalledPkgs == {p \in 1..Len(user.pkgs) : Installed(p)}

HookedIn(T, s) == \E p \in T : user.pkgs[p].hook # None /\ user.pkgs[p].hook.stage = s

\* The files that the config asks for, in the order of config/mod.rs:284, when T
\* are the packages with a say in the login shell.
Generated(T) ==
  (CASE user.shell = "none" -> <<>>
     [] user.shell = "bash" -> <<".zenops_bash_profile">>
     [] user.shell = "zsh" ->
          <<".zshenv">> \o (IF HookedIn(T, "login") THEN <<".zprofile">> ELSE <<>>) \o <<".zshrc">>)
  \o (IF user.ssh = "none" THEN <<>> ELSE <<".ssh/allowed_signers">>)
  \o (IF user.git THEN <<".gitconfig">> ELSE <<>>)

Owned(paths, owner) == [k \in 1..Len(paths) |-> [path |-> paths[k], owner |-> owner]]

Contributed(p, S) == IF p \in S THEN Owned(user.pkgs[p].paths, p) ELSE <<>>

\* What is declared by the packages of S, and for the login shell by those of T.
Declared(S, T) ==
  Owned(Generated(T), 0) \o FlattenSeq([p \in 1..Len(user.pkgs) |-> Contributed(p, S)])

IsFirst(ds, d) == \A c \in 1..(d - 1) : ds[c].path # ds[d].path
IsLast(ds, d) == \A e \in (d + 1)..Len(ds) : ds[e].path # ds[d].path

\* fs has each path that ds declares once, where ds has it first, as ds has it last.
Tabulates(fs, ds) ==
  /\ \A d \in 1..Len(ds) : \E k \in 1..Len(fs) : fs[k].path = ds[d].path
  /\ \A k \in 1..Len(fs) : \E d \in 1..Len(ds) : IsLast(ds, d) /\ fs[k] = ds[d]
  /\ \A j, k \in 1..Len(fs) : \A c, d \in 1..Len(ds) :
       /\ j < k
       /\ IsFirst(ds, c) /\ ds[c].path = fs[j].path
       /\ IsFirst(ds, d) /\ ds[d].path = fs[k].path
       => c < d

\* A command registers what its config declares for the packages that are
\* installed: each path once, at the place of its first declaration, for the last
\* (config/mod.rs:284, config_files/mod.rs:257).  The host is asked anew by each
\* walk, so those that had a say in the login shell, T, and those whose paths
\* were taken, S, can differ when it changes in between; neither ever has a
\* disabled package, or lacks one that is enabled without conditions.
\* A package's paths are those it lists as `symlinks`: pkg_config_files.rs:24 has
\* no other, although docs/config.md:352 says that "every other file under
\* `source` is copied as a generated file".
Registered ==
  phase = "done" /\ outcome = "ok" /\ command.name # "pkg" =>
    \E S, T \in SUBSET Enabled :
      /\ Unconditional \subseteq S \cap T
      /\ events = 0 => S = InstalledPkgs /\ T = InstalledPkgs
      /\ Tabulates(files, Declared(S, T))

\* On a host that stands still, the health report names every package that is
\* expected here and has a detect, once, as it is (config/mod.rs:343), and
\* the list shows the installed ones among those that are relevant.  A package
\* without detect is not reported: pkg/mod.rs:170 and tests/apply.rs:322 want it
\* silent, against config/mod.rs:336, "or when there's no detect to check".
Reported ==
  phase = "done" /\ outcome = "ok" /\ events = 0 =>
    reports =
      IF command.name = "pkg"
      THEN {<<p, "installed">> : p \in {q \in 1..Len(user.pkgs) : Installed(q)}}
      ELSE {<<p, IF Detected(p) THEN "matches" ELSE "missing">> :
              p \in {q \in 1..Len(user.pkgs) : Expected(q)}}

\* A command ends, whatever the conditions refer to.
Ends == <>(phase = "done")
==============================================================================
