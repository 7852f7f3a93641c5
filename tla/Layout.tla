------------------------------- MODULE Layout -------------------------------
(***************************************************************************)
(* Where an import lands: how `zenops import <path>` reads config.toml,    *)
(* finds the entry that manages the path or lays out a new one, shows its  *)
(* plan, and rewrites the document (src/src/import/mod.rs), against what   *)
(* `zenops apply` makes of that document (config/pkg_config_files.rs).     *)
(*                                                                         *)
(* A path is a sequence of names.  The directories of $HOME are there      *)
(* throughout.  The passes over the files are module Import's: here a pass *)
(* that fails has undone what it undoes there.  Between commands the user  *)
(* changes $HOME; config.toml may change while the prompt waits.           *)
(***************************************************************************)
EXTENDS Integers, SequencesExt

CONSTANTS
  Order,    \* the files below $HOME, in the order of walk_dir
  Keys,     \* package keys
  Undotted, \* a dotfile's name without its dot
  Docs,     \* the documents that the user or a pull may put in place
  Requests, \* what an import is asked for
  Default,  \* no --source
  MaxRuns, MaxEdits, MaxFaults

Paths == ToSet(Order)

\* The sequence s without the members of S.
Without(s, S) == FlattenSeq([i \in DOMAIN s |-> IF s[i] \in S THEN <<>> ELSE <<s[i]>>])

ASSUME BoundsNat == MaxRuns \in Nat /\ MaxEdits \in Nat /\ MaxFaults \in Nat

\* The shapes a parsed config.toml can have; `lists` are the possible arrays.
\* The names that import itself writes are spelled out: the provers do not know
\* which strings are in STRING.
Words == STRING \cup {".config", "configs", ""}
PathNames == Seq(Words)
Entries(lists) == [type : {".config", "home"}, name : Words, dir : PathNames,
                   source : PathNames, symlinks : lists]
Blocks(lists) == [form : {"absent", "table", "inline"}, hint : BOOLEAN,
                  configs : {"none", "tables", "array"}, entries : Seq(Entries(lists))]
Documents(lists) == [form : {"table", "inline"}, pkg : [Keys -> Blocks(lists)]]

NothingInNothing(d) ==
  \A k \in Keys :
    d.pkg[k].form = "absent" \/ d.pkg[k].configs = "none" => d.pkg[k].entries = <<>>

ASSUME DocsParse ==
  Docs \subseteq Documents(Seq(PathNames)) /\ \A d \in Docs : NothingInNothing(d)

\* Keys are single components of a path.
ASSUME KeysAreNames == Keys \cap {"", ".", "..", "/"} = {}

ASSUME OrderTyped == Order \in Seq(PathNames)

ASSUME RequestsTyped ==
  /\ Keys \subseteq Words
  /\ \A r \in Requests :
       /\ r.path \in PathNames /\ \A i \in DOMAIN r.path : r.path[i] # ""
       /\ r.source \in PathNames

VARIABLES
  home,    \* home[p]: no entry, a regular file, or a link into the repository
  repo,    \* the files of the repository
  doc,     \* config.toml
  run,     \* the running import: its stage, its plan and the document it read
  outcome, \* how the last import ended
  adopted, \* history: paths that an import took over, see WriteToml
  touched, \* history: this import has changed $HOME or the repository
  runs, edits, faults \* counters for the bounds

disk == <<home, repo, doc>>
vars == <<disk, run, outcome, adopted, touched, runs, edits, faults>>

None == [kind |-> "none", to |-> <<>>]
File == [kind |-> "file", to |-> <<>>]
Link(t) == [kind |-> "link", to |-> t]

-----------------------------------------------------------------------------
(* The document                                                            *)

\* [form, pkg]: the [pkg] table and a block for every key.  A block, and its
\* configs, may be written as tables or inline; import sees tables only.
Visible(d, k) ==
  IF d.form = "table" /\ d.pkg[k].form = "table" /\ d.pkg[k].configs = "tables"
    THEN d.pkg[k].entries ELSE <<>>

BlockExists(d, k) == d.form = "table" /\ d.pkg[k].form # "absent"

\* Paths of the document: `..` is refused, `.` falls out.
IsSafe(path) == ".." \notin ToSet(path) /\ "/" \notin ToSet(path)
Normalized(path) == Without(path, {"."})

\* What apply links, from a document that loads: every block has its install
\* hint, every path is safe.
Loads(d) ==
  \A k \in Keys : d.pkg[k].form # "absent" =>
    d.pkg[k].hint /\ \A i \in DOMAIN d.pkg[k].entries : IsSafe(d.pkg[k].entries[i].source)

DirOf(k, e) ==
  IF e.type = ".config" THEN <<".config", IF e.name = "" THEN k ELSE e.name>> ELSE e.dir

ClaimsOf(k, e) ==
  {[path |-> DirOf(k, e) \o s, to |-> Normalized(e.source) \o s] : s \in ToSet(e.symlinks)}

Claims(d) ==
  IF Loads(d)
    THEN UNION {UNION {ClaimsOf(k, d.pkg[k].entries[i]) : i \in DOMAIN d.pkg[k].entries} : k \in Keys}
    ELSE {}

-----------------------------------------------------------------------------
(* Which entry manages a path                                              *)

\* Mutant: the override of the directory is forgotten.
RootByKey(k, e) == IF e.type = ".config" THEN <<".config", k>> ELSE e.dir

\* The on-disk root; the entry of a single file at $HOME has none.
RootOf(k, e) ==
  IF e.type = ".config" THEN <<".config", IF e.name # "" THEN e.name ELSE k>> ELSE e.dir

\* Mutant: the index counts only the entries that have a root.
SlotsCounted(d) ==
  LET Rooted(k) == LET HasRoot(e) == RootOf(k, e) # <<>> IN SelectSeq(Visible(d, k), HasRoot) IN
    UNION {{[key |-> k, index |-> i, entry |-> Rooted(k)[i]] : i \in DOMAIN Rooted(k)} : k \in Keys}

\* The entries that the matching walks over, each at its index.
Slots(d) == UNION {{[key |-> k, index |-> i, entry |-> Visible(d, k)[i]] :
                      i \in DOMAIN Visible(d, k)} : k \in Keys}

SlotRoot(slot) == RootOf(slot.key, slot.entry)

\* find_managed_root, find_matching_config
Managing(d, tail) == {slot \in Slots(d) : SlotRoot(slot) # <<>> /\ SlotRoot(slot) = tail}
Above(d, tail) == {slot \in Slots(d) : SlotRoot(slot) # <<>> /\ IsStrictPrefix(SlotRoot(slot), tail)}
Nearest(d, tail) ==
  {slot \in Above(d, tail) : \A s \in Above(d, tail) : Len(SlotRoot(s)) <= Len(SlotRoot(slot))}

-----------------------------------------------------------------------------
(* The plan                                                                *)

Zenops == <<".config", "zenops">>
Vcs == {".git", ".hg", ".svn"}

IsDir(tail) == \E p \in Paths : IsStrictPrefix(tail, p)
Rel(root, p) == SubSeq(p, Len(root) + 1, Len(p))
At(root, rel) == IF root \o rel \in Paths THEN home[root \o rel] ELSE None

\* walk_dir: what is of a kind below root, outside of VCS directories.
Walked(root, kind) ==
  LET Met(p) ==
        /\ IsStrictPrefix(root, p) /\ home[p].kind = kind
        /\ \A i \in (Len(root) + 1)..(Len(p) - 1) : p[i] \notin Vcs IN
    FlattenSeq([i \in DOMAIN Order |-> IF Met(Order[i]) THEN <<Rel(root, Order[i])>> ELSE <<>>])

InRepo(dest, rels) == \E i \in DOMAIN rels : dest \o rels[i] \in repo

NoEntry == [type |-> "none", name |-> "", dir |-> <<>>, source |-> <<>>, symlinks |-> <<>>]
NoPlan == [mode |-> "none", key |-> "none", index |-> 0, root |-> <<>>, dest |-> <<>>,
           entry |-> NoEntry, files |-> <<>>, renamed |-> <<>>, removed |-> <<>>,
           existing |-> <<>>, added |-> <<>>, dropped |-> <<>>, created |-> FALSE, brew |-> FALSE]

\* classify, derive_pkg_key and build_plan for a path that no entry manages.
InConfig(tail) == Len(tail) >= 2 /\ tail[1] = ".config"
AtHome(tail) == Len(tail) = 1 /\ tail[1] \in DOMAIN Undotted

NewKey(r) ==
  CASE r.pkg # "" -> r.pkg
    [] r.pkg = "" /\ InConfig(r.path) -> r.path[2]
    [] OTHER -> Undotted[r.path[1]]

NewRoot(tail) == IF InConfig(tail) THEN SubSeq(tail, 1, 2) ELSE IF IsDir(tail) THEN tail ELSE <<>>
NewFiles(tail) ==
  IF IsDir(tail) THEN Walked(tail, "file") ELSE <<Rel(NewRoot(tail), tail)>>
NewSource(r) == IF r.source = Default THEN <<"configs", NewKey(r)>> ELSE r.source

NewRefused(d, r) ==
  \/ ~InConfig(r.path) /\ ~AtHome(r.path)
  \/ NewKey(r) \notin Keys
  \/ Visible(d, NewKey(r)) # <<>>
  \/ InConfig(r.path) /\ (Len(r.path) = 2) # IsDir(r.path)
  \/ NewFiles(r.path) = <<>>
  \/ InRepo(Normalized(NewSource(r)), NewFiles(r.path))

NewEntry(r) ==
  LET root == NewRoot(r.path) IN
    [type     |-> IF InConfig(r.path) THEN ".config" ELSE "home",
     name     |-> IF InConfig(r.path) /\ root[2] # NewKey(r) THEN root[2] ELSE "",
     dir      |-> IF InConfig(r.path) THEN <<>> ELSE root,
     source   |-> NewSource(r),
     symlinks |-> NewFiles(r.path)]

NewPlan(d, r) ==
  [NoPlan EXCEPT !.mode = "new", !.key = NewKey(r), !.root = NewRoot(r.path),
     !.dest = Normalized(NewSource(r)), !.entry = NewEntry(r), !.files = NewFiles(r.path),
     !.created = ~BlockExists(d, NewKey(r)),
     !.brew = ~r.noHint /\ (r.brew # "none" \/ ~BlockExists(d, NewKey(r)))]

\* build_extend_plan
PlanIn(slot) ==
  [NoPlan EXCEPT !.key = slot.key, !.index = slot.index, !.root = SlotRoot(slot),
     !.dest = Normalized(slot.entry.source), !.existing = slot.entry.symlinks]

ExtendRefused(slot, tail) ==
  IsDir(tail) \/ InRepo(PlanIn(slot).dest, <<Rel(SlotRoot(slot), tail)>>)

ExtendPlan(slot, tail) ==
  LET rel == Rel(SlotRoot(slot), tail) IN
    [PlanIn(slot) EXCEPT !.mode = "extend", !.files = <<rel>>,
       !.added = IF rel \in ToSet(slot.entry.symlinks) THEN <<>> ELSE <<rel>>]

\* build_reconcile_plan
NewBelow(slot) == Without(Walked(SlotRoot(slot), "file"), ToSet(slot.entry.symlinks))

ReconcileRefused(slot, tail) == ~IsDir(tail) \/ InRepo(PlanIn(slot).dest, NewBelow(slot))

Froms(renames) == {renames[i].from : i \in DOMAIN renames}
Tos(renames) == [i \in DOMAIN renames |-> renames[i].to]

\* A link the user moved: the first one met leads to a listed file, under a
\* path that is not listed.
Renames(slot) ==
  LET p == PlanIn(slot)
      links == Walked(p.root, "link")
      listed == ToSet(p.existing)
      Target(i) == At(p.root, links[i]).to
      From(i) == Rel(p.dest, Target(i))
      Moved(i) ==
        /\ IsPrefix(p.dest, Target(i)) /\ From(i) # links[i]
        /\ links[i] \notin listed /\ From(i) \in listed
      First(i) == \A j \in 1..(i - 1) : ~(Moved(j) /\ From(j) = From(i)) IN
    FlattenSeq([i \in DOMAIN links |->
      IF Moved(i) /\ First(i) THEN <<[from |-> From(i), to |-> links[i]]>> ELSE <<>>])

ReconcilePlan(slot) ==
  LET renames == Renames(slot)
      listed == ToSet(slot.entry.symlinks)
      gone == Without(slot.entry.symlinks,
                      Froms(renames) \cup {rel \in listed : At(SlotRoot(slot), rel) # None}) IN
    [PlanIn(slot) EXCEPT !.mode = "reconcile", !.files = NewBelow(slot), !.renamed = renames,
       !.removed = gone, !.added = NewBelow(slot) \o Tos(renames),
       !.dropped = gone \o [i \in DOMAIN renames |-> renames[i].from]]

IsNoop(p) ==
  p.mode = "reconcile" /\ p.files = <<>> /\ p.renamed = <<>> /\ p.removed = <<>>
  /\ p.added = <<>> /\ p.dropped = <<>>

\* run, run_with_prompter and build_plan: whatever is refused changes nothing.
FlagsRefused(r) ==
  \/ r.mode = "pipe"
  \/ r.brew = "empty"
  \/ r.source # Default /\ ~IsSafe(r.source)

SourceRefused(r) ==
  \/ IsPrefix(Zenops, r.path)
  \/ ~IsDir(r.path) /\ (r.path \notin Paths \/ home[r.path] # File)

ExtendFlags(r) == r.pkg # "" \/ r.source # Default \/ r.brew # "none" \/ r.noHint

HintRefused(d, r) ==
  ~BlockExists(d, NewKey(r)) /\ r.brew = "none" /\ ~r.noHint /\ r.mode # "terminal"

Refused(d, r) ==
  \/ FlagsRefused(r) \/ SourceRefused(r)
  \/ LET managing == Managing(d, r.path)
         nearest == Nearest(d, r.path) IN
       CASE managing # {} ->
              \/ Cardinality(managing) > 1 \/ ExtendFlags(r)
              \/ \E slot \in managing : ReconcileRefused(slot, r.path)
         [] managing = {} /\ nearest # {} ->
              \/ Cardinality(nearest) > 1 \/ ExtendFlags(r)
              \/ \E slot \in nearest : ExtendRefused(slot, r.path)
         [] OTHER -> NewRefused(d, r) \/ HintRefused(d, r)

PlansFor(d, r) ==
  LET managing == Managing(d, r.path)
      nearest == Nearest(d, r.path) IN
    CASE managing # {} -> {ReconcilePlan(slot) : slot \in managing}
      [] managing = {} /\ nearest # {} -> {ExtendPlan(slot, r.path) : slot \in nearest}
      [] OTHER -> {NewPlan(d, r)}

\* render_symlinks_array_preview, render_configs_entry_preview: the array that
\* the plan event shows.
Preview(p) ==
  IF p.mode = "new" THEN p.entry.symlinks ELSE Without(p.existing, ToSet(p.dropped)) \o p.added

-----------------------------------------------------------------------------
(* What the plan does to the files, and to the document                    *)

Move(kind, at, from, to) == [kind |-> kind, at |-> at, from |-> from, to |-> to]

Moves(p) ==
  [i \in DOMAIN p.files |->
     Move("adopt", p.root \o p.files[i], <<>>, p.dest \o p.files[i])] \o
  [i \in DOMAIN p.renamed |->
     Move("rename", p.root \o p.renamed[i].to, p.dest \o p.renamed[i].from,
          p.dest \o p.renamed[i].to)] \o
  [i \in DOMAIN p.removed |->
     Move("remove", <<>>, p.dest \o p.removed[i], <<>>)]

Possible(s, m) == m.kind = "rename" => m.from \in s.repo

\* The disk after the first n moves; a pass over new files is undone as a whole.
\* No move undoes another: what is taken away was listed, what is put in place
\* was not.
AfterMoves(p, n) ==
  LET made == IF n < Len(p.files) THEN {} ELSE {Moves(p)[i] : i \in 1..n}
      links == {m \in made : m.kind # "remove"}
      taken == {m.from : m \in {m \in made : m.kind # "adopt"}} IN
    [home |-> [q \in Paths |-> IF \E m \in links : m.at = q
                                THEN Link((CHOOSE m \in links : m.at = q).to) ELSE home[q]],
     repo |-> (repo \ taken) \cup {m.to : m \in links}]

\* Mutant: the hint is written only when a package was named.
HintIfNamed(block, p) == block.hint \/ p.brew

\* populate_install_hint: a new block always has its packages array.
HintAfter(block, p) == block.hint \/ p.created

\* Mutant: what follows a dropped path in the array is passed over.
TrimmedSkippingOne(array, dropped) ==
  LET Drop(i) == array[i] \in ToSet(dropped) /\ (i = 1 \/ array[i - 1] \notin ToSet(dropped))
      Stays(i) == ~Drop(i)
      kept == SelectSeq([i \in 1..Len(array) |-> i], Stays) IN
    [j \in 1..Len(kept) |-> array[kept[j]]]

\* remove_symlinks_from_configs_entry
Trimmed(array, dropped) == Without(array, ToSet(dropped))

\* update_doc
Updated(d, p) ==
  IF p.mode = "new"
    THEN [d EXCEPT !.pkg[p.key] =
            [form |-> "table", hint |-> HintAfter(@, p), configs |-> "tables",
             entries |-> Append(@.entries, p.entry)]]
    ELSE [d EXCEPT !.pkg[p.key].entries[p.index].symlinks = Trimmed(@ \o p.added, p.dropped)]

\* update_doc expects tables where build_plan has taken anything else for
\* nothing.
Panics(d, p) ==
  p.mode = "new" /\
    (d.form = "inline" \/ d.pkg[p.key].form = "inline" \/ d.pkg[p.key].configs = "array")

-----------------------------------------------------------------------------
(* The steps                                                               *)

NoDoc == [form |-> "none", pkg |-> <<>>]
Idle == [stage |-> "idle", plan |-> NoPlan, read |-> NoDoc, preview |-> <<>>]

ClaimedLinks(d, p) == {Link(c.to) : c \in {c \in Claims(d) : c.path = p}}
Targets(d) == {c.to : c \in Claims(d)}

Init ==
  /\ doc \in Docs
  /\ repo = Targets(doc)
  /\ home \in [Paths -> {None, File} \cup {Link(t) : t \in Targets(doc)}]
  /\ \A p \in Paths : home[p] \in IF ClaimedLinks(doc, p) = {} THEN {File}
                                  ELSE {None, File} \cup ClaimedLinks(doc, p)
  /\ run = Idle
  /\ outcome = "none"
  /\ adopted = {}
  /\ touched = FALSE
  /\ runs = 0 /\ edits = 0 /\ faults = 0

Ends(how) == run' = Idle /\ outcome' = how

\* A run that is refused, or that Ctrl-C ends at its question for packages.
Refuse(r) ==
  /\ run.stage = "idle" /\ runs < MaxRuns
  /\ ~Refused(doc, r) => r.mode = "terminal"
  /\ Ends("refused")
  /\ runs' = runs + 1
  /\ touched' = FALSE
  /\ UNCHANGED <<disk, adopted, edits, faults>>

\* The plan event; a dry run, and a plan with nothing to do, end with it.
Propose(r) ==
  /\ run.stage = "idle" /\ runs < MaxRuns
  /\ ~Refused(doc, r)
  /\ \E p \in PlansFor(doc, r) :
       IF r.mode = "dry" \/ IsNoop(p)
         THEN Ends(IF r.mode = "dry" THEN "planned" ELSE "synced")
         ELSE /\ run' = [stage |-> IF r.mode = "yes" THEN "apply" ELSE "prompt",
                         plan |-> p, read |-> doc, preview |-> Preview(p)]
              /\ UNCHANGED outcome
  /\ runs' = runs + 1
  /\ touched' = FALSE
  /\ UNCHANGED <<disk, adopted, edits, faults>>

Confirm ==
  /\ run.stage = "prompt"
  /\ \/ run' = [run EXCEPT !.stage = "apply"] /\ UNCHANGED outcome
     \/ Ends("aborted")
  /\ UNCHANGED <<disk, adopted, touched, runs, edits, faults>>

\* apply_files
ApplyFiles ==
  /\ run.stage = "apply"
  /\ \E n \in 0..Len(Moves(run.plan)) :
       LET s == AfterMoves(run.plan, n)
           all == n = Len(Moves(run.plan))
           stuck == ~all /\ ~Possible(s, Moves(run.plan)[n + 1]) IN
         /\ \A i \in 1..n : Possible(AfterMoves(run.plan, i - 1), Moves(run.plan)[i])
         /\ home' = s.home /\ repo' = s.repo
         /\ touched' = (s # [home |-> home, repo |-> repo])
         /\ IF all
              THEN run' = [run EXCEPT !.stage = "write"] /\ UNCHANGED <<outcome, faults>>
              ELSE /\ Ends("failed")
                   /\ stuck \/ faults < MaxFaults
                   /\ faults' = IF stuck THEN faults ELSE faults + 1
  /\ UNCHANGED <<doc, adopted, runs, edits>>

TakenOver(p) ==
  {p.root \o p.files[i] : i \in DOMAIN p.files} \cup
  {p.root \o p.renamed[i].to : i \in DOMAIN p.renamed}

\* No other link leads to the same file: a second one counts as a move of it.
IsSole(p) == \A q \in Paths \ {p} : home[q] # home[p]

\* `adopted` gets the paths taken over by a config.toml that loads, and keeps
\* them until the user changes the path or another document comes.
WriteToml ==
  /\ run.stage = "write"
  /\ ~Panics(run.read, run.plan)
  /\ doc' = Updated(run.read, run.plan)
  /\ adopted' = adopted \cup {p \in TakenOver(run.plan) : Loads(run.read) /\ IsSole(p)}
  /\ Ends("done")
  /\ UNCHANGED <<home, repo, touched, runs, edits, faults>>

WriteFails ==
  /\ run.stage = "write"
  /\ ~Panics(run.read, run.plan)
  /\ faults < MaxFaults
  /\ faults' = faults + 1
  /\ Ends("failed")
  /\ UNCHANGED <<disk, adopted, touched, runs, edits>>

UpdatePanics ==
  /\ run.stage = "write"
  /\ Panics(run.read, run.plan)
  /\ Ends("panicked")
  /\ UNCHANGED <<disk, adopted, touched, runs, edits, faults>>

EditHome(p, entry) ==
  /\ run.stage = "idle" /\ edits < MaxEdits
  /\ home[p] # entry
  /\ home' = [home EXCEPT ![p] = entry]
  /\ adopted' = adopted \ {p}
  /\ edits' = edits + 1
  /\ UNCHANGED <<repo, doc, run, outcome, touched, runs, faults>>

MoveLink(p, q) ==
  /\ run.stage = "idle" /\ edits < MaxEdits
  /\ home[p].kind = "link" /\ home[q] = None
  /\ home' = [home EXCEPT ![p] = None, ![q] = home[p]]
  /\ adopted' = adopted \ {p, q}
  /\ edits' = edits + 1
  /\ UNCHANGED <<repo, doc, run, outcome, touched, runs, faults>>

\* The user, or a pull, puts another document in place, with its files.
Replace(d) ==
  /\ run.stage \in {"idle", "prompt"} /\ edits < MaxEdits
  /\ d # doc
  /\ doc' = d
  /\ repo' = repo \cup Targets(d)
  /\ adopted' = {}
  /\ edits' = edits + 1
  /\ UNCHANGED <<home, run, outcome, touched, runs, faults>>

Next ==
  \/ \E r \in Requests : Refuse(r) \/ Propose(r)
  \/ Confirm \/ ApplyFiles \/ WriteToml \/ WriteFails \/ UpdatePanics
  \/ \E p \in Paths : \E entry \in {None, File} : EditHome(p, entry)
  \/ \E p, q \in Paths : MoveLink(p, q)
  \/ \E d \in Docs : Replace(d)

Spec == Init /\ [][Next]_vars
-----------------------------------------------------------------------------
(* Properties                                                              *)

\* No entry keeps its files at or below the place of another one.
Apart(d) ==
  \A k, l \in Keys : \A i \in DOMAIN d.pkg[k].entries, j \in DOMAIN d.pkg[l].entries :
    IsPrefix(Normalized(d.pkg[k].entries[i].source), Normalized(d.pkg[l].entries[j].source))
      => k = l /\ i = j

\* What an import took over, and nobody changed since, stays a link to a file
\* of the repository that `zenops apply` would make from config.toml as it is,
\* whatever imports follow, are refused, fail or panic on the way.
AdoptedStays ==
  Apart(doc) => \A p \in adopted :
    /\ home[p].kind = "link" /\ home[p].to \in repo
    /\ [path |-> p, to |-> home[p].to] \in Claims(doc)

RootsOnce(d) ==
  \A s, t \in Slots(d) :
    LET dir == DirOf(s.key, s.entry) IN
      dir # <<>> /\ dir = DirOf(t.key, t.entry) => s.key = t.key /\ s.index = t.index

\* A document in which no two entries are for one directory does not get a
\* second entry for a directory by an import: only a hand-edited config.toml
\* can make a match ambiguous.
OneRoot == [][WriteToml => (RootsOnce(run.read) => RootsOnce(doc'))]_vars

ArrayOf(d, p) ==
  LET entries == d.pkg[p.key].entries IN
    entries[IF p.mode = "new" THEN Len(entries) ELSE p.index].symlinks

\* The array that the plan event showed is the one that is written.
PreviewExact == [][WriteToml => ArrayOf(doc', run.plan) = run.preview]_vars

\* The entry that is changed is the one the path was found under; all others
\* are in the new document as they were in the one that was read.
OthersKept ==
  [][WriteToml =>
       \A k \in Keys : \A i \in DOMAIN run.read.pkg[k].entries :
         \/ doc'.pkg[k].entries[i] = run.read.pkg[k].entries[i]
         \/ /\ k = run.plan.key /\ run.plan.mode # "new"
            /\ RootOf(k, run.read.pkg[k].entries[i]) = run.plan.root]_vars

\* "Built up-front so every error path bails before any filesystem state
\* changes" (src/src/import/mod.rs): a document that cannot take the plan is
\* turned down before the files are moved.
BailsEarly == outcome = "panicked" => ~touched
=============================================================================
