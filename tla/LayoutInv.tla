------------------------------ MODULE LayoutInv ------------------------------
(* The inductive invariants of Layout: what a plan knows of the document that   *)
(* it was made from, while the document on the disk may become another, and     *)
(* what becomes of the files that imports took over.                            *)
EXTENDS Layout

\* What stands in config.toml is well typed, and a block without configs has no
\* entries.
Arrays == Seq(PathNames)

DocOK(d) == NothingInNothing(d) /\ d \in Documents(Arrays)

Disjoint(added, dropped) == added \in Arrays /\ ToSet(added) \cap ToSet(dropped) = {}

\* What a plan knows of the document it was made from: the slot it changes and
\* its array, and that it drops nothing of what it adds; or that no entry is for
\* the directory of the one it adds.
ChangesSlot(d, p) ==
  /\ p.mode \in {"extend", "reconcile"}
  /\ Disjoint(p.added, p.dropped)
  /\ \E slot \in Slots(d) :
       /\ p.key = slot.key /\ p.index = slot.index /\ p.root = SlotRoot(slot)
       /\ p.existing = slot.entry.symlinks

AddsEntry(d, p) ==
  /\ p.mode = "new"
  /\ p.key \in Keys /\ Visible(d, p.key) = <<>>
  /\ p.entry \in Entries(Arrays)
  /\ DirOf(p.key, p.entry) # <<>> =>
       \A slot \in Slots(d) : SlotRoot(slot) # DirOf(p.key, p.entry)

\* A running import knows the slot that it changes, or that none is in the way
\* of the one that it adds (import/mod.rs:221).
LInv ==
  /\ DocOK(doc)
  /\ run = [stage |-> run.stage, plan |-> run.plan, read |-> run.read, preview |-> run.preview]
  /\ run.stage \in {"idle", "prompt", "apply", "write"}
  /\ run.stage # "idle" =>
       /\ DocOK(run.read) /\ (ChangesSlot(run.read, run.plan) \/ AddsEntry(run.read, run.plan))
       /\ run.preview = Preview(run.plan)

-----------------------------------------------------------------------------
(* What an import took over stays where it is (AdoptedStays).                  *)

Places == [kind : {"none", "file", "link"}, to : PathNames]

\* What a plan takes over, relative to its root.
Taken(p) == ToSet(p.files) \cup ToSet(Tos(p.renamed))

\* What becomes of the array: whatever is taken over stands in it, and what goes
\* from the repository goes from the array.
Lists(d, p) ==
  /\ p.root \in PathNames /\ p.dest \in PathNames
  /\ p.files \in Arrays /\ p.removed \in Arrays
  /\ p.renamed \in Seq([from : PathNames, to : PathNames])
  /\ Taken(p) \cap ToSet(p.dropped) = {}
  /\ ToSet(p.dropped) = ToSet(p.removed) \cup Froms(p.renamed)
  /\ IF p.mode = "new"
       THEN /\ p.renamed = <<>> /\ p.dropped = <<>> /\ p.entry.symlinks = p.files
            /\ DirOf(p.key, p.entry) = p.root /\ Normalized(p.entry.source) = p.dest
            /\ IsSafe(p.entry.source) /\ p.created = ~BlockExists(d, p.key)
       ELSE LET e == d.pkg[p.key].entries[p.index] IN
            /\ DirOf(p.key, e) = p.root /\ Normalized(e.source) = p.dest
            /\ Taken(p) \subseteq ToSet(p.existing) \cup ToSet(p.added)

\* The home directory is as it was when the plan was made: what is new is a
\* file, what was moved is a link to where a listed path belongs, what is to be
\* removed is gone.
Surveyed(p) ==
  /\ \A rel \in ToSet(p.files) : p.root \o rel \in Paths /\ home[p.root \o rel].kind = "file"
  /\ \A i \in DOMAIN p.renamed :
       LET to == p.renamed[i].to
           from == p.renamed[i].from IN
         /\ p.root \o to \in Paths /\ home[p.root \o to] = Link(p.dest \o from)
         /\ from \in ToSet(p.existing) /\ to \notin ToSet(p.existing)
  /\ \A rel \in ToSet(p.removed) : At(p.root, rel) = None

Vacant(p) == \A rel \in ToSet(p.files) : p.dest \o rel \notin repo

\* The files are in place: what is taken over is linked, what is dropped is gone.
InPlace(p) ==
  /\ \A rel \in Taken(p) :
       /\ p.root \o rel \in Paths /\ home[p.root \o rel] = Link(p.dest \o rel)
       /\ p.dest \o rel \in repo
  /\ \A rel \in ToSet(p.dropped) : p.dest \o rel \notin repo

\* What an import took over is held: no other document has come, and no second
\* link leads to its file.
Held ==
  /\ home \in [Paths -> Places]
  /\ adopted \subseteq Paths
  /\ adopted # {} => Loads(doc)
  /\ AdoptedStays
  /\ Apart(doc) => \A p \in adopted : IsSole(p)

\* What a running import relies on.
Ready ==
  run.stage # "idle" =>
    /\ adopted # {} => run.read = doc
    /\ Lists(run.read, run.plan)
    /\ IF run.stage = "write" THEN InPlace(run.plan)
         ELSE Surveyed(run.plan) /\ (adopted # {} => Vacant(run.plan))

\* What AdoptedStays needs of every import (import/mod.rs:203, 1344): what was
\* taken over is held, and what a plan found is still there when it is carried
\* out and, once the files are moved, is as the document will say.
StayInv == Held /\ Ready
==============================================================================
