----------------------------- MODULE ImportInv -----------------------------
(***************************************************************************)
(* The inductive invariant of Import: what each pass of apply_files may    *)
(* rely on, in terms of the disk as it was when the plan was confirmed     *)
(* (`before`).  MCImport checks it, ImportProofs proves it.                *)
(***************************************************************************)
EXTENDS Import

Sources == {f \in Rels : \E t \in Rels : plan.from[t] = f}

\* A plan never asks two passes for the same path.
PlanOK ==
  /\ plan.removals \subseteq plan.existing
  /\ plan.existing \subseteq listed
  /\ plan.added \subseteq plan.files \cup Targets(plan)
  /\ \A t \in Targets(plan) :
       /\ plan.from[t] \in plan.existing \ plan.removals
       /\ t \notin plan.existing
       /\ \A u \in Targets(plan) : plan.from[t] = plan.from[u] => t = u
  /\ plan.files \cap (Targets(plan) \cup Sources \cup plan.removals) = {}

\* The UndoLog grows with the passes, and a rollback visits what it holds.
UndoOK ==
  /\ undo.linked \subseteq undo.copied
  /\ undo.copied \subseteq plan.files
  /\ pc = "copy" => /\ todo = plan.files \ undo.copied
                    /\ undo.linked = {}
  /\ pc \in {"unlink", "link"} => /\ undo.copied = plan.files
                                  /\ todo = plan.files \ undo.linked
  /\ pc = "link" => cur \in todo
  /\ pc \in {"rename", "retarget", "relink", "remove", "write"} =>
       undo.linked = plan.files
  /\ pc \in {"retarget", "relink"} => cur \in todo
  /\ pc = "remove" => todo \subseteq plan.removals
  /\ pc = "restore" => todo \subseteq undo.linked
  /\ pc = "discard" => todo \subseteq undo.copied
  /\ pc \notin {"restore", "discard"} => exposed = {}
  /\ exposed \subseteq plan.files

\* Where the links of the planned files stand.
LinkedYet(r) ==
  \/ r \in undo.linked /\ pc # "discard" /\ (pc = "restore" => r \in todo)

HomeOK ==
  /\ \A r \in plan.files :
       /\ LinkedYet(r) /\ r \notin exposed => home[r] = r
       /\ ~LinkedYet(r) /\ r \notin exposed /\ before.home[r] \in Files =>
            home[r] = before.home[r] \/ (pc = "link" /\ r = cur)
  /\ \A r \in Rels \ (plan.files \cup Targets(plan)) : home[r] = before.home[r]
  /\ pc \in {"copy", "unlink", "link", "restore", "discard"} =>
       \A t \in Targets(plan) : home[t] = before.home[t]

\* A copy is complete from its Pass 1 step until rollback discards it.
CopiesOK ==
  \A r \in undo.copied :
    (pc = "discard" => r \in todo) /\ r \notin exposed =>
      /\ repo[r] # Absent
      /\ before.home[r] \in Files => repo[r] = before.home[r]

\* What the passes before `rename` leave alone in the repository.
EarlyRepoOK ==
  pc \in {"copy", "unlink", "link", "restore", "discard"} =>
    /\ \A r \in Rels \ plan.files : repo[r] = before.repo[r]
    /\ \A r \in plan.files \ undo.copied : repo[r] \in {before.repo[r], Partial}
    /\ pc = "discard" /\ "discard" \notin FaultKinds =>
         \A r \in undo.copied \ todo : repo[r] = Absent

\* t has its file already.
RenamedYet(t) ==
  /\ t \in Targets(plan)
  /\ pc \in {"rename", "retarget", "relink"} =>
       t \notin todo \/ (pc # "rename" /\ t = cur)

LateRepoOK ==
  pc \in {"rename", "retarget", "relink", "remove", "write"} =>
    /\ \A t \in Targets(plan) :
         /\ RenamedYet(t) => /\ repo[t] # Absent
                             /\ repo[t] = before.repo[plan.from[t]]
         /\ ~RenamedYet(t) => repo[plan.from[t]] = before.repo[plan.from[t]]
         /\ RenamedYet(t) /\ (pc \in {"retarget", "relink"} => t # cur) => home[t] = t
    /\ \A r \in plan.existing \ (plan.removals \cup plan.files \cup Sources) :
         repo[r] = before.repo[r]

IInv ==
  /\ TypeOK
  /\ pc # "idle" => PlanOK
  /\ pc \in Passes => /\ UndoOK
                      /\ HomeOK
                      /\ CopiesOK
                      /\ EarlyRepoOK
                      /\ LateRepoOK
  /\ pc \in {"idle", "prompt"} => undo = NoUndo /\ exposed = {}

-----------------------------------------------------------------------------
(* What a reconcile that ends well leaves behind (ReconcileSettles).       *)

\* The home directory as it was when the plan was made.
Surveyed == IF pc = "prompt" THEN home ELSE before.home

\* While the user is idle, a plan to reconcile accounts for all that was there.
PlanAccounts ==
  fresh /\ plan.mode = "reconcile" =>
    /\ plan.existing = listed
    /\ plan.files = {r \in Rels : Surveyed[r] \in Files} \ listed
    /\ plan.removals = {r \in listed \ Sources : Surveyed[r] = Absent}
    /\ plan.added = plan.files \cup Targets(plan)
    /\ plan.dropped = plan.removals \cup Sources

\* A rename leaves nothing at the place that the copy had.
SourcesGone ==
  pc \in {"rename", "retarget", "relink", "remove", "write"} =>
    \A t \in Targets(plan) : RenamedYet(t) => repo[plan.from[t]] = Absent

SettleInv ==
  /\ pc # "idle" => PlanAccounts
  /\ SourcesGone
  /\ ReconcileSettles
=============================================================================
