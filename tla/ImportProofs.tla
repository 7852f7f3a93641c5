---------------------------- MODULE ImportProofs ----------------------------
(***************************************************************************)
(* Theorems about Import, for every set of paths and contents, every       *)
(* choice of failures and every bound.                                     *)
(***************************************************************************)
EXTENDS ImportInv, TLAPS

LEMMA InitType == Init => TypeOK
<1> SUFFICES ASSUME Init PROVE TypeOK
  OBVIOUS
<1>1. home \in [Rels -> HomeEntries]
  BY DEF Init, HomeEntries, Files
<1>2. repo \in [Rels -> RepoEntries]
  BY DEF Init, RepoEntries
<1>3. plan \in Plans
  BY DEF Init, Plans, NoPlan, NewPlan
<1>4. before \in [home : [Rels -> HomeEntries], repo : [Rels -> RepoEntries]]
  BY DEF Init, NoSnapshot, HomeEntries, RepoEntries
<1> QED
  BY <1>1, <1>2, <1>3, <1>4 DEF Init, TypeOK, NoUndo, Passes

LEMMA PlansTyped ==
  ASSUME TypeOK
  PROVE  /\ NoPlan \in Plans
         /\ TreePlan \in Plans
         /\ \A r \in Rels : SinglePlan(r) \in Plans
         /\ \A m \in RenameMaps : ReconcilePlan(m) \in Plans
  BY DEF TypeOK, Plans, NoPlan, NewPlan, TreePlan, SinglePlan, ReconcilePlan, Walked,
         RenameMaps, Renamed, Gone

LEMMA TypeStep == TypeOK /\ [Next]_vars => TypeOK'
<1> SUFFICES ASSUME TypeOK, [Next]_vars PROVE TypeOK'
  OBVIOUS
<1> USE BoundsNat DEF TypeOK, Files, HomeEntries, RepoEntries, Passes
<1>1. CASE Reconcile
  BY <1>1, PlansTyped, ZenonT(40) DEF Reconcile, EndUnchanged, Propose, disk
<1>2. CASE ImportTree
  BY <1>2, PlansTyped DEF ImportTree, EndUnchanged, Propose, disk
<1>3. ASSUME NEW r \in Rels, ImportFile(r) PROVE TypeOK'
  BY <1>3, PlansTyped DEF ImportFile, EndUnchanged, Propose, disk
<1>4. CASE Decline
  BY <1>4, PlansTyped DEF Decline, EndUnchanged, disk
<1>5. CASE Confirm
  BY <1>5 DEF Confirm, disk, Plans
<1>6. CASE EndPass
  BY <1>6 DEF EndPass, disk, Plans, Targets, history
<1>7. CASE Link
  BY <1>7 DEF Link, history
<1>8. CASE LinkFails
  BY <1>8 DEF LinkFails, StartRollback, Fault, disk
<1>9. CASE Retarget
  BY <1>9 DEF Retarget, history
<1>10. CASE Relink
  BY <1>10 DEF Relink, history
<1>11. CASE LatePassFails
  BY <1>11, PlansTyped DEF LatePassFails, Stop, Fault, disk, NoUndo, NoSnapshot
<1>12. CASE WriteToml
  BY <1>12, PlansTyped DEF WriteToml, Stop, NoUndo, NoSnapshot, Plans
<1>13. CASE WriteTomlFails
  BY <1>13, PlansTyped DEF WriteTomlFails, Stop, Fault, NoUndo, NoSnapshot
<1>14. CASE EndRestore
  BY <1>14 DEF EndRestore, disk, history
<1>15. CASE EndRollback
  BY <1>15, PlansTyped DEF EndRollback, Stop, disk, NoUndo, NoSnapshot
<1>16. ASSUME NEW r \in Rels, Copy(r) PROVE TypeOK'
  BY <1>16 DEF Copy, Reads, history
<1>17. ASSUME NEW r \in Rels, CopyFails(r) PROVE TypeOK'
  BY <1>17 DEF CopyFails, StartRollback, Fault, history
<1>18. ASSUME NEW r \in Rels, Unlink(r) PROVE TypeOK'
  BY <1>18 DEF Unlink, history
<1>19. ASSUME NEW r \in Rels, UnlinkFails(r) PROVE TypeOK'
  BY <1>19 DEF UnlinkFails, StartRollback, Fault, disk, history
<1>20. ASSUME NEW r \in Rels, Rename(r) PROVE TypeOK'
  BY <1>20 DEF Rename, history, Plans, Targets
<1>21. ASSUME NEW r \in Rels, Remove(r) PROVE TypeOK'
  BY <1>21 DEF Remove, history
<1>22. ASSUME NEW r \in Rels, Restore(r) PROVE TypeOK'
  BY <1>22 DEF Restore, Fault
<1>23. ASSUME NEW r \in Rels, Discard(r) PROVE TypeOK'
  BY <1>23 DEF Discard, Fault, history
<1>24. CASE Crash
  BY <1>24, PlansTyped DEF Crash, Stop, Fault, disk, NoUndo, NoSnapshot
<1>25. CASE User
  <2>1. UserActs
    BY <1>25 DEF User, UserWrites, UserDeletes, UserMoves, UserCopies, UserPulls
  <2>2. home' \in [Rels -> HomeEntries]
    BY <1>25 DEF User, UserWrites, UserDeletes, UserMoves, UserCopies, UserPulls
  <2>3. repo' \in [Rels -> RepoEntries] /\ listed' \in SUBSET Rels
    BY <1>25 DEF User, UserWrites, UserDeletes, UserMoves, UserCopies, UserPulls
  <2>4. /\ UNCHANGED <<block, toml, outcome, faults, before, exposed>>
        /\ UNCHANGED <<pc, plan, todo, cur, undo>>
        /\ pc \in {"idle", "prompt"}
        /\ edits' \in Nat
        /\ fresh' \in BOOLEAN
    <3>1. run' = run /\ UNCHANGED <<block, toml, outcome, faults, before, exposed>>
      BY <2>1 DEF UserActs
    <3>2. UNCHANGED <<pc, plan, todo, cur, undo>>
      BY <3>1 DEF run
    <3>3. pc \in {"idle", "prompt"} /\ fresh' \in BOOLEAN /\ edits' = edits + 1
      BY <2>1 DEF UserActs
    <3> QED
      BY <3>1, <3>2, <3>3
  <2> QED
    BY <2>2, <2>3, <2>4
<1>26. CASE UNCHANGED vars
  BY <1>26 DEF vars, disk, run, history
<1> QED
  BY <1>1, <1>2, <1>3, <1>4, <1>5, <1>6, <1>7, <1>8, <1>9, <1>10, <1>11,
     <1>12, <1>13, <1>14, <1>15, <1>16, <1>17, <1>18, <1>19, <1>20, <1>21,
     <1>22, <1>23, <1>24, <1>25, <1>26 DEF Next, Command, Step

THEOREM TypeCorrect == Spec => []TypeOK
<1>1. Init => TypeOK
  BY InitType
<1>2. TypeOK /\ [Next]_vars => TypeOK'
  BY TypeStep
<1> QED
  BY <1>1, <1>2, PTL DEF Spec

-----------------------------------------------------------------------------
(* The inductive invariant, action by action.                              *)

\* What the passes rely on, apart from the types.
PassesOK == UndoOK /\ HomeOK /\ CopiesOK /\ EarlyRepoOK /\ LateRepoOK

LEMMA InvInit == Init => IInv
<1> SUFFICES ASSUME Init PROVE IInv
  OBVIOUS
<1>1. TypeOK
  BY InitType
<1> QED
  BY <1>1 DEF Init, IInv, Passes

\* A run that has ended owes nothing.
LEMMA InvEnded ==
  ASSUME TypeOK', pc' = "idle", undo' = NoUndo, exposed' = {}
  PROVE  IInv'
  BY DEF IInv, Passes

LEMMA InvUnchangedEnd ==
  ASSUME IInv, TypeOK', pc \in {"idle", "prompt"}, NEW how, EndUnchanged(how)
  PROVE  IInv'
<1>1. pc' = "idle" /\ undo' = NoUndo /\ exposed' = {}
  BY DEF IInv, EndUnchanged
<1> QED
  BY <1>1, InvEnded

LEMMA InvStop ==
  ASSUME TypeOK', NEW how, Stop(how)
  PROVE  IInv'
  BY InvEnded DEF Stop

LEMMA InvPropose ==
  ASSUME IInv, TypeOK', NEW p, pc = "idle", Propose(p), PlanOK'
  PROVE  IInv'
  BY DEF IInv, Propose, Passes

\* A plan without renames and removals asks nothing of two passes.
LEMMA NewPlanOK ==
  ASSUME NEW mode, NEW files \in SUBSET Rels, NEW existing \in SUBSET Rels,
         plan' = NewPlan(mode, files, existing), existing \subseteq listed'
  PROVE  PlanOK'
<1>1. Targets(plan)' = {} /\ Sources' = {}
  BY EntriesDistinct DEF Targets, Sources, NewPlan
<1>2. /\ plan'.removals = {}
      /\ plan'.existing = existing
      /\ plan'.added = files \ existing
      /\ plan'.files = files
  BY DEF NewPlan
<1> QED
  BY <1>1, <1>2 DEF PlanOK

LEMMA InvImportFile ==
  ASSUME IInv, TypeOK', NEW r \in Rels, ImportFile(r)
  PROVE  IInv'
<1>1. CASE EndUnchanged("refused")
  BY <1>1, InvUnchangedEnd DEF ImportFile
<1>2. CASE Propose(SinglePlan(r))
  <2>1. PlanOK'
    BY <1>2, NewPlanOK DEF Propose, SinglePlan, disk, IInv, TypeOK
  <2> QED
    BY <1>2, <2>1, InvPropose DEF ImportFile
<1> QED
  BY <1>1, <1>2 DEF ImportFile

LEMMA InvImportTree ==
  ASSUME IInv, TypeOK', ImportTree
  PROVE  IInv'
<1>1. CASE EndUnchanged("refused")
  BY <1>1, InvUnchangedEnd DEF ImportTree
<1>2. CASE Propose(TreePlan)
  <2>1. PlanOK'
    BY <1>2, NewPlanOK DEF Propose, TreePlan, disk, Walked
  <2> QED
    BY <1>2, <2>1, InvPropose DEF ImportTree
<1> QED
  BY <1>1, <1>2 DEF ImportTree

LEMMA InvReconcile ==
  ASSUME IInv, TypeOK', Reconcile
  PROVE  IInv'
<1>1. CASE EndUnchanged("refused") \/ EndUnchanged("synced")
  BY <1>1, InvUnchangedEnd DEF Reconcile
<1>2. ASSUME NEW m \in RenameMaps, Propose(ReconcilePlan(m)) PROVE IInv'
  <2>1. plan' = ReconcilePlan(m) /\ UNCHANGED disk
    BY <1>2 DEF Propose
  <2>2. PlanOK'
    <3>1. /\ plan'.from = m
          /\ plan'.files = Walked \ listed
          /\ plan'.removals = Gone(m)
          /\ plan'.existing = listed
          /\ plan'.added = (Walked \ listed) \cup {t \in Rels : m[t] # Absent}
          /\ listed' = listed
      BY <2>1 DEF ReconcilePlan, disk
    <3>2. /\ Targets(plan)' = {t \in Rels : m[t] # Absent}
          /\ Sources' = Renamed(m)
      BY <3>1 DEF Targets, Sources, Renamed
    <3>3. \A t \in Rels : m[t] # Absent => RenameCandidate(m[t], t) /\ m[t] \in Rels
      BY DEF RenameMaps
    <3>4. Targets(plan)' \cap Walked = {}
      BY <3>2, <3>3, EntriesDistinct DEF RenameCandidate, Walked
    <3>5. Renamed(m) \subseteq listed /\ Renamed(m) \cap Gone(m) = {}
      BY <3>3, EntriesDistinct DEF Renamed, Gone, RenameCandidate
    <3>6. \A t \in Targets(plan)' : /\ m[t] \in Renamed(m)
                                     /\ t \notin listed
                                     /\ \A u \in Targets(plan)' : m[t] = m[u] => t = u
      BY <3>2, <3>3 DEF Renamed, RenameCandidate, RenameMaps
    <3> QED
      BY <3>1, <3>2, <3>4, <3>5, <3>6 DEF PlanOK, Gone
  <2> QED
    BY <1>2, <2>2, InvPropose DEF Reconcile
<1> QED
  BY <1>1, <1>2 DEF Reconcile

LEMMA InvConfirm ==
  ASSUME IInv, TypeOK', Confirm
  PROVE  IInv'
<1>1. PlanOK /\ PlanOK'
  BY DEF IInv, Confirm, PlanOK, Targets, Sources, disk
<1>2. PassesOK'
  BY <1>1 DEF Confirm, PassesOK, UndoOK, HomeOK, CopiesOK, EarlyRepoOK, LateRepoOK,
     IInv, NoUndo, LinkedYet, TypeOK, Plans, Targets, Sources, disk
<1> QED
  BY <1>1, <1>2 DEF IInv, Confirm, PassesOK

LEMMA InvUser ==
  ASSUME IInv, TypeOK', User
  PROVE  IInv'
<1>1. UserActs
  BY DEF User, UserWrites, UserDeletes, UserMoves, UserCopies, UserPulls
<1>2. listed \subseteq listed'
  BY DEF User, UserWrites, UserDeletes, UserMoves, UserCopies, UserPulls, IInv, TypeOK
<1>3. run' = run /\ exposed' = exposed /\ pc \in {"idle", "prompt"}
  BY <1>1 DEF UserActs
<1>4. UNCHANGED <<pc, plan, todo, cur, undo, exposed>>
  BY <1>3 DEF run
<1>5. PlanOK => PlanOK'
  BY <1>2, <1>4 DEF PlanOK, Targets, Sources
<1> QED
  BY <1>3, <1>4, <1>5 DEF IInv, Passes

LEMMA InvCopy ==
  ASSUME IInv, TypeOK', NEW r \in Rels, Copy(r)
  PROVE  IInv'
<1> USE EntriesDistinct DEF Copy, history, Reads
<1>1. PlanOK /\ PlanOK'
  BY DEF IInv, PlanOK, Targets, Sources, Passes
<1>2. UndoOK'
  BY <1>1 DEF IInv, UndoOK, PlanOK, TypeOK, Passes
<1>3. HomeOK'
  BY <1>1 DEF IInv, UndoOK, HomeOK, CopiesOK, LinkedYet, PlanOK, TypeOK, Targets, Passes, Files
<1>4. CopiesOK'
  BY <1>1 DEF IInv, UndoOK, HomeOK, CopiesOK, LinkedYet, PlanOK, TypeOK, Passes, Files
<1>5. EarlyRepoOK'
  BY <1>1 DEF IInv, UndoOK, EarlyRepoOK, PlanOK, TypeOK, Passes
<1>6. LateRepoOK'
  BY <1>1 DEF IInv, UndoOK, LateRepoOK, RenamedYet, PlanOK, TypeOK, Targets, Sources, Passes
<1> QED
  BY <1>1, <1>2, <1>3, <1>4, <1>5, <1>6 DEF IInv, Passes

LEMMA InvCopyFails ==
  ASSUME IInv, TypeOK', NEW r \in Rels, CopyFails(r)
  PROVE  IInv'
<1> USE EntriesDistinct DEF CopyFails, StartRollback, history
<1>1. PlanOK /\ PlanOK'
  BY DEF IInv, PlanOK, Targets, Sources, Passes
<1>2. UndoOK'
  BY <1>1 DEF IInv, UndoOK, PlanOK, TypeOK, Passes
<1>3. HomeOK'
  BY <1>1 DEF IInv, UndoOK, HomeOK, CopiesOK, LinkedYet, PlanOK, TypeOK, Targets, Passes, Files
<1>4. CopiesOK'
  BY <1>1 DEF IInv, UndoOK, HomeOK, CopiesOK, LinkedYet, PlanOK, TypeOK, Passes, Files
<1>5. EarlyRepoOK'
  BY <1>1 DEF IInv, UndoOK, EarlyRepoOK, PlanOK, TypeOK, Passes
<1>6. LateRepoOK'
  BY <1>1 DEF IInv, UndoOK, LateRepoOK, RenamedYet, PlanOK, TypeOK, Targets, Sources, Passes
<1> QED
  BY <1>1, <1>2, <1>3, <1>4, <1>5, <1>6 DEF IInv, Passes

LEMMA InvUnlink ==
  ASSUME IInv, TypeOK', NEW r \in Rels, Unlink(r)
  PROVE  IInv'
<1> USE EntriesDistinct DEF Unlink, history
<1>1. PlanOK /\ PlanOK'
  BY DEF IInv, PlanOK, Targets, Sources, Passes
<1>2. UndoOK'
  BY <1>1 DEF IInv, UndoOK, PlanOK, TypeOK, Passes
<1>3. HomeOK'
  BY <1>1 DEF IInv, UndoOK, HomeOK, CopiesOK, LinkedYet, PlanOK, TypeOK, Targets, Passes, Files
<1>4. CopiesOK'
  BY <1>1 DEF IInv, UndoOK, HomeOK, CopiesOK, LinkedYet, PlanOK, TypeOK, Passes, Files
<1>5. EarlyRepoOK'
  BY <1>1 DEF IInv, UndoOK, EarlyRepoOK, PlanOK, TypeOK, Passes
<1>6. LateRepoOK'
  BY <1>1 DEF IInv, UndoOK, LateRepoOK, RenamedYet, PlanOK, TypeOK, Targets, Sources, Passes
<1> QED
  BY <1>1, <1>2, <1>3, <1>4, <1>5, <1>6 DEF IInv, Passes

LEMMA InvUnlinkFails ==
  ASSUME IInv, TypeOK', NEW r \in Rels, UnlinkFails(r)
  PROVE  IInv'
<1> USE EntriesDistinct DEF UnlinkFails, StartRollback, disk, history
<1>1. PlanOK /\ PlanOK'
  BY DEF IInv, PlanOK, Targets, Sources, Passes
<1>2. UndoOK'
  BY <1>1 DEF IInv, UndoOK, PlanOK, TypeOK, Passes
<1>3. HomeOK'
  BY <1>1 DEF IInv, UndoOK, HomeOK, CopiesOK, LinkedYet, PlanOK, TypeOK, Targets, Passes, Files
<1>4. CopiesOK'
  BY <1>1 DEF IInv, UndoOK, HomeOK, CopiesOK, LinkedYet, PlanOK, TypeOK, Passes, Files
<1>5. EarlyRepoOK'
  BY <1>1 DEF IInv, UndoOK, EarlyRepoOK, PlanOK, TypeOK, Passes
<1>6. LateRepoOK'
  BY <1>1 DEF IInv, UndoOK, LateRepoOK, RenamedYet, PlanOK, TypeOK, Targets, Sources, Passes
<1> QED
  BY <1>1, <1>2, <1>3, <1>4, <1>5, <1>6 DEF IInv, Passes

LEMMA InvLink ==
  ASSUME IInv, TypeOK', Link
  PROVE  IInv'
<1> USE EntriesDistinct DEF Link, history
<1>1. PlanOK /\ PlanOK'
  BY DEF IInv, PlanOK, Targets, Sources, Passes
<1>2. UndoOK'
  BY <1>1 DEF IInv, UndoOK, PlanOK, TypeOK, Passes
<1>3. HomeOK'
  BY <1>1 DEF IInv, UndoOK, HomeOK, CopiesOK, LinkedYet, PlanOK, TypeOK, Targets, Passes, Files
<1>4. CopiesOK'
  BY <1>1 DEF IInv, UndoOK, HomeOK, CopiesOK, LinkedYet, PlanOK, TypeOK, Passes, Files
<1>5. EarlyRepoOK'
  BY <1>1 DEF IInv, UndoOK, EarlyRepoOK, PlanOK, TypeOK, Passes
<1>6. LateRepoOK'
  BY <1>1 DEF IInv, UndoOK, LateRepoOK, RenamedYet, PlanOK, TypeOK, Targets, Sources, Passes
<1> QED
  BY <1>1, <1>2, <1>3, <1>4, <1>5, <1>6 DEF IInv, Passes

LEMMA InvLinkFails ==
  ASSUME IInv, TypeOK', LinkFails
  PROVE  IInv'
<1> USE EntriesDistinct DEF LinkFails, StartRollback, disk
<1>1. PlanOK /\ PlanOK'
  BY DEF IInv, PlanOK, Targets, Sources, Passes
<1>2. UndoOK'
  BY <1>1 DEF IInv, UndoOK, PlanOK, TypeOK, Passes
<1>3. HomeOK'
  BY <1>1 DEF IInv, UndoOK, HomeOK, CopiesOK, LinkedYet, PlanOK, TypeOK, Targets, Passes, Files
<1>4. CopiesOK'
  BY <1>1 DEF IInv, UndoOK, HomeOK, CopiesOK, LinkedYet, PlanOK, TypeOK, Passes, Files
<1>5. EarlyRepoOK'
  BY <1>1 DEF IInv, UndoOK, EarlyRepoOK, PlanOK, TypeOK, Passes
<1>6. LateRepoOK'
  BY <1>1 DEF IInv, UndoOK, LateRepoOK, RenamedYet, PlanOK, TypeOK, Targets, Sources, Passes
<1> QED
  BY <1>1, <1>2, <1>3, <1>4, <1>5, <1>6 DEF IInv, Passes

LEMMA InvRename ==
  ASSUME IInv, TypeOK', NEW r \in Rels, Rename(r)
  PROVE  IInv'
<1> USE EntriesDistinct DEF Rename, history
<1>1. PlanOK /\ PlanOK'
  BY DEF IInv, PlanOK, Targets, Sources, Passes
<1>2. UndoOK'
  BY <1>1 DEF IInv, UndoOK, PlanOK, TypeOK, Passes
<1>3. HomeOK'
  BY <1>1 DEF IInv, UndoOK, HomeOK, CopiesOK, LinkedYet, PlanOK, TypeOK, Targets, Passes, Files
<1>4. CopiesOK'
  <2>1. r \notin plan.files /\ plan.from[r] \notin plan.files
    BY <1>1 DEF IInv, PlanOK, Targets, Sources, TypeOK, Plans, Passes
  <2> QED
    BY <2>1 DEF IInv, CopiesOK, UndoOK, TypeOK, Passes
<1>5. EarlyRepoOK'
  BY <1>1 DEF IInv, UndoOK, EarlyRepoOK, PlanOK, TypeOK, Passes
<1>6. LateRepoOK'
  BY <1>1 DEF IInv, UndoOK, LateRepoOK, RenamedYet, PlanOK, TypeOK, Targets, Sources, Passes
<1> QED
  BY <1>1, <1>2, <1>3, <1>4, <1>5, <1>6 DEF IInv, Passes

LEMMA InvRetarget ==
  ASSUME IInv, TypeOK', Retarget
  PROVE  IInv'
<1> USE EntriesDistinct DEF Retarget, history
<1>1. PlanOK /\ PlanOK'
  BY DEF IInv, PlanOK, Targets, Sources, Passes
<1>2. UndoOK'
  BY <1>1 DEF IInv, UndoOK, PlanOK, TypeOK, Passes
<1>3. HomeOK'
  BY <1>1 DEF IInv, UndoOK, HomeOK, CopiesOK, LinkedYet, PlanOK, TypeOK, Targets, Passes, Files
<1>4. CopiesOK'
  BY <1>1 DEF IInv, UndoOK, HomeOK, CopiesOK, LinkedYet, PlanOK, TypeOK, Passes, Files
<1>5. EarlyRepoOK'
  BY <1>1 DEF IInv, UndoOK, EarlyRepoOK, PlanOK, TypeOK, Passes
<1>6. LateRepoOK'
  BY <1>1 DEF IInv, UndoOK, LateRepoOK, RenamedYet, PlanOK, TypeOK, Targets, Sources, Passes
<1> QED
  BY <1>1, <1>2, <1>3, <1>4, <1>5, <1>6 DEF IInv, Passes

LEMMA InvRelink ==
  ASSUME IInv, TypeOK', Relink
  PROVE  IInv'
<1> USE EntriesDistinct DEF Relink, history
<1>1. PlanOK /\ PlanOK'
  BY DEF IInv, PlanOK, Targets, Sources, Passes
<1>2. UndoOK'
  BY <1>1 DEF IInv, UndoOK, PlanOK, TypeOK, Passes
<1>3. HomeOK'
  BY <1>1 DEF IInv, UndoOK, HomeOK, CopiesOK, LinkedYet, PlanOK, TypeOK, Targets, Passes, Files
<1>4. CopiesOK'
  BY <1>1 DEF IInv, UndoOK, HomeOK, CopiesOK, LinkedYet, PlanOK, TypeOK, Passes, Files
<1>5. EarlyRepoOK'
  BY <1>1 DEF IInv, UndoOK, EarlyRepoOK, PlanOK, TypeOK, Passes
<1>6. LateRepoOK'
  BY <1>1 DEF IInv, UndoOK, LateRepoOK, RenamedYet, PlanOK, TypeOK, Targets, Sources, Passes
<1> QED
  BY <1>1, <1>2, <1>3, <1>4, <1>5, <1>6 DEF IInv, Passes

LEMMA InvRemove ==
  ASSUME IInv, TypeOK', NEW r \in Rels, Remove(r)
  PROVE  IInv'
<1> USE EntriesDistinct DEF Remove, history
<1>1. PlanOK /\ PlanOK'
  BY DEF IInv, PlanOK, Targets, Sources, Passes
<1>2. UndoOK'
  BY <1>1 DEF IInv, UndoOK, PlanOK, TypeOK, Passes
<1>3. HomeOK'
  BY <1>1 DEF IInv, UndoOK, HomeOK, CopiesOK, LinkedYet, PlanOK, TypeOK, Targets, Passes, Files
<1>4. CopiesOK'
  BY <1>1 DEF IInv, UndoOK, HomeOK, CopiesOK, LinkedYet, PlanOK, TypeOK, Passes, Files
<1>5. EarlyRepoOK'
  BY <1>1 DEF IInv, UndoOK, EarlyRepoOK, PlanOK, TypeOK, Passes
<1>6. LateRepoOK'
  BY <1>1 DEF IInv, UndoOK, LateRepoOK, RenamedYet, PlanOK, TypeOK, Targets, Sources, Passes
<1> QED
  BY <1>1, <1>2, <1>3, <1>4, <1>5, <1>6 DEF IInv, Passes

LEMMA InvEndPass ==
  ASSUME IInv, TypeOK', EndPass
  PROVE  IInv'
<1> USE EntriesDistinct DEF EndPass, disk, history
<1>1. PlanOK /\ PlanOK'
  BY DEF IInv, PlanOK, Targets, Sources, Passes
<1>2. UndoOK'
  <2>1. UNCHANGED <<plan, cur, undo, exposed>> /\ UndoOK
    BY DEF IInv, Passes
  <2>2. CASE pc = "copy"
    BY <2>1, <2>2, undo.copied = plan.files DEF UndoOK
  <2>3. CASE pc = "unlink"
    BY <2>1, <2>3, undo.linked = plan.files DEF UndoOK
  <2>4. CASE pc \in {"rename", "remove"}
    BY <2>1, <2>4 DEF UndoOK
  <2> QED
    BY <2>2, <2>3, <2>4
<1>3. HomeOK'
  BY <1>1 DEF IInv, UndoOK, HomeOK, CopiesOK, LinkedYet, PlanOK, TypeOK, Targets, Passes, Files
<1>4. CopiesOK'
  BY <1>1 DEF IInv, UndoOK, HomeOK, CopiesOK, LinkedYet, PlanOK, TypeOK, Passes, Files
<1>5. EarlyRepoOK'
  BY <1>1 DEF IInv, UndoOK, EarlyRepoOK, PlanOK, TypeOK, Passes
<1>6. LateRepoOK'
  <2>1. CASE pc = "unlink"
    <3>1. \A t \in Targets(plan) : plan.from[t] \in Rels \ plan.files
      BY <1>1 DEF IInv, PlanOK, Targets, Sources, TypeOK, Plans
    <3>2. \A t \in Targets(plan) : repo[plan.from[t]] = before.repo[plan.from[t]]
      BY <2>1, <3>1 DEF IInv, EarlyRepoOK, Passes
    <3>3. \A r \in plan.existing \ plan.files : repo[r] = before.repo[r]
      BY <2>1 DEF IInv, EarlyRepoOK, Passes, TypeOK, Plans
    <3> QED
      BY <2>1, <3>2, <3>3 DEF LateRepoOK, RenamedYet, Targets, Sources
  <2>2. CASE pc # "unlink"
    BY <2>2, <1>1 DEF IInv, UndoOK, LateRepoOK, RenamedYet, PlanOK, TypeOK, Targets,
       Sources, Passes
  <2> QED
    BY <2>1, <2>2
<1> QED
  BY <1>1, <1>2, <1>3, <1>4, <1>5, <1>6 DEF IInv, Passes

LEMMA InvRestore ==
  ASSUME IInv, TypeOK', NEW r \in Rels, Restore(r)
  PROVE  IInv'
<1> USE EntriesDistinct DEF Restore
<1>1. PlanOK /\ PlanOK'
  BY DEF IInv, PlanOK, Targets, Sources, Passes
<1>2. UndoOK'
  BY <1>1 DEF IInv, UndoOK, PlanOK, TypeOK, Passes
<1>3. HomeOK'
  <2>1. /\ r \in undo.copied /\ r \in plan.files
        /\ r \notin exposed /\ before.home[r] \in Files => repo[r] = before.home[r]
    BY DEF IInv, UndoOK, CopiesOK, Passes
  <2>2. \A q \in Rels \ {r} : home'[q] = home[q] /\ (q \in todo' <=> q \in todo)
    BY DEF IInv, TypeOK
  <2>3. \A q \in Rels \ {r} : LinkedYet(q)' <=> LinkedYet(q)
    BY <2>2 DEF LinkedYet
  <2>4. ~LinkedYet(r)'
    BY DEF LinkedYet
  <2>5. r \notin exposed' => home'[r] = repo[r]
    BY DEF IInv, TypeOK
  <2>6. HomeOK /\ UNCHANGED <<plan, before, pc>> /\ exposed \subseteq exposed'
    BY DEF IInv, Passes
  <2>7. \A q \in plan.files :
          /\ LinkedYet(q)' /\ q \notin exposed' => home'[q] = q
          /\ ~LinkedYet(q)' /\ q \notin exposed' /\ before.home[q] \in Files =>
               home'[q] = before.home[q]
    BY <2>1, <2>2, <2>3, <2>4, <2>5, <2>6 DEF HomeOK, IInv, TypeOK, Plans
  <2>8. \A q \in Rels \ plan.files : home'[q] = home[q]
    BY <2>1, <2>2
  <2>9. Targets(plan) \cap plan.files = {} /\ Targets(plan) \subseteq Rels
    BY <1>1 DEF PlanOK, Targets
  <2> QED
    BY <2>6, <2>7, <2>8, <2>9 DEF HomeOK, Targets
<1>4. CopiesOK'
  BY <1>1 DEF IInv, UndoOK, HomeOK, CopiesOK, LinkedYet, PlanOK, TypeOK, Passes, Files
<1>5. EarlyRepoOK'
  <2>1. r \in undo.copied /\ r \in plan.files
    BY DEF IInv, UndoOK, Passes
  <2>2. \A q \in Rels \ {r} : repo'[q] = repo[q]
    BY DEF IInv, TypeOK
  <2>3. EarlyRepoOK /\ plan \in Plans /\ UNCHANGED <<pc, plan, undo, before>>
    BY DEF IInv, TypeOK, Passes
  <2> QED
    BY <2>1, <2>2, <2>3 DEF EarlyRepoOK, Plans
<1>6. LateRepoOK'
  BY <1>1 DEF IInv, UndoOK, LateRepoOK, RenamedYet, PlanOK, TypeOK, Targets, Sources, Passes
<1> QED
  BY <1>1, <1>2, <1>3, <1>4, <1>5, <1>6 DEF IInv, Passes

LEMMA InvDiscard ==
  ASSUME IInv, TypeOK', NEW r \in Rels, Discard(r)
  PROVE  IInv'
<1> USE EntriesDistinct DEF Discard, history
<1>1. PlanOK /\ PlanOK'
  BY DEF IInv, PlanOK, Targets, Sources, Passes
<1>2. UndoOK'
  BY <1>1 DEF IInv, UndoOK, PlanOK, TypeOK, Passes
<1>3. HomeOK'
  BY <1>1 DEF IInv, UndoOK, HomeOK, CopiesOK, LinkedYet, PlanOK, TypeOK, Targets, Passes, Files
<1>4. CopiesOK'
  BY <1>1 DEF IInv, UndoOK, HomeOK, CopiesOK, LinkedYet, PlanOK, TypeOK, Passes, Files
<1>5. EarlyRepoOK'
  <2>1. r \in undo.copied /\ r \in plan.files
    BY DEF IInv, UndoOK, Passes
  <2>2. "discard" \notin FaultKinds => repo' = [repo EXCEPT ![r] = Absent]
    BY DEF Fault
  <2>3. \A q \in Rels \ {r} : repo'[q] = repo[q]
    BY DEF IInv, TypeOK
  <2> QED
    BY <2>1, <2>2, <2>3 DEF IInv, EarlyRepoOK, TypeOK, Plans, Passes
<1>6. LateRepoOK'
  BY <1>1 DEF IInv, UndoOK, LateRepoOK, RenamedYet, PlanOK, TypeOK, Targets, Sources, Passes
<1> QED
  BY <1>1, <1>2, <1>3, <1>4, <1>5, <1>6 DEF IInv, Passes

LEMMA InvEndRestore ==
  ASSUME IInv, TypeOK', EndRestore
  PROVE  IInv'
<1> USE EntriesDistinct DEF EndRestore, disk, history
<1>1. PlanOK /\ PlanOK'
  BY DEF IInv, PlanOK, Targets, Sources, Passes
<1>2. UndoOK'
  BY <1>1 DEF IInv, UndoOK, PlanOK, TypeOK, Passes
<1>3. HomeOK'
  BY <1>1 DEF IInv, UndoOK, HomeOK, CopiesOK, LinkedYet, PlanOK, TypeOK, Targets, Passes, Files
<1>4. CopiesOK'
  BY <1>1 DEF IInv, UndoOK, HomeOK, CopiesOK, LinkedYet, PlanOK, TypeOK, Passes, Files
<1>5. EarlyRepoOK'
  BY <1>1 DEF IInv, UndoOK, EarlyRepoOK, PlanOK, TypeOK, Passes
<1>6. LateRepoOK'
  BY <1>1 DEF IInv, UndoOK, LateRepoOK, RenamedYet, PlanOK, TypeOK, Targets, Sources, Passes
<1> QED
  BY <1>1, <1>2, <1>3, <1>4, <1>5, <1>6 DEF IInv, Passes

LEMMA InvStep == IInv /\ [Next]_vars => IInv'
<1> SUFFICES ASSUME IInv, [Next]_vars PROVE IInv'
  OBVIOUS
<1> TypeOK'
  BY TypeStep DEF IInv
<1>1. CASE Command
  BY <1>1, InvReconcile, InvImportTree, InvImportFile DEF Command
<1>2. CASE Decline
  BY <1>2, InvUnchangedEnd DEF Decline
<1>3. CASE Confirm
  BY <1>3, InvConfirm
<1>4. CASE User
  BY <1>4, InvUser
<1>5. CASE Crash
  BY <1>5, InvStop DEF Crash
<1>6. CASE LatePassFails \/ WriteToml \/ WriteTomlFails \/ EndRollback
  BY <1>6, InvStop DEF LatePassFails, WriteToml, WriteTomlFails, EndRollback
<1>7. CASE EndPass \/ Link \/ LinkFails \/ Retarget \/ Relink \/ EndRestore
  BY <1>7, InvEndPass, InvLink, InvLinkFails, InvRetarget, InvRelink, InvEndRestore
<1>8. ASSUME NEW r \in Rels,
             \/ Copy(r) \/ CopyFails(r) \/ Unlink(r) \/ UnlinkFails(r)
             \/ Rename(r) \/ Remove(r) \/ Restore(r) \/ Discard(r)
      PROVE  IInv'
  BY <1>8, InvCopy, InvCopyFails, InvUnlink, InvUnlinkFails, InvRename, InvRemove,
     InvRestore, InvDiscard
<1>9. CASE UNCHANGED vars
  BY <1>9 DEF vars, disk, run, history, IInv, PlanOK, UndoOK, HomeOK, CopiesOK,
     EarlyRepoOK, LateRepoOK, LinkedYet, RenamedYet, Targets, Sources
<1> QED
  BY <1>1, <1>2, <1>3, <1>4, <1>5, <1>6, <1>7, <1>8, <1>9 DEF Next, Step

\* The inductive invariant holds of every behaviour.
THEOREM Invariant == Spec => []IInv
  BY InvInit, InvStep, PTL DEF Spec

-----------------------------------------------------------------------------
(* What the invariant gives.                                               *)

\* No confirmed import loses a file of the home directory, whatever fails and
\* wherever it dies, but for the paths the model names in `exposed`.
THEOREM HomeFilesAreKept == Spec => []HomeFilesKept
<1>1. IInv => HomeFilesKept
  <2> SUFFICES ASSUME IInv, pc \in Passes, NEW r \in Rels, before.home[r] \in Files,
                      plan.from[r] = Absent, r \notin exposed
               PROVE  before.home[r] \in {home[r], repo[r]}
    BY DEF HomeFilesKept
  <2>1. UndoOK /\ HomeOK /\ CopiesOK /\ TypeOK /\ r \notin Targets(plan)
    BY DEF IInv, Targets
  <2>2. CASE r \notin plan.files
    BY <2>1, <2>2 DEF HomeOK
  <2>3. CASE r \in plan.files /\ ~LinkedYet(r)
    BY <2>1, <2>3 DEF HomeOK, CopiesOK, UndoOK, TypeOK
  <2>4. CASE r \in plan.files /\ LinkedYet(r)
    BY <2>1, <2>4 DEF LinkedYet, CopiesOK, UndoOK
  <2> QED
    BY <2>2, <2>3, <2>4
<1> QED
  BY <1>1, Invariant, PTL

\* The repository copies the plan does not name stay, or move with their rename.
THEOREM RepoFilesAreKept == Spec => []RepoFilesKept
<1>1. IInv => RepoFilesKept
  <2> SUFFICES ASSUME IInv, pc \in Passes,
                      NEW r \in plan.existing \ (plan.removals \cup plan.files)
               PROVE  \/ repo[r] = before.repo[r]
                      \/ \E t \in Rels : plan.from[t] = r /\ repo[t] = before.repo[r]
    BY DEF RepoFilesKept
  <2>1. EarlyRepoOK /\ LateRepoOK /\ r \in Rels \ plan.files
    BY DEF IInv, TypeOK, Plans
  <2>2. CASE pc \in {"copy", "unlink", "link", "restore", "discard"}
    BY <2>1, <2>2 DEF EarlyRepoOK
  <2>3. CASE pc \in {"rename", "retarget", "relink", "remove", "write"}
    <3>1. CASE r \in Sources
      <4>1. PICK t \in Rels : plan.from[t] = r
        BY <3>1 DEF Sources
      <4>2. t \in Targets(plan)
        BY <2>1, <4>1, EntriesDistinct DEF Targets
      <4> QED
        BY <2>1, <2>3, <4>1, <4>2 DEF LateRepoOK
    <3>2. CASE r \notin Sources
      BY <2>1, <2>3, <3>2 DEF LateRepoOK
    <3> QED
      BY <3>1, <3>2
  <2> QED
    BY <2>2, <2>3 DEF Passes
<1> QED
  BY <1>1, Invariant, PTL

\* A rollback puts the home directory back as it was, and leaves the repository
\* at most the beginning of the copy that failed.
THEOREM RollbackIsExact == Spec => []RollbackRestores
<1>1. IInv => RollbackRestores
  <2> SUFFICES ASSUME IInv, pc = "discard", todo = {}, NEW r \in Rels
               PROVE  /\ before.home[r] \in Files /\ r \notin exposed
                           => home[r] = before.home[r]
                      /\ r \notin plan.files
                           => home[r] = before.home[r] /\ repo[r] = before.repo[r]
                      /\ "discard" \notin FaultKinds
                           => repo[r] \in {before.repo[r], Absent, Partial}
    BY DEF RollbackRestores
  <2>1. UndoOK /\ HomeOK /\ EarlyRepoOK /\ TypeOK
    BY DEF IInv, Passes
  <2>2. CASE r \notin plan.files
    BY <2>1, <2>2 DEF HomeOK, EarlyRepoOK
  <2>3. CASE r \in plan.files
    BY <2>1, <2>3 DEF HomeOK, EarlyRepoOK, UndoOK, LinkedYet
  <2> QED
    BY <2>2, <2>3
<1> QED
  BY <1>1, Invariant, PTL

\* Files first, array last: a path enters config.toml once its file is in the
\* repository and its link is in place.
THEOREM ArrayIsLast == Spec => ListedLast
<1>1. IInv /\ [Next]_vars =>
        [pc = "write" =>
           \A r \in listed' \ listed : repo'[r] # Absent /\ home'[r] = r]_vars
  <2> SUFFICES ASSUME IInv, Next, pc = "write", NEW r \in listed' \ listed
               PROVE  repo'[r] # Absent /\ home'[r] = r
    OBVIOUS
  <2>1. WriteToml
    BY DEF Next, Command, Step, Reconcile, ImportTree, ImportFile, Decline, EndUnchanged,
       Propose, Confirm, EndPass, Link, LinkFails, Retarget, Relink, LatePassFails,
       WriteTomlFails, EndRestore, EndRollback, Copy, CopyFails, Unlink, UnlinkFails,
       Rename, Remove, Restore, Discard, Crash, User, UserActs, UserWrites, UserDeletes,
       UserMoves, UserCopies, UserPulls, disk, Stop
  <2>2. UNCHANGED <<home, repo>> /\ listed' = (plan.existing \cup plan.added) \ plan.dropped
    BY <2>1 DEF WriteToml
  <2>3. PlanOK /\ UndoOK /\ HomeOK /\ CopiesOK /\ LateRepoOK
    BY DEF IInv, Passes
  <2>4. r \in plan.files \cup Targets(plan)
    BY <2>2, <2>3 DEF PlanOK
  <2>5. CASE r \in plan.files
    BY <2>2, <2>3, <2>5 DEF UndoOK, HomeOK, CopiesOK, LinkedYet
  <2>6. CASE r \in Targets(plan)
    BY <2>2, <2>3, <2>6 DEF UndoOK, LateRepoOK, RenamedYet
  <2> QED
    BY <2>4, <2>5, <2>6
<1> QED
  BY <1>1, Invariant, PTL DEF Spec, ListedLast
-----------------------------------------------------------------------------
(* What a reconcile that ends well leaves behind.                          *)

\* A step of the passes ends the run or keeps what the run knows.
LEMMA PassKeeps ==
  ASSUME IInv, Step \/ Crash, pc' # "idle"
  PROVE  /\ UNCHANGED <<plan, listed, before, fresh>>
         /\ pc \notin {"idle", "prompt"} /\ pc' # "prompt"
<1>1. CASE Crash \/ LatePassFails \/ WriteToml \/ WriteTomlFails \/ EndRollback
  BY <1>1 DEF Crash, LatePassFails, WriteToml, WriteTomlFails, EndRollback, Stop
<1>2. CASE EndPass \/ Link \/ LinkFails \/ Retarget \/ Relink \/ EndRestore
  BY <1>2 DEF EndPass, Link, LinkFails, Retarget, Relink, EndRestore, StartRollback,
     disk, history
<1>3. ASSUME NEW r \in Rels,
             \/ Copy(r) \/ CopyFails(r) \/ Unlink(r) \/ UnlinkFails(r)
             \/ Rename(r) \/ Remove(r) \/ Restore(r) \/ Discard(r)
      PROVE  /\ UNCHANGED <<plan, listed, before, fresh>>
             /\ pc \notin {"idle", "prompt"} /\ pc' # "prompt"
  BY <1>3 DEF Copy, CopyFails, Unlink, UnlinkFails, Rename, Remove, Restore, Discard,
     StartRollback, disk, history
<1> QED
  BY <1>1, <1>2, <1>3 DEF Step

LEMMA ReconcileAccounts ==
  ASSUME IInv, TypeOK', Reconcile, pc' # "idle"
  PROVE  PlanAccounts'
<1>1. PICK m \in RenameMaps : Propose(ReconcilePlan(m))
  BY DEF Reconcile, EndUnchanged
<1>2. plan' = ReconcilePlan(m) /\ UNCHANGED disk /\ pc' = "prompt"
  BY <1>1 DEF Propose
<1>3. /\ plan'.from = m
      /\ plan'.files = Walked \ listed
      /\ plan'.removals = Gone(m)
      /\ plan'.existing = listed
      /\ plan'.added = (Walked \ listed) \cup {t \in Rels : m[t] # Absent}
      /\ plan'.dropped = Gone(m) \cup Renamed(m)
      /\ listed' = listed /\ home' = home
  BY <1>2 DEF ReconcilePlan, disk
<1>4. /\ Targets(plan)' = {t \in Rels : m[t] # Absent}
      /\ Sources' = Renamed(m)
      /\ Surveyed' = home
  BY <1>2, <1>3 DEF Targets, Sources, Renamed, Surveyed
<1> QED
  BY <1>3, <1>4 DEF PlanAccounts, Walked, Gone

LEMMA AccountsStep ==
  ASSUME IInv, TypeOK', pc # "idle" => PlanAccounts, [Next]_vars, pc' # "idle"
  PROVE  PlanAccounts'
<1>1. CASE \E r \in Rels : ImportFile(r)
  <2>1. PICK r \in Rels : plan' = SinglePlan(r)
    BY <1>1 DEF ImportFile, EndUnchanged, Propose
  <2>2. plan'.mode = "single"
    BY <2>1 DEF SinglePlan, NewPlan
  <2> QED
    BY <2>2 DEF PlanAccounts
<1>2. CASE ImportTree
  <2>1. plan' = TreePlan
    BY <1>2 DEF ImportTree, EndUnchanged, Propose
  <2>2. plan'.mode = "tree"
    BY <2>1 DEF TreePlan, NewPlan
  <2> QED
    BY <2>2 DEF PlanAccounts
<1>3. CASE Reconcile
  BY <1>3, ReconcileAccounts
<1>4. CASE Confirm
  BY <1>4 DEF Confirm, disk, PlanAccounts, Surveyed, Sources, Targets
<1>5. CASE Decline
  BY <1>5 DEF Decline, EndUnchanged
<1>6. CASE User
  BY <1>6 DEF User, UserActs, UserWrites, UserDeletes, UserMoves, UserCopies, UserPulls,
     PlanAccounts
<1>7. CASE Step \/ Crash
  <2>1. UNCHANGED <<plan, listed, before, fresh>> /\ pc # "idle" /\ Surveyed' = Surveyed
    BY <1>7, PassKeeps DEF Surveyed
  <2> QED
    BY <2>1 DEF PlanAccounts, Sources, Targets
<1>8. CASE UNCHANGED vars
  BY <1>8 DEF vars, disk, run, history, PlanAccounts, Surveyed, Sources, Targets
<1> QED
  BY <1>1, <1>2, <1>3, <1>4, <1>5, <1>6, <1>7, <1>8 DEF Next, Command

\* Nothing is written to the place that a rename has emptied.
LEMMA SourcesStep ==
  ASSUME IInv, TypeOK', SourcesGone, [Next]_vars
  PROVE  SourcesGone'
<1>1. SUFFICES ASSUME pc' \in {"rename", "retarget", "relink", "remove", "write"}
               PROVE  SourcesGone'
  BY DEF SourcesGone
<1>2. CASE Command \/ Confirm \/ Decline \/ User
  BY <1>1, <1>2 DEF Command, Confirm, Decline, User, ImportFile, ImportTree, Reconcile,
     EndUnchanged, Propose, UserActs, UserWrites, UserDeletes, UserMoves, UserCopies,
     UserPulls, run
<1>3. CASE Crash \/ LatePassFails \/ WriteToml \/ WriteTomlFails \/ EndRollback
  BY <1>1, <1>3 DEF Crash, LatePassFails, WriteToml, WriteTomlFails, EndRollback, Stop
<1>4. CASE Link \/ LinkFails \/ EndRestore
  BY <1>1, <1>4 DEF Link, LinkFails, EndRestore, StartRollback
<1>5. CASE EndPass
  BY <1>1, <1>5 DEF EndPass, SourcesGone, RenamedYet, Targets, disk
<1>6. CASE Retarget
  BY <1>6 DEF Retarget, SourcesGone, RenamedYet, Targets
<1>7. CASE Relink
  BY <1>7 DEF Relink, SourcesGone, RenamedYet, Targets
<1>8. ASSUME NEW r \in Rels, Rename(r) PROVE SourcesGone'
  <2>1. PlanOK /\ UndoOK /\ TypeOK /\ pc = "rename" /\ r \in todo /\ r \in Targets(plan)
    BY <1>8 DEF Rename, IInv, Passes, TypeOK
  <2>2. UNCHANGED <<plan, todo>> /\ cur' = r /\ pc' = "retarget"
    BY <1>8 DEF Rename
  <2> SUFFICES ASSUME NEW t \in Targets(plan), RenamedYet(t)'
               PROVE  repo'[plan.from[t]] = Absent
    BY <2>2 DEF SourcesGone, Targets
  <2>3. plan.from[t] \in plan.existing /\ r \notin plan.existing /\ plan.from[t] \in Rels
    BY <2>1 DEF PlanOK, TypeOK, Plans
  <2>4. CASE t = r
    BY <1>8, <2>1, <2>3, <2>4 DEF Rename, TypeOK
  <2>5. CASE t # r
    <3>1. RenamedYet(t)
      BY <2>1, <2>2, <2>5 DEF RenamedYet, Targets
    <3>2. repo[plan.from[t]] = Absent
      BY <2>1, <3>1 DEF SourcesGone
    <3> QED
      BY <1>8, <2>1, <2>3, <3>2 DEF Rename, TypeOK
  <2> QED
    BY <2>4, <2>5
<1>9. ASSUME NEW r \in Rels, Remove(r) PROVE SourcesGone'
  BY <1>9 DEF Remove, SourcesGone, RenamedYet, Targets, IInv, TypeOK, Plans
<1>10. ASSUME NEW r \in Rels,
              Copy(r) \/ CopyFails(r) \/ Unlink(r) \/ UnlinkFails(r) \/ Restore(r) \/ Discard(r)
       PROVE  FALSE
  BY <1>1, <1>10 DEF Copy, CopyFails, Unlink, UnlinkFails, Restore, Discard, StartRollback
<1>11. CASE UNCHANGED vars
  BY <1>11 DEF vars, disk, run, SourcesGone, RenamedYet, Targets
<1> QED
  BY <1>2, <1>3, <1>4, <1>5, <1>6, <1>7, <1>8, <1>9, <1>10, <1>11 DEF Next, Step

\* What is at home when the array is written, path by path.
LEMMA WrittenHome ==
  ASSUME IInv, pc = "write"
  PROVE  /\ \A r \in plan.files \cup Targets(plan) : home[r] = r
         /\ \A r \in Rels \ (plan.files \cup Targets(plan)) : home[r] = before.home[r]
         /\ \A t \in Targets(plan) : RenamedYet(t)
<1>1. UndoOK /\ HomeOK /\ LateRepoOK /\ exposed = {} /\ undo.linked = plan.files
  BY DEF IInv, UndoOK, Passes
<1>2. \A r \in plan.files : home[r] = r
  BY <1>1 DEF HomeOK, LinkedYet
<1>3. \A t \in Targets(plan) : RenamedYet(t) /\ home[t] = t
  BY <1>1 DEF RenamedYet, LateRepoOK
<1> QED
  BY <1>1, <1>2, <1>3 DEF HomeOK

LEMMA WriteSettles ==
  ASSUME IInv, TypeOK', SourcesGone, PlanAccounts, WriteToml, fresh, plan.mode = "reconcile"
  PROVE  ReconcileSettles'
<1>1. /\ listed' = (plan.existing \cup plan.added) \ plan.dropped
      /\ UNCHANGED <<home, repo>> /\ pc = "write"
  BY DEF WriteToml
<1>2. /\ plan.existing = listed
      /\ plan.files = {r \in Rels : before.home[r] \in Files} \ listed
      /\ plan.removals = {r \in listed \ Sources : before.home[r] = Absent}
      /\ plan.added = plan.files \cup Targets(plan)
      /\ plan.dropped = plan.removals \cup Sources
  BY <1>1 DEF PlanAccounts, Surveyed
<1>3. PlanOK /\ TypeOK
  BY <1>1 DEF IInv, Passes
<1>4. \A r \in listed' : home'[r] # Absent
  <2> SUFFICES ASSUME NEW r \in listed' PROVE home[r] # Absent
    BY <1>1
  <2>1. CASE r \in plan.files \cup Targets(plan)
    BY <1>1, <2>1, <1>3, WrittenHome, EntriesDistinct DEF TypeOK, Plans, Targets
  <2>2. CASE r \notin plan.files \cup Targets(plan)
    <3>1. r \in listed \ (plan.removals \cup Sources) /\ r \in Rels
      BY <1>1, <1>2, <1>3, <2>2 DEF TypeOK
    <3> QED
      BY <1>1, <1>2, <2>2, <3>1, WrittenHome
  <2> QED
    BY <2>1, <2>2
<1>5. \A r \in Walked' \ listed' : repo'[r] = Absent
  <2> SUFFICES ASSUME NEW r \in Rels, home[r] \in Files, r \notin listed' PROVE repo[r] = Absent
    BY <1>1 DEF Walked
  <2>1. r \notin plan.files \cup Targets(plan)
    BY <1>1, WrittenHome, EntriesDistinct
  <2>2. before.home[r] \in Files
    BY <1>1, <2>1, WrittenHome
  <2>3. r \in listed
    BY <1>2, <2>1, <2>2
  <2>4. r \in Sources
    BY <1>1, <1>2, <2>2, <2>3, EntriesDistinct
  <2>5. PICK t \in Rels : plan.from[t] = r
    BY <2>4 DEF Sources
  <2>6. t \in Targets(plan) /\ RenamedYet(t)
    BY <1>1, <2>5, WrittenHome, EntriesDistinct DEF Targets
  <2> QED
    BY <1>1, <2>5, <2>6 DEF SourcesGone
<1> QED
  BY <1>4, <1>5 DEF ReconcileSettles, DestExists, RenameCandidate

\* A reconcile that finds nothing to do finds nothing to refuse either.
LEMMA NoopSettles ==
  ASSUME IInv, NEW m \in RenameMaps, IsNoop(ReconcilePlan(m)), EndUnchanged("synced")
  PROVE  ReconcileSettles'
<1>1. /\ Walked \ listed = {} /\ Gone(m) = {}
      /\ \A t \in Rels : m[t] = Absent
  BY DEF IsNoop, ReconcilePlan, Targets
<1>2. \A r \in listed : home[r] # Absent
  BY <1>1, EntriesDistinct DEF Gone, Renamed, IInv, TypeOK
<1>3. UNCHANGED <<home, repo, listed>>
  BY DEF EndUnchanged, disk
<1> QED
  BY <1>1, <1>2, <1>3 DEF ReconcileSettles, DestExists, RenameCandidate, Walked

LEMMA SettlesStep ==
  ASSUME IInv, TypeOK', SettleInv, [Next]_vars
  PROVE  ReconcileSettles'
<1> SUFFICES ASSUME pc' = "idle", outcome' = "synced", fresh' PROVE ReconcileSettles'
  BY DEF ReconcileSettles
<1>1. CASE Command
  <2>1. PICK m \in RenameMaps : IsNoop(ReconcilePlan(m)) /\ EndUnchanged("synced")
    BY <1>1 DEF Command, ImportFile, ImportTree, Reconcile, Propose, EndUnchanged
  <2> QED
    BY <2>1, NoopSettles
<1>2. CASE Confirm \/ Decline \/ Crash
  BY <1>2 DEF Confirm, Decline, Crash, EndUnchanged, Stop
<1>3. CASE User
  BY <1>3 DEF User, UserActs, UserWrites, UserDeletes, UserMoves, UserCopies, UserPulls
<1>4. CASE WriteToml
  <2>1. plan.mode = "reconcile" /\ fresh /\ PlanAccounts
    BY <1>4 DEF WriteToml, Stop, SettleInv
  <2> QED
    BY <1>4, <2>1, WriteSettles DEF SettleInv
<1>5. CASE Step /\ ~WriteToml
  <2>1. CASE LatePassFails \/ WriteTomlFails \/ EndRollback
    BY <2>1 DEF LatePassFails, WriteTomlFails, EndRollback, Stop
  <2>2. CASE EndPass \/ Link \/ LinkFails \/ Retarget \/ Relink \/ EndRestore
    BY <2>2 DEF EndPass, Link, LinkFails, Retarget, Relink, EndRestore, StartRollback
  <2>3. ASSUME NEW r \in Rels,
               \/ Copy(r) \/ CopyFails(r) \/ Unlink(r) \/ UnlinkFails(r)
               \/ Rename(r) \/ Remove(r) \/ Restore(r) \/ Discard(r)
        PROVE  FALSE
    BY <2>3 DEF Copy, CopyFails, Unlink, UnlinkFails, Rename, Remove, Restore, Discard,
       StartRollback
  <2> QED
    BY <1>5, <2>1, <2>2, <2>3 DEF Step
<1>6. CASE UNCHANGED vars
  BY <1>6 DEF vars, disk, run, history, SettleInv, ReconcileSettles, DestExists, Walked,
     RenameCandidate
<1> QED
  BY <1>1, <1>2, <1>3, <1>4, <1>5, <1>6 DEF Next

\* A reconcile that ended well, with the user idle, leaves the next one nothing to
\* refuse and nothing to remove, whatever it had to rename, remove and add.
THEOREM ReconcileIsFinal == Spec => []ReconcileSettles
<1>1. Init => SettleInv
  BY DEF Init, SettleInv, SourcesGone, ReconcileSettles
<1>2. IInv /\ IInv' /\ SettleInv /\ [Next]_vars => SettleInv'
  BY AccountsStep, SourcesStep, SettlesStep DEF SettleInv, IInv
<1>3. SettleInv => ReconcileSettles
  BY DEF SettleInv
<1> QED
  BY <1>1, <1>2, <1>3, Invariant, PTL DEF Spec
=============================================================================
