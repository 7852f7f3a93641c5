----------------------------- MODULE ApplyProofs -----------------------------
(***************************************************************************)
(* Theorems about Apply, for every list of entries, every choice of        *)
(* failures and every bound.                                               *)
(***************************************************************************)
EXTENDS ApplyInv, TLAPS

\* The entry at hand is one of the paths, and only at one place of the walk.
LEMMA HereIsPath ==
  ASSUME TypeOK, at <= Len(Order)
  PROVE  /\ Here \in Paths
         /\ Dir[Here] \in Dirs
         /\ Here \in Links => Real[Here] \in Targets
         /\ \A i \in 1..Len(Order) : Order[i] = Here => i = at
<1>1. Len(Order) \in Nat /\ at \in 1..Len(Order)
  BY OrderIsPaths DEF TypeOK
<1>2. \A i \in 1..Len(Order) : Order[i] \in Paths
  BY OrderIsPaths
<1> QED
  BY <1>1, <1>2, OrderIsPaths, PathsPlaced DEF Here

LEMMA LenIsNat == Len(Order) \in Nat /\ (\A i \in 1..Len(Order) : Order[i] \in Paths)
  BY OrderIsPaths

LEMMA TextsIn ==
  /\ \A g \in Gens : Want(g) \in Texts
  /\ ByUser \in Texts
  /\ TypeOK /\ at <= Len(Order) /\ Here \in Gens /\ (status = "modified" => cur \in Texts)
       => NewText \in Texts
<1>1. (\A g \in Gens : Want(g) \in Texts) /\ ByUser \in Texts
  BY DEF Want, ByUser, Texts
<1>2. ASSUME Here \in Gens, status = "modified" => cur \in Texts PROVE NewText \in Texts
  BY <1>2 DEF NewText, Texts
<1> QED
  BY <1>1, <1>2

LEMMA InitType == Init => TypeOK
<1> SUFFICES ASSUME Init PROVE TypeOK
  OBVIOUS
<1>1. ByUser \in Texts /\ Len(Order) \in Nat
  BY TextsIn, LenIsNat
<1>2. fs \in [Paths -> Entries] /\ file \in [Targets -> Texts \cup {Absent}]
  BY <1>1 DEF Init, Entries
<1>3. NoBase \in [Paths -> Entries]
  BY DEF NoBase, Entries
<1>4. /\ pc = "idle" /\ mode \in Modes /\ at \in 1..(Len(Order) + 1)
      /\ status \in Pending /\ cur = Absent /\ todo = {} /\ approved = {}
      /\ outcome = "none" /\ faults = 0 /\ edits = 0
  BY <1>1 DEF Init, Modes, Pending
<1>5. dir \in [Dirs -> BOOLEAN] /\ base = NoBase /\ fresh \in BOOLEAN
  BY DEF Init
<1> QED
  BY <1>2, <1>3, <1>4, <1>5 DEF TypeOK

\* What the walk keeps of itself, apart from the disk.
RunTyped ==
  /\ pc \in {"idle", "probe", "ask", "mkdir", "write", "unlink", "link"}
  /\ mode \in Modes
  /\ at \in 1..(Len(Order) + 1)
  /\ pc \in {"ask", "mkdir", "write", "unlink", "link"} => at <= Len(Order)
  /\ status \in Pending
  /\ cur \in Texts \cup {Absent}
  /\ pc \in {"ask", "write"} /\ status = "modified" => cur \in Texts
  /\ todo \in SUBSET Hunks
  /\ approved \in SUBSET Hunks
  /\ outcome \in {"none", "ok", "failed", "interrupted", "crashed"}
  /\ edits \in Nat
  /\ fresh \in BOOLEAN
  /\ base \in [Paths -> Entries]

\* An action changes the disk and counts its failures, or moves the walk; the
\* two halves are typed one at a time.
DiskTyped ==
  /\ fs \in [Paths -> Entries]
  /\ file \in [Targets -> Texts \cup {Absent}]
  /\ dir \in [Dirs -> BOOLEAN]
  /\ faults \in Nat

LEMMA TypeHalves == (TypeOK <=> DiskTyped /\ RunTyped) /\ (TypeOK <=> DiskTyped /\ RunTyped)'
  BY DEF TypeOK, DiskTyped, RunTyped

LEMMA FaultTyped ==
  ASSUME TypeOK, NEW k, Fault(k) \/ UNCHANGED faults
  PROVE  faults' \in Nat
  BY DEF TypeOK, Fault

LEMMA StopTyped ==
  ASSUME TypeOK, NEW how \in {"ok", "failed", "interrupted", "crashed"}, Stop(how)
  PROVE  RunTyped'
  BY LenIsNat DEF TypeOK, Stop, LeaveEntry, RunTyped, Pending

LEMMA AdvanceTyped ==
  ASSUME TypeOK, at <= Len(Order), Advance
  PROVE  RunTyped'
  BY LenIsNat DEF TypeOK, Advance, LeaveEntry, RunTyped, Pending

LEMMA GoToTyped ==
  ASSUME TypeOK, at <= Len(Order), NEW next \in {"mkdir", "write", "unlink", "link"},
         next = "write" /\ status = "modified" => cur \in Texts, GoTo(next)
  PROVE  RunTyped'
  BY LenIsNat DEF TypeOK, GoTo, RunTyped

LEMMA WriteTyped ==
  ASSUME TypeOK, NEW p \in Paths, NEW c \in Texts, WriteText(p, c)
  PROVE  fs' \in [Paths -> Entries] /\ file' \in [Targets -> Texts \cup {Absent}] /\ dir' = dir
  BY DEF TypeOK, WriteText, Entries

\* The status that a probe may find, and the text that goes with it.
LEMMA StatusTyped ==
  ASSUME TypeOK, at <= Len(Order)
  PROVE  /\ Here \in Links => EntryStatus(Here) \in
               {"ok", "real_missing", "wrong", "new", "dir_missing", "occupied"}
         /\ Here \in Gens => EntryStatus(Here) \in {"ok", "unreadable", "new", "modified"}
         /\ EntryStatus(Here) = "modified" => Reach(Here) \in Texts
<1>1. Here \in Paths
  BY HereIsPath
<1>2. CASE Here \in Gens
  <2>1. EntryStatus(Here) = GenStatus(Here)
    BY <1>2 DEF EntryStatus
  <2>2. Reach(Here) \in Texts \cup {Absent, Folder}
    BY <1>1 DEF TypeOK, Reach, Entries
  <2> QED
    BY <1>2, <2>1, <2>2, PathsPlaced DEF GenStatus
<1>3. CASE Here \in Links
  <2>1. EntryStatus(Here) = LinkStatus(Here)
    BY <1>3, PathsPlaced DEF EntryStatus
  <2> QED
    BY <1>3, <2>1, PathsPlaced DEF LinkStatus
<1> QED
  BY <1>1, <1>2, <1>3 DEF Paths

LEMMA TypeStep == TypeOK /\ KindOK /\ [Next]_vars => TypeOK'
<1> SUFFICES ASSUME TypeOK, KindOK, [Next]_vars PROVE TypeOK'
  OBVIOUS
<1>a. DiskTyped /\ RunTyped
  BY TypeHalves
<1>1. ASSUME NEW m \in Modes, Start(m) PROVE TypeOK'
  BY <1>1, LenIsNat DEF Start, TypeOK, disk
<1>2. CASE Probe
  <2>1. DiskTyped'
    BY <1>2, <1>a DEF Probe, disk, DiskTyped
  <2>2. CASE Advance
    BY <1>2, <2>1, <2>2, AdvanceTyped, TypeHalves DEF Probe
  <2>3. CASE Stop("failed")
    BY <2>1, <2>3, StopTyped, TypeHalves
  <2>4. CASE pc' = "ask"
    <3>1. /\ status' = EntryStatus(Here) /\ status' \in Pending
          /\ cur' = IF status' = "modified" THEN Reach(Here) ELSE Absent
          /\ todo' = IF status' = "modified" THEN Differing(Here) ELSE {}
          /\ approved' = {} /\ at <= Len(Order)
          /\ UNCHANGED <<mode, at, outcome, edits, fresh, base>>
      BY <1>2, <2>4 DEF Probe, Advance, Stop
    <3>2. cur' \in Texts \cup {Absent} /\ (status' = "modified" => cur' \in Texts)
      BY <3>1, StatusTyped
    <3>3. todo' \in SUBSET Hunks
      BY <3>1 DEF Differing
    <3> QED
      BY <1>a, <2>1, <2>4, <3>1, <3>2, <3>3, TypeHalves DEF RunTyped
  <2> QED
    BY <1>2, <2>2, <2>3, <2>4 DEF Probe
<1>3. CASE ProbeFails \/ Finish \/ Interrupt \/ Crash
  <2>1. DiskTyped' 
    BY <1>3, <1>a, FaultTyped DEF ProbeFails, Finish, Interrupt, Crash, disk, DiskTyped
  <2>2. RunTyped'
    BY <1>3, StopTyped DEF ProbeFails, Finish, Interrupt, Crash
  <2> QED
    BY <2>1, <2>2, TypeHalves
<1>4. ASSUME NEW yes \in BOOLEAN, Decide(yes) PROVE TypeOK'
  <2>1. DiskTyped' /\ at <= Len(Order)
    BY <1>4, <1>a DEF Decide, disk, DiskTyped, KindOK, Calls
  <2>2. FirstCall \in {"mkdir", "write", "unlink", "link"}
    BY DEF FirstCall
  <2>3. RunTyped'
    BY <1>4, <2>1, <2>2, AdvanceTyped, GoToTyped DEF Decide
  <2> QED
    BY <2>1, <2>3, TypeHalves
<1>5. ASSUME NEW h \in Hunks, NEW yes \in BOOLEAN, DecideHunk(h, yes) PROVE TypeOK'
  BY <1>5 DEF DecideHunk, TypeOK, disk
<1>6. CASE EndHunks
  <2>1. DiskTyped' /\ at <= Len(Order)
    BY <1>6, <1>a DEF EndHunks, disk, DiskTyped, KindOK, Calls
  <2>2. RunTyped'
    BY <1>6, <2>1, AdvanceTyped, GoToTyped DEF EndHunks, TypeOK
  <2> QED
    BY <2>1, <2>2, TypeHalves
<1>7. CASE Mkdir
  <2>1. at <= Len(Order) /\ Dir[Here] \in Dirs /\ status # "modified"
    BY <1>7, HereIsPath DEF Mkdir, KindOK, Calls
  <2>2. DiskTyped'
    BY <1>7, <1>a, <2>1 DEF Mkdir, DiskTyped
  <2>3. RunTyped'
    BY <1>7, <2>1, GoToTyped DEF Mkdir
  <2> QED
    BY <2>2, <2>3, TypeHalves
<1>8. CASE Write \/ WriteFails
  <2>1. at <= Len(Order) /\ Here \in Paths /\ NewText \in Texts
    BY <1>8, HereIsPath, TextsIn DEF Write, WriteFails, KindOK, Calls, TypeOK, Paths
  <2>2. RunTyped'
    BY <1>8, <2>1, AdvanceTyped, StopTyped DEF Write, WriteFails
  <2>3. faults' \in Nat
    BY <1>8, FaultTyped DEF Write, WriteFails
  <2>4. CASE UNCHANGED disk
    BY <1>a, <2>2, <2>3, <2>4, TypeHalves DEF DiskTyped, disk
  <2>5. ASSUME NEW c \in Texts, WriteText(Here, c) PROVE TypeOK'
    <3>1. fs' \in [Paths -> Entries] /\ file' \in [Targets -> Texts \cup {Absent}] /\ dir' = dir
      BY <2>1, <2>5, WriteTyped
    <3> QED
      BY <1>a, <2>2, <2>3, <3>1, TypeHalves DEF DiskTyped
  <2>6. \A cut \in SUBSET Hunks :
          [h \in Hunks |-> IF h \in cut THEN Cut ELSE NewText[h]] \in Texts
    BY <2>1 DEF Texts
  <2> QED
    BY <1>8, <2>1, <2>4, <2>5, <2>6 DEF Write, WriteFails, disk
<1>9. CASE Unlink \/ Link
  <2>1. at <= Len(Order) /\ Here \in Links /\ Here \in Paths /\ Real[Here] \in Targets
    BY <1>9, HereIsPath DEF Unlink, Link, KindOK, Calls, Paths
  <2>2. RunTyped'
    BY <1>9, <2>1, AdvanceTyped, GoToTyped DEF Unlink, Link
  <2>3. DiskTyped'
    BY <1>9, <1>a, <2>1 DEF Unlink, Link, DiskTyped, Entries
  <2> QED
    BY <2>2, <2>3, TypeHalves
<1>10. CASE CallFails
  <2>1. RunTyped'
    BY <1>10, StopTyped DEF CallFails
  <2>2. DiskTyped'
    BY <1>10, <1>a, FaultTyped DEF CallFails, DiskTyped, disk
  <2> QED
    BY <2>1, <2>2, TypeHalves
<1>11. CASE Others
  <2>1. UserActs
    BY <1>11 DEF Others, UserWrites, UserPuts, UserPulls, UserRemovesDir
  <2>2. run' = run /\ UNCHANGED <<outcome, faults>> /\ base' = NoBase
    BY <2>1 DEF UserActs
  <2>3. UNCHANGED <<pc, mode, at, status, cur, todo, approved>>
    BY <2>2 DEF run
  <2>4. edits' \in Nat /\ fresh' \in BOOLEAN
    <3>1. edits' = edits + 1 /\ fresh' = FALSE
      BY <2>1 DEF UserActs
    <3>2. edits \in Nat /\ FALSE \in BOOLEAN
      BY DEF TypeOK
    <3>3. edits' \in Nat
      BY <3>1, <3>2
    <3> QED
      BY <3>1, <3>3
  <2>5. NoBase \in [Paths -> Entries]
    BY DEF NoBase, Entries
  <2>6. RunTyped'
    BY <1>a, <2>2, <2>3, <2>4, <2>5 DEF RunTyped
  <2>7. /\ fs' \in [Paths -> Entries]
        /\ file' \in [Targets -> Texts \cup {Absent}]
        /\ dir' \in [Dirs -> BOOLEAN]
    <3>1. ASSUME NEW p \in Paths, NEW h \in Hunks, UserWrites(p, h) PROVE <2>7!:
      <4>1. \A old \in Texts : [old EXCEPT ![h] = User] \in Texts
        BY DEF Texts
      <4>2. PICK c \in Texts : WriteText(p, c)
        BY <3>1, <4>1, TextsIn DEF UserWrites
      <4> QED
        BY <4>2, <1>a, WriteTyped DEF DiskTyped
    <3>2. ASSUME NEW p \in Paths, NEW e \in Targets \cup {Absent, Folder}, UserPuts(p, e)
          PROVE <2>7!:
      BY <3>2, <1>a DEF UserPuts, DiskTyped, Entries
    <3>3. ASSUME NEW t \in Targets, NEW e \in {ByUser, Absent}, UserPulls(t, e)
          PROVE <2>7!:
      BY <3>3, <1>a, TextsIn DEF UserPulls, DiskTyped
    <3>4. ASSUME NEW d \in Dirs, UserRemovesDir(d) PROVE <2>7!:
      BY <3>4, <1>a DEF UserRemovesDir, DiskTyped, Entries
    <3> QED
      BY <1>11, <3>1, <3>2, <3>3, <3>4 DEF Others
  <2> QED
    BY <1>a, <2>2, <2>6, <2>7, TypeHalves DEF DiskTyped
<1>12. CASE UNCHANGED vars
  BY <1>12 DEF vars, disk, run, TypeOK
<1> QED
  BY <1>1, <1>2, <1>3, <1>4, <1>5, <1>6, <1>7, <1>8, <1>9, <1>10, <1>11, <1>12
     DEF Next, Step

-----------------------------------------------------------------------------
(* The inductive invariant, conjunct by conjunct.                          *)

LEMMA InvInit == Init => AInv
<1> SUFFICES ASSUME Init PROVE AInv
  OBVIOUS
<1>1. pc = "idle" /\ mode = "terminal" /\ fresh = FALSE /\ approved = {}
  BY DEF Init
<1> QED
  BY <1>1, InitType DEF AInv, KindOK, ConsentOK, ReadingOK, PrefixSettled, RestUntouched,
     Calls

LEMMA KindStep == TypeOK /\ KindOK /\ [Next]_vars => KindOK'
<1> SUFFICES ASSUME TypeOK, KindOK, [Next]_vars PROVE KindOK'
  OBVIOUS
<1>a. ASSUME at' = at PROVE Here' = Here
  BY <1>a DEF Here
<1>1. CASE pc' \in {"idle", "probe"}
  BY <1>1 DEF KindOK, Calls
<1>2. CASE Probe /\ pc' = "ask"
  <2>1. /\ status' = EntryStatus(Here) /\ status' \in Pending
        /\ at' = at /\ at <= Len(Order)
    BY <1>2 DEF Probe, Advance, Stop
  <2> QED
    BY <1>2, <1>a, <2>1, StatusTyped DEF KindOK, Calls, Pending
<1>3. ASSUME NEW yes \in BOOLEAN, Decide(yes), pc' \notin {"idle", "probe"} PROVE KindOK'
  <2>1. pc = "ask" /\ GoTo(FirstCall) /\ status # "modified" /\ at <= Len(Order)
    BY <1>3 DEF Decide, Advance, KindOK, Calls
  <2>2. at' = at /\ status' = status /\ pc' = FirstCall
    BY <2>1 DEF GoTo
  <2>3. Here \in Paths
    BY <2>1, HereIsPath
  <2> QED
    BY <1>a, <2>1, <2>2, <2>3, PathsPlaced DEF KindOK, Calls, FirstCall, Paths
<1>4. ASSUME NEW h \in Hunks, NEW yes \in BOOLEAN, DecideHunk(h, yes) PROVE KindOK'
  BY <1>4, <1>a DEF DecideHunk, KindOK, Calls
<1>5. CASE EndHunks /\ pc' = "write"
  BY <1>5, <1>a DEF EndHunks, Advance, GoTo, KindOK, Calls
<1>6. CASE Mkdir
  <2>1. at <= Len(Order) /\ Here \in Paths
    BY <1>6, HereIsPath DEF Mkdir, KindOK, Calls
  <2> QED
    BY <1>6, <1>a, <2>1, PathsPlaced DEF Mkdir, GoTo, KindOK, Calls, Paths
<1>7. CASE Unlink
  BY <1>7, <1>a DEF Unlink, GoTo, KindOK, Calls
<1>8. CASE Others
  <2>1. run' = run
    BY <1>8 DEF Others, UserWrites, UserPuts, UserPulls, UserRemovesDir, UserActs
  <2> QED
    BY <2>1, <1>a DEF run, KindOK, Calls
<1>9. CASE UNCHANGED vars
  BY <1>9, <1>a DEF vars, run, KindOK, Calls
<1> QED
  BY <1>1, <1>2, <1>3, <1>4, <1>5, <1>6, <1>7, <1>8, <1>9 DEF Next, Step, Start,
     Probe, ProbeFails, Finish, Decide, EndHunks, Write, WriteFails, Link, CallFails,
     Interrupt, Crash, Stop, Advance, GoTo

LEMMA ConsentStep == TypeOK /\ KindOK /\ ConsentOK /\ [Next]_vars => ConsentOK'
<1> SUFFICES ASSUME TypeOK, KindOK, ConsentOK, [Next]_vars PROVE ConsentOK'
  OBVIOUS
<1>a. ASSUME at' = at PROVE Here' = Here
  BY <1>a DEF Here
<1>b. ASSUME LeaveEntry, pc' \in {"idle", "probe"} PROVE ConsentOK'
  BY <1>b DEF LeaveEntry, ConsentOK, Calls
<1>2. ASSUME NEW m \in Modes, Start(m) PROVE ConsentOK'
  BY <1>2 DEF Start, ConsentOK, Calls
<1>3. CASE Probe /\ pc' = "ask"
  <2>1. /\ cur' = IF status' = "modified" THEN Reach(Here) ELSE Absent
        /\ todo' = IF status' = "modified" THEN Differing(Here) ELSE {}
        /\ approved' = {} /\ at' = at
    BY <1>3 DEF Probe, Advance, Stop
  <2> QED
    BY <1>3, <1>a, <2>1 DEF ConsentOK, Calls, Differing
<1>4. ASSUME NEW yes \in BOOLEAN, Decide(yes), GoTo(FirstCall) PROVE ConsentOK'
  <2>1. yes = TRUE /\ mode # "dry" /\ status # "modified" /\ FirstCall \in Calls
    <3>1. yes = TRUE
      BY <1>4 DEF Decide, GoTo, Advance, FirstCall
    <3>2. mode # "dry"
      BY <1>4, <3>1 DEF Decide, Answers
    <3> QED
      BY <1>4, <3>1, <3>2 DEF Decide, FirstCall, Calls
  <2> QED
    BY <1>4, <2>1 DEF GoTo, ConsentOK, Calls
<1>5. ASSUME NEW h \in Hunks, NEW yes \in BOOLEAN, DecideHunk(h, yes) PROVE ConsentOK'
  <2>1. mode = "yes" => yes = TRUE
    BY <1>5 DEF DecideHunk, Answers
  <2>2. mode = "dry" => yes = FALSE
    BY <1>5 DEF DecideHunk, Answers
  <2>3. /\ UNCHANGED <<pc, mode, at, status, cur>> /\ pc = "ask"
        /\ todo' = todo \ {h}
        /\ approved' = IF yes THEN approved \cup {h} ELSE approved
    BY <1>5 DEF DecideHunk
  <2> QED
    BY <1>a, <2>1, <2>2, <2>3 DEF ConsentOK, Calls
<1>6. CASE EndHunks /\ GoTo("write")
  <2>1. pc = "ask" /\ status = "modified" /\ todo = {} /\ approved # {}
    BY <1>6 DEF EndHunks, Advance, GoTo
  <2> QED
    BY <1>6, <1>a, <2>1 DEF GoTo, ConsentOK, Calls
<1>7. CASE Mkdir
  BY <1>7, <1>a DEF Mkdir, GoTo, KindOK, ConsentOK, Calls
<1>8. CASE Unlink
  BY <1>8, <1>a DEF Unlink, GoTo, KindOK, ConsentOK, Calls
<1>9. CASE run' = run
  BY <1>9, <1>a DEF run, ConsentOK, Calls
<1>10. Stop("ok") \/ Stop("failed") \/ Stop("interrupted") \/ Stop("crashed") \/ Advance
         => ConsentOK'
  BY <1>b DEF Stop, Advance
<1>11. CASE Others \/ UNCHANGED vars
  BY <1>9, <1>11 DEF Others, UserWrites, UserPuts, UserPulls, UserRemovesDir, UserActs, vars
<1>12. CASE Probe
  BY <1>3, <1>10, <1>12 DEF Probe
<1>13. ASSUME NEW yes \in BOOLEAN, Decide(yes) PROVE ConsentOK'
  BY <1>4, <1>10, <1>13 DEF Decide
<1>14. CASE EndHunks
  BY <1>6, <1>10, <1>14 DEF EndHunks
<1>15. CASE ProbeFails \/ Finish \/ Interrupt \/ Crash \/ CallFails \/ Write \/ WriteFails \/ Link
  BY <1>10, <1>15 DEF ProbeFails, Finish, Interrupt, Crash, CallFails, Write, WriteFails, Link
<1> QED
  BY <1>2, <1>5, <1>7, <1>8, <1>11, <1>12, <1>13, <1>14, <1>15 DEF Next, Step

\* The system calls and the others, who change the disk, against the rest.
LEMMA DiskSteps ==
  ASSUME [Next]_vars
  PROVE  \/ UNCHANGED disk
         \/ fresh' = FALSE /\ Others
         \/ Mkdir \/ Write \/ WriteFails \/ Unlink \/ Link
  BY DEF Next, Step, Start, Probe, ProbeFails, Finish, Decide, DecideHunk, EndHunks,
     CallFails, Interrupt, Crash, Others, UserWrites, UserPuts, UserPulls, UserRemovesDir,
     UserActs, vars

LEMMA ReadingStep == TypeOK /\ KindOK /\ ReadingOK /\ [Next]_vars => ReadingOK'
<1> SUFFICES ASSUME TypeOK, KindOK, ReadingOK, [Next]_vars,
                    fresh', pc' \in Calls \cup {"ask"}
             PROVE  ReadingOK'
  BY DEF ReadingOK
<1>a. ASSUME at' = at PROVE Here' = Here
  BY <1>a DEF Here
<1>1. CASE Probe
  <2>1. /\ status' = EntryStatus(Here) /\ at' = at /\ at <= Len(Order) /\ UNCHANGED disk
        /\ cur' = IF status' = "modified" THEN Reach(Here) ELSE Absent
        /\ status' \in Pending
        /\ pc' = "ask"
    BY <1>1 DEF Probe, Advance, Stop, Calls
  <2>2. Here' = Here /\ Reach(Here)' = Reach(Here)
    BY <1>a, <2>1 DEF Reach, disk
  <2>3. Here \in Links => EntryStatus(Here) = LinkStatus(Here)
    BY PathsPlaced DEF EntryStatus
  <2>4. status' = "wrong" => Here \in Links
    BY <2>1, StatusTyped, HereIsPath DEF Paths
  <2>5. status' = "wrong" => fs[Here] \in Targets \ {Real[Here]}
    BY <2>1, <2>3, <2>4 DEF LinkStatus
  <2>6. Here \in Links /\ status' # "wrong" => fs[Here] = Absent
    BY <2>1, <2>3 DEF LinkStatus, Pending
  <2> QED
    BY <2>1, <2>2, <2>5, <2>6 DEF ReadingOK, disk
<1>2. ASSUME NEW yes \in BOOLEAN, Decide(yes) PROVE ReadingOK'
  <2>1. pc = "ask" /\ GoTo(FirstCall) /\ status # "modified" /\ UNCHANGED disk
    BY <1>2 DEF Decide, Advance, Calls
  <2>2. UNCHANGED <<at, status, cur, fresh>> /\ pc' = FirstCall
    BY <2>1 DEF GoTo
  <2>3. status = "wrong" => FirstCall = "unlink"
    BY DEF FirstCall
  <2> QED
    BY <1>a, <2>1, <2>2, <2>3 DEF ReadingOK, Calls, disk
<1>3. ASSUME NEW h \in Hunks, NEW yes \in BOOLEAN, DecideHunk(h, yes) PROVE ReadingOK'
  BY <1>3, <1>a DEF DecideHunk, ReadingOK, Calls, disk, Reach
<1>4. CASE EndHunks
  <2>1. pc = "ask" /\ GoTo("write") /\ UNCHANGED disk
    BY <1>4 DEF EndHunks, Advance, Calls
  <2> QED
    BY <2>1, <1>a DEF GoTo, ReadingOK, Calls, disk, Reach
<1>5. CASE Mkdir
  BY <1>5, <1>a DEF Mkdir, GoTo, KindOK, ReadingOK, Calls
<1>6. CASE Unlink
  <2>1. at <= Len(Order) /\ Here \in Links /\ status = "wrong" /\ Here \in Paths
    BY <1>6, HereIsPath DEF Unlink, KindOK, Calls, Paths
  <2> QED
    BY <1>6, <1>a, <2>1 DEF Unlink, GoTo, ReadingOK, TypeOK
<1>7. CASE Others
  BY <1>7 DEF Others, UserWrites, UserPuts, UserPulls, UserRemovesDir, UserActs
<1>8. CASE UNCHANGED vars
  BY <1>8, <1>a DEF vars, run, disk, ReadingOK, Calls, Reach
<1> QED
  BY <1>1, <1>2, <1>3, <1>4, <1>5, <1>6, <1>7, <1>8 DEF Next, Step, Start,
     ProbeFails, Finish, Write, WriteFails, Link, CallFails,
     Interrupt, Crash, Stop, Advance, Calls

-----------------------------------------------------------------------------
(* The walk leaves settled entries behind it.                              *)

\* The status of an entry depends on nothing but what it leads to.
LEMMA SameStatus ==
  ASSUME NEW q \in Paths, fs'[q] = fs[q], UNCHANGED file,
         EntryStatus(q) \in {"ok", "real_missing"}
  PROVE  EntryStatus(q)' = EntryStatus(q)
  BY PathsPlaced DEF EntryStatus, GenStatus, LinkStatus, Reach

\* What a system call does to the entry at hand unsettles no other one.
LEMMA SettledKept ==
  ASSUME TypeOK, KindOK, Mkdir \/ Write \/ WriteFails \/ Unlink \/ Link,
         NEW q \in Paths, q # Here, Settled(q)
  PROVE  Settled(q)'
<1>1. at <= Len(Order) /\ Here \in Paths
  BY HereIsPath DEF KindOK, Calls, Mkdir, Write, WriteFails, Unlink, Link, TypeOK
<1>2. CASE UNCHANGED <<fs, file>>
  BY <1>2, SameStatus DEF Settled, Contended
<1>3. CASE Unlink \/ Link
  <2>0. Here \in Links
    BY <1>1, <1>3 DEF Unlink, Link, KindOK, Calls, Paths
  <2>1. fs'[q] = fs[q] /\ UNCHANGED file
    BY <1>1, <1>3 DEF Unlink, Link, TypeOK
  <2>2. \A g \in Gens : fs'[g] = fs[g]
    BY <1>1, <1>3, <2>0, PathsPlaced DEF Unlink, Link, TypeOK, Paths
  <2>3. q \in Gens /\ Contended(q) => Contended(q)'
    BY <2>2 DEF Contended
  <2> QED
    BY <2>1, <2>3, SameStatus DEF Settled
<1>4. ASSUME NEW c \in Texts, WriteText(Here, c), Here \in Gens PROVE Settled(q)'
  <2>1. CASE fs[Here] \notin Targets
    <3>1. fs' = [fs EXCEPT ![Here] = c] /\ UNCHANGED file
      BY <1>4, <2>1 DEF WriteText
    <3>2. fs'[q] = fs[q] /\ \A g \in Gens : fs[g] \in Targets => fs'[g] = fs[g]
      BY <1>1, <2>1, <3>1 DEF TypeOK, Paths
    <3>3. q \in Gens /\ Contended(q) => Contended(q)'
      BY <3>2 DEF Contended
    <3> QED
      BY <3>1, <3>2, <3>3, SameStatus DEF Settled
  <2>2. CASE fs[Here] \in Targets
    <3>1. file' = [file EXCEPT ![fs[Here]] = c] /\ UNCHANGED fs
      BY <1>4, <2>2 DEF WriteText
    <3>2. Contended(q)' <=> Contended(q)
      BY <3>1 DEF Contended
    <3>3. CASE q \in Gens /\ fs[q] = fs[Here]
      BY <1>4, <2>2, <3>2, <3>3, PathsPlaced DEF Settled, Contended, Paths
    <3>4. CASE q \in Gens /\ fs[q] # fs[Here]
      <4>1. Reach(q)' = Reach(q)
        BY <2>2, <3>1, <3>4 DEF Reach, TypeOK
      <4>2. EntryStatus(q)' = EntryStatus(q)
        BY <3>4, <4>1 DEF EntryStatus, GenStatus
      <4> QED
        BY <3>2, <4>2 DEF Settled
    <3>5. CASE q \in Links
      <4>1. q \notin Gens /\ LinkStatus(q) \in {"ok", "real_missing"} /\ Real[q] \in Targets
        BY <3>5, PathsPlaced DEF Settled, EntryStatus
      <4>2. fs[q] = Real[q]
        BY <4>1 DEF LinkStatus
      <4>3. fs'[q] = Real[q]
        BY <3>1, <4>2
      <4>4. LinkStatus(q)' \in {"ok", "real_missing"}
        BY <4>1, <4>3, EntriesDistinct DEF LinkStatus
      <4> QED
        BY <4>1, <4>4 DEF Settled, EntryStatus
    <3> QED
      BY <3>3, <3>4, <3>5 DEF Paths
  <2> QED
    BY <2>1, <2>2
<1>5. CASE Write \/ WriteFails
  <2>1. Here \in Gens /\ NewText \in Texts
    BY <1>1, <1>5, TextsIn DEF Write, WriteFails, KindOK, Calls, TypeOK, Paths
  <2>2. \A cut \in SUBSET Hunks :
          [h \in Hunks |-> IF h \in cut THEN Cut ELSE NewText[h]] \in Texts
    BY <2>1 DEF Texts
  <2> QED
    BY <1>2, <1>4, <1>5, <2>1, <2>2 DEF Write, WriteFails, disk
<1> QED
  BY <1>2, <1>3, <1>5 DEF Mkdir

\* With --yes and nobody else at work, the entry that is left behind is settled.
LEMMA HereSettled ==
  ASSUME AInv, [Next]_vars, mode = "yes", fresh, Advance
  PROVE  at <= Len(Order) /\ \A p \in Paths : p = Here => Settled(p)'
<1> TypeOK /\ KindOK /\ ConsentOK /\ ReadingOK
  BY DEF AInv
<1>1. \/ Probe \/ (\E yes \in BOOLEAN : Decide(yes)) \/ EndHunks \/ Write \/ Link
  <2>1. pc' = "probe" /\ at' = at + 1 /\ at \in Nat \ {0}
    BY LenIsNat DEF Advance, TypeOK
  <2>2. ~ \E how : Stop(how)
    BY <2>1 DEF Stop
  <2>3. ~ \E m \in Modes : Start(m)
    BY <2>1 DEF Start
  <2>4. ~ (Mkdir \/ Unlink \/ \E h \in Hunks, yes \in BOOLEAN : DecideHunk(h, yes))
    BY <2>1 DEF Mkdir, Unlink, GoTo, DecideHunk
  <2>5. run' # run
    BY <2>1 DEF run
  <2>6. ~ Others /\ ~ UNCHANGED vars
    BY <2>5 DEF Others, UserWrites, UserPuts, UserPulls, UserRemovesDir, UserActs, vars
  <2> QED
    BY <2>2, <2>3, <2>4, <2>6 DEF Next, Step, ProbeFails, Finish, WriteFails, CallFails,
       Interrupt, Crash
<1>2. at <= Len(Order)
  BY <1>1 DEF Probe, Decide, EndHunks, Write, Link, KindOK, Calls
<1>3. Here \in Paths
  BY <1>2, HereIsPath
<1>4. CASE EntryStatus(Here) = "ok" /\ UNCHANGED disk
  <2>1. \A p \in Paths : p = Here => EntryStatus(p)' = "ok"
    BY <1>4, SameStatus DEF disk
  <2> QED
    BY <1>2, <2>1 DEF Settled
<1>5. CASE Probe
  BY <1>4, <1>5 DEF Probe, Advance, Stop
<1>6. ASSUME NEW yes \in BOOLEAN, Decide(yes) PROVE FALSE
  <2>1. yes = TRUE
    BY <1>6 DEF Decide, Answers
  <2>2. GoTo(FirstCall) /\ FirstCall # "probe"
    BY <1>6, <2>1 DEF Decide, FirstCall
  <2> QED
    BY <2>2 DEF GoTo, Advance
<1>7. CASE EndHunks
  <2>1. pc = "ask" /\ status = "modified" /\ todo = {} /\ approved = {} /\ UNCHANGED disk
    BY <1>7 DEF EndHunks, GoTo, Advance
  <2>2. cur = Reach(Here) /\ cur \in Texts /\ Here \in Gens
    BY <1>2, <1>3, <2>1 DEF ReadingOK, Calls, TypeOK, KindOK, Paths
  <2>3. \A h \in Hunks : cur[h] = Here
    BY <2>1 DEF ConsentOK
  <2>4. Reach(Here) = Want(Here)
    BY <2>2, <2>3 DEF Want, Texts
  <2>5. EntryStatus(Here) = "ok"
    BY <2>2, <2>4, EntriesDistinct DEF EntryStatus, GenStatus
  <2> QED
    BY <1>4, <2>1, <2>5
<1>8. CASE Write
  <2>1. Here \in Gens /\ pc = "write"
    BY <1>3, <1>8 DEF Write, KindOK, Calls, Paths
  <2>2. NewText = Want(Here)
    <3>1. ASSUME NEW h \in Hunks, status = "modified", h \notin approved PROVE cur[h] = Here
      BY <2>1, <3>1 DEF ConsentOK
    <3> QED
      BY <3>1 DEF NewText, Want
  <2>3. WriteText(Here, Want(Here)) /\ Want(Here) \in Texts
    BY <1>8, <2>1, <2>2, TextsIn DEF Write
  <2>4. \A p \in Paths : p = Here => Reach(p)' = Want(p)
    BY <1>3, <2>3, EntriesDistinct DEF WriteText, Reach, TypeOK
  <2>5. \A p \in Paths : p = Here => EntryStatus(p)' = "ok"
    BY <2>1, <2>3, <2>4, EntriesDistinct DEF EntryStatus, GenStatus, Want
  <2> QED
    BY <1>2, <2>5 DEF Settled
<1>9. CASE Link
  <2>1. Here \in Links /\ Real[Here] \in Targets
    BY <1>2, <1>3, <1>9, HereIsPath DEF Link, KindOK, Calls, Paths
  <2>2. \A p \in Paths : p = Here => fs'[p] = Real[p]
    BY <1>9, <1>3 DEF Link, TypeOK
  <2>3. \A p \in Links : p = Here => LinkStatus(p)' \in {"ok", "real_missing"}
    BY <2>1, <2>2, EntriesDistinct DEF LinkStatus, Paths
  <2> QED
    BY <1>2, <2>1, <2>3, PathsPlaced DEF Settled, EntryStatus
<1> QED
  BY <1>1, <1>2, <1>5, <1>6, <1>7, <1>8, <1>9

\* Where the walk is after a step that nobody else made.
WalkMoves ==
  /\ UNCHANGED <<mode, fresh, base>>
  /\ at' = at \/ Advance
  /\ pc' = "idle" /\ outcome' = "ok" =>
       /\ at' = at
       /\ at > Len(Order) \/ (pc = "idle" /\ outcome = "ok")

LEMMA WalkSteps ==
  ASSUME [Next]_vars, fresh'
  PROVE  WalkMoves \/ \E m \in Modes : Start(m)
<1>1. ASSUME NEW how \in {"failed", "interrupted", "crashed"}, Stop(how) PROVE WalkMoves
  BY <1>1 DEF Stop, WalkMoves
<1>2. ASSUME Advance PROVE WalkMoves
  BY <1>2 DEF Advance, WalkMoves
<1>3. ASSUME NEW next \in {"mkdir", "write", "unlink", "link"}, GoTo(next) PROVE WalkMoves
  BY <1>3 DEF GoTo, WalkMoves
<1>4. CASE Probe
  <2>1. CASE pc' = "ask"
    BY <1>4, <2>1 DEF Probe, Advance, Stop, WalkMoves
  <2> QED
    BY <1>1, <1>2, <1>4, <2>1 DEF Probe
<1>5. CASE Finish
  BY <1>5 DEF Finish, Stop, WalkMoves
<1>6. ASSUME NEW yes \in BOOLEAN, Decide(yes) PROVE WalkMoves
  BY <1>2, <1>3, <1>6 DEF Decide, FirstCall
<1>7. ASSUME NEW h \in Hunks, NEW yes \in BOOLEAN, DecideHunk(h, yes) PROVE WalkMoves
  BY <1>7 DEF DecideHunk, WalkMoves
<1>8. CASE EndHunks \/ Mkdir \/ Unlink
  BY <1>2, <1>3, <1>8 DEF EndHunks, Mkdir, Unlink
<1>9. CASE Write \/ Link
  BY <1>2, <1>9 DEF Write, Link
<1>10. CASE ProbeFails \/ WriteFails \/ CallFails \/ Interrupt \/ Crash
  BY <1>1, <1>10 DEF ProbeFails, WriteFails, CallFails, Interrupt, Crash
<1>11. CASE Others
  BY <1>11 DEF Others, UserWrites, UserPuts, UserPulls, UserRemovesDir, UserActs
<1>12. CASE UNCHANGED vars
  BY <1>12 DEF vars, run, WalkMoves
<1> QED
  BY <1>4, <1>5, <1>6, <1>7, <1>8, <1>9, <1>10, <1>11, <1>12 DEF Next, Step

LEMMA PrefixStep == AInv /\ [Next]_vars => PrefixSettled'
<1> SUFFICES ASSUME AInv, [Next]_vars, mode' = "yes", fresh'
             PROVE  /\ \A i \in 1..(at' - 1) : Settled(Order[i])'
                    /\ pc' = "idle" /\ outcome' = "ok" => at' = Len(Order) + 1
  BY DEF PrefixSettled
<1> TypeOK /\ KindOK
  BY DEF AInv
<1>1. /\ Len(Order) \in Nat /\ at \in 1..(Len(Order) + 1)
      /\ \A i \in 1..Len(Order) : Order[i] \in Paths
  BY LenIsNat DEF TypeOK
<1>2. ASSUME NEW m \in Modes, Start(m) PROVE at' = 1 /\ pc' = "probe"
  BY <1>2 DEF Start
<1>4. ASSUME WalkMoves, NEW i \in 1..(at' - 1) PROVE Settled(Order[i])'
  <2>1. \A j \in 1..(at - 1) : Settled(Order[j])
    BY <1>4 DEF AInv, PrefixSettled, WalkMoves
  <2>2. ASSUME i \in 1..(at - 1) PROVE Settled(Order[i])'
    <3>1. i \in 1..Len(Order) /\ Order[i] \in Paths /\ Settled(Order[i]) /\ i # at
      BY <1>1, <2>1, <2>2
    <3>2. CASE UNCHANGED disk
      BY <3>1, <3>2, SameStatus DEF Settled, Contended, disk
    <3>3. CASE Mkdir \/ Write \/ WriteFails \/ Unlink \/ Link
      <4>1. at <= Len(Order)
        BY <3>3 DEF KindOK, Calls, Mkdir, Write, WriteFails, Unlink, Link
      <4>2. Order[i] # Here
        BY <3>1, <4>1, HereIsPath
      <4> QED
        BY <3>1, <3>3, <4>2, SettledKept
    <3> QED
      BY <3>2, <3>3, DiskSteps
  <2>3. CASE i \notin 1..(at - 1)
    <3>1. Advance /\ i = at
      <4>1. at' # at
        BY <1>4, <2>3
      <4>2. Advance /\ at' = at + 1
        BY <1>4, <4>1 DEF WalkMoves, Advance
      <4> QED
        BY <1>1, <1>4, <2>3, <4>2
    <3>2. at <= Len(Order) /\ \A p \in Paths : p = Here => Settled(p)'
      BY <1>4, <3>1, HereSettled DEF WalkMoves
    <3> QED
      BY <1>1, <3>1, <3>2 DEF Here
  <2> QED
    BY <2>2, <2>3
<1>5. \A i \in 1..(at' - 1) : Settled(Order[i])'
  BY <1>2, <1>4, WalkSteps
<1>6. pc' = "idle" /\ outcome' = "ok" => at' = Len(Order) + 1
  <2>1. ASSUME WalkMoves, pc' = "idle", outcome' = "ok" PROVE at' = Len(Order) + 1
    <3>1. mode = "yes" /\ fresh
      BY <2>1 DEF WalkMoves
    <3>2. at' = at /\ (at > Len(Order) \/ (pc = "idle" /\ outcome = "ok"))
      BY <2>1, Zenon DEF WalkMoves
    <3>3. pc = "idle" /\ outcome = "ok" => at = Len(Order) + 1
      BY <3>1 DEF AInv, PrefixSettled
    <3> QED
      BY <1>1, <3>2, <3>3
  <2> QED
    BY <1>2, <2>1, WalkSteps
<1> QED
  BY <1>5, <1>6

LEMMA RestStep == AInv /\ [Next]_vars => RestUntouched'
<1> SUFFICES ASSUME AInv, [Next]_vars, fresh', NEW i \in (at' + 1)..Len(Order)
             PROVE  fs'[Order[i]] = base'[Order[i]]
  BY DEF RestUntouched
<1> TypeOK /\ KindOK
  BY DEF AInv
<1>1. CASE \E m \in Modes : Start(m)
  BY <1>1 DEF Start, disk
<1>2. CASE WalkMoves
  <2>1. /\ Len(Order) \in Nat /\ at \in 1..(Len(Order) + 1)
        /\ \A j \in 1..Len(Order) : Order[j] \in Paths
    BY LenIsNat DEF TypeOK
  <2>2. at' = at \/ at' = at + 1
    BY <1>2 DEF WalkMoves, Advance
  <2>3. i \in (at + 1)..Len(Order) /\ Order[i] \in Paths /\ i \in 1..Len(Order)
    BY <2>1, <2>2
  <2>4. fresh /\ base' = base
    BY <1>2 DEF WalkMoves
  <2>5. fs[Order[i]] = base[Order[i]]
    BY <2>3, <2>4 DEF AInv, RestUntouched
  <2>6. CASE UNCHANGED disk
    BY <2>4, <2>5, <2>6 DEF disk
  <2>7. CASE Mkdir \/ Write \/ WriteFails \/ Unlink \/ Link
    <3>1. at <= Len(Order)
      BY <2>7 DEF KindOK, Calls, Mkdir, Write, WriteFails, Unlink, Link
    <3>2. Order[i] # Here
      BY <2>1, <2>3, <3>1, HereIsPath
    <3>3. fs'[Order[i]] = fs[Order[i]]
      BY <2>3, <2>7, <3>2 DEF Mkdir, Write, WriteFails, WriteText, Unlink, Link, TypeOK, disk
    <3> QED
      BY <2>4, <2>5, <3>3
  <2> QED
    BY <2>6, <2>7, DiskSteps
<1> QED
  BY <1>1, <1>2, WalkSteps

LEMMA InvStep == AInv /\ [Next]_vars => AInv'
  BY TypeStep, KindStep, ConsentStep, ReadingStep, PrefixStep, RestStep DEF AInv

\* The inductive invariant, and with it the type invariant, holds of every behaviour.
THEOREM Invariant == Spec => []AInv
  BY InvInit, InvStep, PTL DEF Spec

-----------------------------------------------------------------------------
(* What the invariant gives.                                               *)

\* Every entry that apply --yes has passed is settled, however the run goes on.
THEOREM AppliedPrefixIsSettled == Spec => []PrefixSettled
<1>1. AInv => PrefixSettled
  BY DEF AInv
<1> QED
  BY <1>1, Invariant, PTL

\* An error ends the walk: what comes after it is untouched.
THEOREM RestIsUntouched == Spec => []RestUntouched
<1>1. AInv => RestUntouched
  BY DEF AInv
<1> QED
  BY <1>1, Invariant, PTL

\* apply never replaces a file or a directory by a symlink, unless it came to be
\* there while the prompter waited.
THEOREM FilesAreKept == Spec => KeepsFiles
<1>1. AInv /\ [Next]_vars =>
        [fresh /\ fresh' =>
          \A p \in Links : fs[p] \in Texts \cup {Folder} => fs'[p] = fs[p]]_vars
  <2> SUFFICES ASSUME AInv, [Next]_vars, fresh, fresh', NEW p \in Links,
                      fs[p] \in Texts \cup {Folder}
               PROVE  fs'[p] = fs[p]
    OBVIOUS
  <2> TypeOK /\ KindOK /\ ReadingOK
    BY DEF AInv
  <2>1. CASE UNCHANGED fs
    BY <2>1
  <2>2. CASE Write \/ WriteFails
    <3>1. Here \in Gens
      BY <2>2, HereIsPath DEF Write, WriteFails, KindOK, Calls, Paths
    <3>2. p # Here /\ p \in Paths
      BY <3>1, PathsPlaced DEF Paths
    <3> QED
      BY <2>2, <3>2 DEF Write, WriteFails, WriteText, TypeOK, disk
  <2>3. CASE Unlink
    <3>1. fs[Here] \in Targets
      BY <2>3 DEF Unlink, KindOK, ReadingOK, Calls
    <3>2. p # Here
      BY <3>1, EntriesDistinct
    <3> QED
      BY <2>3, <3>2 DEF Unlink, TypeOK, Paths
  <2>4. CASE Link
    <3>1. fs[Here] = Absent
      BY <2>4 DEF Link
    <3>2. p # Here
      BY <3>1, EntriesDistinct
    <3> QED
      BY <2>4, <3>2 DEF Link, TypeOK, Paths
  <2> QED
    BY <2>1, <2>2, <2>3, <2>4, DiskSteps DEF Mkdir, disk
<1> QED
  BY <1>1, Invariant, PTL DEF Spec, KeepsFiles

\* --dry-run, which shows every change, makes none.
THEOREM DryRunIsDry == Spec => DryRunWritesNothing
<1>1. AInv /\ [Next]_vars =>
        [mode = "dry" /\ pc # "idle" /\ edits' = edits => UNCHANGED disk]_vars
  <2> SUFFICES ASSUME AInv, [Next]_vars, mode = "dry", edits' = edits
               PROVE  UNCHANGED disk
    OBVIOUS
  <2>1. pc \notin Calls
    BY DEF AInv, ConsentOK
  <2>2. ~ Others
    <3>1. ASSUME UserActs PROVE FALSE
      BY <3>1 DEF UserActs, AInv, TypeOK
    <3> QED
      BY <3>1 DEF Others, UserWrites, UserPuts, UserPulls, UserRemovesDir
  <2> QED
    BY <2>1, <2>2, DiskSteps DEF Calls, Mkdir, Write, WriteFails, Unlink, Link
<1> QED
  BY <1>1, Invariant, PTL DEF Spec, DryRunWritesNothing

\* The hunks the user rejected are in the file as they were read.
THEOREM RejectedAreKept == Spec => KeepsRejected
<1>1. AInv /\ [Next]_vars =>
        [fresh /\ pc = "write" /\ status = "modified" =>
          \A h \in Hunks \ approved, p \in Paths :
            p = Here => Reach(p)'[h] \in {Reach(p)[h], Cut}]_vars
  <2> SUFFICES ASSUME AInv, [Next]_vars, fresh, pc = "write", status = "modified",
                      NEW h \in Hunks \ approved, NEW p \in Paths, p = Here
               PROVE  Reach(p)'[h] \in {Reach(p)[h], Cut}
    OBVIOUS
  <2> TypeOK /\ KindOK /\ ReadingOK
    BY DEF AInv
  <2>1. cur = Reach(p) /\ p \in Gens /\ cur \in Texts
    BY PathsPlaced DEF ReadingOK, Calls, KindOK, TypeOK, Paths
  <2>2. NewText[h] = Reach(p)[h]
    BY <2>1 DEF NewText
  <2>3. CASE UNCHANGED <<fs, file>>
    BY <2>3 DEF Reach
  <2>4. ASSUME NEW c \in Texts, WriteText(p, c), c[h] \in {NewText[h], Cut}
        PROVE  Reach(p)'[h] \in {Reach(p)[h], Cut}
    <3>1. Reach(p)' = c
      BY <2>4, EntriesDistinct DEF WriteText, Reach, TypeOK
    <3> QED
      BY <2>2, <2>4, <3>1
  <2>5. CASE Write \/ WriteFails
    <3>1. NewText \in Texts
      BY <2>1, TextsIn DEF KindOK, Calls
    <3>2. \A cut \in SUBSET Hunks :
            LET c == [q \in Hunks |-> IF q \in cut THEN Cut ELSE NewText[q]]
            IN  c \in Texts /\ c[h] \in {NewText[h], Cut}
      BY <3>1 DEF Texts
    <3> QED
      BY <2>3, <2>4, <2>5, <3>1, <3>2 DEF Write, WriteFails, disk
  <2>6. CASE Others
    BY <2>6 DEF Others, UserWrites, UserPuts, UserPulls, UserRemovesDir, UserActs, Waiting
  <2> QED
    BY <2>3, <2>5, <2>6, DiskSteps DEF Mkdir, Unlink, Link, disk
<1> QED
  BY <1>1, Invariant, PTL DEF Spec, KeepsRejected
==============================================================================
