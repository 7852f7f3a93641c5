------------------------------ MODULE PkgsProofs ------------------------------
(* A command asks its questions as Conditions allows, for every config: what  *)
(* is proved of Conditions holds of the conditions in a command.              *)
EXTENDS PkgsInv, ConditionsProofs

\* The config that was loaded stays, and the walks count packages from 1.
UserOK == user \in Configs /\ pkg \in Nat \ {0}

LEMMA InitRefines ==
  ASSUME Init
  PROVE  CInit /\ UserOK
<1> DEFINE table == Merged(user)
<1>1. /\ user \in Configs /\ keys \in Orders /\ CStart /\ pkg = 1
      /\ ToSet(keys) = {n \in Names : Known(n)}
      /\ byName = Registry(table)
  BY DEF Init
<1>2. ASSUME NEW n \in Names
      PROVE  /\ byName[n] \in Exprs \cup {None}
             /\ Known(n) => Node[byName[n]].kind # "ref"
  <2>1. CASE n \in DOMAIN table /\ Deserializes(table)
    <3>1. PICK kind \in DOMAIN table[n] : DOMAIN table[n] = {kind}
      BY <2>1 DEF Deserializes
    <3>2. (CHOOSE k \in DOMAIN table[n] : TRUE) = kind
      BY <3>1
    <3>3. byName[n] = table[n][kind]
      BY <1>1, <2>1, <3>2, Zenon DEF Registry
    <3>4. table[n][kind] \in Exprs /\ Node[table[n][kind]].kind # "ref"
      BY <1>1, <2>1, <3>1, ConfigsParse
    <3> QED BY <3>3, <3>4
  <2>2. CASE ~(n \in DOMAIN table /\ Deserializes(table))
    <3>1. byName[n] = None
      BY <1>1, <2>2, Zenon DEF Registry
    <3> QED BY <3>1 DEF Known
  <2> QED BY <2>1, <2>2
<1>3. byName \in [Names -> Exprs \cup {None}]
  <2> DEFINE R(n) == IF n \in DOMAIN table /\ Deserializes(table)
                     THEN table[n][CHOOSE kind \in DOMAIN table[n] : TRUE]
                     ELSE None
  <2>1. byName = [n \in Names |-> R(n)]
    BY <1>1, Zenon DEF Registry
  <2> HIDE DEF R
  <2> QED BY <1>2, <2>1
<1>4. \A e \in Named : Node[e].kind # "ref"
  BY <1>2 DEF Named
<1>5. keys \in Seq(Names) /\ DOMAIN keys = 1..Len(keys)
  BY <1>1, ConfigsParse
<1>6. \A n \in Names : Known(n) => \E k \in 1..Len(keys) : keys[k] = n
  BY <1>1, <1>5 DEF ToSet
<1>7. \A k \in 1..Len(keys) : Known(keys[k])
  BY <1>1, <1>5 DEF ToSet
<1> QED BY <1>1, <1>3, <1>4, <1>5, <1>6, <1>7 DEF CInit, UserOK

\* A question is put to the `when` or the `detect` of a package there is.
LEMMA Package ==
  ASSUME UserOK, InWalk
  PROVE  /\ Pkg.when \in Exprs \cup {None}
         /\ Pkg.detect \in Exprs \cup {None}
         /\ Pkg.inputs \in SUBSET Vars
<1>1. pkg \in 1..Len(user.pkgs)
  BY ConfigsParse DEF UserOK, InWalk
<1> QED BY <1>1, ConfigsParse DEF UserOK, Pkg

\* Each step of a command is a step of Conditions, or leaves it alone.
LEMMA StepRefines ==
  ASSUME UserOK, [Next]_vars
  PROVE  [CNext]_cvars
<1>1. ASSUME InWalk, AskDetect PROVE [CNext]_cvars
  <2>1. UNCHANGED cvars \/ (Pkg.detect # None /\ Ask(Pkg.detect, Pkg.inputs))
    BY <1>1 DEF AskDetect
  <2> QED BY <1>1, <2>1, Package DEF CNext
<1>2. CASE ParseFails \/ CompileFails \/ BrewProbeFails \/ ManagerFails \/ DetectAnswered
           \/ EvaluationFails \/ EndWalk \/ RenderFails \/ SshFails \/ Finish
  BY <1>2 DEF ParseFails, CompileFails, BrewProbeFails, ManagerFails, DetectAnswered,
              EvaluationFails, EndWalk, RenderFails, SshFails, Finish
<1>3. CASE Compiles
  BY <1>3 DEF Compiles, CNext
<1>4. CASE Loaded
  BY <1>4, ConfigsParse DEF Loaded, CNext
<1>5. CASE StartQuestion
  <2>1. InWalk /\ (UNCHANGED cvars \/ AskDetect \/ (Pkg.when # None /\ Ask(Pkg.when, {})))
    BY <1>5 DEF StartQuestion
  <2> QED BY <1>1, <2>1, Package DEF CNext
<1>6. CASE WhenAnswered
  <2>1. InWalk /\ (UNCHANGED cvars \/ AskDetect)
    BY <1>6 DEF WhenAnswered, Answered
  <2> QED BY <1>1, <2>1
<1>7. CASE Evaluates
  BY <1>7 DEF Evaluates, CNext
<1>8. CASE EnvHostChanges
  BY <1>8 DEF EnvHostChanges, CNext
<1>9. CASE UNCHANGED vars
  BY <1>9 DEF vars
<1> QED BY <1>2, <1>3, <1>4, <1>5, <1>6, <1>7, <1>8, <1>9 DEF Next, Step

LEMMA StepUser ==
  ASSUME UserOK, [Next]_vars
  PROVE  UserOK'
<1> USE DEF UserOK
<1>1. ASSUME NEW yes, Answer(yes) PROVE UserOK'
  BY <1>1 DEF Answer, Proceeds, Stop, NextPkg, NextQuestion
<1>2. ASSUME NEW out, Stop(out) PROVE UserOK'
  BY <1>2 DEF Stop
<1>3. ASSUME AskDetect PROVE UserOK'
  <2>1. (\E yes : Answer(yes)) \/ UNCHANGED <<user, pkg>>
    BY <1>3 DEF AskDetect
  <2> QED BY <1>1, <2>1
<1>4. CASE StartQuestion
  <2>1. (\E yes : Answer(yes)) \/ AskDetect \/ UNCHANGED <<user, pkg>>
    BY <1>4 DEF StartQuestion
  <2> QED BY <1>1, <1>3, <2>1
<1>5. CASE WhenAnswered
  <2>1. (\E yes : Answer(yes)) \/ AskDetect
    BY <1>5 DEF WhenAnswered
  <2> QED BY <1>1, <1>3, <2>1
<1>6. CASE DetectAnswered
  <2>1. \E yes : Answer(yes)
    BY <1>6 DEF DetectAnswered
  <2> QED BY <1>1, <2>1
<1>7. CASE Compiles \/ Loaded \/ Evaluates \/ EnvHostChanges \/ UNCHANGED vars
  BY <1>7 DEF Compiles, Loaded, Evaluates, EnvHostChanges, pvars, vars
<1>8. CASE ParseFails \/ CompileFails \/ BrewProbeFails \/ ManagerFails
           \/ EvaluationFails \/ RenderFails \/ SshFails \/ Finish
  <2>1. \E out : Stop(out)
    BY <1>8 DEF ParseFails, CompileFails, BrewProbeFails, ManagerFails,
                EvaluationFails, RenderFails, SshFails, Finish
  <2> QED BY <1>2, <2>1
<1>9. CASE EndWalk
  BY <1>9 DEF EndWalk
<1> QED BY <1>4, <1>5, <1>6, <1>7, <1>8, <1>9 DEF Next, Step

\* A command is a behaviour of Conditions: what it loads is a registry, and it
\* asks one thing at a time, with compile over (config/mod.rs:163, 228).
THEOREM CommandRefines == Spec => CSpec
<1>1. Init => CInit /\ UserOK
  BY InitRefines
<1>2. UserOK /\ [Next]_vars => UserOK' /\ [CNext]_cvars
  BY StepUser, StepRefines
<1> QED BY <1>1, <1>2, PTL DEF Spec, CSpec

\* In no command does an evaluation meet itself (condition.rs:167).
THEOREM CommandNeverReenters == Spec => []NoReentry
BY CommandRefines, NeverReenters, PTL

\* Every command compiles its conditions exactly (condition.rs:93).
THEOREM CommandDecidesExactly == Spec => CompileExact
BY CommandRefines, DecidesExactly, PTL

\* The invariant of Conditions holds throughout a command (condition.rs:138).
THEOREM CommandInvariant == Spec => []CInv
BY CommandRefines, Invariant, PTL
-----------------------------------------------------------------------------
(* Where a command is.                                                     *)

\* The questions that the walks put to a package.
LEMMA QuestionIs ==
  ASSUME PlaceOK
  PROVE  /\ Len(user.pkgs) \in Nat /\ Len(Walks) \in Nat /\ Len(Walks) >= 2
         /\ command.name = "pkg" => Len(Walks) = 2
         /\ stage <= Len(Walks) => Len(Questions) \in {1, 2}
         /\ InWalk /\ command.name = "pkg" =>
              /\ stage = 1 => Stage = "visible" /\ Question = "relevant" /\ asking = 1
              /\ stage # 1 => /\ stage = 2 /\ Stage = "state"
                              /\ Question = IF asking = 1 THEN "installed" ELSE "matched"
         /\ InWalk /\ command.name # "pkg" =>
              /\ stage = 1 => /\ Stage = "health" /\ Len(Questions) = 2
                              /\ Question = IF asking = 1 THEN "missing" ELSE "matches"
              /\ stage # 1 => /\ Stage \notin {"health", "visible", "state"}
                              /\ Question = "installed" /\ asking = 1
<1>1. Len(user.pkgs) \in Nat /\ stage \in Nat \ {0} /\ asking \in {1, 2}
  BY ConfigsParse DEF PlaceOK
<1>2. InWalk => stage <= Len(Walks) /\ asking <= Len(Questions)
  BY DEF InWalk, PlaceOK
<1>3. CASE command.name = "pkg"
  <2>1. Walks = <<"visible", "state">>
    BY <1>3 DEF Walks
  <2>2. Len(Walks) = 2 /\ (stage <= 2 => stage = 1 \/ stage = 2)
    BY <1>1, <2>1
  <2>3. stage = 1 => Stage = "visible" /\ Questions = <<"relevant">>
    BY <2>1 DEF Stage, Questions
  <2>4. stage = 2 => /\ Stage = "state"
                     /\ Questions \in {<<"installed", "matched">>, <<"installed">>}
    BY <2>1 DEF Stage, Questions
  <2>5. InWalk => stage \in {1, 2} /\ asking <= Len(Questions) /\ Question = Questions[asking]
    BY <1>1, <1>2, <2>2 DEF Question
  <2>6. InWalk /\ stage = 1 => asking = 1 /\ Question = "relevant"
    <3>1. stage = 1 => Len(Questions) = 1 /\ Questions[1] = "relevant"
      BY <2>3
    <3>2. InWalk /\ stage = 1 => asking <= 1
      BY <2>5, <3>1
    <3>3. asking <= 1 => asking = 1
      BY <1>1
    <3> QED BY <2>5, <3>1, <3>2, <3>3
  <2>7. InWalk /\ stage # 1 =>
          stage = 2 /\ Stage = "state" /\ Question = IF asking = 1 THEN "installed" ELSE "matched"
    BY <1>1, <2>4, <2>5
  <2>8. stage <= Len(Walks) => Len(Questions) \in {1, 2}
    BY <1>1, <2>2, <2>3, <2>4
  <2> QED BY <1>1, <1>3, <2>2, <2>3, <2>6, <2>7, <2>8
<1>4. CASE command.name # "pkg"
  <2>1. Walks \in {<<"health", "configs">>,
                   <<"health", "env", "login", "interactive", "configs">>}
    BY <1>4 DEF Walks
  <2>2. Len(Walks) \in {2, 5}
    BY <2>1
  <2>3. stage = 1 => Stage = "health" /\ Questions = <<"missing", "matches">>
    BY <2>1 DEF Stage, Questions
  <2>4. stage # 1 /\ stage <= Len(Walks) =>
          Stage \in {"env", "login", "interactive", "configs"}
    BY <1>1, <2>1 DEF Stage
  <2>5. stage # 1 /\ stage <= Len(Walks) => Questions = <<"installed">>
    BY <2>4 DEF Questions
  <2>6. InWalk => asking <= Len(Questions) /\ Question = Questions[asking] /\ stage <= Len(Walks)
    BY <1>2 DEF Question
  <2>7. InWalk /\ stage = 1 =>
          Len(Questions) = 2 /\ Question = IF asking = 1 THEN "missing" ELSE "matches"
    BY <1>1, <2>3, <2>6
  <2>8. InWalk /\ stage # 1 =>
          Stage \notin {"health", "visible", "state"} /\ Question = "installed" /\ asking = 1
    <3>1. stage # 1 /\ stage <= Len(Walks) => Len(Questions) = 1 /\ Questions[1] = "installed"
      BY <2>5
    <3>2. InWalk /\ stage # 1 => asking <= 1
      BY <2>6, <3>1
    <3>3. asking <= 1 => asking = 1
      BY <1>1
    <3> QED BY <2>4, <2>6, <3>1, <3>2, <3>3
  <2>9. stage <= Len(Walks) => Len(Questions) \in {1, 2}
    BY <2>3, <2>5
  <2>10. Len(Walks) \in Nat /\ Len(Walks) >= 2
    BY <2>2
  <2> QED BY <1>1, <1>4, <2>3, <2>7, <2>8, <2>9, <2>10
<1> QED BY <1>3, <1>4

LEMMA AnswerPlace ==
  ASSUME PlaceOK, InWalk, NEW yes, Proceeds(yes), UNCHANGED cvars
  PROVE  /\ PlaceOK'
         /\ phase' = "run" /\ part' = "start"
         /\ stage' = stage /\ UNCHANGED <<user, command, cvars>>
         /\ \/ pkg' = pkg + 1 /\ asking' = 1
            \/ pkg' = pkg /\ asking = 1 /\ asking' = 2 /\ asking < Len(Questions)
               /\ ~(Question = "missing" /\ yes)
<1>1. /\ phase' = phase /\ phase = "run" /\ stage' = stage /\ outcome' = outcome
      /\ UNCHANGED <<user, command, events, steady, verdict>>
      /\ part' = "start" /\ Walks' = Walks
      /\ pkg \in Nat \ {0} /\ asking \in {1, 2} /\ pkg <= Len(user.pkgs)
      /\ stage <= Len(Walks)
  BY DEF Proceeds, InWalk, PlaceOK, NextPkg, NextQuestion, cvars, compileVars, evalVars, Walks
<1>2. Len(Questions) \in {1, 2} /\ Len(Questions)' = Len(Questions)
  BY <1>1, QuestionIs DEF Questions, Stage
<1>3. \/ pkg' = pkg + 1 /\ asking' = 1
      \/ pkg' = pkg /\ asking = 1 /\ asking' = 2 /\ asking < Len(Questions)
         /\ ~(Question = "missing" /\ yes)
  BY <1>1, <1>2 DEF Proceeds, NextPkg, NextQuestion
<1>4. PlaceOK'
  <2>1. InWalk' => asking' <= Len(Questions)'
    BY <1>1, <1>2, <1>3
  <2>2. ~InWalk' => asking' = 1
    BY <1>1, <1>3 DEF InWalk
  <2> QED BY <1>1, <1>3, <2>1, <2>2 DEF PlaceOK
<1> QED BY <1>1, <1>3, <1>4

\* What is true of the packages stays true while host and registry do.
LEMMA TruthsKept ==
  ASSUME UNCHANGED <<user, byName, system, host>>
  PROVE  \A p : /\ Relevant(p)' = Relevant(p) /\ Detected(p)' = Detected(p)
                /\ Installed(p)' = Installed(p) /\ Expected(p)' = Expected(p)
<1>1. \A p : Relevant(p)' = Relevant(p)
  BY DEF Relevant, Meaning, Means, Expands, Known, Child, Arity
<1>2. \A p : Detected(p)' = Detected(p)
  BY DEF Detected, Meaning, Means, Expands, Known, Child, Arity
<1> QED BY <1>1, <1>2 DEF Installed, Expected

\* An answer to the question at hand that is true of the package.
True(yes) ==
  /\ Question = "missing" => (yes <=> Expected(pkg) /\ ~Detected(pkg))
  /\ Question = "matches" => (yes <=> Expected(pkg) /\ Detected(pkg))
  /\ Question = "relevant" => (yes <=> Relevant(pkg) /\ (Pkg.enable = "disabled" => command.all))
  /\ Question = "installed" => (yes <=> Installed(pkg))

\* An answer of the walks of `apply` that some host can give.
Possible(yes) ==
  command.name # "pkg" /\ Question = "installed" =>
    /\ yes => Pkg.enable # "disabled"
    /\ Pkg.enable # "disabled" /\ Pkg.when = None /\ Pkg.detect = None => yes

-----------------------------------------------------------------------------
(* The table of the files.                                                 *)

\* A declaration more is a path inserted.
LEMMA InsertTabulates ==
  ASSUME NEW fs \in Seq(Entries), NEW ds \in Seq(Entries), Tabulates(fs, ds),
         NEW path \in Paths, NEW owner \in Nat
  PROVE  /\ Insert(fs, path, owner) \in Seq(Entries)
         /\ Tabulates(Insert(fs, path, owner), Append(ds, [path |-> path, owner |-> owner]))
<1> DEFINE r == [path |-> path, owner |-> owner]
           gs == Insert(fs, path, owner)
           es == Append(ds, r)
           n == Len(ds)
<1>1. r \in Entries /\ r.path = path
  BY DEF Entries
<1>2. /\ n \in Nat /\ Len(es) = n + 1 /\ es[n + 1] = r /\ n + 1 \in 1..(n + 1)
      /\ \A d \in 1..n : es[d] = ds[d] /\ d \in 1..(n + 1)
      /\ \A d \in 1..(n + 1) : d \in 1..n \/ d = n + 1
      /\ \A d \in 1..n : ds[d] \in Entries
      /\ Len(fs) \in Nat /\ \A k \in 1..Len(fs) : fs[k] \in Entries
  BY <1>1
<1> HIDE DEF r, es, n
<1>3. \A d \in 1..n : /\ IsFirst(es, d) <=> IsFirst(ds, d)
                      /\ IsLast(es, d) <=> IsLast(ds, d) /\ ds[d].path # path
  <2> TAKE d \in 1..n
  <2>1. \A c \in 1..(d - 1) : c \in 1..n
    BY <1>2
  <2>2. IsFirst(es, d) <=> IsFirst(ds, d)
    BY <1>2, <2>1 DEF IsFirst
  <2>3. \A e \in (d + 1)..(n + 1) : e \in (d + 1)..n \/ e = n + 1
    BY <1>2
  <2>4. \A e \in (d + 1)..n : e \in 1..n /\ e \in (d + 1)..(n + 1)
    BY <1>2
  <2>5. n + 1 \in (d + 1)..(n + 1)
    BY <1>2
  <2>6. IsLast(es, d) <=> IsLast(ds, d) /\ ds[d].path # path
    BY <1>1, <1>2, <2>3, <2>4, <2>5 DEF IsLast, n
  <2> QED BY <2>2, <2>6
<1>4. IsLast(es, n + 1)
  <2>1. \A e \in ((n + 1) + 1)..Len(es) : FALSE
    BY <1>2
  <2> QED BY <2>1 DEF IsLast
<1>5. /\ \A d \in 1..n : \E k \in 1..Len(fs) : fs[k].path = ds[d].path
      /\ \A k \in 1..Len(fs) : \E d \in 1..n : IsLast(ds, d) /\ fs[k] = ds[d]
      /\ \A j, k \in 1..Len(fs) : \A c, d \in 1..n :
           /\ j < k
           /\ IsFirst(ds, c) /\ ds[c].path = fs[j].path
           /\ IsFirst(ds, d) /\ ds[d].path = fs[k].path
           => c < d
  BY DEF Tabulates, n
<1>6. CASE \E k \in 1..Len(fs) : fs[k].path = path
  <2> DEFINE g(k) == IF fs[k].path = path THEN [fs[k] EXCEPT !.owner = owner] ELSE fs[k]
  <2>1. gs = [k \in 1..Len(fs) |-> g(k)]
    BY <1>6 DEF Insert
  <2>2. \A k \in 1..Len(fs) : g(k) = IF fs[k].path = path THEN r ELSE fs[k]
    BY <1>2, SMTT(30) DEF r, Entries
  <2> HIDE DEF g
  <2>3. \A k \in 1..Len(fs) : g(k) \in Entries
    BY <1>1, <1>2, <2>2
  <2>4. /\ gs \in Seq(Entries) /\ Len(gs) = Len(fs)
        /\ \A k \in 1..Len(fs) : gs[k] = IF fs[k].path = path THEN r ELSE fs[k]
    BY <1>2, <2>1, <2>2, <2>3
  <2>5. \A k \in 1..Len(fs) : gs[k].path = fs[k].path
    BY <1>1, <2>4
  <2> HIDE DEF gs
  <2>6. \E d \in 1..n : ds[d].path = path
    BY <1>5, <1>6
  <2>7. ~IsFirst(es, n + 1)
    <3>1. PICK d \in 1..n : ds[d].path = path
      BY <2>6
    <3>2. d \in 1..((n + 1) - 1)
      BY <1>2
    <3> QED BY <1>1, <1>2, <3>1, <3>2 DEF IsFirst
  <2>8. \A d \in 1..(n + 1) : \E k \in 1..Len(gs) : gs[k].path = es[d].path
    <3> TAKE d \in 1..(n + 1)
    <3>1. CASE d \in 1..n
      BY <1>2, <1>5, <2>4, <2>5, <3>1
    <3>2. CASE d = n + 1
      BY <1>1, <1>2, <1>6, <2>4, <2>5, <3>2
    <3> QED BY <1>2, <3>1, <3>2
  <2>9. \A k \in 1..Len(gs) : \E d \in 1..(n + 1) : IsLast(es, d) /\ gs[k] = es[d]
    <3> TAKE k \in 1..Len(gs)
    <3>1. CASE fs[k].path = path
      BY <1>2, <1>4, <2>4, <3>1
    <3>2. CASE fs[k].path # path
      BY <1>2, <1>3, <1>5, <2>4, <3>2
    <3> QED BY <3>1, <3>2
  <2>10. ASSUME NEW j \in 1..Len(gs), NEW k \in 1..Len(gs), j < k,
                NEW c \in 1..(n + 1), IsFirst(es, c), es[c].path = gs[j].path,
                NEW d \in 1..(n + 1), IsFirst(es, d), es[d].path = gs[k].path
         PROVE  c < d
    <3>1. c \in 1..n /\ d \in 1..n
      BY <1>2, <2>7, <2>10
    <3> QED BY <1>2, <1>3, <1>5, <2>4, <2>5, <2>10, <3>1
  <2> QED BY <1>2, <2>4, <2>8, <2>9, <2>10 DEF Tabulates, gs, es, r
<1>7. CASE ~\E k \in 1..Len(fs) : fs[k].path = path
  <2>1. gs = Append(fs, r)
    BY <1>7, Zenon DEF Insert, r
  <2>2. /\ gs \in Seq(Entries) /\ Len(gs) = Len(fs) + 1 /\ gs[Len(fs) + 1] = r
        /\ \A k \in 1..Len(fs) : gs[k] = fs[k] /\ k \in 1..Len(gs)
        /\ \A k \in 1..Len(gs) : k \in 1..Len(fs) \/ k = Len(fs) + 1
        /\ Len(fs) + 1 \in 1..Len(gs)
    BY <1>1, <1>2, <2>1
  <2> HIDE DEF gs
  <2>3. \A d \in 1..n : ds[d].path # path
    BY <1>5, <1>7
  <2>4. \A d \in 1..(n + 1) : \E k \in 1..Len(gs) : gs[k].path = es[d].path
    <3> TAKE d \in 1..(n + 1)
    <3>1. CASE d \in 1..n
      BY <1>2, <1>5, <2>2, <3>1
    <3>2. CASE d = n + 1
      BY <1>1, <1>2, <2>2, <3>2
    <3> QED BY <1>2, <3>1, <3>2
  <2>5. \A k \in 1..Len(gs) : \E d \in 1..(n + 1) : IsLast(es, d) /\ gs[k] = es[d]
    <3> TAKE k \in 1..Len(gs)
    <3>1. CASE k \in 1..Len(fs)
      BY <1>2, <1>3, <1>5, <2>2, <2>3, <3>1
    <3>2. CASE k = Len(fs) + 1
      BY <1>2, <1>4, <2>2, <3>2
    <3> QED BY <2>2, <3>1, <3>2
  <2>6. ASSUME NEW j \in 1..Len(gs), NEW k \in 1..Len(gs), j < k,
               NEW c \in 1..(n + 1), IsFirst(es, c), es[c].path = gs[j].path,
               NEW d \in 1..(n + 1), IsFirst(es, d), es[d].path = gs[k].path
        PROVE  c < d
    <3>1. j \in 1..Len(fs) /\ gs[j] = fs[j]
      BY <1>2, <2>2, <2>6
    <3>2. c \in 1..n
      BY <1>1, <1>2, <1>7, <2>6, <3>1
    <3>3. CASE k \in 1..Len(fs)
      <4>1. d \in 1..n
        BY <1>1, <1>2, <1>7, <2>2, <2>6, <3>3
      <4> QED BY <1>2, <1>3, <1>5, <2>2, <2>6, <3>1, <3>2, <3>3, <4>1
    <3>4. CASE k = Len(fs) + 1
      <4>1. d = n + 1
        BY <1>1, <1>2, <2>2, <2>3, <2>6, <3>4
      <4> QED BY <1>2, <3>2, <4>1
    <3> QED BY <2>2, <3>3, <3>4
  <2>7. Len(es) = n + 1
    BY <1>2
  <2>8. Tabulates(gs, es)
    BY <2>4, <2>5, <2>6, <2>7, Zenon DEF Tabulates
  <2> QED BY <2>2, <2>8 DEF gs, es, r
<1> QED BY <1>6, <1>7

\* f has what comes of the first n paths.
Inserts(f, fs, paths, owner, n) ==
  f = [k \in 0..n |-> IF k = 0 THEN fs ELSE Insert(f[k - 1], paths[k], owner)]

LEMMA InsertsExists ==
  ASSUME NEW fs, NEW paths, NEW owner, NEW n \in Nat
  PROVE  \E f : Inserts(f, fs, paths, owner, n)
<1> DEFINE Failing == {m \in Nat : ~\E f : Inserts(f, fs, paths, owner, m)}
<1>1. ASSUME Failing # {} PROVE FALSE
  <2>1. PICK m \in Failing : \A k \in Failing : m <= k
    BY <1>1, Least
  <2>2. m # 0
    <3>1. Inserts([k \in 0..0 |-> fs], fs, paths, owner, 0)
      BY DEF Inserts
    <3> QED BY <2>1, <3>1
  <2>3. m - 1 \in Nat /\ m - 1 \notin Failing
    BY <2>1, <2>2
  <2>4. PICK f : Inserts(f, fs, paths, owner, m - 1)
    BY <2>3
  <2> DEFINE step(g, k) == IF k = 0 THEN fs ELSE Insert(g[k - 1], paths[k], owner)
             h == [k \in 0..m |-> IF k < m THEN f[k] ELSE Insert(f[m - 1], paths[m], owner)]
  <2>5. f = [k \in 0..(m - 1) |-> step(f, k)]
    BY <2>4 DEF Inserts
  <2>6. ASSUME NEW k \in 0..m PROVE h[k] = step(h, k)
    <3>1. CASE k = 0
      <4>1. h[k] = f[0] /\ 0 \in 0..(m - 1)
        BY <2>1, <2>2, <3>1
      <4>2. step(f, 0) = fs /\ step(h, 0) = fs
        OBVIOUS
      <4> HIDE DEF h, step
      <4> QED BY <2>5, <3>1, <4>1, <4>2
    <3>2. CASE k # 0 /\ k < m
      <4>1. h[k] = f[k] /\ h[k - 1] = f[k - 1] /\ k \in 0..(m - 1)
        BY <2>1, <3>2
      <4>2. f[k] = step(f, k)
        <5> HIDE DEF step, h
        <5> QED BY <2>5, <4>1
      <4> HIDE DEF h
      <4> QED BY <3>2, <4>1, <4>2
    <3>3. CASE k = m
      <4>1. h[m - 1] = f[m - 1] /\ h[m] = Insert(f[m - 1], paths[m], owner)
        BY <2>1, <2>2
      <4> HIDE DEF h
      <4> QED BY <2>2, <3>3, <4>1
    <3> QED BY <2>1, <3>1, <3>2, <3>3
  <2>7. h = [k \in 0..m |-> step(h, k)]
    <3>1. h = [k \in 0..m |-> h[k]]
      OBVIOUS
    <3> HIDE DEF h, step
    <3> QED BY <2>6, <3>1
  <2>8. Inserts(h, fs, paths, owner, m)
    <3> HIDE DEF h
    <3> QED BY <2>7 DEF Inserts
  <2> HIDE DEF h
  <2> QED BY <2>1, <2>8
<1> QED BY <1>1

LEMMA InsertAllIs ==
  ASSUME NEW fs, NEW paths, NEW owner, Len(paths) \in Nat
  PROVE  \E f : Inserts(f, fs, paths, owner, Len(paths)) /\ InsertAll(fs, paths, owner) = f[Len(paths)]
<1> DEFINE f == CHOOSE f : Inserts(f, fs, paths, owner, Len(paths))
<1>1. Inserts(f, fs, paths, owner, Len(paths))
  BY InsertsExists
<1>2. InsertAll(fs, paths, owner) = f[Len(paths)]
  BY Zenon DEF InsertAll, Inserts
<1> QED BY <1>1, <1>2

LEMMA OwnedIs ==
  ASSUME NEW paths \in Seq(Paths), NEW owner \in Nat
  PROVE  /\ Owned(paths, owner) \in Seq(Entries) /\ Len(Owned(paths, owner)) = Len(paths)
         /\ \A k \in 1..Len(paths) :
              Owned(paths, owner)[k] = [path |-> paths[k], owner |-> owner]
<1>1. \A k \in 1..Len(paths) : [path |-> paths[k], owner |-> owner] \in Entries
  BY DEF Entries
<1> QED BY <1>1 DEF Owned

LEMMA OwnedConcat ==
  ASSUME NEW s \in Seq(Paths), NEW t \in Seq(Paths), NEW owner \in Nat
  PROVE  Owned(s \o t, owner) = Owned(s, owner) \o Owned(t, owner)
<1> DEFINE a == Owned(s \o t, owner)
           b == Owned(s, owner) \o Owned(t, owner)
<1>1. /\ s \o t \in Seq(Paths) /\ Len(s \o t) = Len(s) + Len(t)
      /\ Len(s) \in Nat /\ Len(t) \in Nat
  OBVIOUS
<1>2. a \in Seq(Entries) /\ b \in Seq(Entries) /\ Len(a) = Len(s) + Len(t) /\ Len(b) = Len(a)
  <2>1. a \in Seq(Entries) /\ Len(a) = Len(s \o t)
    BY <1>1, OwnedIs
  <2>2. Owned(s, owner) \in Seq(Entries) /\ Len(Owned(s, owner)) = Len(s)
    BY OwnedIs
  <2>3. Owned(t, owner) \in Seq(Entries) /\ Len(Owned(t, owner)) = Len(t)
    BY OwnedIs
  <2>4. b \in Seq(Entries) /\ Len(b) = Len(Owned(s, owner)) + Len(Owned(t, owner))
    BY <2>2, <2>3, ConcatIs
  <2> QED BY <1>1, <2>1, <2>2, <2>3, <2>4
<1>3. ASSUME NEW i \in 1..Len(a) PROVE a[i] = b[i]
  <2>1. a[i] = [path |-> (s \o t)[i], owner |-> owner]
    <3>1. i \in 1..Len(s \o t)
      BY <1>1, <1>2
    <3>2. \A k \in 1..Len(s \o t) : a[k] = [path |-> (s \o t)[k], owner |-> owner]
      BY <1>1, OwnedIs
    <3> QED BY <3>1, <3>2, Zenon
  <2>2. CASE i <= Len(s)
    <3>1. i \in 1..Len(s)
      BY <1>1, <1>2, <2>2
    <3> QED BY <2>1, <3>1, OwnedIs, ConcatIs
  <2>3. CASE i > Len(s)
    <3>1. i - Len(s) \in 1..Len(t) /\ i = Len(s) + (i - Len(s))
      BY <1>1, <1>2, <2>3
    <3>2. PICK k \in 1..Len(t) : i = Len(s) + k
      BY <3>1
    <3>3. (s \o t)[i] = t[k] /\ b[i] = Owned(t, owner)[k]
      BY <3>2, OwnedIs, ConcatIs
    <3> QED BY <2>1, <3>3, OwnedIs
  <2> QED BY <1>1, <1>2, <2>2, <2>3
<1> HIDE DEF a, b
<1>4. a = b
  BY <1>2, <1>3, SameSeq
<1> QED BY <1>4 DEF a, b

\* Declarations one after another are their paths inserted one after another.
LEMMA InsertAllTabulates ==
  ASSUME NEW fs \in Seq(Entries), NEW ds \in Seq(Entries), Tabulates(fs, ds),
         NEW paths \in Seq(Paths), NEW owner \in Nat
  PROVE  /\ InsertAll(fs, paths, owner) \in Seq(Entries)
         /\ Tabulates(InsertAll(fs, paths, owner), ds \o Owned(paths, owner))
<1> DEFINE n == Len(paths)
           os == Owned(paths, owner)
           es(k) == ds \o SubSeq(os, 1, k)
<1>1. n \in Nat /\ os \in Seq(Entries) /\ Len(os) = n
  BY OwnedIs
<1>2. PICK f : Inserts(f, fs, paths, owner, n) /\ InsertAll(fs, paths, owner) = f[n]
  BY <1>1, InsertAllIs
<1>3. f[0] = fs /\ \A k \in 1..n : f[k] = Insert(f[k - 1], paths[k], owner)
  <2> DEFINE step(k) == IF k = 0 THEN fs ELSE Insert(f[k - 1], paths[k], owner)
  <2>0. 0 \in 0..n /\ \A k \in 1..n : k \in 0..n /\ k # 0
    BY <1>1
  <2>1. f = [k \in 0..n |-> step(k)]
    BY <1>2, Zenon DEF Inserts
  <2>2. step(0) = fs /\ \A k \in 1..n : step(k) = Insert(f[k - 1], paths[k], owner)
    BY <2>0
  <2> HIDE DEF step, n
  <2> QED BY <2>0, <2>1, <2>2
<1>4. es(0) = ds /\ es(n) = ds \o os
  <2>1. SubSeq(os, 1, 0) = <<>> /\ SubSeq(os, 1, n) = os
    BY <1>1
  <2>2. ds \o <<>> = ds
    OBVIOUS
  <2> QED BY <2>1, <2>2, Zenon
<1>5. ASSUME NEW k \in 1..n
      PROVE  /\ es(k - 1) \in Seq(Entries)
             /\ es(k) = Append(es(k - 1), [path |-> paths[k], owner |-> owner])
  <2>1. os[k] = [path |-> paths[k], owner |-> owner] /\ os[k] \in Entries
    BY <1>1, <1>5, OwnedIs
  <2> HIDE DEF os, n
  <2>2. SubSeq(os, 1, k) = Append(SubSeq(os, 1, k - 1), os[k])
    BY <1>1, <1>5
  <2>3. SubSeq(os, 1, k - 1) \in Seq(Entries)
    BY <1>1, <1>5
  <2>4. \A s, t \in Seq(Entries) : \A x \in Entries : s \o Append(t, x) = Append(s \o t, x)
    <3> TAKE s, t \in Seq(Entries)
    <3> TAKE x \in Entries
    <3> DEFINE a == s \o Append(t, x)
               b == Append(s \o t, x)
    <3>1. /\ a \in Seq(Entries) /\ b \in Seq(Entries) /\ Len(a) = Len(b)
      OBVIOUS
    <3>2. \A i \in 1..Len(a) : a[i] = b[i]
      OBVIOUS
    <3> HIDE DEF a, b
    <3>3. a = b
      BY <3>1, <3>2, SameSeq
    <3> QED BY <3>3 DEF a, b
  <2> QED BY <2>1, <2>2, <2>3, <2>4
<1>6. \A k \in 0..n : f[k] \in Seq(Entries) /\ Tabulates(f[k], es(k))
  <2> DEFINE Failing == {k \in 0..n : ~(f[k] \in Seq(Entries) /\ Tabulates(f[k], es(k)))}
  <2>0. Failing \in SUBSET Nat
    BY <1>1
  <2>1. ASSUME Failing # {} PROVE FALSE
    <3>1. PICK k \in Failing : \A j \in Failing : k <= j
      <4> HIDE DEF Failing
      <4> QED BY <2>0, <2>1, Least
    <3>2. k # 0
      BY <1>3, <1>4, <3>1
    <3>3. k \in 1..n /\ k - 1 \in 0..n /\ k - 1 \notin Failing
      BY <1>1, <3>1, <3>2
    <3>4. f[k - 1] \in Seq(Entries) /\ Tabulates(f[k - 1], es(k - 1))
      BY <3>3
    <3>5. paths[k] \in Paths
      BY <3>3
    <3>6. f[k] = Insert(f[k - 1], paths[k], owner)
      BY <1>3, <3>3
    <3>7. es(k - 1) \in Seq(Entries) /\ es(k) = Append(es(k - 1), [path |-> paths[k], owner |-> owner])
      BY <1>5, <3>3
    <3> HIDE DEF es, n
    <3>8. f[k] \in Seq(Entries) /\ Tabulates(f[k], es(k))
      BY <3>4, <3>5, <3>6, <3>7, InsertTabulates
    <3> QED BY <3>1, <3>8
  <2> QED BY <2>1
<1>7. n \in 0..n
  BY <1>1
<1> HIDE DEF es, n, os
<1> QED BY <1>2, <1>4, <1>6, <1>7 DEF os

-----------------------------------------------------------------------------
(* What is registered.                                                     *)

LEMMA StageIs ==
  ASSUME PlaceOK, command.name # "pkg"
  PROVE  /\ Len(Walks) = IF user.shell = "none" THEN 2 ELSE 5
         /\ stage = 1 => Stage = "health"
         /\ stage = Len(Walks) => Stage = "configs"
         /\ user.shell # "none" /\ stage = 2 => Stage = "env"
         /\ user.shell # "none" /\ stage = 3 => Stage = "login"
         /\ user.shell # "none" /\ stage = 4 => Stage = "interactive"
         /\ stage <= Len(Walks) =>
              \/ stage = 1 \/ stage = Len(Walks)
              \/ user.shell # "none" /\ stage \in {2, 3, 4}
<1>1. stage \in Nat \ {0}
  BY DEF PlaceOK
<1>2. CASE user.shell = "none"
  <2>1. Walks = <<"health", "configs">>
    BY <1>2 DEF Walks
  <2>2. Len(Walks) = 2
    BY <2>1
  <2>3. stage <= 2 => stage = 1 \/ stage = 2
    BY <1>1
  <2> QED BY <1>2, <2>1, <2>2, <2>3 DEF Stage
<1>3. CASE user.shell # "none"
  <2>1. Walks = <<"health", "env", "login", "interactive", "configs">>
    BY <1>3 DEF Walks
  <2>2. Len(Walks) = 5
    BY <2>1
  <2>3. stage <= 5 => stage \in {1, 2, 3, 4, 5}
    BY <1>1
  <2> QED BY <1>3, <2>1, <2>2, <2>3 DEF Stage
<1> QED BY <1>2, <1>3

\* The parts of what is generated.
Login(T) == IF HookedIn(T, "login") THEN <<".zprofile">> ELSE <<>>
Ssh == IF user.ssh = "none" THEN <<>> ELSE <<".ssh/allowed_signers">>
Git == IF user.git THEN <<".gitconfig">> ELSE <<>>

LEMMA GeneratedIs ==
  ASSUME NEW T
  PROVE  /\ Login(T) \in Seq(Paths) /\ Ssh \in Seq(Paths) /\ Git \in Seq(Paths)
         /\ user.shell = "none" => Generated(T) = (<<>> \o Ssh) \o Git
         /\ user.shell = "bash" => Generated(T) = (<<".zenops_bash_profile">> \o Ssh) \o Git
         /\ user.shell = "zsh" =>
              Generated(T) = (((<<".zshenv">> \o Login(T)) \o <<".zshrc">>) \o Ssh) \o Git
<1>0. /\ Login(T) = IF HookedIn(T, "login") THEN <<".zprofile">> ELSE <<>>
      /\ Ssh = IF user.ssh = "none" THEN <<>> ELSE <<".ssh/allowed_signers">>
      /\ Git = IF user.git THEN <<".gitconfig">> ELSE <<>>
  BY Zenon DEF Login, Ssh, Git
<1>1. Login(T) \in Seq(Paths) /\ Ssh \in Seq(Paths) /\ Git \in Seq(Paths)
  <2>1. \A b \in Paths : <<b>> \in Seq(Paths)
    OBVIOUS
  <2>2. <<>> \in Seq(Paths) /\ ".zprofile" \in Paths /\ ".ssh/allowed_signers" \in Paths
        /\ ".gitconfig" \in Paths
    BY ConfigsParse
  <2> QED BY <1>0, <2>1, <2>2, Zenon
<1>2. CASE user.shell = "none"
  BY <1>0, <1>1, <1>2 DEF Generated
<1>3. CASE user.shell = "bash"
  BY <1>0, <1>1, <1>3 DEF Generated
<1>4. CASE user.shell = "zsh"
  BY <1>0, <1>1, <1>4 DEF Generated
<1> QED BY <1>1, <1>2, <1>3, <1>4

\* What the end of a walk adds is what was missing of the next one.
LEMMA GivenGrows ==
  ASSUME PlaceOK, command.name # "pkg", stage <= Len(Walks), stage' = stage + 1,
         UNCHANGED <<user, command>>, NEW T,
         Stage = "login" => (taken # {} <=> HookedIn(T, "login"))
  PROVE  /\ Given(T) \in Seq(Paths) /\ ShellFiles \o SourceFiles \in Seq(Paths)
         /\ Given(T)' = Given(T) \o (ShellFiles \o SourceFiles)
<1>1. /\ Login(T) \in Seq(Paths) /\ Ssh \in Seq(Paths) /\ Git \in Seq(Paths)
      /\ user.shell = "none" => Generated(T) = (<<>> \o Ssh) \o Git
      /\ user.shell = "bash" => Generated(T) = (<<".zenops_bash_profile">> \o Ssh) \o Git
      /\ user.shell = "zsh" =>
           Generated(T) = (((<<".zshenv">> \o Login(T)) \o <<".zshrc">>) \o Ssh) \o Git
  BY GeneratedIs
<1>2. /\ <<".zenops_bash_profile">> \in Seq(Paths) /\ <<".zshenv">> \in Seq(Paths)
      /\ <<".zshrc">> \in Seq(Paths)
  BY ConfigsParse
<1>3. user.shell \in {"none", "bash", "zsh"} /\ stage \in Nat \ {0}
  BY ConfigsParse DEF PlaceOK
<1>4. /\ Len(Walks) = IF user.shell = "none" THEN 2 ELSE 5
      /\ stage = 1 => Stage = "health"
      /\ stage = Len(Walks) => Stage = "configs"
      /\ user.shell # "none" /\ stage = 2 => Stage = "env"
      /\ user.shell # "none" /\ stage = 3 => Stage = "login"
      /\ user.shell # "none" /\ stage = 4 => Stage = "interactive"
      /\ \/ stage = 1 \/ stage = Len(Walks)
         \/ user.shell # "none" /\ stage \in {2, 3, 4}
  BY StageIs
<1>5. Walks' = Walks /\ Generated(T)' = Generated(T)
  BY DEF Walks, Generated, HookedIn
<1>6. /\ stage < Len(Walks) => Stage' = Walks[stage + 1]
      /\ stage = 1 /\ user.shell = "none" => Stage' = "configs"
      /\ stage = 1 /\ user.shell # "none" => Stage' = "env"
      /\ stage = 2 /\ user.shell # "none" => Stage' = "login"
      /\ stage = 3 /\ user.shell # "none" => Stage' = "interactive"
      /\ stage = 4 /\ user.shell # "none" => Stage' = "configs"
  <2>1. Stage' = Walks[stage + 1]
    BY <1>5 DEF Stage
  <2>2. user.shell = "none" => Walks = <<"health", "configs">>
    BY DEF Walks
  <2>3. user.shell # "none" => Walks = <<"health", "env", "login", "interactive", "configs">>
    BY DEF Walks
  <2> QED BY <1>3, <2>1, <2>2, <2>3
<1>7. /\ stage = Len(Walks) - 1 => SourceFiles = Ssh \o Git
      /\ stage # Len(Walks) - 1 => SourceFiles = <<>>
  BY DEF SourceFiles, Ssh, Git
<1>8. Generated(T) \in Seq(Paths) /\ Ssh \o Git \in Seq(Paths)
  <2>1. <<>> \in Seq(Paths)
    OBVIOUS
  <2>2. \A s, t \in Seq(Paths) : s \o t \in Seq(Paths)
    OBVIOUS
  <2>3. Generated(T) \in {(<<>> \o Ssh) \o Git, (<<".zenops_bash_profile">> \o Ssh) \o Git,
                       (((<<".zshenv">> \o Login(T)) \o <<".zshrc">>) \o Ssh) \o Git}
    BY <1>1, <1>3
  <2>4. Ssh \o Git \in Seq(Paths) /\ (<<>> \o Ssh) \o Git \in Seq(Paths)
    BY <1>1, <2>1, <2>2
  <2>5. (<<".zenops_bash_profile">> \o Ssh) \o Git \in Seq(Paths)
    BY <1>1, <1>2, <2>2
  <2>6. (((<<".zshenv">> \o Login(T)) \o <<".zshrc">>) \o Ssh) \o Git \in Seq(Paths)
    BY <1>1, <1>2, <2>2
  <2> QED BY <2>3, <2>4, <2>5, <2>6, Zenon
<1>9. \A s, t, u \in Seq(Paths) : (s \o t) \o u = s \o (t \o u)
  BY ConcatAssociates
<1>10. \A s \in Seq(Paths) : s \o <<>> = s /\ <<>> \o s = s
  OBVIOUS
<1>11. CASE stage = Len(Walks)
  <2>1. Given(T) = Generated(T) /\ Given(T)' = Generated(T)
    <3>1. stage' > Len(Walks)'
      <4>1. Len(Walks)' = Len(Walks) /\ Len(Walks) \in {2, 5}
        BY <1>4, <1>5
      <4> QED BY <1>11, <4>1
    <3> QED BY <1>4, <1>5, <1>11, <3>1 DEF Given
  <2>2. ShellFiles = <<>> /\ SourceFiles = <<>>
    BY <1>3, <1>4, <1>7, <1>11 DEF ShellFiles
  <2> QED BY <1>8, <1>10, <2>1, <2>2
<1>12. CASE stage = 1 /\ user.shell = "none"
  <2>1. Given(T) = <<>> /\ Given(T)' = Generated(T)
    BY <1>3, <1>4, <1>5, <1>6, <1>12 DEF Given
  <2>2. ShellFiles = <<>> /\ SourceFiles = Ssh \o Git
    BY <1>4, <1>7, <1>12 DEF ShellFiles
  <2> QED BY <1>1, <1>8, <1>10, <1>12, <2>1, <2>2
<1>13. CASE user.shell = "bash" /\ stage \in {1, 2, 3}
  <2>1. Given(T) = <<>> /\ Given(T)' = <<>>
    BY <1>3, <1>4, <1>5, <1>6, <1>13, SMTT(30) DEF Given
  <2>2. ShellFiles = <<>> /\ SourceFiles = <<>>
    BY <1>4, <1>7, <1>13 DEF ShellFiles
  <2> QED BY <1>10, <2>1, <2>2
<1>14. CASE user.shell = "bash" /\ stage = 4
  <2>1. Given(T) = <<>> /\ Given(T)' = Generated(T)
    BY <1>3, <1>4, <1>5, <1>6, <1>14 DEF Given
  <2>2. ShellFiles = <<".zenops_bash_profile">> /\ SourceFiles = Ssh \o Git
    BY <1>4, <1>7, <1>14 DEF ShellFiles
  <2>3. Generated(T) = <<".zenops_bash_profile">> \o (Ssh \o Git)
    BY <1>1, <1>2, <1>9, <1>14
  <2>4. Generated(T) = <<>> \o Generated(T) /\ <<>> \in Seq(Paths)
    BY <1>8, <1>10
  <2> QED BY <1>8, <2>1, <2>2, <2>3, <2>4, Zenon
<1>15. CASE user.shell = "zsh" /\ stage = 1
  <2>1. Given(T) = <<>> /\ Given(T)' = <<>>
    <3>1. Stage = "health" /\ Stage' = "env" /\ stage <= 4 /\ Len(Walks) = 5 /\ Len(Walks)' = 5
      BY <1>4, <1>5, <1>6, <1>15
    <3>2. ~(stage > Len(Walks)) /\ ~(stage' > Len(Walks)')
      BY <1>3, <3>1
    <3> QED BY <1>5, <1>15, <3>1, <3>2 DEF Given
  <2>2. ShellFiles = <<>> /\ SourceFiles = <<>>
    BY <1>4, <1>7, <1>15 DEF ShellFiles
  <2> QED BY <1>10, <2>1, <2>2
<1>16. CASE user.shell = "zsh" /\ stage = 2
  <2>1. Given(T) = <<>> /\ Given(T)' = <<".zshenv">>
    <3>1. Stage = "env" /\ Stage' = "login" /\ stage <= 4 /\ Len(Walks) = 5 /\ Len(Walks)' = 5
      BY <1>4, <1>5, <1>6, <1>16
    <3>2. ~(stage > Len(Walks)) /\ ~(stage' > Len(Walks)')
      BY <1>3, <3>1
    <3> QED BY <1>5, <1>16, <3>1, <3>2 DEF Given
  <2>2. ShellFiles = <<".zshenv">> /\ SourceFiles = <<>>
    BY <1>4, <1>7, <1>16 DEF ShellFiles
  <2> QED BY <1>2, <1>10, <2>1, <2>2
<1>17. CASE user.shell = "zsh" /\ stage = 3
  <2>1. Given(T) = <<".zshenv">> /\ Given(T)' = <<".zshenv">> \o Login(T)
    <3>1. Stage = "login" /\ Stage' = "interactive" /\ stage <= 4 /\ Len(Walks) = 5 /\ Len(Walks)' = 5
      BY <1>4, <1>5, <1>6, <1>17
    <3>2. ~(stage > Len(Walks)) /\ ~(stage' > Len(Walks)')
      BY <1>3, <3>1
    <3>3. Given(T) = <<".zshenv">>
      BY <1>17, <3>1, <3>2 DEF Given
    <3>4. HookedIn(T, "login")' = HookedIn(T, "login")
      BY DEF HookedIn
    <3>5. Given(T)' = <<".zshenv">> \o (IF HookedIn(T, "login") THEN <<".zprofile">> ELSE <<>>)
      BY <1>5, <1>17, <3>1, <3>2, <3>4 DEF Given
    <3> QED BY <3>3, <3>5 DEF Login
  <2>2. ShellFiles = Login(T) /\ SourceFiles = <<>>
    BY <1>4, <1>7, <1>17 DEF ShellFiles, Login
  <2> QED BY <1>1, <1>2, <1>10, <2>1, <2>2
<1>18. CASE user.shell = "zsh" /\ stage = 4
  <2>1. Given(T) = <<".zshenv">> \o Login(T) /\ Given(T)' = Generated(T)
    <3>1. Stage = "interactive" /\ Stage' = "configs" /\ stage <= 4 /\ Len(Walks) = 5 /\ Len(Walks)' = 5
      BY <1>4, <1>5, <1>6, <1>18
    <3>2. ~(stage > Len(Walks)) /\ ~(stage' > Len(Walks)')
      BY <1>3, <3>1
    <3> QED BY <1>5, <1>18, <3>1, <3>2 DEF Given, Login
  <2>2. ShellFiles = <<".zshrc">> /\ SourceFiles = Ssh \o Git
    BY <1>4, <1>7, <1>18 DEF ShellFiles
  <2>0. <<".zshenv">> \o Login(T) \in Seq(Paths)
    BY <1>1, <1>2
  <2>3. PICK g \in Seq(Paths) : g = <<".zshenv">> \o Login(T)
    BY <2>0, Zenon
  <2>4. PICK r \in Seq(Paths) : r = <<".zshrc">>
    BY <1>2, Zenon
  <2>5. Generated(T) = ((g \o r) \o Ssh) \o Git
    BY <1>1, <1>18, <2>3, <2>4
  <2>6. g \o r \in Seq(Paths)
    BY <2>3, <2>4
  <2>7. Generated(T) = g \o (r \o (Ssh \o Git)) /\ r \o (Ssh \o Git) \in Seq(Paths)
    BY <1>1, <1>8, <1>9, <2>3, <2>4, <2>5, <2>6, SMTT(30)
  <2> QED BY <2>1, <2>2, <2>3, <2>4, <2>7
<1> QED BY <1>3, <1>4, <1>11, <1>12, <1>13, <1>14, <1>15, <1>16, <1>17, <1>18

LEMMA GivesPaths ==
  ASSUME PlaceOK, NEW p \in 1..Len(user.pkgs), NEW S
  PROVE  /\ p \in Nat /\ user.pkgs[p].paths \in Seq(Paths)
         /\ Contributed(p, S) \in Seq(Entries)
<1>1. p \in Nat /\ user.pkgs[p].paths \in Seq(Paths)
  BY ConfigsParse DEF PlaceOK
<1>2. Owned(user.pkgs[p].paths, p) \in Seq(Entries)
  BY <1>1, OwnedIs
<1>3. <<>> \in Seq(Entries)
  OBVIOUS
<1> QED BY <1>1, <1>2, <1>3 DEF Contributed

\* What is declared stays so while the config does, whatever the host does.
LEMMA SoFarKept ==
  ASSUME UNCHANGED <<user, command>>, NEW S, NEW T
  PROVE  /\ Enabled' = Enabled /\ Unconditional' = Unconditional
         /\ HookedIn(T, "login")' = HookedIn(T, "login")
         /\ \A p : Contributed(p, S)' = Contributed(p, S)
         /\ UNCHANGED <<stage, pkg>> => DeclaredSoFar(S, T)' = DeclaredSoFar(S, T)
<1>1. Enabled' = Enabled /\ Unconditional' = Unconditional
  BY DEF Enabled, Unconditional
<1>2. HookedIn(T, "login")' = HookedIn(T, "login")
  BY DEF HookedIn
<1>3. \A p : Contributed(p, S)' = Contributed(p, S)
  BY DEF Contributed, Owned
<1>4. ASSUME UNCHANGED <<stage, pkg>> PROVE DeclaredSoFar(S, T)' = DeclaredSoFar(S, T)
  <2>1. Given(T)' = Given(T)
    BY <1>2, <1>4 DEF Given, Generated, Walks, Stage
  <2>2. Configured' = Configured
    BY <1>4 DEF Configured, Walks, Stage
  <2>3. [p \in 1..Configured |-> Contributed(p, S)]' = [p \in 1..Configured |-> Contributed(p, S)]
    BY <1>3, <2>2
  <2>4. Owned(Given(T), 0)' = Owned(Given(T), 0)
    BY <2>1 DEF Owned
  <2> DEFINE packages == [p \in 1..Configured |-> Contributed(p, S)]
  <2>5. FlattenSeq(packages)' = FlattenSeq(packages)
    BY <2>3, Zenon
  <2> QED BY <2>4, <2>5 DEF DeclaredSoFar
<1> QED BY <1>1, <1>2, <1>3, <1>4

\* No step of another part of the command, and no change of the host, makes
\* anything else of the files.
LEMMA FromKept ==
  ASSUME NEW S, NEW T, FilesFrom(S, T),
         UNCHANGED <<user, command, stage, pkg, taken, files>>,
         events' = 0 => events = 0 /\ UNCHANGED <<byName, system, host>>
  PROVE  FilesFrom(S, T)'
<1>1. DeclaredSoFar(S, T)' = DeclaredSoFar(S, T) /\ Unconditional' = Unconditional
  BY SoFarKept
<1>2. events' = 0 => events = 0 /\ InstalledPkgs' = InstalledPkgs
  BY TruthsKept DEF InstalledPkgs
<1>3. Walks' = Walks /\ Stage' = Stage
  BY DEF Walks, Stage
<1>4. Tabulates(files, DeclaredSoFar(S, T))' <=> Tabulates(files, DeclaredSoFar(S, T))
  BY <1>1 DEF Tabulates, IsFirst, IsLast
<1> HIDE DEF DeclaredSoFar
<1> QED BY <1>1, <1>2, <1>3, <1>4 DEF FilesFrom

LEMMA FilesKept ==
  ASSUME FilesOK, UNCHANGED <<user, command, stage, pkg, taken, files>>,
         phase' # "load" \/ phase = "load",
         phase' = "run" \/ outcome' = "ok" => phase = "run" \/ outcome = "ok",
         events' = 0 => events = 0 /\ UNCHANGED <<byName, system, host>>
  PROVE  FilesOK'
<1> SUFFICES ASSUME command.name # "pkg", phase' = "run" \/ outcome' = "ok"
             PROVE  (\E S, T \in SUBSET Enabled : FilesFrom(S, T))'
  BY DEF FilesOK
<1>1. PICK S \in SUBSET Enabled, T \in SUBSET Enabled : FilesFrom(S, T)
  BY DEF FilesOK
<1>2. FilesFrom(S, T)'
  BY <1>1, FromKept
<1>3. Enabled' = Enabled
  BY SoFarKept
<1> HIDE DEF FilesFrom
<1> QED BY <1>1, <1>2, <1>3

\* One package more.
LEMMA PackagesGrow ==
  ASSUME PlaceOK, NEW n \in Nat, n < Len(user.pkgs), NEW S
  PROVE  /\ FlattenSeq([p \in 1..n |-> Contributed(p, S)]) \in Seq(Entries)
         /\ FlattenSeq([p \in 1..(n + 1) |-> Contributed(p, S)])
              = FlattenSeq([p \in 1..n |-> Contributed(p, S)]) \o Contributed(n + 1, S)
<1> DEFINE s == [p \in 1..n |-> Contributed(p, S)]
           t == [p \in 1..(n + 1) |-> Contributed(p, S)]
<1>1. Len(user.pkgs) \in Nat
  BY QuestionIs
<1>2. \A p \in 1..(n + 1) : Contributed(p, S) \in Seq(Entries)
  <2>1. \A p \in 1..(n + 1) : p \in 1..Len(user.pkgs)
    BY <1>1
  <2> QED BY <2>1, GivesPaths
<1>3. /\ n + 1 \in 1..(n + 1) /\ \A p \in 1..n : p \in 1..(n + 1)
      /\ \A p \in 1..(n + 1) : p \in 1..n \/ p = n + 1
  OBVIOUS
<1>4. s \in Seq(Seq(Entries)) /\ t \in Seq(Seq(Entries)) /\ Len(s) = n /\ Len(t) = n + 1
  BY <1>2, <1>3
<1>5. Append(s, Contributed(n + 1, S)) \in Seq(Seq(Entries))
      /\ Len(Append(s, Contributed(n + 1, S))) = n + 1
      /\ (\A p \in 1..n : Append(s, Contributed(n + 1, S))[p] = s[p])
      /\ Append(s, Contributed(n + 1, S))[n + 1] = Contributed(n + 1, S)
  <2> HIDE DEF s
  <2>1. Contributed(n + 1, S) \in Seq(Entries)
    BY <1>2, <1>3
  <2> QED BY <1>4, <2>1
<1>6. \A p \in 1..(n + 1) : t[p] = Append(s, Contributed(n + 1, S))[p]
  <2>1. \A p \in 1..n : t[p] = s[p]
    BY <1>3
  <2>2. t[n + 1] = Contributed(n + 1, S)
    BY <1>3
  <2> HIDE DEF s, t
  <2> QED BY <1>3, <1>5, <2>1, <2>2
<1> HIDE DEF s, t
<1>7. t = Append(s, Contributed(n + 1, S))
  BY <1>4, <1>5, <1>6, SameSeq
<1>8. FlattenSeq(t) = FlattenSeq(s) \o Contributed(n + 1, S)
  BY <1>2, <1>3, <1>4, <1>7, FlattenAppend
<1>9. FlattenSeq(s) \in Seq(Entries)
  BY <1>4, FlattenTyped
<1> QED BY <1>8, <1>9 DEF s, t

\* What is declared so far are entries.
LEMMA SoFarTyped ==
  ASSUME PlaceOK, command.name # "pkg", stage <= Len(Walks), pkg <= Len(user.pkgs) + 1,
         NEW S, NEW T
  PROVE  /\ Given(T) \in Seq(Paths) /\ Owned(Given(T), 0) \in Seq(Entries)
         /\ Configured \in Nat /\ Configured <= Len(user.pkgs)
         /\ Configured = 0 => FlattenSeq([p \in 1..Configured |-> Contributed(p, S)]) = <<>>
         /\ FlattenSeq([p \in 1..Configured |-> Contributed(p, S)]) \in Seq(Entries)
         /\ DeclaredSoFar(S, T) \in Seq(Entries)
<1>0. Len(user.pkgs) \in Nat /\ pkg \in Nat \ {0}
  BY QuestionIs DEF PlaceOK
<1>1. Given(T) \in Seq(Paths)
  <2>1. Generated(T) \in Seq(Paths)
    <3>1. /\ <<".zenops_bash_profile">> \in Seq(Paths) /\ <<".zshenv">> \in Seq(Paths)
          /\ <<".zshrc">> \in Seq(Paths) /\ <<>> \in Seq(Paths)
      BY ConfigsParse
    <3>2. \A s, t \in Seq(Paths) : s \o t \in Seq(Paths)
      OBVIOUS
    <3>3. user.shell \in {"none", "bash", "zsh"}
      BY ConfigsParse DEF PlaceOK
    <3>4. /\ (<<>> \o Ssh) \o Git \in Seq(Paths)
          /\ (<<".zenops_bash_profile">> \o Ssh) \o Git \in Seq(Paths)
      BY <3>1, <3>2, GeneratedIs
    <3>5. (((<<".zshenv">> \o Login(T)) \o <<".zshrc">>) \o Ssh) \o Git \in Seq(Paths)
      BY <3>1, <3>2, GeneratedIs
    <3> QED BY <3>3, <3>4, <3>5, GeneratedIs
  <2>2. <<>> \in Seq(Paths) /\ <<".zshenv">> \in Seq(Paths)
        /\ <<".zshenv">> \o Login(T) \in Seq(Paths)
    <3>1. <<>> \in Seq(Paths) /\ <<".zshenv">> \in Seq(Paths) /\ Login(T) \in Seq(Paths)
      BY ConfigsParse, GeneratedIs
    <3> QED BY <3>1
  <2>3. Given(T) \in {Generated(T), <<>>, <<".zshenv">>, <<".zshenv">> \o Login(T)}
    BY Zenon DEF Given, Login
  <2> QED BY <2>1, <2>2, <2>3
<1>2. Owned(Given(T), 0) \in Seq(Entries)
  BY <1>1, OwnedIs
<1>3. Configured \in Nat /\ Configured <= Len(user.pkgs)
  BY <1>0 DEF Configured
<1> DEFINE s(n) == [p \in 1..n |-> Contributed(p, S)]
<1>4. Configured = 0 => FlattenSeq(s(Configured)) = <<>>
  <2>1. s(0) = <<>>
    OBVIOUS
  <2> QED BY <2>1, FlattenEmpty
<1>5. FlattenSeq(s(Configured)) \in Seq(Entries)
  <2>1. CASE Configured = 0
    <3>1. FlattenSeq(s(Configured)) = <<>>
      BY <1>4, <2>1, Zenon
    <3>2. <<>> \in Seq(Entries)
      OBVIOUS
    <3> QED BY <3>1, <3>2, Zenon
  <2>2. CASE Configured # 0
    <3>1. \A p \in 1..Configured : p \in 1..Len(user.pkgs)
      BY <1>0, <1>3
    <3>2. \A p \in 1..Configured : Contributed(p, S) \in Seq(Entries)
      BY <3>1, GivesPaths
    <3>3. s(Configured) \in Seq(Seq(Entries))
      BY <1>3, <3>2
    <3> QED BY <3>3, FlattenTyped
  <2> QED BY <2>1, <2>2
<1>6. DeclaredSoFar(S, T) \in Seq(Entries)
  <2> HIDE DEF s
  <2>1. Owned(Given(T), 0) \o FlattenSeq(s(Configured)) \in Seq(Entries)
    BY <1>2, <1>5
  <2> QED BY <2>1 DEF DeclaredSoFar, s
<1> QED BY <1>1, <1>2, <1>3, <1>4, <1>5, <1>6

\* What becomes of the files with an answer that is possible, and is true of the
\* package on a host that stands still: the package is in S, or in T, with it.
LEMMA AnswerFiles ==
  ASSUME PlaceOK, FilesOK, InWalk, NEW yes \in BOOLEAN, Proceeds(yes), UNCHANGED cvars,
         events = 0 => True(yes), Possible(yes)
  PROVE  FilesOK'
<1>1. /\ phase' = "run" /\ phase = "run" /\ stage' = stage /\ PlaceOK'
      /\ UNCHANGED <<user, command, events, byName, system, host>>
      /\ pkg \in Nat \ {0} /\ pkg <= Len(user.pkgs) /\ stage <= Len(Walks)
      /\ Len(user.pkgs) \in Nat /\ outcome' = outcome
  BY AnswerPlace, QuestionIs DEF PlaceOK, InWalk, cvars, compileVars, evalVars, Proceeds
<1>2. (pkg' = pkg + 1) \/ (pkg' = pkg /\ asking = 1 /\ asking < Len(Questions))
  BY AnswerPlace
<1>3. Enabled' = Enabled /\ Unconditional' = Unconditional
  BY <1>1, SoFarKept
<1> SUFFICES ASSUME command.name # "pkg"
             PROVE  \E S, T \in SUBSET Enabled : FilesFrom(S, T)'
  BY <1>1, <1>3 DEF FilesOK
<1>4. PICK S0 \in SUBSET Enabled, T0 \in SUBSET Enabled : FilesFrom(S0, T0)
  BY <1>1 DEF FilesOK
<1>5. /\ Unconditional \subseteq S0 \cap T0
      /\ events = 0 => S0 = InstalledPkgs /\ T0 = InstalledPkgs
      /\ files \in Seq(Entries) /\ Tabulates(files, DeclaredSoFar(S0, T0))
      /\ Stage = "login" =>
           taken = {p \in T0 : /\ p < pkg
                               /\ user.pkgs[p].hook # None /\ user.pkgs[p].hook.stage = "login"}
  BY <1>1, <1>4, Zenon DEF FilesFrom
<1>6. pkg \in 1..Len(user.pkgs) /\ Pkg = user.pkgs[pkg]
  BY <1>1 DEF Pkg
<1>7. Enabled \subseteq 1..Len(user.pkgs)
  BY DEF Enabled
<1>8. Walks' = Walks /\ Stage' = Stage
  BY <1>1 DEF Walks, Stage
<1>9. stage # 1 => Stage \notin {"health", "visible", "state"} /\ Question = "installed" /\ asking = 1
                   /\ Len(Questions) = 1 /\ pkg' = pkg + 1
  <2>1. stage # 1 => Stage \notin {"health", "visible", "state"} /\ Question = "installed" /\ asking = 1
    BY QuestionIs
  <2>2. stage # 1 => Questions = <<"installed">>
    BY <2>1 DEF Questions
  <2>3. stage # 1 => Len(Questions) = 1
    BY <2>2
  <2>4. ASSUME stage # 1 PROVE pkg' = pkg + 1
    <3>1. asking = 1 /\ Len(Questions) = 1
      BY <2>1, <2>3, <2>4
    <3>2. ~(asking < Len(Questions))
      BY <3>1
    <3> QED BY <1>2, <3>2
  <2> QED BY <2>1, <2>3, <2>4
<1>10. stage = 1 => Stage = "health"
  BY StageIs
<1>11. Stage \in {"login", "configs"} =>
         /\ pkg' = pkg + 1
         /\ yes => pkg \in Enabled
         /\ ~yes => pkg \notin Unconditional
         /\ events = 0 => (yes <=> pkg \in InstalledPkgs)
  <2>1. ASSUME Stage \in {"login", "configs"}
        PROVE  Question = "installed" /\ pkg' = pkg + 1
    BY <1>9, <1>10, <2>1
  <2>2. ASSUME Stage \in {"login", "configs"}, yes PROVE pkg \in Enabled
    BY <1>1, <1>6, <2>1, <2>2 DEF Possible, Enabled
  <2>3. ASSUME Stage \in {"login", "configs"}, ~yes PROVE pkg \notin Unconditional
    <3>1. Question = "installed" /\ Pkg = user.pkgs[pkg]
      BY <1>6, <2>1, <2>3
    <3>2. Pkg.enable = "disabled" \/ Pkg.when # None \/ Pkg.detect # None
      BY <2>3, <3>1 DEF Possible
    <3> QED BY <3>1, <3>2 DEF Unconditional, Enabled
  <2>4. ASSUME Stage \in {"login", "configs"}, events = 0
        PROVE  yes <=> pkg \in InstalledPkgs
    BY <1>1, <1>6, <2>1, <2>4 DEF Possible, True, InstalledPkgs
  <2> QED BY <2>1, <2>2, <2>3, <2>4
<1> DEFINE With(X) == IF yes THEN X \cup {pkg} ELSE X \ {pkg}
<1>12. ASSUME Stage \in {"login", "configs"}, NEW X \in SUBSET Enabled,
              Unconditional \subseteq X, events = 0 => X = InstalledPkgs
       PROVE  /\ With(X) \in SUBSET Enabled /\ Unconditional \subseteq With(X)
              /\ events = 0 => With(X) = InstalledPkgs
              /\ pkg \in With(X) <=> yes
              /\ \A p : p # pkg => (p \in With(X) <=> p \in X)
  BY <1>11, <1>12
<1>13. PICK S \in SUBSET Enabled : S = IF Stage = "configs" THEN With(S0) ELSE S0
  BY <1>4, <1>5, <1>12
<1>14. PICK T \in SUBSET Enabled : T = IF Stage = "login" THEN With(T0) ELSE T0
  BY <1>4, <1>5, <1>12
<1>15. /\ Unconditional \subseteq S \cap T
       /\ events = 0 => S = InstalledPkgs /\ T = InstalledPkgs
       /\ Stage = "configs" => (pkg \in S <=> yes) /\ \A p : p # pkg => (p \in S <=> p \in S0)
       /\ Stage # "configs" => S = S0
       /\ Stage = "login" => (pkg \in T <=> yes) /\ \A p : p # pkg => (p \in T <=> p \in T0)
       /\ Stage # "login" => T = T0
  BY <1>4, <1>5, <1>12, <1>13, <1>14
<1> HIDE DEF With
<1>16. InstalledPkgs' = InstalledPkgs
  BY <1>1, TruthsKept DEF InstalledPkgs
<1>17. pkg' <= Len(user.pkgs) + 1
  BY <1>1, <1>2
<1>18. ASSUME Stage = "login"
       PROVE  taken' = {p \in T : /\ p < pkg'
                                  /\ user.pkgs[p].hook # None /\ user.pkgs[p].hook.stage = "login"}
  <2>1. pkg' = pkg + 1
    BY <1>11, <1>18
  <2>2. taken' = IF yes /\ Pkg.hook # None /\ Pkg.hook.stage = "login" THEN taken \cup {pkg} ELSE taken
    BY <1>18 DEF Proceeds
  <2>3. \A p \in 1..Len(user.pkgs) : p < pkg' <=> p < pkg \/ p = pkg
    BY <1>1, <2>1
  <2>4. \A p \in T \cup T0 : p \in 1..Len(user.pkgs)
    BY <1>7
  <2>5. \A p : p \in T /\ p < pkg <=> p \in T0 /\ p < pkg
    BY <1>1, <1>15, <1>18
  <2>6. \A p \in taken : p \in T0 /\ p < pkg
    BY <1>5, <1>18
  <2>7. ASSUME NEW p
        PROVE  p \in taken' <=> /\ p \in T /\ p < pkg'
                                /\ user.pkgs[p].hook # None /\ user.pkgs[p].hook.stage = "login"
    <3>1. p \in taken <=> /\ p \in T /\ p < pkg
                          /\ user.pkgs[p].hook # None /\ user.pkgs[p].hook.stage = "login"
      BY <1>5, <1>18, <2>5
    <3>2. p \in taken' <=> \/ p \in taken
                           \/ p = pkg /\ yes /\ Pkg.hook # None /\ Pkg.hook.stage = "login"
      BY <2>2
    <3>3. p \in T => (p < pkg' <=> p < pkg \/ p = pkg)
      BY <2>3, <2>4
    <3>4. pkg \in T <=> yes
      BY <1>15, <1>18
    <3> QED BY <1>6, <3>1, <3>2, <3>3, <3>4
  <2> QED BY <2>7
<1>19. ASSUME Tabulates(files', DeclaredSoFar(S, T)'), files' \in Seq(Entries)
       PROVE  \E X, Y \in SUBSET Enabled : FilesFrom(X, Y)'
  <2>1. Tabulates(files, DeclaredSoFar(S, T))' <=> Tabulates(files', DeclaredSoFar(S, T)')
    BY DEF Tabulates, IsFirst, IsLast
  <2> HIDE DEF DeclaredSoFar
  <2>2. FilesFrom(S, T)'
    BY <1>1, <1>3, <1>8, <1>15, <1>16, <1>17, <1>18, <1>19, <2>1, Zenon DEF FilesFrom
  <2> QED BY <2>2, <1>13, <1>14
<1>20. CASE Stage = "configs"
  <2>1. pkg' = pkg + 1 /\ T = T0
    BY <1>11, <1>15, <1>20
  <2>2. files' = IF yes THEN InsertAll(files, Pkg.paths, pkg) ELSE files
    BY <1>20 DEF Proceeds
  <2>3. Configured = pkg - 1 /\ Configured' = (pkg - 1) + 1
    <3>1. ~(stage > Len(Walks)) /\ ~(stage' > Len(Walks)')
      BY <1>1, <1>8, QuestionIs DEF PlaceOK
    <3> QED BY <1>1, <1>8, <1>20, <2>1, <3>1 DEF Configured
  <2> DEFINE before == FlattenSeq([p \in 1..(pkg - 1) |-> Contributed(p, S)])
             after == FlattenSeq([p \in 1..((pkg - 1) + 1) |-> Contributed(p, S)])
  <2>4. before \in Seq(Entries) /\ after = before \o Contributed(pkg, S)
    <3>1. pkg - 1 \in Nat /\ pkg - 1 < Len(user.pkgs) /\ (pkg - 1) + 1 = pkg
      BY <1>1
    <3> QED BY <3>1, PackagesGrow
  <2>5. Owned(Given(T), 0) \in Seq(Entries)
    <3>1. pkg <= Len(user.pkgs) + 1
      BY <1>1
    <3> QED BY <1>1, <3>1, SoFarTyped
  <2>6. DeclaredSoFar(S0, T0) = Owned(Given(T), 0) \o before
    <3>1. \A p \in 1..(pkg - 1) : Contributed(p, S0) = Contributed(p, S)
      <4>1. \A p \in 1..(pkg - 1) : p # pkg
        BY <1>1
      <4> QED BY <1>15, <1>20, <4>1 DEF Contributed
    <3>2. [p \in 1..Configured |-> Contributed(p, S0)] = [p \in 1..(pkg - 1) |-> Contributed(p, S)]
      BY <2>3, <3>1
    <3> QED BY <2>1, <3>2, Zenon DEF DeclaredSoFar
  <2>7. DeclaredSoFar(S, T)' = Owned(Given(T), 0) \o after
    <3>1. [p \in 1..Configured |-> Contributed(p, S)]' = [p \in 1..((pkg - 1) + 1) |-> Contributed(p, S)]
      <4>1. \A p : Contributed(p, S)' = Contributed(p, S)
        BY <1>1, SoFarKept
      <4> QED BY <2>3, <4>1
    <3>2. Given(T)' = Given(T)
      BY <1>1, <1>8, <1>20 DEF Given, Generated, HookedIn
    <3>3. Owned(Given(T), 0)' = Owned(Given(T), 0)
      BY <3>2 DEF Owned
    <3> QED BY <3>1, <3>3, Zenon DEF DeclaredSoFar
  <2>8. Contributed(pkg, S) \in Seq(Entries) /\ user.pkgs[pkg].paths \in Seq(Paths)
    BY <1>6, GivesPaths
  <2> HIDE DEF before, after
  <2>9. /\ DeclaredSoFar(S0, T0) \in Seq(Entries)
        /\ DeclaredSoFar(S, T)' = DeclaredSoFar(S0, T0) \o Contributed(pkg, S)
    <3> DEFINE given == Owned(Given(T), 0)
               more == Contributed(pkg, S)
    <3>1. given \in Seq(Entries) /\ before \in Seq(Entries) /\ more \in Seq(Entries)
      BY <2>4, <2>5, <2>8
    <3>2. DeclaredSoFar(S0, T0) = given \o before /\ DeclaredSoFar(S, T)' = given \o after
          /\ after = before \o more
      BY <2>4, <2>6, <2>7
    <3> HIDE DEF given, more
    <3>3. given \o before \in Seq(Entries)
      BY <3>1, ConcatIs
    <3>4. (given \o before) \o more = given \o (before \o more)
      BY <3>1, ConcatAssociates
    <3>5. DeclaredSoFar(S, T)' = DeclaredSoFar(S0, T0) \o more
      BY <3>2, <3>4, Zenon
    <3> QED BY <3>2, <3>3, <3>5 DEF more
  <2>10. CASE yes
    <3>1. Contributed(pkg, S) = Owned(user.pkgs[pkg].paths, pkg)
      BY <1>15, <1>20, <2>10 DEF Contributed
    <3>2. /\ InsertAll(files, user.pkgs[pkg].paths, pkg) \in Seq(Entries)
          /\ Tabulates(InsertAll(files, user.pkgs[pkg].paths, pkg),
                       DeclaredSoFar(S0, T0) \o Owned(user.pkgs[pkg].paths, pkg))
      BY <1>1, <1>5, <2>8, <2>9, InsertAllTabulates
    <3>3. Tabulates(files', DeclaredSoFar(S, T)') /\ files' \in Seq(Entries)
      BY <1>6, <2>2, <2>9, <2>10, <3>1, <3>2
    <3> QED BY <1>19, <3>3
  <2>11. CASE ~yes
    <3>1. Contributed(pkg, S) = <<>>
      BY <1>15, <1>20, <2>11 DEF Contributed
    <3>2. \A s \in Seq(Entries) : s \o <<>> = s
      OBVIOUS
    <3>3. DeclaredSoFar(S, T)' = DeclaredSoFar(S0, T0)
      BY <2>9, <3>1, <3>2
    <3>4. Tabulates(files', DeclaredSoFar(S, T)') /\ files' \in Seq(Entries)
      BY <1>5, <2>2, <2>11, <3>3
    <3> QED BY <1>19, <3>4
  <2> QED BY <2>10, <2>11
<1>21. CASE Stage # "configs"
  <2>1. files' = files
    BY <1>21 DEF Proceeds
  <2>2. Configured = 0 /\ Configured' = 0 /\ ~(stage > Len(Walks)) /\ ~(stage' > Len(Walks)')
    <3>1. ~(stage > Len(Walks)) /\ ~(stage' > Len(Walks)')
      BY <1>1, <1>8, QuestionIs DEF PlaceOK
    <3> QED BY <1>8, <1>21, <3>1 DEF Configured
  <2>3. DeclaredSoFar(S, T)' = DeclaredSoFar(S0, T0)
    <3> DEFINE none == [p \in 1..0 |-> Contributed(p, S0)]
    <3>1. [p \in 1..Configured |-> Contributed(p, S0)] = none
      BY <2>2
    <3>2. [p \in 1..Configured |-> Contributed(p, S)]' = none
      BY <2>2
    <3>3. Given(T)' = Given(T0)
      <4>1. CASE Stage = "login"
        BY <1>1, <1>8, <2>2, <4>1 DEF Given
      <4>2. CASE Stage # "login"
        BY <1>1, <1>8, <1>15, <1>21, <2>2, <4>2 DEF Given, HookedIn
      <4> QED BY <4>1, <4>2
    <3>4. Owned(Given(T), 0)' = Owned(Given(T0), 0)
      BY <3>3 DEF Owned
    <3> HIDE DEF none
    <3> QED BY <3>1, <3>2, <3>4, Zenon DEF DeclaredSoFar
  <2>4. Tabulates(files', DeclaredSoFar(S, T)') /\ files' \in Seq(Entries)
    BY <1>5, <2>1, <2>3
  <2> QED BY <1>19, <2>4
<1> QED BY <1>20, <1>21

\* What becomes of the files at the end of a walk.
LEMMA EndFiles ==
  ASSUME PlaceOK, PlaceOK', FilesOK, EndWalk
  PROVE  FilesOK'
<1>1. /\ phase = "run" /\ stage <= Len(Walks) /\ pkg > Len(user.pkgs)
      /\ stage' = stage + 1 /\ pkg' = 1 /\ taken' = {}
      /\ files' = InsertAll(files, ShellFiles \o SourceFiles, 0)
      /\ UNCHANGED <<user, command, phase, outcome, events, byName, system, host>>
  BY DEF EndWalk, WalkEnd, cvars, compileVars, evalVars
<1>2. /\ Len(user.pkgs) \in Nat /\ Len(Walks) \in Nat /\ Walks' = Walks
      /\ stage \in Nat \ {0} /\ pkg \in Nat \ {0}
  BY <1>1, QuestionIs DEF PlaceOK, Walks
<1>3. Enabled' = Enabled /\ Unconditional' = Unconditional
  BY <1>1, SoFarKept
<1> SUFFICES ASSUME command.name # "pkg"
             PROVE  \E S, T \in SUBSET Enabled : FilesFrom(S, T)'
  BY <1>1, <1>3 DEF FilesOK
<1>4. PICK S \in SUBSET Enabled, T \in SUBSET Enabled : FilesFrom(S, T)
  BY <1>1 DEF FilesOK
<1>5. /\ Unconditional \subseteq S \cap T
      /\ events = 0 => S = InstalledPkgs /\ T = InstalledPkgs
      /\ files \in Seq(Entries) /\ pkg <= Len(user.pkgs) + 1
      /\ Tabulates(files, DeclaredSoFar(S, T))
      /\ Stage = "login" =>
           taken = {p \in T : /\ p < pkg
                              /\ user.pkgs[p].hook # None /\ user.pkgs[p].hook.stage = "login"}
  BY <1>1, <1>4, Zenon DEF FilesFrom
<1>6. pkg = Len(user.pkgs) + 1
  BY <1>1, <1>2, <1>5
<1>7. InstalledPkgs' = InstalledPkgs
  BY <1>1, TruthsKept DEF InstalledPkgs
<1>8. Stage = "login" => (taken # {} <=> HookedIn(T, "login"))
  <2>1. \A p \in T : p < pkg
    BY <1>2, <1>6 DEF Enabled
  <2> QED BY <1>5, <2>1 DEF HookedIn
<1> DEFINE more == ShellFiles \o SourceFiles
<1>9. Given(T) \in Seq(Paths) /\ more \in Seq(Paths) /\ Given(T)' = Given(T) \o more
  BY <1>1, <1>8, GivenGrows
<1>10. /\ Owned(Given(T), 0) \in Seq(Entries) /\ DeclaredSoFar(S, T) \in Seq(Entries)
       /\ Configured \in Nat /\ Configured <= Len(user.pkgs)
       /\ Configured = 0 => FlattenSeq([p \in 1..Configured |-> Contributed(p, S)]) = <<>>
  BY <1>1, <1>2, <1>5, SoFarTyped
<1>11. Owned(Given(T), 0)' = Owned(Given(T), 0) \o Owned(more, 0) /\ Owned(more, 0) \in Seq(Entries)
  <2> HIDE DEF more
  <2>1. Owned(Given(T), 0)' = Owned(Given(T) \o more, 0)
    BY <1>9 DEF Owned
  <2> QED BY <1>9, <2>1, OwnedConcat, OwnedIs
<1>12. \A p : Contributed(p, S)' = Contributed(p, S)
  BY <1>1, SoFarKept
<1>13. DeclaredSoFar(S, T)' = DeclaredSoFar(S, T) \o Owned(more, 0)
  <2>1. \A s \in Seq(Entries) : s \o <<>> = s
    OBVIOUS
  <2>2. CASE stage = Len(Walks)
    <3>1. Stage = "configs" /\ ShellFiles = <<>> /\ SourceFiles = <<>>
      <4>1. Stage = "configs"
        BY <2>2, StageIs
      <4>2. stage # Len(Walks) - 1
        BY <1>2, <2>2
      <4> QED BY <4>1, <4>2 DEF ShellFiles, SourceFiles
    <3>2. Owned(more, 0) = <<>>
      BY <3>1 DEF Owned
    <3>3. Configured' = Configured
      <4>1. ~(stage > Len(Walks)) /\ stage' > Len(Walks)'
        BY <1>1, <1>2, <2>2
      <4>2. Configured' = Len(user.pkgs) /\ Configured = pkg - 1
        BY <1>1, <3>1, <4>1 DEF Configured
      <4> QED BY <1>2, <1>6, <4>2
    <3>4. Owned(Given(T), 0)' = Owned(Given(T), 0)
      BY <1>10, <1>11, <2>1, <3>2
    <3>5. [p \in 1..Configured |-> Contributed(p, S)]' = [p \in 1..Configured |-> Contributed(p, S)]
      BY <1>12, <3>3
    <3>6. DeclaredSoFar(S, T)' = DeclaredSoFar(S, T)
      BY <3>4, <3>5, Zenon DEF DeclaredSoFar
    <3> HIDE DEF more
    <3> QED BY <1>10, <2>1, <3>2, <3>6
  <2>3. CASE stage # Len(Walks)
    <3>1. ~(stage > Len(Walks)) /\ ~(stage' > Len(Walks)') /\ Stage # "configs"
      <4>1. stage < Len(Walks)
        BY <1>1, <1>2, <2>3
      <4>2. Stage # "configs"
        <5>1. CASE stage = 1
          BY <5>1, StageIs
        <5>2. CASE stage # 1
          <6>1. user.shell # "none" /\ stage \in {2, 3, 4}
            BY <1>1, <2>3, <5>2, StageIs
          <6> QED BY <6>1, StageIs
        <5> QED BY <5>1, <5>2
      <4> QED BY <1>1, <1>2, <4>1, <4>2
    <3>2. Configured = 0 /\ Configured' = 0
      <4>1. Configured = 0
        BY <3>1 DEF Configured
      <4>2. Configured' = 0
        BY <1>1, <3>1 DEF Configured
      <4> QED BY <4>1, <4>2
    <3> DEFINE none == [p \in 1..0 |-> Contributed(p, S)]
    <3>3. FlattenSeq(none) = <<>>
      <4>1. none = <<>>
        OBVIOUS
      <4> QED BY <4>1, FlattenEmpty
    <3>4. DeclaredSoFar(S, T) = Owned(Given(T), 0) \o <<>>
      BY <3>2, <3>3, Zenon DEF DeclaredSoFar
    <3>5. DeclaredSoFar(S, T)' = (Owned(Given(T), 0) \o Owned(more, 0)) \o <<>>
      <4>1. [p \in 1..Configured |-> Contributed(p, S)]' = none
        BY <1>12, <3>2
      <4> HIDE DEF none, more
      <4> QED BY <1>11, <3>3, <4>1, Zenon DEF DeclaredSoFar
    <3> HIDE DEF more, none
    <3>6. Owned(Given(T), 0) \o Owned(more, 0) \in Seq(Entries)
      BY <1>10, <1>11
    <3> QED BY <1>10, <1>11, <2>1, <3>4, <3>5, <3>6
  <2> QED BY <2>2, <2>3
<1> HIDE DEF more
<1>14. /\ InsertAll(files, more, 0) \in Seq(Entries)
       /\ Tabulates(InsertAll(files, more, 0), DeclaredSoFar(S, T) \o Owned(more, 0))
  BY <1>5, <1>9, <1>10, InsertAllTabulates
<1>15. files' \in Seq(Entries) /\ Tabulates(files', DeclaredSoFar(S, T)')
  BY <1>1, <1>13, <1>14 DEF more
<1>16. Tabulates(files, DeclaredSoFar(S, T))' <=> Tabulates(files', DeclaredSoFar(S, T)')
  BY DEF Tabulates, IsFirst, IsLast
<1>17. pkg' <= Len(user.pkgs') + 1
  BY <1>1, <1>2
<1>18. taken' = {p \in T : /\ p < pkg'
                           /\ user.pkgs[p].hook' # None /\ user.pkgs[p].hook.stage' = "login"}
  <2>1. \A p \in T : ~(p < pkg')
    BY <1>1, <1>2 DEF Enabled
  <2> QED BY <1>1, <2>1
<1> HIDE DEF DeclaredSoFar
<1>19. FilesFrom(S, T)'
  BY <1>1, <1>3, <1>5, <1>7, <1>15, <1>16, <1>17, <1>18 DEF FilesFrom
<1> QED BY <1>4, <1>19

\* The first walk starts with nothing registered.
LEMMA LoadFiles ==
  ASSUME PlaceOK, PlaceOK', FilesOK, Loaded
  PROVE  FilesOK'
<1> SUFFICES ASSUME command.name # "pkg" PROVE FilesOK'
  BY DEF FilesOK, Loaded
<1>1. /\ phase = "load" /\ phase' = "run" /\ stage = 1 /\ pkg = 1 /\ files = <<>> /\ taken = {}
      /\ UNCHANGED <<user, command, stage, pkg, taken, files>>
      /\ Len(user.pkgs) \in Nat /\ Walks' = Walks /\ Stage' = Stage
  BY QuestionIs DEF PlaceOK, FilesOK, Loaded, Walks, Stage
<1>2. /\ Stage = "health" /\ Stage' = "health" /\ 1 <= Len(Walks)
  BY <1>1, StageIs, QuestionIs
<1>3. PICK S : S = InstalledPkgs'
  OBVIOUS
<1>4. S \in SUBSET Enabled' /\ Unconditional' \subseteq S
  BY <1>3 DEF InstalledPkgs, Installed, Relevant, Detected, Enabled, Unconditional
<1>5. Given(S)' = <<>> /\ Configured' = 0
  <2>1. ~(stage' > Len(Walks)')
    BY <1>1, <1>2, QuestionIs
  <2> QED BY <1>2, <2>1 DEF Given, Configured
<1>6. DeclaredSoFar(S, S)' = <<>>
  <2> DEFINE none == [p \in 1..0 |-> Contributed(p, S)]'
  <2>1. FlattenSeq(none) = <<>> /\ Owned(<<>>, 0) = <<>>
    <3>1. none = <<>>
      OBVIOUS
    <3> QED BY <3>1, FlattenEmpty DEF Owned
  <2>2. [p \in 1..Configured |-> Contributed(p, S)]' = none /\ Owned(Given(S), 0)' = Owned(<<>>, 0)
    BY <1>5 DEF Owned
  <2> HIDE DEF none
  <2>3. DeclaredSoFar(S, S)' = <<>> \o <<>>
    BY <2>1, <2>2, Zenon DEF DeclaredSoFar
  <2> QED BY <2>3
<1>7. Tabulates(files, DeclaredSoFar(S, S))' /\ files' \in Seq(Entries)
  BY <1>1, <1>6 DEF Tabulates
<1>8. pkg' <= Len(user.pkgs') + 1
  BY <1>1
<1> HIDE DEF DeclaredSoFar
<1>9. FilesFrom(S, S)'
  BY <1>1, <1>2, <1>3, <1>4, <1>7, <1>8 DEF FilesFrom
<1>10. \E X, Y \in SUBSET Enabled' : FilesFrom(X, Y)'
  BY <1>4, <1>9
<1> QED BY <1>1, <1>10 DEF FilesOK

LEMMA AnswerReports ==
  ASSUME PInv, InWalk, NEW yes \in BOOLEAN, Proceeds(yes), UNCHANGED cvars,
         events = 0 => True(yes), Possible(yes)
  PROVE  PInv'
<1>1. PlaceOK /\ PartOK /\ ReportsOK /\ FilesOK
  BY DEF PInv
<1>2. /\ PlaceOK' /\ phase' = "run" /\ phase = "run" /\ part' = "start"
      /\ stage' = stage /\ UNCHANGED <<user, command, events, byName, system, host>>
      /\ pkg \in Nat \ {0} /\ stage \in Nat \ {0} /\ pkg <= Len(user.pkgs)
      /\ asking \in {1, 2}
  BY <1>1, AnswerPlace DEF PlaceOK, InWalk, cvars, compileVars, evalVars
<1>3. \/ pkg' = pkg + 1 /\ asking' = 1
      \/ pkg' = pkg /\ asking = 1 /\ asking' = 2 /\ asking < Len(Questions)
         /\ ~(Question = "missing" /\ yes)
  BY <1>1, AnswerPlace
<1>4. PartOK'
  BY <1>2 DEF PartOK
<1>5. ASSUME events = 0 PROVE ReportsOK'
  <2>1. \A p : /\ Relevant(p)' = Relevant(p) /\ Detected(p)' = Detected(p)
               /\ Installed(p)' = Installed(p) /\ Expected(p)' = Expected(p)
    BY <1>2, TruthsKept
  <2>2. True(yes)
    BY <1>5
  <2>3. \A p \in 1..Len(user.pkgs) : p \in Nat
    OBVIOUS
  <2>4. CASE command.name = "pkg"
    <3>1. /\ \A p \in 1..Len(user.pkgs) : Installed(p) /\ Past(p, 1) => p \in visible
          /\ reports = {<<p, "installed">> : p \in
               {q \in 1..Len(user.pkgs) :
                  Installed(q) /\ (Past(q, 2) \/ (stage = 2 /\ q = pkg /\ asking = 2))}}
      BY <1>1, <1>2, <1>5, <2>4 DEF ReportsOK
    <3>2. CASE stage = 1
      <4>1. Stage = "visible" /\ Question = "relevant" /\ asking = 1 /\ Len(Questions) = 1
        BY <1>1, <2>4, <3>2, QuestionIs DEF Questions
      <4>2. /\ pkg' = pkg + 1 /\ asking' = 1 /\ reports' = reports
            /\ visible' = IF yes THEN visible \cup {pkg} ELSE visible
        BY <1>3, <4>1 DEF Proceeds
      <4>3. Installed(pkg) => yes
        BY <2>2, <4>1 DEF True, Installed, Pkg
      <4>4. \A p \in 1..Len(user.pkgs) : ~Past(p, 2) /\ ~Past(p, 2)'
        BY <1>2, <3>2, <4>2 DEF Past
      <4>5. \A p \in 1..Len(user.pkgs) : Past(p, 1)' => Past(p, 1) \/ p = pkg
        BY <1>2, <3>2, <4>2 DEF Past
      <4>6. \A p \in 1..Len(user.pkgs) : Installed(p)' /\ Past(p, 1)' => p \in visible'
        BY <2>1, <3>1, <4>2, <4>3, <4>5
      <4>7. reports' = {} /\ reports = {}
        BY <3>1, <3>2, <4>2, <4>4
      <4>8. {q \in 1..Len(user.pkgs') :
               Installed(q)' /\ (Past(q, 2)' \/ (stage' = 2 /\ q = pkg' /\ asking' = 2))} = {}
        BY <1>2, <3>2, <4>4
      <4> QED BY <1>2, <2>4, <4>6, <4>7, <4>8 DEF ReportsOK
    <3>3. CASE stage # 1
      <4>1. /\ stage = 2 /\ Stage = "state"
            /\ Question = IF asking = 1 THEN "installed" ELSE "matched"
        BY <1>1, <2>4, <3>3, QuestionIs
      <4>2. /\ visible' = visible
            /\ reports' = IF yes /\ asking = 1 THEN reports \cup {<<pkg, "installed">>} ELSE reports
        BY <1>2, <4>1 DEF Proceeds
      <4>3. asking = 1 => (yes <=> Installed(pkg))
        BY <2>2, <4>1 DEF True
      <4>4. \A p \in 1..Len(user.pkgs) : Past(p, 1) /\ Past(p, 1)'
        BY <1>2, <4>1 DEF Past
      <4>5. \A p \in 1..Len(user.pkgs) :
              /\ Past(p, 2) <=> p < pkg
              /\ Past(p, 2)' \/ (stage' = 2 /\ p = pkg' /\ asking' = 2) <=> p <= pkg
        BY <1>2, <1>3, <4>1 DEF Past
      <4>6. pkg \in 1..Len(user.pkgs)
        BY <1>1, <1>2, QuestionIs
      <4>7. \A p \in 1..Len(user.pkgs) :
              p <= pkg <=> p < pkg \/ p = pkg
        BY <1>2
      <4> DEFINE Old == {q \in 1..Len(user.pkgs) :
                           Installed(q) /\ (q < pkg \/ (q = pkg /\ asking = 2))}
                 New == {q \in 1..Len(user.pkgs) : Installed(q) /\ q <= pkg}
      <4>8. reports = {<<p, "installed">> : p \in Old}
        BY <3>1, <4>1, <4>5
      <4>9. New = IF asking = 1 /\ Installed(pkg) THEN Old \cup {pkg} ELSE Old
        BY <1>2, <4>6, <4>7
      <4>10. reports' = {<<p, "installed">> : p \in New}
        <5> HIDE DEF Old, New
        <5>1. CASE asking = 1 /\ Installed(pkg)
          BY <4>2, <4>3, <4>8, <4>9, <5>1
        <5>2. CASE ~(asking = 1 /\ Installed(pkg))
          BY <4>2, <4>3, <4>8, <4>9, <5>2
        <5> QED BY <5>1, <5>2
      <4>11. New = {q \in 1..Len(user.pkgs') :
                      Installed(q)' /\ (Past(q, 2)' \/ (stage' = 2 /\ q = pkg' /\ asking' = 2))}
        BY <1>2, <2>1, <4>5
      <4>12. \A p \in 1..Len(user.pkgs) : Installed(p)' /\ Past(p, 1)' => p \in visible'
        BY <2>1, <3>1, <4>2, <4>4
      <4> HIDE DEF Old, New
      <4> QED BY <1>2, <2>4, <4>10, <4>11, <4>12 DEF ReportsOK
    <3> QED BY <3>2, <3>3
  <2>5. CASE command.name # "pkg"
    <3> DEFINE As(p) == IF Detected(p) THEN "matches" ELSE "missing"
    <3>1. /\ reports = {<<p, As(p)>> : p \in
                          {q \in 1..Len(user.pkgs) : Expected(q) /\ Past(q, 1)}}
          /\ stage = 1 /\ asking = 2 /\ Expected(pkg) => Detected(pkg)
      BY <1>1, <1>2, <1>5, <2>5 DEF ReportsOK
    <3>2. CASE stage = 1
      <4>1. /\ Stage = "health" /\ Len(Questions) = 2
            /\ Question = IF asking = 1 THEN "missing" ELSE "matches"
        BY <1>1, <2>5, <3>2, QuestionIs
      <4>2. reports' = IF yes THEN reports \cup {<<pkg, Question>>} ELSE reports
        BY <1>2, <4>1 DEF Proceeds
      <4>3. pkg' = pkg + 1 <=> (asking = 2 \/ yes)
        BY <1>2, <4>1 DEF Proceeds, NextPkg, NextQuestion
      <4>4. yes => Expected(pkg) /\ Question = As(pkg)
        BY <1>2, <2>2, <4>1 DEF True
      <4>5. ~yes => (asking = 1 => (Expected(pkg) => Detected(pkg))) /\ (asking = 2 => ~Expected(pkg))
        BY <2>2, <3>1, <3>2, <4>1 DEF True
      <4>6. pkg \in 1..Len(user.pkgs)
        BY <1>1, <1>2, QuestionIs
      <4> DEFINE Old == {q \in 1..Len(user.pkgs) : Expected(q) /\ Past(q, 1)}
                 New == {q \in 1..Len(user.pkgs) : Expected(q) /\ Past(q, 1)'}
      <4>7. \A p \in 1..Len(user.pkgs) :
              /\ Past(p, 1) <=> p < pkg
              /\ Past(p, 1)' <=> p < pkg \/ (pkg' = pkg + 1 /\ p = pkg)
        BY <1>2, <1>3, <3>2 DEF Past
      <4>8. New = IF yes THEN Old \cup {pkg} ELSE Old
        <5>1. CASE yes
          BY <4>3, <4>4, <4>6, <4>7, <5>1
        <5>2. CASE ~yes
          BY <1>2, <4>3, <4>5, <4>6, <4>7, <5>2
        <5> QED BY <5>1, <5>2
      <4>9. reports' = {<<p, As(p)>> : p \in New}
        <5>1. reports = {<<p, As(p)>> : p \in Old}
          BY <3>1
        <5> HIDE DEF Old, New, As
        <5>2. CASE yes
          BY <4>2, <4>4, <4>8, <5>1, <5>2
        <5>3. CASE ~yes
          BY <4>2, <4>8, <5>1, <5>3
        <5> QED BY <5>2, <5>3
      <4>10. /\ New = {q \in 1..Len(user.pkgs') : Expected(q)' /\ Past(q, 1)'}
             /\ {<<p, As(p)>> : p \in New} = {<<p, As(p)'>> : p \in New}
        BY <1>2, <2>1
      <4>11. stage' = 1 /\ asking' = 2 /\ Expected(pkg)' => Detected(pkg)'
        <5> SUFFICES ASSUME asking' = 2, Expected(pkg)' PROVE Detected(pkg)'
          OBVIOUS
        <5>1. pkg' = pkg /\ asking = 1 /\ ~yes
          BY <1>3, <4>1
        <5>2. Expected(pkg) => Detected(pkg)
          BY <4>5, <5>1
        <5>3. Expected(pkg)' = Expected(pkg) /\ Detected(pkg)' = Detected(pkg)
          BY <2>1, <5>1
        <5> QED BY <5>2, <5>3
      <4> HIDE DEF New
      <4> QED BY <1>2, <2>5, <4>9, <4>10, <4>11 DEF ReportsOK
    <3>3. CASE stage # 1
      <4>1. Stage \notin {"health", "visible", "state"}
        BY <1>1, <2>5, <3>3, QuestionIs
      <4>2. reports' = reports
        BY <4>1 DEF Proceeds
      <4>3. \A p \in 1..Len(user.pkgs) : Past(p, 1) /\ Past(p, 1)'
        BY <1>2, <3>3 DEF Past
      <4>4. {<<p, As(p)>> : p \in {q \in 1..Len(user.pkgs) : Expected(q) /\ Past(q, 1)}}
             = {<<p, As(p)'>> : p \in {q \in 1..Len(user.pkgs') : Expected(q)' /\ Past(q, 1)'}}
        BY <1>2, <2>1, <4>3
      <4> QED BY <1>2, <2>5, <3>1, <3>3, <4>2, <4>4 DEF ReportsOK
    <3> QED BY <3>2, <3>3
  <2> QED BY <2>4, <2>5
<1>6. events # 0 => ReportsOK'
  BY <1>2 DEF ReportsOK
<1>7. FilesOK'
  BY <1>1, AnswerFiles
<1> QED BY <1>2, <1>4, <1>5, <1>6, <1>7 DEF PInv

-----------------------------------------------------------------------------
(* The steps of a command.                                                 *)

\* A command that stops has nothing more to answer for, unless it ended well.
LEMMA StopPlace ==
  ASSUME PInv, NEW out, Stop(out), UNCHANGED cvars,
         out = "ok" => phase = "run" /\ stage > Len(Walks)
  PROVE  PInv'
<1>1. /\ phase' = "done" /\ outcome' = out
      /\ UNCHANGED <<user, command, stage, pkg, asking, visible, reports>>
      /\ UNCHANGED <<steady, events, byName, system, host, verdict>>
  BY DEF Stop, cvars, compileVars, evalVars
<1>2. PlaceOK'
  <2>1. ~InWalk' /\ Walks' = Walks
    BY <1>1 DEF InWalk, Walks
  <2> QED BY <1>1, <2>1 DEF PInv, PlaceOK
<1>3. ReportsOK'
  <2> SUFFICES ASSUME out = "ok" PROVE ReportsOK'
    BY <1>1 DEF ReportsOK
  <2>1. \A p : /\ Relevant(p)' = Relevant(p) /\ Detected(p)' = Detected(p)
               /\ Installed(p)' = Installed(p) /\ Expected(p)' = Expected(p)
    BY <1>1, TruthsKept
  <2> QED BY <1>1, <2>1 DEF PInv, ReportsOK, Past
<1>4. FilesOK'
  <2>1. UNCHANGED <<user, command, stage, pkg, taken, files>>
    BY DEF Stop
  <2>2. outcome' = "ok" => phase = "run"
    BY <1>1
  <2> QED BY <1>1, <2>1, <2>2, FilesKept DEF PInv
<1> QED BY <1>1, <1>2, <1>3, <1>4 DEF PInv, PartOK

\* An answer lets the command go on, or ends it at the package's key.
LEMMA AnswerGiven ==
  ASSUME PInv, InWalk, NEW yes \in BOOLEAN, Answer(yes), UNCHANGED cvars,
         events = 0 => True(yes), Possible(yes)
  PROVE  PInv'
<1>1. CASE Proceeds(yes)
  BY <1>1, AnswerReports
<1>2. CASE Stop("SafeRelativePath")
  BY <1>2, StopPlace
<1> QED BY <1>1, <1>2 DEF Answer

\* A package is about to be asked whether its detect matches.
LEMMA DetectAsked ==
  ASSUME PInv, InWalk, ~Dismissed, events = 0 => Relevant(pkg), AskDetect
  PROVE  PInv'
<1>1. PlaceOK /\ PartOK /\ ReportsOK /\ FilesOK /\ phase = "run"
  BY DEF PInv, InWalk
<1>2. CASE Question = "relevant"
  <2>1. True(TRUE)  \/ events # 0
    BY <1>2 DEF True, Dismissed
  <2>2. Possible(TRUE)
    BY <1>2 DEF Possible
  <2> QED BY <1>2, <2>1, <2>2, AnswerGiven DEF AskDetect
<1>3. CASE Question # "relevant" /\ Pkg.enable = "disabled"
  <2>1. True(FALSE) /\ Possible(FALSE)
    BY <1>3 DEF True, Possible, Expected, Installed, Pkg
  <2> QED BY <1>3, <2>1, AnswerGiven DEF AskDetect
<1>4. CASE Question # "relevant" /\ Pkg.enable # "disabled" /\ Pkg.detect = None
  <2>1. CASE Question = "installed"
    <3>1. Answer(TRUE) /\ UNCHANGED cvars
      BY <1>4, <2>1 DEF AskDetect
    <3>2. True(TRUE) \/ events # 0
      BY <1>4, <2>1 DEF True, Installed, Detected, Pkg
    <3>3. Possible(TRUE)
      BY <1>4 DEF Possible
    <3> QED BY <3>1, <3>2, <3>3, AnswerGiven
  <2>2. CASE Question # "installed"
    <3>1. Answer(FALSE) /\ UNCHANGED cvars
      BY <1>4, <2>2 DEF AskDetect
    <3>2. True(FALSE) /\ Possible(FALSE)
      BY <1>4, <2>2 DEF True, Possible, Expected, Pkg
    <3> QED BY <3>1, <3>2, AnswerGiven
  <2> QED BY <2>1, <2>2
<1>5. CASE Question # "relevant" /\ Pkg.enable # "disabled" /\ Pkg.detect # None
  <2>1. /\ asked' = Pkg.detect /\ inputs' = Pkg.inputs /\ part' = "detect" /\ steady' = TRUE
        /\ UNCHANGED <<byName, system, host, events, verdict>>
        /\ UNCHANGED <<user, command, phase, stage, pkg, asking, taken, visible, reports, files, outcome>>
    BY <1>5 DEF AskDetect, Ask, Unmoved, compileVars
  <2>2. InWalk' /\ PlaceOK'
    BY <1>1, <2>1 DEF InWalk, PlaceOK, Walks, Questions, Stage
  <2>3. \A p : /\ Relevant(p)' = Relevant(p) /\ Detected(p)' = Detected(p)
               /\ Installed(p)' = Installed(p) /\ Expected(p)' = Expected(p)
    BY <2>1, TruthsKept
  <2>4. /\ Pkg' = Pkg /\ Question' = Question /\ ~Dismissed'
        /\ (events' = 0 => Relevant(pkg)')
    BY <2>1, <2>3 DEF Pkg, Question, Questions, Stage, Walks, Dismissed
  <2>5. PartOK'
    BY <1>5, <2>1, <2>2, <2>4 DEF PartOK
  <2>6. ReportsOK'
    BY <1>1, <2>1, <2>3 DEF ReportsOK, Past
  <2>7. FilesOK'
    BY <1>1, <2>1, FilesKept
  <2> QED BY <2>2, <2>5, <2>6, <2>7 DEF PInv
<1> QED BY <1>2, <1>3, <1>4, <1>5

LEMMA QuestionStarts ==
  ASSUME PInv, StartQuestion
  PROVE  PInv'
<1>1. PlaceOK /\ PartOK /\ ReportsOK /\ FilesOK /\ phase = "run" /\ InWalk
  BY DEF PInv, InWalk, StartQuestion
<1>2. CASE Dismissed
  <2>1. events = 0 => True(FALSE)
    <3> SUFFICES ASSUME events = 0 PROVE True(FALSE)
      OBVIOUS
    <3>1. Question \in {"missing", "matches"} => Pkg.enable # "on" \/ Stage = "state"
      BY <1>2 DEF Dismissed
    <3>2. Stage = "state" => command.name = "pkg" /\ stage = 2 /\ Question \in {"installed", "matched"}
      BY <1>1, QuestionIs
    <3>3. Stage = "state" /\ pkg \notin visible => ~Installed(pkg)
      <4>1. Stage = "state" => Past(pkg, 1) /\ pkg \in 1..Len(user.pkgs)
        BY <1>1, <3>2, QuestionIs DEF Past, InWalk, PlaceOK
      <4> QED BY <1>1, <3>2, <4>1 DEF ReportsOK
    <3>4. ~(Question = "missing" /\ Expected(pkg)) /\ ~(Question = "matches" /\ Expected(pkg))
      BY <3>1, <3>2 DEF Expected, Pkg
    <3>5. Question = "relevant" => Pkg.enable = "disabled" /\ ~command.all
      BY <1>2, <3>2 DEF Dismissed
    <3>6. Question = "installed" => ~Installed(pkg)
      BY <1>2, <3>3 DEF Dismissed, Installed, Pkg
    <3> QED BY <3>4, <3>5, <3>6 DEF True
  <2>2. Possible(FALSE)
    BY <1>1, <1>2, QuestionIs DEF Possible, Dismissed
  <2> QED BY <1>1, <1>2, <2>1, <2>2, AnswerGiven DEF StartQuestion
<1>3. CASE ~Dismissed /\ Pkg.when = None
  BY <1>1, <1>3, DetectAsked DEF StartQuestion, Relevant, Pkg
<1>4. CASE ~Dismissed /\ Pkg.when # None
  <2>1. /\ asked' = Pkg.when /\ inputs' = {} /\ part' = "when" /\ steady' = TRUE
        /\ UNCHANGED <<byName, system, host, events, verdict>>
        /\ UNCHANGED <<user, command, phase, stage, pkg, asking, taken, visible, reports, files, outcome>>
    BY <1>4 DEF StartQuestion, Ask, Unmoved, compileVars
  <2>2. InWalk' /\ PlaceOK'
    BY <1>1, <2>1 DEF InWalk, PlaceOK, Walks, Questions, Stage
  <2>3. \A p : /\ Relevant(p)' = Relevant(p) /\ Detected(p)' = Detected(p)
               /\ Installed(p)' = Installed(p) /\ Expected(p)' = Expected(p)
    BY <2>1, TruthsKept
  <2>4. Pkg' = Pkg /\ ~Dismissed'
    BY <1>4, <2>1 DEF Pkg, Question, Questions, Stage, Walks, Dismissed
  <2>5. PartOK'
    BY <1>4, <2>1, <2>4 DEF PartOK
  <2>6. ReportsOK'
    BY <1>1, <2>1, <2>3 DEF ReportsOK, Past
  <2>7. FilesOK'
    BY <1>1, <2>1, FilesKept
  <2> QED BY <2>2, <2>5, <2>6, <2>7 DEF PInv
<1> QED BY <1>2, <1>3, <1>4

\* What was evaluated on a host that stands still is true of the package.
LEMMA Evaluated ==
  ASSUME PInv, AnswersSound, Answered({"when", "detect"}), value \in {"yes", "no"}, events = 0
  PROVE  /\ part = "when" => Pkg.when # None /\ (value = "yes" <=> Relevant(pkg))
         /\ part = "detect" => Pkg.detect # None /\ (value = "yes" <=> Detected(pkg))
<1>1. phase = "run" /\ stack = <<>> /\ steady /\ PartOK
  BY DEF PInv, PlaceOK, Answered, InWalk
<1>2. CASE part = "when"
  <2>1. Pkg.when # None /\ asked = Pkg.when /\ inputs = {}
    BY <1>1, <1>2 DEF PartOK
  <2>2. value = Meaning({})[Pkg.when]
    BY <1>1, <2>1 DEF AnswersSound
  <2> QED BY <1>2, <2>1, <2>2 DEF Relevant, Pkg
<1>3. CASE part = "detect"
  <2>1. Pkg.detect # None /\ asked = Pkg.detect /\ inputs = Pkg.inputs
    BY <1>1, <1>3 DEF PartOK
  <2>2. value = Meaning(Pkg.inputs)[Pkg.detect]
    BY <1>1, <2>1 DEF AnswersSound
  <2> QED BY <1>3, <2>1, <2>2 DEF Detected, Pkg
<1> QED BY <1>2, <1>3

LEMMA AnswerComes ==
  ASSUME PInv, AnswersSound, WhenAnswered \/ DetectAnswered
  PROVE  PInv'
<1>1. CASE WhenAnswered
  <2>1. /\ InWalk /\ phase = "run" /\ part = "when" /\ ~Dismissed /\ value \in {"yes", "no"}
        /\ Answered({"when", "detect"}) /\ Pkg.when # None
    BY <1>1 DEF WhenAnswered, Answered, PInv, PartOK, InWalk
  <2>2. events = 0 => (value = "yes" <=> Relevant(pkg))
    BY <2>1, Evaluated
  <2>3. CASE value = "yes"
    BY <1>1, <2>1, <2>2, <2>3, DetectAsked DEF WhenAnswered
  <2>4. CASE value = "no"
    <3>1. events = 0 => True(FALSE)
      BY <2>2, <2>4 DEF True, Expected, Installed
    <3>2. Answer(FALSE) /\ UNCHANGED cvars
      BY <1>1, <2>4 DEF WhenAnswered
    <3>3. Possible(FALSE)
      BY <2>1 DEF Possible
    <3> QED BY <2>1, <3>1, <3>2, <3>3, AnswerGiven
  <2> QED BY <2>1, <2>3, <2>4
<1>2. CASE DetectAnswered
  <2>1. /\ InWalk /\ phase = "run" /\ part = "detect" /\ ~Dismissed /\ value \in {"yes", "no"}
        /\ Pkg.detect # None /\ Pkg.enable # "disabled" /\ Question # "relevant"
        /\ events = 0 => Relevant(pkg)
        /\ Answered({"when", "detect"})
    BY <1>2 DEF DetectAnswered, Answered, PInv, PartOK, InWalk
  <2>2. events = 0 => (value = "yes" <=> Detected(pkg))
    BY <2>1, Evaluated
  <2> DEFINE yes == IF Question = "missing" THEN value = "no" ELSE value = "yes"
  <2>3. Answer(yes) /\ UNCHANGED cvars
    BY <1>2 DEF DetectAnswered
  <2>4. Question \in {"missing", "matches"} => Pkg.enable = "on"
    BY <2>1 DEF Dismissed
  <2>5. events = 0 => (Question \in {"missing", "matches"} => Expected(pkg))
    BY <2>1, <2>4 DEF Expected, Pkg
  <2>6. events = 0 => (Installed(pkg) <=> Detected(pkg))
    BY <2>1 DEF Installed, Pkg
  <2>7. events = 0 => True(yes)
    BY <2>1, <2>2, <2>5, <2>6 DEF True
  <2>8. yes \in BOOLEAN /\ Possible(yes)
    BY <2>1 DEF Possible
  <2> HIDE DEF yes
  <2> QED BY <2>1, <2>3, <2>7, <2>8, AnswerGiven
<1> QED BY <1>1, <1>2

\* What leaves the reports and the place alone.
LEMMA PlaceKept ==
  ASSUME PInv,
         UNCHANGED <<user, command, phase, stage, pkg, asking, part>>,
         UNCHANGED <<taken, visible, reports, files, outcome>>,
         UNCHANGED <<byName, system, host, events, asked, inputs, steady, verdict>>
  PROVE  PInv'
<1>1. \A p : /\ Relevant(p)' = Relevant(p) /\ Detected(p)' = Detected(p)
             /\ Installed(p)' = Installed(p) /\ Expected(p)' = Expected(p)
  BY TruthsKept
<1>2. PlaceOK'
  BY DEF PInv, PlaceOK, InWalk, Walks, Questions, Stage
<1>3. PartOK'
  <2>1. Pkg' = Pkg /\ Question' = Question /\ Dismissed' = Dismissed /\ PartOK
    BY DEF PInv, Pkg, Question, Questions, Stage, Walks, Dismissed
  <2> QED BY <1>1, <2>1 DEF PartOK
<1>4. ReportsOK'
  BY <1>1 DEF PInv, ReportsOK, Past
<1>5. FilesOK'
  BY FilesKept DEF PInv
<1> QED BY <1>2, <1>3, <1>4, <1>5 DEF PInv

LEMMA EvaluatesPlace ==
  ASSUME PInv, Evaluates
  PROVE  PInv'
<1>1. UNCHANGED pvars /\ UNCHANGED <<byName, system, host, events, asked, inputs, steady, verdict>>
  BY DEF Evaluates, Evaluate, EvalHost, Probe, ProbeFails, Unexpanded, EvalUnknown, Call,
         Exhausted, Resume, Unmoved, compileVars
<1> QED BY <1>1, PlaceKept DEF pvars

LEMMA HostPlace ==
  ASSUME PInv, CInv, EnvHostChanges
  PROVE  PInv'
<1>1. /\ phase = "run" /\ UNCHANGED pvars /\ events' # 0
      /\ UNCHANGED <<asked, inputs, verdict>>
  BY DEF EnvHostChanges, HostChanges, CInv, TypeOK, compileVars
<1>2. PlaceOK'
  BY <1>1 DEF PInv, PlaceOK, InWalk, Walks, Questions, Stage, pvars
<1>3. PartOK'
  <2>1. Pkg' = Pkg /\ Question' = Question /\ Dismissed' = Dismissed /\ PartOK
    BY <1>1 DEF PInv, Pkg, Question, Questions, Stage, Walks, Dismissed, pvars
  <2> QED BY <1>1, <2>1 DEF PartOK, pvars
<1>4. FilesOK'
  BY <1>1, FilesKept DEF PInv, pvars
<1> QED BY <1>1, <1>2, <1>3, <1>4 DEF PInv, ReportsOK

LEMMA LoadPlace ==
  ASSUME PInv, Compiles \/ Loaded
  PROVE  PInv'
<1>1. CASE Compiles
  <2>1. /\ phase = "load" /\ UNCHANGED <<pvars, steady, events>>
    BY <1>1 DEF Compiles, Compile, WalkKey, WalkRef, WalkInline, WalkEnds, Accept, evalVars
  <2>2. PlaceOK'
    BY <2>1 DEF PInv, PlaceOK, InWalk, Walks, Questions, Stage, pvars
  <2>3. FilesOK'
    BY <2>1 DEF PInv, PlaceOK, FilesOK, pvars
  <2> QED BY <2>1, <2>2, <2>3 DEF PInv, PlaceOK, PartOK, ReportsOK, pvars
<1>2. CASE Loaded
  <2>1. /\ phase = "load" /\ phase' = "run" /\ verdict' = "accepted"
        /\ UNCHANGED <<user, command, stage, pkg, asking, part, visible, reports, outcome>>
        /\ UNCHANGED <<steady, events>>
    BY <1>2 DEF Loaded, SystemInputs, compileVars, evalVars
  <2>2. /\ stage = 1 /\ pkg = 1 /\ asking = 1 /\ part = "start" /\ reports = {} /\ PlaceOK
        /\ outcome = "none"
    BY <2>1 DEF PInv, PlaceOK
  <2>3. PlaceOK'
    <3>1. 1 <= Len(Walks) => Len(Questions) >= 1
      BY <2>2, QuestionIs
    <3>2. Walks' = Walks /\ Questions' = Questions
      BY <2>1 DEF Walks, Questions, Stage
    <3> QED BY <2>1, <2>2, <3>1, <3>2 DEF PlaceOK, InWalk
  <2>4. PartOK'
    BY <2>1, <2>2 DEF PartOK
  <2>5. ReportsOK'
    <3>1. \A p \in 1..Len(user.pkgs) : ~Past(p, 1)' /\ ~Past(p, 2)'
      BY <2>1, <2>2 DEF Past
    <3> QED BY <2>1, <2>2, <3>1 DEF ReportsOK
  <2>6. FilesOK'
    BY <1>2, <2>3, LoadFiles DEF PInv
  <2> QED BY <2>3, <2>4, <2>5, <2>6 DEF PInv
<1> QED BY <1>1, <1>2

LEMMA WalkEndPlace ==
  ASSUME PInv, EndWalk
  PROVE  PInv'
<1>1. /\ phase = "run" /\ stage <= Len(Walks) /\ pkg > Len(user.pkgs)
      /\ stage' = stage + 1 /\ pkg' = 1
      /\ UNCHANGED <<user, command, phase, asking, part, visible, reports, outcome>>
      /\ UNCHANGED <<steady, events, byName, system, host, verdict>>
      /\ PlaceOK /\ PartOK /\ ReportsOK
  BY DEF EndWalk, WalkEnd, PInv, cvars, compileVars, evalVars
<1>2. /\ Len(user.pkgs) \in Nat /\ Len(Walks) \in Nat /\ Walks' = Walks
      /\ stage \in Nat \ {0} /\ pkg \in Nat \ {0}
  BY <1>1, QuestionIs DEF PlaceOK, Walks
<1>3. asking = 1 /\ part = "start" /\ outcome = "none"
  BY <1>1, <1>2 DEF PlaceOK, InWalk
<1>4. PlaceOK'
  <2>1. stage' <= Len(Walks)' => Len(Questions)' >= 1
    <3>1. Questions' \in {<<"missing", "matches">>, <<"relevant">>,
                          <<"installed", "matched">>, <<"installed">>}
      BY DEF Questions
    <3> QED BY <3>1
  <2> QED BY <1>1, <1>2, <1>3, <2>1 DEF PlaceOK, InWalk
<1>5. PartOK'
  BY <1>1, <1>3 DEF PartOK
<1>6. ReportsOK'
  <2>1. \A p : /\ Relevant(p)' = Relevant(p) /\ Detected(p)' = Detected(p)
               /\ Installed(p)' = Installed(p) /\ Expected(p)' = Expected(p)
    BY <1>1, TruthsKept
  <2>2. \A p \in 1..Len(user.pkgs) :
          /\ Past(p, 1)' <=> Past(p, 1)
          /\ Past(p, 2)' <=> Past(p, 2)
    BY <1>1, <1>2 DEF Past
  <2>3. asking = 1 /\ asking' = 1
    BY <1>1, <1>3
  <2> QED BY <1>1, <2>1, <2>2, <2>3 DEF ReportsOK
<1>7. FilesOK'
  BY <1>4, EndFiles DEF PInv
<1> QED BY <1>4, <1>5, <1>6, <1>7 DEF PInv

LEMMA InitPlace ==
  ASSUME Init
  PROVE  PInv
<1>1. /\ stage = 1 /\ pkg = 1 /\ asking = 1 /\ part = "start" /\ phase = "load"
      /\ outcome = "none" /\ reports = {} /\ visible = {} /\ user \in Configs /\ steady
      /\ files = <<>> /\ taken = {}
  BY DEF Init, CStart
<1> QED BY <1>1 DEF PInv, PlaceOK, PartOK, ReportsOK, FilesOK, InWalk

LEMMA CommandSteps ==
  ASSUME PInv, CInv, AnswersSound, [Next]_vars
  PROVE  PInv'
<1>1. CASE ParseFails \/ CompileFails \/ BrewProbeFails \/ ManagerFails
           \/ RenderFails \/ SshFails
  BY <1>1, StopPlace DEF ParseFails, CompileFails, BrewProbeFails, ManagerFails,
                         RenderFails, SshFails
<1>2. CASE EvaluationFails
  BY <1>2, StopPlace DEF EvaluationFails, Errors
<1>3. CASE Finish
  BY <1>3, StopPlace DEF Finish
<1>4. CASE UNCHANGED vars
  BY <1>4, PlaceKept DEF vars, cvars, pvars, compileVars, evalVars
<1> QED BY <1>1, <1>2, <1>3, <1>4, LoadPlace, QuestionStarts, AnswerComes, EvaluatesPlace,
           HostPlace, WalkEndPlace DEF Next, Step

\* The invariant of a command: what it has reported so far is what is true of the
\* packages that its walks have left behind, and what it has registered is what
\* the config declares up to there (config/mod.rs:284, 343).
THEOREM CommandPlace == Spec => []PInv
<1>1. Spec => []AnswersSound
  BY CommandRefines, AnswersAreSound, PTL
<1> QED BY <1>1, InitPlace, CommandSteps, CommandInvariant, PTL DEF Spec

\* On a host that stands still the health report names every package that is
\* expected and has a detect, once, as it is, and the list shows the installed
\* ones, for every config, shell and registry (config/mod.rs:343).
THEOREM CommandReports == Spec => []Reported
<1>1. PInv => Reported
  <2> SUFFICES ASSUME PInv, phase = "done", outcome = "ok", events = 0
               PROVE  reports = IF command.name = "pkg"
                      THEN {<<p, "installed">> : p \in {q \in 1..Len(user.pkgs) : Installed(q)}}
                      ELSE {<<p, IF Detected(p) THEN "matches" ELSE "missing">> :
                              p \in {q \in 1..Len(user.pkgs) : Expected(q)}}
    BY DEF Reported
  <2>1. PlaceOK /\ ReportsOK /\ stage > Len(Walks)
    BY DEF PInv, PlaceOK
  <2>2. stage > 2
    BY <2>1, QuestionIs DEF PlaceOK
  <2>3. \A p : Past(p, 1) /\ Past(p, 2)
    BY <2>1, <2>2 DEF Past, PlaceOK
  <2> QED BY <2>1, <2>3 DEF ReportsOK
<1> QED BY <1>1, CommandPlace, PTL

\* A command registers the files that its config declares for the packages that
\* answered, each path once, at the place of its first declaration and for the
\* last, for every config: on a host that stands still for the packages that are
\* installed, on any host for no disabled one and all without conditions
\* (config/mod.rs:284, config_files/mod.rs:257).
THEOREM CommandRegisters == Spec => []Registered
<1>1. PInv => Registered
  <2> SUFFICES ASSUME PInv, phase = "done", outcome = "ok", command.name # "pkg"
               PROVE  \E S, T \in SUBSET Enabled :
                        /\ Unconditional \subseteq S \cap T
                        /\ events = 0 => S = InstalledPkgs /\ T = InstalledPkgs
                        /\ Tabulates(files, Declared(S, T))
    BY DEF Registered
  <2>1. stage > Len(Walks)
    BY DEF PInv, PlaceOK
  <2>2. PICK S \in SUBSET Enabled, T \in SUBSET Enabled : FilesFrom(S, T)
    BY DEF PInv, FilesOK
  <2>3. Given(T) = Generated(T) /\ Configured = Len(user.pkgs)
    BY <2>1 DEF Given, Configured
  <2>4. DeclaredSoFar(S, T) = Declared(S, T)
    BY <2>3, Zenon DEF DeclaredSoFar, Declared
  <2>5. /\ Unconditional \subseteq S \cap T
        /\ events = 0 => S = InstalledPkgs /\ T = InstalledPkgs
        /\ Tabulates(files, Declared(S, T))
    BY <2>2, <2>4, Zenon DEF FilesFrom
  <2> QED BY <2>2, <2>5
<1> QED BY <1>1, CommandPlace, PTL

\* In a command, too, what is answered while the host stands still is what the
\* expression means (condition.rs:167, detect.rs:65).
THEOREM CommandAnswersAreSound == Spec => []AnswersSound
BY CommandRefines, AnswersAreSound, PTL

===============================================================================
