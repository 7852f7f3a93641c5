--------------------------- MODULE ConditionsProofs ---------------------------
(* Theorems about Conditions, for every set of expressions and names.         *)
EXTENDS ConditionsInv, BasicFacts, SequenceTheorems

-----------------------------------------------------------------------------
(* Numbers, and the graph.                                                 *)

\* A sequence without its last element.
LEMMA Shorter ==
  ASSUME NEW S, NEW s \in Seq(S), s # <<>>
  PROVE  /\ Len(SubSeq(s, 1, Len(s) - 1)) = Len(s) - 1
         /\ \A k \in 1..(Len(s) - 1) : SubSeq(s, 1, Len(s) - 1)[k] = s[k]
<1>1. Len(s) \in Nat \ {0} /\ \A i \in 1..(Len(s) - 1) : s[i] \in S
  OBVIOUS
<1> DEFINE n == Len(s) - 1
<1>2. n \in Int /\ \A i \in 1..n : s[i] \in S
  BY <1>1
<1>3. /\ Len(SubSeq(s, 1, n)) = IF 1 <= n THEN n - 1 + 1 ELSE 0
      /\ \A i \in 1..(n - 1 + 1) : SubSeq(s, 1, n)[i] = s[1 + i - 1]
  <2> HIDE DEF n
  <2> QED BY <1>2, SubSeqProperties
<1>4. n >= 0 /\ n - 1 + 1 = n
  BY <1>1
<1>5. \A i \in 1..n : 1 + i - 1 = i
  OBVIOUS
<1> QED BY <1>1, <1>3, <1>4, <1>5

\* What an expression leads to: another one, or nothing for an unknown name.
LEMMA Children ==
  ASSUME TypeOK, NEW e \in Exprs
  PROVE  /\ Arity(e) \in Nat
         /\ \A i \in 1..Arity(e) : Child(e, i) \in Exprs \cup {None}
         /\ Node[e].kind # "ref" =>
              /\ Arity(e) = Len(Node[e].args)
              /\ \A i \in 1..Arity(e) :
                   Child(e, i) = Node[e].args[i] /\ Child(e, i) \in Exprs /\ Child(e, i) < e
         /\ Node[e].kind = "ref" =>
              /\ Arity(e) = 1
              /\ Node[e].to \in Names
              /\ Child(e, 1) = byName[Node[e].to]
BY NodesAreTrees DEF TypeOK, Arity, Child

\* The walk with its last frame moved on to the next child.
LEMMA Onwards ==
  ASSUME TypeOK, walk # <<>>
  PROVE  /\ Len(walk) \in Nat \ {0}
         /\ Top \in [e : Exprs, i : Nat \ {0}, name : Names \cup {None}]
         /\ Onward \in Seq([e : Exprs, i : Nat \ {0}, name : Names \cup {None}])
         /\ Len(Onward) = Len(walk)
         /\ \A k \in 1..Len(walk) :
              /\ Onward[k].e = walk[k].e
              /\ Onward[k].name = walk[k].name
              /\ Onward[k].i = IF k = Len(walk) THEN walk[k].i + 1 ELSE walk[k].i
<1> DEFINE F == [e : Exprs, i : Nat \ {0}, name : Names \cup {None}]
<1>1. walk \in Seq(F) /\ Len(walk) \in Nat \ {0} /\ DOMAIN walk = 1..Len(walk)
  BY DEF TypeOK
<1>2. \A k \in 1..Len(walk) : walk[k] \in F
  <2> HIDE DEF F
  <2> QED BY <1>1
<1>3. Onward = [k \in 1..Len(walk) |->
                 IF k = Len(walk) THEN [walk[k] EXCEPT !.i = @ + 1] ELSE walk[k]]
  <2> HIDE DEF F
  <2> QED BY <1>1, Zenon DEF Onward
<1>4. \A k \in 1..Len(walk) : [walk[k] EXCEPT !.i = @ + 1] \in F
  BY <1>2
<1>5. Onward \in Seq(F) /\ Len(Onward) = Len(walk)
  <2> HIDE DEF F
  <2> QED BY <1>1, <1>2, <1>3, <1>4
<1> QED BY <1>1, <1>2, <1>3, <1>5 DEF Top

LEMMA Frames ==
  ASSUME TypeOK, NEW n \in Names, Known(n)
  PROVE  /\ byName[n] \in Exprs
         /\ Frame(byName[n], n) \in [e : Exprs, i : Nat \ {0}, name : Names \cup {None}]
BY DEF TypeOK, Known, Frame

-----------------------------------------------------------------------------
(* Types.                                                                  *)

LEMMA WalkTypes ==
  ASSUME TypeOK, NEW n \in Names, Walk(n, <<>>) \/ (walk # <<>> /\ Walk(n, Onward))
  PROVE  /\ walk' \in Seq([e : Exprs, i : Nat \ {0}, name : Names \cup {None}])
         /\ verdict' \in Verdicts
<1> DEFINE F == [e : Exprs, i : Nat \ {0}, name : Names \cup {None}]
<1>0. <<>> \in Seq(F) /\ (walk # <<>> => Onward \in Seq(F))
  BY Onwards
<1>1. PICK up \in Seq(F) : Walk(n, up)
  <2> HIDE DEF F
  <2> QED BY <1>0
<1>2. walk \in Seq(F) /\ verdict \in Verdicts
  BY DEF TypeOK
<1>3. Known(n) => Frame(byName[n], n) \in F
  BY Frames
<1>4. walk' \in {up, walk} \/ (Known(n) /\ walk' = Append(up, Frame(byName[n], n)))
  BY <1>1 DEF Walk
<1>5. walk' \in Seq(F)
  <2> HIDE DEF F
  <2> QED BY <1>1, <1>2, <1>3, <1>4
<1>6. verdict' \in Verdicts
  BY <1>1, <1>2 DEF Walk, Verdicts
<1> QED BY <1>5, <1>6

LEMMA CompileTypes ==
  ASSUME TypeOK, Compile
  PROVE  TypeOK'
<1> DEFINE F == [e : Exprs, i : Nat \ {0}, name : Names \cup {None}]
<1> USE DEF TypeOK
<1>1. CASE WalkKey
  <2>1. keys[next] \in Names
    BY <1>1 DEF WalkKey
  <2>2. walk' \in Seq(F) /\ verdict' \in Verdicts
    BY <1>1, <2>1, WalkTypes, Zenon DEF WalkKey
  <2> QED BY <1>1, <2>2 DEF WalkKey, evalVars
<1>2. CASE WalkRef
  <2>1. Top.e \in Exprs /\ Node[Top.e].to \in Names
    BY <1>2, Onwards, Children DEF WalkRef
  <2>2. walk' \in Seq(F) /\ verdict' \in Verdicts
    BY <1>2, <2>1, WalkTypes, Zenon DEF WalkRef
  <2> QED BY <1>2, <2>2 DEF WalkRef, evalVars
<1>3. CASE WalkInline
  <2>1. Top.e \in Exprs /\ Top.i \in 1..Arity(Top.e) /\ Onward \in Seq(F)
    BY <1>3, Onwards, Children DEF WalkInline
  <2>2. Node[Top.e].args[Top.i] \in Exprs
    BY <1>3, <2>1, Children DEF WalkInline
  <2>3. Frame(Node[Top.e].args[Top.i], None) \in F
    BY <2>2 DEF Frame
  <2>4. walk' \in Seq(F)
    <3> HIDE DEF F
    <3> QED BY <1>3, <2>1, <2>3 DEF WalkInline
  <2> QED BY <1>3, <2>4 DEF WalkInline, evalVars
<1>4. CASE WalkEnds
  <2>1. Top \in F /\ Len(walk) \in Nat \ {0} /\ walk \in Seq(F)
    BY <1>4, Onwards DEF WalkEnds
  <2>2. SubSeq(walk, 1, Len(walk) - 1) \in Seq(F)
    <3> HIDE DEF F
    <3> QED BY <2>1
  <2>3. rank' \in [Exprs -> Nat] /\ clock' \in Nat
    BY <1>4, <2>1 DEF WalkEnds
  <2> QED BY <1>4, <2>1, <2>2, <2>3 DEF WalkEnds, evalVars
<1>5. CASE Accept
  BY <1>5 DEF Accept, evalVars, Verdicts
<1> QED BY <1>1, <1>2, <1>3, <1>4, <1>5 DEF Compile

\* The innermost call, and the stack without it or with one more.
LEMMA Calls ==
  ASSUME TypeOK, stack # <<>>
  PROVE  /\ Len(stack) \in Nat \ {0}
         /\ Here \in [e : Exprs, i : Nat \ {0}]
         /\ SubSeq(stack, 1, Len(stack) - 1) \in Seq([e : Exprs, i : Nat \ {0}])
         /\ \A e \in Exprs : Append(stack, [e |-> e, i |-> 1]) \in Seq([e : Exprs, i : Nat \ {0}])
<1> DEFINE F == [e : Exprs, i : Nat \ {0}]
<1>1. stack \in Seq(F) /\ Len(stack) \in Nat \ {0}
  BY DEF TypeOK
<1>2. \A c \in Exprs : [e |-> c, i |-> 1] \in F
  OBVIOUS
<1> HIDE DEF F
<1>3. Here \in F /\ SubSeq(stack, 1, Len(stack) - 1) \in Seq(F)
  BY <1>1 DEF Here
<1>4. ASSUME NEW c \in Exprs PROVE Append(stack, [e |-> c, i |-> 1]) \in Seq(F)
  <2>1. \A x \in F : Append(stack, x) \in Seq(F)
    BY <1>1
  <2> QED BY <1>2, <2>1
<1> QED BY <1>1, <1>3, <1>4 DEF F

\* A loop moved on to its next child.
LEMMA Advanced ==
  ASSUME TypeOK, stack # <<>>, NEW s, s = [stack EXCEPT ![Len(stack)].i = @ + 1]
  PROVE  /\ s \in Seq([e : Exprs, i : Nat \ {0}])
         /\ Len(s) = Len(stack)
         /\ \A k \in 1..Len(stack) :
              /\ s[k].e = stack[k].e
              /\ s[k].i = IF k = Len(stack) THEN stack[k].i + 1 ELSE stack[k].i
<1> DEFINE F == [e : Exprs, i : Nat \ {0}]
<1>1. stack \in Seq(F) /\ Len(stack) \in Nat \ {0} /\ DOMAIN stack = 1..Len(stack)
  BY DEF TypeOK
<1>2. \A k \in 1..Len(stack) : stack[k] \in F
  <2> HIDE DEF F
  <2> QED BY <1>1
<1>3. s = [k \in 1..Len(stack) |->
            IF k = Len(stack) THEN [stack[k] EXCEPT !.i = @ + 1] ELSE stack[k]]
  <2> HIDE DEF F
  <2> QED BY <1>1, Zenon
<1>4. \A k \in 1..Len(stack) : [stack[k] EXCEPT !.i = @ + 1] \in F
  BY <1>2
<1>5. s \in Seq(F) /\ Len(s) = Len(stack)
  <2> HIDE DEF F
  <2> QED BY <1>1, <1>2, <1>3, <1>4
<1> QED BY <1>1, <1>2, <1>3, <1>5

LEMMA EvaluateTypes ==
  ASSUME TypeOK, Evaluate
  PROVE  TypeOK'
<1> USE DEF TypeOK, Unmoved, compileVars
<1>1. ASSUME NEW v \in {"yes", "no"}, stack # <<>>, Return(v),
             UNCHANGED <<inputs, asked, steady>>, Unmoved
      PROVE  TypeOK'
  <2>1. stack' \in Seq([e : Exprs, i : Nat \ {0}])
    BY <1>1, Calls, Zenon DEF Return
  <2> QED BY <1>1, <2>1 DEF Return, Values
<1>2. ASSUME NEW err \in Errors, Fail(err), UNCHANGED <<inputs, asked, steady>>, Unmoved
      PROVE  TypeOK'
  BY <1>2 DEF Fail, Values
<1>3. CASE EvalHost
  BY <1>1, <1>3 DEF EvalHost, At, YesNo
<1>4. CASE Probe
  BY <1>1, <1>4 DEF Probe, At, YesNo
<1>5. CASE ProbeFails
  BY <1>2, <1>5 DEF ProbeFails, Errors
<1>6. CASE Unexpanded
  BY <1>1, <1>2, <1>6 DEF Unexpanded, At, Errors
<1>7. CASE EvalUnknown
  BY <1>2, <1>7 DEF EvalUnknown, Errors
<1>8. CASE Call
  <2>1. stack # <<>> /\ Here \in [e : Exprs, i : Nat \ {0}] /\ Here.i \in 1..Arity(Here.e)
    BY <1>8, Calls, Children DEF Call, At
  <2>2. Child(Here.e, Here.i) \in Exprs
    BY <1>8, <2>1, Children DEF Call
  <2>3. stack' \in Seq([e : Exprs, i : Nat \ {0}])
    BY <1>8, <2>1, <2>2, Calls, Zenon DEF Call
  <2> QED BY <1>8, <2>3 DEF Call
<1>9. CASE Exhausted
  BY <1>1, <1>9 DEF Exhausted, At, YesNo
<1>10. CASE Resume
  <2>1. CASE Decides(Node[Here.e].kind, Here.i, value)
    BY <1>1, <1>10, <2>1 DEF Resume, YesNo
  <2>2. CASE ~Decides(Node[Here.e].kind, Here.i, value)
    <3>1. stack' \in Seq([e : Exprs, i : Nat \ {0}])
      BY <1>10, <2>2, Advanced, Zenon DEF Resume
    <3> QED BY <1>10, <2>2, <3>1 DEF Resume, Values
  <2> QED BY <2>1, <2>2
<1> QED BY <1>3, <1>4, <1>5, <1>6, <1>7, <1>8, <1>9, <1>10 DEF Evaluate

LEMMA AskTypes ==
  ASSUME TypeOK, NEW e \in Exprs, NEW own \in SUBSET Vars, Ask(e, own)
  PROVE  TypeOK'
<1>1. stack' \in Seq([e : Exprs, i : Nat \ {0}])
  BY DEF Ask
<1> QED BY <1>1 DEF TypeOK, Ask, Unmoved, compileVars, Values

LEMMA OtherTypes ==
  ASSUME TypeOK, HostChanges \/ (\E vs \in SUBSET Vars : SystemInputs(vs)) \/ UNCHANGED cvars
  PROVE  TypeOK'
<1>1. CASE HostChanges
  <2>1. PICK p \in Probes : host' = [host EXCEPT ![p] = ~@]
    BY <1>1 DEF HostChanges
  <2>2. host' \in [Probes -> BOOLEAN]
    <3>1. host \in [Probes -> BOOLEAN]
      BY DEF TypeOK
    <3> DEFINE Other(q) == IF q = p THEN ~host[p] ELSE host[q]
    <3>2. host' = [q \in Probes |-> Other(q)]
      BY <2>1, <3>1, Zenon
    <3>3. \A q \in Probes : Other(q) \in BOOLEAN
      BY <3>1, Zenon
    <3> HIDE DEF Other
    <3> QED BY <3>2, <3>3
  <2>3. events' = events + 1 /\ steady' = FALSE
    BY <1>1 DEF HostChanges
  <2>4. UNCHANGED <<byName, keys, compileVars, system, inputs, stack, value, asked>>
    BY <1>1 DEF HostChanges
  <2>5. events' \in Nat
    BY <2>3 DEF TypeOK
  <2>6. steady' \in BOOLEAN
    BY <2>3, Zenon
  <2> QED BY <2>2, <2>4, <2>5, <2>6, Zenon DEF TypeOK, compileVars
<1>2. ASSUME NEW vs \in SUBSET Vars, SystemInputs(vs) PROVE TypeOK'
  BY <1>2 DEF TypeOK, SystemInputs, compileVars, evalVars
<1>3. CASE UNCHANGED cvars
  BY <1>3 DEF TypeOK, cvars, compileVars, evalVars
<1> QED BY <1>1, <1>2, <1>3

LEMMA InitTypes ==
  ASSUME CInit
  PROVE  TypeOK
BY DEF CInit, CStart, TypeOK, Verdicts, Values

-----------------------------------------------------------------------------
(* compile: what the walk has done.                                        *)

WalkParts == RankOK /\ WalkOK /\ ValidatedOK /\ KeysOK /\ AcceptOK

\* Nothing but compile touches what these parts speak of.
LEMMA PartsKept ==
  ASSUME WalkParts, UNCHANGED <<byName, keys, compileVars>>
  PROVE  WalkParts'
BY DEF WalkParts, RankOK, WalkOK, FrameOK, ValidatedOK, KeysOK, AcceptOK, compileVars,
       Ranked, Known, Arity, Child

LEMMA WalkKeyParts ==
  ASSUME TypeOK, WalkParts, WalkKey
  PROVE  WalkParts'
<1> DEFINE n == keys[next]
<1> USE DEF WalkParts
<1>1. /\ verdict = "none" /\ walk = <<>> /\ next \in 1..Len(keys) /\ next' = next + 1
      /\ Walk(n, <<>>) /\ Len(keys) \in Nat /\ n \in Names
      /\ UNCHANGED <<byName, keys, validated, rank, clock>>
  BY DEF TypeOK, WalkKey
<1>2. Known(n)
  BY <1>1 DEF KeysOK
<1>3. Walking = {}
  BY <1>1 DEF Walking
<1>4. \/ n \in validated /\ walk' = <<>> /\ verdict' = "none"
      \/ walk' = <<Frame(byName[n], n)>> /\ verdict' = "none"
  BY <1>1, <1>2, <1>3 DEF Walk
<1>5. RankOK' /\ ValidatedOK'
  BY <1>1 DEF RankOK, ValidatedOK, Ranked, Known, Arity, Child
<1>6. WalkOK'
  <2>1. CASE walk' = <<>>
    BY <2>1 DEF WalkOK
  <2>2. CASE walk' = <<Frame(byName[n], n)>>
    <3>1. Len(walk') = 1 /\ walk'[1] = [e |-> byName[n], i |-> 1, name |-> n]
      BY <2>2 DEF Frame
    <3>2. byName[n] \in Exprs /\ Arity(byName[n]) \in Nat
      BY <1>1, <1>2, Frames, Children
    <3>3. n # None /\ \A e \in Exprs : Arity(e)' = Arity(e)
      BY <1>1, NoneIsNothing DEF Arity
    <3>4. FrameOK(walk, 1)'
      BY <1>1, <3>1, <3>2, <3>3 DEF FrameOK
    <3> QED BY <3>1, <3>4 DEF WalkOK
  <2> QED BY <1>4, <2>1, <2>2
<1>7. KeysOK'
  <2>1. \A k \in 1..Len(keys) : k < next => keys[k] \in validated
    BY <1>1 DEF KeysOK
  <2>2. walk' # <<>> => walk'[1].name = n
    BY <1>4 DEF Frame
  <2>3. walk' # <<>> \/ n \in validated
    BY <1>4
  <2>4. \A k \in 1..Len(keys) :
          k < next' => keys[k] \in validated \/ (walk' # <<>> /\ k = next' - 1)
    BY <1>1, <2>1, <2>3
  <2> QED BY <1>1, <2>2, <2>4 DEF KeysOK, Known
<1>8. AcceptOK'
  BY <1>4 DEF AcceptOK
<1> QED BY <1>5, <1>6, <1>7, <1>8

\* The last frame is moved on past a child that is ranked, or under which the
\* walk goes on.
LEMMA MovedOn ==
  ASSUME TypeOK, WalkOK, walk # <<>>, Top.i <= Arity(Top.e), UNCHANGED <<byName, rank>>,
         \/ walk' = Onward /\ Child(Top.e, Top.i) \in Exprs /\ Ranked(Child(Top.e, Top.i))
         \/ \E f \in [e : Exprs, i : {1}, name : Names \cup {None}] :
              /\ walk' = Append(Onward, f)
              /\ f.e = Child(Top.e, Top.i)
              /\ f.name # None => f.e = byName[f.name]
  PROVE  WalkOK' /\ walk' # <<>> /\ walk'[1].name = walk[1].name
<1> DEFINE W == Len(walk)
           F == [e : Exprs, i : Nat \ {0}, name : Names \cup {None}]
<1>1. /\ W \in Nat \ {0} /\ Len(Onward) = W /\ Onward \in Seq(F)
      /\ \A k \in 1..W :
           /\ Onward[k].e = walk[k].e /\ Onward[k].name = walk[k].name
           /\ Onward[k].i = IF k = W THEN walk[k].i + 1 ELSE walk[k].i
  BY Onwards
<1>2. \A k \in 1..W : walk[k].e \in Exprs /\ walk[k].i \in Nat \ {0}
  <2>1. \A k \in 1..W : walk[k] \in F
    <3>1. walk \in Seq(F)
      BY DEF TypeOK
    <3> HIDE DEF F
    <3> QED BY <1>1, <3>1
  <2> QED BY <2>1
<1>3. \A e \in Exprs : /\ Arity(e) \in Nat /\ Arity(e)' = Arity(e)
                       /\ \A i \in Nat : Child(e, i)' = Child(e, i)
  BY Children DEF Arity, Child
<1>4. Top = walk[W] /\ Top.e \in Exprs
  BY <1>1, <1>2 DEF Top
<1>5. \A k \in 1..W : FrameOK(walk, k)
  BY DEF WalkOK
<1>6. CASE walk' = Onward /\ Child(Top.e, Top.i) \in Exprs /\ Ranked(Child(Top.e, Top.i))
  <2>1. ASSUME NEW k \in 1..W PROVE FrameOK(Onward, k)
    <3>1. FrameOK(walk, k)
      BY <1>5
    <3>2. CASE k < W
      BY <1>1, <1>2, <3>1, <3>2 DEF FrameOK
    <3>3. CASE k = W
      BY <1>1, <1>2, <1>3, <1>4, <1>6, <3>1, <3>3 DEF FrameOK
    <3> QED BY <1>1, <3>2, <3>3
  <2>2. ASSUME NEW k \in 1..W PROVE FrameOK(walk, k)'
    <3>1. FrameOK(walk', k)
      BY <1>6, <2>1
    <3>2. walk'[k].e \in Exprs /\ walk'[k].i \in Nat \ {0}
      BY <1>1, <1>2, <1>6
    <3> QED BY <1>3, <3>1, <3>2 DEF FrameOK, Ranked
  <2>3. Len(walk') = W /\ walk' # <<>> /\ walk'[1].name = walk[1].name
    BY <1>1, <1>6
  <2> QED BY <2>2, <2>3 DEF WalkOK
<1>7. ASSUME NEW f \in [e : Exprs, i : {1}, name : Names \cup {None}],
             walk' = Append(Onward, f), f.e = Child(Top.e, Top.i),
             f.name # None => f.e = byName[f.name]
      PROVE  WalkOK' /\ walk' # <<>> /\ walk'[1].name = walk[1].name
  <2>1. /\ Len(walk') = W + 1 /\ walk'[W + 1] = f
        /\ \A k \in 1..W : walk'[k] = Onward[k]
    BY <1>1, <1>7
  <2>2. \A k \in 1..(W + 1) : walk'[k].e \in Exprs /\ walk'[k].i \in Nat \ {0}
    BY <1>1, <1>2, <2>1
  <2>3. ASSUME NEW k \in 1..(W + 1) PROVE FrameOK(walk', k)
    <3>1. CASE k < W
      <4>1. FrameOK(walk, k)
        BY <1>5, <3>1
      <4>2. /\ walk'[k].e = walk[k].e /\ walk'[k].i = walk[k].i /\ walk'[k].name = walk[k].name
        BY <1>1, <2>1, <3>1
      <4>3. walk'[k + 1].e = walk[k + 1].e
        <5>1. k + 1 \in 1..W
          BY <1>1, <3>1
        <5> QED BY <1>1, <2>1, <5>1
      <4> QED BY <1>1, <2>1, <3>1, <4>1, <4>2, <4>3 DEF FrameOK
    <3>2. CASE k = W
      <4>1. FrameOK(walk, W)
        BY <1>1, <1>5
      <4>2. /\ walk'[k].e = Top.e /\ walk'[k].i = Top.i + 1 /\ walk'[k].name = Top.name
            /\ walk'[k + 1].e = Child(Top.e, Top.i) /\ k < Len(walk')
        BY <1>1, <1>4, <1>7, <2>1, <3>2
      <4>3. Top.i \in Nat \ {0} /\ Arity(Top.e) \in Nat
        BY <1>1, <1>2, <1>3, <1>4
      <4> QED BY <1>1, <1>4, <3>2, <4>1, <4>2, <4>3 DEF FrameOK
    <3>3. CASE k = W + 1
      <4>1. walk'[k] = f /\ Arity(f.e) \in Nat /\ k # 1 /\ ~(k < Len(walk'))
        BY <1>1, <1>3, <2>1, <3>3
      <4> QED BY <1>7, <4>1 DEF FrameOK
    <3> QED BY <1>1, <3>1, <3>2, <3>3
  <2>4. ASSUME NEW k \in 1..(W + 1) PROVE FrameOK(walk, k)'
    <3>1. FrameOK(walk', k)
      BY <2>3
    <3> QED BY <1>3, <2>2, <3>1 DEF FrameOK, Ranked
  <2>5. walk' # <<>> /\ walk'[1].name = walk[1].name
    BY <1>1, <2>1
  <2> QED BY <2>1, <2>4, <2>5 DEF WalkOK
<1> QED BY <1>6, <1>7

\* A walk that goes on below the same key.
LEMMA SameKey ==
  ASSUME WalkParts, verdict = "none",
         UNCHANGED <<byName, keys, next, validated, rank, clock>>,
         verdict' # "accepted",
         \/ UNCHANGED walk
         \/ walk # <<>> /\ walk' # <<>> /\ walk'[1].name = walk[1].name /\ WalkOK'
  PROVE  WalkParts'
<1>1. RankOK' /\ ValidatedOK'
  BY DEF WalkParts, RankOK, ValidatedOK, Ranked, Known, Arity, Child
<1>2. WalkOK'
  <2>1. CASE UNCHANGED walk
    <3>1. WalkOK /\ UNCHANGED <<walk, byName, rank>>
      BY <2>1 DEF WalkParts
    <3> QED BY <3>1, Zenon DEF WalkOK, FrameOK, Ranked, Arity, Child
  <2> QED BY <2>1
<1>3. KeysOK'
  <2>1. KeysOK /\ (walk # <<>> <=> walk' # <<>>) /\ walk'[1].name = walk[1].name
    BY DEF WalkParts
  <2> QED BY <2>1 DEF KeysOK, Known
<1>4. AcceptOK'
  BY DEF AcceptOK
<1> QED BY <1>1, <1>2, <1>3, <1>4 DEF WalkParts

LEMMA WalkRefParts ==
  ASSUME TypeOK, WalkParts, WalkRef
  PROVE  WalkParts'
<1> DEFINE n == Node[Top.e].to
<1>1. /\ verdict = "none" /\ walk # <<>> /\ Top.i = 1 /\ Walk(n, Onward)
      /\ UNCHANGED <<byName, keys, next, validated, rank, clock>>
  BY DEF WalkRef
<1>2. /\ Top.e \in Exprs /\ n \in Names
      /\ Arity(Top.e) = 1 /\ Child(Top.e, Top.i) = byName[n]
  BY <1>1, Onwards, Children DEF WalkRef
<1>3. CASE n \in validated /\ walk' = Onward /\ UNCHANGED verdict
  <2>1. Child(Top.e, Top.i) \in Exprs /\ Ranked(Child(Top.e, Top.i))
    BY <1>2, <1>3, Frames DEF WalkParts, ValidatedOK
  <2>2. WalkOK' /\ walk' # <<>> /\ walk'[1].name = walk[1].name
    BY <1>1, <1>2, <1>3, <2>1, MovedOn DEF WalkParts
  <2> QED BY <1>1, <1>3, <2>2, SameKey
<1>4. CASE Known(n) /\ walk' = Append(Onward, Frame(byName[n], n)) /\ UNCHANGED verdict
  <2> DEFINE f == Frame(byName[n], n)
  <2>1. /\ f \in [e : Exprs, i : {1}, name : Names \cup {None}]
        /\ f.e = Child(Top.e, Top.i)
        /\ f.name # None => f.e = byName[f.name]
    BY <1>2, <1>4, Frames DEF Frame
  <2>2. WalkOK' /\ walk' # <<>> /\ walk'[1].name = walk[1].name
    <3> HIDE DEF f
    <3>1. Top.i <= Arity(Top.e) /\ UNCHANGED <<byName, rank>> /\ walk' = Append(Onward, f)
      BY <1>1, <1>2, <1>4 DEF f
    <3> QED BY <1>1, <2>1, <3>1, MovedOn DEF WalkParts
  <2> QED BY <1>1, <1>4, <2>2, SameKey
<1>5. CASE UNCHANGED walk /\ verdict' \in {"Cycle", "UnknownRef"}
  BY <1>1, <1>5, SameKey
<1> QED BY <1>1, <1>3, <1>4, <1>5 DEF Walk

LEMMA WalkInlineParts ==
  ASSUME TypeOK, WalkParts, WalkInline
  PROVE  WalkParts'
<1> DEFINE f == Frame(Node[Top.e].args[Top.i], None)
<1>1. /\ verdict = "none" /\ walk # <<>> /\ Top.i <= Arity(Top.e)
      /\ walk' = Append(Onward, f)
      /\ UNCHANGED <<byName, keys, next, validated, verdict, rank, clock>>
  BY DEF WalkInline
<1>2. /\ Top.e \in Exprs /\ Top.i \in 1..Arity(Top.e)
      /\ Child(Top.e, Top.i) = Node[Top.e].args[Top.i] /\ Child(Top.e, Top.i) \in Exprs
  BY <1>1, Onwards, Children DEF WalkInline
<1>3. /\ f \in [e : Exprs, i : {1}, name : Names \cup {None}]
      /\ f.e = Child(Top.e, Top.i)
      /\ f.name = None
  BY <1>2 DEF Frame
<1>4. WalkOK' /\ walk' # <<>> /\ walk'[1].name = walk[1].name
  <2> HIDE DEF f
  <2> QED BY <1>1, <1>3, MovedOn DEF WalkParts
<1> QED BY <1>1, <1>4, SameKey

LEMMA WalkEndsParts ==
  ASSUME TypeOK, WalkParts, WalkEnds
  PROVE  WalkParts'
<1> DEFINE W == Len(walk)
<1> USE DEF WalkParts
<1>1. /\ verdict = "none" /\ walk # <<>> /\ Top.i > Arity(Top.e)
      /\ walk' = SubSeq(walk, 1, W - 1)
      /\ validated' = validated \cup ({Top.name} \ {None})
      /\ clock' = clock + 1
      /\ rank' = IF rank[Top.e] = 0 THEN [rank EXCEPT ![Top.e] = clock'] ELSE rank
      /\ UNCHANGED <<byName, keys, next, verdict>>
  BY DEF WalkEnds
<1>2. /\ W \in Nat \ {0} /\ Top = walk[W] /\ Top.e \in Exprs
      /\ Top.i \in Nat \ {0} /\ Top.name \in Names \cup {None}
  BY <1>1, Onwards DEF Top
<1>3. FrameOK(walk, W)
  BY <1>2 DEF WalkOK
<1>4. /\ Len(walk') = W - 1
      /\ \A k \in 1..(W - 1) : walk'[k] = walk[k]
      /\ \A k \in 1..W : walk[k].e \in Exprs /\ walk[k].i \in Nat \ {0}
  <2> DEFINE F == [e : Exprs, i : Nat \ {0}, name : Names \cup {None}]
  <2>1. walk \in Seq(F)
    BY DEF TypeOK
  <2>2. Len(walk') = W - 1 /\ \A k \in 1..(W - 1) : walk'[k] = walk[k]
    BY <1>1, <2>1, Shorter
  <2>3. \A k \in 1..W : walk[k] \in F
    <3> HIDE DEF F
    <3> QED BY <2>1
  <2> QED BY <2>2, <2>3
<1>5. /\ rank \in [Exprs -> Nat] /\ clock \in Nat
      /\ \A e \in Exprs : /\ rank'[e] = IF e = Top.e /\ rank[e] = 0 THEN clock + 1 ELSE rank[e]
                          /\ Arity(e) \in Nat /\ Arity(e)' = Arity(e)
                          /\ \A i \in Nat : Child(e, i)' = Child(e, i)
  BY <1>1, <1>2, Children DEF TypeOK, Arity, Child
<1>6. \A i \in 1..Arity(Top.e) : Child(Top.e, i) \in Exprs /\ Ranked(Child(Top.e, i))
  <2>1. \A i \in 1..Arity(Top.e) : i < Top.i
    BY <1>1, <1>2, <1>5
  <2> QED BY <1>2, <1>3, <2>1 DEF FrameOK
<1>7. \A e \in Exprs : Ranked(e) => Ranked(e)' /\ rank'[e] = rank[e]
  BY <1>5 DEF Ranked
<1>8. rank'[Top.e] # 0
  BY <1>2, <1>5
<1>9. RankOK'
  <2>1. ASSUME NEW e \in Exprs, rank'[e] # 0
        PROVE  /\ rank'[e] <= clock'
               /\ \A i \in 1..Arity(e) :
                    /\ Child(e, i) \in Exprs
                    /\ rank'[Child(e, i)] # 0 /\ rank'[Child(e, i)] < rank'[e]
    <3>1. CASE rank[e] # 0
      <4>1. /\ rank[e] <= clock
            /\ \A i \in 1..Arity(e) :
                 /\ Child(e, i) \in Exprs
                 /\ rank[Child(e, i)] # 0 /\ rank[Child(e, i)] < rank[e]
        BY <3>1 DEF RankOK, Ranked
      <4> QED BY <1>1, <1>5, <3>1, <4>1
    <3>2. CASE rank[e] = 0
      <4>1. e = Top.e /\ rank'[e] = clock + 1
        BY <1>5, <2>1, <3>2
      <4>2. ASSUME NEW i \in 1..Arity(e)
            PROVE  /\ Child(e, i) \in Exprs
                   /\ rank'[Child(e, i)] # 0 /\ rank'[Child(e, i)] < rank'[e]
        <5>1. Child(e, i) \in Exprs /\ rank[Child(e, i)] # 0
          BY <1>6, <4>1 DEF Ranked
        <5>2. rank[Child(e, i)] <= clock
          BY <5>1 DEF RankOK, Ranked
        <5> QED BY <1>5, <4>1, <5>1, <5>2
      <4> QED BY <1>1, <1>5, <4>1, <4>2
    <3> QED BY <3>1, <3>2
  <2> QED BY <1>5, <2>1 DEF RankOK, Ranked
<1>10. WalkOK'
  <2>1. ASSUME NEW k \in 1..(W - 1) PROVE FrameOK(walk, k)'
    <3>1. FrameOK(walk, k) /\ walk[k].e \in Exprs /\ walk[k].i \in Nat \ {0}
      BY <1>2, <1>4 DEF WalkOK
    <3>2. walk'[k] = walk[k]
      BY <1>4
    <3>3. CASE k < W - 1
      <4>1. walk'[k + 1] = walk[k + 1]
        BY <1>2, <1>4, <3>3
      <4>2. k < Len(walk') /\ k < Len(walk)
        BY <1>2, <1>4, <3>3
      <4> QED BY <1>1, <1>5, <1>7, <3>1, <3>2, <4>1, <4>2 DEF FrameOK, Ranked
    <3>4. CASE k = W - 1
      <4>1. walk[k + 1].e = Top.e /\ k < W /\ ~(k < Len(walk'))
        BY <1>2, <1>4, <3>4
      <4>2. Child(walk[k].e, walk[k].i - 1) = Top.e
        BY <3>1, <4>1 DEF FrameOK
      <4> QED BY <1>1, <1>2, <1>5, <1>7, <1>8, <3>1, <3>2, <4>1, <4>2 DEF FrameOK, Ranked
    <3> QED BY <1>2, <3>3, <3>4
  <2> QED BY <1>4, <2>1 DEF WalkOK
<1>11. Top.name # None => Known(Top.name) /\ byName[Top.name] = Top.e
  BY <1>2, <1>3, NoneIsNothing DEF FrameOK, Known
<1>12. ValidatedOK'
  <2>1. ASSUME NEW m \in validated' PROVE byName[m] # None /\ rank'[byName[m]] # 0
    <3>1. CASE m \in validated
      <4>1. m \in Names /\ byName[m] # None /\ rank[byName[m]] # 0
        BY <3>1 DEF ValidatedOK, Known, Ranked, TypeOK
      <4>2. byName[m] \in Exprs
        BY <4>1, Frames DEF Known
      <4> QED BY <1>5, <4>1, <4>2
    <3>2. CASE m = Top.name /\ m # None
      BY <1>8, <1>11, <3>2 DEF Known, Ranked
    <3> QED BY <1>1, <2>1, <3>1, <3>2
  <2> QED BY <1>1, <2>1 DEF ValidatedOK, Known, Ranked
<1>13. KeysOK'
  <2>1. next - 1 \in 1..Len(keys) /\ walk[1].name = keys[next - 1] /\ next \in Nat
    BY <1>1 DEF KeysOK, TypeOK
  <2>2. walk' # <<>> => W > 1 /\ walk'[1].name = walk[1].name
    BY <1>2, <1>4
  <2>3. walk' = <<>> => Top.name = keys[next - 1] /\ Top.name # None
    <3>1. walk' = <<>> => W = 1
      BY <1>2, <1>4
    <3> QED BY <1>2, <1>3, <2>1, <3>1 DEF FrameOK
  <2>4. \A k \in 1..Len(keys) :
          k < next => keys[k] \in validated' \/ (walk' # <<>> /\ k = next - 1)
    BY <1>1, <2>3 DEF KeysOK
  <2> QED BY <1>1, <2>1, <2>2, <2>4 DEF KeysOK, Known
<1>14. AcceptOK'
  BY <1>1 DEF AcceptOK
<1> QED BY <1>9, <1>10, <1>12, <1>13, <1>14

LEMMA AcceptParts ==
  ASSUME TypeOK, WalkParts, Accept
  PROVE  WalkParts'
<1> USE DEF WalkParts
<1>1. /\ walk = <<>> /\ next > Len(keys)
      /\ UNCHANGED <<byName, keys, next, walk, validated, rank, clock>>
  BY DEF Accept
<1>2. \A n \in Names : Known(n) => Ranked(byName[n])
  <2>1. \A k \in 1..Len(keys) : keys[k] \in validated
    BY <1>1 DEF KeysOK, TypeOK
  <2> QED BY <2>1 DEF KeysOK, ValidatedOK
<1>3. RankOK' /\ WalkOK' /\ ValidatedOK' /\ KeysOK'
  BY <1>1 DEF RankOK, WalkOK, FrameOK, ValidatedOK, KeysOK, Ranked, Known, Arity, Child
<1>4. AcceptOK'
  BY <1>1, <1>2 DEF AcceptOK, Known, Ranked
<1> QED BY <1>3, <1>4

-----------------------------------------------------------------------------
(* evaluate: what calls what.                                              *)

\* Below is an order, and a call leads down it.
LEMMA BelowOrders ==
  ASSUME TypeOK, NEW a \in Exprs, NEW b \in Exprs, NEW c \in Exprs
  PROVE  /\ ~Below(a, a)
         /\ Below(a, b) /\ Below(b, c) => Below(a, c)
<1>1. rank[a] \in Nat /\ rank[b] \in Nat /\ rank[c] \in Nat /\ a \in Nat /\ b \in Nat /\ c \in Nat
  BY NodesAreTrees DEF TypeOK
<1> QED BY <1>1 DEF Below, Ranked

LEMMA Edge ==
  ASSUME TypeOK, RankOK, \A n \in Names : Known(n) => Ranked(byName[n]),
         NEW e \in Exprs, NEW i \in 1..Arity(e), Child(e, i) # None
  PROVE  Child(e, i) \in Exprs /\ Below(Child(e, i), e)
<1>1. CASE Ranked(e)
  BY <1>1 DEF RankOK, Below
<1>2. CASE ~Ranked(e) /\ Node[e].kind = "ref"
  <2>1. Node[e].to \in Names /\ Child(e, i) = byName[Node[e].to]
    BY <1>2, Children
  <2>2. Child(e, i) \in Exprs /\ Ranked(Child(e, i))
    BY <2>1, Frames DEF Known
  <2> QED BY <1>2, <2>2 DEF Below
<1>3. CASE ~Ranked(e) /\ Node[e].kind # "ref"
  BY <1>3, Children DEF Below
<1> QED BY <1>1, <1>2, <1>3

LEMMA CallTypes ==
  ASSUME TypeOK
  PROVE  Len(stack) \in Nat /\ \A k \in 1..Len(stack) : stack[k].e \in Exprs
<1> DEFINE F == [e : Exprs, i : Nat \ {0}]
<1>1. stack \in Seq(F)
  BY DEF TypeOK
<1>2. Len(stack) \in Nat /\ \A k \in 1..Len(stack) : stack[k] \in F
  <2> HIDE DEF F
  <2> QED BY <1>1
<1> QED BY <1>2

\* The calls that are left when some have returned.
LEMMA CallsKept ==
  ASSUME TypeOK, StackOK, UNCHANGED <<verdict, rank>>,
         Len(stack') \in 0..Len(stack),
         \A k \in 1..Len(stack') : stack'[k].e = stack[k].e,
         stack = <<>> => stack' = <<>>
  PROVE  StackOK'
<1>1. \A j, k \in 1..Len(stack') : j < k => Below(stack[k].e, stack[j].e)
  BY CallTypes DEF StackOK
<1>2. \A j, k \in 1..Len(stack') : j < k => Below(stack[k].e, stack[j].e)'
  BY <1>1 DEF Below, Ranked
<1> QED BY <1>2 DEF StackOK

LEMMA CompileStack ==
  ASSUME StackOK, Compile
  PROVE  StackOK'
<1>1. stack = <<>> /\ UNCHANGED stack
  BY DEF Compile, WalkKey, WalkRef, WalkInline, WalkEnds, Accept, StackOK, evalVars
<1> QED BY <1>1 DEF StackOK

LEMMA EvaluateStack ==
  ASSUME TypeOK, RankOK, AcceptOK, StackOK, Evaluate
  PROVE  StackOK'
<1>1. UNCHANGED <<verdict, rank, byName>>
  BY DEF Evaluate, EvalHost, Probe, ProbeFails, Unexpanded, EvalUnknown, Call, Exhausted, Resume,
         Unmoved, compileVars
<1>2. stack # <<>>
  BY DEF Evaluate, EvalHost, Probe, ProbeFails, Unexpanded, EvalUnknown, Call, Exhausted, Resume, At
<1>3. ASSUME NEW v, Return(v) \/ Fail(v)
      PROVE  StackOK'
  <2>1. CASE stack' = <<>>
    BY <2>1 DEF StackOK
  <2>2. CASE stack' = SubSeq(stack, 1, Len(stack) - 1)
    <3> DEFINE F == [e : Exprs, i : Nat \ {0}]
    <3>1. stack \in Seq(F) /\ Len(stack) \in Nat \ {0}
      BY <1>2, Calls DEF TypeOK
    <3>2. Len(stack') = Len(stack) - 1 /\ \A k \in 1..(Len(stack) - 1) : stack'[k] = stack[k]
      BY <1>2, <2>2, <3>1, Shorter
    <3> QED BY <1>1, <1>2, <3>1, <3>2, CallsKept
  <2> QED BY <1>3, <2>1, <2>2 DEF Return, Fail
<1>4. CASE Call
  <2> DEFINE S == Len(stack)
             c == Child(Here.e, Here.i)
             F == [e : Exprs, i : Nat \ {0}]
  <2>1. verdict = "accepted" /\ Here = stack[S] /\ S \in Nat \ {0} /\ Here \in F
    BY <1>2, Calls DEF StackOK, Here
  <2>2. Here.i \in 1..Arity(Here.e) /\ Child(Here.e, Here.i) # None
    BY <1>4, <2>1, Children DEF Call
  <2>3. c \in Exprs /\ Below(c, Here.e)
    BY <2>1, <2>2, Edge DEF AcceptOK
  <2>4. stack' = Append(stack, [e |-> c, i |-> 1]) /\ stack \in Seq(F)
    BY <1>4 DEF Call, TypeOK
  <2>5. Len(stack') = S + 1 /\ stack'[S + 1].e = c /\ \A k \in 1..S : stack'[k] = stack[k]
    <3> HIDE DEF F, c
    <3> QED BY <2>1, <2>4
  <2>6. \A k \in 1..S : stack[k].e \in Exprs
    BY CallTypes
  <2>7. ASSUME NEW j \in 1..S PROVE Below(c, stack[j].e)
    <3>1. CASE j = S
      BY <2>1, <2>3, <3>1
    <3>2. CASE j < S
      <4>1. Below(stack[S].e, stack[j].e)
        BY <2>1, <3>2 DEF StackOK
      <4> QED BY <2>1, <2>3, <2>6, <4>1, BelowOrders
    <3> QED BY <2>1, <3>1, <3>2
  <2>8. ASSUME NEW j \in 1..(S + 1), NEW k \in 1..(S + 1), j < k
        PROVE  Below(stack'[k].e, stack'[j].e)
    <3>1. CASE k = S + 1
      <4>1. j \in 1..S
        BY <2>1, <2>8, <3>1
      <4> QED BY <2>5, <2>7, <3>1, <4>1
    <3>2. CASE k \in 1..S
      <4>1. j \in 1..S
        BY <2>1, <2>8, <3>2
      <4> QED BY <2>5, <2>8, <3>2, <4>1 DEF StackOK
    <3> QED BY <2>1, <3>1, <3>2
  <2>9. \A j, k \in 1..Len(stack') : j < k => Below(stack[k].e, stack[j].e)'
    BY <1>1, <2>5, <2>8 DEF Below, Ranked
  <2> QED BY <1>1, <2>1, <2>9 DEF StackOK
<1>5. CASE Resume
  <2>1. CASE Decides(Node[Here.e].kind, Here.i, value)
    BY <1>3, <1>5, <2>1 DEF Resume
  <2>2. CASE ~Decides(Node[Here.e].kind, Here.i, value)
    <3>1. Len(stack') = Len(stack) /\ \A k \in 1..Len(stack) : stack'[k].e = stack[k].e
      BY <1>2, <1>5, <2>2, Advanced DEF Resume
    <3> QED BY <1>1, <1>2, <3>1, CallsKept, CallTypes
  <2> QED BY <2>1, <2>2
<1>6. CASE EvalHost
  BY <1>3, <1>6 DEF EvalHost
<1>7. CASE Probe
  BY <1>3, <1>7 DEF Probe
<1>8. CASE ProbeFails
  BY <1>3, <1>8 DEF ProbeFails
<1>9. CASE Unexpanded
  BY <1>3, <1>9 DEF Unexpanded
<1>10. CASE EvalUnknown
  BY <1>3, <1>10 DEF EvalUnknown
<1>11. CASE Exhausted
  BY <1>3, <1>11 DEF Exhausted
<1> QED BY <1>4, <1>5, <1>6, <1>7, <1>8, <1>9, <1>10, <1>11 DEF Evaluate

LEMMA OtherStack ==
  ASSUME TypeOK, StackOK,
         \/ HostChanges \/ UNCHANGED cvars
         \/ \E vs \in SUBSET Vars : SystemInputs(vs)
         \/ \E e \in Exprs, own \in SUBSET Vars : Ask(e, own)
  PROVE  StackOK'
<1>1. CASE UNCHANGED <<verdict, rank, stack>>
  BY <1>1, CallsKept, CallTypes
<1>2. ASSUME NEW e \in Exprs, NEW own \in SUBSET Vars, Ask(e, own)
      PROVE  StackOK'
  <2>1. verdict' = "accepted" /\ Len(stack') = 1
    BY <1>2 DEF Ask, Unmoved, compileVars
  <2> QED BY <2>1 DEF StackOK
<1> QED BY <1>1, <1>2 DEF HostChanges, SystemInputs, cvars, compileVars, evalVars

-----------------------------------------------------------------------------
(* The theorems.                                                           *)

\* Each of compile's steps keeps what the walk has done.
LEMMA CompileParts ==
  ASSUME TypeOK, WalkParts, Compile
  PROVE  WalkParts'
BY WalkKeyParts, WalkRefParts, WalkInlineParts, WalkEndsParts, AcceptParts DEF Compile

LEMMA InitInv ==
  ASSUME CInit
  PROVE  CInv
<1>1. TypeOK
  BY InitTypes
<1>2. RankOK /\ WalkOK /\ ValidatedOK /\ AcceptOK /\ StackOK
  BY DEF CInit, CStart, RankOK, WalkOK, ValidatedOK, AcceptOK, StackOK, Ranked
<1>3. KeysOK
  BY DEF CInit, CStart, KeysOK
<1> QED BY <1>1, <1>2, <1>3 DEF CInv

LEMMA StepInv ==
  ASSUME CInv, [CNext]_cvars
  PROVE  CInv'
<1> USE DEF CInv
<1>1. CASE Compile
  <2>1. WalkParts'
    BY <1>1, CompileParts DEF WalkParts
  <2> QED BY <1>1, <2>1, CompileTypes, CompileStack DEF WalkParts
<1>2. CASE Evaluate
  <2>1. UNCHANGED <<byName, keys, compileVars>>
    BY <1>2 DEF Evaluate, EvalHost, Probe, ProbeFails, Unexpanded, EvalUnknown, Call,
                Exhausted, Resume, Unmoved
  <2>2. WalkParts'
    BY <2>1, PartsKept DEF WalkParts
  <2> QED BY <1>2, <2>2, EvaluateTypes, EvaluateStack DEF WalkParts
<1>3. CASE \/ HostChanges \/ UNCHANGED cvars
           \/ \E vs \in SUBSET Vars : SystemInputs(vs)
           \/ \E e \in Exprs, own \in SUBSET Vars : Ask(e, own)
  <2>1. UNCHANGED <<byName, keys, compileVars>>
    BY <1>3 DEF HostChanges, SystemInputs, Ask, Unmoved, cvars
  <2>2. WalkParts'
    BY <2>1, PartsKept DEF WalkParts
  <2>3. TypeOK'
    BY <1>3, AskTypes, OtherTypes
  <2> QED BY <1>3, <2>2, <2>3, OtherStack DEF WalkParts
<1> QED BY <1>1, <1>2, <1>3 DEF CNext

\* The invariant of compile and evaluate holds for every config: what compile
\* accepts is ranked, and a call leads down the ranks (condition.rs:138, 154).
THEOREM Invariant == CSpec => []CInv
<1>1. CInit => CInv
  BY InitInv
<1>2. CInv /\ [CNext]_cvars => CInv'
  BY StepInv
<1> QED BY <1>1, <1>2, PTL DEF CSpec

\* Every variable keeps its type.
THEOREM TypeCorrect == CSpec => []TypeOK
<1>1. CInv => TypeOK
  BY DEF CInv
<1> QED BY <1>1, Invariant, PTL

\* No expression is evaluated on behalf of itself (condition.rs:167), whatever
\* the references of a `when` that compile has not walked.
THEOREM NeverReenters == CSpec => []NoReentry
<1>1. CInv => NoReentry
  <2> SUFFICES ASSUME CInv, NEW j \in 1..Len(stack), NEW k \in 1..Len(stack), j # k
               PROVE  stack[j].e # stack[k].e
    BY DEF NoReentry
  <2>1. Len(stack) \in Nat /\ stack[j].e \in Exprs
    BY CallTypes DEF CInv
  <2>2. ~Below(stack[j].e, stack[j].e)
    BY <2>1, BelowOrders DEF CInv
  <2>3. Below(stack[k].e, stack[j].e) \/ Below(stack[j].e, stack[k].e)
    BY <2>1 DEF CInv, StackOK
  <2> QED BY <2>2, <2>3
<1> QED BY <1>1, Invariant, PTL

\* The walk is a path.
LEMMA Path ==
  ASSUME TypeOK, WalkOK
  PROVE  /\ Len(walk) \in Nat
         /\ \A k \in 1..Len(walk) : walk[k].e \in Exprs /\ walk[k].name \in Names \cup {None}
         /\ \A k \in 1..(Len(walk) - 1) :
              \E i \in 1..Arity(walk[k].e) : walk[k + 1].e = Child(walk[k].e, i)
<1> DEFINE F == [e : Exprs, i : Nat \ {0}, name : Names \cup {None}]
<1>1. walk \in Seq(F)
  BY DEF TypeOK
<1>2. Len(walk) \in Nat /\ \A k \in 1..Len(walk) : walk[k] \in F
  <2> HIDE DEF F
  <2> QED BY <1>1
<1>3. ASSUME NEW k \in 1..(Len(walk) - 1)
      PROVE  \E i \in 1..Arity(walk[k].e) : walk[k + 1].e = Child(walk[k].e, i)
  <2>1. k \in 1..Len(walk) /\ k < Len(walk)
    BY <1>2
  <2>2. /\ walk[k].i > 1 /\ walk[k].i <= Arity(walk[k].e) + 1
        /\ walk[k + 1].e = Child(walk[k].e, walk[k].i - 1)
    BY <2>1 DEF WalkOK, FrameOK
  <2>3. walk[k].i \in Nat /\ walk[k].e \in Exprs
    BY <1>2, <2>1
  <2>4. walk[k].i - 1 \in 1..Arity(walk[k].e)
    BY <2>2, <2>3, Children
  <2> QED BY <2>2, <2>4
<1> QED BY <1>2, <1>3

LEMMA RankedResolves ==
  ASSUME TypeOK, RankOK, \A n \in Names : Known(n) => Ranked(byName[n])
  PROVE  Resolves
<1> DEFINE S == {e \in Exprs : Ranked(e)} \ Leaves
<1>1. Named \subseteq S \cup Leaves
  BY Frames DEF Named
<1>2. ASSUME NEW e \in S \cup Leaves, NEW i \in 1..Arity(e)
      PROVE  Child(e, i) \in S \cup Leaves
  <2>1. e \in Exprs /\ Ranked(e)
    BY <1>2 DEF Leaves
  <2> QED BY <2>1 DEF RankOK
<1>3. Closed(S \cup Leaves)
  BY <1>2 DEF Closed
<1>4. S \in SUBSET (Exprs \ Leaves)
  OBVIOUS
<1> HIDE DEF S
<1> QED BY <1>1, <1>3, <1>4 DEF Resolves

\* Of what leads to itself, the least would lead to something less.
LEMMA RankedAcyclic ==
  ASSUME TypeOK, RankOK, \A n \in Names : Known(n) => Ranked(byName[n])
  PROVE  ~Cyclic
<1> SUFFICES ASSUME NEW S \in SUBSET (Exprs \ Leaves), S # {},
                    \A e \in S : \E i \in 1..Arity(e) : Child(e, i) \in S
             PROVE  FALSE
  BY DEF Cyclic
<1>1. \A e \in S : e \in Exprs /\ e \in Nat /\ rank[e] \in Nat
  BY NodesAreTrees DEF TypeOK
<1>2. \A e \in S : \E c \in S : Below(c, e)
  BY <1>1, Edge, NoneIsNothing
<1>3. CASE \E e \in S : Ranked(e)
  <2> DEFINE M == {rank[e] : e \in {d \in S : Ranked(d)}}
  <2>1. M \in SUBSET Nat /\ M # {}
    BY <1>1, <1>3
  <2>2. PICK m \in M : \A k \in M : m <= k
    <3> HIDE DEF M
    <3> QED BY <2>1, Least
  <2>3. PICK e \in S : Ranked(e) /\ rank[e] = m
    OBVIOUS
  <2>4. PICK c \in S : Ranked(c) /\ rank[c] < m
    BY <1>2, <2>3 DEF Below
  <2>5. rank[c] \in M
    BY <2>4
  <2>6. m <= rank[c] /\ m \in Nat /\ rank[c] \in Nat
    BY <2>1, <2>2, <2>5
  <2> QED BY <2>4, <2>6
<1>4. CASE ~\E e \in S : Ranked(e)
  <2>1. PICK e \in S : \A k \in S : e <= k
    BY <1>1, Least
  <2>2. PICK c \in S : c < e
    BY <1>2, <1>4 DEF Below
  <2> QED BY <1>1, <2>1, <2>2
<1> QED BY <1>3, <1>4

LEMMA UnknownExact ==
  ASSUME TypeOK, WalkOK, walk # <<>>, Node[Top.e].kind = "ref", ~Known(Node[Top.e].to)
  PROVE  ~Resolves
<1> SUFFICES ASSUME NEW S \in SUBSET (Exprs \ Leaves),
                    Named \subseteq S \cup Leaves, Closed(S \cup Leaves)
             PROVE  FALSE
  BY DEF Resolves
<1> DEFINE T == S \cup Leaves
           Bad == {k \in 1..Len(walk) : walk[k].e \notin T}
<1>1. T \subseteq Exprs /\ None \notin T
  BY NoneIsNothing DEF Leaves
<1>2. Len(walk) \in Nat \ {0} /\ Top = walk[Len(walk)]
  BY Onwards DEF Top
<1>3. Bad = {}
  <2> SUFFICES ASSUME Bad # {} PROVE FALSE
    OBVIOUS
  <2>1. PICK k \in Bad : \A m \in Bad : k <= m
    <3>1. Bad \in SUBSET Nat
      BY <1>2
    <3> HIDE DEF Bad
    <3> QED BY <3>1, Least
  <2>2. CASE k = 1
    <3>1. walk[1].name \in Names /\ walk[1].e = byName[walk[1].name] /\ walk[1].e \in Exprs
      BY <1>2, <2>2, Path DEF WalkOK, FrameOK
    <3>2. walk[1].e \in Named
      BY <3>1, NoneIsNothing DEF Named, Known
    <3> QED BY <2>1, <2>2, <3>2
  <2>3. CASE k > 1
    <3>1. k - 1 \in 1..(Len(walk) - 1) /\ k - 1 + 1 = k /\ k - 1 < k
      BY <1>2, <2>3
    <3>2. walk[k - 1].e \in T
      BY <2>1, <3>1
    <3>3. PICK i \in 1..Arity(walk[k - 1].e) : walk[k].e = Child(walk[k - 1].e, i)
      BY <3>1, Path
    <3> QED BY <2>1, <3>2, <3>3 DEF Closed
  <2> QED BY <1>2, <2>2, <2>3
<1>4. Top.e \in T
  BY <1>2, <1>3
<1>5. Arity(Top.e) = 1 /\ Child(Top.e, 1) = None
  BY Onwards, Children DEF Known
<1> QED BY <1>1, <1>4, <1>5 DEF Closed

LEMMA CycleExact ==
  ASSUME TypeOK, WalkOK, walk # <<>>, Node[Top.e].kind = "ref", Node[Top.e].to \in Walking
  PROVE  Cyclic
<1> DEFINE n == Node[Top.e].to
           W == Len(walk)
<1>1. W \in Nat \ {0} /\ Top = walk[W] /\ Top.e \in Exprs
  BY Onwards DEF Top
<1>2. PICK k \in 1..W : walk[k].name = n /\ n # None
  BY DEF Walking
<1>3. walk[k].e = byName[n]
  BY <1>2 DEF WalkOK, FrameOK
<1>4. Arity(Top.e) = 1 /\ Child(Top.e, 1) = walk[k].e
  BY <1>1, <1>3, Children
<1> DEFINE S == {walk[j].e : j \in k..W}
<1>5. ASSUME NEW j \in k..W
      PROVE  /\ walk[j].e \in Exprs /\ Arity(walk[j].e) # 0
             /\ \E i \in 1..Arity(walk[j].e) : Child(walk[j].e, i) \in S
  <2>1. j \in 1..W /\ walk[j].e \in Exprs
    BY <1>1, Path
  <2>2. CASE j = W
    <3>1. 1 \in 1..Arity(walk[j].e) /\ Child(walk[j].e, 1) \in S
      BY <1>1, <1>4, <2>2
    <3> QED BY <1>1, <1>4, <2>1, <2>2, <3>1
  <2>3. CASE j < W
    <3>1. j \in 1..(W - 1) /\ j + 1 \in k..W
      BY <1>1, <2>1, <2>3
    <3>2. PICK i \in 1..Arity(walk[j].e) : walk[j + 1].e = Child(walk[j].e, i)
      BY <3>1, Path
    <3>3. Arity(walk[j].e) # 0
      BY <3>2
    <3> QED BY <2>1, <3>1, <3>2, <3>3
  <2> QED BY <1>1, <2>1, <2>2, <2>3
<1>6. S \in SUBSET (Exprs \ Leaves)
  BY <1>5 DEF Leaves
<1>7. S # {}
  <2>1. k \in k..W
    BY <1>1
  <2>2. walk[k].e \in S
    BY <2>1
  <2> QED BY <2>2
<1>8. \A e \in S : \E i \in 1..Arity(e) : Child(e, i) \in S
  BY <1>5
<1> HIDE DEF S
<1> QED BY <1>6, <1>7, <1>8 DEF Cyclic

LEMMA StepExact ==
  ASSUME CInv, CNext, verdict' # verdict
  PROVE  Exact(verdict')
<1> USE DEF CInv
<1>1. WalkKey \/ WalkRef \/ Accept
  BY DEF CNext, Compile, WalkInline, WalkEnds, SystemInputs, Ask, Evaluate, EvalHost, Probe,
         ProbeFails, Unexpanded, EvalUnknown, Call, Exhausted, Resume, HostChanges,
         Unmoved, compileVars
<1>2. CASE WalkKey
  <2>1. walk = <<>> /\ next \in 1..Len(keys) /\ Walk(keys[next], <<>>)
    BY <1>2 DEF WalkKey, TypeOK
  <2>2. Known(keys[next]) /\ Walking = {}
    BY <2>1 DEF KeysOK, Walking
  <2> QED BY <2>1, <2>2 DEF Walk
<1>3. CASE WalkRef
  <2> DEFINE n == Node[Top.e].to
  <2>1. walk # <<>> /\ Node[Top.e].kind = "ref" /\ Walk(n, Onward)
    BY <1>3 DEF WalkRef
  <2>2. \/ n \in Walking /\ verdict' = "Cycle"
        \/ ~Known(n) /\ verdict' = "UnknownRef"
    BY <2>1 DEF Walk
  <2> QED BY <2>1, <2>2, CycleExact, UnknownExact DEF Exact
<1>4. CASE Accept
  <2>1. verdict' = "accepted" /\ UNCHANGED <<byName, rank>>
    BY <1>4 DEF Accept
  <2>2. AcceptOK'
    BY <1>4, AcceptParts DEF WalkParts
  <2>3. \A n \in Names : Known(n) => Ranked(byName[n])
    BY <2>1, <2>2 DEF AcceptOK, Known, Ranked
  <2> QED BY <2>1, <2>3, RankedResolves, RankedAcyclic DEF Exact
<1> QED BY <1>1, <1>2, <1>3, <1>4

\* compile accepts exactly the registries whose references all resolve and
\* never lead back (condition.rs:93), for every config.
THEOREM DecidesExactly == CSpec => CompileExact
<1>1. CInv /\ [CNext]_cvars => [verdict' # verdict => Exact(verdict')]_verdict
  BY StepExact DEF cvars, compileVars
<1> QED BY <1>1, Invariant, PTL DEF CSpec, CompileExact
-----------------------------------------------------------------------------
(* What an expression means.                                               *)

Meanings == {"yes", "no", "error"}

\* An expression comes after its children: by its rank, or, where compile has not
\* seen it, by its number.
Depth(e) == IF Ranked(e) THEN rank[e] ELSE clock + 1 + e

LEMMA ChildBelow ==
  ASSUME CInv, verdict = "accepted", NEW e \in Exprs
  PROVE  /\ Depth(e) \in Nat
         /\ \A i \in 1..Arity(e) :
              Child(e, i) \in Exprs => Depth(Child(e, i)) \in Nat /\ Depth(Child(e, i)) < Depth(e)
<1> USE DEF CInv
<1>1. /\ clock \in Nat /\ Exprs \subseteq Nat
      /\ \A c \in Exprs : rank[c] \in Nat /\ (Ranked(c) => rank[c] <= clock)
  BY NodesAreTrees DEF TypeOK, RankOK
<1>2. \A c \in Exprs : Depth(c) \in Nat
  <2> TAKE c \in Exprs
  <2>1. c \in Nat /\ rank[c] \in Nat /\ clock + 1 \in Nat
    BY <1>1
  <2> QED BY <2>1 DEF Depth
<1>3. ASSUME NEW i \in 1..Arity(e), Child(e, i) \in Exprs
      PROVE  Depth(Child(e, i)) < Depth(e)
  <2> DEFINE c == Child(e, i)
  <2>1. CASE Ranked(e)
    <3>1. Ranked(c) /\ rank[c] < rank[e]
      BY <2>1 DEF RankOK
    <3> QED BY <2>1, <3>1 DEF Depth
  <2>2. CASE ~Ranked(e) /\ Ranked(c)
    <3>1. rank[c] <= clock /\ rank[c] \in Nat /\ e \in Nat
      BY <1>1, <1>3, <2>2
    <3> QED BY <1>1, <2>2, <3>1 DEF Depth
  <2>3. CASE ~Ranked(e) /\ ~Ranked(c)
    <3>1. Node[e].kind # "ref"
      <4> SUFFICES ASSUME Node[e].kind = "ref" PROVE FALSE
        OBVIOUS
      <4>1. Node[e].to \in Names /\ c = byName[Node[e].to]
        BY <1>3, Children
      <4>2. Known(Node[e].to)
        BY <1>3, <4>1, NoneIsNothing DEF Known
      <4> QED BY <2>3, <4>1, <4>2 DEF AcceptOK
    <3>2. c < e /\ c \in Nat /\ e \in Nat
      BY <1>1, <1>3, <3>1, Children
    <3> QED BY <1>1, <2>3, <3>2 DEF Depth
  <2> QED BY <2>1, <2>2, <2>3
<1> QED BY <1>2, <1>3

\* What an expression means depends on what its children mean and nothing else.
LEMMA MeansLocal ==
  ASSUME TypeOK, NEW own, NEW f, NEW g, NEW e \in Exprs,
         \A i \in 1..Arity(e) : Child(e, i) \in Exprs => f[Child(e, i)] = g[Child(e, i)]
  PROVE  Means(own, f, e) = Means(own, g, e)
<1>1. CASE Node[e].kind = "ref"
  <2>1. Arity(e) = 1 /\ Child(e, 1) = byName[Node[e].to] /\ Node[e].to \in Names
    BY <1>1, Children
  <2>2. Known(Node[e].to) => f[byName[Node[e].to]] = g[byName[Node[e].to]]
    BY <2>1, Frames
  <2> QED BY <1>1, <2>2 DEF Means
<1>2. CASE Node[e].kind # "ref"
  <2>1. \A i \in 1..Arity(e) : Child(e, i) \in Exprs
    BY <1>2, Children
  <2>2. {f[Child(e, i)] : i \in 1..Arity(e)} = {g[Child(e, i)] : i \in 1..Arity(e)}
    BY <2>1
  <2> QED BY <1>2, <2>2 DEF Means
<1> QED BY <1>1, <1>2

LEMMA MeansTypes ==
  ASSUME TypeOK, NEW own, NEW f \in [Exprs -> Meanings], NEW e \in Exprs
  PROVE  Means(own, f, e) \in Meanings
<1>1. Node[e].kind \in Kinds
  BY NodesAreTrees
<1>2. Node[e].kind = "ref" /\ Known(Node[e].to) => f[byName[Node[e].to]] \in Meanings
  BY Children, Frames
<1> DEFINE of == {f[Child(e, i)] : i \in 1..Arity(e)}
<1> HIDE DEF of
<1> QED BY <1>1, <1>2 DEF Means, Meanings, YesNo, Kinds

\* The expressions before depth n mean what their children make them mean.
Grounded(own, n, f) == \A e \in Exprs : Depth(e) < n => f[e] = Means(own, f, e)

LEMMA GroundedExists ==
  ASSUME CInv, verdict = "accepted", NEW own, NEW n \in Nat
  PROVE  \E f \in [Exprs -> Meanings] : Grounded(own, n, f)
<1> DEFINE Bad == {k \in Nat : \A f \in [Exprs -> Meanings] : ~Grounded(own, k, f)}
<1>1. SUFFICES ASSUME Bad # {} PROVE FALSE
  OBVIOUS
<1>2. PICK m \in Bad : \A k \in Bad : m <= k
  <2>1. Bad \in SUBSET Nat
    OBVIOUS
  <2> HIDE DEF Bad
  <2> QED BY <1>1, <2>1, Least
<1>3. TypeOK /\ \A e \in Exprs : Depth(e) \in Nat
  BY ChildBelow DEF CInv
<1>4. CASE m = 0
  <2> DEFINE f == [e \in Exprs |-> "no"]
  <2>1. f \in [Exprs -> Meanings] /\ Grounded(own, 0, f)
    BY <1>3 DEF Meanings, Grounded
  <2> QED BY <1>2, <1>4, <2>1
<1>5. CASE m # 0
  <2>1. m - 1 \in Nat /\ m - 1 < m /\ m - 1 \notin Bad
    BY <1>2, <1>5
  <2>2. PICK f \in [Exprs -> Meanings] : Grounded(own, m - 1, f)
    BY <2>1
  <2> DEFINE g == [e \in Exprs |-> Means(own, f, e)]
  <2>3. g \in [Exprs -> Meanings]
    BY <1>3, MeansTypes
  <2>4. ASSUME NEW e \in Exprs, Depth(e) < m PROVE g[e] = Means(own, g, e)
    <3>1. ASSUME NEW i \in 1..Arity(e), Child(e, i) \in Exprs
          PROVE  f[Child(e, i)] = g[Child(e, i)]
      <4>1. Depth(Child(e, i)) < m - 1
        BY <1>3, <2>4, <3>1, ChildBelow
      <4> QED BY <2>2, <3>1, <4>1 DEF Grounded
    <3> QED BY <1>3, <3>1, MeansLocal
  <2>5. Grounded(own, m, g)
    BY <2>4 DEF Grounded
  <2> QED BY <1>2, <2>3, <2>5
<1> QED BY <1>4, <1>5

LEMMA GroundedUnique ==
  ASSUME CInv, verdict = "accepted", NEW own, NEW n \in Nat, NEW m \in Nat,
         NEW f, NEW g, Grounded(own, n, f), Grounded(own, m, g),
         NEW x \in Exprs, Depth(x) < n, Depth(x) < m
  PROVE  f[x] = g[x]
<1> DEFINE Bad == {k \in Nat : \E e \in Exprs :
                     Depth(e) = k /\ k < n /\ k < m /\ f[e] # g[e]}
<1>1. TypeOK /\ \A e \in Exprs : Depth(e) \in Nat
  BY ChildBelow DEF CInv
<1>2. SUFFICES ASSUME Bad # {} PROVE FALSE
  BY <1>1
<1>3. PICK k \in Bad : \A j \in Bad : k <= j
  <2>1. Bad \in SUBSET Nat
    OBVIOUS
  <2> HIDE DEF Bad
  <2> QED BY <1>2, <2>1, Least
<1>4. PICK e \in Exprs : Depth(e) = k /\ k < n /\ k < m /\ f[e] # g[e]
  BY <1>3
<1>5. ASSUME NEW i \in 1..Arity(e), Child(e, i) \in Exprs
      PROVE  f[Child(e, i)] = g[Child(e, i)]
  <2>1. Depth(Child(e, i)) \in Nat /\ Depth(Child(e, i)) < k
    BY <1>4, <1>5, ChildBelow
  <2>2. Depth(Child(e, i)) \notin Bad
    BY <1>3, <2>1
  <2> QED BY <1>3, <1>4, <1>5, <2>1, <2>2
<1>6. Means(own, f, e) = Means(own, g, e)
  BY <1>1, <1>5, MeansLocal
<1>7. f[e] = Means(own, f, e) /\ g[e] = Means(own, g, e)
  BY <1>4 DEF Grounded
<1> QED BY <1>4, <1>6, <1>7

\* Where compile has accepted, the meaning of the expressions is well defined.
LEMMA MeaningIs ==
  ASSUME CInv, verdict = "accepted", NEW own
  PROVE  \A e \in Exprs : Meaning(own)[e] = Means(own, Meaning(own), e)
<1> DEFINE At0(e) == CHOOSE f \in [Exprs -> Meanings] : Grounded(own, Depth(e) + 1, f)
           h == [e \in Exprs |-> At0(e)[e]]
<1>1. TypeOK /\ \A e \in Exprs : Depth(e) \in Nat
  BY ChildBelow DEF CInv
<1>2. ASSUME NEW e \in Exprs
      PROVE  At0(e) \in [Exprs -> Meanings] /\ Grounded(own, Depth(e) + 1, At0(e))
  <2>1. Depth(e) + 1 \in Nat
    BY <1>1
  <2> QED BY <2>1, GroundedExists
<1>3. ASSUME NEW e \in Exprs PROVE h[e] = Means(own, h, e)
  <2>1. ASSUME NEW i \in 1..Arity(e), Child(e, i) \in Exprs
        PROVE  At0(e)[Child(e, i)] = h[Child(e, i)]
    <3> DEFINE c == Child(e, i)
    <3>1. /\ Depth(c) < Depth(e) + 1 /\ Depth(c) < Depth(c) + 1
          /\ Depth(e) + 1 \in Nat /\ Depth(c) + 1 \in Nat
      BY <1>1, <2>1, ChildBelow
    <3>2. Grounded(own, Depth(e) + 1, At0(e)) /\ Grounded(own, Depth(c) + 1, At0(c))
      BY <1>2, <2>1
    <3> HIDE DEF At0
    <3>3. At0(e)[c] = At0(c)[c]
      BY <2>1, <3>1, <3>2, GroundedUnique
    <3> QED BY <2>1, <3>3
  <2>2. Means(own, At0(e), e) = Means(own, h, e)
    <3> HIDE DEF h, At0
    <3> QED BY <1>1, <2>1, MeansLocal
  <2>3. Depth(e) < Depth(e) + 1
    BY <1>1
  <2>4. At0(e)[e] = Means(own, At0(e), e)
    BY <1>2, <2>3 DEF Grounded
  <2> QED BY <2>2, <2>4
<1>4. h = [e \in Exprs |-> Means(own, h, e)]
  <2>1. h = [e \in Exprs |-> h[e]]
    OBVIOUS
  <2> HIDE DEF h
  <2> QED BY <1>3, <2>1
<1> HIDE DEF h
<1>5. Meaning(own) = [e \in Exprs |-> Means(own, Meaning(own), e)]
  BY <1>4 DEF Meaning
<1> QED BY <1>5
-----------------------------------------------------------------------------
(* evaluate and check: the value returned is what the expression means.    *)

\* A leaf means what the host says, a combinator what its children leave it.
LEMMA MeaningOfLeaf ==
  ASSUME CInv, verdict = "accepted", NEW own, NEW e \in Exprs
  PROVE  /\ Node[e].kind = "host" => Meaning(own)[e] = YesNo(Node[e].holds)
         /\ Node[e].kind \in {"file", "exists", "which"} /\ Expands(e, own) =>
              Meaning(own)[e] = YesNo(host[Node[e].probe])
         /\ Node[e].kind = "exists" /\ ~Expands(e, own) => Meaning(own)[e] = "no"
<1>1. Meaning(own)[e] = Means(own, Meaning(own), e)
  BY MeaningIs
<1> HIDE DEF Expands
<1> QED BY <1>1 DEF Means

LEMMA MeaningSettled ==
  ASSUME CInv, verdict = "accepted", NEW own, NEW e \in Exprs, NEW i \in 1..Arity(e),
         NEW v \in {"yes", "no"}, v = Meaning(own)[Child(e, i)],
         Node[e].kind \in {"ref", "all", "any", "not", "when"}, Child(e, i) # None,
         Decides(Node[e].kind, i, v),
         \A j \in 1..Arity(e) : j < i =>
           LET w == Meaning(own)[Child(e, j)]
           IN  w \in {"yes", "no"} /\ ~Decides(Node[e].kind, j, w)
  PROVE  Meaning(own)[e] = IF Node[e].kind = "not" THEN YesNo(v = "no") ELSE v
<1> DEFINE M == Meaning(own)
           of == {M[Child(e, j)] : j \in 1..Arity(e)}
<1>1. M[e] = Means(own, M, e) /\ TypeOK
  BY MeaningIs DEF CInv
<1>2. v \in of
  OBVIOUS
<1>3. CASE Node[e].kind = "ref"
  <2>1. i = 1 /\ Child(e, 1) = byName[Node[e].to]
    BY <1>1, <1>3, Children
  <2> QED BY <1>1, <1>3, <2>1 DEF Means, Known
<1>4. CASE Node[e].kind = "all"
  <2>1. v = "no"
    BY <1>4 DEF Decides
  <2> QED BY <1>1, <1>2, <1>4, <2>1 DEF Means
<1>5. CASE Node[e].kind = "any"
  <2>1. v = "yes"
    BY <1>5 DEF Decides
  <2> QED BY <1>1, <1>2, <1>5, <2>1 DEF Means
<1>6. CASE Node[e].kind = "not"
  <2>1. Arity(e) = 1 /\ i = 1
    BY <1>1, <1>6, Children, NodesAreTrees
  <2>2. of = {v}
    BY <2>1
  <2>3. M[e] = IF {v} = {"error"} THEN "error" ELSE YesNo({v} = {"no"})
    BY <1>1, <1>6, <2>2 DEF Means
  <2>4. v # "error" /\ ({v} = {"no"} <=> v = "no")
    OBVIOUS
  <2> QED BY <1>6, <2>3, <2>4
<1>7. CASE Node[e].kind = "when"
  <2>1. Arity(e) = 2
    BY <1>1, <1>7, Children, NodesAreTrees
  <2>2. CASE v = "no"
    BY <1>1, <1>2, <1>7, <2>2 DEF Means
  <2>3. CASE v = "yes"
    <3>1. i = 2
      BY <1>7, <2>3 DEF Decides
    <3>2. M[Child(e, 1)] = "yes" /\ M[Child(e, 2)] = "yes"
      <4>1. 1 \in 1..Arity(e) /\ 1 < i
        BY <2>1, <3>1
      <4>2. M[Child(e, 1)] \in {"yes", "no"} /\ ~Decides("when", 1, M[Child(e, 1)])
        BY <1>7, <4>1
      <4> QED BY <2>3, <3>1, <4>2 DEF Decides
    <3>3. "no" \notin of /\ "error" \notin of
      BY <2>1, <3>2
    <3> QED BY <1>1, <1>7, <2>3, <3>3 DEF Means
  <2> QED BY <2>2, <2>3
<1> QED BY <1>3, <1>4, <1>5, <1>6, <1>7

LEMMA MeaningExhausted ==
  ASSUME CInv, verdict = "accepted", NEW own, NEW e \in Exprs,
         Node[e].kind \in {"all", "any"},
         \A j \in 1..Arity(e) :
           LET w == Meaning(own)[Child(e, j)]
           IN  w \in {"yes", "no"} /\ ~Decides(Node[e].kind, j, w)
  PROVE  Meaning(own)[e] = YesNo(Node[e].kind = "all")
<1> DEFINE M == Meaning(own)
           of == {M[Child(e, j)] : j \in 1..Arity(e)}
<1>1. M[e] = Means(own, M, e)
  BY MeaningIs
<1>2. CASE Node[e].kind = "all"
  <2>1. "no" \notin of /\ "error" \notin of
    BY <1>2 DEF Decides
  <2> QED BY <1>1, <1>2, <2>1 DEF Means, YesNo
<1>3. CASE Node[e].kind = "any"
  <2>1. "yes" \notin of /\ "error" \notin of
    BY <1>3 DEF Decides
  <2> QED BY <1>1, <1>3, <2>1 DEF Means, YesNo
<1> QED BY <1>2, <1>3

\* Nothing that the meaning is made of changes while the host stands still.
LEMMA MeaningKept ==
  ASSUME UNCHANGED <<inputs, byName, system, host>>
  PROVE  Meaning(inputs)' = Meaning(inputs)
BY DEF Meaning, Means, Expands, Known, Child, Arity

\* A call returns what its expression means.
LEMMA ReturnAnswers ==
  ASSUME CInv, AnswerInv, stack # <<>>, NEW v \in {"yes", "no"}, Return(v),
         UNCHANGED <<inputs, asked, steady>>, Unmoved,
         steady => v = Meaning(inputs)[Here.e]
  PROVE  AnswerInv'
<1> DEFINE n == Len(stack)
<1>1. /\ n \in Nat \ {0} /\ Here = stack[n] /\ asked # None /\ verdict = "accepted"
      /\ stack' = SubSeq(stack, 1, n - 1) /\ value' = v
      /\ UNCHANGED <<inputs, asked, steady, verdict, byName, system, host>>
  BY Calls DEF Here, CInv, AnswerInv, CallsOK, Return, Unmoved, compileVars
<1>2. Len(stack') = n - 1 /\ \A k \in 1..(n - 1) : stack'[k] = stack[k]
  <2>1. stack \in Seq([e : Exprs, i : Nat \ {0}])
    BY DEF CInv, TypeOK
  <2> QED BY <1>1, <2>1, Shorter
<1>3. Meaning(inputs)' = Meaning(inputs)
  BY <1>1, MeaningKept
<1>4. \A e : /\ Arity(e)' = Arity(e) /\ \A i : Child(e, i)' = Child(e, i)
  BY <1>1 DEF Arity, Child
<1>5. CASE n = 1
  <2>1. stack' = <<>> /\ Here.e = asked
    <3>1. stack'  \in Seq([e : Exprs, i : Nat \ {0}])
      BY <1>1, Calls DEF CInv
    <3>2. stack' = <<>>
      BY <1>2, <1>5, <3>1
    <3> QED BY <1>1, <1>5, <3>2 DEF AnswerInv, CallsOK
  <2>2. Len(stack') = 0 /\ asked' # None /\ verdict' = "accepted"
    BY <1>1, <1>2, <1>5
  <2>3. CallsOK'
    BY <2>1, <2>2 DEF CallsOK
  <2>4. Returned' = asked
    BY <1>1, <2>1 DEF Returned
  <2> QED BY <1>1, <1>3, <2>1, <2>2, <2>3, <2>4 DEF AnswerInv
<1>6. CASE n > 1
  <2>1. stack' # <<>> /\ Here' = stack[n - 1] /\ n - 1 \in 1..(n - 1) /\ 1 \in 1..(n - 1)
    <3>1. n - 1 \in 1..(n - 1) /\ 1 \in 1..(n - 1) /\ Len(stack') # 0
      BY <1>1, <1>2, <1>6
    <3>2. stack' # <<>> /\ stack'[Len(stack')] = stack[n - 1]
      BY <1>2, <3>1
    <3> QED BY <3>1, <3>2 DEF Here
  <2>2. /\ stack[n - 1].i \in 1..Arity(stack[n - 1].e)
        /\ Here.e = Child(stack[n - 1].e, stack[n - 1].i)
        /\ Here.e # None
    <3>1. n - 1 + 1 = n
      BY <1>1
    <3> QED BY <1>1, <2>1, <3>1, Calls, NoneIsNothing DEF AnswerInv, CallsOK, CInv
  <2>3. CallsOK'
    <3>1. ASSUME NEW k \in 1..(n - 2)
          PROVE  /\ stack'[k].i \in 1..Arity(stack'[k].e)
                 /\ stack'[k + 1].e = Child(stack'[k].e, stack'[k].i)
      <4>1. k \in 1..(n - 1) /\ k + 1 \in 1..(n - 1)
        BY <1>1
      <4>2. stack'[k] = stack[k] /\ stack'[k + 1] = stack[k + 1]
        BY <1>2, <4>1
      <4> QED BY <4>1, <4>2 DEF AnswerInv, CallsOK
    <3>2. stack'[1].e = asked
      BY <1>2, <2>1 DEF AnswerInv, CallsOK
    <3>3. Len(stack') - 1 = n - 2
      BY <1>1, <1>2
    <3> QED BY <1>1, <1>4, <2>1, <2>2, <3>1, <3>2, <3>3 DEF CallsOK
  <2>4. ASSUME steady, NEW k \in 1..(n - 1) PROVE Open(stack[k])
    BY <1>1, <2>4 DEF AnswerInv
  <2>5. ASSUME steady, NEW k \in 1..(n - 1) PROVE Open(stack[k])'
    BY <1>1, <1>2, <1>3, <1>4, <2>4, <2>5 DEF Open
  <2>6. Returned' = Here.e
    BY <1>4, <2>1, <2>2 DEF Returned
  <2>7. steady' => \A k \in 1..Len(stack') : Open(stack[k])'
    BY <1>1, <1>2, <2>5
  <2>8. steady' => (value = Meaning(inputs)[Returned])'
    BY <1>1, <1>3, <2>6
  <2> QED BY <2>3, <2>7, <2>8 DEF AnswerInv
<1>7. n = 1 \/ n > 1
  <2>1. n \in Nat \ {0}
    BY Calls DEF CInv
  <2> HIDE DEF n
  <2> QED BY <2>1
<1> QED BY <1>5, <1>6, <1>7

LEMMA FailAnswers ==
  ASSUME CInv, AnswerInv, NEW err \in Errors, Fail(err),
         UNCHANGED <<inputs, asked, steady>>, Unmoved
  PROVE  AnswerInv'
<1>1. /\ stack' = <<>> /\ value' \notin {"yes", "no"}
      /\ UNCHANGED <<asked, verdict>>
  BY DEF Fail, Errors, Unmoved, compileVars
<1> QED BY <1>1 DEF AnswerInv, CallsOK

LEMMA CallAnswers ==
  ASSUME CInv, AnswerInv, Call
  PROVE  AnswerInv'
<1> DEFINE n == Len(stack)
           f == [e |-> Child(Here.e, Here.i), i |-> 1]
<1>1. /\ stack # <<>> /\ n \in Nat \ {0} /\ Here = stack[n] /\ value' = "pending"
      /\ asked # None /\ verdict = "accepted"
      /\ Here.e \in Exprs /\ Here.i \in 1..Arity(Here.e)
      /\ stack' = Append(stack, f)
      /\ UNCHANGED <<inputs, asked, steady, verdict, byName, system, host>>
  BY Calls, Children DEF Call, At, Here, CInv, AnswerInv, CallsOK, Unmoved, compileVars
<1>2. /\ Len(stack') = n + 1 /\ stack'[n + 1] = f
      /\ \A k \in 1..n : stack'[k] = stack[k]
  <2>1. stack \in Seq([e : Exprs, i : Nat \ {0}])
    BY DEF CInv, TypeOK
  <2> HIDE DEF f
  <2> QED BY <1>1, <2>1
<1>3. /\ \A e : /\ Arity(e)' = Arity(e) /\ \A i : Child(e, i)' = Child(e, i)
      /\ Meaning(inputs)' = Meaning(inputs)
  BY <1>1 DEF Arity, Child, Meaning, Means, Expands, Known
<1>4. CallsOK'
  <2>1. ASSUME NEW k \in 1..n
        PROVE  /\ stack'[k].i \in 1..Arity(stack'[k].e)
               /\ stack'[k + 1].e = Child(stack'[k].e, stack'[k].i)
    <3>1. CASE k = n
      BY <1>1, <1>2, <3>1
    <3>2. CASE k < n
      <4>1. k \in 1..(n - 1) /\ k + 1 \in 1..n
        BY <1>1, <3>2
      <4> QED BY <1>2, <4>1 DEF AnswerInv, CallsOK
    <3> QED BY <1>1, <3>1, <3>2
  <2>2. stack'[1].e = asked
    BY <1>1, <1>2 DEF AnswerInv, CallsOK
  <2>3. Len(stack') - 1 = n
    BY <1>1, <1>2
  <2> QED BY <1>1, <1>3, <2>1, <2>2, <2>3 DEF CallsOK
<1>5. ASSUME steady, NEW k \in 1..(n + 1) PROVE Open(stack'[k])
  <2>1. CASE k = n + 1
    BY <1>2, <2>1 DEF Open
  <2>2. CASE k \in 1..n
    BY <1>1, <1>2, <1>5, <2>2 DEF AnswerInv
  <2> QED BY <1>1, <2>1, <2>2
<1>6. ASSUME steady, NEW k \in 1..(n + 1) PROVE Open(stack[k])'
  BY <1>1, <1>3, <1>5, <1>6 DEF Open
<1> QED BY <1>1, <1>2, <1>4, <1>6 DEF AnswerInv

LEMMA ResumeAnswers ==
  ASSUME CInv, AnswerInv, Resume
  PROVE  AnswerInv'
<1> DEFINE n == Len(stack)
<1>1. /\ stack # <<>> /\ n \in Nat \ {0} /\ Here = stack[n] /\ value \in {"yes", "no"}
      /\ asked # None /\ verdict = "accepted"
      /\ Here.e \in Exprs /\ Here.i \in 1..Arity(Here.e) /\ TypeOK
      /\ UNCHANGED <<inputs, asked, steady, verdict, byName, system, host>> /\ Unmoved
  BY Calls DEF Resume, Here, CInv, AnswerInv, CallsOK, Unmoved, compileVars
<1>2. steady => value = Meaning(inputs)[Child(Here.e, Here.i)] /\ Open(Here)
  BY <1>1 DEF AnswerInv, Returned
<1>3. CASE Decides(Node[Here.e].kind, Here.i, value)
  <2> DEFINE v == IF Node[Here.e].kind = "not" THEN YesNo(value = "no") ELSE value
  <2>1. v \in {"yes", "no"} /\ Return(v)
    BY <1>1, <1>3 DEF Resume, YesNo
  <2>2. Child(Here.e, Here.i) # None /\ Node[Here.e].kind \in {"ref", "all", "any", "not", "when"}
    BY <1>1, <1>3 DEF Decides, AnswerInv, CallsOK
  <2>3. steady => v = Meaning(inputs)[Here.e]
    <3> SUFFICES ASSUME steady PROVE v = Meaning(inputs)[Here.e]
      OBVIOUS
    <3>1. \A j \in 1..Arity(Here.e) : j < Here.i =>
            LET w == Meaning(inputs)[Child(Here.e, j)]
            IN  w \in {"yes", "no"} /\ ~Decides(Node[Here.e].kind, j, w)
      BY <1>2 DEF Open
    <3> QED BY <1>1, <1>2, <1>3, <2>2, <3>1, MeaningSettled
  <2> HIDE DEF v
  <2> QED BY <1>1, <2>1, <2>3, ReturnAnswers
<1>4. CASE ~Decides(Node[Here.e].kind, Here.i, value)
  <2>1. stack' = [stack EXCEPT ![n].i = @ + 1] /\ value' = "pending"
    BY <1>4 DEF Resume
  <2>2. /\ Len(stack') = n
        /\ \A k \in 1..n : /\ stack'[k].e = stack[k].e
                            /\ stack'[k].i = IF k = n THEN stack[k].i + 1 ELSE stack[k].i
    BY <1>1, <2>1, Advanced
  <2>3. /\ \A e : /\ Arity(e)' = Arity(e) /\ \A i : Child(e, i)' = Child(e, i)
        /\ Meaning(inputs)' = Meaning(inputs)
    BY <1>1 DEF Arity, Child, Meaning, Means, Expands, Known
  <2>4. CallsOK'
    <3>1. ASSUME NEW k \in 1..(n - 1)
          PROVE  /\ stack'[k].i \in 1..Arity(stack'[k].e)
                 /\ stack'[k + 1].e = Child(stack'[k].e, stack'[k].i)
      <4>1. k \in 1..n /\ k + 1 \in 1..n /\ k # n
        BY <1>1
      <4> QED BY <2>2, <4>1 DEF AnswerInv, CallsOK
    <3>2. stack'[1].e = asked /\ stack' # <<>>
      BY <1>1, <2>2 DEF AnswerInv, CallsOK
    <3> QED BY <1>1, <2>1, <2>2, <2>3, <3>1, <3>2 DEF CallsOK
  <2>5. ASSUME steady, NEW k \in 1..n PROVE Open(stack'[k])
    <3>1. Open(stack[k])
      BY <1>1, <2>5 DEF AnswerInv
    <3>2. CASE k = n
      <4>1. ASSUME NEW i \in 1..Arity(Here.e), i < Here.i + 1
            PROVE  LET w == Meaning(inputs)[Child(Here.e, i)]
                   IN  w \in {"yes", "no"} /\ ~Decides(Node[Here.e].kind, i, w)
        <5>1. CASE i = Here.i
          BY <1>1, <1>2, <1>4, <2>5, <5>1
        <5>2. CASE i < Here.i
          BY <1>2, <2>5, <5>2 DEF Open
        <5> QED BY <1>1, <4>1, <5>1, <5>2
      <4> QED BY <1>1, <2>2, <3>2, <4>1 DEF Open
    <3>3. CASE k # n
      BY <2>2, <3>1, <3>3 DEF Open
    <3> QED BY <3>2, <3>3
  <2>6. ASSUME steady, NEW k \in 1..n PROVE Open(stack[k])'
    BY <1>1, <2>3, <2>5, <2>6 DEF Open
  <2> QED BY <1>1, <2>1, <2>2, <2>4, <2>6 DEF AnswerInv
<1> QED BY <1>3, <1>4

LEMMA EvaluateAnswers ==
  ASSUME CInv, AnswerInv, Evaluate
  PROVE  AnswerInv'
<1>0. ASSUME stack # <<>>
      PROVE  Here.e \in Exprs /\ Here.i \in Nat \ {0} /\ verdict = "accepted" /\ asked # None
  BY <1>0, Calls DEF CInv, AnswerInv, CallsOK
<1>1. CASE EvalHost
  <2>1. Return(YesNo(Node[Here.e].holds)) /\ stack # <<>> /\ Node[Here.e].kind = "host"
    BY <1>1 DEF EvalHost, At
  <2>2. Meaning(inputs)[Here.e] = YesNo(Node[Here.e].holds)
    BY <1>0, <2>1, MeaningOfLeaf
  <2> QED BY <1>1, <2>1, <2>2, ReturnAnswers DEF EvalHost, YesNo
<1>2. CASE Probe
  <2>1. /\ Return(YesNo(host[Node[Here.e].probe])) /\ stack # <<>> /\ Expands(Here.e, inputs)
        /\ Node[Here.e].kind \in {"file", "exists", "which"}
    BY <1>2 DEF Probe, At
  <2>2. Meaning(inputs)[Here.e] = YesNo(host[Node[Here.e].probe])
    BY <1>0, <2>1, MeaningOfLeaf
  <2> QED BY <1>2, <2>1, <2>2, ReturnAnswers DEF Probe, YesNo
<1>3. CASE ProbeFails
  BY <1>3, FailAnswers DEF ProbeFails, Errors
<1>4. CASE Unexpanded
  <2>1. CASE Node[Here.e].kind = "exists"
    <3>1. Return("no") /\ stack # <<>> /\ ~Expands(Here.e, inputs)
      BY <1>4, <2>1 DEF Unexpanded, At
    <3>2. Meaning(inputs)[Here.e] = "no"
      BY <1>0, <2>1, <3>1, MeaningOfLeaf
    <3> QED BY <1>4, <3>1, <3>2, ReturnAnswers DEF Unexpanded
  <2>2. CASE Node[Here.e].kind # "exists"
    BY <1>4, <2>2, FailAnswers DEF Unexpanded, Errors
  <2> QED BY <2>1, <2>2
<1>5. CASE EvalUnknown
  BY <1>5, FailAnswers DEF EvalUnknown, Errors
<1>6. CASE Call
  BY <1>6, CallAnswers
<1>7. CASE Exhausted
  <2>1. /\ stack # <<>> /\ Node[Here.e].kind \in {"all", "any"} /\ Here.i > Arity(Here.e)
        /\ Return(YesNo(Node[Here.e].kind = "all"))
        /\ Len(stack) \in 1..Len(stack) /\ Here = stack[Len(stack)]
    BY <1>7, Calls DEF Exhausted, At, Here, CInv
  <2>2. steady => YesNo(Node[Here.e].kind = "all") = Meaning(inputs)[Here.e]
    <3> SUFFICES ASSUME steady PROVE Meaning(inputs)[Here.e] = YesNo(Node[Here.e].kind = "all")
      OBVIOUS
    <3>1. Open(Here)
      BY <1>0, <2>1 DEF AnswerInv
    <3>2. Arity(Here.e) \in Nat /\ Here.e \in Exprs /\ Here.i \in Nat
      BY <1>0, <2>1, Children DEF CInv
    <3>3. \A j \in 1..Arity(Here.e) :
            LET w == Meaning(inputs)[Child(Here.e, j)]
            IN  w \in {"yes", "no"} /\ ~Decides(Node[Here.e].kind, j, w)
      <4>1. \A j \in 1..Arity(Here.e) : j < Here.i
        BY <2>1, <3>2
      <4> QED BY <3>1, <4>1 DEF Open
    <3> QED BY <1>0, <2>1, <3>3, MeaningExhausted
  <2> QED BY <1>7, <2>1, <2>2, ReturnAnswers DEF Exhausted, YesNo
<1>8. CASE Resume
  BY <1>8, ResumeAnswers
<1> QED BY <1>1, <1>2, <1>3, <1>4, <1>5, <1>6, <1>7, <1>8 DEF Evaluate

LEMMA OtherAnswers ==
  ASSUME CInv, AnswerInv,
         \/ Compile \/ HostChanges \/ UNCHANGED cvars
         \/ \E vs \in SUBSET Vars : SystemInputs(vs)
         \/ \E e \in Exprs, own \in SUBSET Vars : Ask(e, own)
  PROVE  AnswerInv'
<1>1. CASE Compile
  <2>1. verdict = "none" /\ UNCHANGED <<evalVars, byName>>
    BY <1>1 DEF Compile, WalkKey, WalkRef, WalkInline, WalkEnds, Accept
  <2>2. asked' = None /\ stack' = <<>>
    BY <2>1 DEF CInv, StackOK, AnswerInv, CallsOK, evalVars
  <2> QED BY <2>2 DEF AnswerInv, CallsOK
<1>2. CASE HostChanges
  BY <1>2 DEF HostChanges, AnswerInv, CallsOK, Here, Arity, Child, compileVars
<1>3. ASSUME NEW vs \in SUBSET Vars, SystemInputs(vs) PROVE AnswerInv'
  BY <1>3 DEF SystemInputs, AnswerInv, CallsOK, Here, Arity, Child, evalVars
<1>4. ASSUME NEW e \in Exprs, NEW own \in SUBSET Vars, Ask(e, own) PROVE AnswerInv'
  <2>1. /\ stack' = <<[e |-> e, i |-> 1]>> /\ value' = "pending" /\ asked' = e
        /\ verdict' = "accepted" /\ e # None
    BY <1>4, NoneIsNothing DEF Ask, Unmoved, compileVars
  <2>2. Len(stack') = 1 /\ stack'[1] = [e |-> e, i |-> 1]
    BY <2>1
  <2>3. Open(stack[1])'
    BY <2>2 DEF Open
  <2> QED BY <2>1, <2>2, <2>3 DEF AnswerInv, CallsOK
<1>5. CASE UNCHANGED cvars
  <2>1. UNCHANGED <<byName, system, inputs, stack, value, asked, steady, host, verdict>>
    BY <1>5 DEF cvars, compileVars, evalVars
  <2>2. /\ \A e : /\ Arity(e)' = Arity(e) /\ \A i : Child(e, i)' = Child(e, i)
        /\ Meaning(inputs)' = Meaning(inputs)
    BY <2>1 DEF Arity, Child, Meaning, Means, Expands, Known
  <2>3. CallsOK' /\ Returned' = Returned
    BY <2>1, <2>2 DEF AnswerInv, CallsOK, Returned, Here
  <2>4. \A k : Open(stack[k]) => Open(stack[k])'
    BY <2>1, <2>2 DEF Open
  <2> QED BY <2>1, <2>2, <2>3, <2>4 DEF AnswerInv
<1> QED BY <1>1, <1>2, <1>3, <1>4, <1>5

LEMMA InitAnswers ==
  ASSUME CInit
  PROVE  AnswerInv
BY DEF CInit, CStart, AnswerInv, CallsOK

\* The strengthened invariant of an evaluation: every value on its way up is what
\* the expression means (condition.rs:167, detect.rs:65).
THEOREM AnswersInvariant == CSpec => []AnswerInv
<1>1. CInv /\ AnswerInv /\ [CNext]_cvars => AnswerInv'
  <2> SUFFICES ASSUME CInv, AnswerInv, [CNext]_cvars PROVE AnswerInv'
    OBVIOUS
  <2> QED BY EvaluateAnswers, OtherAnswers DEF CNext
<1> QED BY <1>1, InitAnswers, Invariant, PTL DEF CSpec

\* An answer given while the host stands still is what the expression means,
\* for every registry that compile accepts, every expression over it, and
\* whatever the short circuits leave out (condition.rs:167, detect.rs:65).
THEOREM AnswersAreSound == CSpec => []AnswersSound
<1>1. AnswerInv => AnswersSound
  BY DEF AnswerInv, AnswersSound, Returned
<1> QED BY <1>1, AnswersInvariant, PTL

===============================================================================
