------------------------------ MODULE Conditions ------------------------------
(***************************************************************************)
(* Named conditions and detect strategies: Conditions::compile and         *)
(* Conditions::evaluate (src/src/config/condition.rs) and                  *)
(* DetectStrategy::check (src/src/config/pkg/detect.rs).                   *)
(*                                                                         *)
(* Both are trees over the same combinators, so one set of expressions     *)
(* stands for both.  An expression is a number, larger than those of the   *)
(* expressions it is written of; only a reference leads, by its name, to   *)
(* an expression elsewhere.  The recursion of the code is a stack here:    *)
(* compile walks every named condition before anything is evaluated, and   *)
(* an evaluation probes the host at its leaves while others change it.     *)
(***************************************************************************)
EXTENDS Naturals, Sequences

CONSTANTS
  Exprs,     \* the conditions and strategies that a config can hold
  Node,      \* Node[e]: what e is made of
  Names,     \* the names of conditions
  Vars,      \* the variables of templates
  Probes,    \* what of the host a leaf can ask for: paths, binaries
  None,
  MaxEvents  \* bound on the changes of the host in a behaviour

Kinds == {"host", "file", "exists", "which", "ref", "all", "any", "not", "when"}

ASSUME NodesAreTrees ==
  /\ Exprs \subseteq Nat
  /\ Node \in [Exprs -> [kind : Kinds, args : Seq(Exprs), to : Names \cup {None},
                         var : Vars \cup {None}, probe : Probes \cup {None},
                         holds : BOOLEAN]]
  /\ \A e \in Exprs : \A i \in 1..Len(Node[e].args) : Node[e].args[i] < e
  /\ \A e \in Exprs :
       /\ Node[e].kind = "ref" => Node[e].to \in Names
       /\ Node[e].kind \in {"host", "file", "exists", "which"} => Node[e].args = <<>>
       /\ Node[e].kind \in {"file", "exists", "which"} => Node[e].probe \in Probes
       /\ Node[e].kind = "not" => Len(Node[e].args) = 1
       /\ Node[e].kind = "when" => Len(Node[e].args) = 2

ASSUME NoneIsNothing ==
  None \notin Exprs /\ None \notin Names /\ None \notin Vars /\ None \notin Probes

ASSUME BoundNat == MaxEvents \in Nat

VARIABLES
  byName,     \* byName[n]: the condition named n, or None
  keys,       \* the names in the order of the IndexMap
  next,       \* the key that compile walks next
  walk,       \* the call stack of walk and walk_condition
  validated,  \* the names whose walk has ended
  verdict,    \* what compile returns
  system,     \* the system inputs of the HostContext
  inputs,     \* the inputs of the pkg whose strategy is checked
  stack,      \* the call stack of evaluate and check
  value,      \* what the last call returned, "pending" while one is under way
  host,       \* host[p]: whether p is there
  events      \* changes of the host so far

VARIABLES     \* history
  rank,       \* rank[e]: when the walk of e ended, 0 if it has not
  clock,      \* walks ended so far
  asked,      \* the expression last asked for
  steady      \* the host has not changed since it was

compileVars == <<next, walk, validated, verdict, rank, clock>>
evalVars == <<inputs, stack, value, asked, steady>>
cvars == <<byName, keys, compileVars, system, evalVars, host, events>>

Verdicts == {"none", "accepted", "UnknownRef", "Cycle"}
Errors == {"UnknownRef", "Expand", "ExistsFailed", "Which"}
Values == {"pending", "yes", "no"} \cup Errors

-----------------------------------------------------------------------------
(* The graph of references.                                                *)

Known(n) == byName[n] # None

Named == {byName[n] : n \in {m \in Names : Known(m)}}

Arity(e) == IF Node[e].kind = "ref" THEN 1 ELSE Len(Node[e].args)

\* What e refers to or is written of; None for a name that nothing has.
Child(e, i) == IF Node[e].kind = "ref" THEN byName[Node[e].to] ELSE Node[e].args[i]

-----------------------------------------------------------------------------
(* Conditions::compile: a depth-first walk from every name.                *)

Frame(e, n) == [e |-> e, i |-> 1, name |-> n]

Top == walk[Len(walk)]

Onward == [walk EXCEPT ![Len(walk)].i = @ + 1]

\* The names being walked, `stack` in the code.
Walking == {walk[k].name : k \in 1..Len(walk)} \ {None}

\* Mutant: a name that is being walked counts as seen.
WalkSeen(n, up) ==
  \/ /\ n \in validated \cup Walking
     /\ walk' = up
     /\ UNCHANGED verdict
  \/ /\ n \notin validated \cup Walking
     /\ Known(n)
     /\ walk' = Append(up, Frame(byName[n], n))
     /\ UNCHANGED verdict
  \/ /\ n \notin validated \cup Walking
     /\ ~Known(n)
     /\ verdict' = "UnknownRef"
     /\ UNCHANGED walk

\* Mutant: a name that nothing has is passed over.
WalkLenient(n, up) ==
  \/ /\ n \in validated \/ ~Known(n)
     /\ walk' = up
     /\ UNCHANGED verdict
  \/ /\ n \notin validated \cup Walking
     /\ Known(n)
     /\ walk' = Append(up, Frame(byName[n], n))
     /\ UNCHANGED verdict
  \/ /\ n \in Walking \ validated
     /\ verdict' = "Cycle"
     /\ UNCHANGED walk

Walk(n, up) ==
  \/ /\ n \in validated
     /\ walk' = up
     /\ UNCHANGED verdict
  \/ /\ n \notin validated \cup Walking
     /\ Known(n)
     /\ walk' = Append(up, Frame(byName[n], n))
     /\ UNCHANGED verdict
  \/ /\ n \in Walking \ validated
     /\ verdict' = "Cycle"
     /\ UNCHANGED walk
  \/ /\ n \notin validated \cup Walking
     /\ ~Known(n)
     /\ verdict' = "UnknownRef"
     /\ UNCHANGED walk

WalkKey ==
  /\ verdict = "none"
  /\ walk = <<>>
  /\ next <= Len(keys)
  /\ Walk(keys[next], <<>>)
  /\ next' = next + 1
  /\ UNCHANGED <<byName, keys, validated, rank, clock, system, evalVars, host, events>>

WalkRef ==
  /\ verdict = "none"
  /\ walk # <<>>
  /\ Node[Top.e].kind = "ref" /\ Top.i = 1
  /\ Walk(Node[Top.e].to, Onward)
  /\ UNCHANGED <<byName, keys, next, validated, rank, clock, system, evalVars, host, events>>

WalkInline ==
  /\ verdict = "none"
  /\ walk # <<>>
  /\ Node[Top.e].kind # "ref" /\ Top.i <= Arity(Top.e)
  /\ walk' = Append(Onward, Frame(Node[Top.e].args[Top.i], None))
  /\ UNCHANGED <<byName, keys, next, validated, verdict, rank, clock, system, evalVars, host, events>>

WalkEnds ==
  /\ verdict = "none"
  /\ walk # <<>>
  /\ Top.i > Arity(Top.e)
  /\ walk' = SubSeq(walk, 1, Len(walk) - 1)
  /\ validated' = validated \cup ({Top.name} \ {None})
  /\ clock' = clock + 1
  /\ rank' = IF rank[Top.e] = 0 THEN [rank EXCEPT ![Top.e] = clock'] ELSE rank
  /\ UNCHANGED <<byName, keys, next, verdict, system, evalVars, host, events>>

\* Mutant: the last name is not walked.
AcceptEarly ==
  /\ verdict = "none"
  /\ walk = <<>>
  /\ next >= Len(keys)
  /\ verdict' = "accepted"
  /\ UNCHANGED <<byName, keys, next, walk, validated, rank, clock, system, evalVars, host, events>>

Accept ==
  /\ verdict = "none"
  /\ walk = <<>>
  /\ next > Len(keys)
  /\ verdict' = "accepted"
  /\ UNCHANGED <<byName, keys, next, walk, validated, rank, clock, system, evalVars, host, events>>

Compile == WalkKey \/ WalkRef \/ WalkInline \/ WalkEnds \/ Accept

-----------------------------------------------------------------------------
(* Conditions::evaluate and DetectStrategy::check.                         *)

Here == stack[Len(stack)]

\* The innermost call is for an expression of one of these kinds and has not
\* called anything that it waits for.
At(kinds) == stack # <<>> /\ value = "pending" /\ Node[Here.e].kind \in kinds

Return(v) ==
  /\ stack' = SubSeq(stack, 1, Len(stack) - 1)
  /\ value' = v

\* The ? operator, through every call on the stack.
Fail(err) == stack' = <<>> /\ value' = err

\* A condition expands its template with the system inputs alone, a strategy
\* with those of its pkg as well.
Expands(e, own) ==
  Node[e].var \in {None} \cup system \cup (IF Node[e].kind = "file" THEN {} ELSE own)

YesNo(b) == IF b THEN "yes" ELSE "no"

Unmoved == UNCHANGED <<byName, keys, compileVars, system, host, events>>

Ask(e, own) ==
  /\ verdict = "accepted"
  /\ stack = <<>>
  /\ stack' = <<[e |-> e, i |-> 1]>>
  /\ value' = "pending"
  /\ inputs' = own
  /\ asked' = e
  /\ steady' = TRUE
  /\ Unmoved

EvalHost ==
  /\ At({"host"})
  /\ Return(YesNo(Node[Here.e].holds))
  /\ UNCHANGED <<inputs, asked, steady>> /\ Unmoved

Probe ==
  /\ At({"file", "exists", "which"})
  /\ Expands(Here.e, inputs)
  /\ Return(YesNo(host[Node[Here.e].probe]))
  /\ UNCHANGED <<inputs, asked, steady>> /\ Unmoved

\* try_exists has no permission; `which` finds a binary it cannot canonicalize.
ProbeFails ==
  /\ At({"file", "exists", "which"})
  /\ Expands(Here.e, inputs)
  /\ Fail(IF Node[Here.e].kind = "which" THEN "Which" ELSE "ExistsFailed")
  /\ UNCHANGED <<inputs, asked, steady>> /\ Unmoved

Unexpanded ==
  /\ At({"file", "exists", "which"})
  /\ ~Expands(Here.e, inputs)
  /\ IF Node[Here.e].kind = "exists" THEN Return("no") ELSE Fail("Expand")
  /\ UNCHANGED <<inputs, asked, steady>> /\ Unmoved

EvalUnknown ==
  /\ At({"ref"})
  /\ ~Known(Node[Here.e].to)
  /\ Fail("UnknownRef")
  /\ UNCHANGED <<inputs, asked, steady>> /\ Unmoved

\* A combinator calls its next child, a reference what it names.
Call ==
  /\ At({"ref", "all", "any", "not", "when"})
  /\ Here.i <= Arity(Here.e)
  /\ Child(Here.e, Here.i) # None
  /\ stack' = Append(stack, [e |-> Child(Here.e, Here.i), i |-> 1])
  /\ UNCHANGED <<value, inputs, asked, steady>> /\ Unmoved

\* The loop over the children ends without a decision.
Exhausted ==
  /\ At({"all", "any"})
  /\ Here.i > Arity(Here.e)
  /\ Return(YesNo(Node[Here.e].kind = "all"))
  /\ UNCHANGED <<inputs, asked, steady>> /\ Unmoved

\* Mutant: the first child settles an `any`.
DecidesFirst(kind, i, v) ==
  \/ kind \in {"ref", "not", "any"}
  \/ kind = "all" /\ v = "no"
  \/ kind = "when" /\ (v = "no" \/ i = 2)

\* What the i-th child returned settles what the combinator returns.
Decides(kind, i, v) ==
  \/ kind \in {"ref", "not"}
  \/ kind = "all" /\ v = "no"
  \/ kind = "any" /\ v = "yes"
  \/ kind = "when" /\ (v = "no" \/ i = 2)

\* Mutant: the loop goes back to the same child.
ResumeSame ==
  /\ stack # <<>>
  /\ value \in {"yes", "no"}
  /\ IF Decides(Node[Here.e].kind, Here.i, value)
     THEN Return(IF Node[Here.e].kind = "not" THEN YesNo(value = "no") ELSE value)
     ELSE value' = "pending" /\ UNCHANGED stack
  /\ UNCHANGED <<inputs, asked, steady>> /\ Unmoved

Resume ==
  /\ stack # <<>>
  /\ value \in {"yes", "no"}
  /\ IF Decides(Node[Here.e].kind, Here.i, value)
     THEN Return(IF Node[Here.e].kind = "not" THEN YesNo(value = "no") ELSE value)
     ELSE /\ stack' = [stack EXCEPT ![Len(stack)].i = @ + 1]
          /\ value' = "pending"
  /\ UNCHANGED <<inputs, asked, steady>> /\ Unmoved

Evaluate ==
  \/ EvalHost \/ Probe \/ ProbeFails \/ Unexpanded \/ EvalUnknown
  \/ Call \/ Exhausted \/ Resume

-----------------------------------------------------------------------------
\* A tool is installed or removed, a file comes or goes.
HostChanges ==
  /\ events < MaxEvents
  /\ \E p \in Probes : host' = [host EXCEPT ![p] = ~@]
  /\ events' = events + 1
  /\ steady' = FALSE
  /\ UNCHANGED <<byName, keys, compileVars, system, inputs, stack, value, asked>>

\* build_system_inputs, before anything is evaluated.
SystemInputs(vs) ==
  /\ verdict = "accepted"
  /\ asked = None
  /\ system' = vs
  /\ UNCHANGED <<byName, keys, compileVars, evalVars, host, events>>

CStart ==
  /\ next = 1 /\ walk = <<>> /\ validated = {} /\ verdict = "none"
  /\ system = {} /\ inputs = {} /\ stack = <<>> /\ value = "no"
  /\ host \in [Probes -> BOOLEAN] /\ events = 0
  /\ rank = [e \in Exprs |-> 0] /\ clock = 0
  /\ asked = None /\ steady = TRUE

CInit ==
  /\ byName \in [Names -> Exprs \cup {None}]
  /\ keys \in Seq(Names)
  /\ \A n \in Names : Known(n) => \E k \in 1..Len(keys) : keys[k] = n
  /\ \A k \in 1..Len(keys) : Known(keys[k])
  /\ \A e \in Named : Node[e].kind # "ref"
  /\ CStart

CNext ==
  \/ Compile
  \/ \E vs \in SUBSET Vars : SystemInputs(vs)
  \/ \E e \in Exprs, own \in SUBSET Vars : Ask(e, own)
  \/ Evaluate
  \/ HostChanges

CSpec == CInit /\ [][CNext]_cvars

-----------------------------------------------------------------------------
(* What is checked.                                                        *)

TypeOK ==
  /\ byName \in [Names -> Exprs \cup {None}]
  /\ keys \in Seq(Names)
  /\ next \in Nat \ {0} /\ clock \in Nat
  /\ walk \in Seq([e : Exprs, i : Nat \ {0}, name : Names \cup {None}])
  /\ validated \subseteq Names
  /\ verdict \in Verdicts
  /\ rank \in [Exprs -> Nat]
  /\ system \subseteq Vars /\ inputs \subseteq Vars
  /\ stack \in Seq([e : Exprs, i : Nat \ {0}])
  /\ value \in Values
  /\ asked \in Exprs \cup {None}
  /\ steady \in BOOLEAN
  /\ host \in [Probes -> BOOLEAN]
  /\ events \in Nat

Leaves == {e \in Exprs : Arity(e) = 0}

\* S has with an expression everything that it leads to, and nothing in it
\* refers to a name that is not there.
Closed(S) == \A e \in S : \A i \in 1..Arity(e) : Child(e, i) \in S

Resolves ==
  \E S \in SUBSET (Exprs \ Leaves) : Named \subseteq S \cup Leaves /\ Closed(S \cup Leaves)

\* Some expressions lead to one another for ever.
Cyclic ==
  \E S \in SUBSET (Exprs \ Leaves) :
    /\ S # {}
    /\ \A e \in S : \E i \in 1..Arity(e) : Child(e, i) \in S

\* compile decides exactly (condition.rs:18, 93): it accepts a registry if all
\* its references resolve and none leads back to itself, and what it calls an
\* unknown name or a cycle is one.
Exact(v) ==
  /\ v = "accepted" => Resolves /\ ~Cyclic
  /\ v = "UnknownRef" => ~Resolves
  /\ v = "Cycle" => Cyclic

CompileExact == [][verdict' # verdict => Exact(verdict')]_verdict

\* evaluate never meets an expression that it is in the middle of evaluating,
\* so that its recursion ends, also from a `when` that compile has not seen.
NoReentry ==
  \A j, k \in 1..Len(stack) : j # k => stack[j].e # stack[k].e

\* What an expression means for a package with the inputs `own`, by what its
\* children mean; "error" for what cannot be told.
Means(own, meaning, e) ==
  LET of == {meaning[Child(e, i)] : i \in 1..Arity(e)}
      kind == Node[e].kind
  IN  CASE kind = "host" -> YesNo(Node[e].holds)
        [] kind \in {"file", "exists", "which"} /\ Expands(e, own) ->
             YesNo(host[Node[e].probe])
        [] kind = "exists" /\ ~Expands(e, own) -> "no"
        [] kind \in {"file", "which"} /\ ~Expands(e, own) -> "error"
        [] kind = "ref" ->
             IF Known(Node[e].to) THEN meaning[byName[Node[e].to]] ELSE "error"
        [] kind \in {"all", "when"} ->
             IF "no" \in of THEN "no" ELSE IF "error" \in of THEN "error" ELSE "yes"
        [] kind = "any" ->
             IF "yes" \in of THEN "yes" ELSE IF "error" \in of THEN "error" ELSE "no"
        [] kind = "not" ->
             IF of = {"error"} THEN "error" ELSE YesNo(of = {"no"})

\* On a host that stands still.
Meaning(own) ==
  LET meaning[e \in Exprs] == Means(own, meaning, e)
  IN  meaning

\* An answer given while the host stands still is what the expression means,
\* whatever the short circuits left out (condition.rs:167, detect.rs:65).
AnswersSound ==
  asked # None /\ steady /\ stack = <<>> /\ value \in {"yes", "no"} =>
    value = Meaning(inputs)[asked]
==============================================================================
