----------------------------- MODULE ConditionsInv -----------------------------
(* The inductive invariant of Conditions.                                     *)
EXTENDS Conditions

Ranked(e) == rank[e] # 0

\* An expression is ranked after all that it leads to.
RankOK ==
  \A e \in Exprs : Ranked(e) =>
    /\ rank[e] <= clock
    /\ \A i \in 1..Arity(e) :
         /\ Child(e, i) \in Exprs
         /\ Ranked(Child(e, i)) /\ rank[Child(e, i)] < rank[e]

\* The k-th frame of a walk w: what its expression leads to before the child
\* that w goes on with is ranked.
FrameOK(w, k) ==
  LET f == w[k] IN
  /\ f.i <= Arity(f.e) + 1
  /\ k = 1 => f.name # None
  /\ f.name # None => f.e = byName[f.name]
  /\ k < Len(w) => f.i > 1 /\ w[k + 1].e = Child(f.e, f.i - 1)
  /\ \A i \in 1..Arity(f.e) :
       i < f.i => \/ k < Len(w) /\ i = f.i - 1
                  \/ Child(f.e, i) \in Exprs /\ Ranked(Child(f.e, i))

\* The walk is a path of the graph, from a named condition.
WalkOK == \A k \in 1..Len(walk) : FrameOK(walk, k)

ValidatedOK == \A n \in validated : Known(n) /\ Ranked(byName[n])

\* The keys before `next` are validated, but for one that is being walked.
KeysOK ==
  /\ next <= Len(keys) + 1
  /\ walk # <<>> => next > 1 /\ walk[1].name = keys[next - 1]
  /\ \A k \in 1..Len(keys) :
       k < next => keys[k] \in validated \/ (walk # <<>> /\ k = next - 1)
  /\ \A k \in 1..Len(keys) : Known(keys[k])
  /\ \A n \in Names : Known(n) => \E k \in 1..Len(keys) : keys[k] = n

AcceptOK == verdict = "accepted" => \A n \in Names : Known(n) => Ranked(byName[n])

\* c is evaluated on behalf of e: what compile has ranked comes after what it
\* has not seen, which is the `when` and the `detect` of a package.
Below(c, e) ==
  \/ Ranked(c) /\ Ranked(e) /\ rank[c] < rank[e]
  \/ Ranked(c) /\ ~Ranked(e)
  \/ ~Ranked(c) /\ ~Ranked(e) /\ c < e

StackOK ==
  /\ stack # <<>> => verdict = "accepted"
  /\ \A j, k \in 1..Len(stack) : j < k => Below(stack[k].e, stack[j].e)

\* What compile and evaluate rely on (condition.rs:138, 154): the frames of the
\* walk, the validated names and the calls of an evaluation hang together.
CInv ==
  /\ TypeOK
  /\ RankOK
  /\ WalkOK
  /\ ValidatedOK
  /\ KeysOK
  /\ AcceptOK
  /\ StackOK
-----------------------------------------------------------------------------
\* The calls under way are a path from what was asked, each at the child that
\* it waits for.
CallsOK ==
  /\ asked # None => verdict = "accepted"
  /\ stack # <<>> => asked # None /\ stack[1].e = asked
  /\ \A k \in 1..(Len(stack) - 1) :
       /\ stack[k].i \in 1..Arity(stack[k].e)
       /\ stack[k + 1].e = Child(stack[k].e, stack[k].i)
  /\ stack # <<>> /\ value \in {"yes", "no"} =>
       Here.i \in 1..Arity(Here.e) /\ Child(Here.e, Here.i) # None

\* What a call has learned of its children has not settled its answer.
Open(f) ==
  \A i \in 1..Arity(f.e) : i < f.i =>
    LET v == Meaning(inputs)[Child(f.e, i)]
    IN  v \in {"yes", "no"} /\ ~Decides(Node[f.e].kind, i, v)

\* What was returned to the innermost call, or at last to who asked.
Returned == IF stack = <<>> THEN asked ELSE Child(Here.e, Here.i)

\* What AnswersSound needs of an evaluation under way (condition.rs:167): every
\* value returned so far is what the child means.
AnswerInv ==
  /\ CallsOK
  /\ asked # None /\ steady =>
       /\ \A k \in 1..Len(stack) : Open(stack[k])
       /\ value \in {"yes", "no"} => value = Meaning(inputs)[Returned]
==============================================================================
