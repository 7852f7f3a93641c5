------------------------------ MODULE BasicFacts ------------------------------
(* What the proofs need to know of numbers and of sequences: least elements,    *)
(* which stand in for induction, and sequences put end to end.                  *)
EXTENDS Naturals, SequencesExt, FiniteSetTheorems, WellFoundedInduction, TLAPS

\* A set of numbers that is not empty has a least one: of the segments 0..m, a
\* strictly smallest one exists.
LEMMA Least ==
  ASSUME NEW M \in SUBSET Nat, M # {}
  PROVE  \E m \in M : \A k \in M : m <= k
<1> DEFINE R == StrictSubsetOrdering(Nat)
           Segments == {0..m : m \in M}
<1>1. IsWellFoundedOn(R, FiniteSubsetsOf(Nat))
  BY FS_StrictSubsetOrderingWellFounded
<1>2. Segments \subseteq FiniteSubsetsOf(Nat) /\ Segments # {}
  <2>1. \A m \in M : IsFiniteSet(0..m) /\ 0..m \in SUBSET Nat
    BY FS_Interval
  <2> QED BY <2>1, Zenon DEF FiniteSubsetsOf
<1>3. PICK T \in Segments : \A U \in Segments : <<U, T>> \notin R
  <2> HIDE DEF R, Segments
  <2> QED BY <1>1, <1>2, WFMin
<1>4. PICK m \in M : T = 0..m
  OBVIOUS
<1>5. ASSUME NEW k \in M, k < m PROVE FALSE
  <2>1. 0..k \subseteq 0..m /\ m \notin 0..k /\ m \in 0..m
    BY <1>5
  <2>2. 0..k \in Segments /\ 0..k \in SUBSET Nat /\ 0..m \in SUBSET Nat
    OBVIOUS
  <2>3. <<0..k, 0..m>> \in R
    BY <2>1, <2>2, Zenon DEF StrictSubsetOrdering
  <2> QED BY <1>3, <1>4, <2>2, <2>3
<1> QED BY <1>4, <1>5

-----------------------------------------------------------------------------
(* FlattenSeq                                                              *)

\* f puts the first n members of seqs end to end.
Flattens(seqs, n, f) ==
  f = [i \in 1..n |-> IF i = 1 THEN seqs[i] ELSE f[i-1] \o seqs[i]]

LEMMA FlattensStep ==
  ASSUME NEW seqs, NEW n \in Nat, NEW f, Flattens(seqs, n, f)
  PROVE  LET last == IF n = 0 THEN seqs[1] ELSE f[n] \o seqs[n + 1]
         IN  Flattens(seqs, n + 1, [i \in 1..(n + 1) |-> IF i <= n THEN f[i] ELSE last])
<1> DEFINE last == IF n = 0 THEN seqs[1] ELSE f[n] \o seqs[n + 1]
           h == [i \in 1..(n + 1) |-> IF i <= n THEN f[i] ELSE last]
           step(g, i) == IF i = 1 THEN seqs[i] ELSE g[i-1] \o seqs[i]
<1>1. \A i \in 1..n : f[i] = step(f, i)
  BY DEF Flattens
<1>2. ASSUME NEW i \in 1..(n + 1) PROVE h[i] = step(h, i)
  <2>1. CASE i <= n
    <3>1. i \in 1..n /\ h[i] = f[i] /\ (i # 1 => h[i - 1] = f[i - 1])
      BY <2>1
    <3> QED BY <1>1, <3>1
  <2>2. CASE i = n + 1 /\ n = 0
    BY <2>2
  <2>3. CASE i = n + 1 /\ n # 0
    <3>1. i # 1 /\ n \in 1..(n + 1) /\ i - 1 = n /\ ~(i <= n)
      BY <2>3
    <3>2. last = f[n] \o seqs[n + 1]
      BY <2>3
    <3> HIDE DEF last
    <3>3. h[i] = last /\ h[n] = f[n]
      BY <3>1
    <3> QED BY <2>3, <3>1, <3>2, <3>3
  <2> QED BY <2>1, <2>2, <2>3
<1>3. h = [i \in 1..(n + 1) |-> step(h, i)]
  <2>1. h = [i \in 1..(n + 1) |-> h[i]]
    OBVIOUS
  <2> HIDE DEF h, step
  <2> QED BY <1>2, <2>1
<1> HIDE DEF h
<1> QED BY <1>3 DEF Flattens, h

LEMMA FlattensExists ==
  ASSUME NEW seqs, NEW n \in Nat
  PROVE  \E f : Flattens(seqs, n, f)
<1> DEFINE Failing == {m \in Nat : ~\E f : Flattens(seqs, m, f)}
<1>1. ASSUME Failing # {} PROVE FALSE
  <2>1. PICK m \in Failing : \A k \in Failing : m <= k
    BY <1>1, Least
  <2>2. m # 0
    <3>1. Flattens(seqs, 0, <<>>)
      BY DEF Flattens
    <3> QED BY <2>1, <3>1
  <2>3. m - 1 \in Nat /\ m - 1 \notin Failing
    BY <2>1, <2>2
  <2>4. PICK f : Flattens(seqs, m - 1, f)
    BY <2>3
  <2>5. \E h : Flattens(seqs, (m - 1) + 1, h)
    BY <2>3, <2>4, FlattensStep
  <2>6. (m - 1) + 1 = m
    BY <2>1
  <2> QED BY <2>1, <2>5, <2>6
<1> QED BY <1>1

\* Two of them agree where both have values.
LEMMA FlattensAgree ==
  ASSUME NEW s, NEW m \in Nat, NEW f, Flattens(s, m, f),
         NEW t, NEW n \in Nat, NEW g, Flattens(t, n, g),
         m <= n, \A i \in 1..m : s[i] = t[i]
  PROVE  \A i \in 1..m : f[i] = g[i]
<1> DEFINE Differing == {i \in 1..m : f[i] # g[i]}
<1>0. Differing \in SUBSET Nat
  OBVIOUS
<1>1. ASSUME Differing # {} PROVE FALSE
  <2>1. PICK i \in Differing : \A k \in Differing : i <= k
    <3> HIDE DEF Differing
    <3> QED BY <1>0, <1>1, Least
  <2>2. /\ f[i] = IF i = 1 THEN s[i] ELSE f[i-1] \o s[i]
        /\ g[i] = IF i = 1 THEN t[i] ELSE g[i-1] \o t[i]
    <3>1. i \in 1..m /\ i \in 1..n
      BY <2>1
    <3> QED BY <3>1 DEF Flattens
  <2>3. i # 1 => i - 1 \in 1..m /\ i - 1 \notin Differing
    BY <2>1
  <2>4. s[i] = t[i] /\ (i # 1 => f[i-1] = g[i-1])
    BY <2>1, <2>3
  <2> QED BY <2>1, <2>2, <2>4
<1> QED BY <1>1

LEMMA FlattenIs ==
  ASSUME NEW seqs, Len(seqs) \in Nat, Len(seqs) # 0
  PROVE  \E f : Flattens(seqs, Len(seqs), f) /\ FlattenSeq(seqs) = f[Len(seqs)]
<1> DEFINE f == CHOOSE f : Flattens(seqs, Len(seqs), f)
<1>1. Flattens(seqs, Len(seqs), f)
  BY FlattensExists
<1>2. FlattenSeq(seqs) = f[Len(seqs)]
  BY Zenon DEF FlattenSeq, Flattens
<1> QED BY <1>1, <1>2

LEMMA FlattenEmpty == FlattenSeq(<<>>) = <<>>
BY DEF FlattenSeq

LEMMA FlattenAppendRaw ==
  ASSUME NEW S, NEW seqs \in Seq(S), NEW x \in S
  PROVE  FlattenSeq(Append(seqs, x)) =
           IF seqs = <<>> THEN x ELSE FlattenSeq(seqs) \o x
<1> DEFINE t == Append(seqs, x)
           n == Len(seqs)
<1>1. /\ n \in Nat /\ Len(t) = n + 1 /\ t[n + 1] = x
      /\ \A i \in 1..n : seqs[i] = t[i]
      /\ seqs = <<>> <=> n = 0
  OBVIOUS
<1> HIDE DEF t
<1>2. PICK g : Flattens(t, n + 1, g) /\ FlattenSeq(t) = g[n + 1]
  BY <1>1, FlattenIs
<1>3. g[n + 1] = IF n + 1 = 1 THEN t[n + 1] ELSE g[(n + 1) - 1] \o t[n + 1]
  <2>1. n + 1 \in 1..(n + 1)
    BY <1>1
  <2> QED BY <1>2, <2>1 DEF Flattens
<1>4. CASE n = 0
  BY <1>1, <1>2, <1>3, <1>4 DEF t
<1>5. CASE n # 0
  <2>1. PICK f : Flattens(seqs, n, f) /\ FlattenSeq(seqs) = f[n]
    BY <1>1, <1>5, FlattenIs
  <2>2. f[n] = g[n]
    <3>1. n \in 1..n /\ n <= n + 1 /\ n + 1 \in Nat
      BY <1>1, <1>5
    <3> QED BY <1>1, <1>2, <2>1, <3>1, FlattensAgree
  <2> QED BY <1>1, <1>2, <1>3, <1>5, <2>1, <2>2 DEF t
<1> QED BY <1>4, <1>5

LEMMA SameSeq ==
  ASSUME NEW S, NEW s \in Seq(S), NEW t \in Seq(S), Len(s) = Len(t),
         \A i \in 1..Len(s) : s[i] = t[i]
  PROVE  s = t
<1>1. s = [i \in 1..Len(s) |-> s[i]] /\ t = [i \in 1..Len(t) |-> t[i]]
  OBVIOUS
<1> QED BY <1>1, Zenon

LEMMA ConcatAssociates ==
  ASSUME NEW S, NEW s \in Seq(S), NEW t \in Seq(S), NEW u \in Seq(S)
  PROVE  (s \o t) \o u = s \o (t \o u)
<1> DEFINE a == (s \o t) \o u
           b == s \o (t \o u)
<1>1. /\ s \o t \in Seq(S) /\ t \o u \in Seq(S) /\ a \in Seq(S) /\ b \in Seq(S)
      /\ Len(s) \in Nat /\ Len(t) \in Nat /\ Len(u) \in Nat
      /\ Len(s \o t) = Len(s) + Len(t) /\ Len(t \o u) = Len(t) + Len(u)
      /\ Len(a) = Len(s) + Len(t) + Len(u) /\ Len(b) = Len(s) + Len(t) + Len(u)
  OBVIOUS
<1>2. ASSUME NEW i \in 1..Len(a) PROVE a[i] = b[i]
  <2>1. CASE i <= Len(s)
    <3>1. a[i] = (s \o t)[i] /\ (s \o t)[i] = s[i]
      BY <1>1, <2>1
    <3>2. b[i] = s[i]
      BY <1>1, <2>1
    <3> QED BY <3>1, <3>2
  <2>2. CASE i > Len(s) /\ i <= Len(s) + Len(t)
    <3>1. a[i] = (s \o t)[i] /\ (s \o t)[i] = t[i - Len(s)]
      BY <1>1, <2>2
    <3>2. b[i] = (t \o u)[i - Len(s)] /\ (t \o u)[i - Len(s)] = t[i - Len(s)]
      BY <1>1, <2>2
    <3> QED BY <3>1, <3>2
  <2>3. CASE i > Len(s) + Len(t)
    <3>1. a[i] = u[i - (Len(s) + Len(t))]
      BY <1>1, <2>3
    <3>2. b[i] = (t \o u)[i - Len(s)] /\ (t \o u)[i - Len(s)] = u[(i - Len(s)) - Len(t)]
      BY <1>1, <2>3
    <3>3. (i - Len(s)) - Len(t) = i - (Len(s) + Len(t))
      BY <1>1
    <3> QED BY <3>1, <3>2, <3>3
  <2> QED BY <1>1, <2>1, <2>2, <2>3
<1> HIDE DEF a, b
<1>3. a = b
  BY <1>1, <1>2, SameSeq
<1> QED BY <1>3 DEF a, b

LEMMA ConcatIs ==
  ASSUME NEW S, NEW s \in Seq(S), NEW t \in Seq(S)
  PROVE  /\ s \o t \in Seq(S) /\ Len(s \o t) = Len(s) + Len(t)
         /\ \A i \in 1..Len(s) : (s \o t)[i] = s[i]
         /\ \A i \in 1..Len(t) : (s \o t)[Len(s) + i] = t[i]
OBVIOUS

LEMMA AppendIs ==
  ASSUME NEW S, NEW s \in Seq(S), NEW x \in S
  PROVE  /\ Append(s, x) \in Seq(S)
         /\ Append(s, x) = [i \in 1..(Len(s) + 1) |-> Append(s, x)[i]]
         /\ \A i \in 1..Len(s) : Append(s, x)[i] = s[i]
         /\ Append(s, x)[Len(s) + 1] = x
<1>1. Append(s, x) \in Seq(S) /\ Len(Append(s, x)) = Len(s) + 1
  OBVIOUS
<1>2. /\ \A i \in 1..Len(s) : Append(s, x)[i] = s[i]
      /\ Append(s, x)[Len(s) + 1] = x
  OBVIOUS
<1>3. \A t \in Seq(S) : t = [i \in 1..Len(t) |-> t[i]]
  OBVIOUS
<1> QED BY <1>1, <1>2, <1>3

LEMMA PrefixIs ==
  ASSUME NEW S, NEW s \in Seq(S), NEW k \in 1..Len(s)
  PROVE  /\ SubSeq(s, 1, k - 1) \in Seq(S) /\ Len(SubSeq(s, 1, k - 1)) = k - 1
         /\ \A i \in 1..(k - 1) : SubSeq(s, 1, k - 1)[i] = s[i]
OBVIOUS

\* A sequence that is not empty is one shorter with a member added.
LEMMA SplitLast ==
  ASSUME NEW S, NEW s \in Seq(S), s # <<>>
  PROVE  LET front == SubSeq(s, 1, Len(s) - 1)
         IN  /\ s = Append(front, s[Len(s)]) /\ front \in Seq(S) /\ s[Len(s)] \in S
             /\ Len(front) = Len(s) - 1
             /\ \A i \in 1..(Len(s) - 1) : front[i] = s[i]
<1> DEFINE n == Len(s)
           front == SubSeq(s, 1, n - 1)
<1>1. n \in Nat \ {0} /\ n \in 1..n
  OBVIOUS
<1>2. /\ front \in Seq(S) /\ s[n] \in S /\ Len(front) = n - 1
      /\ \A i \in 1..(n - 1) : front[i] = s[i]
  <2>1. \A k \in 1..Len(s) :
          /\ SubSeq(s, 1, k - 1) \in Seq(S) /\ Len(SubSeq(s, 1, k - 1)) = k - 1
          /\ \A i \in 1..(k - 1) : SubSeq(s, 1, k - 1)[i] = s[i]
    BY PrefixIs
  <2>2. s[n] \in S
    BY <1>1
  <2>3. /\ SubSeq(s, 1, n - 1) \in Seq(S) /\ Len(SubSeq(s, 1, n - 1)) = n - 1
        /\ \A i \in 1..(n - 1) : SubSeq(s, 1, n - 1)[i] = s[i]
    <3> HIDE DEF n
    <3> QED BY <1>1, <2>1 DEF n
  <2> QED BY <2>2, <2>3
<1> HIDE DEF front
<1>3. /\ Append(front, s[n]) \in Seq(S) /\ Len(Append(front, s[n])) = n
      /\ \A i \in 1..(n - 1) : Append(front, s[n])[i] = front[i]
      /\ Append(front, s[n])[n] = s[n]
  BY <1>1, <1>2
<1>4. \A i \in 1..n : Append(front, s[n])[i] = s[i]
  BY <1>1, <1>2, <1>3
<1>5. s = Append(front, s[n])
  BY <1>3, <1>4, SameSeq
<1> QED BY <1>2, <1>5 DEF front

LEMMA FlattenTyped ==
  ASSUME NEW S
  PROVE  \A s \in Seq(Seq(S)) : FlattenSeq(s) \in Seq(S)
<1> DEFINE Failing == {n \in Nat : \E s \in Seq(Seq(S)) : Len(s) = n /\ FlattenSeq(s) \notin Seq(S)}
<1>1. ASSUME Failing # {} PROVE FALSE
  <2>1. PICK n \in Failing : \A k \in Failing : n <= k
    BY <1>1, Least
  <2>2. PICK s \in Seq(Seq(S)) : Len(s) = n /\ FlattenSeq(s) \notin Seq(S)
    BY <2>1
  <2>3. s # <<>>
    BY <2>2, FlattenEmpty
  <2> DEFINE front == SubSeq(s, 1, Len(s) - 1)
             x == s[Len(s)]
  <2>4. /\ s = Append(front, x) /\ front \in Seq(Seq(S)) /\ x \in Seq(S) /\ Len(front) = n - 1
        /\ n - 1 \in Nat /\ n - 1 < n
    <3>1. /\ s = Append(front, x) /\ front \in Seq(Seq(S)) /\ x \in Seq(S)
          /\ Len(front) = Len(s) - 1
      BY <2>3, SplitLast
    <3>2. Len(s) \in Nat \ {0}
      BY <2>3
    <3> QED BY <2>2, <3>1, <3>2
  <2> HIDE DEF front, x
  <2>5. FlattenSeq(front) \in Seq(S)
    BY <2>1, <2>4
  <2>6. FlattenSeq(s) = IF front = <<>> THEN x ELSE FlattenSeq(front) \o x
    <3>1. FlattenSeq(Append(front, x)) = IF front = <<>> THEN x ELSE FlattenSeq(front) \o x
      BY <2>4, FlattenAppendRaw
    <3> QED BY <2>4, <3>1
  <2> QED BY <2>2, <2>4, <2>5, <2>6
<1>2. ASSUME NEW s \in Seq(Seq(S)), FlattenSeq(s) \notin Seq(S) PROVE FALSE
  <2>1. Len(s) \in Failing
    BY <1>2
  <2> QED BY <1>1, <2>1
<1> QED BY <1>2

LEMMA FlattenAppend ==
  ASSUME NEW S, NEW s \in Seq(Seq(S)), NEW x \in Seq(S)
  PROVE  FlattenSeq(Append(s, x)) = FlattenSeq(s) \o x
<1>1. FlattenSeq(Append(s, x)) = IF s = <<>> THEN x ELSE FlattenSeq(s) \o x
  BY FlattenAppendRaw
<1>2. <<>> \o x = x
  OBVIOUS
<1> QED BY <1>1, <1>2, FlattenEmpty

LEMMA FlattenConcat ==
  ASSUME NEW S, NEW s \in Seq(Seq(S))
  PROVE  \A t \in Seq(Seq(S)) : FlattenSeq(s \o t) = FlattenSeq(s) \o FlattenSeq(t)
<1>0. \A a, b, c \in Seq(S) : (a \o b) \o c = a \o (b \o c)
  BY ConcatAssociates
<1> DEFINE Failing ==
             {n \in Nat : \E t \in Seq(Seq(S)) :
                            Len(t) = n /\ FlattenSeq(s \o t) # FlattenSeq(s) \o FlattenSeq(t)}
<1>1. ASSUME Failing # {} PROVE FALSE
  <2>1. PICK n \in Failing : \A k \in Failing : n <= k
    BY <1>1, Least
  <2>2. PICK t \in Seq(Seq(S)) : Len(t) = n /\ FlattenSeq(s \o t) # FlattenSeq(s) \o FlattenSeq(t)
    BY <2>1
  <2>3. t # <<>>
    <3>1. FlattenSeq(s) \in Seq(S) /\ s \o <<>> = s
      BY FlattenTyped
    <3>2. FlattenSeq(s) \o <<>> = FlattenSeq(s)
      BY <3>1
    <3> QED BY <2>2, <3>1, <3>2, FlattenEmpty
  <2> DEFINE front == SubSeq(t, 1, Len(t) - 1)
             x == t[Len(t)]
  <2>4. /\ t = Append(front, x) /\ front \in Seq(Seq(S)) /\ x \in Seq(S) /\ Len(front) = n - 1
        /\ n - 1 \in Nat /\ n - 1 < n
    <3>1. /\ t = Append(front, x) /\ front \in Seq(Seq(S)) /\ x \in Seq(S)
          /\ Len(front) = Len(t) - 1
      BY <2>3, SplitLast
    <3>2. Len(t) \in Nat \ {0}
      BY <2>3
    <3> QED BY <2>2, <3>1, <3>2
  <2> HIDE DEF front, x
  <2>5. FlattenSeq(s \o front) = FlattenSeq(s) \o FlattenSeq(front)
    BY <2>1, <2>4
  <2>6. s \o Append(front, x) = Append(s \o front, x) /\ s \o front \in Seq(Seq(S))
    BY <2>4, SMTT(30)
  <2>7. FlattenSeq(Append(s \o front, x)) = FlattenSeq(s \o front) \o x
    BY <2>4, <2>6, FlattenAppend
  <2>8. FlattenSeq(Append(front, x)) = FlattenSeq(front) \o x
    BY <2>4, FlattenAppend
  <2>9. FlattenSeq(s) \in Seq(S) /\ FlattenSeq(front) \in Seq(S)
    BY <2>4, FlattenTyped
  <2>10. (FlattenSeq(s) \o FlattenSeq(front)) \o x = FlattenSeq(s) \o (FlattenSeq(front) \o x)
    BY <1>0, <2>4, <2>9
  <2> QED BY <2>2, <2>4, <2>5, <2>6, <2>7, <2>8, <2>10
<1>2. ASSUME NEW t \in Seq(Seq(S)), FlattenSeq(s \o t) # FlattenSeq(s) \o FlattenSeq(t) PROVE FALSE
  <2>1. Len(t) \in Failing
    BY <1>2
  <2> QED BY <1>1, <2>1
<1> QED BY <1>2

LEMMA FlattenNothing ==
  ASSUME NEW S
  PROVE  \A s \in Seq(Seq(S)) : (\A i \in 1..Len(s) : s[i] = <<>>) => FlattenSeq(s) = <<>>
<1> DEFINE Failing ==
             {n \in Nat : \E s \in Seq(Seq(S)) :
                /\ Len(s) = n /\ \A i \in 1..Len(s) : s[i] = <<>>
                /\ FlattenSeq(s) # <<>>}
<1>1. ASSUME Failing # {} PROVE FALSE
  <2>1. PICK n \in Failing : \A k \in Failing : n <= k
    BY <1>1, Least
  <2>2. PICK s \in Seq(Seq(S)) : /\ Len(s) = n /\ \A i \in 1..Len(s) : s[i] = <<>>
                                 /\ FlattenSeq(s) # <<>>
    BY <2>1
  <2>3. s # <<>>
    BY <2>2, FlattenEmpty
  <2> DEFINE front == SubSeq(s, 1, Len(s) - 1)
             x == s[Len(s)]
  <2>4. /\ s = Append(front, x) /\ front \in Seq(Seq(S)) /\ x \in Seq(S) /\ Len(front) = n - 1
        /\ n - 1 \in Nat /\ n - 1 < n /\ n \in 1..n /\ x = s[n]
        /\ \A i \in 1..(n - 1) : front[i] = s[i]
    <3>1. /\ s = Append(front, x) /\ front \in Seq(Seq(S)) /\ x \in Seq(S)
          /\ Len(front) = Len(s) - 1 /\ \A i \in 1..(Len(s) - 1) : front[i] = s[i]
      BY <2>3, SplitLast
    <3>2. Len(s) \in Nat \ {0}
      BY <2>3
    <3> QED BY <2>2, <3>1, <3>2
  <2> HIDE DEF front, x
  <2>5. x = <<>> /\ \A i \in 1..Len(front) : front[i] = <<>>
    BY <2>2, <2>4
  <2>6. FlattenSeq(front) = <<>>
    BY <2>1, <2>4, <2>5
  <2>7. FlattenSeq(Append(front, x)) = FlattenSeq(front) \o x
    BY <2>4, FlattenAppend
  <2> QED BY <2>2, <2>4, <2>5, <2>6, <2>7
<1>2. ASSUME NEW s \in Seq(Seq(S)), \A i \in 1..Len(s) : s[i] = <<>>, FlattenSeq(s) # <<>> PROVE FALSE
  <2>1. Len(s) \in Failing
    BY <1>2
  <2> QED BY <1>1, <2>1
<1> QED BY <1>2

Ones(s) == [i \in 1..Len(s) |-> <<s[i]>>]

LEMMA OnesTyped ==
  ASSUME NEW S, NEW s \in Seq(S)
  PROVE  /\ Ones(s) \in Seq(Seq(S)) /\ Len(Ones(s)) = Len(s)
         /\ \A i \in 1..Len(s) : Ones(s)[i] = <<s[i]>>
<1>1. Len(s) \in Nat /\ \A i \in 1..Len(s) : <<s[i]>> \in Seq(S)
  OBVIOUS
<1>2. Ones(s) \in [1..Len(s) -> Seq(S)]
  BY <1>1 DEF Ones
<1>3. Ones(s) \in Seq(Seq(S))
  BY <1>1, <1>2
<1> QED BY <1>1, <1>2, <1>3 DEF Ones

LEMMA OnesAppend ==
  ASSUME NEW S, NEW s \in Seq(S), NEW x \in S
  PROVE  Ones(Append(s, x)) = Append(Ones(s), <<x>>)
<1> DEFINE t == Append(s, x)
<1>1. /\ t \in Seq(S) /\ Len(t) = Len(s) + 1 /\ Len(s) \in Nat /\ t[Len(s) + 1] = x
      /\ \A i \in 1..Len(s) : t[i] = s[i]
  BY AppendIs
<1> HIDE DEF t
<1>2. /\ Ones(t) \in Seq(Seq(S)) /\ Len(Ones(t)) = Len(s) + 1
      /\ \A i \in 1..(Len(s) + 1) : Ones(t)[i] = <<t[i]>>
  BY <1>1, OnesTyped
<1>3. /\ Ones(s) \in Seq(Seq(S)) /\ Len(Ones(s)) = Len(s)
      /\ \A i \in 1..Len(s) : Ones(s)[i] = <<s[i]>>
  BY OnesTyped
<1> DEFINE u == Append(Ones(s), <<x>>)
<1>4. <<x>> \in Seq(S)
  OBVIOUS
<1>5. /\ u \in Seq(Seq(S)) /\ Len(u) = Len(s) + 1 /\ u[Len(s) + 1] = <<x>>
      /\ \A i \in 1..Len(s) : u[i] = Ones(s)[i]
  BY <1>1, <1>3, <1>4, AppendIs
<1> HIDE DEF u
<1>6. \A i \in 1..(Len(s) + 1) : Ones(t)[i] = u[i]
  <2> TAKE i \in 1..(Len(s) + 1)
  <2>1. i \in 1..Len(s) \/ i = Len(s) + 1
    BY <1>1
  <2> QED BY <1>1, <1>2, <1>3, <1>5, <2>1
<1>7. Ones(t) = u
  BY <1>2, <1>5, <1>6, SameSeq
<1> QED BY <1>7 DEF t, u

LEMMA FlattenOnes ==
  ASSUME NEW S
  PROVE  \A s \in Seq(S) : FlattenSeq(Ones(s)) = s
<1> DEFINE Failing == {n \in Nat : \E s \in Seq(S) : Len(s) = n /\ FlattenSeq(Ones(s)) # s}
<1>1. ASSUME Failing # {} PROVE FALSE
  <2>1. PICK n \in Failing : \A k \in Failing : n <= k
    BY <1>1, Least
  <2>2. PICK s \in Seq(S) : Len(s) = n /\ FlattenSeq(Ones(s)) # s
    BY <2>1
  <2>3. s # <<>>
    <3>1. Ones(<<>>) = <<>>
      BY DEF Ones
    <3> QED BY <2>2, <3>1, FlattenEmpty
  <2> DEFINE front == SubSeq(s, 1, Len(s) - 1)
             x == s[Len(s)]
  <2>4. /\ s = Append(front, x) /\ front \in Seq(S) /\ x \in S /\ Len(front) = n - 1
        /\ n - 1 \in Nat /\ n - 1 < n
    <3>1. /\ s = Append(front, x) /\ front \in Seq(S) /\ x \in S /\ Len(front) = Len(s) - 1
      BY <2>3, SplitLast
    <3>2. Len(s) \in Nat \ {0}
      BY <2>3
    <3> QED BY <2>2, <3>1, <3>2
  <2> HIDE DEF front, x
  <2>5. FlattenSeq(Ones(front)) = front
    BY <2>1, <2>4
  <2>6. FlattenSeq(Append(Ones(front), <<x>>)) = FlattenSeq(Ones(front)) \o <<x>>
    <3>1. Ones(front) \in Seq(Seq(S)) /\ <<x>> \in Seq(S)
      BY <2>4, OnesTyped
    <3> QED BY <3>1, FlattenAppend
  <2>7. Ones(s) = Append(Ones(front), <<x>>)
    BY <2>4, OnesAppend
  <2>8. front \o <<x>> = Append(front, x)
    BY <2>4
  <2> QED BY <2>2, <2>4, <2>5, <2>6, <2>7, <2>8
<1>2. ASSUME NEW s \in Seq(S), FlattenSeq(Ones(s)) # s PROVE FALSE
  <2>1. Len(s) \in Failing
    BY <1>2
  <2> QED BY <1>1, <2>1
<1> QED BY <1>2
=============================================================================
