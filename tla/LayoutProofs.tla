------------------------------ MODULE LayoutProofs ------------------------------
(* What is proved of Layout, for every home directory, document and request: an  *)
(* import makes no second entry for a directory, changes no entry but the one    *)
(* that the path was found under, writes the array that it showed, and leaves    *)
(* what earlier imports took over where it is.                                   *)
EXTENDS LayoutInv, BasicFacts, SequenceTheorems

-----------------------------------------------------------------------------
(* Sequences                                                               *)

LEMMA Pair ==
  ASSUME NEW S, NEW a \in S, NEW b \in S
  PROVE  <<a, b>> \in Seq(S)
OBVIOUS

\* The first two names of a path.
LEMMA FirstTwo ==
  ASSUME NEW S, NEW s \in Seq(S), Len(s) >= 2
  PROVE  LET two == SubSeq(s, 1, 2) IN
           /\ two \in Seq(S) /\ Len(two) = 2 /\ two = <<s[1], s[2]>>
           /\ SubSeq(two, 1, Len(two)) = two
<1>1. \A i \in 1..2 : s[i] \in S
  BY Z3
<1> DEFINE two == SubSeq(s, 1, 2)
<1>2. two \in Seq(S) /\ Len(two) = 2 /\ \A i \in 1..2 : two[i] = s[i]
  BY <1>1, SubSeqProperties
<1>3. two = <<s[1], s[2]>>
  <2>1. <<s[1], s[2]>> \in Seq(S) /\ Len(<<s[1], s[2]>>) = 2
    BY <1>1, Pair
  <2> HIDE DEF two
  <2>2. \A i \in 1..2 : two[i] = <<s[1], s[2]>>[i]
    BY <1>2
  <2> QED BY <1>2, <2>1, <2>2, SeqEqual
<1>4. SubSeq(two, 1, Len(two)) = two
  <2> HIDE DEF two
  <2>1. \A i \in 1..2 : two[i] \in S
    BY <1>2
  <2>2. SubSeq(two, 1, 2) \in Seq(S) /\ Len(SubSeq(two, 1, 2)) = 2
        /\ \A i \in 1..2 : SubSeq(two, 1, 2)[i] = two[i]
    BY <2>1, SubSeqProperties
  <2> QED BY <1>2, <2>2, SeqEqual
<1> QED BY <1>2, <1>3, <1>4

LEMMA Single ==
  ASSUME NEW S, NEW x \in S
  PROVE  <<x>> \in Seq(S)
OBVIOUS

\* What Without puts end to end.
Piece(x, S) == IF x \in S THEN <<>> ELSE <<x>>
Pieces(s, S) == [i \in DOMAIN s |-> Piece(s[i], S)]

LEMMA WithoutIs ==
  ASSUME NEW s, NEW S
  PROVE  Without(s, S) = FlattenSeq(Pieces(s, S))
BY Zenon DEF Without, Pieces, Piece

LEMMA WithoutPieces ==
  ASSUME NEW T, NEW S, NEW s \in Seq(T)
  PROVE  /\ Pieces(s, S) \in Seq(Seq(T \ S)) /\ Len(Pieces(s, S)) = Len(s)
         /\ \A i \in 1..Len(s) : Pieces(s, S)[i] = Piece(s[i], S)
<1>1. Len(s) \in Nat /\ DOMAIN s = 1..Len(s) /\ \A i \in 1..Len(s) : s[i] \in T
  BY LenProperties
<1>2. \A x \in T : Piece(x, S) \in Seq(T \ S)
  <2> TAKE x \in T
  <2>1. CASE x \in S
    BY <2>1 DEF Piece
  <2>2. CASE x \notin S
    BY <2>2, Single DEF Piece
  <2> QED BY <2>1, <2>2
<1>3. Pieces(s, S) = [i \in 1..Len(s) |-> Piece(s[i], S)]
  BY <1>1 DEF Pieces
<1>4. \A i \in 1..Len(s) : Piece(s[i], S) \in Seq(T \ S)
  BY <1>1, <1>2
<1>5. Pieces(s, S) \in Seq(Seq(T \ S))
  BY <1>1, <1>3, <1>4, IsASeq
<1>6. DOMAIN Pieces(s, S) = 1..Len(s)
  BY <1>3
<1>7. Len(Pieces(s, S)) = Len(s)
  BY <1>1, <1>5, <1>6, LenProperties
<1> QED BY <1>3, <1>5, <1>7

LEMMA WithoutTyped ==
  ASSUME NEW T, NEW S, NEW s \in Seq(T)
  PROVE  Without(s, S) \in Seq(T \ S)
<1>1. Pieces(s, S) \in Seq(Seq(T \ S))
  BY WithoutPieces
<1> QED BY <1>1, FlattenTyped, WithoutIs

LEMMA WithoutConcat ==
  ASSUME NEW T, NEW S, NEW s \in Seq(T), NEW t \in Seq(T)
  PROVE  Without(s \o t, S) = Without(s, S) \o Without(t, S)
<1> DEFINE U == Seq(T \ S)
           a == Pieces(s, S)
           b == Pieces(t, S)
           c == Pieces(s \o t, S)
<1>1. /\ s \o t \in Seq(T) /\ Len(s \o t) = Len(s) + Len(t)
      /\ \A i \in 1..Len(s) : (s \o t)[i] = s[i]
      /\ \A i \in 1..Len(t) : (s \o t)[Len(s) + i] = t[i]
      /\ Len(s) \in Nat /\ Len(t) \in Nat
  BY ConcatIs
<1>2. a \in Seq(U) /\ Len(a) = Len(s) /\ \A i \in 1..Len(s) : a[i] = Piece(s[i], S)
  BY WithoutPieces
<1>3. b \in Seq(U) /\ Len(b) = Len(t) /\ \A i \in 1..Len(t) : b[i] = Piece(t[i], S)
  BY WithoutPieces
<1>4. /\ c \in Seq(U) /\ Len(c) = Len(s) + Len(t)
      /\ \A i \in 1..(Len(s) + Len(t)) : c[i] = Piece((s \o t)[i], S)
  <2> DEFINE u == s \o t
  <2>1. u \in Seq(T) /\ Len(u) = Len(s) + Len(t)
    BY <1>1
  <2> HIDE DEF u, U
  <2>2. /\ Pieces(u, S) \in Seq(Seq(T \ S)) /\ Len(Pieces(u, S)) = Len(u)
        /\ \A i \in 1..Len(u) : Pieces(u, S)[i] = Piece(u[i], S)
    BY <2>1, WithoutPieces
  <2>3. Pieces(u, S) = c
    BY Zenon DEF u
  <2> QED BY <2>1, <2>2, <2>3 DEF u, U
<1> HIDE DEF U, a, b, c
<1>5. /\ a \o b \in Seq(U) /\ Len(a \o b) = Len(s) + Len(t)
      /\ \A i \in 1..Len(s) : (a \o b)[i] = a[i]
      /\ \A i \in 1..Len(t) : (a \o b)[Len(s) + i] = b[i]
  <2>1. a \in Seq(U) /\ b \in Seq(U)
    BY <1>2, <1>3
  <2>2. /\ a \o b \in Seq(U) /\ Len(a \o b) = Len(a) + Len(b)
        /\ \A i \in 1..Len(a) : (a \o b)[i] = a[i]
        /\ \A i \in 1..Len(b) : (a \o b)[Len(a) + i] = b[i]
    BY <2>1, ConcatIs
  <2>3. Len(a) = Len(s) /\ Len(b) = Len(t)
    BY <1>2, <1>3
  <2> QED BY <2>2, <2>3
<1>6. \A i \in 1..(Len(s) + Len(t)) : c[i] = (a \o b)[i]
  <2> TAKE i \in 1..(Len(s) + Len(t))
  <2>1. CASE i \in 1..Len(s)
    <3>1. c[i] = Piece(s[i], S)
      BY <1>1, <1>4, <2>1
    <3>2. (a \o b)[i] = Piece(s[i], S)
      BY <1>2, <1>5, <2>1
    <3> QED BY <3>1, <3>2
  <2>2. CASE i \notin 1..Len(s)
    <3>1. PICK j \in 1..Len(t) : i = Len(s) + j
      <4>1. i - Len(s) \in 1..Len(t) /\ i = Len(s) + (i - Len(s))
        BY <1>1, <2>2
      <4> QED BY <4>1
    <3>2. c[i] = Piece(t[j], S)
      BY <1>1, <1>4, <3>1
    <3>3. (a \o b)[i] = Piece(t[j], S)
      BY <1>3, <1>5, <3>1
    <3> QED BY <3>2, <3>3
  <2> QED BY <2>1, <2>2
<1>7. c = a \o b
  BY <1>1, <1>4, <1>5, <1>6, SameSeq
<1>8. FlattenSeq(a \o b) = FlattenSeq(a) \o FlattenSeq(b)
  BY <1>2, <1>3, FlattenConcat DEF U
<1> QED BY <1>7, <1>8, WithoutIs DEF a, b, c

LEMMA WithoutNothing ==
  ASSUME NEW T, NEW S, T \cap S = {}, NEW s \in Seq(T)
  PROVE  Without(s, S) = s
<1>1. DOMAIN s = 1..Len(s) /\ \A i \in 1..Len(s) : s[i] \notin S
  BY LenProperties
<1>2. Pieces(s, S) = Ones(s)
  BY <1>1 DEF Ones, Pieces, Piece
<1> QED BY <1>2, FlattenOnes, WithoutIs

\* What is added stays at the end when what it is not among is taken out.
LEMMA TrimmedIs ==
  ASSUME NEW s \in Arrays, NEW t, NEW dropped, Disjoint(t, dropped)
  PROVE  /\ Trimmed(s \o t, dropped) = Without(s, ToSet(dropped)) \o t
         /\ Trimmed(s \o t, dropped) \in Arrays
<1>1. t \in Arrays /\ t \in Seq(ToSet(t)) /\ ToSet(t) \cap ToSet(dropped) = {}
  BY DEF Disjoint, Arrays, ToSet
<1>2. Without(t, ToSet(dropped)) = t
  BY <1>1, WithoutNothing
<1>3. Without(s \o t, ToSet(dropped)) = Without(s, ToSet(dropped)) \o Without(t, ToSet(dropped))
  BY <1>1, WithoutConcat DEF Arrays
<1>4. Without(s \o t, ToSet(dropped)) \in Seq(PathNames \ ToSet(dropped))
  BY <1>1, ConcatIs, WithoutTyped DEF Arrays
<1>5. Seq(PathNames \ ToSet(dropped)) \subseteq Arrays
  BY DEF Arrays
<1> QED BY <1>2, <1>3, <1>4, <1>5 DEF Trimmed

-----------------------------------------------------------------------------
(* Documents                                                               *)

\* Import and apply agree on the directory of an entry.
LEMMA SameRoot ==
  ASSUME NEW k, NEW e
  PROVE  RootOf(k, e) = DirOf(k, e)
BY DEF RootOf, DirOf

LEMMA SlotFacts ==
  ASSUME NEW d, DocOK(d), NEW slot \in Slots(d)
  PROVE  /\ slot.key \in Keys
         /\ slot.index \in DOMAIN d.pkg[slot.key].entries
         /\ slot.entry = d.pkg[slot.key].entries[slot.index]
         /\ Visible(d, slot.key) = d.pkg[slot.key].entries
         /\ SlotRoot(slot) \in PathNames
         /\ slot.entry \in Entries(Arrays)
<1>1. d \in Documents(Arrays)
  BY DEF DocOK
<1>2. PICK k \in Keys : \E i \in DOMAIN Visible(d, k) :
        slot = [key |-> k, index |-> i, entry |-> Visible(d, k)[i]]
  BY DEF Slots
<1>3. PICK i \in DOMAIN Visible(d, k) : slot = [key |-> k, index |-> i, entry |-> Visible(d, k)[i]]
  BY <1>2
<1>4. Visible(d, k) = d.pkg[k].entries
  <2>1. Visible(d, k) = d.pkg[k].entries \/ Visible(d, k) = <<>>
    BY DEF Visible
  <2>2. Visible(d, k) # <<>>
    BY <1>3
  <2> QED BY <2>1, <2>2
<1>5. d.pkg[k].entries \in Seq(Entries(Arrays))
  BY <1>1 DEF Documents, Blocks
<1>6. slot.entry \in Entries(Arrays)
  BY <1>3, <1>4, <1>5
<1>7. SlotRoot(slot) \in PathNames
  <2>1. k \in Words
    BY RequestsTyped
  <2>2. slot.entry.name \in Words /\ slot.entry.dir \in PathNames
    BY <1>6 DEF Entries
  <2>3. <<".config", IF slot.entry.name # "" THEN slot.entry.name ELSE k>> \in PathNames
    <3>1. ".config" \in Words
      BY DEF Words
    <3> QED BY <2>1, <2>2, <3>1, Pair DEF PathNames
  <2> QED BY <1>3, <2>2, <2>3 DEF SlotRoot, RootOf
<1> QED BY <1>3, <1>4, <1>6, <1>7

-----------------------------------------------------------------------------
(* Which entry manages a path                                              *)

\* Where there is an entry above a path there is a nearest one.
LEMMA NearestThere ==
  ASSUME NEW d, DocOK(d), NEW tail \in PathNames, Above(d, tail) # {}
  PROVE  Nearest(d, tail) # {}
<1>1. \A slot \in Above(d, tail) :
        /\ Len(SlotRoot(slot)) \in Nat /\ Len(tail) \in Nat
        /\ Len(SlotRoot(slot)) <= Len(tail)
  <2> TAKE slot \in Above(d, tail)
  <2>1. slot \in Slots(d) /\ IsStrictPrefix(SlotRoot(slot), tail)
    BY DEF Above
  <2>2. SlotRoot(slot) \in PathNames
    BY <2>1, SlotFacts
  <2> QED BY <2>1, <2>2 DEF IsStrictPrefix, IsPrefix, PathNames
<1> DEFINE Gap(slot) == Len(tail) - Len(SlotRoot(slot))
           Gaps == {Gap(slot) : slot \in Above(d, tail)}
<1>2. Gaps \in SUBSET Nat /\ Gaps # {}
  BY <1>1
<1>3. PICK m \in Gaps : \A k \in Gaps : m <= k
  <2> HIDE DEF Gaps
  <2> QED BY <1>2, Least
<1>4. PICK slot \in Above(d, tail) : Gap(slot) = m
  OBVIOUS
<1>5. \A s \in Above(d, tail) : Len(SlotRoot(s)) <= Len(SlotRoot(slot))
  <2> TAKE s \in Above(d, tail)
  <2>1. Gap(slot) <= Gap(s)
    BY <1>3, <1>4
  <2> QED BY <1>1, <2>1
<1> QED BY <1>4, <1>5 DEF Nearest

\* A path that no entry manages has no entry at the root of its new one.
LEMMA RootFree ==
  ASSUME NEW d, DocOK(d), NEW r \in Requests, InConfig(r.path) \/ AtHome(r.path),
         Managing(d, r.path) = {}, Nearest(d, r.path) = {}, NewRoot(r.path) # <<>>,
         NEW slot \in Slots(d)
  PROVE  SlotRoot(slot) # NewRoot(r.path)
<1> SUFFICES ASSUME SlotRoot(slot) = NewRoot(r.path) PROVE FALSE
  OBVIOUS
<1>1. r.path \in PathNames
  BY RequestsTyped
<1>2. CASE NewRoot(r.path) = r.path
  BY <1>2 DEF Managing
<1>3. CASE NewRoot(r.path) # r.path
  <2>1. InConfig(r.path) /\ NewRoot(r.path) = SubSeq(r.path, 1, 2)
    BY <1>3 DEF NewRoot
  <2>2. Len(r.path) >= 2
    BY <2>1 DEF InConfig
  <2>3. LET two == SubSeq(r.path, 1, 2) IN
          two \in PathNames /\ Len(two) = 2 /\ SubSeq(two, 1, Len(two)) = two
    BY <1>1, <2>2, FirstTwo DEF PathNames
  <2>5. IsStrictPrefix(SubSeq(r.path, 1, 2), r.path)
    BY <1>1, <1>3, <2>1, <2>2, <2>3 DEF IsStrictPrefix, IsPrefix, PathNames
  <2>6. slot \in Above(d, r.path)
    BY <2>1, <2>5 DEF Above
  <2> QED BY <1>1, <2>6, NearestThere
<1> QED BY <1>2, <1>3
-----------------------------------------------------------------------------
(* Plans                                                                   *)

LEMMA NewPlanFields ==
  ASSUME NEW d, NEW r
  PROVE  LET p == NewPlan(d, r) IN
           p.mode = "new" /\ p.key = NewKey(r) /\ p.entry = NewEntry(r)
BY DEF NewPlan, NoPlan

\* The root of a new entry, for import and for apply.
LEMMA NewDir ==
  ASSUME NEW r \in Requests, InConfig(r.path) \/ AtHome(r.path)
  PROVE  DirOf(NewKey(r), NewEntry(r)) = NewRoot(r.path)
<1>1. r.path \in PathNames /\ \A i \in DOMAIN r.path : r.path[i] # ""
  BY RequestsTyped
<1>2. CASE InConfig(r.path)
  <2>1. Len(r.path) >= 2 /\ r.path[1] = ".config" /\ NewRoot(r.path) = SubSeq(r.path, 1, 2)
    BY <1>2 DEF InConfig, NewRoot
  <2>2. NewRoot(r.path) = <<".config", r.path[2]>>
    BY <1>1, <2>1, FirstTwo DEF PathNames
  <2>3. r.path[2] # ""
    <3>1. Len(r.path) \in Nat /\ DOMAIN r.path = 1..Len(r.path)
      BY <1>1, LenProperties DEF PathNames
    <3>2. 2 \in DOMAIN r.path
      BY <2>1, <3>1
    <3> QED BY <1>1, <3>2
  <2> DEFINE name == IF r.path[2] # NewKey(r) THEN r.path[2] ELSE ""
  <2>4. NewEntry(r).type = ".config" /\ NewEntry(r).name = name
    BY <1>2, <2>2 DEF NewEntry
  <2>5. (IF name = "" THEN NewKey(r) ELSE name) = r.path[2]
    BY <2>3
  <2> HIDE DEF name
  <2> QED BY <2>2, <2>4, <2>5 DEF DirOf
<1>3. CASE ~InConfig(r.path)
  BY <1>3 DEF DirOf, NewEntry
<1> QED BY <1>2, <1>3

LEMMA RelTyped ==
  ASSUME NEW root \in PathNames, NEW path \in PathNames
  PROVE  Rel(root, path) \in PathNames
<1>1. Len(root) \in Nat /\ Len(path) \in Nat
  BY DEF PathNames
<1>2. \A i \in (Len(root) + 1)..Len(path) : path[i] \in Words
  BY <1>1 DEF PathNames
<1> QED BY <1>1, <1>2, SubSeqProperties DEF Rel, PathNames

LEMMA WalkedTyped ==
  ASSUME NEW root \in PathNames, NEW kind
  PROVE  Walked(root, kind) \in Arrays
<1> DEFINE Met(p) ==
             /\ IsStrictPrefix(root, p) /\ home[p].kind = kind
             /\ \A i \in (Len(root) + 1)..(Len(p) - 1) : p[i] \notin Vcs
           piece(i) == IF Met(Order[i]) THEN <<Rel(root, Order[i])>> ELSE <<>>
<1>1. Walked(root, kind) = FlattenSeq([i \in DOMAIN Order |-> piece(i)])
  BY Zenon DEF Walked
<1>2. /\ DOMAIN Order = 1..Len(Order) /\ Len(Order) \in Nat
      /\ \A i \in 1..Len(Order) : Order[i] \in PathNames
  BY OrderTyped, LenProperties
<1> HIDE DEF Met
<1>3. \A i \in 1..Len(Order) : piece(i) \in Arrays
  <2> TAKE i \in 1..Len(Order)
  <2>1. <<Rel(root, Order[i])>> \in Arrays
    BY <1>2, RelTyped, Single DEF Arrays
  <2>2. CASE Met(Order[i])
    BY <2>1, <2>2
  <2>3. CASE ~Met(Order[i])
    BY <2>3 DEF Arrays
  <2> QED BY <2>2, <2>3
<1> HIDE DEF piece
<1>4. [i \in DOMAIN Order |-> piece(i)] \in Seq(Arrays)
  BY <1>2, <1>3, IsASeq
<1> QED BY <1>1, <1>4, FlattenTyped DEF Arrays

LEMMA NewRootTyped ==
  ASSUME NEW tail \in PathNames
  PROVE  NewRoot(tail) \in PathNames
<1>1. CASE InConfig(tail)
  <2>1. Len(tail) >= 2 /\ NewRoot(tail) = SubSeq(tail, 1, 2)
    BY <1>1 DEF InConfig, NewRoot
  <2> QED BY <2>1, FirstTwo DEF PathNames
<1>2. CASE ~InConfig(tail)
  BY <1>2 DEF NewRoot, PathNames
<1> QED BY <1>1, <1>2

LEMMA NewFilesTyped ==
  ASSUME NEW tail \in PathNames
  PROVE  NewFiles(tail) \in Arrays
<1>1. CASE IsDir(tail)
  BY <1>1, WalkedTyped DEF NewFiles
<1>2. CASE ~IsDir(tail)
  <2>1. Rel(NewRoot(tail), tail) \in PathNames
    BY NewRootTyped, RelTyped
  <2> QED BY <1>2, <2>1, Single DEF NewFiles, Arrays
<1> QED BY <1>1, <1>2

LEMMA NewEntryTyped ==
  ASSUME NEW r \in Requests, InConfig(r.path) \/ AtHome(r.path), NewKey(r) \in Keys
  PROVE  NewEntry(r) \in Entries(Arrays)
<1>1. r.path \in PathNames /\ r.source \in PathNames /\ NewKey(r) \in Words
  BY RequestsTyped
<1>2. <<>> \in PathNames /\ "configs" \in Words /\ "" \in Words
  BY DEF PathNames, Words
<1>3. NewSource(r) \in PathNames
  BY <1>1, <1>2, Pair DEF NewSource, PathNames
<1>7. NewEntry(r).symlinks \in Arrays
  BY <1>1, NewFilesTyped DEF NewEntry
<1>4. CASE InConfig(r.path)
  <2>1. Len(r.path) >= 2 /\ NewRoot(r.path) = SubSeq(r.path, 1, 2)
    BY <1>4 DEF InConfig, NewRoot
  <2>2. NewRoot(r.path)[2] = r.path[2] /\ r.path[2] \in Words
    BY <1>1, <2>1, FirstTwo DEF PathNames
  <2> QED BY <1>2, <1>3, <1>4, <1>7, <2>2 DEF NewEntry, Entries
<1>5. CASE ~InConfig(r.path)
  <2>1. NewRoot(r.path) \in PathNames
    BY <1>1, NewRootTyped
  <2> QED BY <1>2, <1>3, <1>5, <1>7, <2>1 DEF NewEntry, Entries
<1> QED BY <1>4, <1>5

LEMMA NewPlanFits ==
  ASSUME NEW d, DocOK(d), NEW r \in Requests, ~NewRefused(d, r),
         Managing(d, r.path) = {}, Nearest(d, r.path) = {}
  PROVE  AddsEntry(d, NewPlan(d, r))
<1>1. /\ InConfig(r.path) \/ AtHome(r.path)
      /\ NewKey(r) \in Keys /\ Visible(d, NewKey(r)) = <<>>
  BY DEF NewRefused
<1>2. NewRoot(r.path) # <<>> => \A slot \in Slots(d) : SlotRoot(slot) # NewRoot(r.path)
  BY <1>1, RootFree
<1> QED BY <1>1, <1>2, NewDir, NewEntryTyped, NewPlanFields DEF AddsEntry

\* What a sync takes for moved was listed, and what it was moved to was not.
LEMMA RenamesTyped ==
  ASSUME NEW slot, SlotRoot(slot) \in PathNames
  PROVE  LET listed == ToSet(slot.entry.symlinks)
         IN  Renames(slot) \in Seq([from : listed, to : PathNames \ listed])
<1> DEFINE p == PlanIn(slot)
           links == Walked(p.root, "link")
           listed == ToSet(p.existing)
           Target(i) == At(p.root, links[i]).to
           From(i) == Rel(p.dest, Target(i))
           Moved(i) ==
             /\ IsPrefix(p.dest, Target(i)) /\ From(i) # links[i]
             /\ links[i] \notin listed /\ From(i) \in listed
           First(i) == \A j \in 1..(i - 1) : ~(Moved(j) /\ From(j) = From(i))
           piece(i) == IF Moved(i) /\ First(i) THEN <<[from |-> From(i), to |-> links[i]]>> ELSE <<>>
<1>1. p.root = SlotRoot(slot) /\ p.existing = slot.entry.symlinks
  BY DEF PlanIn, NoPlan
<1>2. Renames(slot) = FlattenSeq([i \in DOMAIN links |-> piece(i)])
  BY Zenon DEF Renames
<1>3. links \in Seq(PathNames)
  BY <1>1, WalkedTyped DEF Arrays
<1>4. \A i \in DOMAIN links : Moved(i) => From(i) \in listed /\ links[i] \notin listed
  OBVIOUS
<1> HIDE DEF Target, From, Moved, First, links, listed
<1>5. DOMAIN links = 1..Len(links) /\ Len(links) \in Nat /\ \A i \in 1..Len(links) : links[i] \in PathNames
  BY <1>3, LenProperties
<1> DEFINE moves == [from : listed, to : PathNames \ listed]
<1>6. \A i \in 1..Len(links) : piece(i) \in Seq(moves)
  <2> TAKE i \in 1..Len(links)
  <2>1. CASE Moved(i) /\ First(i)
    <3> DEFINE move == [from |-> From(i), to |-> links[i]]
    <3>1. move \in moves
      BY <1>4, <1>5, <2>1
    <3> HIDE DEF move, moves
    <3>2. <<move>> \in Seq(moves)
      BY <3>1
    <3> QED BY <2>1, <3>2 DEF move
  <2>2. CASE ~(Moved(i) /\ First(i))
    BY <2>2
  <2> QED BY <2>1, <2>2
<1> HIDE DEF piece, moves
<1>7. [i \in DOMAIN links |-> piece(i)] \in Seq(Seq(moves))
  BY <1>5, <1>6, IsASeq
<1>8. Renames(slot) \in Seq(moves)
  BY <1>2, <1>7, FlattenTyped
<1> HIDE DEF p
<1> QED BY <1>1, <1>8 DEF moves, listed

LEMMA ReconcileDisjoint ==
  ASSUME NEW slot, SlotRoot(slot) \in PathNames, slot.entry.symlinks \in Arrays
  PROVE  Disjoint(ReconcilePlan(slot).added, ReconcilePlan(slot).dropped)
<1> DEFINE array == slot.entry.symlinks
           listed == ToSet(array)
           renames == Renames(slot)
           kept == Froms(renames) \cup {rel \in listed : At(SlotRoot(slot), rel) # None}
           gone == Without(array, kept)
           froms == [i \in DOMAIN renames |-> renames[i].from]
<1>1. /\ ReconcilePlan(slot).added = NewBelow(slot) \o Tos(renames)
      /\ ReconcilePlan(slot).dropped = gone \o froms
  BY DEF ReconcilePlan, PlanIn, NoPlan
<1>2. Walked(SlotRoot(slot), "file") \in Seq(PathNames)
  BY WalkedTyped DEF Arrays
<1> DEFINE new == PathNames \ listed
<1>4. NewBelow(slot) \in Seq(new)
  BY <1>2, WithoutTyped DEF NewBelow
<1>5. renames \in Seq([from : listed, to : new])
  BY RenamesTyped
<1>6. array \in Seq(listed)
  BY DEF ToSet, Arrays
<1>7. gone \in Seq(listed)
  <2> HIDE DEF kept, array, listed
  <2>1. gone \in Seq(listed \ kept)
    BY <1>6, WithoutTyped
  <2> HIDE DEF gone
  <2> QED BY <2>1
<1> HIDE DEF gone, kept, renames, new, listed, array
<1>8. /\ DOMAIN renames = 1..Len(renames) /\ Len(renames) \in Nat
      /\ \A i \in 1..Len(renames) : renames[i].from \in listed /\ renames[i].to \in new
  <2> DEFINE moves == [from : listed, to : new]
  <2>1. \A m \in moves : m.from \in listed /\ m.to \in new
    OBVIOUS
  <2>2. renames \in Seq(moves)
    BY <1>5
  <2> HIDE DEF moves
  <2>3. DOMAIN renames = 1..Len(renames) /\ Len(renames) \in Nat /\ \A i \in 1..Len(renames) : renames[i] \in moves
    BY <2>2, LenProperties
  <2> QED BY <2>1, <2>3
<1>9. Tos(renames) \in Seq(new) /\ froms \in Seq(listed)
  <2>1. Tos(renames) = [i \in 1..Len(renames) |-> renames[i].to]
    BY <1>8 DEF Tos
  <2>2. froms = [i \in 1..Len(renames) |-> renames[i].from]
    BY <1>8
  <2>3. [i \in 1..Len(renames) |-> renames[i].to] \in Seq(new)
    BY <1>8, IsASeq
  <2>4. [i \in 1..Len(renames) |-> renames[i].from] \in Seq(listed)
    BY <1>8, IsASeq
  <2> QED BY <2>1, <2>2, <2>3, <2>4
<1> HIDE DEF froms
<1>10. NewBelow(slot) \o Tos(renames) \in Seq(new)
  BY <1>4, <1>9, ConcatIs
<1>11. gone \o froms \in Seq(listed)
  BY <1>7, <1>9, ConcatIs
<1>12. ToSet(NewBelow(slot) \o Tos(renames)) \cap ToSet(gone \o froms) = {}
  <2>1. ToSet(gone \o froms) \subseteq listed
    BY <1>11 DEF ToSet
  <2>2. ToSet(NewBelow(slot) \o Tos(renames)) \subseteq new
    BY <1>10 DEF ToSet
  <2> QED BY <2>1, <2>2 DEF new
<1>13. NewBelow(slot) \o Tos(renames) \in Arrays
  BY <1>10 DEF new, Arrays
<1> QED BY <1>1, <1>12, <1>13 DEF Disjoint, renames

LEMMA SlotPlansFit ==
  ASSUME NEW d, DocOK(d), NEW slot \in Slots(d), NEW tail \in PathNames
  PROVE  ChangesSlot(d, ExtendPlan(slot, tail)) /\ ChangesSlot(d, ReconcilePlan(slot))
<1>1. LET p == ExtendPlan(slot, tail) IN
        /\ p.mode = "extend" /\ p.key = slot.key /\ p.index = slot.index /\ p.root = SlotRoot(slot)
        /\ p.existing = slot.entry.symlinks
  BY DEF ExtendPlan, PlanIn, NoPlan
<1>2. LET p == ReconcilePlan(slot) IN
        /\ p.mode = "reconcile" /\ p.key = slot.key /\ p.index = slot.index /\ p.root = SlotRoot(slot)
        /\ p.existing = slot.entry.symlinks
  BY DEF ReconcilePlan, PlanIn, NoPlan
<1>3. Disjoint(ExtendPlan(slot, tail).added, ExtendPlan(slot, tail).dropped)
  <2> DEFINE rel == Rel(SlotRoot(slot), tail)
             listed == rel \in ToSet(slot.entry.symlinks)
             added == IF listed THEN <<>> ELSE <<rel>>
  <2>1. ExtendPlan(slot, tail).added = added /\ ExtendPlan(slot, tail).dropped = <<>>
    BY DEF ExtendPlan, PlanIn, NoPlan
  <2>5. rel \in PathNames
    BY SlotFacts, RelTyped
  <2> HIDE DEF rel, listed
  <2>3. added \in Arrays
    <3>1. <<rel>> \in Arrays /\ <<>> \in Arrays
      BY <2>5, Single DEF Arrays
    <3>2. CASE listed
      BY <3>1, <3>2
    <3>3. CASE ~listed
      BY <3>1, <3>3
    <3> QED BY <3>2, <3>3
  <2>4. ToSet(<<>>) = {}
    BY DEF ToSet
  <2> HIDE DEF added
  <2> QED BY <2>1, <2>3, <2>4 DEF Disjoint
<1>4. slot.entry \in Entries(Arrays) /\ SlotRoot(slot) \in PathNames
  BY SlotFacts
<1>5. Disjoint(ReconcilePlan(slot).added, ReconcilePlan(slot).dropped)
  BY <1>4, ReconcileDisjoint DEF Entries
<1> QED BY <1>1, <1>2, <1>3, <1>5 DEF ChangesSlot

LEMMA PlansFit ==
  ASSUME NEW d, DocOK(d), NEW r \in Requests, ~Refused(d, r), NEW p \in PlansFor(d, r)
  PROVE  ChangesSlot(d, p) \/ AddsEntry(d, p)
<1>1. CASE Managing(d, r.path) # {}
  <2>1. PICK slot \in Managing(d, r.path) : p = ReconcilePlan(slot)
    BY <1>1 DEF PlansFor
  <2> QED BY <2>1, RequestsTyped, SlotPlansFit DEF Managing
<1>2. CASE Managing(d, r.path) = {} /\ Nearest(d, r.path) # {}
  <2>1. PICK slot \in Nearest(d, r.path) : p = ExtendPlan(slot, r.path)
    BY <1>2 DEF PlansFor
  <2> QED BY <2>1, RequestsTyped, SlotPlansFit DEF Nearest, Above
<1>3. CASE Managing(d, r.path) = {} /\ Nearest(d, r.path) = {}
  <2>1. p = NewPlan(d, r)
    BY <1>3 DEF PlansFor
  <2>2. ~NewRefused(d, r)
    BY <1>3 DEF Refused
  <2> QED BY <1>3, <2>1, <2>2, NewPlanFits
<1> QED BY <1>1, <1>2, <1>3
-----------------------------------------------------------------------------
(* The document that is written                                            *)

\* A new entry becomes the only one of its package.
LEMMA NewDocument ==
  ASSUME NEW d, DocOK(d), NEW p, AddsEntry(d, p), ~Panics(d, p)
  PROVE  LET new == Updated(d, p) IN
           /\ DocOK(new)
           /\ \A k \in Keys \ {p.key} : Visible(new, k) = Visible(d, k)
           /\ \A k \in Keys \ {p.key} : new.pkg[k] = d.pkg[k]
           /\ new.pkg[p.key].hint = HintAfter(d.pkg[p.key], p)
           /\ d.pkg[p.key].entries = <<>>
           /\ new.pkg[p.key].entries = <<p.entry>> /\ Visible(new, p.key) = <<p.entry>>
<1>1. d \in Documents(Arrays)
  BY DEF DocOK
<1>2. p.key \in Keys /\ p.mode = "new"
  BY DEF AddsEntry
<1> DEFINE b == d.pkg[p.key]
           block == [form |-> "table", hint |-> HintAfter(b, p), configs |-> "tables",
                     entries |-> Append(b.entries, p.entry)]
<1>3. b \in Blocks(Arrays) /\ d.form = "table" /\ b.form # "inline" /\ b.configs # "array"
  BY <1>1, <1>2 DEF Panics, Documents
<1>4. b.entries = <<>>
  <2>1. CASE b.form = "absent" \/ b.configs = "none"
    BY <1>2, <2>1 DEF DocOK, NothingInNothing
  <2>2. CASE b.form = "table" /\ b.configs = "tables"
    BY <1>3, <2>2 DEF AddsEntry, Visible
  <2> QED BY <1>3, <2>1, <2>2 DEF Blocks
<1>5. Updated(d, p) = [d EXCEPT !.pkg = [d.pkg EXCEPT ![p.key] = block]]
  BY <1>2 DEF Updated
<1> DEFINE new == [d EXCEPT !.pkg = [d.pkg EXCEPT ![p.key] = block]]
<1>6. p.entry \in Entries(Arrays)
  BY DEF AddsEntry
<1>7. block.entries = <<p.entry>> /\ <<p.entry>> \in Seq(Entries(Arrays))
  BY <1>4, <1>6
<1>8. HintAfter(b, p) \in BOOLEAN
  BY <1>3 DEF HintAfter, Blocks
<1>9. block \in Blocks(Arrays)
  BY <1>7, <1>8 DEF Blocks
<1> HIDE DEF block, b
<1>11. /\ new \in Documents(Arrays) /\ new.form = "table" /\ new.pkg[p.key] = block
       /\ \A k \in Keys \ {p.key} : new.pkg[k] = d.pkg[k]
  BY <1>2, <1>3, <1>9, <1>1 DEF Documents
<1>12. NothingInNothing(new)
  BY <1>11 DEF NothingInNothing, DocOK, block
<1>13. DocOK(new)
  BY <1>11, <1>12 DEF DocOK
<1>14. \A k \in Keys \ {p.key} : Visible(new, k) = Visible(d, k)
  BY <1>3, <1>11 DEF Visible
<1>15. Visible(new, p.key) = <<p.entry>>
  BY <1>7, <1>11 DEF Visible, block
<1> HIDE DEF new
<1>17. new.pkg[p.key].entries = <<p.entry>>
  BY <1>7, <1>11
<1>18. new.pkg[p.key].hint = HintAfter(b, p)
  BY <1>11 DEF block
<1> QED BY <1>4, <1>5, <1>11, <1>13, <1>14, <1>15, <1>17, <1>18 DEF b, new

\* The array of one entry changes, and nothing else.
OnlyArray(old, e) ==
  e.type = old.type /\ e.name = old.name /\ e.dir = old.dir /\ e.source = old.source

OneArray(d, new, p) ==
  /\ DocOK(new)
  /\ \A k \in Keys \ {p.key} : Visible(new, k) = Visible(d, k)
  /\ \A k \in Keys \ {p.key} : new.pkg[k] = d.pkg[k]
  /\ new.pkg[p.key].form = d.pkg[p.key].form /\ new.pkg[p.key].hint = d.pkg[p.key].hint
  /\ Visible(new, p.key) = new.pkg[p.key].entries
  /\ DOMAIN new.pkg[p.key].entries = DOMAIN d.pkg[p.key].entries
  /\ \A i \in DOMAIN d.pkg[p.key].entries :
       /\ OnlyArray(d.pkg[p.key].entries[i], new.pkg[p.key].entries[i])
       /\ i # p.index => new.pkg[p.key].entries[i] = d.pkg[p.key].entries[i]
       /\ i = p.index => new.pkg[p.key].entries[i].symlinks =
                           Trimmed(d.pkg[p.key].entries[i].symlinks \o p.added, p.dropped)

LEMMA ChangedDocument ==
  ASSUME NEW d, DocOK(d), NEW p, NEW slot \in Slots(d), p.mode # "new",
         p.key = slot.key, p.index = slot.index, Disjoint(p.added, p.dropped)
  PROVE  OneArray(d, Updated(d, p), p)
<1>1. d \in Documents(Arrays)
  BY DEF DocOK
<1> DEFINE b == d.pkg[p.key]
           E == b.entries
           array == Trimmed(E[p.index].symlinks \o p.added, p.dropped)
           e == [E[p.index] EXCEPT !.symlinks = array]
           F == [E EXCEPT ![p.index] = e]
           block == [b EXCEPT !.entries = F]
           new == [d EXCEPT !.pkg = [d.pkg EXCEPT ![p.key] = block]]
<1>2. p.key \in Keys /\ p.index \in DOMAIN E /\ Visible(d, p.key) = E
  BY SlotFacts
<1>3. Updated(d, p) = new
  BY DEF Updated
<1>5. b \in Blocks(Arrays) /\ E \in Seq(Entries(Arrays))
  BY <1>1, <1>2 DEF Documents, Blocks
<1>6. E[p.index] \in Entries(Arrays)
  BY <1>2, <1>5
<1>15. array \in Arrays
  <2>1. E[p.index].symlinks \in Arrays
    BY <1>6 DEF Entries
  <2> HIDE DEF E
  <2> QED BY <2>1, TrimmedIs
<1>7. /\ e \in Entries(Arrays)
      /\ e.type = E[p.index].type /\ e.name = E[p.index].name /\ e.dir = E[p.index].dir
      /\ e.source = E[p.index].source
      /\ e.symlinks = array
  <2> HIDE DEF array, E
  <2> QED BY <1>6, <1>15 DEF Entries
<1> HIDE DEF e
<1>8. /\ F \in Seq(Entries(Arrays)) /\ DOMAIN F = DOMAIN E /\ F[p.index] = e
      /\ \A i \in DOMAIN E \ {p.index} : F[i] = E[i]
  <2> HIDE DEF E
  <2>1. DOMAIN E = 1..Len(E) /\ Len(E) \in Nat /\ E \in [1..Len(E) -> Entries(Arrays)]
    BY <1>5, LenProperties
  <2>2. F \in [1..Len(E) -> Entries(Arrays)]
    BY <1>7, <2>1
  <2>3. F \in Seq(Entries(Arrays))
    BY <2>1, <2>2, IsASeq
  <2> QED BY <1>2, <2>1, <2>3
<1> HIDE DEF F
<1>9. /\ block \in Blocks(Arrays) /\ block.entries = F
      /\ block.form = b.form /\ block.configs = b.configs /\ block.hint = b.hint
  BY <1>5, <1>8 DEF Blocks
<1> HIDE DEF block
<1>10. /\ new \in Documents(Arrays) /\ new.form = d.form /\ new.pkg[p.key] = block
       /\ \A k \in Keys \ {p.key} : new.pkg[k] = d.pkg[k]
  BY <1>1, <1>2, <1>9 DEF Documents
<1>11. NothingInNothing(new)
  <2>1. E # <<>>
    BY <1>2
  <2>2. ~(b.form = "absent" \/ b.configs = "none")
    BY <1>2, <2>1 DEF DocOK, NothingInNothing
  <2> QED BY <1>9, <1>10, <2>2 DEF NothingInNothing, DocOK
<1>12. DocOK(new)
  BY <1>10, <1>11 DEF DocOK
<1>13. \A k \in Keys \ {p.key} : Visible(new, k) = Visible(d, k)
  BY <1>10 DEF Visible
<1>14. Visible(new, p.key) = F
  <2>1. E # <<>>
    BY <1>2
  <2>2. d.form = "table" /\ b.form = "table" /\ b.configs = "tables"
    BY <1>2, <2>1 DEF Visible
  <2> QED BY <1>9, <1>10, <2>2 DEF Visible
<1> HIDE DEF new
<1> QED BY <1>3, <1>7, <1>8, <1>9, <1>10, <1>12, <1>13, <1>14 DEF OneArray, OnlyArray

\* After an extension or a sync, every entry is for the directory it was for.
LEMMA SlotsStay ==
  ASSUME NEW d, DocOK(d), NEW p, ChangesSlot(d, p), NEW s \in Slots(Updated(d, p))
  PROVE  \E t \in Slots(d) :
           s.key = t.key /\ s.index = t.index /\ DirOf(s.key, s.entry) = DirOf(t.key, t.entry)
<1> DEFINE new == Updated(d, p)
<1>1. PICK slot \in Slots(d) : p.key = slot.key /\ p.index = slot.index
  BY DEF ChangesSlot
<1>2. p.mode # "new" /\ Disjoint(p.added, p.dropped)
  BY DEF ChangesSlot
<1>3. OneArray(d, new, p)
  BY <1>1, <1>2, ChangedDocument
<1>4. Visible(d, p.key) = d.pkg[p.key].entries
  BY <1>1, SlotFacts
<1> HIDE DEF new
<1>5. s \in Slots(new)
  BY DEF new
<1>6. PICK k \in Keys : \E i \in DOMAIN Visible(new, k) :
        s = [key |-> k, index |-> i, entry |-> Visible(new, k)[i]]
  BY <1>5 DEF Slots
<1>7. PICK i \in DOMAIN Visible(new, k) : s = [key |-> k, index |-> i, entry |-> Visible(new, k)[i]]
  BY <1>6
<1> DEFINE t == [key |-> k, index |-> i, entry |-> Visible(d, k)[i]]
<1>8. i \in DOMAIN Visible(d, k)
  BY <1>3, <1>4 DEF OneArray
<1>9. t \in Slots(d)
  BY <1>8 DEF Slots
<1>10. DirOf(k, s.entry) = DirOf(k, t.entry)
  <2>1. CASE k = p.key
    <3>1. OnlyArray(d.pkg[k].entries[i], new.pkg[k].entries[i])
      BY <1>3, <1>4, <1>8, <2>1 DEF OneArray
    <3>2. Visible(new, k) = new.pkg[k].entries /\ Visible(d, k) = d.pkg[k].entries
      BY <1>3, <1>4, <2>1 DEF OneArray
    <3> QED BY <1>7, <3>1, <3>2 DEF DirOf, OnlyArray
  <2>2. CASE k # p.key
    <3>1. Visible(new, k) = Visible(d, k)
      BY <1>3, <2>2 DEF OneArray
    <3> QED BY <1>7, <3>1
  <2> QED BY <2>1, <2>2
<1> QED BY <1>7, <1>9, <1>10
-----------------------------------------------------------------------------
(* The invariant                                                           *)

LEMMA DocsOK == \A d \in Docs : DocOK(d)
BY DocsParse DEF DocOK, Arrays

LEMMA IdleOK ==
  ASSUME DocOK(doc'), run' = Idle
  PROVE  LInv'
BY DEF LInv, Idle

LEMMA WrittenOK ==
  ASSUME LInv, WriteToml
  PROVE  DocOK(doc')
<1>1. /\ doc' = Updated(run.read, run.plan) /\ ~Panics(run.read, run.plan)
      /\ DocOK(run.read) /\ (ChangesSlot(run.read, run.plan) \/ AddsEntry(run.read, run.plan))
  BY DEF WriteToml, LInv
<1>2. CASE ChangesSlot(run.read, run.plan)
  <2>1. PICK slot \in Slots(run.read) : run.plan.key = slot.key /\ run.plan.index = slot.index
    BY <1>2 DEF ChangesSlot
  <2> QED BY <1>1, <1>2, <2>1, ChangedDocument DEF ChangesSlot, OneArray
<1>3. CASE AddsEntry(run.read, run.plan)
  BY <1>1, <1>3, NewDocument
<1> QED BY <1>1, <1>2, <1>3

LEMMA ProposeInv ==
  ASSUME LInv, NEW r \in Requests, Propose(r)
  PROVE  LInv'
<1>1. DocOK(doc) /\ doc' = doc /\ ~Refused(doc, r)
  BY DEF LInv, Propose, disk
<1>2. PICK p \in PlansFor(doc, r) :
        \/ run' = Idle
        \/ run' = [stage |-> IF r.mode = "yes" THEN "apply" ELSE "prompt",
                   plan |-> p, read |-> doc, preview |-> Preview(p)]
  BY DEF Propose, Ends
<1>3. ChangesSlot(doc, p) \/ AddsEntry(doc, p)
  BY <1>1, PlansFit
<1>4. CASE run' = Idle
  BY <1>1, <1>4, IdleOK
<1>5. CASE run' # Idle
  <2>1. run' = [stage |-> run'.stage, plan |-> p, read |-> doc, preview |-> run'.preview]
        /\ run'.stage \in {"apply", "prompt"}
    BY <1>2, <1>5
  <2>2. run'.plan = p /\ run'.read = doc /\ run'.preview = Preview(p)
    BY <1>2, <1>5, <2>1
  <2> QED BY <1>1, <1>3, <2>1, <2>2 DEF LInv
<1> QED BY <1>4, <1>5

LEMMA NextInv == LInv /\ [Next]_vars => LInv'
<1> SUFFICES ASSUME LInv, [Next]_vars PROVE LInv'
  OBVIOUS
<1>1. ASSUME NEW r \in Requests, Refuse(r) PROVE LInv'
  BY <1>1, IdleOK DEF LInv, Refuse, Ends, disk
<1>2. ASSUME NEW r \in Requests, Propose(r) PROVE LInv'
  BY <1>2, ProposeInv
<1>3. CASE Confirm \/ ApplyFiles
  <2>1. doc' = doc
    BY <1>3 DEF Confirm, ApplyFiles, disk
  <2>2. CASE run' = Idle
    BY <2>1, <2>2, IdleOK DEF LInv
  <2>3. ASSUME NEW s \in {"apply", "write"}, run' = [run EXCEPT !.stage = s], run.stage # "idle"
        PROVE  LInv'
    <3>1. /\ run'.stage = s /\ run'.plan = run.plan /\ run'.read = run.read
          /\ run'.preview = run.preview
          /\ run' = [stage |-> run'.stage, plan |-> run'.plan, read |-> run'.read,
                     preview |-> run'.preview]
      BY <2>3 DEF LInv
    <3> QED BY <2>1, <2>3, <3>1 DEF LInv
  <2>4. run' = Idle \/ \E s \in {"apply", "write"} : run' = [run EXCEPT !.stage = s]
    BY <1>3 DEF Confirm, ApplyFiles, Ends
  <2>5. run.stage # "idle"
    BY <1>3 DEF Confirm, ApplyFiles
  <2> QED BY <2>2, <2>3, <2>4, <2>5
<1>4. CASE WriteToml
  BY <1>4, WrittenOK, IdleOK DEF WriteToml, Ends
<1>5. CASE WriteFails \/ UpdatePanics
  BY <1>5, IdleOK DEF LInv, WriteFails, UpdatePanics, Ends, disk
<1>6. CASE \/ \E q \in Paths : \E entry \in {None, File} : EditHome(q, entry)
           \/ \E q1, q2 \in Paths : MoveLink(q1, q2)
           \/ UNCHANGED vars
  <2>1. doc' = doc /\ run' = run
    BY <1>6 DEF EditHome, MoveLink, vars, disk
  <2> QED BY <2>1 DEF LInv
<1>7. ASSUME NEW d \in Docs, Replace(d) PROVE LInv'
  <2>1. doc' = d /\ run' = run
    BY <1>7 DEF Replace
  <2> QED BY <2>1, DocsOK DEF LInv
<1> QED BY <1>1, <1>2, <1>3, <1>4, <1>5, <1>6, <1>7 DEF Next

\* Whatever the user and the pulls do, a running import knows the slot of the
\* document it read, or that there is none (import/mod.rs:815).
THEOREM Invariant == Spec => []LInv
<1>1. Init => LInv
  BY DocsOK DEF Init, LInv, Idle
<1> QED BY <1>1, NextInv, PTL DEF Spec

\* An import leaves one entry for a directory where there was at most one
\* (import/mod.rs:839, config/pkg_config_files.rs:64).
THEOREM OneEntryForADirectory == Spec => OneRoot
<1> DEFINE Step == WriteToml => (RootsOnce(run.read) => RootsOnce(doc'))
<1>1. ASSUME LInv, WriteToml, RootsOnce(run.read),
             NEW s \in Slots(doc'), NEW t \in Slots(doc'),
             DirOf(s.key, s.entry) # <<>>, DirOf(s.key, s.entry) = DirOf(t.key, t.entry)
      PROVE  s.key = t.key /\ s.index = t.index
  <2> DEFINE d == run.read
             p == run.plan
  <2>1. /\ doc' = Updated(d, p) /\ ~Panics(d, p)
        /\ DocOK(d) /\ (ChangesSlot(d, p) \/ AddsEntry(d, p))
    BY <1>1 DEF WriteToml, LInv
  <2>2. RootsOnce(d)
    BY <1>1
  <2> HIDE DEF d, p
  <2>3. CASE ChangesSlot(d, p)
    <3>1. PICK s0 \in Slots(d) :
            s.key = s0.key /\ s.index = s0.index /\ DirOf(s.key, s.entry) = DirOf(s0.key, s0.entry)
      BY <1>1, <2>1, <2>3, SlotsStay
    <3>2. PICK t0 \in Slots(d) :
            t.key = t0.key /\ t.index = t0.index /\ DirOf(t.key, t.entry) = DirOf(t0.key, t0.entry)
      BY <1>1, <2>1, <2>3, SlotsStay
    <3>3. s0.key = t0.key /\ s0.index = t0.index
      BY <1>1, <2>2, <3>1, <3>2 DEF RootsOnce
    <3> QED BY <3>1, <3>2, <3>3
  <2>4. CASE AddsEntry(d, p)
    <3>1. \A u \in Slots(doc') : \/ u \in Slots(d)
                                 \/ u.key = p.key /\ u.index = 1 /\ u.entry = p.entry
      <4> TAKE u \in Slots(doc')
      <4>1. PICK k \in Keys : \E i \in DOMAIN Visible(doc', k) :
              u = [key |-> k, index |-> i, entry |-> Visible(doc', k)[i]]
        BY DEF Slots
      <4>2. PICK i \in DOMAIN Visible(doc', k) :
              u = [key |-> k, index |-> i, entry |-> Visible(doc', k)[i]]
        BY <4>1
      <4>3. CASE k = p.key
        <5>1. Visible(doc', k) = <<p.entry>>
          BY <2>1, <2>4, <4>3, NewDocument
        <5>2. i = 1
          BY <5>1
        <5> QED BY <4>2, <4>3, <5>1, <5>2
      <4>4. CASE k # p.key
        <5>1. Visible(doc', k) = Visible(d, k)
          BY <2>1, <2>4, <4>4, NewDocument
        <5> QED BY <4>2, <5>1 DEF Slots
      <4> QED BY <4>3, <4>4
    <3>2. DirOf(p.key, p.entry) # <<>> =>
            \A u \in Slots(d) : DirOf(u.key, u.entry) # DirOf(p.key, p.entry)
      BY <2>4, SameRoot DEF AddsEntry, SlotRoot
    <3> QED BY <1>1, <2>2, <3>1, <3>2 DEF RootsOnce
  <2> QED BY <2>1, <2>3, <2>4
<1>2. LInv => Step
  BY <1>1 DEF RootsOnce
<1>3. LInv /\ [Next]_vars => [Step]_vars
  BY <1>2
<1> QED BY <1>3, Invariant, PTL DEF Spec, OneRoot

\* An import changes no entry but the one its path was found under
\* (import/mod.rs:1679).
THEOREM OtherEntriesAreKept == Spec => OthersKept
<1> DEFINE Step ==
             WriteToml =>
               \A k \in Keys : \A i \in DOMAIN run.read.pkg[k].entries :
                 \/ doc'.pkg[k].entries[i] = run.read.pkg[k].entries[i]
                 \/ /\ k = run.plan.key /\ run.plan.mode # "new"
                    /\ RootOf(k, run.read.pkg[k].entries[i]) = run.plan.root
<1>1. ASSUME LInv, WriteToml, NEW k \in Keys, NEW i \in DOMAIN run.read.pkg[k].entries
      PROVE  \/ doc'.pkg[k].entries[i] = run.read.pkg[k].entries[i]
             \/ /\ k = run.plan.key /\ run.plan.mode # "new"
                /\ RootOf(k, run.read.pkg[k].entries[i]) = run.plan.root
  <2>1. /\ doc' = Updated(run.read, run.plan) /\ ~Panics(run.read, run.plan)
        /\ DocOK(run.read)
        /\ ChangesSlot(run.read, run.plan) \/ AddsEntry(run.read, run.plan)
    BY <1>1 DEF WriteToml, LInv
  <2>2. CASE AddsEntry(run.read, run.plan)
    <3>1. CASE k = run.plan.key
      <4>1. run.read.pkg[k].entries = <<>>
        BY <2>1, <2>2, <3>1, NewDocument
      <4> QED BY <1>1, <4>1
    <3>2. CASE k # run.plan.key
      BY <2>1, <2>2, <3>2, NewDocument
    <3> QED BY <3>1, <3>2
  <2>3. CASE ChangesSlot(run.read, run.plan)
    <3>1. PICK slot \in Slots(run.read) :
            /\ run.plan.key = slot.key /\ run.plan.index = slot.index
            /\ run.plan.root = SlotRoot(slot)
      BY <2>3 DEF ChangesSlot
    <3>2. OneArray(run.read, doc', run.plan) /\ run.plan.mode # "new"
      BY <2>1, <2>3, <3>1, ChangedDocument DEF ChangesSlot
    <3>3. CASE k = run.plan.key /\ i = run.plan.index
      <4>1. slot.entry = run.read.pkg[k].entries[i]
        BY <2>1, <3>1, <3>3, SlotFacts
      <4> QED BY <3>1, <3>2, <3>3, <4>1 DEF SlotRoot
    <3>4. CASE ~(k = run.plan.key /\ i = run.plan.index)
      BY <1>1, <3>2, <3>4 DEF OneArray
    <3> QED BY <3>3, <3>4
  <2> QED BY <2>1, <2>2, <2>3
<1>2. LInv => Step
  BY <1>1
<1>3. LInv /\ [Next]_vars => [Step]_vars
  BY <1>2
<1> QED BY <1>3, Invariant, PTL DEF Spec, OthersKept

\* The array that the plan showed is the one that is written: nothing that is
\* added is dropped again (import/mod.rs:1187, 1687, 1769).
THEOREM PreviewIsExact == Spec => PreviewExact
<1> DEFINE Step == WriteToml => ArrayOf(doc', run.plan) = run.preview
<1>1. ASSUME LInv, WriteToml PROVE ArrayOf(doc', run.plan) = run.preview
  <2> DEFINE d == run.read
             p == run.plan
  <2>1. /\ doc' = Updated(d, p) /\ ~Panics(d, p) /\ run.preview = Preview(p)
        /\ DocOK(d) /\ (ChangesSlot(d, p) \/ AddsEntry(d, p))
    BY <1>1 DEF WriteToml, LInv
  <2> HIDE DEF d, p
  <2>2. CASE AddsEntry(d, p)
    <3>1. doc'.pkg[p.key].entries = <<p.entry>> /\ p.mode = "new"
      BY <2>1, <2>2, NewDocument DEF AddsEntry
    <3>2. Len(<<p.entry>>) = 1 /\ <<p.entry>>[1] = p.entry
      OBVIOUS
    <3> QED BY <2>1, <3>1, <3>2 DEF ArrayOf, Preview, p
  <2>3. CASE ChangesSlot(d, p)
    <3>1. PICK slot \in Slots(d) :
            p.key = slot.key /\ p.index = slot.index /\ p.existing = slot.entry.symlinks
      BY <2>3 DEF ChangesSlot
    <3>2. Disjoint(p.added, p.dropped) /\ p.mode # "new"
      BY <2>3 DEF ChangesSlot
    <3>3. OneArray(d, doc', p)
      BY <2>1, <3>1, <3>2, ChangedDocument
    <3>4. /\ p.index \in DOMAIN d.pkg[p.key].entries
          /\ d.pkg[p.key].entries[p.index].symlinks = p.existing
      BY <2>1, <3>1, SlotFacts
    <3>5. ArrayOf(doc', p) = Trimmed(p.existing \o p.added, p.dropped)
      BY <3>2, <3>3, <3>4 DEF OneArray, ArrayOf
    <3>6. p.existing \in Arrays
      BY <2>1, <3>1, SlotFacts DEF Entries
    <3>7. ArrayOf(doc', p) = Without(p.existing, ToSet(p.dropped)) \o p.added
      BY <3>2, <3>5, <3>6, TrimmedIs
    <3> QED BY <2>1, <3>2, <3>7 DEF Preview, p
  <2> QED BY <2>1, <2>2, <2>3
<1>2. LInv => Step
  BY <1>1
<1>3. LInv /\ [Next]_vars => [Step]_vars
  BY <1>2
<1> QED BY <1>3, Invariant, PTL DEF Spec, PreviewExact

-----------------------------------------------------------------------------
(* More on sequences                                                       *)

\* What is put before two paths alike can be taken away again.
LEMMA CancelLeft ==
  ASSUME NEW S, NEW a \in Seq(S), NEW s \in Seq(S), NEW t \in Seq(S), a \o s = a \o t
  PROVE  s = t
<1>1. /\ Len(a \o s) = Len(a) + Len(s) /\ \A i \in 1..Len(s) : (a \o s)[Len(a) + i] = s[i]
      /\ Len(a \o t) = Len(a) + Len(t) /\ \A i \in 1..Len(t) : (a \o t)[Len(a) + i] = t[i]
      /\ Len(a) \in Nat /\ Len(s) \in Nat /\ Len(t) \in Nat
  BY ConcatIs
<1>2. Len(s) = Len(t)
  BY <1>1
<1>3. \A i \in 1..Len(s) : s[i] = t[i]
  BY <1>1, <1>2
<1> QED BY <1>2, <1>3, SameSeq

\* Of two paths that go on to the same place one begins with the other.
LEMMA PrefixEither ==
  ASSUME NEW S, NEW a \in Seq(S), NEW b \in Seq(S), NEW s \in Seq(S), NEW t \in Seq(S),
         a \o s = b \o t, Len(a) <= Len(b)
  PROVE  IsPrefix(a, b)
<1>1. /\ \A i \in 1..Len(a) : (a \o s)[i] = a[i]
      /\ \A i \in 1..Len(b) : (b \o t)[i] = b[i]
      /\ Len(a) \in Nat /\ Len(b) \in Nat
  BY ConcatIs
<1>2. \A i \in 1..Len(a) : a[i] = b[i] /\ a[i] \in S /\ b[i] \in S
  BY <1>1
<1>3. /\ SubSeq(a, 1, Len(a)) \in Seq(S) /\ Len(SubSeq(a, 1, Len(a))) = Len(a)
      /\ \A i \in 1..Len(a) : SubSeq(a, 1, Len(a))[i] = a[i]
  BY <1>1, <1>2, SubSeqProperties
<1>4. /\ SubSeq(b, 1, Len(a)) \in Seq(S) /\ Len(SubSeq(b, 1, Len(a))) = Len(a)
      /\ \A i \in 1..Len(a) : SubSeq(b, 1, Len(a))[i] = b[i]
  BY <1>1, <1>2, SubSeqProperties
<1> DEFINE u == SubSeq(a, 1, Len(a))
           v == SubSeq(b, 1, Len(a))
<1> HIDE DEF u, v
<1>5. u \in Seq(S) /\ v \in Seq(S) /\ Len(u) = Len(v) /\ \A i \in 1..Len(u) : u[i] = v[i]
  BY <1>2, <1>3, <1>4 DEF u, v
<1>6. u = v
  BY <1>5, SameSeq
<1> QED BY <1>6 DEF IsPrefix, u, v

\* A path below a root is the root and what comes after it.
LEMMA RelBack ==
  ASSUME NEW root \in PathNames, NEW path \in PathNames, IsPrefix(root, path)
  PROVE  root \o Rel(root, path) = path
<1> DEFINE n == Len(root)
           rel == Rel(root, path)
<1>1. n \in Nat /\ Len(path) \in Nat /\ n <= Len(path) /\ SubSeq(root, 1, n) = SubSeq(path, 1, n)
  BY DEF PathNames, IsPrefix
<1>2. \A i \in 1..Len(path) : path[i] \in Words
  BY DEF PathNames
<1>3. \A i \in 1..n : root[i] \in Words
  BY DEF PathNames
<1>4. rel \in PathNames /\ Len(rel) = Len(path) - n /\ \A i \in 1..(Len(path) - n) : rel[i] = path[n + i]
  <2>1. \A i \in (n + 1)..Len(path) : path[i] \in Words
    BY <1>1, <1>2
  <2> HIDE DEF n
  <2>2. /\ SubSeq(path, n + 1, Len(path)) \in Seq(Words)
        /\ Len(SubSeq(path, n + 1, Len(path))) = Len(path) - n
        /\ \A i \in 1..(Len(path) - n) : SubSeq(path, n + 1, Len(path))[i] = path[n + i]
    BY <1>1, <2>1, SubSeqProperties
  <2> QED BY <2>2 DEF Rel, PathNames, n
<1>5. \A i \in 1..n : root[i] = path[i]
  <2>1. \A i \in 1..n : SubSeq(root, 1, n)[i] = root[i]
    BY <1>1, <1>3, SubSeqProperties
  <2>2. \A i \in 1..n : SubSeq(path, 1, n)[i] = path[i]
    BY <1>1, <1>2, SubSeqProperties
  <2> QED BY <1>1, <2>1, <2>2
<1> HIDE DEF rel
<1>6. /\ root \o rel \in PathNames /\ Len(root \o rel) = n + Len(rel)
      /\ \A i \in 1..n : (root \o rel)[i] = root[i]
      /\ \A i \in 1..Len(rel) : (root \o rel)[n + i] = rel[i]
  BY <1>4, ConcatIs DEF PathNames
<1>7. \A i \in 1..Len(path) : (root \o rel)[i] = path[i]
  <2> TAKE i \in 1..Len(path)
  <2>1. CASE i <= n
    BY <1>1, <1>5, <1>6, <2>1
  <2>2. CASE i > n
    <3>1. i - n \in 1..(Len(path) - n) /\ n + (i - n) = i
      BY <1>1, <2>2
    <3> HIDE DEF n
    <3>2. (root \o rel)[n + (i - n)] = rel[i - n] /\ rel[i - n] = path[n + (i - n)]
      BY <1>4, <1>6, <3>1
    <3> QED BY <3>1, <3>2
  <2>3. i <= n \/ i > n
    <3>1. n \in Nat /\ i \in Nat
      BY <1>1
    <3> HIDE DEF n
    <3> QED BY <3>1
  <2> QED BY <2>1, <2>2, <2>3
<1>8. Len(root \o rel) = Len(path)
  BY <1>1, <1>4, <1>6
<1>9. root \o rel = path
  BY <1>6, <1>7, <1>8, SameSeq DEF PathNames
<1> QED BY <1>9 DEF rel

LEMMA ToSetConcat ==
  ASSUME NEW S, NEW s \in Seq(S), NEW t \in Seq(S)
  PROVE  ToSet(s \o t) = ToSet(s) \cup ToSet(t)
<1>1. /\ Len(s \o t) = Len(s) + Len(t)
      /\ \A i \in 1..Len(s) : (s \o t)[i] = s[i]
      /\ \A i \in 1..Len(t) : (s \o t)[Len(s) + i] = t[i]
      /\ Len(s) \in Nat /\ Len(t) \in Nat
      /\ DOMAIN s = 1..Len(s) /\ DOMAIN t = 1..Len(t) /\ DOMAIN (s \o t) = 1..Len(s \o t)
  BY ConcatIs, LenProperties
<1>2. ASSUME NEW i \in 1..Len(s \o t) PROVE (s \o t)[i] \in ToSet(s) \cup ToSet(t)
  <2>1. CASE i <= Len(s)
    BY <1>1, <2>1 DEF ToSet
  <2>2. CASE i > Len(s)
    <3>1. i - Len(s) \in 1..Len(t) /\ i = Len(s) + (i - Len(s))
      BY <1>1, <2>2
    <3>2. (s \o t)[i] = t[i - Len(s)]
      BY <1>1, <3>1
    <3> QED BY <1>1, <3>1, <3>2 DEF ToSet
  <2> QED BY <1>1, <2>1, <2>2
<1>3. ASSUME NEW i \in 1..Len(s) PROVE s[i] \in ToSet(s \o t)
  BY <1>1 DEF ToSet
<1>4. ASSUME NEW i \in 1..Len(t) PROVE t[i] \in ToSet(s \o t)
  <2>1. Len(s) + i \in 1..Len(s \o t)
    BY <1>1
  <2> QED BY <1>1, <2>1 DEF ToSet
<1> QED BY <1>1, <1>2, <1>3, <1>4 DEF ToSet

\* A path below another.  It has a name because the provers do not find one
\* concatenation among the instances of a lemma that has another.
Below(root, rel) == root \o rel

\* What is put end to end is in the result.
LEMMA FlattenHas ==
  ASSUME NEW S
  PROVE  \A s \in Seq(Seq(S)) : \A i \in 1..Len(s) : ToSet(s[i]) \subseteq ToSet(FlattenSeq(s))
<1> DEFINE Missing(s) == \E i \in 1..Len(s) : ~(ToSet(s[i]) \subseteq ToSet(FlattenSeq(s)))
           Failing == {n \in Nat : \E s \in Seq(Seq(S)) : Len(s) = n /\ Missing(s)}
<1>1. ASSUME Failing # {} PROVE FALSE
  <2>1. PICK n \in Failing : \A k \in Failing : n <= k
    BY <1>1, Least
  <2>2. PICK s \in Seq(Seq(S)) : Len(s) = n /\ Missing(s)
    BY <2>1
  <2>3. s # <<>>
    BY <2>2
  <2> DEFINE front == SubSeq(s, 1, Len(s) - 1)
             x == s[Len(s)]
  <2>4. /\ s = Append(front, x) /\ front \in Seq(Seq(S)) /\ x \in Seq(S) /\ Len(front) = n - 1
        /\ n - 1 \in Nat /\ n - 1 < n /\ x = s[n]
        /\ \A i \in 1..(n - 1) : front[i] = s[i]
    <3>1. /\ s = Append(front, x) /\ front \in Seq(Seq(S)) /\ x \in Seq(S)
          /\ Len(front) = Len(s) - 1 /\ \A i \in 1..(Len(s) - 1) : front[i] = s[i]
      BY <2>3, SplitLast
    <3>2. Len(s) \in Nat \ {0}
      BY <2>3
    <3> QED BY <2>2, <3>1, <3>2
  <2> HIDE DEF front, x
  <2>5. ~Missing(front)
    BY <2>1, <2>4
  <2>6. FlattenSeq(s) = FlattenSeq(front) \o x
    <3>1. FlattenSeq(Append(front, x)) = FlattenSeq(front) \o x
      BY <2>4, FlattenAppend
    <3> QED BY <2>4, <3>1
  <2>7. FlattenSeq(front) \in Seq(S)
    BY <2>4, FlattenTyped
  <2>8. ToSet(FlattenSeq(front)) \subseteq ToSet(FlattenSeq(s)) /\ ToSet(x) \subseteq ToSet(FlattenSeq(s))
    <3>1. ToSet(FlattenSeq(front) \o x) = ToSet(FlattenSeq(front)) \cup ToSet(x)
      BY <2>4, <2>7, ToSetConcat
    <3>2. ToSet(FlattenSeq(s)) = ToSet(FlattenSeq(front)) \cup ToSet(x)
      BY <2>6, <3>1
    <3> QED BY <3>2
  <2>9. PICK i \in 1..n : ~(ToSet(s[i]) \subseteq ToSet(FlattenSeq(s)))
    BY <2>2
  <2>10. CASE i = n
    BY <2>4, <2>8, <2>9, <2>10
  <2>11. CASE i # n
    <3>1. i \in 1..Len(front)
      BY <2>4, <2>11
    <3>2. ToSet(front[i]) \subseteq ToSet(FlattenSeq(front))
      BY <2>5, <3>1
    <3> QED BY <2>4, <2>8, <2>9, <3>1, <3>2
  <2> QED BY <2>10, <2>11
<1>2. ASSUME NEW s \in Seq(Seq(S)), Missing(s) PROVE FALSE
  <2>1. Len(s) \in Failing
    BY <1>2
  <2> QED BY <1>1, <2>1
<1> QED BY <1>2

\* What is taken out is gone, and everything else is there.
LEMMA WithoutSet ==
  ASSUME NEW T, NEW S, NEW s \in Seq(T)
  PROVE  ToSet(Without(s, S)) = ToSet(s) \ S
<1>1. /\ Pieces(s, S) \in Seq(Seq(T \ S)) /\ Len(Pieces(s, S)) = Len(s)
      /\ \A i \in 1..Len(s) : Pieces(s, S)[i] = Piece(s[i], S)
  BY WithoutPieces
<1>2. DOMAIN s = 1..Len(s)
  BY LenProperties
<1>3. ASSUME NEW x \in ToSet(s), x \notin S PROVE x \in ToSet(Without(s, S))
  <2>1. PICK i \in 1..Len(s) : s[i] = x
    BY <1>2 DEF ToSet
  <2>2. Pieces(s, S)[i] = <<x>>
    BY <1>1, <1>3, <2>1 DEF Piece
  <2>3. ToSet(Pieces(s, S)[i]) \subseteq ToSet(FlattenSeq(Pieces(s, S)))
    BY <1>1, FlattenHas
  <2>4. x \in ToSet(<<x>>)
    BY DEF ToSet
  <2> QED BY <2>2, <2>3, <2>4, WithoutIs
<1>4. s \in Seq(ToSet(s))
  BY <1>2 DEF ToSet
<1>5. Without(s, S) \in Seq(ToSet(s) \ S)
  BY <1>4, WithoutTyped
<1>6. ToSet(Without(s, S)) \subseteq ToSet(s) \ S
  <2> DEFINE U == ToSet(s) \ S
  <2> HIDE DEF U
  <2>1. Without(s, S) \in Seq(U)
    BY <1>5 DEF U
  <2>2. ToSet(Without(s, S)) \subseteq U
    BY <2>1 DEF ToSet
  <2> QED BY <2>2 DEF U
<1> QED BY <1>3, <1>6

-----------------------------------------------------------------------------
(* What apply makes of a document                                          *)

\* The i-th entry of k has s in its array: it makes a link at path to the file to.
Asks(d, k, i, s, path, to) ==
  LET e == d.pkg[k].entries[i] IN
    /\ k \in Keys /\ i \in DOMAIN d.pkg[k].entries
    /\ s \in ToSet(e.symlinks)
    /\ path = DirOf(k, e) \o s /\ to = Normalized(e.source) \o s

LEMMA ClaimsAre ==
  ASSUME NEW d, NEW path, NEW to
  PROVE  [path |-> path, to |-> to] \in Claims(d)
           <=> Loads(d) /\ \E k, i, s : Asks(d, k, i, s, path, to)
<1> DEFINE c == [path |-> path, to |-> to]
<1>1. ASSUME c \in Claims(d) PROVE Loads(d) /\ \E k, i, s : Asks(d, k, i, s, path, to)
  <2>1. Loads(d)
    BY <1>1 DEF Claims
  <2>2. PICK k \in Keys : \E i \in DOMAIN d.pkg[k].entries : c \in ClaimsOf(k, d.pkg[k].entries[i])
    BY <1>1, <2>1 DEF Claims
  <2>3. PICK i \in DOMAIN d.pkg[k].entries : c \in ClaimsOf(k, d.pkg[k].entries[i])
    BY <2>2
  <2>4. PICK s \in ToSet(d.pkg[k].entries[i].symlinks) :
          c = [path |-> DirOf(k, d.pkg[k].entries[i]) \o s,
               to |-> Normalized(d.pkg[k].entries[i].source) \o s]
    BY <2>3 DEF ClaimsOf
  <2> QED BY <2>1, <2>3, <2>4 DEF Asks
<1>2. ASSUME Loads(d), NEW k, NEW i, NEW s, Asks(d, k, i, s, path, to) PROVE c \in Claims(d)
  <2>1. c \in ClaimsOf(k, d.pkg[k].entries[i])
    BY <1>2 DEF Asks, ClaimsOf
  <2>2. k \in Keys /\ i \in DOMAIN d.pkg[k].entries
    BY <1>2 DEF Asks
  <2>3. c \in UNION {ClaimsOf(k, d.pkg[k].entries[n]) : n \in DOMAIN d.pkg[k].entries}
    BY <2>1, <2>2, Zenon
  <2> QED BY <1>2, <2>2, <2>3, ZenonT(40) DEF Claims
<1> QED BY <1>1, <1>2

\* An entry of a document is well typed, its place in the repository too.
LEMMA EntryTyped ==
  ASSUME NEW d, DocOK(d), NEW k \in Keys, NEW i \in DOMAIN d.pkg[k].entries
  PROVE  LET e == d.pkg[k].entries[i] IN
           /\ e \in Entries(Arrays) /\ e.symlinks \in Arrays /\ ToSet(e.symlinks) \subseteq PathNames
           /\ DirOf(k, e) \in PathNames /\ Normalized(e.source) \in PathNames
<1> DEFINE e == d.pkg[k].entries[i]
<1>1. d \in Documents(Arrays)
  BY DEF DocOK
<1>2. d.pkg[k].entries \in Seq(Entries(Arrays))
  BY <1>1 DEF Documents, Blocks
<1>3. e \in Entries(Arrays)
  BY <1>2
<1> HIDE DEF e
<1>4. e.symlinks \in Seq(PathNames) /\ e.name \in Words /\ e.dir \in PathNames /\ e.source \in PathNames
  BY <1>3 DEF Entries, Arrays
<1>5. ToSet(e.symlinks) \subseteq PathNames
  BY <1>4 DEF ToSet
<1>6. Normalized(e.source) \in PathNames
  <2>1. Without(e.source, {"."}) \in Seq(Words \ {"."})
    BY <1>4, WithoutTyped DEF PathNames
  <2> QED BY <2>1 DEF Normalized, PathNames
<1>7. DirOf(k, e) \in PathNames
  <2>1. k \in Words /\ ".config" \in Words
    BY RequestsTyped DEF Words
  <2>2. <<".config", IF e.name = "" THEN k ELSE e.name>> \in PathNames
    BY <1>4, <2>1, Pair DEF PathNames
  <2> QED BY <1>4, <2>2 DEF DirOf
<1> QED BY <1>3, <1>4, <1>5, <1>6, <1>7 DEF e, Arrays

\* In a document whose entries keep their files apart a file has one place.
LEMMA SameEntry ==
  ASSUME NEW d, DocOK(d), Apart(d), NEW k, NEW i, NEW s, NEW path, NEW to,
         Asks(d, k, i, s, path, to),
         NEW l \in Keys, NEW j \in DOMAIN d.pkg[l].entries, NEW g \in PathNames,
         to = Below(Normalized(d.pkg[l].entries[j].source), g)
  PROVE  k = l /\ i = j /\ s = g
<1> DEFINE a == Normalized(d.pkg[k].entries[i].source)
           b == Normalized(d.pkg[l].entries[j].source)
<1>1. /\ k \in Keys /\ i \in DOMAIN d.pkg[k].entries
      /\ s \in ToSet(d.pkg[k].entries[i].symlinks)
      /\ path = DirOf(k, d.pkg[k].entries[i]) \o s /\ to = a \o s
  BY DEF Asks
<1>2. a \in PathNames /\ s \in PathNames
  BY <1>1, EntryTyped
<1>3. b \in PathNames
  BY EntryTyped
<1>4. IsPrefix(a, b) => k = l /\ i = j
  BY <1>1 DEF Apart
<1>5. IsPrefix(b, a) => k = l /\ i = j
  <2>1. IsPrefix(b, a) => l = k /\ j = i
    BY <1>1, Zenon DEF Apart
  <2> QED BY <2>1
<1> HIDE DEF a, b
<1>6. a \o s = b \o g
  BY <1>1 DEF b, Below
<1>7. k = l /\ i = j
  <2>1. Len(a) <= Len(b) \/ Len(b) <= Len(a)
    BY <1>2, <1>3 DEF PathNames
  <2>2. CASE Len(a) <= Len(b)
    <3>1. IsPrefix(a, b)
      BY <1>2, <1>3, <1>6, <2>2, PrefixEither DEF PathNames
    <3> QED BY <1>4, <3>1
  <2>3. CASE Len(b) <= Len(a)
    <3>1. IsPrefix(b, a)
      BY <1>2, <1>3, <1>6, <2>3, PrefixEither DEF PathNames
    <3> QED BY <1>5, <3>1
  <2> QED BY <2>1, <2>2, <2>3
<1>8. s = g
  <2>1. a = b
    BY <1>7 DEF a, b
  <2> QED BY <1>2, <1>6, <2>1, CancelLeft DEF PathNames
<1> QED BY <1>1, <1>7, <1>8
-----------------------------------------------------------------------------
(* What a plan does to the files                                           *)

Adoptions(p) == {Move("adopt", p.root \o rel, <<>>, p.dest \o rel) : rel \in ToSet(p.files)}
Renamings(p) ==
  {Move("rename", p.root \o p.renamed[i].to, p.dest \o p.renamed[i].from, p.dest \o p.renamed[i].to) :
     i \in DOMAIN p.renamed}
Removals(p) == {Move("remove", <<>>, p.dest \o rel, <<>>) : rel \in ToSet(p.removed)}

LEMMA MovesAre ==
  ASSUME NEW p, NEW T, p.files \in Seq(T), p.renamed \in Seq(T), p.removed \in Seq(T)
  PROVE  /\ ToSet(Moves(p)) = Adoptions(p) \cup Renamings(p) \cup Removals(p)
         /\ DOMAIN Moves(p) = 1..Len(Moves(p)) /\ Len(Moves(p)) \in Nat
         /\ Len(p.files) \in Nat /\ Len(p.files) <= Len(Moves(p))
<1> DEFINE adopt(i) == Move("adopt", p.root \o p.files[i], <<>>, p.dest \o p.files[i])
           rename(i) == Move("rename", p.root \o p.renamed[i].to, p.dest \o p.renamed[i].from,
                             p.dest \o p.renamed[i].to)
           remove(i) == Move("remove", <<>>, p.dest \o p.removed[i], <<>>)
           a == [i \in DOMAIN p.files |-> adopt(i)]
           b == [i \in DOMAIN p.renamed |-> rename(i)]
           c == [i \in DOMAIN p.removed |-> remove(i)]
           all == Adoptions(p) \cup Renamings(p) \cup Removals(p)
<1>1. Moves(p) = (a \o b) \o c
  BY Zenon DEF Moves
<1>2. /\ DOMAIN p.files = 1..Len(p.files) /\ Len(p.files) \in Nat
      /\ DOMAIN p.renamed = 1..Len(p.renamed) /\ Len(p.renamed) \in Nat
      /\ DOMAIN p.removed = 1..Len(p.removed) /\ Len(p.removed) \in Nat
  BY LenProperties
<1>3. /\ Adoptions(p) = {adopt(i) : i \in 1..Len(p.files)}
      /\ Renamings(p) = {rename(i) : i \in 1..Len(p.renamed)}
      /\ Removals(p) = {remove(i) : i \in 1..Len(p.removed)}
  <2>1. Adoptions(p) = {adopt(i) : i \in 1..Len(p.files)}
    BY <1>2 DEF Adoptions, ToSet
  <2>2. Renamings(p) = {rename(i) : i \in 1..Len(p.renamed)}
    BY <1>2, Zenon DEF Renamings
  <2>3. Removals(p) = {remove(i) : i \in 1..Len(p.removed)}
    BY <1>2 DEF Removals, ToSet
  <2> QED BY <2>1, <2>2, <2>3
<1> HIDE DEF adopt, rename, remove, all
<1>4. /\ \A i \in 1..Len(p.files) : adopt(i) \in all
      /\ \A i \in 1..Len(p.renamed) : rename(i) \in all
      /\ \A i \in 1..Len(p.removed) : remove(i) \in all
  BY <1>3 DEF all
<1>5. a \in Seq(all) /\ b \in Seq(all) /\ c \in Seq(all)
  <2>1. [i \in 1..Len(p.files) |-> adopt(i)] \in Seq(all)
    BY <1>2, <1>4, IsASeq
  <2>2. [i \in 1..Len(p.renamed) |-> rename(i)] \in Seq(all)
    BY <1>2, <1>4, IsASeq
  <2>3. [i \in 1..Len(p.removed) |-> remove(i)] \in Seq(all)
    BY <1>2, <1>4, IsASeq
  <2> QED BY <1>2, <2>1, <2>2, <2>3
<1>6. ToSet(a) = Adoptions(p) /\ ToSet(b) = Renamings(p) /\ ToSet(c) = Removals(p)
  BY <1>2, <1>3 DEF ToSet
<1>7. Len(a) = Len(p.files)
  <2>1. DOMAIN a = 1..Len(p.files)
    BY <1>2
  <2> HIDE DEF a
  <2> QED BY <1>2, <1>5, <2>1, LenProperties
<1> HIDE DEF a, b, c
<1>8. a \o b \in Seq(all) /\ Len(a \o b) = Len(a) + Len(b) /\ ToSet(a \o b) = ToSet(a) \cup ToSet(b)
  BY <1>5, ConcatIs, ToSetConcat
<1>9. /\ (a \o b) \o c \in Seq(all) /\ Len((a \o b) \o c) = Len(a \o b) + Len(c)
      /\ ToSet((a \o b) \o c) = ToSet(a \o b) \cup ToSet(c)
  <2> DEFINE ab == a \o b
  <2>1. ab \in Seq(all)
    BY <1>8
  <2> HIDE DEF ab
  <2>2. /\ ab \o c \in Seq(all) /\ Len(ab \o c) = Len(ab) + Len(c)
        /\ ToSet(ab \o c) = ToSet(ab) \cup ToSet(c)
    BY <1>5, <2>1, ConcatIs, ToSetConcat
  <2> QED BY <2>2 DEF ab
<1>10. Len(b) \in Nat /\ Len(c) \in Nat
  BY <1>5, LenProperties
<1>11. DOMAIN Moves(p) = 1..Len(Moves(p)) /\ Len(Moves(p)) \in Nat
  BY <1>1, <1>9, LenProperties
<1>12. Len(p.files) <= Len(Moves(p))
  BY <1>1, <1>2, <1>7, <1>8, <1>9, <1>10
<1> QED BY <1>1, <1>2, <1>6, <1>8, <1>9, <1>11, <1>12

LEMMA MoveIs ==
  ASSUME NEW kind, NEW at, NEW from, NEW to
  PROVE  LET m == Move(kind, at, from, to) IN
           m.kind = kind /\ m.at = at /\ m.from = from /\ m.to = to
BY DEF Move

\* What is linked, and to what.
LEMMA AdoptionsAre ==
  ASSUME NEW p
  PROVE  /\ \A m \in Adoptions(p) :
              /\ m.kind = "adopt"
              /\ \E rel \in ToSet(p.files) : m.at = p.root \o rel /\ m.to = p.dest \o rel
         /\ \A rel \in ToSet(p.files) :
              \E m \in Adoptions(p) : m.at = p.root \o rel /\ m.to = p.dest \o rel
<1> DEFINE at(rel) == p.root \o rel
           to(rel) == p.dest \o rel
           move(rel) == Move("adopt", at(rel), <<>>, to(rel))
<1>1. Adoptions(p) = {move(rel) : rel \in ToSet(p.files)}
  BY Zenon DEF Adoptions
<1> HIDE DEF at, to
<1>2. \A rel : move(rel).kind = "adopt" /\ move(rel).at = at(rel) /\ move(rel).to = to(rel)
  BY MoveIs
<1> HIDE DEF move
<1>3. \A m \in Adoptions(p) : m.kind = "adopt" /\ \E rel \in ToSet(p.files) : m.at = at(rel) /\ m.to = to(rel)
  BY <1>1, <1>2
<1>4. \A rel \in ToSet(p.files) : \E m \in Adoptions(p) : m.at = at(rel) /\ m.to = to(rel)
  BY <1>1, <1>2
<1> QED BY <1>3, <1>4 DEF at, to

LEMMA RenamingsAre ==
  ASSUME NEW p
  PROVE  /\ \A m \in Renamings(p) :
              /\ m.kind = "rename"
              /\ \E i \in DOMAIN p.renamed :
                   /\ m.at = p.root \o p.renamed[i].to /\ m.to = p.dest \o p.renamed[i].to
                   /\ m.from = p.dest \o p.renamed[i].from
         /\ \A i \in DOMAIN p.renamed :
              \E m \in Renamings(p) :
                   /\ m.at = p.root \o p.renamed[i].to /\ m.to = p.dest \o p.renamed[i].to
                   /\ m.from = p.dest \o p.renamed[i].from
<1> DEFINE at(i) == p.root \o p.renamed[i].to
           from(i) == p.dest \o p.renamed[i].from
           to(i) == p.dest \o p.renamed[i].to
           move(i) == Move("rename", at(i), from(i), to(i))
<1>1. Renamings(p) = {move(i) : i \in DOMAIN p.renamed}
  BY Zenon DEF Renamings
<1> HIDE DEF at, from, to
<1>2. \A i : /\ move(i).kind = "rename" /\ move(i).at = at(i)
             /\ move(i).from = from(i) /\ move(i).to = to(i)
  BY MoveIs
<1> HIDE DEF move
<1>3. \A m \in Renamings(p) :
        m.kind = "rename" /\ \E i \in DOMAIN p.renamed : m.at = at(i) /\ m.to = to(i) /\ m.from = from(i)
  BY <1>1, <1>2
<1>4. \A i \in DOMAIN p.renamed :
        \E m \in Renamings(p) : m.at = at(i) /\ m.to = to(i) /\ m.from = from(i)
  BY <1>1, <1>2
<1> QED BY <1>3, <1>4 DEF at, from, to

LEMMA RemovalsAre ==
  ASSUME NEW p
  PROVE  /\ \A m \in Removals(p) :
              m.kind = "remove" /\ \E rel \in ToSet(p.removed) : m.from = p.dest \o rel
         /\ \A rel \in ToSet(p.removed) : \E m \in Removals(p) : m.from = p.dest \o rel
<1> DEFINE from(rel) == p.dest \o rel
           move(rel) == Move("remove", <<>>, from(rel), <<>>)
<1>1. Removals(p) = {move(rel) : rel \in ToSet(p.removed)}
  BY Zenon DEF Removals
<1> HIDE DEF from
<1>2. \A rel : move(rel).kind = "remove" /\ move(rel).from = from(rel)
  BY MoveIs
<1> HIDE DEF move
<1>3. \A m \in Removals(p) : m.kind = "remove" /\ \E rel \in ToSet(p.removed) : m.from = from(rel)
  BY <1>1, <1>2
<1>4. \A rel \in ToSet(p.removed) : \E m \in Removals(p) : m.from = from(rel)
  BY <1>1, <1>2
<1> QED BY <1>3, <1>4 DEF from

LEMMA TakenIs ==
  ASSUME NEW p
  PROVE  Taken(p) = ToSet(p.files) \cup {p.renamed[i].to : i \in DOMAIN p.renamed}
BY DEF Taken, ToSet, Tos

LEMMA LinksAre ==
  ASSUME NEW p
  PROVE  /\ \A m \in Adoptions(p) \cup Renamings(p) :
              /\ m.kind # "remove"
              /\ \E rel \in Taken(p) : m.at = p.root \o rel /\ m.to = p.dest \o rel
         /\ \A rel \in Taken(p) :
              \E m \in Adoptions(p) \cup Renamings(p) : m.at = p.root \o rel /\ m.to = p.dest \o rel
<1>1. ASSUME NEW m \in Adoptions(p) \cup Renamings(p)
      PROVE  m.kind # "remove" /\ \E rel \in Taken(p) : m.at = p.root \o rel /\ m.to = p.dest \o rel
  <2>1. CASE m \in Adoptions(p)
    BY <2>1, AdoptionsAre DEF Taken
  <2>2. CASE m \in Renamings(p)
    <3>1. PICK i \in DOMAIN p.renamed : m.at = p.root \o p.renamed[i].to /\ m.to = p.dest \o p.renamed[i].to
      BY <2>2, RenamingsAre
    <3>2. p.renamed[i].to \in Taken(p) /\ m.kind = "rename"
      BY <2>2, RenamingsAre, TakenIs
    <3> QED BY <3>1, <3>2
  <2> QED BY <2>1, <2>2
<1>2. ASSUME NEW rel \in Taken(p)
      PROVE  \E m \in Adoptions(p) \cup Renamings(p) : m.at = p.root \o rel /\ m.to = p.dest \o rel
  <2>1. CASE rel \in ToSet(p.files)
    BY <2>1, AdoptionsAre
  <2>2. CASE \E i \in DOMAIN p.renamed : rel = p.renamed[i].to
    <3>1. PICK i \in DOMAIN p.renamed : rel = p.renamed[i].to
      BY <2>2
    <3>2. PICK m \in Renamings(p) : m.at = p.root \o p.renamed[i].to /\ m.to = p.dest \o p.renamed[i].to
      BY RenamingsAre
    <3>3. m.at = p.root \o rel /\ m.to = p.dest \o rel
      BY <3>1, <3>2
    <3> QED BY <3>3
  <2> QED BY <2>1, <2>2, TakenIs
<1> QED BY <1>1, <1>2

\* What is taken away.
LEMMA TakenAway ==
  ASSUME NEW p, ToSet(p.dropped) = ToSet(p.removed) \cup Froms(p.renamed)
  PROVE  /\ \A m \in Adoptions(p) : m.kind = "adopt"
         /\ \A m \in Renamings(p) \cup Removals(p) :
              m.kind # "adopt" /\ \E g \in ToSet(p.dropped) : m.from = p.dest \o g
         /\ \A g \in ToSet(p.dropped) :
              \E m \in Renamings(p) \cup Removals(p) : m.from = p.dest \o g
<1>1. \A i \in DOMAIN p.renamed : p.renamed[i].from \in ToSet(p.dropped)
  BY DEF Froms
<1>2. ASSUME NEW m \in Renamings(p) \cup Removals(p)
      PROVE  m.kind # "adopt" /\ \E g \in ToSet(p.dropped) : m.from = p.dest \o g
  <2>1. CASE m \in Renamings(p)
    <3>1. PICK i \in DOMAIN p.renamed : m.from = p.dest \o p.renamed[i].from
      BY <2>1, RenamingsAre
    <3>2. m.kind = "rename"
      BY <2>1, RenamingsAre
    <3> QED BY <1>1, <3>1, <3>2
  <2>2. CASE m \in Removals(p)
    BY <2>2, RemovalsAre
  <2> QED BY <2>1, <2>2
<1>3. ASSUME NEW g \in ToSet(p.dropped)
      PROVE  \E m \in Renamings(p) \cup Removals(p) : m.from = p.dest \o g
  <2>1. CASE g \in ToSet(p.removed)
    BY <2>1, RemovalsAre
  <2>2. CASE g \in Froms(p.renamed)
    <3>1. PICK i \in DOMAIN p.renamed : g = p.renamed[i].from
      BY <2>2 DEF Froms
    <3> QED BY <3>1, RenamingsAre, ZenonT(40)
  <2> QED BY <2>1, <2>2
<1> QED BY <1>2, <1>3, AdoptionsAre

LEMMA ListsTyped ==
  ASSUME NEW d, NEW p, Lists(d, p)
  PROVE  /\ Taken(p) \subseteq PathNames /\ ToSet(p.dropped) \subseteq PathNames
         /\ p.root \in PathNames /\ p.dest \in PathNames
         /\ ToSet(Moves(p)) = Adoptions(p) \cup Renamings(p) \cup Removals(p)
         /\ DOMAIN Moves(p) = 1..Len(Moves(p)) /\ Len(Moves(p)) \in Nat
         /\ Len(p.files) <= Len(Moves(p)) /\ Len(p.files) \in Nat
<1> DEFINE R == [from : PathNames, to : PathNames]
<1>1. /\ p.files \in Seq(PathNames) /\ p.removed \in Seq(PathNames) /\ p.renamed \in Seq(R)
      /\ p.root \in PathNames /\ p.dest \in PathNames
      /\ ToSet(p.dropped) = ToSet(p.removed) \cup Froms(p.renamed)
  BY DEF Lists, Arrays
<1>2. \A m \in R : m.to \in PathNames /\ m.from \in PathNames
  OBVIOUS
<1> HIDE DEF R
<1>3. ToSet(p.files) \subseteq PathNames /\ ToSet(p.removed) \subseteq PathNames
  BY <1>1 DEF ToSet
<1>4. \A i \in DOMAIN p.renamed : p.renamed[i].to \in PathNames /\ p.renamed[i].from \in PathNames
  <2>1. \A i \in DOMAIN p.renamed : p.renamed[i] \in R
    BY <1>1
  <2> QED BY <1>2, <2>1
<1>5. Taken(p) \subseteq PathNames
  BY <1>3, <1>4, TakenIs
<1>6. ToSet(p.dropped) \subseteq PathNames
  BY <1>1, <1>3, <1>4 DEF Froms
<1>7. \E T : p.files \in Seq(T) /\ p.renamed \in Seq(T) /\ p.removed \in Seq(T)
  <2>1. Seq(PathNames) \subseteq Seq(PathNames \cup R) /\ Seq(R) \subseteq Seq(PathNames \cup R)
    OBVIOUS
  <2> QED BY <1>1, <2>1
<1>8. /\ ToSet(Moves(p)) = Adoptions(p) \cup Renamings(p) \cup Removals(p)
      /\ DOMAIN Moves(p) = 1..Len(Moves(p)) /\ Len(Moves(p)) \in Nat
      /\ Len(p.files) <= Len(Moves(p)) /\ Len(p.files) \in Nat
  BY <1>7, MovesAre
<1> QED BY <1>1, <1>5, <1>6, <1>8

LEMMA AfterIs ==
  ASSUME NEW d, NEW p, Lists(d, p), home \in [Paths -> Places], NEW n \in 0..Len(Moves(p))
  PROVE  LET s == AfterMoves(p, n) IN
           /\ s.home \in [Paths -> Places]
           /\ \A q \in Paths : \/ s.home[q] = home[q]
                               \/ \E rel \in Taken(p) :
                                    q = Below(p.root, rel) /\ s.home[q] = Link(Below(p.dest, rel))
           /\ \A t \in repo \ s.repo : \E g \in ToSet(p.dropped) : t = Below(p.dest, g)
<1> DEFINE made == IF n < Len(p.files) THEN {} ELSE {Moves(p)[i] : i \in 1..n}
           links == {m \in made : m.kind # "remove"}
           gone == {m.from : m \in {m \in made : m.kind # "adopt"}}
           s == AfterMoves(p, n)
<1>1. /\ s.home = [q \in Paths |-> IF \E m \in links : m.at = q
                                   THEN Link((CHOOSE m \in links : m.at = q).to) ELSE home[q]]
      /\ s.repo = (repo \ gone) \cup {m.to : m \in links}
  BY Zenon DEF AfterMoves
<1>2. /\ ToSet(Moves(p)) = Adoptions(p) \cup Renamings(p) \cup Removals(p)
      /\ DOMAIN Moves(p) = 1..Len(Moves(p)) /\ Len(Moves(p)) \in Nat
  BY ListsTyped
<1>3. made \subseteq Adoptions(p) \cup Renamings(p) \cup Removals(p)
  BY <1>2 DEF ToSet
<1> HIDE DEF made
<1>4. \A m \in Removals(p) : m.kind = "remove"
  BY DEF Removals, Move
<1>5. links \subseteq Adoptions(p) \cup Renamings(p)
  BY <1>3, <1>4
<1> HIDE DEF links
<1>6. ASSUME NEW q \in Paths
      PROVE  \/ s.home[q] = home[q]
             \/ \E rel \in Taken(p) : q = p.root \o rel /\ s.home[q] = Link(p.dest \o rel)
  <2>1. CASE \E m \in links : m.at = q
    <3> DEFINE m == CHOOSE m \in links : m.at = q
    <3>1. m \in links /\ m.at = q
      BY <2>1
    <3>2. s.home[q] = Link(m.to)
      BY <1>1, <2>1
    <3> HIDE DEF m
    <3>3. PICK rel \in Taken(p) : m.at = p.root \o rel /\ m.to = p.dest \o rel
      BY <1>5, <3>1, LinksAre
    <3> QED BY <3>1, <3>2, <3>3
  <2>2. CASE ~\E m \in links : m.at = q
    BY <1>1, <2>2
  <2> QED BY <2>1, <2>2
<1>7. \A rel \in Taken(p) : Link(p.dest \o rel) \in Places
  <2>1. Taken(p) \subseteq PathNames /\ p.dest \in PathNames
    BY ListsTyped
  <2>2. \A rel \in PathNames : p.dest \o rel \in PathNames
    BY <2>1, ConcatIs DEF PathNames
  <2> QED BY <2>1, <2>2 DEF Link, Places
<1>8. s.home \in [Paths -> Places]
  <2>1. \A q \in Paths : s.home[q] \in Places
    BY <1>6, <1>7
  <2>2. s.home = [q \in Paths |-> s.home[q]]
    BY <1>1
  <2> QED BY <2>1, <2>2
<1>9. ASSUME NEW t \in repo \ s.repo PROVE \E g \in ToSet(p.dropped) : t = p.dest \o g
  <2>1. t \in gone
    BY <1>1
  <2>2. PICK m \in made : m.kind # "adopt" /\ m.from = t
    BY <2>1
  <2>3. ToSet(p.dropped) = ToSet(p.removed) \cup Froms(p.renamed)
    BY DEF Lists
  <2> QED BY <1>3, <2>2, <2>3, TakenAway
<1> HIDE DEF s
<1> QED BY <1>6, <1>8, <1>9 DEF s, Below

\* The files are in place when all of it is done.
LEMMA AfterAll ==
  ASSUME NEW d, NEW p, Lists(d, p)
  PROVE  LET s == AfterMoves(p, Len(Moves(p))) IN
           /\ \A rel \in Taken(p) :
                /\ p.root \o rel \in Paths => s.home[p.root \o rel] = Link(p.dest \o rel)
                /\ p.dest \o rel \in s.repo
           /\ \A g \in ToSet(p.dropped) : p.dest \o g \notin s.repo
<1> DEFINE n == Len(Moves(p))
           made == IF n < Len(p.files) THEN {} ELSE {Moves(p)[i] : i \in 1..n}
           links == {m \in made : m.kind # "remove"}
           gone == {m.from : m \in {m \in made : m.kind # "adopt"}}
           s == AfterMoves(p, n)
<1>1. /\ s.home = [q \in Paths |-> IF \E m \in links : m.at = q
                                   THEN Link((CHOOSE m \in links : m.at = q).to) ELSE home[q]]
      /\ s.repo = (repo \ gone) \cup {m.to : m \in links}
  BY Zenon DEF AfterMoves
<1>2. made = Adoptions(p) \cup Renamings(p) \cup Removals(p)
  <2>1. ~(n < Len(p.files))
    BY ListsTyped
  <2>2. {Moves(p)[i] : i \in 1..n} = ToSet(Moves(p))
    BY ListsTyped DEF ToSet
  <2>3. ToSet(Moves(p)) = Adoptions(p) \cup Renamings(p) \cup Removals(p)
    BY ListsTyped
  <2> QED BY <2>1, <2>2, <2>3
<1>3. ToSet(p.dropped) = ToSet(p.removed) \cup Froms(p.renamed) /\ Taken(p) \cap ToSet(p.dropped) = {}
  BY DEF Lists
<1> HIDE DEF made
<1>4. links = Adoptions(p) \cup Renamings(p)
  BY <1>2, LinksAre, RemovalsAre
<1>5. gone = {m.from : m \in Renamings(p) \cup Removals(p)}
  <2>1. {m \in made : m.kind # "adopt"} = Renamings(p) \cup Removals(p)
    BY <1>2, <1>3, TakenAway
  <2> QED BY <2>1
<1> HIDE DEF links, gone, n
<1>6. \A rel, g \in PathNames : p.root \o rel = p.root \o g \/ p.dest \o rel = p.dest \o g => rel = g
  BY ListsTyped, CancelLeft DEF PathNames
<1>7. ASSUME NEW rel \in Taken(p)
      PROVE  /\ p.root \o rel \in Paths => s.home[p.root \o rel] = Link(p.dest \o rel)
             /\ p.dest \o rel \in s.repo
  <2>1. PICK m \in links : m.at = p.root \o rel /\ m.to = p.dest \o rel
    BY <1>4, LinksAre
  <2>2. ASSUME p.root \o rel \in Paths PROVE s.home[p.root \o rel] = Link(p.dest \o rel)
    <3> DEFINE q == p.root \o rel
               c == CHOOSE c \in links : c.at = q
    <3>1. c \in links /\ c.at = q
      BY <2>1
    <3>2. s.home[q] = Link(c.to)
      BY <1>1, <2>1, <2>2
    <3> HIDE DEF c
    <3>3. PICK other \in Taken(p) : c.at = p.root \o other /\ c.to = p.dest \o other
      BY <1>4, <3>1, LinksAre
    <3>4. other = rel
      BY <1>6, <3>1, <3>3, ListsTyped
    <3> QED BY <3>2, <3>3, <3>4
  <2>3. p.dest \o rel \in s.repo
    <3>1. p.dest \o rel \in {c.to : c \in links}
      BY <2>1
    <3> QED BY <1>1, <3>1
  <2> HIDE DEF s
  <2> QED BY <2>2, <2>3
<1>8. ASSUME NEW g \in ToSet(p.dropped) PROVE p.dest \o g \notin s.repo
  <2>1. p.dest \o g \in gone
    <3>1. PICK m \in Renamings(p) \cup Removals(p) : m.from = p.dest \o g
      BY <1>3, TakenAway
    <3> QED BY <1>5, <3>1
  <2>2. ASSUME NEW m \in links, m.to = p.dest \o g PROVE FALSE
    <3>1. PICK rel \in Taken(p) : m.to = p.dest \o rel
      BY <1>4, LinksAre
    <3>2. rel = g
      BY <1>6, <2>2, <3>1, ListsTyped
    <3> QED BY <1>3, <3>2
  <2> QED BY <1>1, <2>1, <2>2
<1> HIDE DEF s
<1> QED BY <1>7, <1>8 DEF s, n
-----------------------------------------------------------------------------
(* What a plan knows of the home directory                                 *)

\* What the walk meets is there.
LEMMA WalkedMeets ==
  ASSUME NEW root \in PathNames, NEW kind, NEW rel \in ToSet(Walked(root, kind))
  PROVE  rel \in PathNames /\ root \o rel \in Paths /\ home[root \o rel].kind = kind
<1> DEFINE Met(p) ==
             /\ IsStrictPrefix(root, p) /\ home[p].kind = kind
             /\ \A i \in (Len(root) + 1)..(Len(p) - 1) : p[i] \notin Vcs
           piece(i) == IF Met(Order[i]) THEN <<Rel(root, Order[i])>> ELSE <<>>
           There == {r \in PathNames : root \o r \in Paths /\ home[root \o r].kind = kind}
<1>1. Walked(root, kind) = FlattenSeq([i \in DOMAIN Order |-> piece(i)])
  BY Zenon DEF Walked
<1>2. /\ DOMAIN Order = 1..Len(Order) /\ Len(Order) \in Nat
      /\ \A i \in 1..Len(Order) : Order[i] \in PathNames /\ Order[i] \in Paths
  <2>1. DOMAIN Order = 1..Len(Order) /\ Len(Order) \in Nat /\ \A i \in 1..Len(Order) : Order[i] \in PathNames
    BY OrderTyped, LenProperties
  <2> QED BY <2>1 DEF Paths, ToSet
<1>3. \A p : Met(p) => IsPrefix(root, p) /\ home[p].kind = kind
  BY DEF IsStrictPrefix
<1> HIDE DEF Met
<1>4. \A i \in 1..Len(Order) : piece(i) \in Seq(There)
  <2> TAKE i \in 1..Len(Order)
  <2>1. CASE Met(Order[i])
    <3>1. root \o Rel(root, Order[i]) = Order[i]
      BY <1>2, <1>3, <2>1, RelBack
    <3>2. Rel(root, Order[i]) \in There
      BY <1>2, <1>3, <2>1, <3>1, RelTyped
    <3> HIDE DEF There
    <3> QED BY <2>1, <3>2, Single
  <2>2. CASE ~Met(Order[i])
    BY <2>2
  <2> QED BY <2>1, <2>2
<1> HIDE DEF piece
<1>5. [i \in DOMAIN Order |-> piece(i)] \in Seq(Seq(There))
  <2> HIDE DEF There
  <2> QED BY <1>2, <1>4, IsASeq
<1>6. Walked(root, kind) \in Seq(There)
  <2> HIDE DEF There
  <2> QED BY <1>1, <1>5, FlattenTyped
<1>7. rel \in There
  <2> HIDE DEF There
  <2> QED BY <1>6 DEF ToSet
<1> QED BY <1>7

\* The link that a move found, to where the path that was listed belongs.
Leads(slot, move) ==
  home \in [Paths -> Places] /\ PlanIn(slot).dest \in PathNames =>
    /\ SlotRoot(slot) \o move.to \in Paths
    /\ home[SlotRoot(slot) \o move.to] = Link(PlanIn(slot).dest \o move.from)

LEMMA RenamesAre ==
  ASSUME NEW slot, SlotRoot(slot) \in PathNames
  PROVE  LET listed == ToSet(slot.entry.symlinks)
         IN  Renames(slot) \in Seq({m \in [from : listed, to : PathNames \ listed] : Leads(slot, m)})
<1> DEFINE p == PlanIn(slot)
           links == Walked(p.root, "link")
           listed == ToSet(p.existing)
           Target(i) == At(p.root, links[i]).to
           From(i) == Rel(p.dest, Target(i))
           Moved(i) ==
             /\ IsPrefix(p.dest, Target(i)) /\ From(i) # links[i]
             /\ links[i] \notin listed /\ From(i) \in listed
           First(i) == \A j \in 1..(i - 1) : ~(Moved(j) /\ From(j) = From(i))
           piece(i) == IF Moved(i) /\ First(i) THEN <<[from |-> From(i), to |-> links[i]]>> ELSE <<>>
<1>1. p.root = SlotRoot(slot) /\ p.existing = slot.entry.symlinks
  BY DEF PlanIn, NoPlan
<1>2. Renames(slot) = FlattenSeq([i \in DOMAIN links |-> piece(i)])
  BY Zenon DEF Renames
<1>3. links \in Seq(PathNames)
  BY <1>1, WalkedTyped DEF Arrays
<1>4. \A i \in DOMAIN links : Moved(i) =>
        IsPrefix(p.dest, Target(i)) /\ From(i) \in listed /\ links[i] \notin listed
  OBVIOUS
<1>5. DOMAIN links = 1..Len(links) /\ Len(links) \in Nat
      /\ \A i \in 1..Len(links) : links[i] \in PathNames /\ links[i] \in ToSet(links)
  <2> HIDE DEF links
  <2>1. DOMAIN links = 1..Len(links) /\ Len(links) \in Nat /\ \A i \in 1..Len(links) : links[i] \in PathNames
    BY <1>3, LenProperties
  <2> QED BY <2>1 DEF ToSet
<1>6. ASSUME home \in [Paths -> Places], p.dest \in PathNames,
             NEW i \in 1..Len(links), IsPrefix(p.dest, Target(i))
      PROVE  p.root \o links[i] \in Paths /\ home[p.root \o links[i]] = Link(p.dest \o From(i))
  <2>1. p.root \o links[i] \in Paths /\ home[p.root \o links[i]].kind = "link"
    BY <1>1, <1>5, WalkedMeets
  <2>2. Target(i) = home[p.root \o links[i]].to
    BY <2>1 DEF At
  <2>3. home[p.root \o links[i]] = Link(Target(i)) /\ Target(i) \in PathNames
    <3> DEFINE h == home[p.root \o links[i]]
    <3>1. h \in Places /\ h.kind = "link" /\ h.to = Target(i)
      BY <1>6, <2>1, <2>2
    <3> HIDE DEF h, Target
    <3>2. h = Link(Target(i)) /\ Target(i) \in PathNames
      BY <3>1 DEF Places, Link
    <3> QED BY <3>2 DEF h
  <2>4. p.dest \o From(i) = Target(i)
    <3> HIDE DEF Target
    <3> QED BY <1>6, <2>3, RelBack
  <2> HIDE DEF Target, From
  <2> QED BY <2>1, <2>3, <2>4
<1> HIDE DEF Target, From, Moved, First, links, listed
<1> DEFINE moves == [from : listed, to : PathNames \ listed]
           good == {m \in moves : Leads(slot, m)}
<1>7. \A i \in 1..Len(links) : piece(i) \in Seq(good)
  <2> TAKE i \in 1..Len(links)
  <2>1. CASE Moved(i) /\ First(i)
    <3> DEFINE move == [from |-> From(i), to |-> links[i]]
    <3>1. move \in moves /\ move.from = From(i) /\ move.to = links[i]
      BY <1>4, <1>5, <2>1
    <3>2. Leads(slot, move)
      <4> HIDE DEF p, move
      <4> QED BY <1>1, <1>4, <1>5, <1>6, <2>1, <3>1 DEF Leads, p
    <3>3. move \in good
      BY <3>1, <3>2
    <3> HIDE DEF move, good
    <3>4. <<move>> \in Seq(good)
      BY <3>3, Single
    <3> QED BY <2>1, <3>4 DEF move
  <2>2. CASE ~(Moved(i) /\ First(i))
    BY <2>2
  <2> QED BY <2>1, <2>2
<1> HIDE DEF piece, good
<1>8. [i \in DOMAIN links |-> piece(i)] \in Seq(Seq(good))
  BY <1>5, <1>7, IsASeq
<1>9. Renames(slot) \in Seq(good)
  BY <1>2, <1>8, FlattenTyped
<1> HIDE DEF p
<1> QED BY <1>1, <1>9 DEF good, moves, listed

\* A directory is the root of its entry; a file is below the root of its one.
LEMMA RootOfNew ==
  ASSUME NEW tail \in PathNames, InConfig(tail) => (Len(tail) = 2) = IsDir(tail)
  PROVE  IF IsDir(tail) THEN NewRoot(tail) = tail ELSE IsPrefix(NewRoot(tail), tail)
<1> DEFINE two == SubSeq(tail, 1, 2)
<1>1. CASE InConfig(tail)
  <2>1. Len(tail) >= 2 /\ NewRoot(tail) = two /\ Len(tail) \in Nat
    BY <1>1 DEF InConfig, NewRoot, PathNames
  <2>2. /\ two \in PathNames /\ Len(two) = 2 /\ SubSeq(two, 1, Len(two)) = two
        /\ \A i \in 1..2 : two[i] = tail[i]
    <3>1. \A i \in 1..2 : tail[i] \in Words
      BY <2>1 DEF PathNames
    <3>2. \A i \in 1..2 : two[i] = tail[i]
      BY <3>1, SubSeqProperties
    <3> QED BY <2>1, <3>2, FirstTwo DEF PathNames
  <2> HIDE DEF two
  <2>3. CASE IsDir(tail)
    <3>1. Len(tail) = 2
      BY <1>1, <2>3
    <3>2. two = tail
      BY <2>2, <3>1, SameSeq DEF PathNames
    <3> QED BY <2>1, <2>3, <3>2
  <2>4. CASE ~IsDir(tail)
    <3>1. IsPrefix(two, tail)
      BY <2>1, <2>2 DEF IsPrefix, two
    <3> QED BY <2>1, <2>4, <3>1
  <2> QED BY <2>3, <2>4
<1>2. CASE ~InConfig(tail)
  <2>1. CASE IsDir(tail)
    BY <1>2, <2>1 DEF NewRoot
  <2>2. CASE ~IsDir(tail)
    <3>1. NewRoot(tail) = <<>>
      BY <1>2, <2>2 DEF NewRoot
    <3>2. IsPrefix(<<>>, tail)
      <4>1. Len(<<>>) = 0 /\ Len(tail) \in Nat
        BY DEF PathNames
      <4> DEFINE none == <<>>
      <4>2. none \in Seq(Words) /\ tail \in Seq(Words) /\ Len(none) <= Len(tail)
        BY <4>1 DEF PathNames
      <4>3. none \o tail = tail \o none
        BY DEF PathNames
      <4> HIDE DEF none
      <4>4. IsPrefix(none, tail)
        BY <4>2, <4>3, PrefixEither
      <4> QED BY <4>4 DEF none
    <3> QED BY <2>2, <3>1, <3>2
  <2> QED BY <2>1, <2>2
<1> QED BY <1>1, <1>2

LEMMA NewPlanIs ==
  ASSUME NEW d, NEW r
  PROVE  LET p == NewPlan(d, r) IN
           /\ p.mode = "new" /\ p.key = NewKey(r) /\ p.entry = NewEntry(r) /\ p.root = NewRoot(r.path)
           /\ p.dest = Normalized(NewSource(r)) /\ p.files = NewFiles(r.path)
           /\ p.renamed = <<>> /\ p.removed = <<>> /\ p.dropped = <<>>
           /\ p.created = ~BlockExists(d, NewKey(r))
           /\ p.entry.symlinks = NewFiles(r.path) /\ p.entry.source = NewSource(r)
BY DEF NewPlan, NoPlan, NewEntry

LEMMA NewMeets ==
  ASSUME NEW r \in Requests, InConfig(r.path) => (Len(r.path) = 2) = IsDir(r.path),
         ~SourceRefused(r), NEW rel \in ToSet(NewFiles(r.path))
  PROVE  NewRoot(r.path) \o rel \in Paths /\ home[NewRoot(r.path) \o rel].kind = "file"
<1> DEFINE tail == r.path
<1>1. tail \in PathNames
  BY RequestsTyped
<1>2. IF IsDir(tail) THEN NewRoot(tail) = tail ELSE IsPrefix(NewRoot(tail), tail)
  BY <1>1, RootOfNew
<1>3. CASE IsDir(tail)
  <2>1. rel \in ToSet(Walked(tail, "file"))
    BY <1>3 DEF NewFiles
  <2> QED BY <1>1, <1>2, <1>3, <2>1, WalkedMeets
<1>4. CASE ~IsDir(tail)
  <2>1. tail \in Paths /\ home[tail] = File
    BY <1>4 DEF SourceRefused
  <2>2. rel = Rel(NewRoot(tail), tail)
    BY <1>4 DEF NewFiles, ToSet
  <2>3. NewRoot(tail) \o rel = tail
    BY <1>1, <1>2, <1>4, <2>2, NewRootTyped, RelBack
  <2> QED BY <2>1, <2>3 DEF File
<1> QED BY <1>3, <1>4

LEMMA NewPlanSurveys ==
  ASSUME NEW d, DocOK(d), NEW r \in Requests, ~FlagsRefused(r), ~SourceRefused(r), ~NewRefused(d, r)
  PROVE  LET p == NewPlan(d, r) IN Lists(d, p) /\ Surveyed(p) /\ Vacant(p)
<1> DEFINE p == NewPlan(d, r)
<1>1. /\ p.mode = "new" /\ p.key = NewKey(r) /\ p.entry = NewEntry(r) /\ p.root = NewRoot(r.path)
      /\ p.dest = Normalized(NewSource(r)) /\ p.files = NewFiles(r.path)
      /\ p.renamed = <<>> /\ p.removed = <<>> /\ p.dropped = <<>>
      /\ p.created = ~BlockExists(d, NewKey(r))
      /\ p.entry.symlinks = NewFiles(r.path) /\ p.entry.source = NewSource(r)
  BY NewPlanIs
<1>2. /\ InConfig(r.path) \/ AtHome(r.path)
      /\ NewKey(r) \in Keys
      /\ InConfig(r.path) => (Len(r.path) = 2) = IsDir(r.path)
      /\ ~InRepo(p.dest, p.files)
  BY <1>1 DEF NewRefused
<1> HIDE DEF p
<1>3. r.path \in PathNames /\ r.source \in PathNames /\ NewKey(r) \in Words
  BY <1>2, RequestsTyped
<1>4. p.root \in PathNames /\ p.files \in Arrays
  BY <1>1, <1>3, NewRootTyped, NewFilesTyped
<1>5. NewSource(r) \in PathNames /\ IsSafe(NewSource(r))
  <2>1. CASE r.source = Default
    <3>1. NewSource(r) = <<"configs", NewKey(r)>>
      BY <2>1 DEF NewSource
    <3>2. <<"configs", NewKey(r)>> \in PathNames
      <4>1. "configs" \in Words
        BY DEF Words
      <4> QED BY <1>3, <4>1, Pair DEF PathNames
    <3>3. ToSet(<<"configs", NewKey(r)>>) \subseteq {"configs", NewKey(r)}
      BY DEF ToSet
    <3>4. NewKey(r) # ".." /\ NewKey(r) # "/"
      BY <1>2, KeysAreNames
    <3> QED BY <3>1, <3>2, <3>3, <3>4 DEF IsSafe
  <2>2. CASE r.source # Default
    BY <1>3, <2>2 DEF NewSource, FlagsRefused
  <2> QED BY <2>1, <2>2
<1>6. p.dest \in PathNames
  <2>1. Without(NewSource(r), {"."}) \in Seq(Words \ {"."})
    BY <1>5, WithoutTyped DEF PathNames
  <2> QED BY <1>1, <2>1 DEF Normalized, PathNames
<1>7. DirOf(p.key, p.entry) = p.root
  BY <1>1, <1>2, NewDir
<1>8. /\ ToSet(<<>>) = {} /\ Tos(<<>>) = <<>> /\ Froms(<<>>) = {}
      /\ <<>> \in Arrays /\ <<>> \in Seq([from : PathNames, to : PathNames])
  BY DEF ToSet, Tos, Froms, Arrays
<1>9. Lists(d, p)
  BY <1>1, <1>4, <1>5, <1>6, <1>7, <1>8 DEF Lists, Taken
<1>10. Surveyed(p)
  <2>1. \A rel \in ToSet(p.files) : p.root \o rel \in Paths /\ home[p.root \o rel].kind = "file"
    BY <1>1, <1>2, NewMeets
  <2>2. DOMAIN p.renamed = {} /\ ToSet(p.removed) = {}
    BY <1>1, <1>8
  <2> QED BY <2>1, <2>2 DEF Surveyed
<1>11. Vacant(p)
  BY <1>2 DEF Vacant, InRepo, ToSet
<1> QED BY <1>9, <1>10, <1>11 DEF p

LEMMA SlotPlace ==
  ASSUME NEW d, DocOK(d), NEW slot \in Slots(d)
  PROVE  LET p == PlanIn(slot)
             e == d.pkg[slot.key].entries[slot.index]
         IN  /\ p.root = SlotRoot(slot) /\ p.root = DirOf(slot.key, e) /\ p.root \in PathNames
             /\ p.dest = Normalized(e.source) /\ p.dest \in PathNames
             /\ slot.entry = e /\ e.symlinks \in Arrays
<1>1. /\ slot.key \in Keys /\ slot.index \in DOMAIN d.pkg[slot.key].entries
      /\ slot.entry = d.pkg[slot.key].entries[slot.index] /\ SlotRoot(slot) \in PathNames
  BY SlotFacts
<1>2. PlanIn(slot).root = SlotRoot(slot) /\ PlanIn(slot).dest = Normalized(slot.entry.source)
  BY DEF PlanIn, NoPlan
<1>3. SlotRoot(slot) = DirOf(slot.key, slot.entry)
  BY SameRoot DEF SlotRoot
<1> QED BY <1>1, <1>2, <1>3, EntryTyped

LEMMA ExtendPlanIs ==
  ASSUME NEW slot, NEW tail
  PROVE  LET p == ExtendPlan(slot, tail)
             rel == Rel(SlotRoot(slot), tail)
         IN  /\ p.mode = "extend" /\ p.key = slot.key /\ p.index = slot.index
             /\ p.root = PlanIn(slot).root /\ p.dest = PlanIn(slot).dest
             /\ p.existing = slot.entry.symlinks /\ p.files = <<rel>>
             /\ p.renamed = <<>> /\ p.removed = <<>> /\ p.dropped = <<>>
             /\ p.added = IF rel \in ToSet(slot.entry.symlinks) THEN <<>> ELSE <<rel>>
BY DEF ExtendPlan, PlanIn, NoPlan

LEMMA ExtendPlanSurveys ==
  ASSUME NEW d, DocOK(d), NEW r \in Requests, ~SourceRefused(r),
         NEW slot \in Nearest(d, r.path), ~ExtendRefused(slot, r.path)
  PROVE  LET p == ExtendPlan(slot, r.path) IN Lists(d, p) /\ Surveyed(p) /\ Vacant(p)
<1> DEFINE tail == r.path
           p == ExtendPlan(slot, tail)
           rel == Rel(SlotRoot(slot), tail)
           e == d.pkg[slot.key].entries[slot.index]
<1>1. slot \in Slots(d) /\ IsStrictPrefix(SlotRoot(slot), tail)
  BY DEF Nearest, Above
<1>2. tail \in PathNames
  BY RequestsTyped
<1>3. /\ p.root = SlotRoot(slot) /\ p.root = DirOf(slot.key, e) /\ p.root \in PathNames
      /\ p.dest = Normalized(e.source) /\ p.dest \in PathNames
      /\ slot.entry = e /\ e.symlinks \in Arrays
      /\ p.mode = "extend" /\ p.key = slot.key /\ p.index = slot.index
      /\ p.existing = slot.entry.symlinks /\ p.files = <<rel>>
      /\ p.renamed = <<>> /\ p.removed = <<>> /\ p.dropped = <<>>
      /\ p.added = IF rel \in ToSet(slot.entry.symlinks) THEN <<>> ELSE <<rel>>
  BY <1>1, SlotPlace, ExtendPlanIs
<1>4. rel \in PathNames
  BY <1>2, <1>3, RelTyped
<1>5. ~IsDir(tail) /\ tail \in Paths /\ home[tail] = File
  BY DEF ExtendRefused, SourceRefused
<1>6. p.root \o rel = tail
  BY <1>1, <1>2, <1>3, RelBack DEF IsStrictPrefix
<1>7. ~InRepo(p.dest, <<rel>>)
  BY ExtendPlanIs DEF ExtendRefused
<1>8. /\ ToSet(<<>>) = {} /\ Tos(<<>>) = <<>> /\ Froms(<<>>) = {}
      /\ <<>> \in Arrays /\ <<>> \in Seq([from : PathNames, to : PathNames])
  BY DEF ToSet, Tos, Froms, Arrays
<1> HIDE DEF p, rel, e, tail
<1>9. ToSet(<<rel>>) = {rel} /\ <<rel>> \in Arrays
  BY <1>4, Single DEF ToSet, Arrays
<1>10. Taken(p) = {rel}
  BY <1>3, <1>8, <1>9 DEF Taken
<1>11. rel \in ToSet(p.existing) \cup ToSet(p.added)
  BY <1>3, <1>9
<1>12. Lists(d, p)
  BY <1>3, <1>8, <1>9, <1>10, <1>11 DEF Lists, e
<1>13. Surveyed(p)
  <2>1. DOMAIN p.renamed = {} /\ ToSet(p.removed) = {} /\ ToSet(p.files) = {rel}
    BY <1>3, <1>8, <1>9
  <2>2. home[p.root \o rel].kind = "file"
    BY <1>5, <1>6 DEF File
  <2> QED BY <1>5, <1>6, <2>1, <2>2 DEF Surveyed
<1>14. Vacant(p)
  <2>1. 1 \in DOMAIN <<rel>> /\ <<rel>>[1] = rel
    OBVIOUS
  <2>2. p.dest \o rel \notin repo
    BY <1>7, <2>1, Zenon DEF InRepo
  <2> QED BY <1>3, <1>9, <2>2 DEF Vacant
<1> QED BY <1>12, <1>13, <1>14 DEF p, tail

LEMMA ReconcilePlanIs ==
  ASSUME NEW slot
  PROVE  LET p == ReconcilePlan(slot)
             listed == ToSet(slot.entry.symlinks)
             gone == Without(slot.entry.symlinks,
                             Froms(Renames(slot)) \cup {rel \in listed : At(SlotRoot(slot), rel) # None})
         IN  /\ p.mode = "reconcile" /\ p.key = slot.key /\ p.index = slot.index
             /\ p.root = PlanIn(slot).root /\ p.dest = PlanIn(slot).dest
             /\ p.existing = slot.entry.symlinks /\ p.files = NewBelow(slot)
             /\ p.renamed = Renames(slot) /\ p.removed = gone
             /\ p.dropped = gone \o [i \in DOMAIN Renames(slot) |-> Renames(slot)[i].from]
             /\ p.added = NewBelow(slot) \o Tos(Renames(slot))
BY DEF ReconcilePlan, PlanIn, NoPlan

LEMMA ReconcilePlanSurveys ==
  ASSUME NEW d, DocOK(d), NEW slot \in Slots(d), NEW tail, ~ReconcileRefused(slot, tail),
         home \in [Paths -> Places]
  PROVE  LET p == ReconcilePlan(slot) IN Lists(d, p) /\ Surveyed(p) /\ Vacant(p)
<1> DEFINE p == ReconcilePlan(slot)
           e == d.pkg[slot.key].entries[slot.index]
           array == slot.entry.symlinks
           listed == ToSet(array)
           there == {rel \in listed : At(SlotRoot(slot), rel) # None}
           gone == Without(array, Froms(Renames(slot)) \cup there)
           froms == [i \in DOMAIN Renames(slot) |-> Renames(slot)[i].from]
           moves == [from : listed, to : PathNames \ listed]
<1>1. /\ p.root = SlotRoot(slot) /\ p.root = DirOf(slot.key, e) /\ p.root \in PathNames
      /\ p.dest = Normalized(e.source) /\ p.dest \in PathNames
      /\ slot.entry = e /\ array \in Arrays /\ p.dest = PlanIn(slot).dest
      /\ p.mode = "reconcile" /\ p.key = slot.key /\ p.index = slot.index
      /\ p.existing = array /\ p.files = NewBelow(slot)
      /\ p.renamed = Renames(slot) /\ p.removed = gone
      /\ p.dropped = gone \o froms /\ p.added = NewBelow(slot) \o Tos(Renames(slot))
  BY SlotPlace, ReconcilePlanIs
<1> HIDE DEF p, e
<1>2. array \in Seq(listed) /\ listed \subseteq PathNames
  <2>1. array \in Seq(PathNames)
    BY <1>1 DEF Arrays
  <2> HIDE DEF array
  <2> QED BY <2>1 DEF ToSet
<1>3. \A m \in moves : m.from \in listed /\ m.to \in PathNames /\ m.to \notin listed
  OBVIOUS
<1>4. Renames(slot) \in Seq({m \in moves : Leads(slot, m)})
  BY <1>1, RenamesAre
<1> HIDE DEF array, listed, moves
<1>5. /\ DOMAIN p.renamed = 1..Len(p.renamed) /\ Len(p.renamed) \in Nat
      /\ \A i \in DOMAIN p.renamed :
           /\ p.renamed[i].from \in listed /\ p.renamed[i].to \in PathNames
           /\ p.renamed[i].to \notin listed /\ Leads(slot, p.renamed[i])
  <2> DEFINE good == {m \in moves : Leads(slot, m)}
  <2>1. \A m \in good : m \in moves /\ Leads(slot, m)
    OBVIOUS
  <2>2. p.renamed \in Seq(good)
    BY <1>1, <1>4
  <2> HIDE DEF good
  <2>3. /\ DOMAIN p.renamed = 1..Len(p.renamed) /\ Len(p.renamed) \in Nat
        /\ \A i \in DOMAIN p.renamed : p.renamed[i] \in good
    BY <2>2, LenProperties
  <2> QED BY <1>3, <2>1, <2>3
<1>6. p.renamed \in Seq([from : PathNames, to : PathNames])
  <2> DEFINE R == [from : PathNames, to : PathNames]
  <2>1. {m \in moves : Leads(slot, m)} \subseteq R
    BY <1>2 DEF moves
  <2> DEFINE good == {m \in moves : Leads(slot, m)}
  <2> HIDE DEF good, R
  <2>2. p.renamed \in Seq(good) /\ good \subseteq R
    BY <1>1, <1>4, <2>1 DEF good
  <2>3. p.renamed \in Seq(R)
    BY <2>2
  <2> QED BY <2>3 DEF R
<1>7. gone \in Seq(listed) /\ ToSet(gone) = listed \ (Froms(p.renamed) \cup there)
  <2>1. ToSet(gone) = listed \ (Froms(p.renamed) \cup there)
    <3> DEFINE S == Froms(Renames(slot)) \cup there
    <3> HIDE DEF S
    <3>1. ToSet(Without(array, S)) = ToSet(array) \ S
      BY <1>2, WithoutSet
    <3> QED BY <1>1, <3>1 DEF S, listed
  <2>2. Without(array, Froms(Renames(slot)) \cup there) \in Seq(listed \ (Froms(Renames(slot)) \cup there))
    BY <1>2, WithoutTyped
  <2>3. Seq(listed \ (Froms(Renames(slot)) \cup there)) \subseteq Seq(listed)
    OBVIOUS
  <2> QED BY <2>1, <2>2, <2>3
<1>8. froms \in Seq(listed) /\ ToSet(froms) = Froms(p.renamed)
  <2>1. froms = [i \in 1..Len(p.renamed) |-> p.renamed[i].from]
    BY <1>1, <1>5
  <2>2. froms \in Seq(listed)
    BY <1>5, <2>1, IsASeq
  <2>3. ToSet(froms) = Froms(p.renamed)
    BY <1>1 DEF ToSet, Froms
  <2> QED BY <2>2, <2>3
<1> HIDE DEF gone, froms, there
<1>9. ToSet(p.dropped) = ToSet(p.removed) \cup Froms(p.renamed)
  BY <1>1, <1>7, <1>8, ToSetConcat
<1>10. NewBelow(slot) \in Seq(PathNames \ listed)
       /\ ToSet(NewBelow(slot)) \subseteq ToSet(Walked(SlotRoot(slot), "file"))
  <2>1. Walked(SlotRoot(slot), "file") \in Seq(PathNames)
    BY <1>1, WalkedTyped DEF Arrays
  <2>2. NewBelow(slot) = Without(Walked(SlotRoot(slot), "file"), listed)
    BY DEF NewBelow, listed, array
  <2> QED BY <2>1, <2>2, WithoutTyped, WithoutSet
<1>11. p.files \in Arrays /\ p.removed \in Arrays
  <2>1. Seq(listed) \subseteq Seq(PathNames) /\ Seq(PathNames \ listed) \subseteq Seq(PathNames)
    BY <1>2
  <2> QED BY <1>1, <1>7, <1>10, <2>1 DEF Arrays
<1>12. Tos(p.renamed) \in Seq(PathNames \ listed)
  <2>1. Tos(p.renamed) = [i \in 1..Len(p.renamed) |-> p.renamed[i].to]
    BY <1>5 DEF Tos
  <2>2. \A i \in 1..Len(p.renamed) : p.renamed[i].to \in PathNames \ listed
    BY <1>5
  <2> QED BY <1>5, <2>1, <2>2, IsASeq
<1>13. Taken(p) = ToSet(p.added)
  BY <1>1, <1>10, <1>12, ToSetConcat DEF Taken
<1>14. Taken(p) \cap ToSet(p.dropped) = {}
  <2>1. ToSet(p.dropped) \subseteq listed
    BY <1>1, <1>7, <1>8, <1>9 DEF ToSet
  <2>2. ToSet(p.files) \cap listed = {}
    <3> DEFINE U == PathNames \ listed
    <3>1. p.files \in Seq(U) /\ U \cap listed = {}
      BY <1>1, <1>10
    <3> HIDE DEF U
    <3> QED BY <3>1 DEF ToSet
  <2>3. \A i \in DOMAIN p.renamed : p.renamed[i].to \notin listed
    BY <1>5
  <2> QED BY <2>1, <2>2, <2>3, TakenIs
<1>15. Lists(d, p)
  BY <1>1, <1>6, <1>9, <1>11, <1>13, <1>14 DEF Lists, e
<1>16. Surveyed(p)
  <2>1. \A rel \in ToSet(p.files) : p.root \o rel \in Paths /\ home[p.root \o rel].kind = "file"
    BY <1>1, <1>10, WalkedMeets
  <2>2. \A i \in DOMAIN p.renamed :
          /\ p.root \o p.renamed[i].to \in Paths
          /\ home[p.root \o p.renamed[i].to] = Link(p.dest \o p.renamed[i].from)
    BY <1>1, <1>5 DEF Leads
  <2>3. \A rel \in ToSet(p.removed) : At(p.root, rel) = None
    BY <1>1, <1>7 DEF there
  <2>4. \A i \in DOMAIN p.renamed :
          p.renamed[i].from \in ToSet(p.existing) /\ p.renamed[i].to \notin ToSet(p.existing)
    BY <1>1, <1>5 DEF listed
  <2> QED BY <2>1, <2>2, <2>3, <2>4 DEF Surveyed
<1>17. Vacant(p)
  <2>1. ~InRepo(p.dest, p.files)
    BY <1>1 DEF ReconcileRefused
  <2> QED BY <2>1 DEF Vacant, InRepo, ToSet
<1> QED BY <1>15, <1>16, <1>17 DEF p

LEMMA PlansSurvey ==
  ASSUME NEW d, DocOK(d), home \in [Paths -> Places], NEW r \in Requests, ~Refused(d, r),
         NEW p \in PlansFor(d, r)
  PROVE  Lists(d, p) /\ Surveyed(p) /\ Vacant(p)
<1>0. ~FlagsRefused(r) /\ ~SourceRefused(r)
  BY DEF Refused
<1>1. CASE Managing(d, r.path) # {}
  <2>1. PICK slot \in Managing(d, r.path) : p = ReconcilePlan(slot)
    BY <1>1 DEF PlansFor
  <2>2. ~ReconcileRefused(slot, r.path) /\ slot \in Slots(d)
    BY <1>1, <2>1 DEF Refused, Managing
  <2> QED BY <2>1, <2>2, ReconcilePlanSurveys
<1>2. CASE Managing(d, r.path) = {} /\ Nearest(d, r.path) # {}
  <2>1. PICK slot \in Nearest(d, r.path) : p = ExtendPlan(slot, r.path)
    BY <1>2 DEF PlansFor
  <2>2. ~ExtendRefused(slot, r.path)
    BY <1>2, <2>1 DEF Refused
  <2> QED BY <1>0, <2>1, <2>2, ExtendPlanSurveys
<1>3. CASE Managing(d, r.path) = {} /\ Nearest(d, r.path) = {}
  <2>1. p = NewPlan(d, r)
    BY <1>3 DEF PlansFor
  <2>2. ~NewRefused(d, r)
    BY <1>3 DEF Refused
  <2> QED BY <1>0, <2>1, <2>2, NewPlanSurveys
<1> QED BY <1>1, <1>2, <1>3

-----------------------------------------------------------------------------
(* What an import took over                                                *)

LEMMA SlotOfPlan ==
  ASSUME NEW d, DocOK(d), NEW p, ChangesSlot(d, p), Lists(d, p)
  PROVE  LET e == d.pkg[p.key].entries[p.index] IN
           /\ p.key \in Keys /\ p.index \in DOMAIN d.pkg[p.key].entries /\ p.mode # "new"
           /\ p.root = DirOf(p.key, e) /\ p.dest = Normalized(e.source) /\ p.existing = e.symlinks
<1>1. p.mode # "new"
  BY DEF ChangesSlot
<1>2. PICK slot \in Slots(d) :
        p.key = slot.key /\ p.index = slot.index /\ p.existing = slot.entry.symlinks
  BY DEF ChangesSlot
<1>3. /\ slot.key \in Keys /\ slot.index \in DOMAIN d.pkg[slot.key].entries
      /\ slot.entry = d.pkg[slot.key].entries[slot.index]
  BY SlotFacts
<1>4. /\ DirOf(p.key, d.pkg[p.key].entries[p.index]) = p.root
      /\ Normalized(d.pkg[p.key].entries[p.index].source) = p.dest
  BY <1>1 DEF Lists
<1> QED BY <1>1, <1>2, <1>3, <1>4

\* A file below the place of the plan's entry belongs to that entry.
LEMMA InSlot ==
  ASSUME NEW d, DocOK(d), Apart(d), NEW p, ChangesSlot(d, p), Lists(d, p),
         NEW k, NEW i, NEW s, NEW path, NEW g \in PathNames,
         Asks(d, k, i, s, path, Below(p.dest, g))
  PROVE  k = p.key /\ i = p.index /\ s = g /\ path = Below(p.root, g) /\ g \in ToSet(p.existing)
<1>1. /\ p.key \in Keys /\ p.index \in DOMAIN d.pkg[p.key].entries
      /\ p.root = DirOf(p.key, d.pkg[p.key].entries[p.index])
      /\ p.dest = Normalized(d.pkg[p.key].entries[p.index].source)
      /\ p.existing = d.pkg[p.key].entries[p.index].symlinks
  BY SlotOfPlan
<1>2. k = p.key /\ i = p.index /\ s = g
  <2>1. Below(p.dest, g) = Below(Normalized(d.pkg[p.key].entries[p.index].source), g)
    BY <1>1
  <2>2. p.key \in Keys /\ p.index \in DOMAIN d.pkg[p.key].entries
    BY <1>1
  <2> QED BY <2>1, <2>2, SameEntry
<1>3. s \in ToSet(d.pkg[k].entries[i].symlinks) /\ path = DirOf(k, d.pkg[k].entries[i]) \o s
  BY DEF Asks
<1> QED BY <1>1, <1>2, <1>3 DEF Below

\* What is adopted, linked or moved next is none of it.
LEMMA NotAgain ==
  ASSUME NEW d, DocOK(d), Apart(d), NEW p, ChangesSlot(d, p) \/ AddsEntry(d, p), Lists(d, p),
         Surveyed(p), Vacant(p),
         NEW k, NEW i, NEW s, NEW q, NEW to, Asks(d, k, i, s, q, to),
         q \in Paths, home[q] = Link(to), to \in repo, IsSole(q),
         NEW rel \in Taken(p)
  PROVE  q # p.root \o rel /\ to # p.dest \o rel
<1>1. rel \in PathNames /\ p.root \in PathNames /\ p.dest \in PathNames
  BY ListsTyped
<1>2. CASE rel \in ToSet(p.files)
  <2>1. home[p.root \o rel].kind = "file" /\ p.dest \o rel \notin repo
    BY <1>2 DEF Surveyed, Vacant
  <2>2. home[q].kind = "link"
    BY DEF Link
  <2> QED BY <2>1, <2>2
<1>3. CASE \E j \in DOMAIN p.renamed : rel = p.renamed[j].to
  <2>1. PICK j \in DOMAIN p.renamed : rel = p.renamed[j].to
    BY <1>3
  <2> DEFINE from == p.renamed[j].from
  <2>2. /\ p.root \o rel \in Paths /\ home[p.root \o rel] = Link(p.dest \o from)
        /\ from \in ToSet(p.existing) /\ rel \notin ToSet(p.existing)
    BY <2>1 DEF Surveyed
  <2> HIDE DEF from
  <2>3. ChangesSlot(d, p)
    <3>1. p.mode = "new" => p.renamed = <<>>
      BY DEF Lists
    <3>2. p.mode # "new"
      BY <2>1, <3>1
    <3> QED BY <3>2 DEF AddsEntry
  <2>4. from \in PathNames
    <3>1. ToSet(p.existing) \subseteq PathNames
      BY <2>3, SlotOfPlan, EntryTyped
    <3> QED BY <2>2, <3>1
  <2>5. to # p.dest \o rel
    <3>1. to = p.dest \o rel => Asks(d, k, i, s, q, Below(p.dest, rel))
      BY DEF Below
    <3> QED BY <1>1, <2>2, <2>3, <3>1, InSlot
  <2>6. ASSUME q = p.root \o rel PROVE FALSE
    <3>1. to = p.dest \o from
      BY <2>2, <2>6 DEF Link
    <3>2. q = p.root \o from
      <4>1. Asks(d, k, i, s, q, Below(p.dest, from))
        BY <3>1 DEF Below
      <4>2. q = Below(p.root, from)
        BY <2>3, <2>4, <4>1, InSlot
      <4> QED BY <4>2 DEF Below
    <3>3. from = rel
      BY <1>1, <2>4, <2>6, <3>2, CancelLeft DEF PathNames
    <3> QED BY <2>2, <3>3
  <2> QED BY <2>5, <2>6
<1> QED BY <1>2, <1>3, TakenIs

\* What is taken away is none of it either.
LEMMA NotDropped ==
  ASSUME NEW d, DocOK(d), Apart(d), NEW p, ChangesSlot(d, p) \/ AddsEntry(d, p), Lists(d, p),
         Surveyed(p),
         NEW k, NEW i, NEW s, NEW q, NEW to, Asks(d, k, i, s, q, to),
         q \in Paths, home[q] = Link(to), IsSole(q),
         NEW g \in ToSet(p.dropped)
  PROVE  to # p.dest \o g
<1> SUFFICES ASSUME to = Below(p.dest, g) PROVE FALSE
  BY DEF Below
<1>1. g \in PathNames /\ p.root \in PathNames /\ p.dest \in PathNames
  BY ListsTyped
<1>2. ChangesSlot(d, p)
  <2>1. p.mode = "new" => p.dropped = <<>>
    BY DEF Lists
  <2>2. p.dropped # <<>>
    BY DEF ToSet
  <2> QED BY <2>1, <2>2 DEF AddsEntry
<1>3. q = p.root \o g /\ g \in ToSet(p.existing)
  <2>1. Asks(d, k, i, s, q, Below(p.dest, g))
    OBVIOUS
  <2>2. g \in PathNames
    BY <1>1
  <2>3. q = Below(p.root, g)
    BY <1>2, <2>1, <2>2, InSlot
  <2>4. g \in ToSet(p.existing)
    BY <1>2, <2>1, <2>2, InSlot
  <2> QED BY <2>3, <2>4 DEF Below
<1>4. CASE g \in ToSet(p.removed)
  <2>1. At(p.root, g) = None
    BY <1>4 DEF Surveyed
  <2> QED BY <1>3, <2>1 DEF At, None, Link
<1>5. CASE g \in Froms(p.renamed)
  <2>1. PICK j \in DOMAIN p.renamed : g = p.renamed[j].from
    BY <1>5 DEF Froms
  <2>2. /\ p.root \o p.renamed[j].to \in Paths /\ home[p.root \o p.renamed[j].to] = Link(p.dest \o g)
        /\ p.renamed[j].to \notin ToSet(p.existing)
    BY <2>1 DEF Surveyed
  <2>3. p.root \o p.renamed[j].to = q
    BY <2>2 DEF IsSole, Below
  <2>4. p.renamed[j].to \in PathNames
    BY ListsTyped, TakenIs
  <2>5. p.renamed[j].to = g
    BY <1>1, <1>3, <2>3, <2>4, CancelLeft DEF PathNames
  <2> QED BY <1>3, <2>2, <2>5
<1>6. ToSet(p.dropped) = ToSet(p.removed) \cup Froms(p.renamed)
  BY DEF Lists
<1> QED BY <1>4, <1>5, <1>6

LEMMA AdoptedAsks ==
  ASSUME Held, Apart(doc), NEW q \in adopted
  PROVE  /\ q \in Paths /\ Loads(doc) /\ IsSole(q)
         /\ \E k, i, s, to : Asks(doc, k, i, s, q, to) /\ home[q] = Link(to) /\ to \in repo
<1> DEFINE to == home[q].to
<1>1. /\ q \in Paths /\ Loads(doc) /\ IsSole(q) /\ home[q].kind = "link" /\ to \in repo
      /\ [path |-> q, to |-> to] \in Claims(doc)
  BY DEF Held, AdoptedStays
<1>2. home[q] = Link(to)
  <2>1. home[q] \in Places
    BY <1>1 DEF Held
  <2> QED BY <1>1, <2>1 DEF Places, Link
<1> HIDE DEF to
<1>3. \E k, i, s : Asks(doc, k, i, s, q, to)
  BY <1>1, ClaimsAre
<1> QED BY <1>1, <1>2, <1>3

\* The converse: what is linked to what apply would make of config.toml.
LEMMA AskedStays ==
  ASSUME NEW d, Loads(d), NEW k, NEW i, NEW s, NEW q, NEW to, Asks(d, k, i, s, q, to)
  PROVE  [path |-> q, to |-> to] \in Claims(d)
BY ClaimsAre

LEMMA MovesKeep ==
  ASSUME LInv, StayInv, run.stage = "apply", Apart(doc), NEW q \in adopted,
         NEW n \in 0..Len(Moves(run.plan))
  PROVE  LET s == AfterMoves(run.plan, n) IN
           /\ s.home[q] = home[q] /\ home[q].to \in s.repo
           /\ \A o \in Paths \ {q} : s.home[o] # home[q]
<1>1. PICK p : p = run.plan
  OBVIOUS
<1>2. /\ Held /\ Lists(doc, p) /\ Surveyed(p) /\ Vacant(p)
      /\ DocOK(doc) /\ (ChangesSlot(doc, p) \/ AddsEntry(doc, p))
  BY <1>1 DEF StayInv, Ready, LInv
<1>3. q \in Paths /\ IsSole(q)
  BY <1>2, AdoptedAsks
<1>4. PICK k, i, s, to : Asks(doc, k, i, s, q, to) /\ home[q] = Link(to) /\ to \in repo
  BY <1>2, AdoptedAsks
<1> DEFINE t == AfterMoves(p, n)
<1>5. /\ \A o \in Paths : \/ t.home[o] = home[o]
                          \/ \E rel \in Taken(p) :
                               o = Below(p.root, rel) /\ t.home[o] = Link(Below(p.dest, rel))
      /\ \A f \in repo \ t.repo : \E g \in ToSet(p.dropped) : f = Below(p.dest, g)
  <2>1. home \in [Paths -> Places] /\ n \in 0..Len(Moves(p))
    BY <1>1, <1>2 DEF Held
  <2> QED BY <1>2, <2>1, AfterIs
<1> HIDE DEF t
<1>6. \A rel \in Taken(p) : q # Below(p.root, rel) /\ to # Below(p.dest, rel)
  BY <1>2, <1>3, <1>4, NotAgain DEF Below
<1>7. \A g \in ToSet(p.dropped) : to # Below(p.dest, g)
  BY <1>2, <1>3, <1>4, NotDropped DEF Below
<1>8. t.home[q] = home[q]
  BY <1>3, <1>5, <1>6
<1>9. to \in t.repo
  BY <1>4, <1>5, <1>7
<1>10. ASSUME NEW o \in Paths \ {q} PROVE t.home[o] # home[q]
  <2>1. CASE t.home[o] = home[o]
    BY <1>3, <2>1 DEF IsSole
  <2>2. CASE \E rel \in Taken(p) : t.home[o] = Link(Below(p.dest, rel))
    <3>1. PICK rel \in Taken(p) : t.home[o] = Link(Below(p.dest, rel))
      BY <2>2
    <3>2. to # Below(p.dest, rel)
      BY <1>6
    <3> QED BY <1>4, <3>1, <3>2 DEF Link
  <2> QED BY <1>5, <2>1, <2>2
<1> QED BY <1>1, <1>4, <1>8, <1>9, <1>10 DEF t, Link

LEMMA Unmoved ==
  ASSUME Held, UNCHANGED <<home, repo, doc, adopted>>
  PROVE  Held'
BY DEF Held, AdoptedStays, IsSole

\* The passes over the files take nothing away from what is held.
LEMMA ApplyHeld ==
  ASSUME LInv, StayInv, ApplyFiles
  PROVE  Held'
<1>1. PICK n \in 0..Len(Moves(run.plan)) :
        home' = AfterMoves(run.plan, n).home /\ repo' = AfterMoves(run.plan, n).repo
  BY DEF ApplyFiles
<1>2. doc' = doc /\ adopted' = adopted /\ run.stage = "apply"
  BY DEF ApplyFiles
<1>3. Held /\ Lists(run.read, run.plan)
  BY <1>2 DEF StayInv, Ready
<1>4. home' \in [Paths -> Places]
  BY <1>1, <1>3, AfterIs DEF Held
<1>5. ASSUME Apart(doc), NEW q \in adopted
      PROVE  /\ home'[q] = home[q] /\ home[q].to \in repo'
             /\ \A o \in Paths \ {q} : home'[o] # home[q]
  BY <1>1, <1>2, <1>5, MovesKeep
<1>6. AdoptedStays'
  BY <1>2, <1>3, <1>5 DEF AdoptedStays, Held
<1>7. Apart(doc') => \A q \in adopted' : IsSole(q)'
  BY <1>2, <1>5 DEF IsSole
<1> QED BY <1>2, <1>3, <1>4, <1>6, <1>7 DEF Held

\* They bring about what the document will say.
LEMMA ApplyReady ==
  ASSUME LInv, StayInv, ApplyFiles
  PROVE  Ready'
<1>1. PICK n \in 0..Len(Moves(run.plan)) :
        /\ home' = AfterMoves(run.plan, n).home /\ repo' = AfterMoves(run.plan, n).repo
        /\ IF n = Len(Moves(run.plan)) THEN run' = [run EXCEPT !.stage = "write"] ELSE run' = Idle
  BY DEF ApplyFiles, Ends
<1>2. PICK p : p = run.plan
  OBVIOUS
<1>3. /\ doc' = doc /\ adopted' = adopted /\ run.stage = "apply"
      /\ Lists(run.read, p) /\ Surveyed(p) /\ (adopted # {} => run.read = doc)
  BY <1>2 DEF ApplyFiles, StayInv, Ready
<1>4. CASE run' = Idle
  BY <1>4 DEF Ready, Idle
<1>5. CASE run' # Idle
  <2>1. /\ home' = AfterMoves(p, Len(Moves(p))).home /\ repo' = AfterMoves(p, Len(Moves(p))).repo
        /\ run' = [run EXCEPT !.stage = "write"]
    BY <1>1, <1>2, <1>5
  <2>2. run'.stage = "write" /\ run'.plan = p /\ run'.read = run.read
    BY <1>2, <2>1 DEF LInv
  <2>3. \A rel \in Taken(p) : p.root \o rel \in Paths
    <3>1. \A rel \in ToSet(p.files) : p.root \o rel \in Paths
      BY <1>3 DEF Surveyed
    <3>2. \A i \in DOMAIN p.renamed : p.root \o p.renamed[i].to \in Paths
      BY <1>3 DEF Surveyed
    <3> QED BY <3>1, <3>2, TakenIs
  <2>4. /\ \A rel \in Taken(p) :
             home'[p.root \o rel] = Link(p.dest \o rel) /\ p.dest \o rel \in repo'
        /\ \A g \in ToSet(p.dropped) : p.dest \o g \notin repo'
    <3> DEFINE s == AfterMoves(p, Len(Moves(p)))
    <3>1. /\ \A rel \in Taken(p) :
               /\ p.root \o rel \in Paths => s.home[p.root \o rel] = Link(p.dest \o rel)
               /\ p.dest \o rel \in s.repo
          /\ \A g \in ToSet(p.dropped) : p.dest \o g \notin s.repo
      BY <1>3, AfterAll
    <3> HIDE DEF s
    <3>2. home' = s.home /\ repo' = s.repo
      BY <2>1 DEF s
    <3> QED BY <2>3, <3>1, <3>2
  <2>5. InPlace(p)'
    BY <2>3, <2>4 DEF InPlace
  <2> QED BY <1>3, <2>2, <2>5 DEF Ready
<1> QED BY <1>4, <1>5

LEMMA Changed ==
  ASSUME NEW d, DocOK(d), NEW p, ChangesSlot(d, p)
  PROVE  OneArray(d, Updated(d, p), p)
<1>1. PICK slot \in Slots(d) : p.key = slot.key /\ p.index = slot.index
  BY DEF ChangesSlot
<1>2. p.mode # "new" /\ Disjoint(p.added, p.dropped)
  BY DEF ChangesSlot
<1> QED BY <1>1, <1>2, ChangedDocument

\* A document that loads still does.
LEMMA UpdatedLoads ==
  ASSUME NEW d, DocOK(d), Loads(d), NEW p, ChangesSlot(d, p) \/ AddsEntry(d, p), Lists(d, p),
         ~Panics(d, p)
  PROVE  Loads(Updated(d, p))
<1> DEFINE new == Updated(d, p)
<1> SUFFICES ASSUME NEW k \in Keys, new.pkg[k].form # "absent"
             PROVE  /\ new.pkg[k].hint
                    /\ \A i \in DOMAIN new.pkg[k].entries : IsSafe(new.pkg[k].entries[i].source)
  BY DEF Loads
<1>1. d.pkg[k].form # "absent" =>
        d.pkg[k].hint /\ \A i \in DOMAIN d.pkg[k].entries : IsSafe(d.pkg[k].entries[i].source)
  BY DEF Loads
<1>2. CASE ChangesSlot(d, p)
  <2>1. OneArray(d, new, p)
    BY <1>2, Changed
  <2> HIDE DEF new
  <2>2. CASE k # p.key
    <3>1. new.pkg[k] = d.pkg[k]
      BY <2>1, <2>2 DEF OneArray
    <3> QED BY <1>1, <3>1
  <2>3. CASE k = p.key
    <3>1. /\ new.pkg[k].form = d.pkg[k].form /\ new.pkg[k].hint = d.pkg[k].hint
          /\ DOMAIN new.pkg[k].entries = DOMAIN d.pkg[k].entries
          /\ \A i \in DOMAIN d.pkg[k].entries : new.pkg[k].entries[i].source = d.pkg[k].entries[i].source
      BY <2>1, <2>3 DEF OneArray, OnlyArray
    <3> QED BY <1>1, <3>1
  <2> QED BY <2>2, <2>3
<1>3. CASE AddsEntry(d, p)
  <2>1. /\ \A l \in Keys \ {p.key} : new.pkg[l] = d.pkg[l]
        /\ new.pkg[p.key].hint = HintAfter(d.pkg[p.key], p)
        /\ new.pkg[p.key].entries = <<p.entry>>
    BY <1>3, NewDocument
  <2> HIDE DEF new
  <2>2. CASE k # p.key
    BY <1>1, <2>1, <2>2
  <2>3. CASE k = p.key
    <3>1. p.mode = "new"
      BY <1>3 DEF AddsEntry
    <3>2. IsSafe(p.entry.source) /\ p.created = ~BlockExists(d, p.key)
      BY <3>1 DEF Lists
    <3>3. d.form = "table"
      <4>1. d.form \in {"table", "inline"}
        BY DEF DocOK, Documents
      <4> QED BY <3>1, <4>1 DEF Panics
    <3>4. d.pkg[k].hint \/ p.created
      BY <1>1, <2>3, <3>2, <3>3 DEF BlockExists
    <3>5. new.pkg[k].hint
      BY <2>1, <2>3, <3>4 DEF HintAfter
    <3>6. \A i \in DOMAIN <<p.entry>> : <<p.entry>>[i] = p.entry
      OBVIOUS
    <3> QED BY <2>1, <2>3, <3>2, <3>5, <3>6
  <2> QED BY <2>2, <2>3
<1> QED BY <1>2, <1>3

\* What apply linked it still links, unless its path was dropped from the array.
LEMMA UpdatedAsks ==
  ASSUME NEW d, DocOK(d), NEW p, ChangesSlot(d, p) \/ AddsEntry(d, p), ~Panics(d, p),
         NEW k, NEW i, NEW s, NEW q, NEW to, Asks(d, k, i, s, q, to),
         k = p.key /\ i = p.index => s \notin ToSet(p.dropped)
  PROVE  Asks(Updated(d, p), k, i, s, q, to)
<1> DEFINE new == Updated(d, p)
           e == d.pkg[k].entries[i]
           f == new.pkg[k].entries[i]
<1>1. /\ k \in Keys /\ i \in DOMAIN d.pkg[k].entries /\ s \in ToSet(e.symlinks)
      /\ q = DirOf(k, e) \o s /\ to = Normalized(e.source) \o s
  BY DEF Asks
<1>2. CASE AddsEntry(d, p)
  <2>1. /\ \A l \in Keys \ {p.key} : new.pkg[l] = d.pkg[l]
        /\ d.pkg[p.key].entries = <<>>
    BY <1>2, NewDocument
  <2>2. new.pkg[k] = d.pkg[k]
    BY <1>1, <2>1, SMTT(30)
  <2> HIDE DEF new
  <2> QED BY <1>1, <2>2 DEF Asks, new
<1>3. CASE ChangesSlot(d, p)
  <2>1. OneArray(d, new, p)
    BY <1>3, Changed
  <2> HIDE DEF new
  <2>2. CASE k # p.key
    <3>1. new.pkg[k] = d.pkg[k]
      BY <1>1, <2>1, <2>2 DEF OneArray
    <3> QED BY <1>1, <3>1 DEF Asks, new
  <2>3. CASE k = p.key
    <3>1. /\ DOMAIN new.pkg[k].entries = DOMAIN d.pkg[k].entries
          /\ OnlyArray(e, f)
          /\ i # p.index => f = e
          /\ i = p.index => f.symlinks = Trimmed(e.symlinks \o p.added, p.dropped)
      BY <1>1, <2>1, <2>3 DEF OneArray
    <3>2. s \in ToSet(f.symlinks)
      <4>1. CASE i # p.index
        BY <1>1, <3>1, <4>1
      <4>2. CASE i = p.index
        <5>1. e.symlinks \in Arrays /\ p.added \in Arrays
          BY <1>1, <1>3, EntryTyped DEF ChangesSlot, Disjoint
        <5> HIDE DEF e, f
        <5>2. s \in ToSet(e.symlinks \o p.added) /\ e.symlinks \o p.added \in Seq(PathNames)
          BY <1>1, <5>1, ToSetConcat, ConcatIs DEF Arrays
        <5>3. s \notin ToSet(p.dropped)
          BY <2>3, <4>2
        <5> DEFINE long == e.symlinks \o p.added
        <5> HIDE DEF long
        <5>4. ToSet(Without(long, ToSet(p.dropped))) = ToSet(long) \ ToSet(p.dropped)
          BY <5>2, WithoutSet DEF long
        <5>5. s \in ToSet(Trimmed(long, p.dropped))
          BY <5>2, <5>3, <5>4 DEF Trimmed, long
        <5> QED BY <3>1, <4>2, <5>5 DEF long
      <4> QED BY <4>1, <4>2
    <3>3. DirOf(k, f) = DirOf(k, e) /\ f.source = e.source
      BY <3>1 DEF OnlyArray, DirOf
    <3> HIDE DEF e, f
    <3> QED BY <1>1, <3>1, <3>2, <3>3 DEF Asks, new, e, f
  <2> QED BY <2>2, <2>3
<1> QED BY <1>2, <1>3

\* What was taken over stands in the new document.
LEMMA UpdatedTakes ==
  ASSUME NEW d, DocOK(d), NEW p, ChangesSlot(d, p) \/ AddsEntry(d, p), Lists(d, p), ~Panics(d, p),
         NEW rel \in Taken(p)
  PROVE  \E k, i, s : Asks(Updated(d, p), k, i, s, Below(p.root, rel), Below(p.dest, rel))
<1> DEFINE new == Updated(d, p)
<1>1. CASE AddsEntry(d, p)
  <2>1. new.pkg[p.key].entries = <<p.entry>> /\ p.key \in Keys /\ p.mode = "new"
    BY <1>1, NewDocument DEF AddsEntry
  <2>2. 1 \in DOMAIN <<p.entry>> /\ <<p.entry>>[1] = p.entry
    OBVIOUS
  <2>3. /\ p.renamed = <<>> /\ p.entry.symlinks = p.files
        /\ DirOf(p.key, p.entry) = p.root /\ Normalized(p.entry.source) = p.dest
    BY <2>1 DEF Lists
  <2>4. rel \in ToSet(p.entry.symlinks)
    BY <2>3, TakenIs
  <2> HIDE DEF new
  <2>5. /\ 1 \in DOMAIN new.pkg[p.key].entries /\ new.pkg[p.key].entries[1] = p.entry
    BY <2>1, <2>2
  <2>6. Asks(new, p.key, 1, rel, Below(p.root, rel), Below(p.dest, rel))
    BY <2>1, <2>3, <2>4, <2>5 DEF Asks, Below
  <2> QED BY <2>6 DEF new
<1>2. CASE ChangesSlot(d, p)
  <2> DEFINE e == d.pkg[p.key].entries[p.index]
             f == new.pkg[p.key].entries[p.index]
  <2>1. /\ p.key \in Keys /\ p.index \in DOMAIN d.pkg[p.key].entries /\ p.mode # "new"
        /\ p.root = DirOf(p.key, e) /\ p.dest = Normalized(e.source) /\ p.existing = e.symlinks
    BY <1>2, SlotOfPlan
  <2>2. OneArray(d, new, p)
    BY <1>2, Changed
  <2> HIDE DEF new
  <2>3. /\ DOMAIN new.pkg[p.key].entries = DOMAIN d.pkg[p.key].entries
        /\ OnlyArray(e, f) /\ f.symlinks = Trimmed(e.symlinks \o p.added, p.dropped)
    BY <2>1, <2>2 DEF OneArray
  <2>4. e.symlinks \in Arrays /\ p.added \in Arrays
    BY <1>2, <2>1, EntryTyped DEF ChangesSlot, Disjoint
  <2>5. rel \in ToSet(e.symlinks) \cup ToSet(p.added) /\ rel \notin ToSet(p.dropped)
    BY <2>1 DEF Lists
  <2> HIDE DEF e, f
  <2> DEFINE long == e.symlinks \o p.added
  <2>6. long \in Seq(PathNames) /\ rel \in ToSet(long)
    BY <2>4, <2>5, ToSetConcat, ConcatIs DEF Arrays
  <2> HIDE DEF long
  <2>7. ToSet(Without(long, ToSet(p.dropped))) = ToSet(long) \ ToSet(p.dropped)
    BY <2>6, WithoutSet
  <2>8. rel \in ToSet(f.symlinks)
    BY <2>3, <2>5, <2>6, <2>7 DEF Trimmed, long
  <2>9. DirOf(p.key, f) = p.root /\ Normalized(f.source) = p.dest
    BY <2>1, <2>3 DEF OnlyArray, DirOf
  <2>10. Asks(new, p.key, p.index, rel, Below(p.root, rel), Below(p.dest, rel))
    BY <2>1, <2>3, <2>8, <2>9 DEF Asks, Below, f
  <2> QED BY <2>10 DEF new
<1> QED BY <1>1, <1>2

\* Every entry keeps its place.
LEMMA UpdatedApart ==
  ASSUME NEW d, DocOK(d), NEW p, ChangesSlot(d, p) \/ AddsEntry(d, p), ~Panics(d, p),
         Apart(Updated(d, p))
  PROVE  Apart(d)
<1> DEFINE new == Updated(d, p)
<1>1. ASSUME NEW k \in Keys, NEW i \in DOMAIN d.pkg[k].entries
      PROVE  i \in DOMAIN new.pkg[k].entries /\ new.pkg[k].entries[i].source = d.pkg[k].entries[i].source
  <2>1. CASE AddsEntry(d, p)
    <3>1. /\ \A l \in Keys \ {p.key} : new.pkg[l] = d.pkg[l]
          /\ d.pkg[p.key].entries = <<>>
      BY <2>1, NewDocument
    <3>2. new.pkg[k] = d.pkg[k]
      BY <1>1, <3>1
    <3> HIDE DEF new
    <3> QED BY <1>1, <3>2
  <2>2. CASE ChangesSlot(d, p)
    <3>1. OneArray(d, new, p)
      BY <2>2, Changed
    <3> HIDE DEF new
    <3>2. CASE k # p.key
      BY <1>1, <3>1, <3>2 DEF OneArray
    <3>3. CASE k = p.key
      BY <1>1, <3>1, <3>3 DEF OneArray, OnlyArray
    <3> QED BY <3>2, <3>3
  <2> QED BY <2>1, <2>2
<1>2. Apart(new)
  OBVIOUS
<1> HIDE DEF new
<1>3. ASSUME NEW k \in Keys, NEW l \in Keys,
             NEW i \in DOMAIN d.pkg[k].entries, NEW j \in DOMAIN d.pkg[l].entries,
             IsPrefix(Normalized(d.pkg[k].entries[i].source), Normalized(d.pkg[l].entries[j].source))
      PROVE  k = l /\ i = j
  <2>1. /\ i \in DOMAIN new.pkg[k].entries /\ new.pkg[k].entries[i].source = d.pkg[k].entries[i].source
        /\ j \in DOMAIN new.pkg[l].entries /\ new.pkg[l].entries[j].source = d.pkg[l].entries[j].source
    BY <1>1
  <2>2. IsPrefix(Normalized(new.pkg[k].entries[i].source), Normalized(new.pkg[l].entries[j].source))
    BY <1>3, <2>1
  <2> QED BY <1>2, <2>1, <2>2 DEF Apart
<1> QED BY <1>3, Zenon DEF Apart

\* The new config.toml holds what this import took over, and still holds what
\* others did.
LEMMA WriteHeld ==
  ASSUME LInv, StayInv, WriteToml
  PROVE  Held'
<1>1. PICK p : p = run.plan
  OBVIOUS
<1>2. PICK d : d = run.read
  OBVIOUS
<1>3. /\ run.stage = "write" /\ ~Panics(d, p) /\ doc' = Updated(d, p)
      /\ home' = home /\ repo' = repo
      /\ adopted' = adopted \cup {q \in TakenOver(p) : Loads(d) /\ IsSole(q)}
  BY <1>1, <1>2 DEF WriteToml
<1>4. /\ Held /\ (adopted # {} => d = doc) /\ Lists(d, p) /\ InPlace(p)
      /\ DocOK(d) /\ (ChangesSlot(d, p) \/ AddsEntry(d, p))
  BY <1>1, <1>2, <1>3 DEF StayInv, Ready, LInv
<1>5. \A q \in TakenOver(p) : \E rel \in Taken(p) : q = Below(p.root, rel)
  <2>1. \A i \in DOMAIN p.files : p.files[i] \in Taken(p)
    BY DEF Taken, ToSet
  <2>2. \A i \in DOMAIN p.renamed : p.renamed[i].to \in Taken(p)
    BY TakenIs
  <2> QED BY <2>1, <2>2 DEF TakenOver, Below
<1>6. ASSUME NEW q \in TakenOver(p), Loads(d)
      PROVE  /\ q \in Paths /\ home[q].kind = "link" /\ home[q].to \in repo
             /\ [path |-> q, to |-> home[q].to] \in Claims(doc')
  <2>1. PICK rel \in Taken(p) : q = Below(p.root, rel)
    BY <1>5
  <2>2. q \in Paths /\ home[q] = Link(Below(p.dest, rel)) /\ Below(p.dest, rel) \in repo
    BY <1>4, <2>1 DEF InPlace, Below
  <2>3. home[q].kind = "link" /\ home[q].to = Below(p.dest, rel)
    BY <2>2 DEF Link
  <2>4. PICK k, i, s : Asks(Updated(d, p), k, i, s, Below(p.root, rel), Below(p.dest, rel))
    BY <1>3, <1>4, UpdatedTakes
  <2>5. Loads(Updated(d, p))
    BY <1>3, <1>4, <1>6, UpdatedLoads
  <2>6. [path |-> Below(p.root, rel), to |-> Below(p.dest, rel)] \in Claims(Updated(d, p))
    BY <2>4, <2>5, AskedStays
  <2> QED BY <1>3, <2>1, <2>2, <2>3, <2>6
<1>7. ASSUME NEW q \in adopted, Apart(doc')
      PROVE  /\ home[q].kind = "link" /\ home[q].to \in repo /\ IsSole(q)
             /\ [path |-> q, to |-> home[q].to] \in Claims(doc')
  <2>1. d = doc /\ Apart(doc)
    BY <1>3, <1>4, <1>7, UpdatedApart
  <2>2. q \in Paths /\ Loads(d) /\ IsSole(q)
    BY <1>4, <2>1, AdoptedAsks
  <2>3. PICK k, i, s, to : Asks(d, k, i, s, q, to) /\ home[q] = Link(to) /\ to \in repo
    BY <1>4, <2>1, AdoptedAsks
  <2>4. home[q].kind = "link" /\ home[q].to = to
    BY <2>3 DEF Link
  <2>5. k = p.key /\ i = p.index => s \notin ToSet(p.dropped)
    <3> SUFFICES ASSUME k = p.key, i = p.index, s \in ToSet(p.dropped) PROVE FALSE
      OBVIOUS
    <3>1. p.mode # "new"
      <4>1. p.mode = "new" => p.dropped = <<>>
        BY <1>4 DEF Lists
      <4>2. p.dropped # <<>>
        BY DEF ToSet
      <4> QED BY <4>1, <4>2
    <3>2. Normalized(d.pkg[p.key].entries[p.index].source) = p.dest
      BY <1>4, <3>1 DEF Lists
    <3>3. to = p.dest \o s
      BY <2>3, <3>2 DEF Asks
    <3> QED BY <1>4, <2>3, <3>3 DEF InPlace
  <2>6. Asks(Updated(d, p), k, i, s, q, to)
    BY <1>3, <1>4, <2>3, <2>5, UpdatedAsks
  <2>7. Loads(Updated(d, p))
    BY <1>3, <1>4, <2>2, UpdatedLoads
  <2>8. [path |-> q, to |-> to] \in Claims(Updated(d, p))
    BY <2>6, <2>7, AskedStays
  <2> QED BY <1>3, <2>2, <2>3, <2>4, <2>8
<1>8. adopted' # {} => Loads(doc')
  <2>1. adopted' # {} => Loads(d)
    BY <1>3, <1>4 DEF Held
  <2> QED BY <1>3, <1>4, <2>1, UpdatedLoads
<1>9. adopted' \subseteq Paths
  BY <1>3, <1>4, <1>6 DEF Held
<1>10. AdoptedStays'
  BY <1>3, <1>6, <1>7 DEF AdoptedStays
<1>11. Apart(doc') => \A q \in adopted' : IsSole(q)'
  <2>1. \A q \in Paths : IsSole(q)' <=> IsSole(q)
    BY <1>3 DEF IsSole
  <2> QED BY <1>3, <1>7, <1>9, <2>1
<1> QED BY <1>3, <1>4, <1>8, <1>9, <1>10, <1>11 DEF Held

\* The user takes away what he changes.
LEMMA UserHeld ==
  ASSUME Held, \/ \E q \in Paths : \E entry \in {None, File} : EditHome(q, entry)
               \/ \E q1, q2 \in Paths : MoveLink(q1, q2)
               \/ \E d \in Docs : Replace(d)
  PROVE  Held'
<1>1. None \in Places /\ File \in Places
  BY DEF None, File, Places, PathNames
<1>2. ASSUME NEW q \in Paths, NEW entry \in {None, File}, EditHome(q, entry) PROVE Held'
  <2>1. /\ home' = [home EXCEPT ![q] = entry] /\ adopted' = adopted \ {q}
        /\ repo' = repo /\ doc' = doc
    BY <1>2 DEF EditHome
  <2>2. home \in [Paths -> Places] /\ adopted \subseteq Paths
    BY DEF Held
  <2>3. home' \in [Paths -> Places]
    BY <1>1, <2>1, <2>2
  <2>4. \A o \in Paths : home'[o] = IF o = q THEN entry ELSE home[o]
    BY <2>1, <2>2
  <2>5. entry.kind # "link"
    BY DEF None, File
  <2>6. AdoptedStays'
    BY <2>1, <2>2, <2>4 DEF AdoptedStays, Held
  <2>7. Apart(doc') => \A o \in adopted' : IsSole(o)'
    <3> SUFFICES ASSUME Apart(doc), NEW o \in adopted \ {q} PROVE IsSole(o)'
      BY <2>1
    <3>1. home[o].kind = "link" /\ IsSole(o) /\ o \in Paths
      BY <2>2 DEF Held, AdoptedStays
    <3> QED BY <2>4, <2>5, <3>1 DEF IsSole
  <2> QED BY <2>1, <2>2, <2>3, <2>6, <2>7 DEF Held
<1>3. ASSUME NEW q1 \in Paths, NEW q2 \in Paths, MoveLink(q1, q2) PROVE Held'
  <2>1. /\ home' = [home EXCEPT ![q1] = None, ![q2] = home[q1]] /\ adopted' = adopted \ {q1, q2}
        /\ repo' = repo /\ doc' = doc
    BY <1>3 DEF MoveLink
  <2>2. home \in [Paths -> Places] /\ adopted \subseteq Paths
    BY DEF Held
  <2>3. home' \in [Paths -> Places]
    BY <1>1, <2>1, <2>2
  <2>4. \A o \in Paths : home'[o] = IF o = q2 THEN home[q1] ELSE IF o = q1 THEN None ELSE home[o]
    BY <2>1, <2>2
  <2>6. AdoptedStays'
    BY <2>1, <2>2, <2>4 DEF AdoptedStays, Held
  <2>7. Apart(doc') => \A o \in adopted' : IsSole(o)'
    <3> SUFFICES ASSUME Apart(doc), NEW o \in adopted \ {q1, q2} PROVE IsSole(o)'
      BY <2>1
    <3>1. home[o].kind = "link" /\ IsSole(o) /\ o \in Paths
      BY <2>2 DEF Held, AdoptedStays
    <3>2. home[o] # home[q1] /\ home[o] # None
      BY <3>1 DEF IsSole, None
    <3> QED BY <2>4, <3>1, <3>2 DEF IsSole
  <2> QED BY <2>1, <2>2, <2>3, <2>6, <2>7 DEF Held
<1>4. ASSUME NEW d \in Docs, Replace(d) PROVE Held'
  BY <1>4 DEF Held, AdoptedStays, Replace
<1> QED BY <1>2, <1>3, <1>4

LEMMA ProposeReady ==
  ASSUME LInv, Held, NEW r \in Requests, Propose(r)
  PROVE  Ready'
<1>1. /\ DocOK(doc) /\ ~Refused(doc, r) /\ home \in [Paths -> Places]
      /\ home' = home /\ repo' = repo /\ doc' = doc /\ adopted' = adopted
  BY DEF LInv, Held, Propose, disk
<1>2. PICK p \in PlansFor(doc, r) :
        \/ run' = Idle
        \/ run' = [stage |-> IF r.mode = "yes" THEN "apply" ELSE "prompt",
                   plan |-> p, read |-> doc, preview |-> Preview(p)]
  BY DEF Propose, Ends
<1>3. Lists(doc, p) /\ Surveyed(p) /\ Vacant(p)
  BY <1>1, PlansSurvey
<1>4. CASE run' = Idle
  BY <1>4 DEF Ready, Idle
<1>5. CASE run' # Idle
  <2>1. run'.stage # "write" /\ run'.plan = p /\ run'.read = doc
    BY <1>2, <1>5
  <2>2. Surveyed(p)' /\ Vacant(p)'
    BY <1>1, <1>3 DEF Surveyed, Vacant, At
  <2> QED BY <1>1, <1>3, <2>1, <2>2 DEF Ready
<1> QED BY <1>4, <1>5

\* A plan stays what it was while nobody touches the home directory.
LEMMA StillReady ==
  ASSUME LInv, Ready, home' = home, run'.plan = run.plan, run'.read = run.read,
         run.stage # "idle" /\ run.stage # "write" /\ run'.stage # "write",
         adopted' # {} => adopted' = adopted /\ doc' = doc /\ repo' = repo
  PROVE  Ready'
<1>1. PICK p : p = run.plan
  OBVIOUS
<1>2. /\ adopted # {} => run.read = doc /\ Vacant(p)
      /\ Lists(run.read, p) /\ Surveyed(p)
  BY <1>1 DEF Ready
<1>3. Surveyed(p)' /\ (adopted' # {} => Vacant(p)')
  BY <1>2 DEF Surveyed, Vacant, At
<1> QED BY <1>1, <1>2, <1>3 DEF Ready

LEMMA NextStay == LInv /\ StayInv /\ [Next]_vars => StayInv'
<1> SUFFICES ASSUME LInv, StayInv, [Next]_vars PROVE StayInv'
  OBVIOUS
<1>0. Held /\ Ready
  BY DEF StayInv
<1>1. ASSUME run' = Idle, UNCHANGED <<home, repo, doc, adopted>> PROVE StayInv'
  BY <1>0, <1>1, Unmoved DEF StayInv, Ready, Idle
<1>2. ASSUME NEW r \in Requests, Refuse(r) PROVE StayInv'
  BY <1>1, <1>2 DEF Refuse, Ends, disk
<1>3. ASSUME NEW r \in Requests, Propose(r) PROVE StayInv'
  <2>1. UNCHANGED <<home, repo, doc, adopted>>
    BY <1>3 DEF Propose, disk
  <2> QED BY <1>0, <1>3, <2>1, ProposeReady, Unmoved DEF StayInv
<1>4. CASE Confirm
  <2>1. UNCHANGED <<home, repo, doc, adopted>> /\ run.stage = "prompt"
    BY <1>4 DEF Confirm, disk
  <2>2. CASE run' = Idle
    BY <1>1, <2>1, <2>2
  <2>3. CASE run' # Idle
    <3>1. run' = [run EXCEPT !.stage = "apply"]
      BY <1>4, <2>3 DEF Confirm, Ends
    <3>2. run'.stage = "apply" /\ run'.plan = run.plan /\ run'.read = run.read
      BY <3>1 DEF LInv
    <3> QED BY <1>0, <2>1, <3>2, StillReady, Unmoved DEF StayInv
  <2> QED BY <2>2, <2>3
<1>5. CASE ApplyFiles
  BY <1>5, ApplyHeld, ApplyReady DEF StayInv
<1>6. CASE WriteToml
  <2>1. run' = Idle
    BY <1>6 DEF WriteToml, Ends
  <2> QED BY <1>6, <2>1, WriteHeld DEF StayInv, Ready, Idle
<1>7. CASE WriteFails \/ UpdatePanics
  BY <1>1, <1>7 DEF WriteFails, UpdatePanics, Ends, disk
<1>8. CASE \/ \E q \in Paths : \E entry \in {None, File} : EditHome(q, entry)
           \/ \E q1, q2 \in Paths : MoveLink(q1, q2)
  <2>1. run' = run /\ run.stage = "idle"
    BY <1>8 DEF EditHome, MoveLink
  <2> QED BY <1>0, <1>8, <2>1, UserHeld DEF StayInv, Ready
<1>9. ASSUME NEW d \in Docs, Replace(d) PROVE StayInv'
  <2>1. run' = run /\ run.stage \in {"idle", "prompt"} /\ adopted' = {} /\ home' = home
    BY <1>9 DEF Replace
  <2>2. Held'
    BY <1>0, <1>9, UserHeld
  <2>3. Ready'
    <3>1. CASE run.stage = "idle"
      BY <2>1, <3>1 DEF Ready
    <3>2. CASE run.stage = "prompt"
      BY <1>0, <2>1, <3>2, StillReady
    <3> QED BY <2>1, <3>1, <3>2
  <2> QED BY <2>2, <2>3 DEF StayInv
<1>10. CASE UNCHANGED vars
  <2>1. UNCHANGED <<home, repo, doc, adopted>> /\ run' = run
    BY <1>10 DEF vars, disk
  <2>2. Ready'
    BY <1>0, <2>1 DEF Ready, Surveyed, Vacant, InPlace, At
  <2> QED BY <1>0, <2>1, <2>2, Unmoved DEF StayInv
<1> QED BY <1>2, <1>3, <1>4, <1>5, <1>6, <1>7, <1>8, <1>9, <1>10 DEF Next

LEMMA InitStay == Init => StayInv
<1> SUFFICES ASSUME Init PROVE StayInv
  OBVIOUS
<1>1. DocOK(doc) /\ run = Idle /\ adopted = {}
  BY DocsOK DEF Init
<1>2. Targets(doc) \subseteq PathNames
  <2>1. ASSUME NEW c \in Claims(doc) PROVE c.to \in PathNames
    <3>1. PICK k \in Keys : \E i \in DOMAIN doc.pkg[k].entries : c \in ClaimsOf(k, doc.pkg[k].entries[i])
      BY DEF Claims
    <3>2. PICK i \in DOMAIN doc.pkg[k].entries : c \in ClaimsOf(k, doc.pkg[k].entries[i])
      BY <3>1
    <3>3. PICK s \in ToSet(doc.pkg[k].entries[i].symlinks) :
            c.to = Normalized(doc.pkg[k].entries[i].source) \o s
      BY <3>2, SMTT(30) DEF ClaimsOf
    <3>4. s \in PathNames /\ Normalized(doc.pkg[k].entries[i].source) \in PathNames
      BY <1>1, EntryTyped
    <3> QED BY <3>3, <3>4, ConcatIs DEF PathNames
  <2> QED BY <2>1 DEF Targets
<1>3. home \in [Paths -> Places]
  <2>1. {None, File} \cup {Link(t) : t \in Targets(doc)} \subseteq Places
    <3>1. None \in Places /\ File \in Places
      BY DEF None, File, Places, PathNames
    <3>2. \A t \in PathNames : Link(t) \in Places
      BY DEF Link, Places
    <3> QED BY <1>2, <3>1, <3>2
  <2> QED BY <2>1 DEF Init
<1>4. Held
  BY <1>1, <1>3 DEF Held, AdoptedStays
<1> QED BY <1>1, <1>4 DEF StayInv, Ready, Idle

\* What a plan relies on is still so when the document is written, whatever the
\* user and the pulls do while it waits (import/mod.rs:211, 1344).
THEOREM AdoptedInvariant == Spec => []StayInv
<1>1. LInv /\ StayInv /\ [Next]_vars => StayInv'
  BY NextStay
<1> QED BY <1>1, InitStay, Invariant, PTL DEF Spec

\* What an import took over stays linked, and in the document, through whatever
\* imports follow (import/mod.rs:1344, config/pkg_config_files.rs:64).
THEOREM AdoptedFilesStay == Spec => []AdoptedStays
<1>1. StayInv => AdoptedStays
  BY DEF StayInv, Held
<1> QED BY <1>1, AdoptedInvariant, PTL
=================================================================================
