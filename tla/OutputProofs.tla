----------------------------- MODULE OutputProofs -----------------------------
(* The renderers deliver, whatever the commands, the lists and the plans: for  *)
(* every value of the constants of Output, a command shows what it pushed once *)
(* and keeps the promise of the Output trait (Channel).                        *)
EXTENDS OutputInv, BasicFacts

RangeOf(s) == {s[i] : i \in DOMAIN s}

-----------------------------------------------------------------------------
(* Sequences of pieces, as sets                                            *)

LEMMA ConcatRange ==
  ASSUME NEW S, NEW s \in Seq(S), NEW t \in Seq(S)
  PROVE  s \o t \in Seq(S) /\ RangeOf(s \o t) = RangeOf(s) \cup RangeOf(t)
<1>1. s \o t \in Seq(S) /\ Len(s \o t) = Len(s) + Len(t)
  OBVIOUS
<1>2. ASSUME NEW x \in RangeOf(s \o t) PROVE x \in RangeOf(s) \cup RangeOf(t)
  BY <1>1 DEF RangeOf
<1>3. ASSUME NEW i \in DOMAIN s PROVE s[i] \in RangeOf(s \o t)
  <2>1. i \in DOMAIN (s \o t) /\ (s \o t)[i] = s[i]
    BY <1>1
  <2> QED BY <2>1 DEF RangeOf
<1>4. ASSUME NEW i \in DOMAIN t PROVE t[i] \in RangeOf(s \o t)
  <2>1. Len(s) + i \in DOMAIN (s \o t) /\ (s \o t)[Len(s) + i] = t[i]
    BY <1>1
  <2> QED BY <2>1 DEF RangeOf
<1> QED BY <1>1, <1>2, <1>3, <1>4 DEF RangeOf

LEMMA AppendRange ==
  ASSUME NEW S, NEW s \in Seq(S), NEW x \in S
  PROVE  Append(s, x) \in Seq(S) /\ RangeOf(Append(s, x)) = RangeOf(s) \cup {x}
<1>1. /\ Append(s, x) \in Seq(S) /\ Len(Append(s, x)) = Len(s) + 1
      /\ \A i \in 1..Len(s) : Append(s, x)[i] = s[i]
      /\ Append(s, x)[Len(s) + 1] = x
  OBVIOUS
<1>2. ASSUME NEW y \in RangeOf(Append(s, x)) PROVE y \in RangeOf(s) \cup {x}
  BY <1>1 DEF RangeOf
<1>3. ASSUME NEW i \in DOMAIN s PROVE s[i] \in RangeOf(Append(s, x))
  <2>1. i \in DOMAIN Append(s, x) /\ Append(s, x)[i] = s[i]
    BY <1>1
  <2> QED BY <2>1 DEF RangeOf
<1>4. x \in RangeOf(Append(s, x))
  <2>1. Len(s) + 1 \in DOMAIN Append(s, x)
    BY <1>1
  <2> QED BY <1>1, <2>1 DEF RangeOf
<1> QED BY <1>1, <1>2, <1>3, <1>4 DEF RangeOf

LEMMA PrefixRange ==
  ASSUME NEW S, NEW s \in Seq(S), NEW k \in 1..Len(s)
  PROVE  SubSeq(s, 1, k - 1) \in Seq(S) /\ RangeOf(SubSeq(s, 1, k - 1)) \subseteq RangeOf(s)
<1> DEFINE p == SubSeq(s, 1, k - 1)
<1>1. p \in Seq(S) /\ Len(p) = k - 1 /\ \A i \in 1..(k - 1) : p[i] = s[i]
  OBVIOUS
<1>2. ASSUME NEW i \in DOMAIN p PROVE p[i] \in RangeOf(s)
  <2>1. i \in DOMAIN s /\ p[i] = s[i]
    BY <1>1
  <2> QED BY <2>1 DEF RangeOf
<1> QED BY <1>1, <1>2 DEF RangeOf

LEMMA PiecesRange ==
  ASSUME NEW numbers \in Seq(Nat), NEW part \in Parts
  PROVE  /\ Pieces(numbers, part) \in Seq(PieceSet)
         /\ RangeOf(Pieces(numbers, part)) = [by : NumbersIn(numbers), part : {part}]
<1>1. Pieces(numbers, part) \in Seq(PieceSet) /\ Len(Pieces(numbers, part)) = Len(numbers)
  BY DEF Pieces, PieceSet
<1>2. ASSUME NEW x \in RangeOf(Pieces(numbers, part))
      PROVE  x \in [by : NumbersIn(numbers), part : {part}]
  BY <1>1 DEF RangeOf, Pieces, NumbersIn
<1>3. ASSUME NEW x \in [by : NumbersIn(numbers), part : {part}]
      PROVE  x \in RangeOf(Pieces(numbers, part))
  <2>1. PICK i \in DOMAIN numbers : x.by = numbers[i]
    BY DEF NumbersIn
  <2>2. x = [by |-> numbers[i], part |-> part]
    BY <2>1
  <2>3. i \in DOMAIN Pieces(numbers, part) /\ Pieces(numbers, part)[i] = x
    BY <2>2 DEF Pieces
  <2> QED BY <2>3 DEF RangeOf
<1> QED BY <1>1, <1>2, <1>3

LEMMA EmptyRange == RangeOf(<<>>) = {} /\ NumbersIn(<<>>) = {} /\ \A S : <<>> \in Seq(S)
BY DEF RangeOf, NumbersIn

-----------------------------------------------------------------------------
(* The renderer                                                            *)

ToldIn(s) == {piece \in RangeOf(s) : ByEvent(piece)}
NewDue(n, e) == [by : {n}, part : DueParts(e)]

LEMMA PieceConcat ==
  ASSUME NEW s \in Seq(PieceSet), NEW t \in Seq(PieceSet)
  PROVE  /\ s \o t \in Seq(PieceSet)
         /\ RangeOf(s \o t) = RangeOf(s) \cup RangeOf(t)
         /\ ToldIn(s \o t) = ToldIn(s) \cup ToldIn(t)
BY ConcatRange DEF ToldIn

LEMMA OnePiece ==
  ASSUME NEW x \in PieceSet
  PROVE  <<x>> \in Seq(PieceSet) /\ RangeOf(<<x>>) = {x}
BY DEF RangeOf

LEMMA HeldTyped ==
  ASSUME NEW r, RenderOK(r)
  PROVE  /\ HeldBy(r) \subseteq PieceSet
         /\ \A p \in HeldBy(r) : p.by > 0 => ByEvent(p)
<1>1. \A s \in Seq(Nat) : NumbersIn(s) \subseteq Nat
  BY DEF NumbersIn
<1>2. /\ NumbersIn(r.lines) \subseteq Nat /\ NumbersIn(r.rows) \subseteq Nat
      /\ NumbersIn(r.diffs) \subseteq Nat /\ r.footer \in Nat
  BY <1>1 DEF RenderOK
<1>3. ASSUME NEW p \in HeldBy(r) PROVE p \in PieceSet /\ p.part # "title"
  <2>1. CASE p \in [by : NumbersIn(r.lines) \cup NumbersIn(r.rows), part : {"row"}]
    BY <1>2, <2>1 DEF PieceSet, Parts
  <2>2. CASE p \in [by : NumbersIn(r.diffs), part : {"diff"}]
    BY <1>2, <2>2 DEF PieceSet, Parts
  <2>3. CASE p \in [by : {r.footer} \ {0}, part : {"footer"}]
    BY <1>2, <2>3 DEF PieceSet, Parts
  <2> QED BY <1>3, <2>1, <2>2, <2>3 DEF HeldBy
<1> QED BY <1>3 DEF ByEvent

LEMMA EmptiedHolds ==
  ASSUME NEW r, RenderOK(r), NEW kind \in {"none", "status", "pkg"}
  PROVE  /\ RenderOK([Emptied(r) EXCEPT !.pending = kind])
         /\ HeldBy([Emptied(r) EXCEPT !.pending = kind]) = {}
<1> DEFINE q == [Emptied(r) EXCEPT !.pending = kind]
<1>1. q = [pending |-> kind, lines |-> <<>>, diffs |-> <<>>, rows |-> <<>>,
           footer |-> 0, section |-> r.section]
  <2>1. Emptied(r) = [pending |-> "none", lines |-> <<>>, diffs |-> <<>>, rows |-> <<>>,
                      footer |-> 0, section |-> r.section]
    BY DEF Emptied, FreshRenderer
  <2> QED BY <2>1
<1>2. RenderOK(q)
  BY <1>1, EmptyRange DEF RenderOK
<1>3. HeldBy(q) = {}
  BY <1>1, EmptyRange DEF HeldBy
<1> QED BY <1>2, <1>3

LEMMA FreshHolds == RenderOK(FreshRenderer) /\ HeldBy(FreshRenderer) = {}
<1>1. RenderOK(FreshRenderer)
  BY EmptyRange DEF RenderOK, FreshRenderer
<1>2. HeldBy(FreshRenderer) = {}
  BY EmptyRange DEF HeldBy, FreshRenderer
<1> QED BY <1>1, <1>2

\* A flush writes what the renderer holds.
LEMMA FlushedHeld ==
  ASSUME NEW r, RenderOK(r)
  PROVE  Flushed(r) \in Seq(PieceSet) /\ RangeOf(Flushed(r)) = HeldBy(r)
<1>1. /\ r.lines \in Seq(Nat) /\ r.diffs \in Seq(Nat) /\ r.rows \in Seq(Nat) /\ r.footer \in Nat
      /\ r.pending \in {"none", "status", "pkg"}
  BY DEF RenderOK
<1>2. /\ Pieces(r.lines, "row") \in Seq(PieceSet)
      /\ Pieces(r.diffs, "diff") \in Seq(PieceSet)
      /\ Pieces(r.rows, "row") \in Seq(PieceSet)
      /\ RangeOf(Pieces(r.lines, "row")) = [by : NumbersIn(r.lines), part : {"row"}]
      /\ RangeOf(Pieces(r.diffs, "diff")) = [by : NumbersIn(r.diffs), part : {"diff"}]
      /\ RangeOf(Pieces(r.rows, "row")) = [by : NumbersIn(r.rows), part : {"row"}]
  <2>1. {"row", "diff"} \subseteq Parts
    BY DEF Parts
  <2> QED BY <1>1, <2>1, PiecesRange
<1>3. /\ Footer(r.footer) \in Seq(PieceSet)
      /\ RangeOf(Footer(r.footer)) = [by : {r.footer} \ {0}, part : {"footer"}]
  <2>1. CASE r.footer = 0
    <3>1. Footer(r.footer) = <<>> /\ {r.footer} \ {0} = {}
      BY <2>1 DEF Footer
    <3> QED BY <3>1, EmptyRange
  <2>2. CASE r.footer # 0
    <3> DEFINE x == [by |-> r.footer, part |-> "footer"]
    <3>1. Footer(r.footer) = <<x>> /\ x \in PieceSet
      BY <1>1, <2>2 DEF Footer, PieceSet, Parts
    <3>2. RangeOf(<<x>>) = {x} /\ <<x>> \in Seq(PieceSet)
      BY <3>1 DEF RangeOf
    <3>3. [by : {r.footer} \ {0}, part : {"footer"}] = {x}
      <4>1. ASSUME NEW p \in [by : {r.footer} \ {0}, part : {"footer"}] PROVE p = x
        OBVIOUS
      <4>2. x \in [by : {r.footer} \ {0}, part : {"footer"}]
        BY <2>2
      <4> QED BY <4>1, <4>2
    <3> QED BY <3>1, <3>2, <3>3
  <2> QED BY <2>1, <2>2
<1>4. CASE r.pending = "status"
  <2>1. NumbersIn(r.rows) = {} /\ {r.footer} \ {0} = {}
    BY <1>4, EmptyRange DEF RenderOK
  <2>2. Flushed(r) = Pieces(r.lines, "row") \o Pieces(r.diffs, "diff")
    BY <1>4 DEF Flushed
  <2>3. HeldBy(r) = [by : NumbersIn(r.lines), part : {"row"}] \cup [by : NumbersIn(r.diffs), part : {"diff"}]
    BY <2>1 DEF HeldBy
  <2>4. /\ Flushed(r) \in Seq(PieceSet)
        /\ RangeOf(Flushed(r)) = RangeOf(Pieces(r.lines, "row")) \cup RangeOf(Pieces(r.diffs, "diff"))
    BY <1>2, <2>2, PieceConcat
  <2> QED BY <1>2, <2>3, <2>4, Zenon
<1>5. CASE r.pending = "pkg"
  <2>1. NumbersIn(r.lines) = {} /\ NumbersIn(r.diffs) = {}
    BY <1>5, EmptyRange DEF RenderOK
  <2>2. Flushed(r) = Pieces(r.rows, "row") \o Footer(r.footer)
    BY <1>5 DEF Flushed
  <2>3. HeldBy(r) = [by : NumbersIn(r.rows), part : {"row"}] \cup [by : {r.footer} \ {0}, part : {"footer"}]
    BY <2>1 DEF HeldBy
  <2>4. /\ Flushed(r) \in Seq(PieceSet)
        /\ RangeOf(Flushed(r)) = RangeOf(Pieces(r.rows, "row")) \cup RangeOf(Footer(r.footer))
    BY <1>2, <1>3, <2>2, PieceConcat, ZenonT(40)
  <2> QED BY <1>2, <1>3, <2>3, <2>4, Zenon
<1>6. CASE r.pending = "none"
  <2>1. NumbersIn(r.lines) = {} /\ NumbersIn(r.diffs) = {} /\ NumbersIn(r.rows) = {} /\ {r.footer} \ {0} = {}
    BY <1>6, EmptyRange DEF RenderOK
  <2>2. Flushed(r) = <<>> /\ HeldBy(r) = {}
    BY <1>6, <2>1 DEF Flushed, HeldBy
  <2> QED BY <2>2, EmptyRange
<1> QED BY <1>1, <1>4, <1>5, <1>6

\* What an event of no block has written at once is what it is due.
LEMMA InlineDue ==
  ASSUME NEW r, NEW n \in Nat \ {0}, NEW e \in Events, ~cmd.json
  PROVE  /\ Inline(r, n, e) \in Seq(PieceSet)
         /\ Block(e) = "none" => ToldIn(Inline(r, n, e)) = NewDue(n, e)
         /\ Block(e) # "none" => Inline(r, n, e) = <<>>
<1> DEFINE title == [by |-> n, part |-> "title"]
           text == [by |-> n, part |-> "text"]
<1>1. title \in PieceSet /\ text \in PieceSet /\ ~ByEvent(title) /\ ByEvent(text)
  BY DEF PieceSet, Parts, ByEvent
<1>2. /\ Text(n) \in Seq(PieceSet)
      /\ ToldIn(Text(n)) = {text}
  BY <1>1, OnePiece DEF Text, ToldIn
<1>3. /\ Title(r, n, e) \in Seq(PieceSet)
      /\ ToldIn(Title(r, n, e)) = {}
  <2>1. CASE r.section = e.of
    BY <2>1, EmptyRange DEF Title, ToldIn
  <2>2. CASE r.section # e.of
    <3>1. Title(r, n, e) = <<title>>
      BY <2>2 DEF Title
    <3> QED BY <1>1, <3>1, OnePiece DEF ToldIn
  <2> QED BY <2>1, <2>2
<1>4. /\ Title(r, n, e) \o Text(n) \in Seq(PieceSet)
      /\ ToldIn(Title(r, n, e) \o Text(n)) = {text}
  BY <1>2, <1>3, PieceConcat
<1>5. [by : {n}, part : {"text"}] = {text} /\ [by : {n}, part : {}] = {}
  <2>1. ASSUME NEW p \in [by : {n}, part : {"text"}] PROVE p = text
    OBVIOUS
  <2>2. text \in [by : {n}, part : {"text"}]
    OBVIOUS
  <2> QED BY <2>1, <2>2
<1>6. <<>> \in Seq(PieceSet) /\ ToldIn(<<>>) = {}
  BY EmptyRange DEF ToldIn
<1>7. Inline(r, n, e) \in Seq(PieceSet)
  BY <1>2, <1>3, <1>4, <1>6 DEF Inline
<1>8. Block(e) # "none" => Inline(r, n, e) = <<>>
  BY DEF Inline, Block
<1>9. ASSUME Block(e) = "none" PROVE ToldIn(Inline(r, n, e)) = NewDue(n, e)
  <2>0. e.type \in {"pkg_note", "section", "check", "init_summary", "plan", "applied"}
    BY <1>9 DEF Block, Events, Kinds
  <2>1. CASE e.type = "section"
    <3>1. Inline(r, n, e) = Title(r, n, e) /\ DueParts(e) = {}
      BY <2>1 DEF Inline, DueParts
    <3> QED BY <1>3, <1>5, <3>1 DEF NewDue
  <2>2. CASE e.type = "check"
    <3>1. Inline(r, n, e) = Title(r, n, e) \o Text(n) /\ DueParts(e) = {"text"}
      BY <2>2 DEF Inline, DueParts
    <3> QED BY <1>4, <1>5, <3>1 DEF NewDue
  <2>3. CASE e.type = "applied" /\ e.is = "noop"
    <3>1. Inline(r, n, e) = <<>> /\ DueParts(e) = {}
      BY <2>3 DEF Inline, DueParts
    <3> QED BY <1>5, <1>6, <3>1 DEF NewDue
  <2>4. CASE e.type \in {"pkg_note", "init_summary", "plan"} \/ (e.type = "applied" /\ e.is # "noop")
    <3>1. Inline(r, n, e) = Text(n) /\ DueParts(e) = {"text"}
      BY <2>4 DEF Inline, DueParts
    <3> QED BY <1>2, <1>5, <3>1 DEF NewDue
  <2> QED BY <2>0, <2>1, <2>2, <2>3, <2>4
<1> QED BY <1>7, <1>8, <1>9

\* A buffered event is held with the parts it is due.
LEMMA BufferedHeld ==
  ASSUME NEW n \in Nat \ {0}, NEW e \in Events, ~cmd.json,
         NEW r, RenderOK(r), r.pending = Block(e),
         e.type = "pkg_footer" => r.footer = 0
  PROVE  /\ RenderOK(Buffered(cmd, r, n, e))
         /\ Block(e) # "none" => HeldBy(Buffered(cmd, r, n, e)) = HeldBy(r) \cup NewDue(n, e)
         /\ Block(e) = "none" => HeldBy(Buffered(cmd, r, n, e)) = HeldBy(r)
<1> DEFINE k == Buffered(cmd, r, n, e)
<1>1. \A s \in Seq(Nat) : Append(s, n) \in Seq(Nat) /\ NumbersIn(Append(s, n)) = NumbersIn(s) \cup {n}
  <2>1. \A s : NumbersIn(s) = RangeOf(s)
    BY DEF NumbersIn, RangeOf
  <2>2. ASSUME NEW s \in Seq(Nat) PROVE Append(s, n) \in Seq(Nat) /\ RangeOf(Append(s, n)) = RangeOf(s) \cup {n}
    BY AppendRange
  <2> QED BY <2>1, <2>2
<1>2. e.type \in Kinds
  BY DEF Events
<1>3. CASE Block(e) = "status"
  <2> DEFINE lines == WithRow(cmd, r, n, e)
             diffs == WithDiff(cmd, r, n, e)
  <2>1. k = [r EXCEPT !.lines = lines, !.diffs = diffs]
    BY <1>3 DEF Buffered, Block
  <2>2. /\ k.lines = lines /\ k.diffs = diffs /\ k.rows = r.rows /\ k.footer = r.footer
        /\ k.pending = r.pending
        /\ k = [pending |-> k.pending, lines |-> k.lines, diffs |-> k.diffs, rows |-> k.rows,
                footer |-> k.footer, section |-> k.section]
    BY <2>1 DEF RenderOK
  <2>3. lines \in Seq(Nat) /\ diffs \in Seq(Nat)
    BY <1>1 DEF RenderOK, WithRow, WithDiff
  <2>4. RenderOK(k)
    BY <1>3, <2>2, <2>3 DEF RenderOK
  <2>5. DueParts(e) = {p \in {"row", "diff"} : IF p = "row" THEN RowShown(cmd, e) ELSE DiffShown(cmd, e)}
    <3>1. CASE e.type = "status"
      BY <3>1 DEF DueParts
    <3>2. CASE e.type = "action"
      BY <3>2 DEF DueParts, RowShown, DiffShown
    <3> QED BY <1>2, <1>3, <3>1, <3>2 DEF Block, Kinds
  <2>6. /\ NumbersIn(lines) = NumbersIn(r.lines) \cup (IF RowShown(cmd, e) THEN {n} ELSE {})
        /\ NumbersIn(diffs) = NumbersIn(r.diffs) \cup (IF DiffShown(cmd, e) THEN {n} ELSE {})
    BY <1>1 DEF RenderOK, WithRow, WithDiff
  <2>7. HeldBy(k) = [by : NumbersIn(lines) \cup NumbersIn(r.rows), part : {"row"}] \cup
                    [by : NumbersIn(diffs), part : {"diff"}] \cup
                    [by : {r.footer} \ {0}, part : {"footer"}]
    BY <2>2 DEF HeldBy
  <2> HIDE DEF lines, diffs, k
  <2>8. ASSUME NEW p PROVE p \in HeldBy(k) <=> p \in HeldBy(r) \cup NewDue(n, e)
    <3> USE DEF HeldBy, NewDue
    <3>1. ASSUME p \in HeldBy(k) PROVE p \in HeldBy(r) \cup NewDue(n, e)
      <4>1. CASE p \in [by : NumbersIn(lines) \cup NumbersIn(r.rows), part : {"row"}]
        BY <2>5, <2>6, <4>1
      <4>2. CASE p \in [by : NumbersIn(diffs), part : {"diff"}]
        BY <2>5, <2>6, <4>2
      <4>3. CASE p \in [by : {r.footer} \ {0}, part : {"footer"}]
        BY <4>3
      <4> QED BY <2>7, <3>1, <4>1, <4>2, <4>3
    <3>2. ASSUME p \in HeldBy(r) PROVE p \in HeldBy(k)
      BY <2>6, <2>7, <3>2
    <3>3. ASSUME p \in NewDue(n, e) PROVE p \in HeldBy(k)
      BY <2>5, <2>6, <2>7, <3>3
    <3> QED BY <3>1, <3>2, <3>3
  <2> QED BY <1>3, <2>4, <2>8 DEF k
<1>4. CASE e.type = "pkg_row"
  <2> DEFINE rows == Append(r.rows, n)
  <2>1. Block(e) = "pkg" /\ k = [r EXCEPT !.rows = rows] /\ DueParts(e) = {"row"}
    BY <1>4 DEF Buffered, Block, DueParts
  <2>2. /\ k.lines = r.lines /\ k.diffs = r.diffs /\ k.rows = rows /\ k.footer = r.footer
        /\ k.pending = r.pending
        /\ k = [pending |-> k.pending, lines |-> k.lines, diffs |-> k.diffs, rows |-> k.rows,
                footer |-> k.footer, section |-> k.section]
    BY <2>1 DEF RenderOK
  <2>3. rows \in Seq(Nat) /\ NumbersIn(rows) = NumbersIn(r.rows) \cup {n}
    BY <1>1 DEF RenderOK
  <2>4. RenderOK(k)
    BY <2>1, <2>2, <2>3 DEF RenderOK
  <2>5. HeldBy(k) = [by : NumbersIn(r.lines) \cup NumbersIn(rows), part : {"row"}] \cup
                    [by : NumbersIn(r.diffs), part : {"diff"}] \cup
                    [by : {r.footer} \ {0}, part : {"footer"}]
    BY <2>2 DEF HeldBy
  <2> HIDE DEF rows, k
  <2>6. HeldBy(k) = HeldBy(r) \cup NewDue(n, e)
    BY <2>1, <2>3, <2>5 DEF HeldBy, NewDue
  <2> QED BY <2>1, <2>4, <2>6 DEF k
<1>5. CASE e.type = "pkg_footer"
  <2>1. Block(e) = "pkg" /\ k = [r EXCEPT !.footer = n] /\ DueParts(e) = {"footer"}
    BY <1>5 DEF Buffered, Block, DueParts
  <2>2. /\ k.lines = r.lines /\ k.diffs = r.diffs /\ k.rows = r.rows /\ k.footer = n
        /\ k.pending = r.pending
        /\ k = [pending |-> k.pending, lines |-> k.lines, diffs |-> k.diffs, rows |-> k.rows,
                footer |-> k.footer, section |-> k.section]
    BY <2>1 DEF RenderOK
  <2>3. RenderOK(k)
    BY <2>1, <2>2 DEF RenderOK
  <2>4. HeldBy(k) = [by : NumbersIn(r.lines) \cup NumbersIn(r.rows), part : {"row"}] \cup
                    [by : NumbersIn(r.diffs), part : {"diff"}] \cup
                    [by : {n}, part : {"footer"}]
    <3>1. {n} \ {0} = {n}
      OBVIOUS
    <3> QED BY <2>2, <3>1 DEF HeldBy
  <2> HIDE DEF k
  <2>5. HeldBy(k) = HeldBy(r) \cup NewDue(n, e)
    <3>1. {r.footer} \ {0} = {}
      BY <1>5
    <3>2. HeldBy(r) = [by : NumbersIn(r.lines) \cup NumbersIn(r.rows), part : {"row"}] \cup
                      [by : NumbersIn(r.diffs), part : {"diff"}]
      BY <3>1 DEF HeldBy
    <3> QED BY <2>1, <2>4, <3>2 DEF NewDue
  <2> QED BY <2>1, <2>3, <2>5 DEF k
<1>6. CASE Block(e) = "none"
  <2>1. k = r \/ k = [r EXCEPT !.section = e.of]
    BY <1>6 DEF Buffered, Block
  <2>2. /\ k.lines = r.lines /\ k.diffs = r.diffs /\ k.rows = r.rows /\ k.footer = r.footer
        /\ k.pending = r.pending
        /\ k = [pending |-> k.pending, lines |-> k.lines, diffs |-> k.diffs, rows |-> k.rows,
                footer |-> k.footer, section |-> k.section]
    BY <2>1 DEF RenderOK
  <2> HIDE DEF k
  <2>3. RenderOK(k) /\ HeldBy(k) = HeldBy(r)
    BY <2>2 DEF RenderOK, HeldBy
  <2> QED BY <1>6, <2>3 DEF k
<1> QED BY <1>2, <1>3, <1>4, <1>5, <1>6 DEF Block, Kinds

\* What a push writes and what the renderer then holds is what it held before
\* and what the event is due, and nothing of it is in both.
LEMMA PushDelivers ==
  ASSUME NEW n \in Nat \ {0}, NEW e \in Events, CmdOK,
         NEW r, RenderOK(r), cmd.json => r = FreshRenderer,
         \A p \in HeldBy(r) : p.by > 0 /\ p.by < n,
         e.type = "pkg_footer" => r.footer = 0
  PROVE  LET out == PushWrites(cmd, r, n, e)
             k == PushKeeps(cmd, r, n, e) IN
           /\ out \in Seq(PieceSet)
           /\ RenderOK(k)
           /\ cmd.json => k = FreshRenderer
           /\ ToldIn(out) \cup HeldBy(k) = HeldBy(r) \cup NewDue(n, e)
           /\ ToldIn(out) \cap HeldBy(k) = {}
           /\ e.type # "pkg_footer" => k.footer \in {0, r.footer}
<1> DEFINE out == PushWrites(cmd, r, n, e)
           k == PushKeeps(cmd, r, n, e)
<1>1. CASE cmd.json
  <2>1. k = r /\ HeldBy(k) = {}
    BY <1>1, FreshHolds DEF PushKeeps
  <2> DEFINE x == [by |-> n, part |-> "json"]
  <2>2. x \in PieceSet /\ ByEvent(x)
    BY DEF PieceSet, Parts, ByEvent
  <2>3. out \in Seq(PieceSet) /\ ToldIn(out) = NewDue(n, e)
    <3>1. CASE e.type = "section"
      <4>1. out = <<>> /\ DueParts(e) = {}
        BY <1>1, <3>1 DEF PushWrites, DueParts
      <4> QED BY <4>1, EmptyRange DEF ToldIn, NewDue
    <3>2. CASE e.type # "section"
      <4>1. out = <<x>> /\ DueParts(e) = {"json"}
        BY <1>1, <3>2 DEF PushWrites, DueParts
      <4>2. ToldIn(<<x>>) = {x} /\ <<x>> \in Seq(PieceSet)
        BY <2>2, OnePiece DEF ToldIn
      <4>3. ASSUME NEW p \in [by : {n}, part : {"json"}] PROVE p = x
        OBVIOUS
      <4>4. x \in [by : {n}, part : {"json"}]
        OBVIOUS
      <4> QED BY <4>1, <4>2, <4>3, <4>4 DEF NewDue
    <3> QED BY <3>1, <3>2
  <2> QED BY <1>1, <2>1, <2>3
<1>2. CASE ~cmd.json
  <2> DEFINE q == Entered(r, e)
             flushed == EnterWrites(r, e)
             inline == Inline(r, n, e)
  <2>1. out = flushed \o inline /\ k = Buffered(cmd, q, n, e)
    BY <1>2 DEF PushWrites, PushKeeps
  <2>2. Block(e) \in {"none", "status", "pkg"}
    BY DEF Block
  <2>3. \A p \in HeldBy(r) : ByEvent(p)
    BY HeldTyped
  <2>4. /\ RenderOK(q) /\ q.pending = Block(e)
        /\ q.footer \in {0, r.footer}
        /\ flushed \in Seq(PieceSet)
        /\ \/ ToldIn(flushed) = {} /\ HeldBy(q) = HeldBy(r)
           \/ ToldIn(flushed) = HeldBy(r) /\ HeldBy(q) = {}
    <3>1. CASE r.pending = Block(e)
      <4>1. q = r /\ flushed = <<>>
        BY <3>1 DEF Entered, EnterWrites
      <4> QED BY <3>1, <4>1, EmptyRange DEF ToldIn
    <3>2. CASE r.pending # Block(e)
      <4>1. q = [Emptied(r) EXCEPT !.pending = Block(e)] /\ flushed = Flushed(r)
        BY <3>2 DEF Entered, EnterWrites
      <4>2. RenderOK(q) /\ HeldBy(q) = {}
        BY <2>2, <4>1, EmptiedHolds, ZenonT(40)
      <4>3. q.pending = Block(e) /\ q.footer = 0
        BY <4>1 DEF Emptied, FreshRenderer
      <4>4. flushed \in Seq(PieceSet) /\ ToldIn(flushed) = HeldBy(r)
        BY <2>3, <4>1, FlushedHeld DEF ToldIn
      <4> QED BY <4>2, <4>3, <4>4
    <3> QED BY <3>1, <3>2
  <2>5. /\ inline \in Seq(PieceSet)
        /\ Block(e) = "none" => ToldIn(inline) = NewDue(n, e)
        /\ Block(e) # "none" => ToldIn(inline) = {}
    BY <1>2, InlineDue, EmptyRange DEF ToldIn
  <2>6. e.type = "pkg_footer" => q.footer = 0
    BY <2>4
  <2>7. /\ RenderOK(k)
        /\ Block(e) # "none" => HeldBy(k) = HeldBy(q) \cup NewDue(n, e)
        /\ Block(e) = "none" => HeldBy(k) = HeldBy(q)
    BY <1>2, <2>1, <2>4, <2>6, BufferedHeld
  <2>8. out \in Seq(PieceSet) /\ ToldIn(out) = ToldIn(flushed) \cup ToldIn(inline)
    BY <2>1, <2>4, <2>5, PieceConcat
  <2>9. \A p \in NewDue(n, e) : p.by = n
    BY DEF NewDue
  <2>10. HeldBy(r) \cap NewDue(n, e) = {}
    BY <2>9
  <2>11. Block(e) = "none" => HeldBy(q) = {}
    <3>1. ASSUME Block(e) = "none" PROVE HeldBy(q) = {}
      <4>1. /\ NumbersIn(q.lines) = {} /\ NumbersIn(q.diffs) = {} /\ NumbersIn(q.rows) = {}
            /\ {q.footer} \ {0} = {}
        BY <2>4, <3>1, EmptyRange DEF RenderOK
      <4> QED BY <4>1 DEF HeldBy
    <3> QED BY <3>1
  <2>12. e.type # "pkg_footer" => k.footer \in {0, r.footer}
    <3>1. e.type # "pkg_footer" => k.footer = q.footer
      BY <2>1, <2>4 DEF Buffered, RenderOK
    <3> QED BY <2>4, <3>1
  <2> HIDE DEF out, k, q, flushed, inline
  <2>13. /\ ToldIn(out) \cup HeldBy(k) = HeldBy(r) \cup NewDue(n, e)
         /\ ToldIn(out) \cap HeldBy(k) = {}
    <3>1. CASE Block(e) = "none"
      BY <2>4, <2>5, <2>7, <2>8, <2>11, <3>1
    <3>2. CASE Block(e) # "none"
      <4>1. ToldIn(out) = ToldIn(flushed) /\ HeldBy(k) = HeldBy(q) \cup NewDue(n, e)
        BY <2>5, <2>7, <2>8, <3>2
      <4> QED BY <2>4, <2>10, <4>1
    <3> QED BY <3>1, <3>2
  <2> QED BY <1>2, <2>7, <2>8, <2>12, <2>13 DEF out, k
<1> HIDE DEF out, k
<1>3. QED BY <1>1, <1>2 DEF out, k, CmdOK

-----------------------------------------------------------------------------
(* The order of what is written                                            *)

LEMMA OrderedConcat ==
  ASSUME NEW s \in Seq(PieceSet), NEW t \in Seq(PieceSet), Ordered(s), Ordered(t),
         \A p \in RangeOf(s), q \in RangeOf(t) : Before(p, q)
  PROVE  Ordered(s \o t)
<1> DEFINE u == s \o t
<1>1. /\ Len(s) \in Nat /\ Len(t) \in Nat /\ DOMAIN u = 1..(Len(s) + Len(t))
      /\ \A i \in 1..Len(s) : u[i] = s[i]
      /\ \A i \in 1..(Len(s) + Len(t)) : i > Len(s) => u[i] = t[i - Len(s)]
      /\ DOMAIN s = 1..Len(s) /\ DOMAIN t = 1..Len(t)
  OBVIOUS
<1> HIDE DEF u
<1> SUFFICES ASSUME NEW i \in DOMAIN u, NEW j \in DOMAIN u, i < j, u[i].by > 0, u[j].by > 0
             PROVE  Before(u[i], u[j])
  BY DEF Ordered, u
<1>2. CASE j <= Len(s)
  <2>1. i \in DOMAIN s /\ j \in DOMAIN s /\ u[i] = s[i] /\ u[j] = s[j]
    BY <1>1, <1>2
  <2> QED BY <2>1 DEF Ordered
<1>3. CASE i > Len(s)
  <2>1. /\ i - Len(s) \in DOMAIN t /\ j - Len(s) \in DOMAIN t /\ i - Len(s) < j - Len(s)
        /\ u[i] = t[i - Len(s)] /\ u[j] = t[j - Len(s)]
    BY <1>1, <1>3
  <2> QED BY <2>1 DEF Ordered
<1>4. CASE i <= Len(s) /\ j > Len(s)
  <2>1. i \in DOMAIN s /\ j - Len(s) \in DOMAIN t /\ u[i] = s[i] /\ u[j] = t[j - Len(s)]
    BY <1>1, <1>4
  <2>2. u[i] \in RangeOf(s) /\ u[j] \in RangeOf(t)
    BY <2>1 DEF RangeOf
  <2> QED BY <2>2
<1> QED BY <1>1, <1>2, <1>3, <1>4

LEMMA OrderedPrefix ==
  ASSUME NEW s \in Seq(PieceSet), Ordered(s), NEW k \in 1..Len(s)
  PROVE  Ordered(SubSeq(s, 1, k - 1))
<1> DEFINE p == SubSeq(s, 1, k - 1)
<1>1. p \in Seq(PieceSet) /\ Len(p) = k - 1 /\ \A i \in 1..(k - 1) : p[i] = s[i]
  BY PrefixIs
<1> HIDE DEF p
<1>2. \A i \in DOMAIN p : i \in DOMAIN s /\ p[i] = s[i]
  BY <1>1
<1> QED BY <1>2 DEF Ordered, p

LEMMA OrderedFew ==
  /\ Ordered(<<>>)
  /\ \A x : Ordered(<<x>>)
BY DEF Ordered

LEMMA OrderedPieces ==
  ASSUME NEW numbers \in Seq(Nat), Rising(numbers), NEW part
  PROVE  Ordered(Pieces(numbers, part))
<1>1. /\ DOMAIN Pieces(numbers, part) = DOMAIN numbers
      /\ \A i \in DOMAIN numbers : Pieces(numbers, part)[i].by = numbers[i]
  BY DEF Pieces
<1> QED BY <1>1 DEF Ordered, Before, Rising

LEMMA HeldNumbered ==
  ASSUME NEW r
  PROVE  \A p \in HeldBy(r) : p.by \in HeldNumbers(r)
BY DEF HeldBy, HeldNumbers

LEMMA NumbersHeld ==
  ASSUME NEW r
  PROVE  \A m \in HeldNumbers(r) : \E p \in HeldBy(r) : p.by = m
<1>1. ASSUME NEW m \in NumbersIn(r.lines) \cup NumbersIn(r.rows) PROVE \E p \in HeldBy(r) : p.by = m
  <2>1. [by |-> m, part |-> "row"] \in HeldBy(r)
    BY <1>1 DEF HeldBy
  <2> QED BY <2>1
<1>2. ASSUME NEW m \in NumbersIn(r.diffs) PROVE \E p \in HeldBy(r) : p.by = m
  <2>1. [by |-> m, part |-> "diff"] \in HeldBy(r)
    BY <1>2 DEF HeldBy
  <2> QED BY <2>1
<1>3. ASSUME NEW m \in {r.footer} \ {0} PROVE \E p \in HeldBy(r) : p.by = m
  <2>1. [by |-> m, part |-> "footer"] \in HeldBy(r)
    BY <1>3 DEF HeldBy
  <2> QED BY <2>1
<1> QED BY <1>1, <1>2, <1>3 DEF HeldNumbers

LEMMA FlushOrders ==
  ASSUME NEW r, RenderOK(r), RisingIn(r)
  PROVE  /\ Ordered(Flushed(r))
         /\ \A p \in RangeOf(Flushed(r)) : p.by \in HeldNumbers(r)
<1>1. \A p \in RangeOf(Flushed(r)) : p.by \in HeldNumbers(r)
  BY FlushedHeld, HeldNumbered
<1>2. /\ r.lines \in Seq(Nat) /\ r.diffs \in Seq(Nat) /\ r.rows \in Seq(Nat) /\ r.footer \in Nat
      /\ r.pending \in {"none", "status", "pkg"} /\ {"row", "diff"} \subseteq Parts
  BY DEF RenderOK, Parts
<1>3. /\ \A part \in {"row", "diff"} :
           /\ Pieces(r.lines, part) \in Seq(PieceSet)
           /\ Pieces(r.diffs, part) \in Seq(PieceSet)
           /\ Pieces(r.rows, part) \in Seq(PieceSet)
           /\ RangeOf(Pieces(r.lines, part)) = [by : NumbersIn(r.lines), part : {part}]
           /\ RangeOf(Pieces(r.diffs, part)) = [by : NumbersIn(r.diffs), part : {part}]
           /\ RangeOf(Pieces(r.rows, part)) = [by : NumbersIn(r.rows), part : {part}]
           /\ Ordered(Pieces(r.lines, part))
           /\ Ordered(Pieces(r.diffs, part))
           /\ Ordered(Pieces(r.rows, part))
  BY <1>2, PiecesRange, OrderedPieces DEF RisingIn
<1>4. CASE r.pending = "status"
  <2>1. Flushed(r) = Pieces(r.lines, "row") \o Pieces(r.diffs, "diff")
    BY <1>4 DEF Flushed
  <2>2. ASSUME NEW p \in RangeOf(Pieces(r.lines, "row")), NEW q \in RangeOf(Pieces(r.diffs, "diff"))
        PROVE  Before(p, q)
    <3>1. p \in [by : NumbersIn(r.lines), part : {"row"}]
      BY <1>3
    <3>2. q \in [by : NumbersIn(r.diffs), part : {"diff"}]
      BY <1>3
    <3> QED BY <3>1, <3>2 DEF Before
  <2> QED BY <1>1, <1>3, <2>1, <2>2, OrderedConcat
<1>5. CASE r.pending = "pkg"
  <2> DEFINE x == [by |-> r.footer, part |-> "footer"]
  <2>1. Flushed(r) = Pieces(r.rows, "row") \o Footer(r.footer)
    BY <1>5 DEF Flushed
  <2>2. CASE r.footer = 0
    <3>1. Footer(r.footer) = <<>> /\ Flushed(r) = Pieces(r.rows, "row")
      BY <1>3, <2>1, <2>2 DEF Footer
    <3> QED BY <1>1, <1>3, <3>1
  <2>3. CASE r.footer # 0
    <3>1. Footer(r.footer) = <<x>> /\ x \in PieceSet
      BY <1>2, <2>3 DEF Footer, PieceSet, Parts
    <3>2. <<x>> \in Seq(PieceSet) /\ RangeOf(<<x>>) = {x} /\ Ordered(<<x>>)
      BY <3>1, OnePiece, OrderedFew
    <3>3. ASSUME NEW p \in RangeOf(Pieces(r.rows, "row")), NEW q \in RangeOf(<<x>>)
          PROVE  Before(p, q)
      <4>1. p \in [by : NumbersIn(r.rows), part : {"row"}]
        BY <1>3
      <4>2. p.by < r.footer /\ q.by = r.footer
        BY <2>3, <3>2, <4>1 DEF RisingIn
      <4> QED BY <4>2 DEF Before
    <3> QED BY <1>1, <1>3, <2>1, <3>1, <3>2, <3>3, OrderedConcat
  <2> QED BY <2>2, <2>3
<1>6. CASE r.pending = "none"
  <2>1. Flushed(r) = <<>>
    BY <1>6 DEF Flushed
  <2> QED BY <1>1, <2>1, OrderedFew
<1> QED BY <1>2, <1>4, <1>5, <1>6

LEMMA InlineOrders ==
  ASSUME NEW r, NEW n \in Nat \ {0}, NEW e
  PROVE  /\ Inline(r, n, e) \in Seq(PieceSet)
         /\ Ordered(Inline(r, n, e))
         /\ \A p \in RangeOf(Inline(r, n, e)) : p.by = n
<1> DEFINE title == [by |-> n, part |-> "title"]
           text == [by |-> n, part |-> "text"]
<1>1. title \in PieceSet /\ text \in PieceSet
  BY DEF PieceSet, Parts
<1>2. Inline(r, n, e) \in {<<>>, <<title>>, <<text>>, <<title>> \o <<text>>, <<>> \o <<text>>}
  BY DEF Inline, Title, Text
<1>3. \A x \in {title, text} : <<x>> \in Seq(PieceSet) /\ RangeOf(<<x>>) = {x} /\ Ordered(<<x>>)
  BY <1>1, OnePiece, OrderedFew
<1>4. <<>> \in Seq(PieceSet) /\ RangeOf(<<>>) = {} /\ Ordered(<<>>) /\ <<>> \o <<text>> = <<text>>
  BY EmptyRange, OrderedFew
<1>5. /\ <<title>> \o <<text>> \in Seq(PieceSet)
      /\ RangeOf(<<title>> \o <<text>>) = {title, text}
      /\ Ordered(<<title>> \o <<text>>)
  <2>1. \A p \in RangeOf(<<title>>), q \in RangeOf(<<text>>) : Before(p, q)
    BY <1>3 DEF Before
  <2>2. <<title>> \in Seq(PieceSet) /\ <<text>> \in Seq(PieceSet)
    BY <1>3
  <2>3. /\ <<title>> \o <<text>> \in Seq(PieceSet)
        /\ RangeOf(<<title>> \o <<text>>) = RangeOf(<<title>>) \cup RangeOf(<<text>>)
    BY <2>2, PieceConcat
  <2> QED BY <1>3, <2>1, <2>2, <2>3, OrderedConcat
<1> DEFINE out == Inline(r, n, e)
<1>6. \/ out = <<>> \/ out = <<title>> \/ out = <<text>> \/ out = <<title>> \o <<text>>
  BY <1>2, <1>4
<1> HIDE DEF out
<1>7. CASE out = <<>>
  BY <1>4, <1>7 DEF out
<1>8. CASE out = <<title>> \/ out = <<text>>
  <2>1. \A p \in {title, text} : p.by = n
    OBVIOUS
  <2> HIDE DEF title, text
  <2>2. out \in Seq(PieceSet) /\ Ordered(out) /\ RangeOf(out) \subseteq {title, text}
    BY <1>3, <1>8
  <2> QED BY <2>1, <2>2 DEF out
<1>9. CASE out = <<title>> \o <<text>>
  <2>1. \A p \in {title, text} : p.by = n
    OBVIOUS
  <2> HIDE DEF title, text
  <2> QED BY <1>5, <1>9, <2>1 DEF out
<1> QED BY <1>6, <1>7, <1>8, <1>9

LEMMA RisingAppend ==
  ASSUME NEW s \in Seq(Nat), Rising(s), NEW n \in Nat, \A m \in NumbersIn(s) : m < n
  PROVE  /\ Append(s, n) \in Seq(Nat) /\ Rising(Append(s, n))
         /\ NumbersIn(Append(s, n)) = NumbersIn(s) \cup {n}
<1>1. /\ Append(s, n) \in Seq(Nat) /\ DOMAIN Append(s, n) = 1..(Len(s) + 1) /\ Len(s) \in Nat
      /\ \A i \in 1..Len(s) : Append(s, n)[i] = s[i] /\ i \in DOMAIN s
      /\ Append(s, n)[Len(s) + 1] = n
  OBVIOUS
<1>2. NumbersIn(s) = RangeOf(s) /\ NumbersIn(Append(s, n)) = RangeOf(Append(s, n))
  BY DEF NumbersIn, RangeOf
<1>3. NumbersIn(Append(s, n)) = NumbersIn(s) \cup {n}
  BY <1>2, AppendRange
<1>4. ASSUME NEW i \in DOMAIN Append(s, n), NEW j \in DOMAIN Append(s, n), i < j
      PROVE  Append(s, n)[i] < Append(s, n)[j]
  <2>1. i \in 1..Len(s)
    BY <1>1, <1>4
  <2>2. CASE j \in 1..Len(s)
    BY <1>1, <1>4, <2>1, <2>2 DEF Rising
  <2>3. CASE j = Len(s) + 1
    <3>1. s[i] \in NumbersIn(s)
      BY <1>1, <2>1 DEF NumbersIn
    <3> QED BY <1>1, <2>1, <2>3, <3>1
  <2> QED BY <1>1, <1>4, <2>2, <2>3
<1> QED BY <1>1, <1>3, <1>4 DEF Rising

LEMMA BufferedOrders ==
  ASSUME NEW n \in Nat \ {0}, NEW e, NEW r, RenderOK(r), RisingIn(r), r.footer = 0,
         \A m \in HeldNumbers(r) : m < n
  PROVE  /\ RisingIn(Buffered(cmd, r, n, e))
         /\ HeldNumbers(Buffered(cmd, r, n, e)) \subseteq HeldNumbers(r) \cup {n}
         /\ Block(e) = "none" => HeldNumbers(Buffered(cmd, r, n, e)) = HeldNumbers(r)
<1> DEFINE k == Buffered(cmd, r, n, e)
<1>1. /\ r.lines \in Seq(Nat) /\ r.diffs \in Seq(Nat) /\ r.rows \in Seq(Nat)
      /\ Rising(r.lines) /\ Rising(r.diffs) /\ Rising(r.rows)
      /\ \A m \in NumbersIn(r.lines) \cup NumbersIn(r.diffs) \cup NumbersIn(r.rows) : m < n
  BY DEF RenderOK, RisingIn, HeldNumbers
<1>2. \A s \in {r.lines, r.diffs, r.rows} :
        /\ Append(s, n) \in Seq(Nat) /\ Rising(Append(s, n))
        /\ NumbersIn(Append(s, n)) = NumbersIn(s) \cup {n}
  BY <1>1, RisingAppend
<1>3. r = [pending |-> r.pending, lines |-> r.lines, diffs |-> r.diffs, rows |-> r.rows,
           footer |-> r.footer, section |-> r.section]
  BY DEF RenderOK
<1>4. CASE Block(e) = "status"
  <2> DEFINE lines == WithRow(cmd, r, n, e)
             diffs == WithDiff(cmd, r, n, e)
  <2>1. k = [r EXCEPT !.lines = lines, !.diffs = diffs]
    BY <1>4 DEF Buffered, Block
  <2>2. lines \in {r.lines, Append(r.lines, n)} /\ diffs \in {r.diffs, Append(r.diffs, n)}
    BY DEF WithRow, WithDiff
  <2> HIDE DEF lines, diffs
  <2>3. k.lines = lines /\ k.diffs = diffs /\ k.rows = r.rows /\ k.footer = 0
    BY <1>3, <2>1
  <2> HIDE DEF k
  <2> QED BY <1>1, <1>2, <1>4, <2>2, <2>3 DEF RisingIn, HeldNumbers, k
<1>5. CASE Block(e) # "status" /\ e.type = "pkg_row"
  <2>1. k = [r EXCEPT !.rows = Append(@, n)]
    BY <1>5 DEF Buffered
  <2>2. k.lines = r.lines /\ k.diffs = r.diffs /\ k.rows = Append(r.rows, n) /\ k.footer = 0
    BY <1>3, <2>1
  <2>3. Block(e) # "none"
    BY <1>5 DEF Block
  <2> HIDE DEF k
  <2> QED BY <1>1, <1>2, <2>2, <2>3 DEF RisingIn, HeldNumbers, k
<1>6. CASE Block(e) # "status" /\ e.type = "pkg_footer"
  <2>1. k = [r EXCEPT !.footer = n]
    BY <1>6 DEF Buffered
  <2>2. k.lines = r.lines /\ k.diffs = r.diffs /\ k.rows = r.rows /\ k.footer = n
    BY <1>3, <2>1
  <2>3. Block(e) # "none"
    BY <1>6 DEF Block
  <2> HIDE DEF k
  <2> QED BY <1>1, <2>2, <2>3 DEF RisingIn, HeldNumbers, k
<1>7. CASE Block(e) # "status" /\ e.type \notin {"pkg_row", "pkg_footer"}
  <2>1. k = r \/ k = [r EXCEPT !.section = e.of]
    BY <1>7 DEF Buffered
  <2>2. k.lines = r.lines /\ k.diffs = r.diffs /\ k.rows = r.rows /\ k.footer = 0
    BY <1>3, <2>1
  <2> HIDE DEF k
  <2> QED BY <1>1, <2>2 DEF RisingIn, HeldNumbers, k
<1> QED BY <1>4, <1>5, <1>6, <1>7

LEMMA EmptiedOrders ==
  ASSUME NEW r, NEW kind
  PROVE  LET q == [Emptied(r) EXCEPT !.pending = kind] IN
           RisingIn(q) /\ HeldNumbers(q) = {} /\ q.footer = 0 /\ q.lines = <<>>
<1>1. [Emptied(r) EXCEPT !.pending = kind]
        = [pending |-> kind, lines |-> <<>>, diffs |-> <<>>, rows |-> <<>>,
           footer |-> 0, section |-> r.section]
  <2>1. Emptied(r) = [pending |-> "none", lines |-> <<>>, diffs |-> <<>>, rows |-> <<>>,
                      footer |-> 0, section |-> r.section]
    BY DEF Emptied, FreshRenderer
  <2> QED BY <2>1
<1> QED BY <1>1, EmptyRange DEF RisingIn, Rising, HeldNumbers

LEMMA FreshOrders == RisingIn(FreshRenderer) /\ HeldNumbers(FreshRenderer) = {}
BY EmptyRange DEF RisingIn, Rising, HeldNumbers, FreshRenderer

LEMMA PushOrders ==
  ASSUME NEW n \in Nat \ {0}, NEW e, CmdOK,
         NEW r, RenderOK(r), RisingIn(r), r.footer = 0,
         cmd.json => r = FreshRenderer,
         \A m \in HeldNumbers(r) : m \in Nat /\ m < n
  PROVE  LET out == PushWrites(cmd, r, n, e)
             k == PushKeeps(cmd, r, n, e) IN
           /\ Ordered(out) /\ RisingIn(k)
           /\ \A p \in RangeOf(out) : p.by \in HeldNumbers(r) \cup {n}
           /\ HeldNumbers(k) \subseteq HeldNumbers(r) \cup {n}
           /\ \A p \in RangeOf(out), m \in HeldNumbers(k) : p.by < m
<1> DEFINE out == PushWrites(cmd, r, n, e)
           k == PushKeeps(cmd, r, n, e)
<1>1. CASE cmd.json
  <2>1. k = FreshRenderer /\ out \in {<<>>, <<[by |-> n, part |-> "json"]>>}
    BY <1>1 DEF PushKeeps, PushWrites
  <2>2. Ordered(out) /\ \A p \in RangeOf(out) : p.by = n
    BY <2>1, OrderedFew DEF RangeOf
  <2> HIDE DEF out, k
  <2> QED BY <2>1, <2>2, FreshOrders DEF out, k
<1>2. CASE ~cmd.json
  <2> DEFINE q == Entered(r, e)
             flushed == EnterWrites(r, e)
             inline == Inline(r, n, e)
  <2>1. out = flushed \o inline /\ k = Buffered(cmd, q, n, e)
    BY <1>2 DEF PushWrites, PushKeeps
  <2>2. /\ inline \in Seq(PieceSet) /\ Ordered(inline)
        /\ \A p \in RangeOf(inline) : p.by = n
    BY InlineOrders
  <2>3. Block(e) \in {"none", "status", "pkg"}
    BY DEF Block
  <2>4. /\ RenderOK(q) /\ RisingIn(q) /\ q.footer = 0 /\ q.pending = Block(e)
        /\ flushed \in Seq(PieceSet) /\ Ordered(flushed)
        /\ \A p \in RangeOf(flushed) : p.by \in HeldNumbers(r)
        /\ HeldNumbers(q) \subseteq HeldNumbers(r)
        /\ RangeOf(flushed) = {} \/ HeldNumbers(q) = {}
    <3>1. CASE r.pending = Block(e)
      <4>1. q = r /\ flushed = <<>>
        BY <3>1 DEF Entered, EnterWrites
      <4> QED BY <3>1, <4>1, EmptyRange, OrderedFew
    <3>2. CASE r.pending # Block(e)
      <4>1. q = [Emptied(r) EXCEPT !.pending = Block(e)] /\ flushed = Flushed(r)
        BY <3>2 DEF Entered, EnterWrites
      <4>2. RenderOK(q) /\ RisingIn(q) /\ HeldNumbers(q) = {} /\ q.footer = 0
        <5>0. RenderOK([Emptied(r) EXCEPT !.pending = Block(e)])
          <6> HIDE DEF q
          <6> QED BY <2>3, EmptiedHolds
        <5>1. RenderOK(q)
          BY <4>1, <5>0
        <5>2. RisingIn(q) /\ HeldNumbers(q) = {} /\ q.footer = 0
          BY <4>1, EmptiedOrders
        <5> QED BY <5>1, <5>2
      <4>3. q.pending = Block(e)
        BY <4>1 DEF Emptied, FreshRenderer
      <4> QED BY <4>1, <4>2, <4>3, FlushedHeld, FlushOrders
    <3> QED BY <3>1, <3>2
  <2> HIDE DEF q, flushed, inline
  <2>5. \A p \in RangeOf(flushed), x \in RangeOf(inline) : Before(p, x)
    BY <2>2, <2>4 DEF Before
  <2>6. Ordered(out) /\ RangeOf(out) = RangeOf(flushed) \cup RangeOf(inline)
    BY <2>1, <2>2, <2>4, <2>5, OrderedConcat, PieceConcat
  <2>7. /\ RisingIn(k) /\ HeldNumbers(k) \subseteq HeldNumbers(q) \cup {n}
        /\ Block(e) = "none" => HeldNumbers(k) = HeldNumbers(q)
    BY <2>1, <2>4, BufferedOrders
  <2>8. Block(e) # "none" => inline = <<>>
    BY DEF inline, Inline, Block
  <2>9. Block(e) = "none" => HeldNumbers(k) = {}
    <3>1. Block(e) = "none" => HeldNumbers(q) = {}
      BY <2>4, EmptyRange DEF RenderOK, HeldNumbers
    <3> QED BY <2>7, <3>1
  <2> HIDE DEF out, k
  <2>10. \A p \in RangeOf(out), m \in HeldNumbers(k) : p.by < m
    BY <2>2, <2>4, <2>6, <2>7, <2>8, <2>9, EmptyRange
  <2> QED BY <2>2, <2>4, <2>6, <2>7, <2>10 DEF out, k
<1> QED BY <1>1, <1>2 DEF CmdOK

-----------------------------------------------------------------------------
(* What is told of changes                                                 *)

Words == [act : Variants, item : Nat]
WordsOf(piece, told) == IF piece.by = 0 THEN <<>> ELSE told[piece.by]

LEMMA WordsTyped ==
  ASSUME NEW e \in Events
  PROVE  ActsOf(e) \in Seq(Words)
<1>1. [act |-> e.of, item |-> e.item] \in Words
  BY DEF Events, Words
<1> QED BY <1>1 DEF ActsOf, Act

\* All that the numbers of a set have to say.
Says(numbers, told) == \A n \in numbers : n \in Nat \ {0} /\ told[n] \in Seq(Words)

LEMMA ToldSeq ==
  ASSUME NEW s \in Seq(PieceSet), NEW told,
         \A p \in RangeOf(s) : p.by # 0 => told[p.by] \in Seq(Words)
  PROVE  /\ [i \in DOMAIN s |-> WordsOf(s[i], told)] \in Seq(Seq(Words))
         /\ ActsTold(s, told) = FlattenSeq([i \in DOMAIN s |-> WordsOf(s[i], told)])
         /\ ActsTold(s, told) \in Seq(Words)
<1> DEFINE f == [i \in DOMAIN s |-> WordsOf(s[i], told)]
<1>1. ActsTold(s, told) = FlattenSeq(f)
  BY DEF ActsTold, WordsOf
<1>2. \A i \in 1..Len(s) : s[i] \in RangeOf(s)
  BY DEF RangeOf
<1>3. \A i \in 1..Len(s) : WordsOf(s[i], told) \in Seq(Words)
  <2>1. <<>> \in Seq(Words)
    BY EmptyRange
  <2> QED BY <1>2, <2>1 DEF WordsOf
<1>4. f \in Seq(Seq(Words))
  <2>1. Len(s) \in Nat /\ DOMAIN s = 1..Len(s)
    OBVIOUS
  <2>2. f = [i \in 1..Len(s) |-> WordsOf(s[i], told)]
    BY <2>1
  <2> HIDE DEF f
  <2> QED BY <1>3, <2>1, <2>2
<1> HIDE DEF f
<1>5. FlattenSeq(f) \in Seq(Words)
  BY <1>4, FlattenTyped
<1> QED BY <1>1, <1>4, <1>5 DEF f

LEMMA ToldConcat ==
  ASSUME NEW s \in Seq(PieceSet), NEW t \in Seq(PieceSet), NEW told,
         \A p \in RangeOf(s) \cup RangeOf(t) : p.by # 0 => told[p.by] \in Seq(Words)
  PROVE  ActsTold(s \o t, told) = ActsTold(s, told) \o ActsTold(t, told)
<1> DEFINE F(u) == [i \in DOMAIN u |-> WordsOf(u[i], told)]
<1>1. s \o t \in Seq(PieceSet) /\ RangeOf(s \o t) = RangeOf(s) \cup RangeOf(t)
  BY PieceConcat
<1>2. \A u \in {s, t, s \o t} : F(u) \in Seq(Seq(Words)) /\ ActsTold(u, told) = FlattenSeq(F(u))
  BY <1>1, ToldSeq
<1>3. F(s \o t) = F(s) \o F(t)
  <2> DEFINE a == F(s)
             b == F(t)
             c == F(s \o t)
  <2>1. /\ Len(a) = Len(s) /\ Len(b) = Len(t) /\ Len(s) \in Nat /\ Len(t) \in Nat
        /\ Len(c) = Len(s) + Len(t)
        /\ \A i \in 1..Len(s) : a[i] = WordsOf(s[i], told)
        /\ \A i \in 1..Len(t) : b[i] = WordsOf(t[i], told)
        /\ \A i \in 1..(Len(s) + Len(t)) : c[i] = WordsOf((s \o t)[i], told)
        /\ \A i \in 1..Len(s) : (s \o t)[i] = s[i]
        /\ \A i \in 1..Len(t) : (s \o t)[Len(s) + i] = t[i]
    OBVIOUS
  <2>2. a \in Seq(Seq(Words)) /\ b \in Seq(Seq(Words)) /\ c \in Seq(Seq(Words))
    <3> HIDE DEF F
    <3> QED BY <1>2
  <2> HIDE DEF a, b, c
  <2>3. /\ a \o b \in Seq(Seq(Words)) /\ Len(a \o b) = Len(s) + Len(t)
        /\ \A i \in 1..Len(s) : (a \o b)[i] = a[i]
        /\ \A i \in 1..Len(t) : (a \o b)[Len(s) + i] = b[i]
    <3>1. /\ a \o b \in Seq(Seq(Words)) /\ Len(a \o b) = Len(a) + Len(b)
          /\ \A i \in 1..Len(a) : (a \o b)[i] = a[i]
          /\ \A i \in 1..Len(b) : (a \o b)[Len(a) + i] = b[i]
      BY <2>2, ConcatIs
    <3> QED BY <2>1, <3>1
  <2>4. ASSUME NEW i \in 1..(Len(s) + Len(t)) PROVE c[i] = (a \o b)[i]
    <3>1. CASE i \in 1..Len(s)
      BY <2>1, <2>3, <3>1
    <3>2. CASE i \notin 1..Len(s)
      <4>1. i - Len(s) \in 1..Len(t) /\ i = Len(s) + (i - Len(s))
        BY <2>1, <3>2
      <4>2. c[i] = WordsOf(t[i - Len(s)], told) /\ (a \o b)[i] = b[i - Len(s)]
        BY <2>1, <2>3, <4>1
      <4> QED BY <2>1, <4>1, <4>2
    <3> QED BY <3>1, <3>2
  <2>5. c = a \o b
    BY <2>1, <2>2, <2>3, <2>4, SameSeq, SMTT(30)
  <2> QED BY <2>5 DEF a, b, c
<1> HIDE DEF F
<1>4. FlattenSeq(F(s) \o F(t)) = FlattenSeq(F(s)) \o FlattenSeq(F(t))
  BY <1>2, FlattenConcat
<1> QED BY <1>2, <1>3, <1>4

LEMMA ToldNothing ==
  ASSUME NEW s \in Seq(PieceSet), NEW told,
         \A p \in RangeOf(s) : p.by # 0 => told[p.by] = <<>>
  PROVE  ActsTold(s, told) = <<>>
<1> DEFINE f == [i \in DOMAIN s |-> WordsOf(s[i], told)]
<1>1. <<>> \in Seq(Words)
  BY EmptyRange
<1>2. f \in Seq(Seq(Words)) /\ ActsTold(s, told) = FlattenSeq(f)
  BY <1>1, ToldSeq
<1>3. \A i \in 1..Len(f) : f[i] = <<>>
  BY DEF WordsOf, RangeOf
<1> HIDE DEF f
<1> QED BY <1>2, <1>3, FlattenNothing

LEMMA ToldOne ==
  ASSUME NEW x \in PieceSet, NEW told, x.by # 0, told[x.by] \in Seq(Words)
  PROVE  ActsTold(<<x>>, told) = told[x.by]
<1>1. [i \in DOMAIN <<x>> |-> WordsOf(<<x>>[i], told)] = <<told[x.by]>>
  BY DEF WordsOf
<1>2. ActsTold(<<x>>, told) = FlattenSeq(<<told[x.by]>>)
  <2>1. ActsTold(<<x>>, told) = FlattenSeq([i \in DOMAIN <<x>> |-> WordsOf(<<x>>[i], told)])
    BY DEF ActsTold, WordsOf
  <2> QED BY <1>1, <2>1
<1>3. FlattenSeq(Append(<<>>, told[x.by])) = FlattenSeq(<<>>) \o told[x.by]
  <2>1. <<>> \in Seq(Seq(Words))
    BY EmptyRange
  <2> QED BY <2>1, FlattenAppend
<1>4. Append(<<>>, told[x.by]) = <<told[x.by]>> /\ <<>> \o told[x.by] = told[x.by]
  OBVIOUS
<1> QED BY <1>2, <1>3, <1>4, FlattenEmpty

\* The same pieces tell the same, whatever is told beside them.
LEMMA ToldAgree ==
  ASSUME NEW s, NEW told, NEW other,
         \A p \in RangeOf(s) : p.by # 0 => told[p.by] = other[p.by]
  PROVE  ActsTold(s, told) = ActsTold(s, other)
<1>1. \A i \in DOMAIN s : s[i] \in RangeOf(s)
  BY DEF RangeOf
<1>2. [i \in DOMAIN s |-> IF s[i].by = 0 THEN <<>> ELSE told[s[i].by]]
        = [i \in DOMAIN s |-> IF s[i].by = 0 THEN <<>> ELSE other[s[i].by]]
  BY <1>1
<1> QED BY <1>2 DEF ActsTold

LEMMA UntoldAgree ==
  ASSUME NEW numbers, NEW told, NEW other, \A n \in NumbersIn(numbers) : told[n] = other[n]
  PROVE  Untold(numbers, told) = Untold(numbers, other)
<1>1. \A i \in DOMAIN numbers : numbers[i] \in NumbersIn(numbers)
  BY DEF NumbersIn
<1>2. [i \in DOMAIN numbers |-> told[numbers[i]]] = [i \in DOMAIN numbers |-> other[numbers[i]]]
  BY <1>1
<1> QED BY <1>2 DEF Untold

LEMMA UntoldSeq ==
  ASSUME NEW numbers \in Seq(Nat), NEW told, Says(NumbersIn(numbers), told)
  PROVE  /\ [i \in DOMAIN numbers |-> told[numbers[i]]] \in Seq(Seq(Words))
         /\ Untold(numbers, told) \in Seq(Words)
<1> DEFINE f == [i \in DOMAIN numbers |-> told[numbers[i]]]
<1>1. \A i \in 1..Len(numbers) : told[numbers[i]] \in Seq(Words)
  BY DEF Says, NumbersIn
<1>2. f \in Seq(Seq(Words))
  <2>1. Len(numbers) \in Nat /\ f = [i \in 1..Len(numbers) |-> told[numbers[i]]]
    OBVIOUS
  <2> HIDE DEF f
  <2> QED BY <1>1, <2>1, SMTT(30)
<1>3. Untold(numbers, told) = FlattenSeq(f)
  BY DEF Untold
<1> HIDE DEF f
<1> QED BY <1>2, <1>3, FlattenTyped DEF f

LEMMA UntoldAppend ==
  ASSUME NEW numbers \in Seq(Nat), NEW n \in Nat, NEW told, Says(NumbersIn(numbers) \cup {n}, told)
  PROVE  Untold(Append(numbers, n), told) = Untold(numbers, told) \o told[n]
<1> DEFINE f == [i \in DOMAIN numbers |-> told[numbers[i]]]
           h == [i \in DOMAIN Append(numbers, n) |-> told[Append(numbers, n)[i]]]
<1>1. f \in Seq(Seq(Words)) /\ told[n] \in Seq(Words)
  BY UntoldSeq DEF Says
<1>2. h = Append(f, told[n])
  <2>1. /\ DOMAIN Append(numbers, n) = 1..(Len(numbers) + 1) /\ Len(numbers) \in Nat
        /\ \A i \in 1..Len(numbers) : Append(numbers, n)[i] = numbers[i]
        /\ Append(numbers, n)[Len(numbers) + 1] = n
        /\ Len(f) = Len(numbers)
    OBVIOUS
  <2>2. /\ h = [i \in 1..(Len(numbers) + 1) |-> h[i]]
        /\ \A i \in 1..Len(numbers) : h[i] = f[i]
        /\ h[Len(numbers) + 1] = told[n]
    BY <2>1
  <2> HIDE DEF h, f
  <2>3. /\ Append(f, told[n]) = [i \in 1..(Len(numbers) + 1) |-> Append(f, told[n])[i]]
        /\ \A i \in 1..Len(numbers) : Append(f, told[n])[i] = f[i]
        /\ Append(f, told[n])[Len(numbers) + 1] = told[n]
    BY <1>1, <2>1
  <2>4. ASSUME NEW i \in 1..(Len(numbers) + 1) PROVE h[i] = Append(f, told[n])[i]
    <3>1. i \in 1..Len(numbers) \/ i = Len(numbers) + 1
      BY <2>1
    <3> QED BY <2>2, <2>3, <3>1
  <2> QED BY <2>2, <2>3, <2>4, Zenon
<1>3. Untold(Append(numbers, n), told) = FlattenSeq(h) /\ Untold(numbers, told) = FlattenSeq(f)
  BY DEF Untold
<1> HIDE DEF f, h
<1> QED BY <1>1, <1>2, <1>3, FlattenAppend

LEMMA ToldPieces ==
  ASSUME NEW numbers, NEW part, NEW told, \A n \in NumbersIn(numbers) : n # 0, Len(numbers) \in Nat,
         DOMAIN numbers = 1..Len(numbers)
  PROVE  ActsTold(Pieces(numbers, part), told) = Untold(numbers, told)
<1> DEFINE s == Pieces(numbers, part)
<1>1. \A i \in DOMAIN numbers : numbers[i] # 0
  BY DEF NumbersIn
<1>2. DOMAIN s = DOMAIN numbers /\ \A i \in DOMAIN numbers : s[i].by = numbers[i]
  BY DEF Pieces
<1> HIDE DEF s
<1>3. [i \in DOMAIN s |-> IF s[i].by = 0 THEN <<>> ELSE told[s[i].by]]
        = [i \in DOMAIN numbers |-> told[numbers[i]]]
  BY <1>1, <1>2
<1> QED BY <1>3 DEF ActsTold, Untold, s

LEMMA UntoldEmpty == \A told : Untold(<<>>, told) = <<>> /\ ActsTold(<<>>, told) = <<>>
<1> SUFFICES ASSUME NEW told PROVE Untold(<<>>, told) = <<>> /\ ActsTold(<<>>, told) = <<>>
  OBVIOUS
<1>1. <<>> \in Seq(PieceSet) /\ RangeOf(<<>>) = {} /\ <<>> \in Seq(Nat)
  BY EmptyRange
<1>2. ActsTold(<<>>, told) = <<>>
  BY <1>1, ToldNothing
<1>3. [i \in DOMAIN <<>> |-> told[<<>>[i]]] = <<>>
  OBVIOUS
<1> QED BY <1>2, <1>3, FlattenEmpty DEF Untold

LEMMA EmptyConcat ==
  ASSUME NEW S, NEW s \in Seq(S)
  PROVE  s \o <<>> = s /\ <<>> \o s = s
OBVIOUS

\* A flush tells what the held rows have to tell.
LEMMA FlushTells ==
  ASSUME NEW r, RenderOK(r), NEW told, Says(HeldNumbers(r), told), SilentIn(r, told)
  PROVE  ActsTold(Flushed(r), told) = Untold(r.lines, told)
<1>1. /\ r.lines \in Seq(Nat) /\ r.diffs \in Seq(Nat) /\ r.rows \in Seq(Nat) /\ r.footer \in Nat
      /\ r.pending \in {"none", "status", "pkg"} /\ {"row", "diff"} \subseteq Parts
  BY DEF RenderOK, Parts
<1>2. /\ Says(NumbersIn(r.lines), told)
      /\ \A n \in NumbersIn(r.lines) : n # 0
      /\ Untold(r.lines, told) \in Seq(Words)
  BY <1>1, UntoldSeq DEF HeldNumbers, Says
<1>3. Flushed(r) \in Seq(PieceSet) /\ RangeOf(Flushed(r)) = HeldBy(r)
  BY FlushedHeld
<1>4. CASE r.pending = "status"
  <2> DEFINE a == Pieces(r.lines, "row")
             b == Pieces(r.diffs, "diff")
  <2>1. Flushed(r) = a \o b
    BY <1>4 DEF Flushed
  <2>2. /\ a \in Seq(PieceSet) /\ RangeOf(a) = [by : NumbersIn(r.lines), part : {"row"}]
        /\ b \in Seq(PieceSet) /\ RangeOf(b) = [by : NumbersIn(r.diffs), part : {"diff"}]
    BY <1>1, PiecesRange
  <2> HIDE DEF a, b
  <2>3. \A p \in RangeOf(a) : told[p.by] \in Seq(Words)
    BY <1>2, <2>2 DEF Says
  <2>4. \A p \in RangeOf(b) : told[p.by] = <<>>
    BY <2>2 DEF SilentIn
  <2>5. ActsTold(a, told) = Untold(r.lines, told)
    <3>1. Len(r.lines) \in Nat /\ DOMAIN r.lines = 1..Len(r.lines)
      BY <1>1
    <3> QED BY <1>2, <3>1, ToldPieces DEF a
  <2>6. ActsTold(b, told) = <<>>
    BY <2>2, <2>4, ToldNothing
  <2>7. ActsTold(a \o b, told) = ActsTold(a, told) \o ActsTold(b, told)
    <3>1. <<>> \in Seq(Words)
      BY EmptyRange
    <3> QED BY <2>2, <2>3, <2>4, <3>1, ToldConcat
  <2> QED BY <1>2, <2>1, <2>5, <2>6, <2>7, EmptyConcat
<1>5. CASE r.pending # "status"
  <2>1. r.lines = <<>>
    BY <1>5 DEF RenderOK
  <2>2. ASSUME NEW p \in RangeOf(Flushed(r)) PROVE told[p.by] = <<>>
    <3>1. p.by \in HeldNumbers(r)
      BY <1>3, HeldNumbered
    <3>2. p.by \in NumbersIn(r.diffs) \cup NumbersIn(r.rows) \cup ({r.footer} \ {0})
      BY <2>1, <3>1, EmptyRange DEF HeldNumbers
    <3> QED BY <3>2 DEF SilentIn
  <2> QED BY <1>3, <2>1, <2>2, ToldNothing, UntoldEmpty
<1> QED BY <1>4, <1>5

LEMMA BufferedParts ==
  ASSUME NEW n, NEW e, NEW r, RenderOK(r)
  PROVE  LET k == Buffered(cmd, r, n, e) IN
           /\ k.lines \in {r.lines, Append(r.lines, n)}
           /\ k.diffs \in {r.diffs, Append(r.diffs, n)}
           /\ k.rows \in {r.rows, Append(r.rows, n)}
           /\ k.footer \in {r.footer, n}
           /\ e.type = "action" =>
                /\ k.lines = Append(r.lines, n) /\ k.diffs = r.diffs
                /\ k.rows = r.rows /\ k.footer = r.footer
<1> DEFINE k == Buffered(cmd, r, n, e)
<1>1. r = [pending |-> r.pending, lines |-> r.lines, diffs |-> r.diffs, rows |-> r.rows,
           footer |-> r.footer, section |-> r.section]
  BY DEF RenderOK
<1>2. CASE Block(e) = "status"
  <2>1. k = [r EXCEPT !.lines = WithRow(cmd, r, n, e), !.diffs = WithDiff(cmd, r, n, e)]
    BY <1>2 DEF Buffered, Block
  <2>2. /\ k.lines = WithRow(cmd, r, n, e) /\ k.diffs = WithDiff(cmd, r, n, e)
        /\ k.rows = r.rows /\ k.footer = r.footer
    BY <1>1, <2>1
  <2> HIDE DEF k
  <2>3. e.type = "action" => k.lines = Append(r.lines, n) /\ k.diffs = r.diffs
    BY <2>2 DEF WithRow, WithDiff, RowShown, DiffShown
  <2>4. k.lines \in {r.lines, Append(r.lines, n)} /\ k.diffs \in {r.diffs, Append(r.diffs, n)}
    BY <2>2 DEF WithRow, WithDiff
  <2> QED BY <2>2, <2>3, <2>4 DEF k
<1>3. CASE Block(e) # "status"
  <2>1. \/ k = [r EXCEPT !.rows = Append(@, n)]
        \/ k = [r EXCEPT !.footer = n]
        \/ k = r \/ k = [r EXCEPT !.section = e.of]
    BY <1>3 DEF Buffered
  <2>2. /\ k.lines = r.lines /\ k.diffs = r.diffs
        /\ k.rows \in {r.rows, Append(r.rows, n)} /\ k.footer \in {r.footer, n}
    BY <1>1, <2>1
  <2>3. e.type # "action"
    BY <1>3 DEF Block
  <2> HIDE DEF k
  <2> QED BY <2>2, <2>3 DEF k
<1> QED BY <1>2, <1>3

LEMMA PushTells ==
  ASSUME NEW n \in Nat \ {0}, NEW e \in Events, CmdOK, NEW r, RenderOK(r),
         cmd.json => r = FreshRenderer,
         NEW told, Says(HeldNumbers(r) \cup {n}, told), SilentIn(r, told), told[n] = ActsOf(e)
  PROVE  LET out == PushWrites(cmd, r, n, e)
             k == PushKeeps(cmd, r, n, e) IN
           /\ ActsTold(out, told) \o Untold(k.lines, told) = Untold(r.lines, told) \o told[n]
           /\ SilentIn(k, told)
<1> DEFINE out == PushWrites(cmd, r, n, e)
           k == PushKeeps(cmd, r, n, e)
<1>1. told[n] \in Seq(Words) /\ (e.type # "action" => told[n] = <<>>)
  BY WordsTyped DEF ActsOf
<1>2. <<>> \o told[n] = told[n] /\ told[n] \o <<>> = told[n]
  BY <1>1, EmptyConcat
<1>3. CASE cmd.json
  <2> DEFINE x == [by |-> n, part |-> "json"]
  <2>1. k = FreshRenderer /\ r = FreshRenderer
    BY <1>3 DEF PushKeeps
  <2>2. k.lines = <<>> /\ r.lines = <<>>
    BY <2>1 DEF FreshRenderer
  <2>3. ActsTold(out, told) = told[n]
    <3>1. CASE e.type = "section"
      <4>1. out = <<>>
        BY <1>3, <3>1 DEF PushWrites
      <4> QED BY <1>1, <3>1, <4>1, UntoldEmpty
    <3>2. CASE e.type # "section"
      <4>1. out = <<x>> /\ x \in PieceSet /\ x.by = n
        BY <1>3, <3>2 DEF PushWrites, PieceSet, Parts
      <4> HIDE DEF x, out
      <4>2. ActsTold(<<x>>, told) = told[x.by]
        BY <1>1, <4>1, ToldOne
      <4> QED BY <4>1, <4>2
    <3> QED BY <3>1, <3>2
  <2> HIDE DEF out, k
  <2> QED BY <1>2, <2>1, <2>2, <2>3, UntoldEmpty DEF out, k
<1>4. CASE ~cmd.json
  <2> DEFINE q == Entered(r, e)
             flushed == EnterWrites(r, e)
             inline == Inline(r, n, e)
             F == ActsTold(flushed, told)
             U == Untold(q.lines, told)
  <2>1. out = flushed \o inline /\ k = Buffered(cmd, q, n, e)
    BY <1>4 DEF PushWrites, PushKeeps
  <2>2. Block(e) \in {"none", "status", "pkg"}
    BY DEF Block
  <2>3. r.lines \in Seq(Nat) /\ Says(NumbersIn(r.lines), told) /\ Says(HeldNumbers(r), told)
    BY DEF RenderOK, Says, HeldNumbers
  <2>4. Untold(r.lines, told) \in Seq(Words)
    BY <2>3, UntoldSeq
  <2>5. /\ RenderOK(q) /\ HeldNumbers(q) \subseteq HeldNumbers(r) /\ SilentIn(q, told)
        /\ flushed \in Seq(PieceSet)
        /\ \A p \in RangeOf(flushed) : p.by \in HeldNumbers(r)
        /\ F \in Seq(Words) /\ U \in Seq(Words)
        /\ F \o U = Untold(r.lines, told)
    <3>1. CASE r.pending = Block(e)
      <4>1. q = r /\ flushed = <<>>
        BY <3>1 DEF Entered, EnterWrites
      <4>2. F = <<>> /\ U = Untold(r.lines, told) /\ F \o U = U
        BY <2>4, <4>1, UntoldEmpty, EmptyConcat
      <4> HIDE DEF F, U
      <4> QED BY <2>4, <4>1, <4>2, EmptyRange
    <3>2. CASE r.pending # Block(e)
      <4>1. q = [Emptied(r) EXCEPT !.pending = Block(e)] /\ flushed = Flushed(r)
        BY <3>2 DEF Entered, EnterWrites
      <4>2. RenderOK([Emptied(r) EXCEPT !.pending = Block(e)])
        <5> HIDE DEF q
        <5> QED BY <2>2, EmptiedHolds
      <4>3. HeldNumbers(q) = {} /\ q.lines = <<>>
        BY <4>1, EmptiedOrders
      <4>4. U = <<>> /\ SilentIn(q, told)
        BY <4>3, UntoldEmpty DEF SilentIn, HeldNumbers
      <4>5. F = Untold(r.lines, told) /\ F \o <<>> = F
        BY <2>3, <2>4, <4>1, FlushTells, EmptyConcat
      <4>6. flushed \in Seq(PieceSet) /\ \A p \in RangeOf(flushed) : p.by \in HeldNumbers(r)
        BY <4>1, FlushedHeld, HeldNumbered
      <4> HIDE DEF F, U, flushed
      <4> QED BY <2>4, <4>1, <4>2, <4>3, <4>4, <4>5, <4>6, EmptyRange
    <3> QED BY <3>1, <3>2
  <2>6. /\ inline \in Seq(PieceSet) /\ \A p \in RangeOf(inline) : p.by = n
        /\ e.type = "action" => inline = <<>>
    BY InlineOrders DEF Inline
  <2> HIDE DEF q, flushed, inline
  <2>7. ActsTold(inline, told) = <<>>
    <3>1. CASE e.type = "action"
      BY <2>6, <3>1, UntoldEmpty
    <3>2. CASE e.type # "action"
      <4>1. \A p \in RangeOf(inline) : told[p.by] = <<>>
        BY <1>1, <2>6, <3>2
      <4> QED BY <2>6, <4>1, ToldNothing
    <3> QED BY <3>1, <3>2
  <2>8. ActsTold(out, told) = F
    <3>1. \A p \in RangeOf(flushed) \cup RangeOf(inline) : told[p.by] \in Seq(Words)
      BY <1>1, <2>3, <2>5, <2>6 DEF Says
    <3>2. ActsTold(flushed \o inline, told) = ActsTold(flushed, told) \o ActsTold(inline, told)
      BY <2>5, <2>6, <3>1, ToldConcat
    <3> HIDE DEF out
    <3> QED BY <2>1, <2>5, <2>7, <3>2, EmptyConcat DEF out
  <2>9. /\ k.lines \in {q.lines, Append(q.lines, n)}
        /\ k.diffs \in {q.diffs, Append(q.diffs, n)}
        /\ k.rows \in {q.rows, Append(q.rows, n)}
        /\ k.footer \in {q.footer, n}
        /\ e.type = "action" =>
             /\ k.lines = Append(q.lines, n) /\ k.diffs = q.diffs
             /\ k.rows = q.rows /\ k.footer = q.footer
    BY <2>1, <2>5, BufferedParts
  <2>10. q.lines \in Seq(Nat) /\ q.diffs \in Seq(Nat) /\ q.rows \in Seq(Nat)
    BY <2>5 DEF RenderOK
  <2> HIDE DEF out, k, F, U
  <2>11. Untold(k.lines, told) = U \o told[n]
    <3>1. Says(NumbersIn(q.lines) \cup {n}, told)
      BY <2>5 DEF Says, HeldNumbers
    <3>2. Untold(Append(q.lines, n), told) = U \o told[n]
      BY <2>10, <3>1, UntoldAppend DEF U
    <3>3. e.type # "action" => U \o told[n] = U
      BY <1>1, <2>5, EmptyConcat
    <3> QED BY <2>9, <3>2, <3>3 DEF U
  <2>12. F \o (U \o told[n]) = (F \o U) \o told[n]
    <3>1. \A a, b, c \in Seq(Words) : (a \o b) \o c = a \o (b \o c)
      BY ConcatAssociates
    <3> QED BY <1>1, <2>5, <3>1
  <2>13. SilentIn(k, told)
    <3>1. CASE e.type = "action"
      BY <2>5, <2>9, <3>1 DEF SilentIn
    <3>2. CASE e.type # "action"
      <4>1. \A s \in {q.diffs, q.rows} : NumbersIn(Append(s, n)) = NumbersIn(s) \cup {n}
        <5>1. \A s \in Seq(Nat) : RangeOf(Append(s, n)) = RangeOf(s) \cup {n}
          BY AppendRange
        <5>2. \A s : NumbersIn(s) = RangeOf(s)
          BY DEF NumbersIn, RangeOf
        <5> QED BY <2>10, <5>1, <5>2
      <4>2. NumbersIn(k.diffs) \subseteq NumbersIn(q.diffs) \cup {n}
        BY <2>9, <4>1
      <4>3. NumbersIn(k.rows) \subseteq NumbersIn(q.rows) \cup {n}
        BY <2>9, <4>1
      <4>4. {k.footer} \ {0} \subseteq ({q.footer} \ {0}) \cup {n}
        BY <2>9
      <4> QED BY <1>1, <2>5, <3>2, <4>2, <4>3, <4>4 DEF SilentIn
    <3> QED BY <3>1, <3>2
  <2> QED BY <2>5, <2>8, <2>11, <2>12, <2>13 DEF out, k
<1> QED BY <1>3, <1>4

-----------------------------------------------------------------------------
(* What a step may do to the journal, the screen and the renderer          *)

LEMMA ToldIsTold == Told = ToldIn(screen) /\ Told' = ToldIn(screen')
BY DEF Told, ToldIn, RangeOf, ByEvent

LEMMA DueInJournal ==
  ASSUME journal \in Seq(Events)
  PROVE  \A p \in Due : p.by \in 1..Len(journal)
BY DEF Due

LEMMA DueStays ==
  ASSUME cmd' = cmd, journal' = journal
  PROVE  Due' = Due
<1>1. \A x : DueParts(x)' = DueParts(x)
  BY DEF DueParts
<1> QED BY <1>1 DEF Due

LEMMA DueGrows ==
  ASSUME journal \in Seq(Events), NEW e \in Events,
         cmd' = cmd, journal' = Append(journal, e)
  PROVE  Due' = Due \cup NewDue(Len(journal) + 1, e)
<1> DEFINE n == Len(journal) + 1
<1>1. \A x : DueParts(x)' = DueParts(x)
  BY DEF DueParts
<1>2. /\ DOMAIN journal = 1..Len(journal) /\ DOMAIN journal' = 1..n /\ n \in Nat \ {0}
      /\ \A i \in 1..Len(journal) : journal'[i] = journal[i]
      /\ journal'[n] = e
  OBVIOUS
<1>3. Due' = UNION {[by : {i}, part : DueParts(journal'[i])] : i \in 1..n}
  BY <1>1, <1>2 DEF Due
<1>4. Due = UNION {[by : {i}, part : DueParts(journal'[i])] : i \in 1..Len(journal)}
  BY <1>2 DEF Due
<1>5. 1..n = (1..Len(journal)) \cup {n}
  BY <1>2
<1> QED BY <1>2, <1>3, <1>4, <1>5 DEF NewDue

LEMMA HeldBelow ==
  ASSUME ShowInv
  PROVE  \A p \in HeldBy(render) : p.by > 0 /\ p.by < Len(journal) + 1
BY DueInJournal DEF ShowInv, Conserved, Held

LEMMA HeldNumbersBelow ==
  ASSUME ShowInv
  PROVE  \A m \in HeldNumbers(render) : m \in Nat \ {0} /\ m < Len(journal) + 1
<1>1. ASSUME NEW m \in HeldNumbers(render) PROVE m \in Nat \ {0} /\ m < Len(journal) + 1
  <2>1. PICK p \in HeldBy(render) : p.by = m
    BY NumbersHeld
  <2>2. p \in PieceSet
    BY HeldTyped DEF ShowInv
  <2> QED BY <2>1, <2>2, HeldBelow DEF PieceSet
<1> QED BY <1>1

\* What comes out of the renderer, or with the next event, follows the screen.
LEMMA OrderGrows ==
  ASSUME ShowInv, NEW out \in Seq(PieceSet), Ordered(out),
         \A p \in RangeOf(out) : p.by \in HeldNumbers(render) \cup {Len(journal) + 1}
  PROVE  /\ Ordered(screen \o out)
         /\ \A p \in RangeOf(screen \o out) :
              p.by \in Nat /\ (p.by <= Len(journal) \/ p \in RangeOf(out))
<1>1. screen \in Seq(PieceSet) /\ Ordered(screen)
  BY DEF ShowInv, OrderOK, InOrder
<1>2. ASSUME NEW p \in RangeOf(screen)
      PROVE  p \in PieceSet /\ p.by <= Len(journal) /\ \A m \in HeldNumbers(render) : p.by < m
  BY <1>1 DEF RangeOf, ShowInv, OrderOK
<1>3. ASSUME NEW p \in RangeOf(screen), NEW q \in RangeOf(out) PROVE Before(p, q)
  <2>1. p.by \in Nat /\ p.by < Len(journal) + 1
    BY <1>2 DEF PieceSet, ShowInv
  <2> QED BY <1>2, <2>1 DEF Before
<1>4. Ordered(screen \o out) /\ RangeOf(screen \o out) = RangeOf(screen) \cup RangeOf(out)
  BY <1>1, <1>3, OrderedConcat, PieceConcat
<1>5. \A p \in RangeOf(out) : p \in PieceSet
  BY DEF RangeOf
<1> QED BY <1>2, <1>4, <1>5 DEF PieceSet

LEMMA ScreenBelow ==
  ASSUME ShowInv
  PROVE  \A p \in RangeOf(screen) : p.by \in Nat /\ p.by <= Len(journal) /\ Len(journal) \in Nat
<1>1. /\ screen \in Seq(PieceSet) /\ journal \in Seq(Events)
      /\ \A i \in DOMAIN screen : screen[i].by <= Len(journal)
  BY DEF ShowInv, OrderOK
<1>2. \A i \in DOMAIN screen : screen[i] \in PieceSet
  BY <1>1
<1> QED BY <1>1, <1>2 DEF RangeOf, PieceSet

LEMMA JournalWords ==
  ASSUME ShowInv
  PROVE  /\ ActsOfEvents \in Seq(Seq(Words)) /\ Len(ActsOfEvents) = Len(journal)
         /\ \A n \in 1..Len(journal) : ActsOfEvents[n] \in Seq(Words)
         /\ Pushed \in Seq(Words)
         /\ \A p \in RangeOf(screen) : p.by # 0 => ActsOfEvents[p.by] \in Seq(Words)
         /\ Says(HeldNumbers(render), ActsOfEvents)
<1>1. journal \in Seq(Events) /\ Len(journal) \in Nat
  BY DEF ShowInv
<1>2. \A n \in 1..Len(journal) : ActsOf(journal[n]) \in Seq(Words)
  BY <1>1, WordsTyped
<1>3. ActsOfEvents = [n \in 1..Len(journal) |-> ActsOf(journal[n])]
  BY <1>1 DEF ActsOfEvents
<1>4. ActsOfEvents \in Seq(Seq(Words)) /\ Len(ActsOfEvents) = Len(journal)
  BY <1>1, <1>2, <1>3
<1>5. \A n \in 1..Len(journal) : ActsOfEvents[n] \in Seq(Words)
  BY <1>2, <1>3
<1>6. ASSUME NEW p \in RangeOf(screen), p.by # 0 PROVE p.by \in 1..Len(journal)
  BY <1>1, <1>6, ScreenBelow
<1>7. \A n \in HeldNumbers(render) : n \in 1..Len(journal) /\ n \in Nat \ {0}
  BY <1>1, HeldNumbersBelow
<1> QED BY <1>4, <1>5, <1>6, <1>7, FlattenTyped DEF Pushed, Says

LEMMA JournalGrows ==
  ASSUME ShowInv, NEW e \in Events, journal' = Append(journal, e)
  PROVE  /\ \A n \in 1..Len(journal) : ActsOfEvents'[n] = ActsOfEvents[n]
         /\ ActsOfEvents'[Len(journal) + 1] = ActsOf(e)
         /\ Pushed' = Pushed \o ActsOf(e)
<1> DEFINE n == Len(journal) + 1
           old == ActsOfEvents
           new == [m \in DOMAIN journal' |-> ActsOf(journal'[m])]
<1>1. /\ Len(journal) \in Nat /\ DOMAIN journal = 1..Len(journal) /\ DOMAIN journal' = 1..n
      /\ \A m \in 1..Len(journal) : journal'[m] = journal[m]
      /\ journal'[n] = e /\ n \in 1..n
  BY DEF ShowInv
<1>2. /\ \A m \in 1..Len(journal) : new[m] = ActsOf(journal[m])
      /\ new[n] = ActsOf(e) /\ new = [m \in 1..n |-> new[m]]
  BY <1>1
<1>3. \A m \in 1..Len(journal) : old[m] = ActsOf(journal[m])
  BY <1>1 DEF ActsOfEvents
<1>4. ActsOfEvents' = new
  BY DEF ActsOfEvents
<1>5. old \in Seq(Seq(Words)) /\ Len(old) = Len(journal) /\ ActsOf(e) \in Seq(Words)
  BY JournalWords, WordsTyped
<1> HIDE DEF new, old
<1>6. new = Append(old, ActsOf(e))
  <2>1. /\ Append(old, ActsOf(e)) = [m \in 1..n |-> Append(old, ActsOf(e))[m]]
        /\ \A m \in 1..Len(journal) : Append(old, ActsOf(e))[m] = old[m]
        /\ Append(old, ActsOf(e))[n] = ActsOf(e)
    <3>1. /\ Append(old, ActsOf(e)) = [m \in 1..(Len(old) + 1) |-> Append(old, ActsOf(e))[m]]
          /\ \A m \in 1..Len(old) : Append(old, ActsOf(e))[m] = old[m]
          /\ Append(old, ActsOf(e))[Len(old) + 1] = ActsOf(e)
      BY <1>5, AppendIs
    <3> QED BY <1>5, <3>1
  <2>2. ASSUME NEW m \in 1..n PROVE new[m] = Append(old, ActsOf(e))[m]
    <3>1. m \in 1..Len(journal) \/ m = n
      BY <1>1
    <3> QED BY <1>2, <1>3, <2>1, <3>1
  <2> QED BY <1>2, <2>1, <2>2, Zenon
<1>7. FlattenSeq(Append(old, ActsOf(e))) = FlattenSeq(old) \o ActsOf(e)
  BY <1>5, FlattenAppend
<1> QED BY <1>2, <1>3, <1>4, <1>6, <1>7 DEF Pushed, old

LEMMA OrderPush ==
  ASSUME ShowInv, NEW e \in Events, Pushes(e), render.footer = 0, cmd' = cmd
  PROVE  OrderOK'
<1> DEFINE n == Len(journal) + 1
           out == PushWrites(cmd, render, n, e)
           k == PushKeeps(cmd, render, n, e)
<1>1. n \in Nat \ {0} /\ \A m \in HeldNumbers(render) : m \in Nat /\ m < n
  BY HeldNumbersBelow DEF ShowInv
<1>2. out \in Seq(PieceSet)
  BY <1>1, HeldBelow, PushDelivers DEF ShowInv
<1>3. /\ Ordered(out) /\ RisingIn(k)
      /\ \A p \in RangeOf(out) : p.by \in HeldNumbers(render) \cup {n}
      /\ HeldNumbers(k) \subseteq HeldNumbers(render) \cup {n}
      /\ \A p \in RangeOf(out), m \in HeldNumbers(k) : p.by < m
  BY <1>1, PushOrders DEF ShowInv, OrderOK
<1>4. journal' = Append(journal, e) /\ screen' = screen \o out /\ render' = k
  BY DEF Pushes
<1> HIDE DEF out, k
<1>5. /\ Ordered(screen')
      /\ \A p \in RangeOf(screen') : p.by \in Nat /\ (p.by <= Len(journal) \/ p \in RangeOf(out))
  BY <1>2, <1>3, <1>4, OrderGrows
<1>6. Len(journal') = n /\ RangeOf(screen') = RangeOf(screen) \cup RangeOf(out)
  BY <1>2, <1>4, PieceConcat DEF ShowInv
<1>7. ASSUME NEW p \in RangeOf(screen')
      PROVE  p.by <= Len(journal') /\ \A m \in HeldNumbers(render') : p.by < m
  <2>1. CASE p \in RangeOf(out)
    BY <1>1, <1>3, <1>4, <1>6, <2>1
  <2>2. CASE p \in RangeOf(screen)
    <3>1. p.by <= Len(journal) /\ \A m \in HeldNumbers(render) : p.by < m
      BY <2>2 DEF RangeOf, ShowInv, OrderOK
    <3>2. p.by \in Nat
      BY <1>5
    <3> QED BY <1>1, <1>3, <1>4, <1>6, <3>1, <3>2
  <2> QED BY <1>6, <2>1, <2>2
<1>8. \A i \in DOMAIN screen' : screen'[i] \in RangeOf(screen')
  BY DEF RangeOf
<1>9. RisingIn(render')
  BY <1>3, <1>4
<1> QED BY <1>5, <1>7, <1>8, <1>9 DEF OrderOK, InOrder

LEMMA TellPush ==
  ASSUME ShowInv, exit = "running", NEW e \in Events, Pushes(e), render.footer = 0, cmd' = cmd
  PROVE  TellOK'
<1> DEFINE n == Len(journal) + 1
           out == PushWrites(cmd, render, n, e)
           k == PushKeeps(cmd, render, n, e)
           T == ActsOfEvents'
<1>1. n \in Nat \ {0} /\ \A m \in HeldNumbers(render) : m \in 1..Len(journal) /\ m \in Nat \ {0}
  BY HeldNumbersBelow DEF ShowInv
<1>2. out \in Seq(PieceSet)
  BY <1>1, HeldBelow, PushDelivers DEF ShowInv
<1>3. journal' = Append(journal, e) /\ screen' = screen \o out /\ render' = k /\ exit' = exit
  BY DEF Pushes
<1>4. /\ \A m \in 1..Len(journal) : T[m] = ActsOfEvents[m]
      /\ T[n] = ActsOf(e)
      /\ Pushed' = Pushed \o ActsOf(e)
  BY <1>3, JournalGrows
<1> HIDE DEF T
<1>5. ActsOf(e) \in Seq(Words) /\ \A m \in 1..Len(journal) : T[m] \in Seq(Words)
  BY <1>4, WordsTyped, JournalWords
<1>6. Says(HeldNumbers(render) \cup {n}, T) /\ SilentIn(render, T)
  <2>1. Says(HeldNumbers(render) \cup {n}, T)
    BY <1>1, <1>4, <1>5 DEF Says
  <2>2. SilentIn(render, T)
    BY <1>1, <1>4 DEF SilentIn, ShowInv, TellOK, HeldNumbers
  <2> QED BY <2>1, <2>2
<1>7. /\ ActsTold(out, T) \o Untold(k.lines, T) = Untold(render.lines, T) \o T[n]
      /\ SilentIn(k, T)
  BY <1>1, <1>4, <1>6, PushTells DEF ShowInv
<1>8. \A p \in RangeOf(screen) : p.by # 0 => p.by \in 1..Len(journal)
  BY ScreenBelow
<1>9. \A p \in RangeOf(out) : p.by \in HeldNumbers(render) \cup {n}
  <2>1. \A m \in HeldNumbers(render) : m \in Nat /\ m < n
    BY <1>1
  <2> QED BY <1>1, <2>1, PushOrders DEF ShowInv, OrderOK
<1> HIDE DEF out, k
<1>10. \A p \in RangeOf(out) : T[p.by] \in Seq(Words)
  BY <1>1, <1>4, <1>5, <1>9
<1>11. ActsTold(screen', T) = ActsTold(screen, T) \o ActsTold(out, T)
  <2>1. \A p \in RangeOf(screen) \cup RangeOf(out) : p.by # 0 => T[p.by] \in Seq(Words)
    BY <1>5, <1>8, <1>10
  <2> QED BY <1>2, <1>3, <2>1, ToldConcat DEF ShowInv
<1>12. ActsTold(screen, T) = Reported /\ Reported \in Seq(Words)
  <2>1. ActsTold(screen, T) = Reported
    BY <1>4, <1>8, ToldAgree DEF Reported
  <2>2. Reported \in Seq(Words)
    BY JournalWords, ToldSeq DEF Reported, ShowInv
  <2> QED BY <2>1, <2>2
<1>13. /\ Untold(render.lines, T) = Untold(render.lines, ActsOfEvents)
       /\ Untold(render.lines, T) \in Seq(Words)
  <2>1. NumbersIn(render.lines) \subseteq HeldNumbers(render)
    BY DEF HeldNumbers
  <2>2. Untold(render.lines, T) = Untold(render.lines, ActsOfEvents)
    BY <1>1, <1>4, <2>1, UntoldAgree
  <2>3. render.lines \in Seq(Nat) /\ Says(NumbersIn(render.lines), T)
    BY <1>6, <2>1 DEF ShowInv, RenderOK, Says
  <2> QED BY <2>2, <2>3, UntoldSeq
<1>14. ActsTold(out, T) \in Seq(Words)
  BY <1>2, <1>10, ToldSeq
<1>15. Untold(k.lines, T) \in Seq(Words)
  <2>1. RenderOK(k)
    BY <1>1, HeldBelow, PushDelivers DEF ShowInv, k
  <2>2. HeldNumbers(k) \subseteq HeldNumbers(render) \cup {n}
    <3>1. \A m \in HeldNumbers(render) : m \in Nat /\ m < n
      BY <1>1
    <3> QED BY <1>1, <3>1, PushOrders DEF ShowInv, OrderOK, k
  <2>3. k.lines \in Seq(Nat) /\ Says(NumbersIn(k.lines), T)
    BY <1>6, <2>1, <2>2 DEF RenderOK, Says, HeldNumbers
  <2> QED BY <2>3, UntoldSeq
<1>16. (Reported \o ActsTold(out, T)) \o Untold(k.lines, T)
         = (Reported \o Untold(render.lines, T)) \o T[n]
  <2>0. \A a, b, c \in Seq(Words) : (a \o b) \o c = a \o (b \o c)
    BY ConcatAssociates
  <2>1. (Reported \o ActsTold(out, T)) \o Untold(k.lines, T)
          = Reported \o (ActsTold(out, T) \o Untold(k.lines, T))
    BY <1>12, <1>14, <1>15, <2>0
  <2>2. (Reported \o Untold(render.lines, T)) \o T[n] = Reported \o (Untold(render.lines, T) \o T[n])
    BY <1>4, <1>5, <1>12, <1>13, <2>0
  <2> QED BY <1>7, <2>1, <2>2
<1>17. Reported \o Untold(render.lines, T) = Pushed
  BY <1>13 DEF ShowInv, TellOK
<1>18. Reported' \o Untold(render'.lines, T) = Pushed'
  <2>1. Reported' = ActsTold(screen', T)
    BY DEF Reported, T
  <2> QED BY <1>3, <1>4, <1>11, <1>12, <1>16, <1>17, <2>1
<1> QED BY <1>3, <1>7, <1>18 DEF TellOK, T

\* A renderer that is dropped holds nothing more.
LEMMA DroppedOrder ==
  ASSUME ShowInv, NEW out \in Seq(PieceSet), Ordered(out),
         \A p \in RangeOf(out) : p.by \in HeldNumbers(render) \cup {Len(journal) + 1},
         screen' = screen \o out, render' = FreshRenderer,
         \/ journal' = journal /\ \A p \in RangeOf(out) : p.by \in HeldNumbers(render)
         \/ \E e \in Events : journal' = Append(journal, e)
  PROVE  OrderOK'
<1>1. /\ Ordered(screen')
      /\ \A p \in RangeOf(screen') : p.by \in Nat /\ (p.by <= Len(journal) \/ p \in RangeOf(out))
  BY OrderGrows
<1>2. /\ Len(journal) \in Nat
      /\ \A m \in HeldNumbers(render) : m <= Len(journal)
  BY HeldNumbersBelow DEF ShowInv
<1>3. \A p \in RangeOf(screen') : p.by <= Len(journal')
  <2>1. CASE journal' = journal /\ \A p \in RangeOf(out) : p.by \in HeldNumbers(render)
    BY <1>1, <1>2, <2>1
  <2>2. CASE \E e \in Events : journal' = Append(journal, e)
    <3>1. Len(journal') = Len(journal) + 1
      BY <2>2 DEF ShowInv
    <3>2. ASSUME NEW p \in RangeOf(screen') PROVE p.by <= Len(journal) + 1
      <4>1. p.by \in Nat /\ (p.by <= Len(journal) \/ p.by \in HeldNumbers(render) \cup {Len(journal) + 1})
        BY <1>1
      <4> QED BY <1>2, <4>1
    <3> QED BY <3>1, <3>2
  <2> QED BY <2>1, <2>2
<1>4. \A i \in DOMAIN screen' : screen'[i] \in RangeOf(screen')
  BY DEF RangeOf
<1> QED BY <1>1, <1>3, <1>4, FreshOrders DEF OrderOK, InOrder

LEMMA SilentFresh == \A told : SilentIn(FreshRenderer, told)
BY EmptyRange DEF SilentIn, FreshRenderer

LEMMA FailedTells ==
  ASSUME exit' = "failed", render' = FreshRenderer
  PROVE  TellOK'
BY SilentFresh DEF TellOK

LEMMA OrderPushFails ==
  ASSUME ShowInv, NEW e \in Events, PushFails(e), render.footer = 0
  PROVE  OrderOK'
<1> DEFINE n == Len(journal) + 1
           out == PushWrites(cmd, render, n, e)
<1>1. n \in Nat \ {0} /\ \A m \in HeldNumbers(render) : m \in Nat /\ m < n
  BY HeldNumbersBelow DEF ShowInv
<1>2. out \in Seq(PieceSet)
  BY <1>1, HeldBelow, PushDelivers DEF ShowInv
<1>3. /\ Ordered(out)
      /\ \A p \in RangeOf(out) : p.by \in HeldNumbers(render) \cup {n}
  BY <1>1, PushOrders DEF ShowInv, OrderOK
<1>4. journal' = Append(journal, e) /\ render' = FreshRenderer
  BY DEF PushFails, Exits
<1>5. PICK i \in 1..Len(out) : screen' = screen \o SubSeq(out, 1, i - 1)
  BY DEF PushFails
<1> DEFINE part == SubSeq(out, 1, i - 1)
<1> HIDE DEF out
<1>6. part \in Seq(PieceSet) /\ RangeOf(part) \subseteq RangeOf(out) /\ Ordered(part)
  BY <1>2, <1>3, PrefixRange, OrderedPrefix
<1> HIDE DEF part
<1>7. screen' = screen \o part
  BY <1>5 DEF part
<1> QED BY <1>3, <1>4, <1>6, <1>7, DroppedOrder

LEMMA PrintOrder ==
  ASSUME ShowInv, exit = "running", NEW part \in Parts, Prints(part), cmd' = cmd
  PROVE  OrderOK' /\ TellOK'
<1> DEFINE x == [by |-> 0, part |-> part]
<1>1. x \in PieceSet /\ x.by = 0
  BY DEF PieceSet
<1>2. /\ screen' = Append(screen, x) /\ journal' = journal /\ render' = render /\ exit' = exit
  BY DEF Prints
<1> HIDE DEF x
<1>3. /\ screen \in Seq(PieceSet) /\ Len(screen) \in Nat
      /\ DOMAIN screen' = 1..(Len(screen) + 1) /\ DOMAIN screen = 1..Len(screen)
      /\ \A i \in 1..Len(screen) : screen'[i] = screen[i]
      /\ screen'[Len(screen) + 1] = x
  BY <1>1, <1>2 DEF ShowInv
<1>4. Ordered(screen')
  <2>1. Ordered(screen)
    BY DEF ShowInv, OrderOK, InOrder
  <2>2. ASSUME NEW i \in DOMAIN screen', NEW j \in DOMAIN screen', i < j,
               screen'[i].by > 0, screen'[j].by > 0
        PROVE  Before(screen'[i], screen'[j])
    <3>1. i \in 1..Len(screen) /\ j \in 1..Len(screen)
      BY <1>1, <1>3, <2>2
    <3> QED BY <1>3, <2>1, <2>2, <3>1 DEF Ordered
  <2> QED BY <2>2 DEF Ordered
<1>5. ASSUME NEW i \in DOMAIN screen'
      PROVE  screen'[i].by <= Len(journal') /\ \A m \in HeldNumbers(render') : screen'[i].by < m
  <2>1. CASE i \in DOMAIN screen
    BY <1>2, <1>3, <2>1 DEF ShowInv, OrderOK
  <2>2. CASE i \notin DOMAIN screen
    <3>1. screen'[i].by = 0
      BY <1>1, <1>3, <2>2
    <3>2. Len(journal) \in Nat /\ \A m \in HeldNumbers(render) : m \in Nat \ {0}
      BY HeldNumbersBelow DEF ShowInv
    <3> QED BY <1>2, <3>1, <3>2
  <2> QED BY <2>1, <2>2
<1>6. OrderOK'
  BY <1>2, <1>4, <1>5 DEF OrderOK, InOrder, ShowInv
<1>7. ActsTold(screen', ActsOfEvents) = Reported
  <2>1. screen' = screen \o <<x>> /\ <<x>> \in Seq(PieceSet) /\ RangeOf(<<x>>) = {x}
    BY <1>1, <1>2, <1>3, OnePiece
  <2>2. ActsTold(<<x>>, ActsOfEvents) = <<>>
    BY <1>1, <2>1, ToldNothing
  <2>3. \A p \in RangeOf(screen) \cup RangeOf(<<x>>) : p.by # 0 => ActsOfEvents[p.by] \in Seq(Words)
    BY <1>1, <2>1, JournalWords
  <2>4. ActsTold(screen \o <<x>>, ActsOfEvents)
          = ActsTold(screen, ActsOfEvents) \o ActsTold(<<x>>, ActsOfEvents)
    BY <1>3, <2>1, <2>3, ToldConcat
  <2>5. ActsTold(screen, ActsOfEvents) \in Seq(Words)
    BY <1>3, JournalWords, ToldSeq
  <2> QED BY <2>1, <2>2, <2>4, <2>5, EmptyConcat DEF Reported
<1>8. ActsOfEvents' = ActsOfEvents
  BY <1>2 DEF ActsOfEvents
<1>9. Reported' = Reported /\ Pushed' = Pushed
  BY <1>7, <1>8 DEF Reported, Pushed
<1>10. TellOK'
  BY <1>2, <1>8, <1>9 DEF TellOK, ShowInv
<1> QED BY <1>6, <1>10

LEMMA QuietOrder ==
  ASSUME ShowInv, Quiet, cmd' = cmd
  PROVE  OrderOK' /\ TellOK'
<1>1. journal' = journal /\ screen' = screen /\ render' = render /\ exit' = exit
  BY DEF Quiet
<1>2. ActsOfEvents' = ActsOfEvents
  BY <1>1 DEF ActsOfEvents
<1>3. Reported' = Reported /\ Pushed' = Pushed
  BY <1>1, <1>2 DEF Reported, Pushed
<1>4. TellOK'
  BY <1>1, <1>2, <1>3 DEF TellOK, ShowInv
<1>5. OrderOK'
  BY <1>1 DEF OrderOK, InOrder, ShowInv
<1> QED BY <1>4, <1>5

LEMMA FailOrder ==
  ASSUME ShowInv, journal' = journal, screen' = screen, render' = FreshRenderer
  PROVE  OrderOK'
BY FreshOrders DEF OrderOK, InOrder, ShowInv

\* finalize writes what is held, in order, and tells the rest.
LEMMA FinalOrders ==
  ASSUME ShowInv
  PROVE  LET out == FinalWrites(cmd, render) IN
           /\ out \in Seq(PieceSet) /\ Ordered(out)
           /\ \A p \in RangeOf(out) : p.by \in HeldNumbers(render)
           /\ ActsTold(out, ActsOfEvents) = Untold(render.lines, ActsOfEvents)
<1> DEFINE out == FinalWrites(cmd, render)
<1>1. CASE cmd.json
  <2>1. out = <<>> /\ render.lines = <<>>
    BY <1>1 DEF FinalWrites, ShowInv, FreshRenderer
  <2> HIDE DEF out
  <2> QED BY <2>1, EmptyRange, OrderedFew, UntoldEmpty DEF out
<1>2. CASE ~cmd.json
  <2>1. out = Flushed(render)
    BY <1>2 DEF FinalWrites
  <2>2. /\ RenderOK(render) /\ RisingIn(render) /\ SilentIn(render, ActsOfEvents)
        /\ Says(HeldNumbers(render), ActsOfEvents)
    BY JournalWords DEF ShowInv, OrderOK, TellOK
  <2> HIDE DEF out
  <2>3. Flushed(render) \in Seq(PieceSet)
    BY <2>2, FlushedHeld
  <2>4. /\ Ordered(Flushed(render))
        /\ \A p \in RangeOf(Flushed(render)) : p.by \in HeldNumbers(render)
    BY <2>2, FlushOrders
  <2>5. ActsTold(Flushed(render), ActsOfEvents) = Untold(render.lines, ActsOfEvents)
    BY <2>2, FlushTells
  <2> QED BY <2>1, <2>3, <2>4, <2>5 DEF out
<1> QED BY <1>1, <1>2

LEMMA FinishOrder ==
  ASSUME ShowInv, Finish
  PROVE  OrderOK' /\ TellOK'
<1> DEFINE out == FinalWrites(cmd, render)
<1>1. exit = "running" /\ journal' = journal /\ render' = FreshRenderer
  BY DEF Finish
<1>2. /\ out \in Seq(PieceSet) /\ Ordered(out)
      /\ \A p \in RangeOf(out) : p.by \in HeldNumbers(render)
      /\ ActsTold(out, ActsOfEvents) = Untold(render.lines, ActsOfEvents)
  BY FinalOrders
<1>3. \/ exit' = "ok" /\ screen' = screen \o out
      \/ exit' = "failed" /\ \E i \in 1..Len(out) : screen' = screen \o SubSeq(out, 1, i - 1)
  BY DEF Finish
<1> HIDE DEF out
<1>4. CASE exit' = "ok" /\ screen' = screen \o out
  <2>1. OrderOK'
    BY <1>1, <1>2, <1>4, DroppedOrder
  <2>2. \A p \in RangeOf(screen) \cup RangeOf(out) : p.by # 0 => ActsOfEvents[p.by] \in Seq(Words)
    BY <1>2, JournalWords DEF Says
  <2>3. ActsTold(screen \o out, ActsOfEvents)
          = ActsTold(screen, ActsOfEvents) \o ActsTold(out, ActsOfEvents)
    BY <1>2, <2>2, ToldConcat DEF ShowInv
  <2>4. ActsOfEvents' = ActsOfEvents
    BY <1>1 DEF ActsOfEvents
  <2>5. Reported' = Reported \o Untold(render.lines, ActsOfEvents) /\ Pushed' = Pushed
    BY <1>2, <1>4, <2>3, <2>4 DEF Reported, Pushed
  <2>6. Reported' = Pushed'
    BY <1>1, <2>5 DEF ShowInv, TellOK
  <2> QED BY <1>1, <1>4, <2>1, <2>6, SilentFresh DEF TellOK
<1>5. CASE exit' = "failed" /\ \E i \in 1..Len(out) : screen' = screen \o SubSeq(out, 1, i - 1)
  <2>1. PICK i \in 1..Len(out) : screen' = screen \o SubSeq(out, 1, i - 1)
    BY <1>5
  <2> DEFINE part == SubSeq(out, 1, i - 1)
  <2>2. part \in Seq(PieceSet) /\ RangeOf(part) \subseteq RangeOf(out) /\ Ordered(part)
    BY <1>2, PrefixRange, OrderedPrefix
  <2>3. screen' = screen \o part
    BY <2>1
  <2> HIDE DEF part
  <2>4. \A p \in RangeOf(part) : p.by \in HeldNumbers(render)
    BY <1>2, <2>2
  <2>5. OrderOK'
    BY <1>1, <2>2, <2>3, <2>4, DroppedOrder
  <2> QED BY <1>1, <1>5, <2>5, FailedTells
<1> QED BY <1>3, <1>4, <1>5

LEMMA PushStep ==
  ASSUME ShowInv, exit = "running", NEW e \in Events, Pushes(e), cmd' = cmd,
         render.footer = 0
  PROVE  /\ ShowInv'
         /\ Promise!Push
         /\ e.type # "pkg_footer" => render'.footer \in {0, render.footer}
<1> DEFINE n == Len(journal) + 1
           out == PushWrites(cmd, render, n, e)
           k == PushKeeps(cmd, render, n, e)
<1>1. n \in Nat \ {0} /\ \A p \in HeldBy(render) : p.by > 0 /\ p.by < n
  BY HeldBelow DEF ShowInv
<1>2. /\ out \in Seq(PieceSet)
      /\ RenderOK(k)
      /\ cmd.json => k = FreshRenderer
      /\ ToldIn(out) \cup HeldBy(k) = HeldBy(render) \cup NewDue(n, e)
      /\ ToldIn(out) \cap HeldBy(k) = {}
      /\ e.type # "pkg_footer" => k.footer \in {0, render.footer}
  BY <1>1, PushDelivers DEF ShowInv
<1>3. journal' = Append(journal, e) /\ screen' = screen \o out /\ render' = k /\ exit' = exit
  BY DEF Pushes
<1> HIDE DEF out, k
<1>4. /\ screen' \in Seq(PieceSet)
      /\ Told' = Told \cup ToldIn(out)
  BY <1>2, <1>3, PieceConcat, ToldIsTold DEF ShowInv
<1>5. Due' = Due \cup NewDue(n, e)
  BY <1>3, DueGrows DEF ShowInv
<1>6. Held' = HeldBy(k) /\ Held = HeldBy(render)
  BY <1>3 DEF Held
<1>7. Told \cup Held = Due /\ Told \cap Held = {}
  BY DEF ShowInv, Conserved
<1>8. \A p \in Due : p.by < n
  BY DueInJournal DEF ShowInv
<1>9. Told \cap NewDue(n, e) = {}
  BY <1>7, <1>8 DEF NewDue
<1>10. Told' \cup Held' = Due' /\ Told' \cap Held' = {}
  BY <1>2, <1>4, <1>5, <1>6, <1>7, <1>9
<1>11. Conserved'
  BY <1>3, <1>10 DEF Conserved
<1>12. ShowInv'
  BY <1>2, <1>3, <1>4, <1>11, OrderPush, TellPush DEF ShowInv, CmdOK
<1>13. Promise!Push
  BY <1>3, <1>4, <1>5, <1>10 DEF Promise!Push
<1> QED BY <1>2, <1>3, <1>12, <1>13

LEMMA PushFailStep ==
  ASSUME ShowInv, exit = "running", NEW e \in Events, PushFails(e),
         render.footer = 0
  PROVE  ShowInv' /\ Promise!Drop /\ render'.footer = 0
<1> DEFINE n == Len(journal) + 1
           out == PushWrites(cmd, render, n, e)
           k == PushKeeps(cmd, render, n, e)
<1>1. n \in Nat \ {0} /\ \A p \in HeldBy(render) : p.by > 0 /\ p.by < n
  BY HeldBelow DEF ShowInv
<1>2. /\ out \in Seq(PieceSet)
      /\ ToldIn(out) \cup HeldBy(k) = HeldBy(render) \cup NewDue(n, e)
  BY <1>1, PushDelivers DEF ShowInv
<1>3. /\ journal' = Append(journal, e) /\ render' = FreshRenderer /\ exit' = "failed"
      /\ cmd' = cmd
  BY DEF PushFails, Exits
<1>4. PICK i \in 1..Len(out) : screen' = screen \o SubSeq(out, 1, i - 1)
  BY DEF PushFails
<1> DEFINE part == SubSeq(out, 1, i - 1)
<1> HIDE DEF out, k
<1>5. part \in Seq(PieceSet) /\ ToldIn(part) \subseteq ToldIn(out)
  BY <1>2, PrefixRange DEF ToldIn
<1> HIDE DEF part
<1>6. /\ screen' \in Seq(PieceSet)
      /\ Told' = Told \cup ToldIn(part)
  BY <1>4, <1>5, PieceConcat, ToldIsTold DEF ShowInv, part
<1>7. Due' = Due \cup NewDue(n, e)
  BY <1>3, DueGrows DEF ShowInv
<1>8. Held' = {}
  BY <1>3, FreshHolds DEF Held
<1>9. Told \cup HeldBy(render) = Due
  BY DEF ShowInv, Conserved, Held
<1>10. Told \subseteq Told' /\ Told' \subseteq Due'
  BY <1>2, <1>5, <1>6, <1>7, <1>9
<1>11. Conserved'
  BY <1>3, <1>8, <1>10 DEF Conserved
<1>12. ShowInv'
  BY <1>3, <1>6, <1>11, FreshHolds, OrderPushFails, FailedTells DEF ShowInv, CmdOK
<1>13. Promise!Drop
  BY <1>3, <1>7, <1>10 DEF Promise!Drop
<1> QED BY <1>3, <1>12, <1>13 DEF FreshRenderer

LEMMA PrintStep ==
  ASSUME ShowInv, exit = "running", NEW part \in {"prompt", "summary", "text"}, Prints(part), cmd' = cmd
  PROVE  ShowInv' /\ Promise!Push /\ render' = render
<1> DEFINE x == [by |-> 0, part |-> part]
<1>1. x \in PieceSet /\ ~ByEvent(x)
  BY DEF PieceSet, Parts, ByEvent
<1>2. /\ screen' = Append(screen, x) /\ journal' = journal /\ render' = render /\ exit' = exit
  BY DEF Prints
<1> HIDE DEF x
<1>3. screen' \in Seq(PieceSet) /\ Told' = Told
  BY <1>1, <1>2, AppendRange, ToldIsTold DEF ShowInv, ToldIn
<1>4. Due' = Due /\ Held' = Held
  BY <1>2, DueStays DEF Held
<1>5. Conserved' /\ ShowInv'
  <2>1. OrderOK' /\ TellOK'
    BY PrintOrder DEF Parts
  <2> QED BY <1>2, <1>3, <1>4, <2>1 DEF ShowInv, Conserved, CmdOK
<1>6. Promise!Push
  BY <1>2, <1>3, <1>4 DEF Promise!Push, ShowInv, Conserved
<1> QED BY <1>2, <1>5, <1>6

LEMMA QuietStep ==
  ASSUME ShowInv, Quiet, cmd' = cmd
  PROVE  ShowInv' /\ UNCHANGED Promise!vars /\ render' = render
<1>1. journal' = journal /\ screen' = screen /\ render' = render /\ exit' = exit
  BY DEF Quiet
<1>2. Due' = Due /\ Held' = Held /\ Told' = Told
  BY <1>1, DueStays, ToldIsTold DEF Held
<1>3. ShowInv'
  BY <1>1, <1>2, QuietOrder DEF ShowInv, Conserved, CmdOK
<1>4. UNCHANGED Promise!vars
  BY <1>1, <1>2 DEF Promise!vars
<1> QED BY <1>1, <1>3, <1>4

LEMMA FailStep ==
  ASSUME ShowInv, exit = "running", Fail
  PROVE  ShowInv' /\ Promise!Drop /\ render'.footer = 0
<1>1. /\ journal' = journal /\ screen' = screen /\ render' = FreshRenderer /\ exit' = "failed"
      /\ cmd' = cmd
  BY DEF Fail, Exits
<1>2. Due' = Due /\ Held' = {} /\ Told' = Told
  BY <1>1, DueStays, ToldIsTold, FreshHolds DEF Held
<1>3. ShowInv'
  BY <1>1, <1>2, FreshHolds, FailOrder, FailedTells DEF ShowInv, Conserved, CmdOK
<1>4. Promise!Drop
  BY <1>1, <1>2 DEF Promise!Drop, ShowInv, Conserved
<1> QED BY <1>1, <1>3, <1>4 DEF FreshRenderer

LEMMA FinishStep ==
  ASSUME ShowInv, Finish
  PROVE  ShowInv' /\ (Promise!Close \/ Promise!Drop) /\ render'.footer = 0
<1> DEFINE out == FinalWrites(cmd, render)
<1>1. exit = "running" /\ journal' = journal /\ render' = FreshRenderer /\ cmd' = cmd
  BY DEF Finish
<1>2. out \in Seq(PieceSet) /\ ToldIn(out) = HeldBy(render)
  <2>1. CASE cmd.json
    <3>1. out = <<>> /\ HeldBy(render) = {}
      BY <2>1, FreshHolds DEF FinalWrites, ShowInv
    <3> QED BY <3>1, EmptyRange DEF ToldIn
  <2>2. CASE ~cmd.json
    <3>1. out = Flushed(render)
      BY <2>2 DEF FinalWrites
    <3>2. \A p \in HeldBy(render) : ByEvent(p)
      BY HeldBelow, HeldTyped DEF ShowInv
    <3> QED BY <3>1, <3>2, FlushedHeld DEF ToldIn, ShowInv
  <2> QED BY <2>1, <2>2
<1>3. \/ exit' = "ok" /\ screen' = screen \o out
      \/ exit' = "failed" /\ \E i \in 1..Len(out) : screen' = screen \o SubSeq(out, 1, i - 1)
  BY DEF Finish
<1> HIDE DEF out
<1>4. Due' = Due /\ Held' = {}
  BY <1>1, DueStays, FreshHolds DEF Held
<1>5. Told \cup HeldBy(render) = Due
  BY <1>1 DEF ShowInv, Conserved, Held
<1>6. CASE exit' = "ok" /\ screen' = screen \o out
  <2>1. screen' \in Seq(PieceSet) /\ Told' = Due
    BY <1>2, <1>5, <1>6, PieceConcat, ToldIsTold DEF ShowInv
  <2>2. ShowInv'
    BY <1>1, <1>4, <1>6, <2>1, FreshHolds, FinishOrder DEF ShowInv, Conserved, CmdOK
  <2>3. Promise!Close
    BY <1>1, <1>4, <1>6, <2>1 DEF Promise!Close
  <2> QED BY <1>1, <2>2, <2>3 DEF FreshRenderer
<1>7. CASE exit' = "failed" /\ \E i \in 1..Len(out) : screen' = screen \o SubSeq(out, 1, i - 1)
  <2>1. PICK i \in 1..Len(out) : screen' = screen \o SubSeq(out, 1, i - 1)
    BY <1>7
  <2>2. SubSeq(out, 1, i - 1) \in Seq(PieceSet) /\ ToldIn(SubSeq(out, 1, i - 1)) \subseteq ToldIn(out)
    BY <1>2, PrefixRange DEF ToldIn
  <2> DEFINE part == SubSeq(out, 1, i - 1)
  <2> HIDE DEF part
  <2>3. screen' \in Seq(PieceSet) /\ Told' = Told \cup ToldIn(part)
    BY <2>1, <2>2, PieceConcat, ToldIsTold DEF ShowInv, part
  <2>6. Told \subseteq Told' /\ Told' \subseteq Due
    BY <1>2, <1>5, <2>2, <2>3 DEF part
  <2>4. ShowInv'
    BY <1>1, <1>4, <1>7, <2>3, <2>6, FreshHolds, FinishOrder DEF ShowInv, Conserved, CmdOK
  <2>5. Promise!Drop
    BY <1>1, <1>4, <1>7, <2>6 DEF Promise!Drop
  <2> QED BY <1>1, <2>4, <2>5 DEF FreshRenderer
<1> QED BY <1>3, <1>6, <1>7

-----------------------------------------------------------------------------
(* Where a step may take the command                                       *)

MoveOK ==
  /\ cmd' = cmd
  /\ todo' \in Seq(Stages)
  /\ at' \in Nat
  /\ acts' \in Seq(Acts)
  /\ \A i \in DOMAIN todo' : todo'[i] = "footer" => i = Len(todo')

Kept == Promise!Next \/ UNCHANGED Promise!vars

LEMMA StayMoves ==
  ASSUME OInv, cmd' = cmd, todo' = todo, at' \in Nat, acts' \in Seq(Acts)
  PROVE  MoveOK
BY DEF MoveOK, OInv, PlaceInv

LEMMA NextItemMoves ==
  ASSUME OInv, NextItem
  PROVE  MoveOK
BY StayMoves DEF NextItem, OInv, PlaceInv

LEMMA EntersMoves ==
  ASSUME OInv, NEW stages \in Seq(Stages \ {"footer"}), Enters(stages)
  PROVE  MoveOK
<1>1. /\ cmd' = cmd /\ todo' = stages /\ at' = 0 /\ acts' = <<>>
  BY DEF Enters
<1>2. stages \in Seq(Stages) /\ \A i \in DOMAIN stages : stages[i] # "footer"
  OBVIOUS
<1> QED BY <1>1, <1>2 DEF MoveOK

LEMMA TailMoves ==
  ASSUME OInv, todo # <<>>, cmd' = cmd, todo' = Tail(todo), at' = 0, acts' \in Seq(Acts)
  PROVE  MoveOK /\ (Head(todo) = "footer" => todo' = <<>>)
<1>1. cmd' = cmd /\ todo' = Tail(todo) /\ at' = 0 /\ acts' \in Seq(Acts)
  OBVIOUS
<1>2. /\ todo \in Seq(Stages)
      /\ Len(todo) \in Nat \ {0} /\ DOMAIN todo = 1..Len(todo) /\ Head(todo) = todo[1]
  BY DEF OInv, PlaceInv
<1>7. \A i \in 1..Len(todo) : todo[i] = "footer" => i = Len(todo)
  BY <1>2 DEF OInv, PlaceInv
<1>3. /\ Tail(todo) \in Seq(Stages) /\ Len(Tail(todo)) = Len(todo) - 1
      /\ \A i \in 1..Len(Tail(todo)) : Tail(todo)[i] = todo[i + 1]
  BY <1>2
<1>4. \A i \in DOMAIN todo' : todo'[i] = "footer" => i = Len(todo')
  <2>1. DOMAIN todo' = 1..(Len(todo) - 1) /\ Len(todo') = Len(todo) - 1
    BY <1>1, <1>3
  <2>2. ASSUME NEW i \in DOMAIN todo', todo'[i] = "footer" PROVE i = Len(todo')
    <3>1. i + 1 \in 1..Len(todo) /\ todo[i + 1] = "footer"
      BY <1>1, <1>2, <1>3, <2>1, <2>2
    <3>2. i + 1 = Len(todo)
      BY <1>7, <3>1
    <3> QED BY <1>2, <2>1, <3>2
  <2> QED BY <2>2
<1>5. Head(todo) = "footer" => Len(Tail(todo)) = 0
  <2>1. 1 \in 1..Len(todo)
    BY <1>2
  <2>2. Head(todo) = "footer" => Len(todo) = 1
    BY <1>2, <1>7, <2>1
  <2> QED BY <1>3, <2>2
<1>6. Head(todo) = "footer" => todo' = <<>>
  BY <1>1, <1>3, <1>5
<1> QED BY <1>1, <1>3, <1>4, <1>6 DEF MoveOK

LEMMA NextStageMoves ==
  ASSUME OInv, todo # <<>>, NextStage
  PROVE  MoveOK /\ (Head(todo) = "footer" => todo' = <<>>)
<1>1. cmd' = cmd /\ todo' = Tail(todo) /\ at' = 0 /\ acts' \in Seq(Acts)
  BY DEF NextStage, Enters
<1> QED BY <1>1, TailMoves

LEMMA StageShows ==
  ASSUME OInv, exit = "running", todo # <<>>, MoveOK,
         \/ Quiet
         \/ \E part \in {"prompt", "summary", "text"} : Prints(part)
         \/ \E e \in Events : e.type # "pkg_footer" /\ Pushes(e)
  PROVE  OInv' /\ Kept
<1>1. render.footer = 0 /\ ShowInv /\ cmd' = cmd
  BY DEF OInv, PlaceInv, MoveOK
<1>2. ShowInv' /\ Kept /\ render'.footer = 0
  <2>1. CASE Quiet
    BY <1>1, <2>1, QuietStep DEF Kept
  <2>2. ASSUME NEW part \in {"prompt", "summary", "text"}, Prints(part)
        PROVE  ShowInv' /\ Kept /\ render'.footer = 0
    BY <1>1, <2>2, PrintStep DEF Kept, Promise!Next
  <2>3. ASSUME NEW e \in Events, e.type # "pkg_footer", Pushes(e)
        PROVE  ShowInv' /\ Kept /\ render'.footer = 0
    BY <1>1, <2>3, PushStep DEF Kept, Promise!Next
  <2> QED BY <2>1, <2>2, <2>3
<1> QED BY <1>1, <1>2 DEF OInv, PlaceInv, MoveOK

LEMMA StageFails ==
  ASSUME OInv, exit = "running", todo # <<>>,
         Fail \/ \E e \in Events : PushFails(e)
  PROVE  OInv' /\ Kept
<1>1. render.footer = 0 /\ ShowInv
  BY DEF OInv, PlaceInv
<1>2. UNCHANGED <<cmd, todo, at, acts>>
  BY DEF Fail, PushFails, Exits
<1>3. ShowInv' /\ Promise!Drop /\ render'.footer = 0
  <2>1. CASE Fail
    BY <1>1, <2>1, FailStep
  <2>2. ASSUME NEW e \in Events, PushFails(e)
        PROVE  ShowInv' /\ Promise!Drop /\ render'.footer = 0
    BY <1>1, <2>2, PushFailStep
  <2> QED BY <2>1, <2>2
<1> QED BY <1>2, <1>3 DEF OInv, PlaceInv, Kept, Promise!Next

-----------------------------------------------------------------------------
(* The actions                                                             *)

LEMMA RunningStages == ApplyStages \in Seq(Stages \ {"footer"}) /\ <<>> \in Seq(Stages \ {"footer"})
BY DEF ApplyStages, Stages

LEMMA InStage ==
  ASSUME OInv, NEW s, In(s)
  PROVE  exit = "running" /\ todo # <<>> /\ Head(todo) = s
BY DEF In

LEMMA EventsTyped ==
  ASSUME NEW item \in Nat
  PROVE  /\ PkgStatus(item) \subseteq Events
         /\ GitStatus(item) \subseteq Events
         /\ FileStatus(item) \subseteq Events
         /\ \A act \in ActNames : Event("action", act, "done", item) \in Events
         /\ \A is \in {"disabled", "installed", "missing"} : Event("pkg_row", "", is, item) \in Events
         /\ \A s \in Stages, is \in {"", "fine", "bad"} :
              /\ Event("section", s, is, item) \in Events
              /\ Event("check", s, is, item) \in Events
         /\ \A is \in {"noop", "work", "done"} :
              /\ Event("plan", "", is, item) \in Events
              /\ Event("applied", "", is, item) \in Events
         /\ Event("status", "repo", "clean", item) \in Events
         /\ Event("pkg_note", "", "", item) \in Events
         /\ Event("pkg_footer", "", "", item) \in Events
         /\ \A name \in Names : Event("init_summary", name, "", item) \in Events
<1> USE DEF Event, Events, Kinds, States, Variants
<1>0. \A of \in {"pkg", "git", "generated", "symlink"}, is \in States :
        Event("status", of, is, item) \in Events
  BY DEF Names
<1>1. PkgStatus(item) \subseteq Events
  <2>1. \A is \in {"ok", "missing"} : Event("status", "pkg", is, item) \in Events
    BY Zenon, <1>0 DEF Names
  <2> HIDE DEF Event, Events
  <2> QED BY <2>1 DEF PkgStatus
<1>2. GitStatus(item) \subseteq Events
  <2>1. \A is \in {"modified", "untracked"} : Event("status", "git", is, item) \in Events
    BY <1>0
  <2> HIDE DEF Event, Events
  <2> QED BY <2>1 DEF GitStatus
<1>3. FileStatus(item) \subseteq Events
  <2>1. /\ \A is \in {"ok", "modified", "new"} : Event("status", "generated", is, item) \in Events
        /\ \A is \in {"ok", "new", "wrong", "in_the_way"} : Event("status", "symlink", is, item) \in Events
    BY <1>0
  <2> HIDE DEF Event, Events
  <2> QED BY <2>1 DEF FileStatus
<1>4. \A act \in ActNames : Event("action", act, "done", item) \in Events
  OBVIOUS
<1>5. \A is \in {"disabled", "installed", "missing"} : Event("pkg_row", "", is, item) \in Events
  OBVIOUS
<1>6. \A s \in Stages, is \in {"", "fine", "bad"} :
        /\ Event("section", s, is, item) \in Events
        /\ Event("check", s, is, item) \in Events
  OBVIOUS
<1>7. \A is \in {"noop", "work", "done"} :
        /\ Event("plan", "", is, item) \in Events
        /\ Event("applied", "", is, item) \in Events
  OBVIOUS
<1>8. /\ Event("status", "repo", "clean", item) \in Events
      /\ Event("pkg_note", "", "", item) \in Events
      /\ Event("pkg_footer", "", "", item) \in Events
  OBVIOUS
<1>9. \A name \in Names : Event("init_summary", name, "", item) \in Events
  OBVIOUS
<1> QED BY <1>1, <1>2, <1>3, <1>4, <1>5, <1>6, <1>7, <1>8, <1>9

LEMMA NoFooter ==
  ASSUME NEW item
  PROVE  /\ \A e \in PkgStatus(item) \cup GitStatus(item) \cup FileStatus(item) : e.type # "pkg_footer"
         /\ \A t \in Kinds \ {"pkg_footer"} : \A of, is : Event(t, of, is, item).type # "pkg_footer"
BY DEF PkgStatus, GitStatus, FileStatus, Event

LEMMA LoadKeeps == ASSUME OInv, Load PROVE OInv' /\ Kept
<1>1. exit = "running" /\ todo # <<>>
  BY InStage DEF Load
<1>2. (NextStage /\ Quiet) \/ Fail
  BY DEF Load
<1> QED BY <1>1, <1>2, NextStageMoves, StageShows, StageFails

LEMMA PkgHealthKeeps ==
  ASSUME OInv, exit = "running", todo # <<>>,
         NEW first \in {0, 1}, at >= first, PkgHealth(first) \/ Fail
  PROVE  OInv' /\ Kept
<1>1. CASE Fail
  BY <1>1, StageFails
<1>2. CASE PkgHealth(first)
  <2>1. at + 1 - first \in Nat
    BY DEF OInv, PlaceInv
  <2>2. \/ NextItem /\ Quiet
        \/ \E e \in PkgStatus(at + 1 - first) : (NextItem /\ Pushes(e)) \/ PushFails(e)
        \/ NextStage /\ Quiet
    BY <1>2 DEF PkgHealth
  <2>3. \A e \in PkgStatus(at + 1 - first) : e \in Events /\ e.type # "pkg_footer"
    BY <2>1, EventsTyped, NoFooter
  <2>4. CASE (NextItem /\ Quiet) \/ (NextStage /\ Quiet)
    BY <2>4, NextItemMoves, NextStageMoves, StageShows
  <2>5. ASSUME NEW e \in PkgStatus(at + 1 - first), NextItem, Pushes(e) PROVE OInv' /\ Kept
    BY <2>3, <2>5, NextItemMoves, StageShows
  <2>6. ASSUME NEW e \in PkgStatus(at + 1 - first), PushFails(e) PROVE OInv' /\ Kept
    BY <2>3, <2>6, StageFails
  <2> QED BY <2>2, <2>4, <2>5, <2>6
<1> QED BY <1>1, <1>2

LEMMA HealthKeeps == ASSUME OInv, Health PROVE OInv' /\ Kept
<1>1. exit = "running" /\ todo # <<>> /\ at >= 0
  BY InStage DEF Health, OInv, PlaceInv
<1> QED BY <1>1, PkgHealthKeeps DEF Health

LEMMA PackagesKeeps == ASSUME OInv, Packages PROVE OInv' /\ Kept
<1>1. exit = "running" /\ todo # <<>> /\ at >= 1
  BY DEF Packages, InDoctor, OInv, PlaceInv
<1> QED BY <1>1, PkgHealthKeeps DEF Packages

LEMMA GitRowsKeeps == ASSUME OInv, exit = "running", todo # <<>>, GitRows PROVE OInv' /\ Kept
<1>1. at + 1 \in Nat
  BY DEF OInv, PlaceInv
<1>2. \A e \in GitStatus(at + 1) : e \in Events /\ e.type # "pkg_footer"
  BY <1>1, EventsTyped, NoFooter
<1>3. PICK e \in GitStatus(at + 1) : (NextItem /\ Pushes(e)) \/ PushFails(e)
  BY DEF GitRows
<1> QED BY <1>2, <1>3, NextItemMoves, StageShows, StageFails

LEMMA OwnKeeps == ASSUME OInv, Own PROVE OInv' /\ Kept
<1>1. exit = "running" /\ todo # <<>>
  BY InStage DEF Own
<1> DEFINE e == Event("status", "repo", "clean", 0)
<1>2. e \in Events /\ e.type # "pkg_footer"
  BY EventsTyped DEF Event
<1>3. GitRows \/ (NextStage /\ Quiet) \/ (NextStage /\ Pushes(e)) \/ PushFails(e) \/ Fail
  BY DEF Own
<1> HIDE DEF e
<1> QED BY <1>1, <1>2, <1>3, GitRowsKeeps, NextStageMoves, StageShows, StageFails

LEMMA DirtyKeeps == ASSUME OInv, Dirty PROVE OInv' /\ Kept
<1>1. exit = "running" /\ todo # <<>>
  BY InStage DEF Dirty
<1>2. GitRows \/ (NextStage /\ Quiet) \/ (Enters(<<"changes">>) /\ Quiet) \/ Fail
  BY DEF Dirty
<1>3. <<"changes">> \in Seq(Stages \ {"footer"})
  BY DEF Stages
<1> QED BY <1>1, <1>2, <1>3, GitRowsKeeps, NextStageMoves, EntersMoves, StageShows, StageFails

LEMMA DecideKeeps == ASSUME OInv, Decide PROVE OInv' /\ Kept
<1>1. exit = "running" /\ todo # <<>>
  BY InStage DEF Decide
<1>2. \/ (NextStage \/ Enters(<<>>)) /\ (Quiet \/ Prints("summary") \/ Prints("prompt"))
      \/ Fail
  BY DEF Decide
<1>3. NextStage \/ Enters(<<>>) => MoveOK
  BY <1>1, NextStageMoves, EntersMoves, RunningStages
<1> QED BY <1>1, <1>2, <1>3, StageShows, StageFails

LEMMA CheckStatusKeeps == ASSUME OInv, CheckStatus PROVE OInv' /\ Kept
<1>1. exit = "running" /\ todo # <<>> /\ at + 1 \in Nat
  BY InStage DEF CheckStatus, OInv, PlaceInv
<1>2. \A e \in FileStatus(at + 1) : e \in Events /\ e.type # "pkg_footer"
  BY <1>1, EventsTyped, NoFooter
<1>3. \/ \E e \in FileStatus(at + 1) : (NextItem /\ Pushes(e)) \/ PushFails(e)
      \/ NextStage /\ Quiet
      \/ Fail
  BY DEF CheckStatus
<1>4. ASSUME NEW e \in FileStatus(at + 1), (NextItem /\ Pushes(e)) \/ PushFails(e)
      PROVE  OInv' /\ Kept
  BY <1>1, <1>2, <1>4, NextItemMoves, StageShows, StageFails
<1> QED BY <1>1, <1>3, <1>4, NextStageMoves, StageShows, StageFails

LEMMA ChangeTyped ==
  ASSUME NEW item \in Nat
  PROVE  Change(item) \subseteq Seq(Acts)
<1>1. \A act \in ActNames : Act(act, item) \in Acts
  BY DEF Act, Acts
<1>2. \A a, b \in Acts : <<a>> \in Seq(Acts) /\ <<a, b>> \in Seq(Acts)
  OBVIOUS
<1>3. /\ Act("created_file", item) \in Acts /\ Act("created_dir", item) \in Acts
      /\ Act("updated_file", item) \in Acts /\ Act("created_symlink", item) \in Acts
      /\ Act("unlinked", item) \in Acts /\ Act("replaced_symlink", item) \in Acts
  BY <1>1 DEF ActNames
<1> QED BY <1>2, <1>3 DEF Change

LEMMA ApplyEntryKeeps == ASSUME OInv, ApplyEntry PROVE OInv' /\ Kept
<1>1. exit = "running" /\ todo # <<>> /\ at + 1 \in Nat
  BY InStage DEF ApplyEntry, OInv, PlaceInv
<1>2. \/ NextItem /\ (Quiet \/ Prints("prompt"))
      \/ /\ acts' \in Change(at + 1) /\ at' = at + 1 /\ Stay
         /\ Quiet \/ Prints("prompt")
      \/ Fail
  BY DEF ApplyEntry
<1>3. acts' \in Change(at + 1) /\ at' = at + 1 /\ Stay => MoveOK
  BY <1>1, ChangeTyped, StayMoves DEF Stay
<1> QED BY <1>1, <1>2, <1>3, NextItemMoves, StageShows, StageFails

LEMMA DoActKeeps == ASSUME OInv, DoAct PROVE OInv' /\ Kept
<1> DEFINE a == Head(acts)
           e == Event("action", a.act, "done", a.item)
<1>1. exit = "running" /\ todo # <<>> /\ acts # <<>>
  BY InStage DEF DoAct
<1>2. a \in Acts /\ Tail(acts) \in Seq(Acts)
  BY <1>1 DEF OInv, PlaceInv
<1>3. a.act \in ActNames /\ a.item \in Nat
  BY <1>2 DEF Acts
<1>4. e \in Events /\ e.type # "pkg_footer"
  BY <1>3, EventsTyped DEF Event
<1>5. \/ /\ acts' = Tail(acts) /\ UNCHANGED at /\ Stay
         /\ Pushes(e) \/ Quiet
      \/ PushFails(e)
      \/ Fail
  BY DEF DoAct
<1>6. acts' = Tail(acts) /\ UNCHANGED at /\ Stay => MoveOK
  BY <1>2, StayMoves DEF Stay, OInv, PlaceInv
<1> HIDE DEF e
<1> QED BY <1>1, <1>4, <1>5, <1>6, StageShows, StageFails

LEMMA EndChangesKeeps == ASSUME OInv, EndChanges PROVE OInv' /\ Kept
<1>1. exit = "running" /\ todo # <<>> /\ NextStage /\ Quiet
  BY InStage DEF EndChanges
<1> QED BY <1>1, NextStageMoves, StageShows

LEMMA NoteKeeps == ASSUME OInv, Note PROVE OInv' /\ Kept
<1>1. exit = "running" /\ todo # <<>>
  BY InStage DEF Note
<1> DEFINE e == Event("pkg_note", "", "", 0)
<1>2. e \in Events /\ e.type # "pkg_footer"
  BY EventsTyped DEF Event
<1>3. (NextStage /\ (Quiet \/ Pushes(e))) \/ PushFails(e) \/ Fail
  BY DEF Note
<1> HIDE DEF e
<1> QED BY <1>1, <1>2, <1>3, NextStageMoves, StageShows, StageFails

LEMMA RowsKeeps == ASSUME OInv, Rows PROVE OInv' /\ Kept
<1>0. In("rows") /\ at \in Nat
  BY DEF Rows, OInv, PlaceInv
<1>1. exit = "running" /\ todo # <<>> /\ at + 1 \in Nat
  BY <1>0, InStage
<1> DEFINE e(is) == Event("pkg_row", "", is, at + 1)
<1>2. \A is \in {"disabled", "installed", "missing"} : e(is) \in Events /\ e(is).type # "pkg_footer"
  BY <1>1, EventsTyped DEF Event
<1>3. \/ (NextItem \/ NextStage) /\ Quiet
      \/ \E is \in {"disabled", "installed", "missing"} : (NextItem /\ Pushes(e(is))) \/ PushFails(e(is))
      \/ Fail
  BY DEF Rows
<1> HIDE DEF e
<1>4. ASSUME NEW is \in {"disabled", "installed", "missing"},
             (NextItem /\ Pushes(e(is))) \/ PushFails(e(is))
      PROVE  OInv' /\ Kept
  BY <1>1, <1>2, <1>4, NextItemMoves, StageShows, StageFails
<1> QED BY <1>1, <1>3, <1>4, NextItemMoves, NextStageMoves, StageShows, StageFails

LEMMA PkgFooterKeeps == ASSUME OInv, PkgFooter PROVE OInv' /\ Kept
<1>1. exit = "running" /\ todo # <<>> /\ Head(todo) = "footer"
  BY InStage DEF PkgFooter
<1> DEFINE e == Event("pkg_footer", "", "", 0)
<1>2. e \in Events
  BY EventsTyped
<1>3. (NextStage /\ Quiet) \/ (NextStage /\ Pushes(e)) \/ PushFails(e)
  BY DEF PkgFooter
<1> HIDE DEF e
<1>4. CASE (NextStage /\ Quiet) \/ PushFails(e)
  BY <1>1, <1>2, <1>4, NextStageMoves, StageShows, StageFails
<1>5. CASE NextStage /\ Pushes(e)
  <2>1. MoveOK /\ todo' = <<>>
    BY <1>1, <1>5, NextStageMoves
  <2>2. render.footer = 0 /\ ShowInv /\ cmd' = cmd
    BY <1>1, <2>1 DEF OInv, PlaceInv, MoveOK
  <2>3. ShowInv' /\ Promise!Push
    BY <1>1, <1>2, <1>5, <2>2, PushStep
  <2> QED BY <2>1, <2>2, <2>3 DEF OInv, PlaceInv, MoveOK, Kept, Promise!Next
<1> QED BY <1>3, <1>4, <1>5

LEMMA DoctorStage ==
  ASSUME OInv, InDoctor
  PROVE  exit = "running" /\ todo # <<>> /\ Head(todo) \in Stages
BY DEF InDoctor, OInv, PlaceInv

LEMMA EnterSectionKeeps == ASSUME OInv, EnterSection PROVE OInv' /\ Kept
<1>1. exit = "running" /\ todo # <<>> /\ Head(todo) \in Stages
  BY DoctorStage DEF EnterSection
<1> DEFINE e == Event("section", Head(todo), "", 0)
<1>2. e \in Events /\ e.type # "pkg_footer"
  BY <1>1, EventsTyped DEF Event
<1>3. (NextItem /\ Pushes(e)) \/ PushFails(e)
  BY DEF EnterSection
<1> HIDE DEF e
<1> QED BY <1>1, <1>2, <1>3, NextItemMoves, StageShows, StageFails

LEMMA CheckKeeps == ASSUME OInv, Check PROVE OInv' /\ Kept
<1>1. exit = "running" /\ todo # <<>> /\ Head(todo) \in Stages /\ at \in Nat
  BY DoctorStage DEF Check, OInv, PlaceInv
<1> DEFINE label == Checks(Head(todo))[at]
           e(is) == Event("check", Head(todo), is, at)
<1>2. Severities(label) \subseteq {"fine", "bad"}
  BY DEF Severities
<1>3. \A is \in {"fine", "bad"} : e(is) \in Events /\ e(is).type # "pkg_footer"
  BY <1>1, EventsTyped DEF Event
<1>4. \/ NextItem /\ Quiet
      \/ \E is \in {"fine", "bad"} :
           ((NextItem \/ NextStage) /\ Pushes(e(is))) \/ PushFails(e(is))
      \/ Fail
  BY <1>2 DEF Check
<1> HIDE DEF e
<1>5. ASSUME NEW is \in {"fine", "bad"},
             ((NextItem \/ NextStage) /\ Pushes(e(is))) \/ PushFails(e(is))
      PROVE  OInv' /\ Kept
  BY <1>1, <1>3, <1>5, NextItemMoves, NextStageMoves, StageShows, StageFails
<1> QED BY <1>1, <1>4, <1>5, NextItemMoves, StageShows, StageFails

LEMMA EndSectionKeeps == ASSUME OInv, EndSection PROVE OInv' /\ Kept
<1>1. exit = "running" /\ todo # <<>>
  BY DoctorStage DEF EndSection
<1>2. (Enters(<<>>) \/ NextStage) /\ Quiet
  BY DEF EndSection
<1> QED BY <1>1, <1>2, RunningStages, EntersMoves, NextStageMoves, StageShows

LEMMA CloneKeeps == ASSUME OInv, Clone PROVE OInv' /\ Kept
<1>1. exit = "running" /\ todo # <<>>
  BY InStage DEF Clone
<1>2. ((Enters(ApplyStages) \/ NextStage) /\ Quiet) \/ Fail
  BY DEF Clone, AfterSetup
<1> QED BY <1>1, <1>2, RunningStages, EntersMoves, NextStageMoves, StageShows, StageFails

LEMMA BootstrapKeeps == ASSUME OInv, Bootstrap PROVE OInv' /\ Kept
<1>1. exit = "running" /\ todo # <<>>
  BY InStage DEF Bootstrap
<1>2. \/ /\ todo' = IF cmd.thenApply THEN ApplyStages ELSE Tail(todo)
         /\ at' = 0 /\ acts' = <<>> /\ cmd' = cmd
         /\ Prints("prompt")
      \/ Fail
  BY DEF Bootstrap
<1>3. ASSUME todo' = Tail(todo), at' = 0, acts' = <<>>, cmd' = cmd
      PROVE  MoveOK
  BY <1>1, <1>3, TailMoves
<1>4. ASSUME todo' = ApplyStages, at' = 0, acts' = <<>>, cmd' = cmd
      PROVE  MoveOK
  <2>1. ApplyStages \in Seq(Stages) /\ \A i \in DOMAIN ApplyStages : ApplyStages[i] # "footer"
    BY RunningStages
  <2> QED BY <1>4, <2>1 DEF MoveOK
<1> QED BY <1>1, <1>2, <1>3, <1>4, StageShows, StageFails

LEMMA SummaryKeeps == ASSUME OInv, Summary PROVE OInv' /\ Kept
<1>1. exit = "running" /\ todo # <<>> /\ cmd.name \in Names
  BY InStage DEF Summary, OInv, PlaceInv
<1> DEFINE e == Event("init_summary", cmd.name, "", 0)
<1>2. e \in Events /\ e.type # "pkg_footer"
  BY <1>1, EventsTyped DEF Event
<1>3. (NextStage /\ Pushes(e)) \/ PushFails(e) \/ Fail
  BY DEF Summary
<1> HIDE DEF e
<1> QED BY <1>1, <1>2, <1>3, NextStageMoves, StageShows, StageFails

LEMMA ParseKeeps == ASSUME OInv, Parse PROVE OInv' /\ Kept
<1>1. exit = "running" /\ todo # <<>>
  BY InStage DEF Parse
<1>2. (NextStage /\ (Quiet \/ Prints("prompt"))) \/ Fail
  BY DEF Parse
<1> QED BY <1>1, <1>2, NextStageMoves, StageShows, StageFails

LEMMA PlanEventKeeps == ASSUME OInv, PlanEvent PROVE OInv' /\ Kept
<1>1. exit = "running" /\ todo # <<>>
  BY InStage DEF PlanEvent
<1> DEFINE e(is) == Event("plan", "", is, 0)
<1>2. \A is \in {"noop", "work"} : e(is) \in Events /\ e(is).type # "pkg_footer"
  BY EventsTyped DEF Event
<1>3. PICK is \in {"noop", "work"} :
        \/ /\ Pushes(e(is))
           /\ CASE cmd.mode = "dry" -> Enters(<<>>)
                [] cmd.mode # "dry" /\ is = "noop" -> Enters(<<"applied_noop">>)
                [] OTHER -> Enters(<<"confirm", "moves", "toml", "applied">>)
        \/ PushFails(e(is))
  BY DEF PlanEvent
<1> HIDE DEF e
<1>4. /\ <<"applied_noop">> \in Seq(Stages \ {"footer"})
      /\ <<"confirm", "moves", "toml", "applied">> \in Seq(Stages \ {"footer"})
  BY DEF Stages
<1>5. CASE PushFails(e(is))
  BY <1>1, <1>2, <1>5, StageFails
<1>6. CASE Pushes(e(is)) /\ ~PushFails(e(is))
  <2>1. \/ Enters(<<>>) \/ Enters(<<"applied_noop">>)
        \/ Enters(<<"confirm", "moves", "toml", "applied">>)
    BY <1>3, <1>6
  <2> QED BY <1>1, <1>2, <1>4, <1>6, <2>1, RunningStages, EntersMoves, StageShows
<1> QED BY <1>3, <1>5, <1>6

LEMMA ConfirmKeeps == ASSUME OInv, Confirm PROVE OInv' /\ Kept
<1>1. exit = "running" /\ todo # <<>>
  BY InStage DEF Confirm
<1>2. \/ /\ todo' = Tail(todo) /\ at' = 0 /\ acts' \in Moves /\ cmd' = cmd
         /\ Quiet \/ Prints("prompt")
      \/ Fail
  BY DEF Confirm
<1>3. ASSUME acts' \in Moves PROVE acts' \in Seq(Acts)
  BY <1>3, MovesTyped
<1> QED BY <1>1, <1>2, <1>3, TailMoves, StageShows, StageFails

LEMMA EndMovesKeeps == ASSUME OInv, EndMoves PROVE OInv' /\ Kept
<1>1. exit = "running" /\ todo # <<>> /\ NextStage /\ Quiet
  BY InStage DEF EndMoves
<1> QED BY <1>1, NextStageMoves, StageShows

LEMMA WriteTomlKeeps == ASSUME OInv, WriteToml PROVE OInv' /\ Kept
<1>1. exit = "running" /\ todo # <<>> /\ ((NextStage /\ Quiet) \/ Fail)
  BY InStage DEF WriteToml
<1> QED BY <1>1, NextStageMoves, StageShows, StageFails

LEMMA AppliedKeeps ==
  ASSUME OInv, NEW stage, NEW is \in {"noop", "done"}, Applied(stage, is)
  PROVE  OInv' /\ Kept
<1>1. exit = "running" /\ todo # <<>>
  BY InStage DEF Applied
<1> DEFINE e == Event("applied", "", is, 0)
<1>2. e \in Events /\ e.type # "pkg_footer"
  BY EventsTyped DEF Event
<1>3. (NextStage /\ Pushes(e)) \/ PushFails(e)
  BY DEF Applied
<1> HIDE DEF e
<1> QED BY <1>1, <1>2, <1>3, NextStageMoves, StageShows, StageFails

LEMMA DirectKeeps == ASSUME OInv, Direct PROVE OInv' /\ Kept
<1>1. exit = "running" /\ todo # <<>>
  BY InStage DEF Direct
<1>2. (NextStage /\ Prints("text")) \/ Fail
  BY DEF Direct
<1> QED BY <1>1, <1>2, NextStageMoves, StageShows, StageFails

LEMMA FinishKeeps == ASSUME OInv, Finish PROVE OInv' /\ Kept
<1>1. UNCHANGED <<cmd, todo, at, acts>>
  BY DEF Finish
<1>2. ShowInv' /\ (Promise!Close \/ Promise!Drop) /\ render'.footer = 0
  BY FinishStep DEF OInv
<1> QED BY <1>1, <1>2 DEF OInv, PlaceInv, Kept, Promise!Next

-----------------------------------------------------------------------------
(* What is done is told                                                    *)

\* A step that carries out nothing pushes no word of it.
Idle ==
  \/ exit' = "failed" /\ done' = done
  \/ /\ done' = done
     /\ \/ journal' = journal
        \/ \E e \in Events : e.type # "action" /\ journal' = Append(journal, e)

LEMMA NoAction ==
  \A t \in Kinds \ {"action"} : \A of, is, item : Event(t, of, is, item).type # "action"
BY DEF Event, Kinds

LEMMA FailIdle ==
  /\ Fail => Idle
  /\ \A e : PushFails(e) /\ NoChange => Idle
BY DEF Fail, PushFails, Exits, NoChange, Idle

LEMMA QuietIdle ==
  ASSUME NoChange, Quiet \/ \E part : Prints(part)
  PROVE  Idle
BY DEF NoChange, Quiet, Prints, Idle

LEMMA PushIdle ==
  ASSUME NoChange, NEW e \in Events, e.type # "action", Pushes(e) \/ PushFails(e)
  PROVE  Idle
BY DEF NoChange, Pushes, PushFails, Exits, Idle

LEMMA StatusWords ==
  ASSUME NEW item \in Nat
  PROVE  \A e \in PkgStatus(item) \cup GitStatus(item) \cup FileStatus(item) :
           e \in Events /\ e.type = "status"
<1>1. \A e \in PkgStatus(item) \cup GitStatus(item) \cup FileStatus(item) : e \in Events
  BY EventsTyped
<1>2. \A e \in PkgStatus(item) \cup GitStatus(item) \cup FileStatus(item) : e.type = "status"
  BY DEF PkgStatus, GitStatus, FileStatus, Event
<1> QED BY <1>1, <1>2

LEMMA PkgHealthIdle ==
  ASSUME OInv, NEW first \in {0, 1}, at >= first, PkgHealth(first)
  PROVE  Idle
<1>1. at + 1 - first \in Nat
  BY DEF OInv, PlaceInv
<1>2. NoChange /\ (Quiet \/ \E e \in PkgStatus(at + 1 - first) : Pushes(e) \/ PushFails(e))
  BY DEF PkgHealth
<1> QED BY <1>1, <1>2, StatusWords, QuietIdle, PushIdle

LEMMA GitRowsIdle == ASSUME OInv, GitRows PROVE Idle
<1>1. at + 1 \in Nat
  BY DEF OInv, PlaceInv
<1>2. NoChange /\ \E e \in GitStatus(at + 1) : Pushes(e) \/ PushFails(e)
  BY DEF GitRows
<1> QED BY <1>1, <1>2, StatusWords, PushIdle

LEMMA FirstIdle ==
  ASSUME OInv, Load \/ Health \/ Own \/ Dirty \/ Decide \/ CheckStatus
  PROVE  Idle
<1>0. at \in Nat /\ at + 1 \in Nat /\ at >= 0
  BY DEF OInv, PlaceInv
<1>1. CASE Load \/ Dirty \/ Decide
  <2>1. \/ NoChange /\ (Quiet \/ \E part : Prints(part))
        \/ GitRows \/ Fail
    BY <1>1 DEF Load, Dirty, Decide
  <2> QED BY <2>1, QuietIdle, GitRowsIdle, FailIdle
<1>2. CASE Health
  BY <1>0, <1>2, PkgHealthIdle, FailIdle DEF Health
<1>3. CASE Own
  <2> DEFINE e == Event("status", "repo", "clean", 0)
  <2>1. e \in Events /\ e.type # "action"
    BY EventsTyped DEF Event
  <2>2. GitRows \/ Fail \/ (NoChange /\ (Quiet \/ Pushes(e) \/ PushFails(e)))
    BY <1>3 DEF Own
  <2> HIDE DEF e
  <2> QED BY <2>1, <2>2, GitRowsIdle, FailIdle, QuietIdle, PushIdle
<1>4. CASE CheckStatus
  <2>1. Fail \/ (NoChange /\ (Quiet \/ \E e \in FileStatus(at + 1) : Pushes(e) \/ PushFails(e)))
    BY <1>4 DEF CheckStatus
  <2> QED BY <1>0, <2>1, StatusWords, FailIdle, QuietIdle, PushIdle
<1> QED BY <1>1, <1>2, <1>3, <1>4

LEMMA ListIdle ==
  ASSUME OInv, Note \/ Rows \/ PkgFooter
  PROVE  Idle
<1>0. at + 1 \in Nat
  BY DEF OInv, PlaceInv
<1> DEFINE words == {Event("pkg_note", "", "", 0), Event("pkg_footer", "", "", 0)} \cup
                    {Event("pkg_row", "", is, at + 1) : is \in {"disabled", "installed", "missing"}}
<1>1. \A e \in words : e \in Events /\ e.type # "action"
  <2>1. \A e \in words : e \in Events
    BY <1>0, EventsTyped
  <2>2. \A e \in words : e.type # "action"
    BY NoAction DEF Kinds
  <2> QED BY <2>1, <2>2
<1>2. \/ Fail
      \/ NoChange /\ (Quiet \/ \E e \in words : Pushes(e) \/ PushFails(e))
  BY DEF Note, Rows, PkgFooter
<1> HIDE DEF words
<1> QED BY <1>1, <1>2, FailIdle, QuietIdle, PushIdle

LEMMA DoctorIdle ==
  ASSUME OInv, EnterSection \/ Check \/ EndSection \/ Packages
  PROVE  Idle
<1>0. InDoctor /\ Head(todo) \in Stages /\ at \in Nat
  BY DoctorStage DEF EnterSection, Check, EndSection, Packages, OInv, PlaceInv
<1>1. CASE EnterSection \/ Check \/ EndSection
  <2> DEFINE words == {Event("section", Head(todo), "", 0)} \cup
                      {Event("check", Head(todo), is, at) : is \in {"fine", "bad"}}
  <2>1. \A e \in words : e \in Events /\ e.type # "action"
    <3>1. \A e \in words : e \in Events
      BY <1>0, EventsTyped
    <3>2. \A e \in words : e.type # "action"
      BY NoAction DEF Kinds
    <3> QED BY <3>1, <3>2
  <2>2. NoChange /\ (Quiet \/ Fail \/ \E e \in words : Pushes(e) \/ PushFails(e))
    <3>1. CASE EnterSection
      BY <3>1 DEF EnterSection
    <3>2. CASE Check
      <4>1. \A label : Severities(label) \subseteq {"fine", "bad"}
        BY DEF Severities
      <4>2. NoChange /\ \/ Quiet \/ Fail
                        \/ \E is \in Severities(Checks(Head(todo))[at]) :
                             LET e == Event("check", Head(todo), is, at) IN Pushes(e) \/ PushFails(e)
        BY <3>2 DEF Check
      <4> QED BY <4>1, <4>2
    <3>3. CASE EndSection
      BY <3>3 DEF EndSection
    <3> QED BY <1>1, <3>1, <3>2, <3>3
  <2> HIDE DEF words
  <2> QED BY <2>1, <2>2, FailIdle, QuietIdle, PushIdle
<1>2. CASE Packages
  <2>1. at >= 1 /\ (PkgHealth(1) \/ Fail)
    BY <1>0, <1>2 DEF Packages
  <2> QED BY <2>1, PkgHealthIdle, FailIdle
<1> QED BY <1>1, <1>2

LEMMA SetupIdle ==
  ASSUME OInv,
         \/ Clone \/ Bootstrap \/ Summary \/ Parse \/ PlanEvent
         \/ Applied("applied_noop", "noop") \/ Applied("applied", "done")
  PROVE  Idle
<1> DEFINE words == {Event("init_summary", cmd.name, "", 0)} \cup
                    {Event("plan", "", is, 0) : is \in {"noop", "work"}} \cup
                    {Event("applied", "", is, 0) : is \in {"noop", "done"}}
<1>1. \A e \in words : e \in Events /\ e.type # "action"
  <2>1. \A e \in words : e \in Events
    BY EventsTyped DEF OInv, PlaceInv
  <2>2. \A e \in words : e.type # "action"
    BY NoAction DEF Kinds
  <2> QED BY <2>1, <2>2
<1>2. \/ Fail
      \/ NoChange /\ (Quiet \/ (\E part : Prints(part)) \/ \E e \in words : Pushes(e) \/ PushFails(e))
  <2>1. CASE Clone \/ Bootstrap \/ Summary \/ Parse
    BY <2>1 DEF Clone, Bootstrap, Summary, Parse
  <2>2. CASE PlanEvent
    BY <2>2 DEF PlanEvent
  <2>3. CASE Applied("applied_noop", "noop") \/ Applied("applied", "done")
    BY <2>3 DEF Applied
  <2> QED BY <2>1, <2>2, <2>3
<1> HIDE DEF words
<1> QED BY <1>1, <1>2, FailIdle, QuietIdle, PushIdle

LEMMA MovesIdle ==
  ASSUME OInv, ApplyEntry \/ EndChanges \/ Confirm \/ EndMoves \/ Direct \/ Finish
  PROVE  Idle
<1>1. CASE ApplyEntry \/ EndChanges \/ Confirm \/ EndMoves \/ Direct
  <2>1. Fail \/ (NoChange /\ (Quiet \/ \E part : Prints(part)))
    BY <1>1 DEF ApplyEntry, EndChanges, Confirm, EndMoves, Direct
  <2> QED BY <2>1, FailIdle, QuietIdle
<1>2. CASE Finish
  BY <1>2 DEF Finish, Idle
<1> QED BY <1>1, <1>2

LEMMA StepRuns == ASSUME Next PROVE exit = "running"
<1>1. CASE Load \/ Health \/ Own \/ Dirty \/ Decide \/ CheckStatus \/ ApplyEntry \/ DoAct \/ EndChanges
  BY <1>1 DEF Load, Health, Own, Dirty, Decide, CheckStatus, ApplyEntry, DoAct, EndChanges, In
<1>2. CASE Note \/ Rows \/ PkgFooter \/ EnterSection \/ Check \/ EndSection \/ Packages
  BY <1>2 DEF Note, Rows, PkgFooter, EnterSection, Check, EndSection, Packages, In, InDoctor
<1>3. CASE Clone \/ Bootstrap \/ Summary \/ Parse \/ PlanEvent \/ Confirm \/ EndMoves \/ WriteToml
  BY <1>3 DEF Clone, Bootstrap, Summary, Parse, PlanEvent, Confirm, EndMoves, WriteToml, In
<1>4. CASE \E stage, is : Applied(stage, is)
  BY <1>4 DEF Applied, In
<1>5. CASE Direct \/ Finish
  BY <1>5 DEF Direct, Finish, In
<1> QED BY <1>1, <1>2, <1>3, <1>4, <1>5 DEF Next

DoneActs == Acts \cup {Act("config_written", 0)}

LEMMA ToTellTyped ==
  ASSUME NEW a \in DoneActs
  PROVE  ToTell(a) \in Seq(DoneActs)
<1>1. <<a>> \in Seq(DoneActs) /\ <<>> \in Seq(DoneActs)
  OBVIOUS
<1> QED BY <1>1 DEF ToTell

LEMMA MadeGrows ==
  ASSUME done \in Seq(DoneActs), NEW a \in DoneActs, done' = Append(done, a)
  PROVE  done' \in Seq(DoneActs) /\ Made' = Made \o ToTell(a)
<1> DEFINE n == Len(done) + 1
           old == [i \in DOMAIN done |-> ToTell(done[i])]
           new == [i \in DOMAIN done' |-> ToTell(done'[i])]
<1>1. /\ Len(done) \in Nat /\ DOMAIN done = 1..Len(done) /\ DOMAIN done' = 1..n
      /\ \A i \in 1..Len(done) : done'[i] = done[i] /\ done[i] \in DoneActs
      /\ done'[n] = a /\ n \in 1..n /\ done' \in Seq(DoneActs)
  OBVIOUS
<1>2. /\ \A i \in 1..Len(done) : new[i] = ToTell(done[i])
      /\ new[n] = ToTell(a) /\ new = [i \in 1..n |-> new[i]]
  BY <1>1
<1>3. \A i \in 1..Len(done) : old[i] = ToTell(done[i])
  BY <1>1
<1>4. old \in Seq(Seq(DoneActs)) /\ Len(old) = Len(done) /\ ToTell(a) \in Seq(DoneActs)
  <2>1. \A i \in 1..Len(done) : ToTell(done[i]) \in Seq(DoneActs)
    BY <1>1, ToTellTyped
  <2>2. old = [i \in 1..Len(done) |-> ToTell(done[i])]
    BY <1>1
  <2> HIDE DEF old
  <2> QED BY <1>1, <2>1, <2>2, ToTellTyped
<1>5. Made' = FlattenSeq(new) /\ Made = FlattenSeq(old)
  BY DEF Made
<1> HIDE DEF new, old
<1>6. new = Append(old, ToTell(a))
  <2>1. /\ Append(old, ToTell(a)) = [i \in 1..n |-> Append(old, ToTell(a))[i]]
        /\ \A i \in 1..Len(done) : Append(old, ToTell(a))[i] = old[i]
        /\ Append(old, ToTell(a))[n] = ToTell(a)
    <3>1. /\ Append(old, ToTell(a)) = [i \in 1..(Len(old) + 1) |-> Append(old, ToTell(a))[i]]
          /\ \A i \in 1..Len(old) : Append(old, ToTell(a))[i] = old[i]
          /\ Append(old, ToTell(a))[Len(old) + 1] = ToTell(a)
      BY <1>4, AppendIs
    <3> QED BY <1>4, <3>1
  <2>2. ASSUME NEW i \in 1..n PROVE new[i] = Append(old, ToTell(a))[i]
    <3>1. i \in 1..Len(done) \/ i = n
      BY <1>1
    <3> QED BY <1>2, <1>3, <2>1, <3>1
  <2> QED BY <1>2, <2>1, <2>2, Zenon
<1>7. FlattenSeq(Append(old, ToTell(a))) = FlattenSeq(old) \o ToTell(a)
  BY <1>4, FlattenAppend
<1> QED BY <1>1, <1>5, <1>6, <1>7

\* A system call is told by its event, or is one of those that are not told.
LEMMA DoActDone == ASSUME OInv, exit = "running", DoneInv, DoAct PROVE DoneInv'
<1> DEFINE a == Head(acts)
           e == Event("action", a.act, "done", a.item)
<1>1. a \in Acts /\ a \in DoneActs
  BY DEF DoAct, OInv, PlaceInv, DoneActs
<1>2. a.act \in ActNames /\ a.item \in Nat /\ a = Act(a.act, a.item)
  BY <1>1 DEF Acts, Act
<1>3. e \in Events /\ ActsOf(e) = <<a>>
  <2>1. e \in Events
    BY <1>2, EventsTyped
  <2>2. e.type = "action" /\ e.of = a.act /\ e.item = a.item
    BY DEF Event
  <2> QED BY <1>2, <2>1, <2>2 DEF ActsOf
<1>4. done \in Seq(DoneActs) /\ Pushed = Made
  BY DEF DoneInv, DoneActs
<1>5. \/ Fail
      \/ /\ done' = Append(done, a)
         /\ \/ a.act \notin Silent /\ (Pushes(e) \/ PushFails(e))
            \/ a.act \in Silent /\ Quiet
  BY DEF DoAct
<1> HIDE DEF a, e
<1>6. CASE Fail
  BY <1>4, <1>6 DEF Fail, Exits, DoneInv, DoneActs
<1>7. CASE done' = Append(done, a)
  <2>1. done' \in Seq(DoneActs) /\ Made' = Made \o ToTell(a)
    BY <1>1, <1>4, <1>7, MadeGrows
  <2>2. CASE Fail \/ PushFails(e)
    BY <2>1, <2>2 DEF Fail, PushFails, Exits, DoneInv, DoneActs
  <2>3. CASE a.act \notin Silent /\ Pushes(e)
    <3>1. ToTell(a) = <<a>>
      BY <1>2, <2>3 DEF ToTell, IsVisible, Silent, ActNames
    <3>2. Pushed' = Pushed \o <<a>>
      BY <1>3, <2>3, JournalGrows DEF Pushes, OInv
    <3> QED BY <1>4, <2>1, <3>1, <3>2 DEF DoneInv, DoneActs
  <2>4. CASE a.act \in Silent /\ Quiet
    <3>1. ToTell(a) = <<>>
      BY <2>4 DEF ToTell, IsVisible, Silent
    <3>2. Pushed' = Pushed
      BY <2>4 DEF Quiet, Pushed, ActsOfEvents
    <3>3. Pushed \in Seq(Words) /\ Pushed \o <<>> = Pushed
      BY JournalWords, EmptyConcat DEF OInv
    <3> QED BY <1>4, <2>1, <3>1, <3>2, <3>3 DEF DoneInv, DoneActs
  <2> QED BY <1>5, <2>2, <2>3, <2>4
<1> QED BY <1>5, <1>6, <1>7

LEMMA WriteTomlDone == ASSUME OInv, exit = "running", DoneInv, WriteToml PROVE DoneInv'
<1> DEFINE a == Act("config_written", 0)
<1>1. a \in DoneActs /\ ToTell(a) = <<>>
  BY DEF DoneActs, ToTell, IsVisible, Act
<1>2. done \in Seq(DoneActs) /\ Pushed = Made
  BY DEF DoneInv, DoneActs
<1>3. (done' = Append(done, a) /\ Quiet) \/ Fail
  BY DEF WriteToml
<1> HIDE DEF a
<1>4. CASE Fail
  BY <1>2, <1>4 DEF Fail, Exits, DoneInv, DoneActs
<1>5. CASE done' = Append(done, a) /\ Quiet
  <2>1. done' \in Seq(DoneActs) /\ Made' = Made \o <<>>
    BY <1>1, <1>2, <1>5, MadeGrows
  <2>2. Pushed' = Pushed
    BY <1>5 DEF Quiet, Pushed, ActsOfEvents
  <2>3. Pushed \in Seq(Words) /\ Pushed \o <<>> = Pushed
    BY JournalWords, EmptyConcat DEF OInv
  <2> QED BY <1>2, <2>1, <2>2, <2>3 DEF DoneInv, DoneActs
<1> QED BY <1>3, <1>4, <1>5

LEMMA IdleDone == ASSUME OInv, exit = "running", DoneInv, Idle PROVE DoneInv'
<1>1. done' = done /\ done \in Seq(DoneActs) /\ Pushed = Made
  BY DEF Idle, DoneInv, DoneActs
<1>2. Made' = Made
  BY <1>1 DEF Made
<1>3. CASE exit' = "failed"
  BY <1>1, <1>3 DEF DoneInv, DoneActs
<1>4. CASE journal' = journal
  BY <1>1, <1>2, <1>4 DEF DoneInv, DoneActs, Pushed, ActsOfEvents
<1>5. ASSUME NEW e \in Events, e.type # "action", journal' = Append(journal, e)
      PROVE  DoneInv'
  <2>1. ActsOf(e) = <<>>
    BY <1>5 DEF ActsOf
  <2>2. Pushed' = Pushed \o <<>>
    BY <1>5, <2>1, JournalGrows DEF OInv
  <2>3. Pushed \o <<>> = Pushed
    BY JournalWords, EmptyConcat DEF OInv
  <2> QED BY <1>1, <1>2, <2>2, <2>3 DEF DoneInv, DoneActs
<1> QED BY <1>3, <1>4, <1>5 DEF Idle

LEMMA DoneKept ==
  ASSUME OInv, DoneInv, [Next]_vars
  PROVE  DoneInv'
<1>1. CASE UNCHANGED vars
  BY <1>1 DEF vars, DoneInv, Pushed, ActsOfEvents, Made
<1>2. CASE Next
  <2>1. exit = "running"
    BY <1>2, StepRuns
  <2>2. CASE DoAct \/ WriteToml
    BY <2>1, <2>2, DoActDone, WriteTomlDone
  <2>3. CASE Idle
    BY <2>1, <2>3, IdleDone
  <2>4. DoAct \/ WriteToml \/ Idle
    BY <1>2, FirstIdle, ListIdle, DoctorIdle, SetupIdle, MovesIdle DEF Next
  <2> QED BY <2>2, <2>3, <2>4
<1> QED BY <1>1, <1>2

-----------------------------------------------------------------------------
(* Pieces under titles                                                     *)

LEMMA SectionsAre ==
  /\ DOMAIN Sections = 1..7
  /\ \A i \in 1..7 : Sections[i] \in SectionNames /\ Sections[i] # "none"
  /\ \A i, j \in 1..7 : Sections[i] = Sections[j] => i = j
  /\ Sections[2] = "Repo" /\ Sections[4] = "PkgManager" /\ Sections[7] = "Packages"
BY DEF Sections, SectionNames

Earlier(s, t) == \E a, b \in DOMAIN Sections : a < b /\ Sections[a] = s /\ Sections[b] = t

LEMMA NotEarlier == \A s, t : Earlier(s, t) => s # t /\ s # "none" /\ t # "none"
BY SectionsAre DEF Earlier

LEMMA EarlierChains ==
  ASSUME NEW s, NEW t, NEW u, Earlier(s, t), Earlier(t, u)
  PROVE  Earlier(s, u)
<1>1. PICK a, b \in 1..7 : a < b /\ Sections[a] = s /\ Sections[b] = t
  BY SectionsAre DEF Earlier
<1>2. PICK c, d \in 1..7 : c < d /\ Sections[c] = t /\ Sections[d] = u
  BY SectionsAre DEF Earlier
<1>3. b = c
  BY <1>1, <1>2, SectionsAre
<1>4. a < d
  BY <1>1, <1>2, <1>3
<1> QED BY <1>1, <1>2, <1>4, SectionsAre DEF Earlier

\* Sectioned, in two parts: the titles among themselves and the rest under them.
IsTitle(s, i) == i \in DOMAIN s /\ s[i].part = "title"
TitlesRise(s, se) ==
  \A i, j : IsTitle(s, i) /\ IsTitle(s, j) /\ i < j => Earlier(se[s[i].by], se[s[j].by])
Under(s, se, i) ==
  \E t : /\ IsTitle(s, t) /\ t < i /\ se[s[t].by] = se[s[i].by]
         /\ \A u : IsTitle(s, u) /\ u < i => u <= t
RestUnder(s, se) == \A i \in DOMAIN s : s[i].part # "title" => Under(s, se, i)

LEMMA SectionedIs ==
  ASSUME NEW s, NEW se
  PROVE  Sectioned(s, se) <=> TitlesRise(s, se) /\ RestUnder(s, se)
<1> DEFINE titles == {i \in DOMAIN s : s[i].part = "title"}
<1>1. \A i : i \in titles <=> IsTitle(s, i)
  BY DEF IsTitle
<1>2. TitlesRise(s, se) <=>
        \A i, j \in titles : i < j =>
          \E a, b \in DOMAIN Sections :
            a < b /\ Sections[a] = se[s[i].by] /\ Sections[b] = se[s[j].by]
  BY <1>1 DEF TitlesRise, Earlier
<1>3. RestUnder(s, se) <=>
        \A i \in DOMAIN s \ titles :
          \E t \in titles :
            t < i /\ se[s[t].by] = se[s[i].by] /\ \A u \in titles : u < i => u <= t
  BY <1>1 DEF RestUnder, Under, IsTitle
<1> QED BY <1>2, <1>3 DEF Sectioned

\* What is true of the pieces is true of the first of them.
LEMMA SectionedFirst ==
  ASSUME NEW s \in Seq(PieceSet), NEW p \in Seq(PieceSet), NEW se,
         Len(p) <= Len(s), \A i \in 1..Len(p) : p[i] = s[i], Sectioned(s, se)
  PROVE  Sectioned(p, se)
<1>1. /\ Len(s) \in Nat /\ Len(p) \in Nat /\ DOMAIN s = 1..Len(s) /\ DOMAIN p = 1..Len(p)
      /\ \A i \in DOMAIN p : i \in DOMAIN s /\ p[i] = s[i]
  OBVIOUS
<1>2. \A i : IsTitle(p, i) <=> IsTitle(s, i) /\ i \in DOMAIN p
  BY <1>1 DEF IsTitle
<1>3. TitlesRise(s, se) /\ RestUnder(s, se)
  BY SectionedIs
<1>4. TitlesRise(p, se)
  BY <1>1, <1>2, <1>3 DEF TitlesRise, IsTitle
<1>5. ASSUME NEW i \in DOMAIN p, p[i].part # "title" PROVE Under(p, se, i)
  <2>1. PICK t : /\ IsTitle(s, t) /\ t < i /\ se[s[t].by] = se[s[i].by]
                 /\ \A u : IsTitle(s, u) /\ u < i => u <= t
    BY <1>1, <1>3, <1>5 DEF RestUnder, Under
  <2>2. t \in DOMAIN p
    BY <1>1, <2>1 DEF IsTitle
  <2> QED BY <1>1, <1>2, <2>1, <2>2 DEF Under
<1> QED BY <1>4, <1>5, SectionedIs DEF RestUnder

\* Only the sections of the events on the screen matter.
LEMMA UnderTitleAgree ==
  ASSUME NEW s, NEW se, NEW other, NEW section, \A i \in DOMAIN s : se[s[i].by] = other[s[i].by],
         UnderTitle(s, se, section)
  PROVE  UnderTitle(s, other, section)
<1>1. Sectioned(s, other)
  <2>1. TitlesRise(s, se) /\ RestUnder(s, se)
    BY SectionedIs DEF UnderTitle
  <2>2. TitlesRise(s, other)
    BY <2>1 DEF TitlesRise, IsTitle
  <2>3. RestUnder(s, other)
    BY <2>1 DEF RestUnder, Under, IsTitle
  <2> QED BY <2>2, <2>3, SectionedIs
<1>2. IF section = "none" THEN s = <<>>
        ELSE \E t \in DOMAIN s : /\ s[t].part = "title" /\ se[s[t].by] = section
                                 /\ \A u \in DOMAIN s : s[u].part = "title" => u <= t
  BY DEF UnderTitle
<1> QED BY <1>1, <1>2 DEF UnderTitle

\* Pieces of the section whose title is the last one go under it.
LEMMA AddUnder ==
  ASSUME NEW s \in Seq(PieceSet), NEW t \in Seq(PieceSet), NEW se, NEW section,
         UnderTitle(s, se, section),
         \A p \in RangeOf(t) : section # "none" /\ p.part # "title" /\ se[p.by] = section
  PROVE  UnderTitle(s \o t, se, section)
<1> DEFINE v == s \o t
<1>1. /\ Len(s) \in Nat /\ Len(t) \in Nat /\ DOMAIN v = 1..(Len(s) + Len(t))
      /\ DOMAIN s = 1..Len(s) /\ v \in Seq(PieceSet)
      /\ \A i \in 1..Len(s) : v[i] = s[i]
      /\ \A i \in 1..(Len(s) + Len(t)) : i > Len(s) => v[i] \in RangeOf(t)
  <2>1. \A i \in 1..Len(t) : t[i] \in RangeOf(t)
    BY DEF RangeOf
  <2>2. \A i \in 1..(Len(s) + Len(t)) :
          i > Len(s) => i - Len(s) \in 1..Len(t) /\ v[i] = t[i - Len(s)]
    OBVIOUS
  <2>3. /\ Len(s) \in Nat /\ Len(t) \in Nat /\ DOMAIN v = 1..(Len(s) + Len(t))
        /\ DOMAIN s = 1..Len(s) /\ v \in Seq(PieceSet)
        /\ \A i \in 1..Len(s) : v[i] = s[i]
    OBVIOUS
  <2> HIDE DEF v
  <2> QED BY <2>1, <2>2, <2>3
<1> HIDE DEF v
<1>2. CASE section = "none"
  <2>1. s = <<>>
    BY <1>2 DEF UnderTitle
  <2>2. Len(t) = 0
    <3>1. ASSUME Len(t) # 0 PROVE FALSE
      <4>1. Len(s) + 1 \in 1..(Len(s) + Len(t))
        BY <1>1, <3>1
      <4> QED BY <1>1, <1>2, <4>1
    <3> QED BY <3>1
  <2>3. v = s
    BY <2>1, <2>2 DEF v
  <2> QED BY <2>3 DEF v
<1>3. CASE section # "none"
  <2>1. PICK last \in DOMAIN s : /\ s[last].part = "title" /\ se[s[last].by] = section
                                 /\ \A u \in DOMAIN s : s[u].part = "title" => u <= last
    BY <1>3 DEF UnderTitle
  <2>2. \A i : IsTitle(v, i) <=> IsTitle(s, i)
    BY <1>1 DEF IsTitle
  <2>3. TitlesRise(s, se) /\ RestUnder(s, se)
    BY SectionedIs DEF UnderTitle
  <2>4. TitlesRise(v, se)
    BY <1>1, <2>2, <2>3 DEF TitlesRise, IsTitle
  <2>5. ASSUME NEW i \in DOMAIN v, v[i].part # "title" PROVE Under(v, se, i)
    <3>1. CASE i \in DOMAIN s
      <4>1. PICK a : /\ IsTitle(s, a) /\ a < i /\ se[s[a].by] = se[s[i].by]
                     /\ \A u : IsTitle(s, u) /\ u < i => u <= a
        BY <1>1, <2>3, <2>5, <3>1 DEF RestUnder, Under
      <4>2. v[a] = s[a] /\ v[i] = s[i]
        BY <1>1, <3>1, <4>1 DEF IsTitle
      <4> QED BY <2>2, <4>1, <4>2 DEF Under
    <3>2. CASE i \notin DOMAIN s
      <4>1. i > Len(s) /\ last < i
        BY <1>1, <3>2
      <4>2. se[v[i].by] = section /\ v[last] = s[last]
        BY <1>1, <4>1
      <4>3. IsTitle(v, last) /\ \A u : IsTitle(v, u) => u <= last
        BY <2>1, <2>2 DEF IsTitle
      <4> QED BY <2>1, <4>1, <4>2, <4>3 DEF Under
    <3> QED BY <3>1, <3>2
  <2>6. Sectioned(v, se)
    BY <2>4, <2>5, SectionedIs DEF RestUnder
  <2>7. last \in DOMAIN v /\ v[last] = s[last]
    BY <1>1
  <2>8. \A u \in DOMAIN v : v[u].part = "title" => u <= last
    BY <2>1, <2>2 DEF IsTitle
  <2> QED BY <1>3, <2>1, <2>6, <2>7, <2>8 DEF UnderTitle, v
<1> QED BY <1>2, <1>3

\* The title of a later section begins it.
LEMMA AddTitle ==
  ASSUME NEW s \in Seq(PieceSet), NEW x \in PieceSet, NEW se, NEW section, NEW new,
         UnderTitle(s, se, section), x.part = "title", se[x.by] = new, new # "none",
         section # "none" => Earlier(section, new)
  PROVE  UnderTitle(s \o <<x>>, se, new)
<1> DEFINE v == s \o <<x>>
           n == Len(s) + 1
<1>1. /\ Len(s) \in Nat /\ DOMAIN v = 1..n /\ DOMAIN s = 1..Len(s) /\ v \in Seq(PieceSet)
      /\ \A i \in 1..Len(s) : v[i] = s[i]
      /\ v[n] = x /\ n \in 1..n
  OBVIOUS
<1> HIDE DEF v
<1>2. \A i : IsTitle(v, i) <=> IsTitle(s, i) \/ i = n
  BY <1>1 DEF IsTitle
<1>3. TitlesRise(s, se) /\ RestUnder(s, se)
  BY SectionedIs DEF UnderTitle
<1>4. ASSUME NEW i, IsTitle(s, i) PROVE Earlier(se[s[i].by], new)
  <2>1. section # "none"
    BY <1>1, <1>4, EmptyRange DEF IsTitle, UnderTitle
  <2>2. PICK last \in DOMAIN s : /\ s[last].part = "title" /\ se[s[last].by] = section
                                 /\ \A u \in DOMAIN s : s[u].part = "title" => u <= last
    BY <2>1 DEF UnderTitle
  <2>3. i \in 1..Len(s) /\ last \in 1..Len(s) /\ i <= last
    BY <1>1, <1>4, <2>2 DEF IsTitle
  <2>4. CASE i = last
    BY <2>1, <2>2, <2>4
  <2>5. CASE i < last
    <3>1. Earlier(se[s[i].by], section)
      BY <1>3, <1>4, <2>2, <2>5 DEF TitlesRise, IsTitle
    <3> QED BY <2>1, <3>1, EarlierChains
  <2> QED BY <1>1, <2>3, <2>4, <2>5
<1>5. TitlesRise(v, se)
  <2> SUFFICES ASSUME NEW i, NEW j, IsTitle(v, i), IsTitle(v, j), i < j
               PROVE  Earlier(se[v[i].by], se[v[j].by])
    BY DEF TitlesRise
  <2>1. i \in 1..n /\ j \in 1..n /\ i \in 1..Len(s) /\ IsTitle(s, i) /\ v[i] = s[i]
    BY <1>1, <1>2 DEF IsTitle
  <2>2. CASE j = n
    BY <1>1, <1>4, <2>1, <2>2
  <2>3. CASE j # n
    <3>1. IsTitle(s, j) /\ v[j] = s[j]
      BY <1>1, <1>2, <2>1, <2>3
    <3> QED BY <1>3, <2>1, <3>1 DEF TitlesRise
  <2> QED BY <2>2, <2>3
<1>6. ASSUME NEW i \in DOMAIN v, v[i].part # "title" PROVE Under(v, se, i)
  <2>1. i \in 1..Len(s) /\ v[i] = s[i]
    BY <1>1, <1>6
  <2>2. PICK a : /\ IsTitle(s, a) /\ a < i /\ se[s[a].by] = se[s[i].by]
                 /\ \A u : IsTitle(s, u) /\ u < i => u <= a
    BY <1>1, <1>3, <1>6, <2>1 DEF RestUnder, Under
  <2>3. IsTitle(v, a) /\ v[a] = s[a]
    BY <1>1, <1>2, <2>2 DEF IsTitle
  <2>4. \A u : IsTitle(v, u) /\ u < i => u <= a
    BY <1>1, <1>2, <2>1, <2>2
  <2> QED BY <2>1, <2>2, <2>3, <2>4 DEF Under
<1>7. Sectioned(v, se)
  BY <1>5, <1>6, SectionedIs DEF RestUnder
<1>8. \A u \in DOMAIN v : v[u].part = "title" => u <= n
  BY <1>1
<1> QED BY <1>1, <1>7, <1>8 DEF UnderTitle, v

LEMMA NothingUnder ==
  ASSUME NEW se
  PROVE  UnderTitle(<<>>, se, "none")
BY EmptyRange DEF UnderTitle, Sectioned

-----------------------------------------------------------------------------
(* What the renderer of zenops doctor writes                               *)

\* The renderer and the screen as TitleInv has them, for any of them.
Titled(s, se, r) ==
  /\ s \in Seq(PieceSet) /\ RenderOK(r) /\ RisingIn(r)
  /\ UnderTitle(s, se, r.section)
  /\ \A n \in HeldNumbers(r) : se[n] = r.section
  /\ r.section = "none" => HeldNumbers(r) = {}

LEMMA FlushUnder ==
  ASSUME NEW s, NEW se, NEW r, Titled(s, se, r)
  PROVE  /\ Flushed(r) \in Seq(PieceSet)
         /\ \A p \in RangeOf(Flushed(r)) : p.by \in HeldNumbers(r)
         /\ s \o Flushed(r) \in Seq(PieceSet)
         /\ UnderTitle(s \o Flushed(r), se, r.section)
<1>1. Flushed(r) \in Seq(PieceSet) /\ RangeOf(Flushed(r)) = HeldBy(r)
  BY FlushedHeld DEF Titled
<1>2. \A p \in RangeOf(Flushed(r)) : p.by \in HeldNumbers(r)
  BY FlushOrders DEF Titled
<1>3. \A p \in HeldBy(r) : p.part # "title"
  BY DEF HeldBy
<1>4. s \in Seq(PieceSet) /\ s \o Flushed(r) \in Seq(PieceSet)
  BY <1>1, PieceConcat DEF Titled
<1> QED BY <1>1, <1>2, <1>3, <1>4, AddUnder DEF Titled

LEMMA HeldNothing ==
  ASSUME NEW r, RenderOK(r), r.pending = "none"
  PROVE  HeldNumbers(r) = {} /\ Flushed(r) = <<>>
BY EmptyRange DEF RenderOK, HeldNumbers, Flushed

\* The title of a section, and a check under it.
LEMMA SectionPush ==
  ASSUME NEW r, RenderOK(r), ~cmd.json, NEW n \in Nat \ {0}, NEW e \in Events,
         e.type \in {"section", "check"}
  PROVE  /\ PushWrites(cmd, r, n, e)
              = Flushed(r) \o (Title(r, n, e) \o (IF e.type = "check" THEN Text(n) ELSE <<>>))
         /\ PushKeeps(cmd, r, n, e).section = e.of
         /\ HeldNumbers(PushKeeps(cmd, r, n, e)) = {}
<1>1. Block(e) = "none"
  BY DEF Block
<1>2. EnterWrites(r, e) = Flushed(r)
  BY <1>1, HeldNothing DEF EnterWrites
<1>3. Inline(r, n, e) = Title(r, n, e) \o (IF e.type = "check" THEN Text(n) ELSE <<>>)
  <2>1. [by |-> n, part |-> "title"] \in PieceSet
    BY DEF PieceSet, Parts
  <2>2. Title(r, n, e) \in {<<>>, <<[by |-> n, part |-> "title"]>>}
    BY DEF Title
  <2>3. Title(r, n, e) \in Seq(PieceSet)
    BY <2>1, <2>2, OnePiece, EmptyRange
  <2>4. Title(r, n, e) \o <<>> = Title(r, n, e)
    BY <2>3, EmptyConcat
  <2> QED BY <2>4 DEF Inline
<1>4. HeldNumbers(Entered(r, e)) = {} /\ RenderOK(Entered(r, e))
  BY <1>1, HeldNothing, EmptiedOrders, EmptiedHolds DEF Entered
<1>5. Buffered(cmd, Entered(r, e), n, e) = [Entered(r, e) EXCEPT !.section = e.of]
  BY <1>1 DEF Buffered
<1> DEFINE q == Entered(r, e)
           k == [q EXCEPT !.section = e.of]
<1>6. /\ k.section = e.of /\ k.lines = q.lines /\ k.diffs = q.diffs /\ k.rows = q.rows
      /\ k.footer = q.footer
  <2>1. RenderOK(q)
    BY <1>4
  <2> HIDE DEF q
  <2> QED BY <2>1 DEF RenderOK
<1>7. HeldNumbers(k) = {}
  BY <1>4, <1>6 DEF HeldNumbers
<1> QED BY <1>2, <1>3, <1>5, <1>6, <1>7 DEF PushWrites, PushKeeps

\* A row of the packages is held.
LEMMA RowPush ==
  ASSUME NEW r, RenderOK(r), RisingIn(r), r.footer = 0, ~cmd.json, NEW n \in Nat \ {0},
         NEW e \in Events, e.type = "status", \A m \in HeldNumbers(r) : m < n
  PROVE  /\ PushWrites(cmd, r, n, e) \in {<<>>, Flushed(r)}
         /\ PushKeeps(cmd, r, n, e).section = r.section
         /\ HeldNumbers(PushKeeps(cmd, r, n, e)) \subseteq HeldNumbers(r) \cup {n}
<1>1. Block(e) = "status"
  BY DEF Block
<1>2. Inline(r, n, e) = <<>> /\ EnterWrites(r, e) \in {<<>>, Flushed(r)}
  BY <1>1 DEF Inline, EnterWrites
<1>3. EnterWrites(r, e) \in Seq(PieceSet)
  BY <1>2, FlushedHeld, EmptyRange
<1>4. PushWrites(cmd, r, n, e) = EnterWrites(r, e)
  BY <1>2, <1>3, EmptyConcat DEF PushWrites
<1> DEFINE q == Entered(r, e)
<1>5. /\ RenderOK(q) /\ RisingIn(q) /\ q.footer = 0 /\ q.section = r.section
      /\ HeldNumbers(q) \subseteq HeldNumbers(r)
  <2>1. CASE r.pending = "status"
    BY <1>1, <2>1 DEF Entered
  <2>2. CASE r.pending # "status"
    <3>1. q = [Emptied(r) EXCEPT !.pending = "status"]
      BY <1>1, <2>2 DEF Entered
    <3>2. q.section = r.section
      BY <3>1 DEF Emptied, FreshRenderer
    <3>3. RenderOK(q)
      BY <3>1, EmptiedHolds
    <3>4. RisingIn(q) /\ HeldNumbers(q) = {} /\ q.footer = 0
      <4> DEFINE empty == [Emptied(r) EXCEPT !.pending = "status"]
      <4>1. RisingIn(empty) /\ HeldNumbers(empty) = {} /\ empty.footer = 0
        BY EmptiedOrders, Zenon
      <4>2. q = empty
        BY <3>1
      <4> HIDE DEF q, empty
      <4> QED BY <4>1, <4>2
    <3> QED BY <3>2, <3>3, <3>4
  <2> QED BY <2>1, <2>2
<1>6. PushKeeps(cmd, r, n, e) = Buffered(cmd, q, n, e)
  BY DEF PushKeeps
<1>7. Buffered(cmd, q, n, e).section = q.section
  <2> HIDE DEF q
  <2> QED BY <1>1, <1>5 DEF Buffered, RenderOK
<1>8. HeldNumbers(Buffered(cmd, q, n, e)) \subseteq HeldNumbers(q) \cup {n}
  <2>1. \A m \in HeldNumbers(q) : m < n
    BY <1>5
  <2> HIDE DEF q
  <2> QED BY <1>5, <2>1, BufferedOrders
<1> QED BY <1>2, <1>4, <1>5, <1>6, <1>7, <1>8

\* A push in zenops doctor: the title of the section that begins, a check or a
\* row of the section that runs.
LEMMA DoctorPush ==
  ASSUME NEW s, NEW se, NEW r, Titled(s, se, r), r.footer = 0, ~cmd.json,
         NEW n \in Nat \ {0}, NEW e \in Events,
         \A m \in HeldNumbers(r) : m \in Nat \ {0} /\ m < n,
         se[n] = SectionOf(e), SectionOf(e) # "none",
         \/ e.type = "section" /\ (r.section # "none" => Earlier(r.section, e.of))
         \/ e.type = "check" /\ r.section = e.of
         \/ e.type = "status" /\ r.section = "Packages"
  PROVE  LET out == PushWrites(cmd, r, n, e)
             k == PushKeeps(cmd, r, n, e) IN
           /\ out \in Seq(PieceSet) /\ \A p \in RangeOf(out) : p.by > 0
           /\ UnderTitle(s \o out, se, k.section)
           /\ k.section = SectionOf(e)
           /\ \A m \in HeldNumbers(k) : se[m] = k.section
<1> DEFINE out == PushWrites(cmd, r, n, e)
           k == PushKeeps(cmd, r, n, e)
           title == [by |-> n, part |-> "title"]
           text == [by |-> n, part |-> "text"]
<1>1. s \in Seq(PieceSet) /\ RenderOK(r) /\ RisingIn(r)
  BY DEF Titled
<1>2. /\ Flushed(r) \in Seq(PieceSet)
      /\ \A p \in RangeOf(Flushed(r)) : p.by > 0
      /\ s \o Flushed(r) \in Seq(PieceSet)
      /\ UnderTitle(s \o Flushed(r), se, r.section)
  BY FlushUnder
<1>3. /\ <<title>> \in Seq(PieceSet) /\ RangeOf(<<title>>) = {title} /\ title \in PieceSet
      /\ <<text>> \in Seq(PieceSet) /\ RangeOf(<<text>>) = {text}
      /\ title.by = n /\ text.by = n /\ title.part = "title" /\ text.part = "text"
  <2>1. title \in PieceSet /\ text \in PieceSet
    BY DEF PieceSet, Parts
  <2> QED BY <2>1, OnePiece
<1>4. \A a, b, c \in Seq(PieceSet) : (a \o b) \o c = a \o (b \o c)
  BY ConcatAssociates
<1>5. CASE e.type = "section"
  <2>1. /\ out = Flushed(r) \o (Title(r, n, e) \o <<>>)
        /\ k.section = e.of /\ HeldNumbers(k) = {} /\ SectionOf(e) = e.of
    BY <1>1, <1>5, SectionPush DEF SectionOf
  <2>2. r.section # e.of
    BY <1>5, <2>1, NotEarlier
  <2>3. Title(r, n, e) = <<title>> /\ <<title>> \o <<>> = <<title>>
    BY <1>3, <2>2, EmptyConcat DEF Title
  <2>4. out = Flushed(r) \o <<title>> /\ s \o out = (s \o Flushed(r)) \o <<title>>
    BY <1>1, <1>2, <1>3, <1>4, <2>1, <2>3
  <2> HIDE DEF out, k, title, text
  <2>5. out \in Seq(PieceSet) /\ RangeOf(out) = RangeOf(Flushed(r)) \cup {title}
    BY <1>2, <1>3, <2>4, PieceConcat, ZenonT(40)
  <2>6. UnderTitle((s \o Flushed(r)) \o <<title>>, se, e.of)
    BY <1>2, <1>3, <1>5, <2>1, AddTitle
  <2>7. \A p \in RangeOf(out) : p.by > 0
    BY <1>2, <1>3, <2>5
  <2> QED BY <2>1, <2>4, <2>5, <2>6, <2>7 DEF out, k
<1>6. CASE e.type = "check"
  <2>1. /\ out = Flushed(r) \o (Title(r, n, e) \o Text(n))
        /\ k.section = e.of /\ HeldNumbers(k) = {} /\ SectionOf(e) = e.of
    BY <1>1, <1>6, SectionPush, SMTT(30) DEF SectionOf
  <2>2. r.section = e.of
    BY <1>6
  <2>3. Title(r, n, e) = <<>> /\ Text(n) = <<text>> /\ <<>> \o <<text>> = <<text>>
    BY <1>3, <2>2, EmptyConcat DEF Title, Text
  <2>4. out = Flushed(r) \o <<text>> /\ s \o out = (s \o Flushed(r)) \o <<text>>
    BY <1>1, <1>2, <1>3, <1>4, <2>1, <2>3
  <2> HIDE DEF out, k, title, text
  <2>5. out \in Seq(PieceSet) /\ RangeOf(out) = RangeOf(Flushed(r)) \cup {text}
    BY <1>2, <1>3, <2>4, PieceConcat
  <2>6. \A p \in RangeOf(<<text>>) : e.of # "none" /\ p.part # "title" /\ se[p.by] = e.of
    BY <1>3, <2>1
  <2>7. UnderTitle((s \o Flushed(r)) \o <<text>>, se, e.of)
    BY <1>2, <1>3, <2>2, <2>6, AddUnder
  <2>8. \A p \in RangeOf(out) : p.by > 0
    BY <1>2, <1>3, <2>5
  <2> QED BY <2>1, <2>4, <2>5, <2>7, <2>8 DEF out, k
<1>7. CASE e.type = "status"
  <2>1. /\ out \in {<<>>, Flushed(r)} /\ k.section = r.section
        /\ HeldNumbers(k) \subseteq HeldNumbers(r) \cup {n}
    BY <1>1, <1>7, RowPush
  <2>2. SectionOf(e) = "Packages" /\ r.section = "Packages"
    BY <1>7 DEF SectionOf
  <2>3. s \o <<>> = s
    BY <1>1, EmptyConcat
  <2> HIDE DEF out, k, title, text
  <2>4. out \in Seq(PieceSet) /\ \A p \in RangeOf(out) : p.by > 0
    BY <1>2, <2>1, EmptyRange
  <2>5. UnderTitle(s \o out, se, r.section)
    BY <1>2, <2>1, <2>3 DEF Titled
  <2>6. \A m \in HeldNumbers(k) : se[m] = r.section
    BY <2>1, <2>2 DEF Titled
  <2> QED BY <2>1, <2>2, <2>4, <2>5, <2>6 DEF out, k
<1> QED BY <1>5, <1>6, <1>7

-----------------------------------------------------------------------------
(* The steps of zenops doctor                                              *)

LEMMA SectionsGrow ==
  ASSUME ShowInv, NEW e \in Events, journal' = Append(journal, e)
  PROVE  /\ \A n \in 1..Len(journal) : SectionsOfEvents'[n] = SectionsOfEvents[n]
         /\ SectionsOfEvents'[Len(journal) + 1] = SectionOf(e)
<1> DEFINE n == Len(journal) + 1
           new == [m \in DOMAIN journal' |-> SectionOf(journal'[m])]
<1>1. /\ Len(journal) \in Nat /\ DOMAIN journal = 1..Len(journal) /\ DOMAIN journal' = 1..n
      /\ \A m \in 1..Len(journal) : journal'[m] = journal[m]
      /\ journal'[n] = e /\ n \in 1..n
  BY DEF ShowInv
<1>2. /\ \A m \in 1..Len(journal) : new[m] = SectionOf(journal[m])
      /\ new[n] = SectionOf(e)
  BY <1>1
<1>3. \A m \in 1..Len(journal) : SectionsOfEvents[m] = SectionOf(journal[m])
  BY <1>1 DEF SectionsOfEvents
<1>4. SectionsOfEvents' = new
  BY DEF SectionsOfEvents
<1> HIDE DEF new
<1> QED BY <1>2, <1>3, <1>4

\* What doctor may push next to what is on the screen.
FitsUnder(e) ==
  /\ SectionOf(e) # "none"
  /\ \/ e.type = "section" /\ (render.section # "none" => Earlier(render.section, e.of))
     \/ e.type = "check" /\ render.section = e.of
     \/ e.type = "status" /\ render.section = "Packages"

LEMMA TitledPush ==
  ASSUME ShowInv, exit = "running", render.footer = 0, ~cmd.json, TitleInv,
         NEW e \in Events, FitsUnder(e), journal' = Append(journal, e)
  PROVE  LET out == PushWrites(cmd, render, Len(journal) + 1, e)
             k == PushKeeps(cmd, render, Len(journal) + 1, e) IN
           /\ out \in Seq(PieceSet) /\ screen \o out \in Seq(PieceSet)
           /\ \A p \in RangeOf(screen \o out) : p.by > 0
           /\ UnderTitle(screen \o out, SectionsOfEvents', k.section)
           /\ k.section = SectionOf(e)
           /\ \A m \in HeldNumbers(k) : SectionsOfEvents'[m] = k.section
<1> DEFINE n == Len(journal) + 1
           se == SectionsOfEvents'
           out == PushWrites(cmd, render, n, e)
           k == PushKeeps(cmd, render, n, e)
<1>1. /\ screen \in Seq(PieceSet) /\ RenderOK(render) /\ RisingIn(render)
      /\ Len(journal) \in Nat /\ n \in Nat \ {0}
  BY DEF ShowInv, OrderOK
<1>2. /\ \A m \in 1..Len(journal) : se[m] = SectionsOfEvents[m]
      /\ se[n] = SectionOf(e)
  BY SectionsGrow
<1>3. \A m \in HeldNumbers(render) : m \in Nat \ {0} /\ m < n /\ m \in 1..Len(journal)
  BY <1>1, HeldNumbersBelow
<1>4. \A i \in DOMAIN screen : screen[i].by \in 1..Len(journal)
  <2>1. \A i \in DOMAIN screen : screen[i] \in RangeOf(screen) /\ screen[i].by > 0
    BY DEF RangeOf, TitleInv
  <2> QED BY <2>1, ScreenBelow
<1>5. UnderTitle(screen, SectionsOfEvents, render.section)
  BY DEF TitleInv
<1> HIDE DEF se, n
<1>6. UnderTitle(screen, se, render.section)
  BY <1>2, <1>4, <1>5, UnderTitleAgree
<1>7. Titled(screen, se, render)
  BY <1>1, <1>2, <1>3, <1>6 DEF Titled, TitleInv
<1>8. /\ out \in Seq(PieceSet) /\ \A p \in RangeOf(out) : p.by > 0
      /\ UnderTitle(screen \o out, se, k.section)
      /\ k.section = SectionOf(e)
      /\ \A m \in HeldNumbers(k) : se[m] = k.section
  <2>1. /\ SectionOf(e) # "none"
        /\ \/ e.type = "section" /\ (render.section # "none" => Earlier(render.section, e.of))
           \/ e.type = "check" /\ render.section = e.of
           \/ e.type = "status" /\ render.section = "Packages"
    BY DEF FitsUnder
  <2>2. \A m \in HeldNumbers(render) : m \in Nat \ {0} /\ m < n
    BY <1>3
  <2> QED BY <1>1, <1>2, <1>7, <2>1, <2>2, DoctorPush
<1> HIDE DEF out, k
<1>9. screen \o out \in Seq(PieceSet) /\ \A p \in RangeOf(screen \o out) : p.by > 0
  <2>1. \A p \in RangeOf(screen) : p.by > 0
    BY DEF TitleInv, RangeOf
  <2> QED BY <1>1, <1>8, <2>1, PieceConcat
<1> QED BY <1>8, <1>9 DEF out, k, se, n

LEMMA TitlePush ==
  ASSUME ShowInv, exit = "running", render.footer = 0, ~cmd.json, TitleInv,
         NEW e \in Events, FitsUnder(e), Pushes(e), InPlace(SectionOf(e))'
  PROVE  TitleInv'
<1> DEFINE out == PushWrites(cmd, render, Len(journal) + 1, e)
           k == PushKeeps(cmd, render, Len(journal) + 1, e)
<1>1. journal' = Append(journal, e) /\ screen' = screen \o out /\ render' = k /\ exit' = "running"
  BY DEF Pushes
<1>2. /\ out \in Seq(PieceSet) /\ screen \o out \in Seq(PieceSet)
      /\ \A p \in RangeOf(screen \o out) : p.by > 0
      /\ UnderTitle(screen \o out, SectionsOfEvents', k.section)
      /\ k.section = SectionOf(e)
      /\ \A m \in HeldNumbers(k) : SectionsOfEvents'[m] = k.section
  BY <1>1, TitledPush
<1> HIDE DEF out, k
<1>3. \A i \in DOMAIN screen' : screen'[i].by > 0
  BY <1>1, <1>2 DEF RangeOf
<1>4. render'.section = SectionOf(e) /\ SectionOf(e) # "none"
  BY <1>1, <1>2 DEF FitsUnder
<1>5. InPlace(render.section)'
  BY <1>4 DEF InPlace
<1> QED BY <1>1, <1>2, <1>3, <1>4, <1>5 DEF TitleInv

LEMMA TitleFails ==
  ASSUME ShowInv, exit = "running", render.footer = 0, ~cmd.json, TitleInv,
         Fail \/ \E e \in Events : FitsUnder(e) /\ PushFails(e)
  PROVE  TitleInv'
<1>1. CASE Fail
  <2>1. journal' = journal /\ screen' = screen /\ exit' = "failed"
    BY <1>1 DEF Fail, Exits
  <2>2. SectionsOfEvents' = SectionsOfEvents
    BY <2>1 DEF SectionsOfEvents
  <2> QED BY <2>1, <2>2 DEF TitleInv, UnderTitle
<1>2. ASSUME NEW e \in Events, FitsUnder(e), PushFails(e) PROVE TitleInv'
  <2> DEFINE out == PushWrites(cmd, render, Len(journal) + 1, e)
  <2>1. journal' = Append(journal, e) /\ exit' = "failed"
    BY <1>2 DEF PushFails, Exits
  <2>2. PICK i \in 1..Len(out) : screen' = screen \o SubSeq(out, 1, i - 1)
    BY <1>2 DEF PushFails
  <2>3. /\ out \in Seq(PieceSet) /\ screen \o out \in Seq(PieceSet)
        /\ \A p \in RangeOf(screen \o out) : p.by > 0
        /\ Sectioned(screen \o out, SectionsOfEvents')
    BY <1>2, <2>1, TitledPush DEF UnderTitle
  <2>4. screen \in Seq(PieceSet)
    BY DEF ShowInv
  <2> DEFINE part == SubSeq(out, 1, i - 1)
             s == screen \o out
             p == screen \o part
  <2>5. part \in Seq(PieceSet) /\ Len(part) <= Len(out) /\ \A j \in 1..Len(part) : part[j] = out[j]
    <3> HIDE DEF out
    <3> QED BY <2>3, PrefixIs
  <2> HIDE DEF out, part
  <2>6. p \in Seq(PieceSet) /\ Len(p) <= Len(s) /\ \A j \in 1..Len(p) : p[j] = s[j]
    BY <2>3, <2>4, <2>5
  <2>7. Sectioned(p, SectionsOfEvents')
    BY <2>3, <2>6, SectionedFirst
  <2>8. screen' = p
    BY <2>2 DEF part
  <2>9. \A j \in DOMAIN p : p[j].by > 0
    BY <2>3, <2>6 DEF RangeOf
  <2> HIDE DEF p
  <2> QED BY <2>1, <2>7, <2>8, <2>9 DEF TitleInv
<1> QED BY <1>1, <1>2

LEMMA TitleQuiet ==
  ASSUME exit = "running", TitleInv, Quiet, InPlace(render.section)'
  PROVE  TitleInv'
<1>1. journal' = journal /\ screen' = screen /\ render' = render /\ exit' = exit
  BY DEF Quiet
<1>2. SectionsOfEvents' = SectionsOfEvents
  BY <1>1 DEF SectionsOfEvents
<1> QED BY <1>1, <1>2 DEF TitleInv

LEMMA TitleFinish ==
  ASSUME ShowInv, ~cmd.json, TitleInv, Finish
  PROVE  TitleInv'
<1> DEFINE out == FinalWrites(cmd, render)
           s == screen \o out
           se == SectionsOfEvents
<1>1. exit = "running" /\ journal' = journal /\ exit' \in {"ok", "failed"}
  BY DEF Finish
<1>2. out = Flushed(render)
  BY DEF FinalWrites
<1>3. Titled(screen, se, render) /\ screen \in Seq(PieceSet)
  BY <1>1 DEF Titled, TitleInv, ShowInv, OrderOK
<1>4. /\ out \in Seq(PieceSet) /\ s \in Seq(PieceSet) /\ Sectioned(s, se)
      /\ \A p \in RangeOf(out) : p.by \in HeldNumbers(render)
  BY <1>2, <1>3, FlushUnder DEF UnderTitle
<1>5. \A j \in DOMAIN s : s[j].by > 0
  <2>1. \A p \in RangeOf(screen) \cup RangeOf(out) : p.by > 0
    BY <1>4, HeldNumbersBelow DEF TitleInv, RangeOf
  <2>2. \A p \in RangeOf(s) : p.by > 0
    BY <1>3, <1>4, <2>1, PieceConcat
  <2> QED BY <2>2 DEF RangeOf
<1>6. SectionsOfEvents' = se
  BY <1>1 DEF SectionsOfEvents
<1>7. \/ screen' = s
      \/ \E i \in 1..Len(out) : screen' = screen \o SubSeq(out, 1, i - 1)
  BY DEF Finish
<1> HIDE DEF out, se
<1>8. CASE screen' = s
  BY <1>1, <1>4, <1>5, <1>6, <1>8 DEF TitleInv
<1>9. ASSUME NEW i \in 1..Len(out), screen' = screen \o SubSeq(out, 1, i - 1) PROVE TitleInv'
  <2> DEFINE part == SubSeq(out, 1, i - 1)
             p == screen \o part
  <2>1. part \in Seq(PieceSet) /\ Len(part) <= Len(out) /\ \A j \in 1..Len(part) : part[j] = out[j]
    BY <1>4, PrefixIs
  <2>2. screen' = p
    BY <1>9
  <2> HIDE DEF part
  <2>3. p \in Seq(PieceSet) /\ Len(p) <= Len(s) /\ \A j \in 1..Len(p) : p[j] = s[j]
    BY <1>3, <1>4, <2>1
  <2> HIDE DEF p, s
  <2>4. Sectioned(p, se)
    BY <1>4, <2>3, SectionedFirst
  <2>5. \A j \in DOMAIN p : p[j].by > 0
    <3>1. DOMAIN p = 1..Len(p) /\ DOMAIN s = 1..Len(s) /\ Len(p) \in Nat /\ Len(s) \in Nat
      BY <1>4, <2>3
    <3> QED BY <1>5, <2>3, <3>1
  <2> QED BY <1>1, <1>6, <2>2, <2>4, <2>5 DEF TitleInv
<1> QED BY <1>7, <1>8, <1>9

\* Where doctor is in its sections, and where its moves take it.
LEMMA CoursePlace ==
  ASSUME OInv, OnCourse, todo # <<>>
  PROVE  /\ Len(todo) \in 1..7 /\ Current \in 1..7 /\ Head(todo) = Sections[Current]
         /\ Head(todo) \in SectionNames
<1>1. todo \in Seq(Stages) /\ Len(todo) \in Nat \ {0}
  BY DEF OInv, PlaceInv
<1>2. Len(todo) \in 1..7
  <2>1. Len(todo) <= 7
    BY DEF OnCourse
  <2>2. \A n \in Nat \ {0} : n <= 7 => n \in 1..7
    OBVIOUS
  <2> QED BY <1>1, <2>1, <2>2, Zenon
<1>3. Head(todo) = todo[1] /\ 1 \in DOMAIN todo
  BY <1>1, <1>2
<1>4. 7 - Len(todo) + 1 = 8 - Len(todo)
  BY <1>1
<1>5. Head(todo) = Sections[Current] /\ Current \in 1..7
  BY <1>2, <1>3, <1>4 DEF OnCourse, Current
<1> QED BY <1>2, <1>5, SectionsAre

LEMMA CourseMoves ==
  ASSUME OInv, OnCourse, todo # <<>>, todo' \in {todo, Tail(todo), <<>>}, exit' # "ok"
  PROVE  /\ OnCourse'
         /\ todo' = todo => Current' = Current
         /\ todo' = Tail(todo) => Current' = Current + 1
         /\ todo' = <<>> => Current' = 8
<1>1. todo \in Seq(Stages) /\ Len(todo) \in Nat /\ Len(todo) \in 1..7
  BY CoursePlace DEF OInv, PlaceInv
<1>2. /\ Len(Tail(todo)) = Len(todo) - 1
      /\ \A i \in DOMAIN Tail(todo) : Tail(todo)[i] = todo[i + 1] /\ i + 1 \in DOMAIN todo
  BY <1>1
<1>6. Len(todo) # Len(Tail(todo))
  <2>1. \A n \in 1..7 : n # n - 1
    OBVIOUS
  <2> QED BY <1>1, <1>2, <2>1, Zenon
<1>3. CASE todo' = todo
  <2>1. todo # Tail(todo) /\ todo # <<>>
    BY <1>6, Zenon
  <2> QED BY <1>3, <2>1 DEF OnCourse, Current
<1>4. CASE todo' = Tail(todo)
  <2>1. todo # Tail(todo) /\ Len(todo') = Len(todo) - 1
    <3>1. todo # Tail(todo)
      BY <1>6, Zenon
    <3> QED BY <1>2, <1>4, <3>1
  <2>2. Current' = Current + 1
    BY <1>1, <2>1 DEF Current
  <2>3. \A i \in DOMAIN todo' : todo'[i] = Sections[7 - Len(todo) + (i + 1)] /\ i \in Nat
    <3>1. \A i \in DOMAIN todo : todo[i] = Sections[7 - Len(todo) + i]
      BY DEF OnCourse
    <3>2. \A i \in DOMAIN todo' : i \in Nat
      BY <1>1, <1>4
    <3> QED BY <1>2, <1>4, <3>1, <3>2, Zenon
  <2>4. \A i \in Nat : 7 - Len(todo) + (i + 1) = 7 - Len(todo') + i
    BY <1>1, <2>1
  <2>5. OnCourse'
    BY <1>1, <2>1, <2>3, <2>4 DEF OnCourse
  <2>6. todo' = <<>> => Current' = 8
    BY DEF Current
  <2> QED BY <1>4, <2>1, <2>2, <2>5, <2>6
<1>5. CASE todo' = <<>>
  <2>1. OnCourse' /\ Current' = 8 /\ Len(todo') = 0
    BY <1>5 DEF OnCourse, Current
  <2>2. todo' = Tail(todo) => Current + 1 = 8
    <3>1. todo' = Tail(todo) => Len(todo) - 1 = 0
      BY <1>2, <2>1
    <3> QED BY <1>1, <3>1 DEF Current
  <2> QED BY <1>5, <2>1, <2>2
<1> QED BY <1>3, <1>4, <1>5

\* The other stages are of other commands.
LEMMA DoctorSteps ==
  ASSUME OInv, OnCourse, Next
  PROVE  EnterSection \/ Check \/ EndSection \/ Packages \/ Finish
<1>1. \A s : In(s) => s \in SectionNames
  BY CoursePlace DEF In
<1>2. /\ ~In("load") /\ ~In("health") /\ ~In("own") /\ ~In("dirty") /\ ~In("decide")
      /\ ~In("files") /\ ~In("changes") /\ ~In("note") /\ ~In("rows") /\ ~In("footer")
  BY <1>1 DEF SectionNames
<1>3. /\ ~In("clone") /\ ~In("bootstrap") /\ ~In("summary") /\ ~In("parse") /\ ~In("plan")
      /\ ~In("confirm") /\ ~In("moves") /\ ~In("toml") /\ ~In("applied_noop")
      /\ ~In("applied") /\ ~In("direct")
  BY <1>1 DEF SectionNames
<1>4. ~(Load \/ Health \/ Own \/ Dirty \/ Decide \/ CheckStatus \/ Note \/ Rows \/ PkgFooter)
  BY <1>2 DEF Load, Health, Own, Dirty, Decide, CheckStatus, Note, Rows, PkgFooter
<1>5. ~(ApplyEntry \/ DoAct \/ EndChanges \/ Clone \/ Bootstrap \/ Summary)
  BY <1>2, <1>3 DEF ApplyEntry, DoAct, EndChanges, Clone, Bootstrap, Summary
<1>6. ~(Parse \/ PlanEvent \/ Confirm \/ EndMoves \/ WriteToml \/ Direct)
  BY <1>3 DEF Parse, PlanEvent, Confirm, EndMoves, WriteToml, Direct
<1>7. ~(Applied("applied_noop", "noop") \/ Applied("applied", "done"))
  BY <1>3 DEF Applied
<1> QED BY <1>4, <1>5, <1>6, <1>7 DEF Next

LEMMA ChecksTyped ==
  \A i \in 1..7 :
    /\ DOMAIN Checks(Sections[i]) = 1..Len(Checks(Sections[i]))
    /\ \A k \in DOMAIN Checks(Sections[i]) :
         /\ k \in Nat /\ k >= 1 /\ k <= Len(Checks(Sections[i]))
         /\ Checks(Sections[i])[k] \in EndsBlock => i = 2
<1> SUFFICES ASSUME NEW i \in 1..7
             PROVE  LET c == Checks(Sections[i]) IN
                      /\ DOMAIN c = 1..Len(c)
                      /\ \A k \in DOMAIN c :
                           k \in Nat /\ k >= 1 /\ k <= Len(c) /\ (c[k] \in EndsBlock => i = 2)
  OBVIOUS
<1> DEFINE s == Sections[i]
<1>1. s \in SectionNames /\ (s = "Repo" => i = 2)
  BY SectionsAre
<1> HIDE DEF s
<1>2. CASE s = "Repo"
  BY <1>1, <1>2 DEF Checks, s
<1>3. CASE s # "Repo"
  <2> DEFINE c == Checks(s)
             labels == {"os", "git", "zenops", "status", "detected", "name", "email", "SHELL",
                        "config", "match"}
  <2>1. c \in Seq(labels)
    <3>1. \/ c = <<"os", "git", "zenops">> \/ c = <<"status">> \/ c = <<"detected">>
          \/ c = <<"name", "email">> \/ c = <<"SHELL", "config", "match">> \/ c = <<>>
      BY <1>1, <1>3 DEF Checks, SectionNames
    <3>2. /\ <<"os", "git", "zenops">> \in Seq(labels) /\ <<"status">> \in Seq(labels)
          /\ <<"detected">> \in Seq(labels) /\ <<"name", "email">> \in Seq(labels)
          /\ <<"SHELL", "config", "match">> \in Seq(labels) /\ <<>> \in Seq(labels)
      OBVIOUS
    <3> QED BY <3>1, <3>2, Zenon
  <2>2. \A l \in labels : l \notin EndsBlock
    BY DEF EndsBlock
  <2> HIDE DEF c, labels
  <2>3. /\ DOMAIN c = 1..Len(c)
        /\ \A k \in DOMAIN c : k \in Nat /\ k >= 1 /\ k <= Len(c) /\ c[k] \in labels
    BY <2>1
  <2> QED BY <2>2, <2>3 DEF c, s
<1> QED BY <1>2, <1>3

LEMMA JournalLast ==
  ASSUME ShowInv, NEW e \in Events, journal' = Append(journal, e)
  PROVE  /\ Len(journal) + 1 \in DOMAIN journal' /\ journal'[Len(journal) + 1] = e
         /\ \A n \in DOMAIN journal' :
              (n \in DOMAIN journal /\ journal'[n] = journal[n]) \/ journal'[n] = e
BY DEF ShowInv

LEMMA SettledGrows ==
  ASSUME ShowInv, journal' = journal \/ \E e \in Events : journal' = Append(journal, e)
  PROVE  \A s, k : Settled(s, k) => Settled(s, k)'
<1>1. CASE journal' = journal
  BY <1>1 DEF Settled, CheckPushed, BlockStopped
<1>2. ASSUME NEW e \in Events, journal' = Append(journal, e)
      PROVE  \A s, k : Settled(s, k) => Settled(s, k)'
  <2>1. \A n \in DOMAIN journal : n \in DOMAIN journal' /\ journal'[n] = journal[n]
    BY <1>2 DEF ShowInv
  <2> QED BY <2>1 DEF Settled, CheckPushed, BlockStopped
<1> QED BY <1>1, <1>2

LEMMA LookedOn ==
  ASSUME ShowInv, LookedAt, host' = host,
         journal' = journal \/ \E e \in Events : journal' = Append(journal, e),
         \A i \in 1..7 : \A k \in DOMAIN Checks(Sections[i]) :
           Passed(i, k)' /\ ~Passed(i, k) /\ (i <= 4 \/ host.config) => Settled(Sections[i], k)'
  PROVE  LookedAt'
BY SettledGrows, SectionsAre DEF LookedAt

\* A failure looks at nothing more.
LEMMA DoctorFails ==
  ASSUME OInv, exit = "running", todo # <<>>, cmd.name = "doctor", DoctorInv,
         \/ Fail
         \/ \E e \in Events :
              /\ PushFails(e) /\ (~cmd.json => FitsUnder(e))
              /\ e.type = "check" => e.of = Sections[Current]
  PROVE  DoctorInv'
<1>1. /\ exit' = "failed" /\ UNCHANGED <<cmd, host, todo, at>>
      /\ render.footer = 0 /\ ShowInv
  BY DEF Fail, PushFails, Exits, OInv, PlaceInv
<1>2. OnCourse' /\ Current' = Current /\ Current \in 1..7
  <2>1. exit' # "ok" /\ todo' \in {todo, Tail(todo), <<>>} /\ OnCourse
    BY <1>1 DEF DoctorInv
  <2> QED BY <1>1, <2>1, CourseMoves, CoursePlace
<1>3. ~cmd.json => TitleInv'
  BY <1>1, TitleFails DEF DoctorInv
<1>4. StopsShort'
  <2>1. CASE journal' = journal
    BY <1>1, <1>2, <2>1 DEF DoctorInv, StopsShort
  <2>2. ASSUME NEW e \in Events, journal' = Append(journal, e),
               e.type = "check" => e.of = Sections[Current]
        PROVE  StopsShort'
    <3>1. \A n \in DOMAIN journal' : (n \in DOMAIN journal /\ journal'[n] = journal[n]) \/ journal'[n] = e
      BY <2>2, JournalLast DEF OInv
    <3> QED BY <1>1, <1>2, <2>2, <3>1 DEF DoctorInv, StopsShort
  <2> QED BY <2>1, <2>2 DEF Fail, PushFails
<1> QED BY <1>1, <1>2, <1>3, <1>4 DEF DoctorInv

LEMMA SectionInPlace ==
  ASSUME OInv, OnCourse, todo # <<>>, InPlace(render.section)
  PROVE  /\ at = 0 /\ render.section # "none" => Earlier(render.section, Head(todo))
         /\ at # 0 => render.section = Head(todo)
<1>1. Current \in 1..7 /\ Head(todo) = Sections[Current]
  BY CoursePlace
<1> QED BY <1>1, SectionsAre DEF InPlace, Earlier

LEMMA EnterSectionDoctor ==
  ASSUME OInv, cmd.name = "doctor", DoctorInv, EnterSection
  PROVE  DoctorInv'
<1>9. PICK e : e = Event("section", Head(todo), "", 0)
  OBVIOUS
<1>0. exit = "running" /\ todo # <<>> /\ at = 0 /\ OnCourse
  BY DEF EnterSection, InDoctor, DoctorInv
<1>1. /\ Current \in 1..7 /\ Head(todo) = Sections[Current] /\ Head(todo) \in SectionNames
      /\ Head(todo) # "none" /\ Head(todo) \in Stages
  BY <1>0, CoursePlace, SectionsAre DEF Stages
<1>2. e \in Events /\ e.type = "section" /\ e.of = Head(todo) /\ SectionOf(e) = Head(todo)
  BY <1>1, <1>9, EventsTyped DEF Event, SectionOf
<1>3. ShowInv /\ render.footer = 0
  BY <1>0 DEF OInv, PlaceInv
<1>4. ASSUME ~cmd.json PROVE FitsUnder(e)
  <2>1. InPlace(render.section)
    BY <1>0, <1>4 DEF DoctorInv, TitleInv
  <2> QED BY <1>0, <1>1, <1>2, <2>1, SectionInPlace DEF FitsUnder
<1>5. (NextItem /\ Pushes(e)) \/ PushFails(e)
  BY <1>9 DEF EnterSection
<1>6. CASE PushFails(e)
  BY <1>0, <1>2, <1>4, <1>6, DoctorFails
<1>7. CASE NextItem /\ Pushes(e)
  <2>1. /\ UNCHANGED <<cmd, host, todo>> /\ at' = 1 /\ exit' = "running"
        /\ journal' = Append(journal, e)
    <3>1. at' = at + 1
      BY <1>7 DEF NextItem
    <3>2. at' = 1
      BY <1>0, <3>1
    <3> QED BY <1>0, <1>7, <3>2, Zenon DEF NextItem, Pushes
  <2>2. OnCourse' /\ Current' = Current
    BY <1>0, <2>1, CourseMoves
  <2>3. ASSUME ~cmd.json PROVE TitleInv'
    <3>1. InPlace(SectionOf(e))'
      BY <1>1, <1>2, <2>1, <2>2, SectionsAre DEF InPlace
    <3> QED BY <1>0, <1>2, <1>3, <1>4, <1>7, <2>3, <3>1, TitlePush DEF DoctorInv
  <2>4. LookedAt'
    <3>1. \A i \in 1..7 : \A k \in DOMAIN Checks(Sections[i]) : Passed(i, k)' => Passed(i, k)
      <4> SUFFICES ASSUME NEW i \in 1..7, NEW k \in DOMAIN Checks(Sections[i]), Passed(i, k)'
                   PROVE  Passed(i, k)
        OBVIOUS
      <4>1. ~(k < 1)
        <5>1. k \in Nat /\ k >= 1
          BY ChecksTyped
        <5> QED BY <5>1
      <4> QED BY <2>1, <2>2, <4>1, Zenon DEF Passed
    <3> QED BY <1>0, <1>2, <1>3, <2>1, <3>1, LookedOn DEF DoctorInv
  <2>5. StopsShort'
    <3>1. \A n \in DOMAIN journal' : (n \in DOMAIN journal /\ journal'[n] = journal[n]) \/ journal'[n] = e
      BY <1>2, <1>3, <2>1, JournalLast
    <3> QED BY <1>2, <2>1, <2>2, <3>1 DEF DoctorInv, StopsShort
  <2> QED BY <2>1, <2>2, <2>3, <2>4, <2>5 DEF DoctorInv
<1> QED BY <1>5, <1>6, <1>7

\* A check is pushed or left out; a bad one may end its block.
LEMMA CheckDoctor ==
  ASSUME OInv, cmd.name = "doctor", DoctorInv, Check
  PROVE  DoctorInv'
<1> PICK s, at0 : s = Head(todo) /\ at0 = at
  OBVIOUS
<1> DEFINE label == Checks(s)[at0]
           e(is) == Event("check", s, is, at0)
<1>0. /\ exit = "running" /\ todo # <<>> /\ OnCourse /\ ShowInv /\ render.footer = 0
      /\ at \in Nat /\ at # 0 /\ at <= Len(Checks(s))
  BY DEF Check, InDoctor, DoctorInv, OInv, PlaceInv
<1>1. /\ Current \in 1..7 /\ s = Sections[Current] /\ s \in SectionNames
      /\ s # "none" /\ s \in Stages
  BY <1>0, CoursePlace, SectionsAre DEF Stages
<1>2. \A is \in {"fine", "bad"} :
        /\ e(is) \in Events /\ e(is).type = "check" /\ e(is).of = s /\ SectionOf(e(is)) = s
        /\ e(is).item = at0 /\ e(is).is = is
  BY <1>0, <1>1, EventsTyped DEF Event, SectionOf
<1>3. ASSUME ~cmd.json, NEW is \in {"fine", "bad"} PROVE FitsUnder(e(is))
  <2>1. InPlace(render.section)
    BY <1>0, <1>3 DEF DoctorInv, TitleInv
  <2> QED BY <1>0, <1>1, <1>2, <2>1, SectionInPlace DEF FitsUnder
<1>4. Severities(label) \subseteq {"fine", "bad"}
  BY DEF Severities
<1>5. \/ label \in MayBeLeftOut /\ NextItem /\ Quiet
      \/ \E is \in {"fine", "bad"} :
           \/ /\ IF label \in EndsBlock /\ is = "bad" THEN NextStage ELSE NextItem
              /\ Pushes(e(is))
           \/ PushFails(e(is))
      \/ Fail
  BY <1>4 DEF Check
<1>6. \A i \in 1..7 : \A k \in DOMAIN Checks(Sections[i]) :
        k \in Nat /\ k >= 1 /\ k <= Len(Checks(Sections[i]))
  BY ChecksTyped
<1>7. label \in EndsBlock => Current = 2
  <2>1. at0 \in DOMAIN Checks(Sections[Current])
    BY <1>0, <1>1, ChecksTyped
  <2> QED BY <1>1, <2>1, ChecksTyped
<1> HIDE DEF e, label
<1>8. CASE label \in MayBeLeftOut /\ NextItem /\ Quiet
  <2>1. /\ UNCHANGED <<cmd, host, todo, journal, render, exit>> /\ at' = at + 1
    BY <1>8 DEF NextItem, Quiet
  <2>2. OnCourse' /\ Current' = Current
    BY <1>0, <2>1, CourseMoves
  <2>3. ASSUME ~cmd.json PROVE TitleInv'
    <3>1. InPlace(render.section)'
      BY <1>0, <2>1, <2>2, <2>3 DEF DoctorInv, TitleInv, InPlace
    <3> QED BY <1>0, <1>8, <2>3, <3>1, TitleQuiet DEF DoctorInv
  <2>4. LookedAt'
    <3>1. \A i \in 1..7 : \A k \in DOMAIN Checks(Sections[i]) :
            Passed(i, k)' /\ ~Passed(i, k) => i = Current /\ k = at0
      BY <1>0, <1>1, <1>6, <2>1, <2>2 DEF Passed
    <3>2. Settled(s, at0)'
      BY <1>8 DEF Settled, label
    <3> QED BY <1>0, <1>1, <2>1, <3>1, <3>2, LookedOn DEF DoctorInv
  <2>5. StopsShort'
    BY <2>1, <2>2 DEF DoctorInv, StopsShort
  <2> QED BY <2>1, <2>2, <2>3, <2>4, <2>5 DEF DoctorInv
<1>9. ASSUME NEW is \in {"fine", "bad"}, Pushes(e(is)),
             IF label \in EndsBlock /\ is = "bad" THEN NextStage ELSE NextItem
      PROVE  DoctorInv'
  <2> DEFINE ev == e(is)
             n == Len(journal) + 1
  <2>1. /\ ev \in Events /\ ev.type = "check" /\ ev.of = s /\ SectionOf(ev) = s
        /\ ev.item = at0 /\ ev.is = is /\ (~cmd.json => FitsUnder(ev)) /\ Pushes(ev)
    BY <1>2, <1>3, <1>9
  <2> HIDE DEF ev
  <2>2. exit' = "running" /\ journal' = Append(journal, ev) /\ UNCHANGED <<cmd, host>>
    BY <1>0, <1>9, <2>1 DEF Pushes, NextStage, NextItem, Enters
  <2>3. /\ n \in DOMAIN journal' /\ journal'[n] = ev
        /\ \A m \in DOMAIN journal' : (m \in DOMAIN journal /\ journal'[m] = journal[m]) \/ journal'[m] = ev
    BY <1>0, <2>1, <2>2, JournalLast
  <2>4. \/ /\ todo' = todo /\ at' = at + 1 /\ OnCourse' /\ Current' = Current
        \/ /\ label \in EndsBlock /\ is = "bad"
           /\ todo' = Tail(todo) /\ at' = 0 /\ OnCourse' /\ Current' = Current + 1
    <3>1. \/ todo' = todo /\ at' = at + 1
          \/ label \in EndsBlock /\ is = "bad" /\ todo' = Tail(todo) /\ at' = 0
      BY <1>9 DEF NextStage, NextItem, Enters
    <3> QED BY <1>0, <2>2, <3>1, CourseMoves
  <2>5. ASSUME ~cmd.json PROVE TitleInv'
    <3>1. InPlace(SectionOf(ev))'
      BY <1>0, <1>1, <2>1, <2>4, SectionsAre DEF InPlace
    <3> QED BY <1>0, <2>1, <2>5, <3>1, TitlePush DEF DoctorInv
  <2>6. CheckPushed(s, at0)'
    BY <2>1, <2>3 DEF CheckPushed
  <2>7. LookedAt'
    <3>1. ASSUME NEW i \in 1..7, NEW k \in DOMAIN Checks(Sections[i]), Passed(i, k)', ~Passed(i, k)
          PROVE  i = Current /\ (k = at0 \/ (label \in EndsBlock /\ is = "bad" /\ at0 < k))
      <4>1. k \in Nat /\ k >= 1
        BY <1>6
      <4> QED BY <1>0, <1>1, <2>4, <3>1, <4>1 DEF Passed
    <3>2. ASSUME label \in EndsBlock, is = "bad", NEW k, at0 < k PROVE BlockStopped(s, k)'
      BY <2>1, <2>3, <3>2 DEF BlockStopped, label
    <3>3. \A i \in 1..7 : \A k \in DOMAIN Checks(Sections[i]) :
            Passed(i, k)' /\ ~Passed(i, k) => Settled(Sections[i], k)'
      BY <1>1, <2>6, <3>1, <3>2 DEF Settled
    <3> QED BY <1>0, <2>1, <2>2, <3>3, LookedOn DEF DoctorInv
  <2>8. StopsShort'
    <3>1. ~host.config => Current \in 1..4
      BY <1>1 DEF DoctorInv, StopsShort
    <3>2. ~host.config => Current' \in 1..4
      BY <1>7, <2>4, <3>1
    <3> QED BY <1>1, <2>1, <2>2, <2>3, <3>1, <3>2 DEF DoctorInv, StopsShort
  <2> QED BY <2>2, <2>4, <2>5, <2>7, <2>8 DEF DoctorInv
<1>10. CASE Fail \/ \E is \in {"fine", "bad"} : PushFails(e(is))
  BY <1>0, <1>1, <1>2, <1>3, <1>10, DoctorFails
<1> QED BY <1>5, <1>8, <1>9, <1>10

LEMMA EndSectionDoctor ==
  ASSUME OInv, cmd.name = "doctor", DoctorInv, EndSection
  PROVE  DoctorInv'
<1>1. /\ exit = "running" /\ todo # <<>> /\ OnCourse /\ ShowInv /\ Quiet
      /\ at = Len(Checks(Head(todo))) + 1 /\ at \in Nat /\ Head(todo) # "Packages"
  BY DEF EndSection, InDoctor, DoctorInv, OInv, PlaceInv
<1>2. Current \in 1..7 /\ Head(todo) = Sections[Current] /\ Current # 7
  BY <1>1, CoursePlace, SectionsAre
<1>3. /\ UNCHANGED <<cmd, host, journal, render, exit>> /\ at' = 0
      /\ \/ todo' = Tail(todo) /\ (Head(todo) # "PkgManager" \/ host.config)
         \/ todo' = <<>> /\ Head(todo) = "PkgManager" /\ ~host.config
  BY DEF EndSection, Quiet, NextStage, Enters
<1>4. OnCourse' /\ (todo' = Tail(todo) => Current' = Current + 1) /\ (todo' = <<>> => Current' = 8)
  BY <1>1, <1>3, CourseMoves
<1>5. /\ Current' \in 2..8 /\ Current < Current'
      /\ ~host.config => (Current' = Current + 1 /\ Current # 4) \/ (Current' = 8 /\ Current = 4)
  BY <1>2, <1>3, <1>4, SectionsAre
<1>6. ASSUME ~cmd.json PROVE TitleInv'
  <2>1. InPlace(render.section)'
    BY <1>1, <1>2, <1>3, <1>5, <1>6, SectionsAre DEF DoctorInv, TitleInv, InPlace
  <2> QED BY <1>1, <1>6, <2>1, TitleQuiet DEF DoctorInv
<1>7. LookedAt'
  <2> SUFFICES ASSUME NEW i \in 1..7, NEW k \in DOMAIN Checks(Sections[i]), Passed(i, k)',
                      ~Passed(i, k), i <= 4 \/ host.config
               PROVE  FALSE
    BY <1>1, <1>3, LookedOn DEF DoctorInv
  <2>1. k \in Nat /\ k >= 1 /\ k <= Len(Checks(Sections[i]))
    BY ChecksTyped
  <2>2. i < Current' /\ ~(i < Current) /\ ~(i = Current /\ k < at)
    BY <1>3, <2>1 DEF Passed
  <2>3. i = Current
    BY <1>2, <1>3, <1>4, <2>2, SectionsAre
  <2> QED BY <1>1, <1>2, <2>1, <2>2, <2>3
<1>8. StopsShort'
  BY <1>1, <1>2, <1>3, <1>5 DEF DoctorInv, StopsShort
<1> QED BY <1>1, <1>3, <1>4, <1>6, <1>7, <1>8 DEF DoctorInv

LEMMA PackagesDoctor ==
  ASSUME OInv, cmd.name = "doctor", DoctorInv, Packages
  PROVE  DoctorInv'
<1>1. /\ exit = "running" /\ todo # <<>> /\ OnCourse /\ ShowInv /\ render.footer = 0
      /\ at \in Nat /\ at # 0 /\ at + 1 - 1 \in Nat /\ Head(todo) = "Packages"
  BY DEF Packages, InDoctor, DoctorInv, OInv, PlaceInv
<1>2. Current = 7 /\ host.config
  <2>1. Current = 7
    BY <1>1, CoursePlace, SectionsAre
  <2> QED BY <2>1 DEF DoctorInv, StopsShort
<1>3. \A k : k \notin DOMAIN Checks(Sections[7])
  BY SectionsAre DEF Checks
<1>4. \/ NextItem /\ Quiet
      \/ NextStage /\ Quiet
      \/ \E e \in PkgStatus(at + 1 - 1) : (NextItem /\ Pushes(e)) \/ PushFails(e)
      \/ Fail
  BY DEF Packages, PkgHealth
<1>5. \A e \in PkgStatus(at + 1 - 1) :
        e \in Events /\ e.type = "status" /\ SectionOf(e) = "Packages" /\ (~cmd.json => FitsUnder(e))
  <2>1. \A e \in PkgStatus(at + 1 - 1) : e \in Events /\ e.type = "status"
    BY <1>1, StatusWords
  <2>2. ~cmd.json => render.section = "Packages"
    <3>1. ~cmd.json => InPlace(render.section)
      BY <1>1 DEF DoctorInv, TitleInv
    <3> QED BY <1>1, <3>1, SectionInPlace
  <2> QED BY <2>1, <2>2 DEF SectionOf, FitsUnder
<1>6. ASSUME host' = host, exit' = "running",
             \/ todo' = todo /\ at' = at + 1
             \/ todo' = Tail(todo) /\ at' = 0,
             \/ journal' = journal
             \/ \E e \in PkgStatus(at + 1 - 1) : journal' = Append(journal, e)
      PROVE  /\ OnCourse' /\ LookedAt' /\ StopsShort' /\ InPlace("Packages")'
             /\ todo' = todo => Current' = 7
  <2>1. OnCourse' /\ (Current' = 7 \/ Current' = 8) /\ (at' = 0 => Current' = 8)
        /\ (at' # 0 => Current' = 7) /\ (todo' = todo => Current' = 7)
    BY <1>1, <1>2, <1>6, CourseMoves
  <2>2. LookedAt'
    <3>1. ASSUME NEW i \in 1..7, NEW k \in DOMAIN Checks(Sections[i]), Passed(i, k)', ~Passed(i, k)
          PROVE  FALSE
      <4>1. i # 7
        BY <1>3, <3>1
      <4> QED BY <1>2, <3>1, <4>1 DEF Passed
    <3> QED BY <1>1, <1>5, <1>6, <3>1, LookedOn DEF DoctorInv
  <2>3. StopsShort'
    BY <1>2, <1>6 DEF StopsShort
  <2>4. InPlace("Packages")'
    BY <2>1, SectionsAre DEF InPlace
  <2> QED BY <2>1, <2>2, <2>3, <2>4
<1>7. CASE (NextItem \/ NextStage) /\ Quiet
  <2>1. /\ UNCHANGED <<cmd, host, journal, render>> /\ exit' = "running"
        /\ \/ todo' = todo /\ at' = at + 1
           \/ todo' = Tail(todo) /\ at' = 0
    BY <1>1, <1>7 DEF NextItem, NextStage, Enters, Quiet
  <2>2. ASSUME ~cmd.json PROVE TitleInv'
    <3>1. render.section = "Packages"
      <4>1. InPlace(render.section)
        BY <1>1, <2>2 DEF DoctorInv, TitleInv
      <4> QED BY <1>1, <4>1, SectionInPlace
    <3>2. InPlace("Packages")'
      BY <1>6, <2>1
    <3>3. InPlace(render.section)'
      BY <2>1, <3>1, <3>2 DEF InPlace
    <3> QED BY <1>1, <1>7, <2>2, <3>3, TitleQuiet DEF DoctorInv
  <2> QED BY <1>1, <1>6, <2>1, <2>2 DEF DoctorInv
<1>8. ASSUME NEW e \in PkgStatus(at + 1 - 1), NextItem, Pushes(e) PROVE DoctorInv'
  <2>1. /\ UNCHANGED <<cmd, host, todo>> /\ exit' = "running" /\ at' = at + 1
        /\ journal' = Append(journal, e)
    BY <1>1, <1>8 DEF NextItem, Pushes
  <2>2. ASSUME ~cmd.json PROVE TitleInv'
    <3>1. InPlace("Packages")' /\ SectionOf(e) = "Packages" /\ e \in Events /\ FitsUnder(e)
      BY <1>5, <1>6, <1>8, <2>1, <2>2
    <3> QED BY <1>1, <1>8, <2>2, <3>1, TitlePush DEF DoctorInv
  <2> QED BY <1>1, <1>6, <1>8, <2>1, <2>2 DEF DoctorInv
<1>9. CASE Fail \/ \E e \in PkgStatus(at + 1 - 1) : PushFails(e)
  BY <1>1, <1>5, <1>9, DoctorFails
<1> QED BY <1>4, <1>7, <1>8, <1>9

LEMMA FinishDoctor ==
  ASSUME OInv, cmd.name = "doctor", DoctorInv, Finish
  PROVE  DoctorInv'
<1>1. /\ exit = "running" /\ UNCHANGED <<cmd, host, todo, at, journal>>
      /\ todo = <<>> /\ ShowInv
  BY DEF Finish, OInv
<1>2. ~cmd.json => TitleInv'
  BY <1>1, TitleFinish DEF DoctorInv
<1>3. OnCourse' /\ Current' = Current
  BY <1>1 DEF DoctorInv, OnCourse, Current
<1>4. LookedAt'
  <2>1. \A i, k : Passed(i, k)' => Passed(i, k)
    BY <1>1, <1>3 DEF Passed
  <2> QED BY <1>1, <2>1, LookedOn DEF DoctorInv
<1>5. StopsShort'
  BY <1>1, <1>3 DEF DoctorInv, StopsShort
<1> QED BY <1>1, <1>2, <1>3, <1>4, <1>5 DEF DoctorInv

-----------------------------------------------------------------------------
(* The theorems                                                            *)

LEMMA InitOK ==
  ASSUME Init
  PROVE  OInv /\ Promise!Init
<1>1. CmdOK /\ cmd.name \in Names
  BY CommandsTyped DEF Init, CmdOK, Names
<1>2. Told = {} /\ Due = {} /\ Held = {}
  BY EmptyRange, ToldIsTold, FreshHolds DEF Init, Due, Held, ToldIn
<1>7. OrderOK /\ TellOK
  <2>1. screen = <<>> /\ journal = <<>> /\ render = FreshRenderer /\ exit = "running"
    BY DEF Init
  <2>2. ActsOfEvents = <<>>
    BY <2>1 DEF ActsOfEvents
  <2>3. OrderOK
    BY <2>1, FreshOrders, OrderedFew DEF OrderOK, InOrder
  <2>4. Reported = <<>> /\ Pushed = <<>> /\ Untold(render.lines, ActsOfEvents) = <<>>
    BY <2>1, <2>2, UntoldEmpty, FlattenEmpty DEF Reported, Pushed, FreshRenderer
  <2>5. <<>> \o <<>> = <<>>
    OBVIOUS
  <2> QED BY <2>1, <2>3, <2>4, <2>5, SilentFresh DEF TellOK
<1>3. ShowInv
  BY <1>1, <1>2, <1>7, EmptyRange, FreshHolds DEF Init, ShowInv, Conserved
<1>4. todo \in Seq(Stages) /\ \A i \in DOMAIN todo : todo[i] = "footer" => i = Len(todo)
  <2>1. /\ \A s \in {ApplyStages, Sections} :
             s \in Seq(Stages) /\ \A i \in DOMAIN s : s[i] # "footer"
        /\ LET s == <<"load", "note", "rows", "footer">> IN
             s \in Seq(Stages) /\ \A i \in DOMAIN s : s[i] = "footer" => i = Len(s)
        /\ LET s == <<"load", "health", "own", "files">> IN
             s \in Seq(Stages) /\ \A i \in DOMAIN s : s[i] # "footer"
        /\ \A s \in {<<"clone", "summary">>, <<"bootstrap", "summary">>, <<"parse", "plan">>,
                     <<"direct">>} :
             s \in Seq(Stages) /\ \A i \in DOMAIN s : s[i] # "footer"
    BY DEF ApplyStages, Sections, Stages, SectionNames
  <2>2. todo \in {ApplyStages, Sections, <<"load", "note", "rows", "footer">>,
                  <<"load", "health", "own", "files">>, <<"clone", "summary">>,
                  <<"bootstrap", "summary">>, <<"parse", "plan">>, <<"direct">>}
    BY <1>1 DEF Init, Program, Names
  <2> QED BY <2>1, <2>2
<1>5. PlaceInv
  BY <1>1, <1>4, EmptyRange DEF Init, PlaceInv, FreshRenderer
<1>6. Promise!Init
  BY <1>2 DEF Promise!Init, Init
<1> QED BY <1>3, <1>5, <1>6 DEF OInv

LEMMA NextKeeps ==
  ASSUME OInv, [Next]_vars
  PROVE  OInv' /\ Kept
<1>1. CASE UNCHANGED vars
  <2>1. Quiet /\ UNCHANGED <<cmd, todo, at, acts>>
    BY <1>1 DEF vars, Quiet
  <2>2. ShowInv' /\ UNCHANGED Promise!vars /\ render' = render
    BY <2>1, QuietStep DEF OInv
  <2> QED BY <2>1, <2>2 DEF OInv, PlaceInv, Kept
<1>2. CASE Load \/ Health \/ Own \/ Dirty \/ Decide \/ CheckStatus
  BY <1>2, LoadKeeps, HealthKeeps, OwnKeeps, DirtyKeeps, DecideKeeps, CheckStatusKeeps
<1>3. CASE ApplyEntry \/ DoAct \/ EndChanges
  BY <1>3, ApplyEntryKeeps, DoActKeeps, EndChangesKeeps
<1>4. CASE Note \/ Rows \/ PkgFooter
  BY <1>4, NoteKeeps, RowsKeeps, PkgFooterKeeps
<1>5. CASE EnterSection \/ Check \/ EndSection \/ Packages
  BY <1>5, EnterSectionKeeps, CheckKeeps, EndSectionKeeps, PackagesKeeps
<1>6. CASE Clone \/ Bootstrap \/ Summary
  BY <1>6, CloneKeeps, BootstrapKeeps, SummaryKeeps
<1>7. CASE Parse \/ PlanEvent \/ Confirm \/ EndMoves \/ WriteToml
  BY <1>7, ParseKeeps, PlanEventKeeps, ConfirmKeeps, EndMovesKeeps, WriteTomlKeeps
<1>8. CASE Applied("applied_noop", "noop") \/ Applied("applied", "done")
  BY <1>8, AppliedKeeps
<1>9. CASE Direct \/ Finish
  BY <1>9, DirectKeeps, FinishKeeps
<1> QED BY <1>1, <1>2, <1>3, <1>4, <1>5, <1>6, <1>7, <1>8, <1>9 DEF Next

LEMMA CommandStays == ASSUME [Next]_vars PROVE cmd' = cmd
<1>1. CASE UNCHANGED vars
  BY <1>1 DEF vars
<1> USE DEF Stay, NextItem, NextStage, Enters, Fail, PushFails, Exits
<1>2. CASE Load \/ Health \/ Own \/ Dirty \/ Decide \/ CheckStatus
  BY <1>2 DEF Load, Health, PkgHealth, GitRows, Own, Dirty, Decide, CheckStatus
<1>3. CASE ApplyEntry \/ DoAct \/ EndChanges \/ Note \/ Rows \/ PkgFooter
  BY <1>3 DEF ApplyEntry, DoAct, EndChanges, Note, Rows, PkgFooter
<1>4. CASE EnterSection \/ Check \/ EndSection \/ Packages
  BY <1>4 DEF EnterSection, Check, EndSection, Packages, PkgHealth
<1>5. CASE Clone \/ Bootstrap \/ Summary \/ Parse \/ PlanEvent
  BY <1>5 DEF Clone, Bootstrap, AfterSetup, Summary, Parse, PlanEvent
<1>6. CASE Confirm \/ EndMoves \/ WriteToml \/ Direct \/ Finish
  BY <1>6 DEF Confirm, EndMoves, WriteToml, Direct, Finish
<1>7. CASE Applied("applied_noop", "noop") \/ Applied("applied", "done")
  BY <1>7 DEF Applied
<1> QED BY <1>1, <1>2, <1>3, <1>4, <1>5, <1>6, <1>7 DEF Next

LEMMA DoctorKept ==
  ASSUME OInv, DoctorInv, [Next]_vars
  PROVE  DoctorInv'
<1>1. CASE UNCHANGED vars
  <2>1. UNCHANGED <<cmd, host, todo, at, exit, journal, screen, render>>
    BY <1>1 DEF vars
  <2>2. SectionsOfEvents' = SectionsOfEvents
    BY <2>1 DEF SectionsOfEvents
  <2>3. TitleInv => TitleInv'
    BY <2>1, <2>2 DEF TitleInv, InPlace, Current
  <2>4. LookedAt => LookedAt'
    BY <2>1 DEF LookedAt, Passed, Settled, CheckPushed, BlockStopped, Current
  <2>5. (OnCourse => OnCourse') /\ (StopsShort => StopsShort')
    BY <2>1 DEF OnCourse, StopsShort, Current
  <2> QED BY <2>1, <2>3, <2>4, <2>5 DEF DoctorInv
<1>2. CASE Next /\ cmd.name = "doctor"
  <2>1. OnCourse
    BY <1>2 DEF DoctorInv
  <2>2. EnterSection \/ Check \/ EndSection \/ Packages \/ Finish
    BY <1>2, <2>1, DoctorSteps
  <2> QED BY <1>2, <2>2, EnterSectionDoctor, CheckDoctor, EndSectionDoctor, PackagesDoctor, FinishDoctor
<1>3. CASE cmd.name # "doctor"
  BY <1>3, CommandStays DEF DoctorInv
<1> QED BY <1>1, <1>2, <1>3

LEMMA InitDoctor == ASSUME Init PROVE DoctorInv
<1>1. /\ todo = Program(cmd) /\ at = 0 /\ exit = "running" /\ journal = <<>> /\ screen = <<>>
      /\ render = FreshRenderer
  BY DEF Init
<1> SUFFICES ASSUME cmd.name = "doctor"
             PROVE  OnCourse /\ TitleInv /\ LookedAt /\ StopsShort
  BY DEF DoctorInv
<1>2. todo = Sections
  BY <1>1 DEF Program
<1>3. Len(todo) = 7 /\ Current = 1
  BY <1>2 DEF Sections, Current
<1>4. OnCourse
  BY <1>1, <1>2, <1>3, SectionsAre DEF OnCourse
<1>5. TitleInv
  <2>1. render.section = "none"
    BY <1>1 DEF FreshRenderer
  <2>2. UnderTitle(screen, SectionsOfEvents, render.section)
    BY <1>1, <2>1, NothingUnder
  <2>3. HeldNumbers(render) = {}
    BY <1>1, FreshOrders
  <2> QED BY <1>1, <2>1, <2>2, <2>3, EmptyRange DEF TitleInv, InPlace
<1>6. LookedAt
  <2>1. ASSUME NEW i \in 1..7, NEW k \in DOMAIN Checks(Sections[i]), Passed(i, k) PROVE FALSE
    <3>1. k \in Nat /\ k >= 1
      BY ChecksTyped
    <3> QED BY <1>1, <1>3, <2>1, <3>1 DEF Passed
  <2> QED BY <2>1, SectionsAre DEF LookedAt
<1>7. StopsShort
  BY <1>1, <1>3 DEF StopsShort
<1> QED BY <1>4, <1>5, <1>6, <1>7

\* What a doctor that ends well has pushed it has shown.
LEMMA DoctorShows == ASSUME OInv, DoctorInv PROVE DoctorReports
<1> SUFFICES ASSUME cmd.name = "doctor", exit = "ok",
                    NEW i \in 1..7, NEW k \in DOMAIN Checks(Sections[i])
             PROVE  LET s == Sections[i]
                        shown == \E e \in ChecksShown : e.type = "check" /\ e.of = s /\ e.item = k IN
                      IF ~host.config /\ i > 4
                        THEN ~shown
                        ELSE shown \/ BlockEnded(s, k) \/ Checks(s)[k] \in MayBeLeftOut
  BY SectionsAre DEF DoctorReports
<1> DEFINE s == Sections[i]
<1>1. /\ OnCourse /\ LookedAt /\ StopsShort /\ Told = Due /\ journal \in Seq(Events)
      /\ cmd.json \in BOOLEAN
  BY DEF DoctorInv, OInv, ShowInv, Conserved, CmdOK
<1>2. Current = 8
  BY <1>1 DEF OnCourse, Current
<1>3. ASSUME NEW n \in DOMAIN journal, journal[n].type = "check" PROVE journal[n] \in ChecksShown
  <2>1. DueParts(journal[n]) # {}
    BY <1>1, <1>3 DEF DueParts
  <2>2. PICK part : part \in DueParts(journal[n])
    BY <2>1
  <2>3. [by |-> n, part |-> part] \in Due
    BY <2>2 DEF Due
  <2> QED BY <1>1, <2>3 DEF ChecksShown
<1>4. ChecksShown \subseteq {journal[n] : n \in DOMAIN journal}
  BY DEF ChecksShown
<1>5. CASE ~host.config /\ i > 4
  <2>1. ASSUME NEW e \in ChecksShown, e.type = "check", e.of = s PROVE FALSE
    <3>1. PICK n \in DOMAIN journal : e = journal[n]
      BY <1>4
    <3>2. PICK j \in 1..4 : journal[n].of = Sections[j]
      BY <1>1, <1>5, <2>1, <3>1 DEF StopsShort
    <3> QED BY <1>5, <2>1, <3>1, <3>2, SectionsAre
  <2> QED BY <1>5, <2>1
<1>6. CASE ~(~host.config /\ i > 4)
  <2>1. Settled(s, k)
    BY <1>1, <1>2, <1>6, SectionsAre DEF LookedAt, Passed
  <2>2. CheckPushed(s, k) => \E e \in ChecksShown : e.type = "check" /\ e.of = s /\ e.item = k
    BY <1>3 DEF CheckPushed
  <2>3. BlockStopped(s, k) => BlockEnded(s, k)
    BY <1>3 DEF BlockStopped, BlockEnded
  <2> QED BY <1>6, <2>1, <2>2, <2>3 DEF Settled
<1> QED BY <1>5, <1>6

\* The inductive invariant of every command: what is held is in the open block,
\* and only the end of `zenops pkg` leaves a footer in the renderer.
THEOREM OutputInv == Spec => []OInv
<1>1. Init => OInv
  BY InitOK
<1>2. OInv /\ [Next]_vars => OInv'
  BY NextKeeps
<1> QED BY <1>1, <1>2, PTL DEF Spec

\* Nothing that a command pushed is lost before its end, shown twice, or made
\* up, and after finalize all of it is on the screen.
THEOREM OutputConserved == Spec => []Conserved
<1>1. OInv => Conserved
  BY DEF OInv, ShowInv
<1> QED BY <1>1, OutputInv, PTL

\* The renderers implement the Output trait: every step of a command pushes,
\* closes or drops the channel, or leaves it as it is.
THEOREM OutputDelivers == Spec => DeliversAll
<1>1. Init => Promise!Init
  BY InitOK
<1>2. OInv /\ [Next]_vars => [Promise!Next]_Promise!vars
  BY NextKeeps DEF Kept
<1> QED BY <1>1, <1>2, OutputInv, PTL DEF Spec, DeliversAll, Promise!Spec

\* What a command writes stands in the order in which it was pushed, nothing
\* twice, and only the diffs of a block behind its rows.
THEOREM OutputInOrder == Spec => []InOrder
<1>1. OInv => InOrder
  BY DEF OInv, ShowInv, OrderOK
<1> QED BY <1>1, OutputInv, PTL

\* The events pushed tell the acts done, in their order, until the command fails.
THEOREM OutputDone == Spec => []DoneInv
<1>1. Init => DoneInv
  <2> SUFFICES ASSUME Init PROVE DoneInv
    OBVIOUS
  <2>1. done = <<>> /\ journal = <<>>
    BY DEF Init
  <2>2. ActsOfEvents = <<>> /\ [i \in DOMAIN done |-> ToTell(done[i])] = <<>>
    BY <2>1 DEF ActsOfEvents
  <2>3. Pushed = Made
    BY <2>2 DEF Pushed, Made
  <2> QED BY <2>1, <2>3 DEF DoneInv
<1>2. OInv /\ DoneInv /\ [Next]_vars => DoneInv'
  BY DoneKept
<1> QED BY <1>1, <1>2, OutputInv, PTL DEF Spec

\* A command that ends well has told every change it made, in the order in
\* which it made them, and no other.
THEOREM OutputTellsChanges == Spec => []ChangesReported
<1>1. OInv /\ DoneInv => ChangesReported
  BY DEF OInv, ShowInv, TellOK, DoneInv, ChangesReported
<1> QED BY <1>1, OutputInv, OutputDone, PTL

\* zenops doctor: where it is in its sections, what of them is titled and what
\* has been looked at.
THEOREM OutputDoctor == Spec => []DoctorInv
<1>1. Init => DoctorInv
  BY InitDoctor
<1>2. OInv /\ DoctorInv /\ [Next]_vars => DoctorInv'
  BY DoctorKept
<1> QED BY <1>1, <1>2, OutputInv, PTL DEF Spec

\* Every check and package row of zenops doctor stands under the title of its
\* section, and the titles come once each and in their order.
THEOREM OutputTitles == Spec => []UnderTheirSection
<1>1. OInv /\ DoctorInv => UnderTheirSection
  BY DEF OInv, ShowInv, DoctorInv, TitleInv, UnderTitle, UnderTheirSection
<1> QED BY <1>1, OutputInv, OutputDoctor, PTL

\* A doctor that ends well has shown all checks that its config lets it make,
\* and without a config those that need none.
THEOREM OutputDoctorReports == Spec => []DoctorReports
<1>1. OInv /\ DoctorInv => DoctorReports
  BY DoctorShows
<1> QED BY <1>1, OutputInv, OutputDoctor, PTL
===============================================================================
