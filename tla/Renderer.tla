------------------------------ MODULE Renderer ------------------------------
(***************************************************************************)
(* The two renderers behind the Output trait (src/src/output/): JsonOutput *)
(* writes every event at once, TerminalRenderer buffers the rows that it   *)
(* aligns in columns and flushes a block when another kind of event comes, *)
(* or on finalize.                                                         *)
(*                                                                         *)
(* An event is [type, of, is, item]: its kind, its variant (for a doctor   *)
(* check its section), the state it reports and which of several it is.    *)
(* Wording, colour, padding and indentation are left out.  What is written *)
(* is a sequence of pieces [by, part]: the part that event number `by`     *)
(* (by = 0: no event) has on the screen.                                   *)
(***************************************************************************)
EXTENDS Integers, Sequences

Event(type, of, is, item) == [type |-> type, of |-> of, is |-> is, item |-> item]

\* The blocks: Status and AppliedAction share one, the rows of `zenops pkg`
\* have their own, everything else is written inline.
Block(e) ==
  CASE e.type \in {"status", "action"} -> "status"
    [] e.type \in {"pkg_row", "pkg_footer"} -> "pkg"
    [] OTHER -> "none"

CleanStates == {"ok", "clean"}

\* What is already as it should be has a row only under `status --all`.
RowShown(opts, e) ==
  e.type = "action" \/ e.is \notin CleanStates \/ opts.all

\* A generated file that differs has its diff under `status --diff`.
DiffShown(opts, e) ==
  opts.diffs /\ e.type = "status" /\ e.of = "generated" /\ e.is \in {"modified", "new"}

\* The renderer: the events it holds in either block, by number, the kind of
\* the open block and the doctor section whose title is the last one written.
FreshRenderer ==
  [pending |-> "none", lines |-> <<>>, diffs |-> <<>>, rows |-> <<>>,
   footer |-> 0, section |-> "none"]

Pieces(numbers, part) == [i \in 1..Len(numbers) |-> [by |-> numbers[i], part |-> part]]
Footer(n) == IF n = 0 THEN <<>> ELSE <<[by |-> n, part |-> "footer"]>>

\* Mutant: the diffs of a block come before its rows.
FlushedDiffsFirst(r) ==
  CASE r.pending = "status" -> Pieces(r.diffs, "diff") \o Pieces(r.lines, "row")
    [] r.pending = "pkg" -> Pieces(r.rows, "row") \o Footer(r.footer)
    [] OTHER -> <<>>

Flushed(r) ==
  CASE r.pending = "status" -> Pieces(r.lines, "row") \o Pieces(r.diffs, "diff")
    [] r.pending = "pkg" -> Pieces(r.rows, "row") \o Footer(r.footer)
    [] OTHER -> <<>>

\* Mutant: flush_pending forgets to take what it has written.
EmptiedKeepsRows(r) == [r EXCEPT !.pending = "none"]

Emptied(r) == [FreshRenderer EXCEPT !.section = r.section]

\* `enter`: another kind of block than the open one flushes it first.
Entered(r, e) == IF r.pending = Block(e) THEN r ELSE [Emptied(r) EXCEPT !.pending = Block(e)]
EnterWrites(r, e) == IF r.pending = Block(e) THEN <<>> ELSE Flushed(r)

Text(n) == <<[by |-> n, part |-> "text"]>>

\* Mutant: only the first section of a report has its title.
TitleOnce(r, n, e) ==
  IF r.section # "none" THEN <<>> ELSE <<[by |-> n, part |-> "title"]>>

\* The title of a doctor section comes with its first event.
Title(r, n, e) ==
  IF r.section = e.of THEN <<>> ELSE <<[by |-> n, part |-> "title"]>>

\* What an event has written at once.  A no-op import has been told by its plan.
Inline(r, n, e) ==
  CASE e.type = "section" -> Title(r, n, e)
    [] e.type = "check" -> Title(r, n, e) \o Text(n)
    [] e.type = "applied" /\ e.is = "noop" -> <<>>
    [] e.type \in {"pkg_note", "init_summary", "plan"} \/ (e.type = "applied" /\ e.is # "noop") ->
         Text(n)
    [] OTHER -> <<>>

WithRow(opts, r, n, e) == IF RowShown(opts, e) THEN Append(r.lines, n) ELSE r.lines
WithDiff(opts, r, n, e) == IF DiffShown(opts, e) THEN Append(r.diffs, n) ELSE r.diffs

Buffered(opts, r, n, e) ==
  CASE Block(e) = "status" ->
         [r EXCEPT !.lines = WithRow(opts, r, n, e), !.diffs = WithDiff(opts, r, n, e)]
    [] e.type = "pkg_row" -> [r EXCEPT !.rows = Append(@, n)]
    [] e.type = "pkg_footer" -> [r EXCEPT !.footer = n]
    [] e.type \in {"section", "check"} -> [r EXCEPT !.section = e.of]
    [] OTHER -> r

\* push of event number n, under the options of the command.
PushWrites(opts, r, n, e) ==
  IF opts.json
    THEN IF e.type = "section" THEN <<>> ELSE <<[by |-> n, part |-> "json"]>>
    ELSE EnterWrites(r, e) \o Inline(r, n, e)

PushKeeps(opts, r, n, e) ==
  IF opts.json THEN r ELSE Buffered(opts, Entered(r, e), n, e)

\* finalize
FinalWrites(opts, r) == IF opts.json THEN <<>> ELSE Flushed(r)
=============================================================================
