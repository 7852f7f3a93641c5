------------------------------ MODULE OutputInv ------------------------------
(* The inductive invariants of module Output: what is on the screen, what the  *)
(* renderer holds and where the command is, as the proofs need them.           *)
EXTENDS Output

Kinds == {"status", "action", "pkg_row", "pkg_footer", "pkg_note", "section", "check",
          "init_summary", "plan", "applied"}
SectionNames == {"System", "Repo", "Config", "PkgManager", "User", "Shell", "Packages"}
Stages == SectionNames \cup
  {"load", "health", "own", "files", "dirty", "decide", "changes", "note", "rows", "footer",
   "clone", "bootstrap", "summary", "parse", "plan", "applied_noop", "confirm", "moves",
   "toml", "applied", "direct"}
Names == {"status", "apply", "pkg", "doctor", "clone", "bootstrap", "import", "direct"}
Variants == Stages \cup ActNames \cup Names \cup
  {"", "git", "repo", "generated", "symlink"}
States == {"", "ok", "missing", "modified", "untracked", "clean", "new", "wrong", "in_the_way",
           "done", "disabled", "installed", "fine", "bad", "noop", "work"}
Events == [type : Kinds, of : Variants, is : States, item : Nat]
Parts == {"row", "diff", "footer", "title", "text", "json", "prompt", "summary"}
PieceSet == [by : Nat, part : Parts]

\* The renderer holds events of the open block only.
RenderOK(r) ==
  /\ r = [pending |-> r.pending, lines |-> r.lines, diffs |-> r.diffs, rows |-> r.rows,
          footer |-> r.footer, section |-> r.section]
  /\ r.pending \in {"none", "status", "pkg"}
  /\ r.lines \in Seq(Nat) /\ r.diffs \in Seq(Nat) /\ r.rows \in Seq(Nat)
  /\ r.footer \in Nat
  /\ r.pending # "status" => r.lines = <<>> /\ r.diffs = <<>>
  /\ r.pending # "pkg" => r.rows = <<>> /\ r.footer = 0

CmdOK == cmd.json \in BOOLEAN /\ cmd.diffs \in BOOLEAN /\ cmd.all \in BOOLEAN

-----------------------------------------------------------------------------
(* What the renderer holds comes after all that is on the screen, in the order *)
(* in which it was pushed.                                                      *)

HeldNumbers(r) ==
  NumbersIn(r.lines) \cup NumbersIn(r.diffs) \cup NumbersIn(r.rows) \cup ({r.footer} \ {0})

Rising(numbers) == \A i, j \in DOMAIN numbers : i < j => numbers[i] < numbers[j]

RisingIn(r) ==
  /\ Rising(r.lines) /\ Rising(r.diffs) /\ Rising(r.rows)
  /\ r.footer # 0 => \A n \in NumbersIn(r.rows) : n < r.footer

OrderOK ==
  /\ InOrder
  /\ RisingIn(render)
  /\ \A i \in DOMAIN screen :
       /\ screen[i].by <= Len(journal)
       /\ \A n \in HeldNumbers(render) : screen[i].by < n

(* Only the rows of the open block have changes still to tell.                 *)

Untold(numbers, told) == FlattenSeq([i \in DOMAIN numbers |-> told[numbers[i]]])
Pushed == FlattenSeq(ActsOfEvents)

SilentIn(r, told) ==
  \A n \in NumbersIn(r.diffs) \cup NumbersIn(r.rows) \cup ({r.footer} \ {0}) : told[n] = <<>>

TellOK ==
  /\ SilentIn(render, ActsOfEvents)
  /\ exit = "running" => Reported \o Untold(render.lines, ActsOfEvents) = Pushed
  /\ exit = "ok" => Reported = Pushed

ShowInv ==
  /\ CmdOK
  /\ exit \in {"running", "ok", "failed"}
  /\ journal \in Seq(Events)
  /\ screen \in Seq(PieceSet)
  /\ RenderOK(render)
  /\ cmd.json => render = FreshRenderer
  /\ Conserved
  /\ OrderOK
  /\ TellOK

\* A footer is pushed once: its stage is the last one of its command.
PlaceInv ==
  /\ cmd.name \in Names
  /\ todo \in Seq(Stages)
  /\ at \in Nat
  /\ acts \in Seq(Acts)
  /\ \A i \in DOMAIN todo : todo[i] = "footer" => i = Len(todo)
  /\ render.footer # 0 => todo = <<>>

OInv == ShowInv /\ PlaceInv

-----------------------------------------------------------------------------
(* What a command has done, it has pushed, until it fails.                     *)

DoneInv ==
  /\ done \in Seq(Acts \cup {Act("config_written", 0)})
  /\ exit # "failed" => Pushed = Made

-----------------------------------------------------------------------------
(* zenops doctor                                                               *)

\* The section that runs, 8 once all are done: todo is what Sections has left.
Current == 8 - Len(todo)
OnCourse ==
  /\ Len(todo) <= 7
  /\ \A i \in DOMAIN todo : todo[i] = Sections[7 - Len(todo) + i]
  /\ exit = "ok" => todo = <<>>

\* The last title on the screen is the one the renderer knows of.
UnderTitle(pieces, sections, section) ==
  /\ Sectioned(pieces, sections)
  /\ IF section = "none"
       THEN pieces = <<>>
       ELSE \E t \in DOMAIN pieces :
              /\ pieces[t].part = "title" /\ sections[pieces[t].by] = section
              /\ \A u \in DOMAIN pieces : pieces[u].part = "title" => u <= t

\* A section that has its title is the running one, or an earlier one before
\* the running one begins.
InPlace(section) ==
  IF section = "none"
    THEN at = 0
    ELSE \E i \in DOMAIN Sections :
           Sections[i] = section /\ IF at = 0 THEN i < Current ELSE i = Current

\* The title of a section is out before its checks and rows are pushed, and
\* what is held belongs to it.
TitleInv ==
  /\ \A i \in DOMAIN screen : screen[i].by > 0
  /\ exit # "running" => Sectioned(screen, SectionsOfEvents)
  /\ exit = "running" =>
       /\ UnderTitle(screen, SectionsOfEvents, render.section)
       /\ \A n \in HeldNumbers(render) : SectionsOfEvents[n] = render.section
       /\ render.section = "none" => HeldNumbers(render) = {}
       /\ InPlace(render.section)

CheckPushed(s, k) ==
  \E n \in DOMAIN journal : journal[n].type = "check" /\ journal[n].of = s /\ journal[n].item = k
BlockStopped(s, k) ==
  \E n \in DOMAIN journal :
    /\ journal[n].type = "check" /\ journal[n].of = s /\ journal[n].is = "bad"
    /\ journal[n].item < k /\ Checks(s)[journal[n].item] \in EndsBlock
Settled(s, k) == CheckPushed(s, k) \/ BlockStopped(s, k) \/ Checks(s)[k] \in MayBeLeftOut

\* What lies behind has been looked at, as far as there is a config for it.
Passed(i, k) == i < Current \/ (i = Current /\ k < at)
LookedAt ==
  \A i \in DOMAIN Sections : \A k \in DOMAIN Checks(Sections[i]) :
    Passed(i, k) /\ (i <= 4 \/ host.config) => Settled(Sections[i], k)

\* Without a config nothing is looked at behind the package manager.
StopsShort ==
  ~host.config =>
    /\ Current \in 1..4 \cup {8}
    /\ \A n \in DOMAIN journal :
         journal[n].type = "check" => \E i \in 1..4 : journal[n].of = Sections[i]

DoctorInv ==
  cmd.name = "doctor" =>
    /\ OnCourse
    /\ ~cmd.json => TitleInv
    /\ exit # "failed" => LookedAt
    /\ StopsShort

CommandInv == OInv /\ DoneInv /\ DoctorInv
=============================================================================
