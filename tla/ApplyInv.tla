------------------------------- MODULE ApplyInv -------------------------------
(***************************************************************************)
(* The inductive invariant of Apply: what the system calls may rely on     *)
(* while the entry at hand is what entry_status saw.  MCApply checks it,   *)
(* ApplyProofs proves it.                                                  *)
(***************************************************************************)
EXTENDS Apply

Calls == {"mkdir", "write", "unlink", "link"}

\* The status is one that the kind of the entry can have, and each system call
\* belongs to one kind.
KindOK ==
  pc \in Calls \cup {"ask"} =>
    /\ at <= Len(Order)
    /\ Here \in Links => status \in {"new", "dir_missing", "wrong"} /\ pc # "write"
    /\ Here \in Gens => status \in {"new", "modified"} /\ pc \notin {"unlink", "link"}
    /\ pc = "unlink" => status = "wrong"
    /\ pc = "mkdir" => status \in {"new", "dir_missing"}

\* Nothing is done that the prompter did not approve.
ConsentOK ==
  /\ mode = "dry" => pc \notin Calls /\ approved = {}
  /\ pc \in {"idle", "probe"} => approved = {}
  /\ mode = "yes" /\ pc \in {"ask", "write"} /\ status = "modified" =>
       \A h \in Hunks : cur[h] # Here => h \in approved \cup todo
  /\ pc = "write" /\ status = "modified" => todo = {}

\* As long as nobody else acts, what was read is what is there.
ReadingOK ==
  fresh /\ pc \in Calls \cup {"ask"} =>
    /\ status = "modified" => cur = Reach(Here)
    /\ status = "wrong" /\ pc # "link" => fs[Here] \in Targets \ {Real[Here]}
    /\ Here \in Links /\ (status # "wrong" \/ pc = "link") => fs[Here] = Absent

AInv ==
  /\ TypeOK
  /\ KindOK
  /\ ConsentOK
  /\ ReadingOK
  /\ PrefixSettled
  /\ RestUntouched
==============================================================================
