------------------------------- MODULE Channel -------------------------------
(***************************************************************************)
(* What the Output trait promises a command (src/src/output/mod.rs): what  *)
(* it pushes reaches stdout once, at the latest when it finalizes; what    *)
(* was never pushed is never written; a renderer that is closed or dropped *)
(* writes no more.  A renderer may hold back what it pleases until then.   *)
(***************************************************************************)
VARIABLES
  sent,  \* the pieces that the events pushed so far call for
  told,  \* those of them that are on stdout
  state  \* "open", "closed" by finalize, or "dropped" by an exit

vars == <<sent, told, state>>

Init == sent = {} /\ told = {} /\ state = "open"

\* An event is pushed, or text is written past the channel.
Push ==
  /\ state = "open" /\ state' = "open"
  /\ sent \subseteq sent'
  /\ told \subseteq told' /\ told' \subseteq sent'

Close ==
  /\ state = "open" /\ state' = "closed"
  /\ sent' = sent
  /\ told' = sent

\* The command fails, or stdout does under a push: what was held is lost.
Drop ==
  /\ state = "open" /\ state' = "dropped"
  /\ sent \subseteq sent'
  /\ told \subseteq told' /\ told' \subseteq sent'

Next == Push \/ Close \/ Drop

Spec == Init /\ [][Next]_vars
==============================================================================
