-------------------------------- MODULE PkgsInv --------------------------------
(* The inductive invariants of Pkgs.                                          *)
EXTENDS Pkgs, ConditionsInv

\* A command is at a question of a walk, or between two walks; what is being
\* evaluated is a part of the package it is at.
PlaceOK ==
  /\ user \in Configs
  /\ pkg \in Nat \ {0} /\ stage \in Nat \ {0} /\ asking \in {1, 2}
  /\ phase \in {"load", "run", "done"}
  /\ phase = "load" => /\ stage = 1 /\ pkg = 1 /\ asking = 1 /\ part = "start"
                       /\ reports = {} /\ visible = {}
                       /\ outcome = "none"
  /\ phase = "run" => verdict = "accepted" /\ outcome = "none"
  /\ outcome = "ok" => verdict = "accepted" /\ stage > Len(Walks)
  /\ events = 0 => steady
  /\ InWalk => asking <= Len(Questions)
  /\ ~InWalk /\ phase = "run" => asking = 1 /\ part = "start"

\* What is being evaluated, and what that it is evaluated says.
PartOK ==
  phase = "run" =>
    /\ part \in {"start", "when", "detect"}
    /\ part # "start" => ~Dismissed
    /\ part = "when" => Pkg.when # None /\ asked = Pkg.when /\ inputs = {}
    /\ part = "detect" =>
         /\ Pkg.detect # None /\ asked = Pkg.detect /\ inputs = Pkg.inputs
         /\ Pkg.enable # "disabled" /\ Question # "relevant"
         /\ events = 0 => Relevant(pkg)

\* The first w walks are over, or the last of them has left p behind.
Past(p, w) == stage > w \/ (stage = w /\ p < pkg)

\* What was reported so far is what there is to report of the packages that the
\* command has been at, on a host that stands still (config/mod.rs:343).
ReportsOK ==
  events = 0 /\ (phase = "run" \/ outcome = "ok") =>
    IF command.name = "pkg"
    THEN /\ \A p \in 1..Len(user.pkgs) : Installed(p) /\ Past(p, 1) => p \in visible
         /\ reports = {<<p, "installed">> : p \in
              {q \in 1..Len(user.pkgs) :
                 Installed(q) /\ (Past(q, 2) \/ (stage = 2 /\ q = pkg /\ asking = 2))}}
    ELSE /\ reports = {<<p, IF Detected(p) THEN "matches" ELSE "missing">> : p \in
              {q \in 1..Len(user.pkgs) : Expected(q) /\ Past(q, 1)}}
         /\ stage = 1 /\ asking = 2 /\ Expected(pkg) => Detected(pkg)

\* The paths that were given for the shell, ssh and git before this walk.
Given(T) ==
  IF stage > Len(Walks) \/ Stage = "configs" THEN Generated(T)
  ELSE CASE user.shell = "zsh" /\ Stage = "login" -> <<".zshenv">>
         [] user.shell = "zsh" /\ Stage = "interactive" ->
              <<".zshenv">> \o (IF HookedIn(T, "login") THEN <<".zprofile">> ELSE <<>>)
         [] OTHER -> <<>>

\* How many packages have given their paths.
Configured ==
  IF stage > Len(Walks) THEN Len(user.pkgs)
  ELSE IF Stage = "configs" THEN pkg - 1 ELSE 0

DeclaredSoFar(S, T) ==
  Owned(Given(T), 0) \o FlattenSeq([p \in 1..Configured |-> Contributed(p, S)])

Entries == [path : Paths, owner : Nat]

\* What is registered so far is what the packages of S declare up to here, and
\* the walk for the login shell has collected those of T with an action for it
\* (config/mod.rs:284).
FilesFrom(S, T) ==
  /\ Unconditional \subseteq S \cap T
  /\ events = 0 => S = InstalledPkgs /\ T = InstalledPkgs
  /\ files \in Seq(Entries)
  /\ pkg <= Len(user.pkgs) + 1
  /\ stage <= Len(Walks) /\ Stage = "login" =>
       taken = {p \in T : /\ p < pkg
                          /\ user.pkgs[p].hook # None /\ user.pkgs[p].hook.stage = "login"}
  /\ Tabulates(files, DeclaredSoFar(S, T))

FilesOK ==
  command.name # "pkg" =>
    /\ phase = "load" => files = <<>> /\ taken = {}
    /\ phase = "run" \/ outcome = "ok" => \E S, T \in SUBSET Enabled : FilesFrom(S, T)

PInv == PlaceOK /\ PartOK /\ ReportsOK /\ FilesOK
================================================================================
