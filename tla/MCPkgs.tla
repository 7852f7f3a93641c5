-------------------------------- MODULE MCPkgs --------------------------------
(* An instance of Pkgs for TLC: a few expressions, and configs over them.   *)
EXTENDS PkgsInv

\* Expressions: `of` are children, `to` a name, `leaf` a probe and its variable.
N(kind, of, to, var, probe, holds) ==
  [kind |-> kind, args |-> of, to |-> to, var |-> var, probe |-> probe, holds |-> holds]

MCNode == <<
  N("host", <<>>, None, None, None, TRUE),           \* 1  os = "linux"
  N("file", <<>>, None, None, "file", FALSE),        \* 2  file_exists = "/file"
  N("ref", <<>>, "a", None, None, FALSE),            \* 3  "a"
  N("ref", <<>>, "b", None, None, FALSE),            \* 4  "b"
  N("ref", <<>>, "c", None, None, FALSE),            \* 5  "c"
  N("not", <<3>>, None, None, None, FALSE),          \* 6  not a
  N("all", <<2, 4>>, None, None, None, FALSE),       \* 7  file and b
  N("any", <<5, 6>>, None, None, None, FALSE),       \* 8  c or not a
  N("exists", <<>>, None, "brew", "file", FALSE),    \* 9  exists ${brew_prefix}/file
  N("which", <<>>, None, "own", "bin", FALSE),       \* 10 which ${own}
  N("when", <<3, 10>>, None, None, None, FALSE),     \* 11 if a then which ${own}
  N("any", <<11, 9>>, None, None, None, FALSE),      \* 12
  N("all", <<9, 10>>, None, None, None, FALSE),      \* 13
  N("host", <<>>, None, None, None, FALSE) >>        \* 14 os = "macos"
MCExprs == 1..14

MCNames == {"a", "b", "c"}
\* Of the keys that there are, the built-in one is the first.
MCOrders == {SelectSeq(<<"c", "a", "b">>, LAMBDA n : n \in S) : S \in SUBSET MCNames}
MCVars == {"brew", "own"}
MCProbes == {"file", "bin", "prefix"}

\* One built-in condition, of kind "os".
MCBuiltins == [n \in {"c"} |-> [k \in {"os"} |-> 1]]

MCCommands ==
  {[name |-> "apply", all |-> FALSE, verbose |-> FALSE],
   [name |-> "pkg", all |-> FALSE, verbose |-> TRUE],
   [name |-> "pkg", all |-> TRUE, verbose |-> FALSE]}

-----------------------------------------------------------------------------
P(enable, when, detect, own, hook, paths, unplaced) ==
  [enable |-> enable, when |-> when, detect |-> detect,
   inputs |-> own, hook |-> hook, paths |-> paths, unplaced |-> unplaced]

Hook(s, var, optional) == [stage |-> s, var |-> var, optional |-> optional]

Config(conds, pkgs, shell, ssh, git) ==
  [conds |-> conds, pkgs |-> pkgs, shell |-> shell, ssh |-> ssh, git |-> git]

Key(e) == IF MCNode[e].kind = "host" THEN "os" ELSE MCNode[e].kind
Table(f) == [n \in DOMAIN f |-> [k \in {Key(f[n])} |-> f[n]]]

\* Every registry over the conditions of the pool, with one package.  The
\* user's "c" takes the place of the built-in one, of its kind or another.
Plain == P("on", 3, None, {}, None, <<"x">>, FALSE)
Overrides == {<<>>, [n \in {"c"} |-> 14], [n \in {"c"} |-> 2]}
Registries ==
  {Config(Table(f @@ c), <<Plain>>, "none", "none", FALSE) :
     f \in UNION {[S -> {1, 6, 7, 8}] : S \in SUBSET {"a", "b"}}, c \in Overrides}

\* Packages that share paths with each other and with the shell, are gated and
\* detected by the same conditions, and have actions in the shell's files.
First == {P("on", s[1], s[2], {"own"}, Hook("login", None, FALSE), <<"x", "y">>, FALSE) :
            s \in {<<None, None>>, <<8, None>>, <<None, 12>>, <<8, 13>>}}
\* The key of the last one is no path component.
Second == {P(s[1], 4, s[2], s[3], Hook("env", "own", s[4]), <<"y", ".zshrc">>, s[5]) :
             s \in {<<"detect", 9, {}, FALSE, FALSE>>, <<"detect", 9, {}, TRUE, FALSE>>,
                    <<"detect", 11, {}, FALSE, FALSE>>, <<"detect", 11, {"own"}, FALSE, FALSE>>,
                    <<"disabled", 11, {"own"}, FALSE, FALSE>>, <<"detect", 9, {}, TRUE, TRUE>>}}
BothKnown == Table([n \in {"a", "b"} |-> IF n = "a" THEN 7 ELSE 2])
Packages ==
  {Config(BothKnown, <<p, q>>, IF zsh THEN "zsh" ELSE "bash", IF zsh THEN "github" ELSE "none", TRUE) :
     p \in First, q \in Second, zsh \in BOOLEAN}

MCPaths ==
  {"x", "y", ".zenops_bash_profile", ".zshenv", ".zprofile", ".zshrc",
   ".ssh/allowed_signers", ".gitconfig"}

MCConfigs == Registries \cup Packages
==============================================================================
