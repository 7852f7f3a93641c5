------------------------------ MODULE MCLayout ------------------------------
(* Instances of Layout for TLC: a home directory, documents and requests.  *)
EXTENDS LayoutInv

\* Two directories below ~/.config, one with a subdirectory, a directory with a
\* checkout of its own, a single dotfile, a file where a directory should be.
Files ==
  << <<".config", "a", "f">>, <<".config", "a", "s", "g">>, <<".config", "b", "f">>,
     <<".config", "c">>, <<".d", ".git", "h">>, <<".d", "k">>, <<".x">> >>

NoDot == [n \in {".d", ".x"} |-> IF n = ".d" THEN "d" ELSE "x"]

ConfigEntry(name, source, symlinks) ==
  [type |-> ".config", name |-> name, dir |-> <<>>, source |-> source, symlinks |-> symlinks]
HomeEntry(dir, source, symlinks) ==
  [type |-> "home", name |-> "", dir |-> dir, source |-> source, symlinks |-> symlinks]

Absent == [form |-> "absent", hint |-> FALSE, configs |-> "none", entries |-> <<>>]
BlockWith(form, configs, entries) ==
  [form |-> form, hint |-> TRUE, configs |-> configs, entries |-> entries]
Tables(entries) == BlockWith("table", "tables", entries)
Doc(form, blocks) ==
  [form |-> form, pkg |-> [k \in Keys |-> IF k \in DOMAIN blocks THEN blocks[k] ELSE Absent]]
On(keys, block) == [k \in keys |-> block]

OfA == ConfigEntry("", <<"configs", "a">>, << <<"f">> >>)

Empty == Doc("table", <<>>)
Seeded == Doc("table", On({"a"}, BlockWith("table", "none", <<>>)))
WithA == Doc("table", On({"a"}, Tables(<<OfA>>)))
\* b manages ~/.config/a under its name, after an entry without a root.
Renamed ==
  Doc("table", On({"b"}, Tables(<< HomeEntry(<<>>, <<"configs", "b">>, << <<".x">> >>),
                                   ConfigEntry("a", <<"configs", ".", "a">>, << <<"f">> >>) >>)))
\* An entry below the root of another.
Nested ==
  Doc("table", [k \in {"a", "b"} |->
    Tables(<< IF k = "a" THEN OfA ELSE HomeEntry(<<".config", "a", "s">>, <<"configs", "s">>, <<>>) >>)])
Twice ==
  Doc("table", [k \in {"a", "b"} |->
    Tables(<< IF k = "a" THEN OfA ELSE ConfigEntry("a", <<"configs", "b">>, << <<"f">> >>) >>)])
InlineConfigs == Doc("table", On({"a"}, BlockWith("table", "array", <<OfA>>)))
InlineBlock == Doc("table", On({"a"}, BlockWith("inline", "array", <<OfA>>)))
InlineTable == Doc("inline", On({"a"}, BlockWith("inline", "array", <<OfA>>)))

AllDocs == {Empty, Seeded, WithA, Renamed, Nested, Twice, InlineConfigs, InlineBlock, InlineTable}
LateDocs == {Empty, InlineConfigs}

Request(path, pkg, source, brew, noHint, mode) ==
  [path |-> path, pkg |-> pkg, source |-> source, brew |-> brew, noHint |-> noHint, mode |-> mode]

Roots == {<<".config">>, <<".config", "a">>, <<".config", "b">>, <<".config", "a", "s">>, <<".d">>,
          <<".config", "zenops">>}
NoSource == <<"default">>

AllRequests ==
  {Request(path, pkg, NoSource, brew, FALSE, "yes") :
     path \in Roots \cup ToSet(Files), pkg \in {"", "b"}, brew \in {"none", "some"}} \cup
  {Request(path, "", NoSource, "none", TRUE, mode) :
     path \in {<<".config", "a">>, <<".config", "b">>, <<".x">>}, mode \in {"yes", "dry", "pipe"}} \cup
  {Request(path, "", source, "some", FALSE, "terminal") :
     path \in {<<".config", "a">>, <<".x">>},
     source \in {NoSource, <<"configs", ".", "b">>, <<"..", "b">>}} \cup
  {Request(path, "", NoSource, "none", FALSE, "terminal") :
     path \in {<<".config", "a">>, <<".config", "a", "s", "g">>, <<".config", "b", "f">>, <<".d">>}} \cup
  {Request(<<".d">>, "/", NoSource, "empty", FALSE, "yes")}
=============================================================================
