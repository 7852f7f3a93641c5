------------------------------ MODULE MCOutput ------------------------------
(* Instances of Output for TLC: the commands, and the plans of an import.  *)
EXTENDS OutputInv

Command(names, json, diffs, all, modes, dirtyOk, thenApply) ==
  [name : names, json : json, diffs : diffs, all : all, mode : modes,
   dirtyOk : dirtyOk, thenApply : thenApply]

No == {FALSE}

AllCommands ==
  Command({"status"}, BOOLEAN, BOOLEAN, BOOLEAN, {"yes"}, No, No) \cup
  Command({"apply"}, BOOLEAN, No, No, Modes, BOOLEAN, No) \cup
  Command({"pkg", "doctor", "direct"}, BOOLEAN, No, No, {"yes"}, No, No) \cup
  Command({"clone", "bootstrap"}, BOOLEAN, No, No, {"terminal", "yes"}, No, BOOLEAN) \cup
  Command({"import"}, BOOLEAN, No, No, Modes, No, No)

\* A file with its directory; two files, one of them in a subdirectory; a
\* rename that leaves a directory empty, and a removal that leaves two.
Plans ==
  { <<Act("created_dir", 0), Act("created_file", 1), Act("unlinked", 1), Act("created_symlink", 1)>>,
    <<Act("created_file", 1), Act("subdir", 2), Act("created_file", 2),
      Act("unlinked", 1), Act("created_symlink", 1), Act("unlinked", 2), Act("created_symlink", 2)>>,
    <<Act("renamed_file", 1), Act("unlinked", 1), Act("created_symlink", 1), Act("removed_dir", 1),
      Act("removed_file", 2), Act("removed_dir", 2), Act("removed_dir", 3)>> }
=============================================================================
