---------------------------- MODULE MCShellNames ----------------------------
(* A small instance of ShellNames for TLC. *)
EXTENDS ShellNames

SomeValues == {<<"1">>, <<"2">>}

\* Directories, the current one, and the two options of a path.
SomePaths == {<<"/a", "/b">>, <<".", "/b">>, <<"/b", "%builtin", "/a">>, <<"/f%func", ".", "/a">>}

\* "cc" is a file in two places, "type" a builtin and a file, "lib" a file and a
\* function of a %func directory.
AllCommands == {"cc", "type", "lib"}
AllFiles == [d \in {"/a", "/b", "/c", "/f"} |-> [c \in AllCommands |->
    CASE d = "/a" /\ c = "cc"   -> "file"
      [] d = "/b" /\ c = "cc"   -> "file"
      [] d = "/c" /\ c = "cc"   -> "directory"
      [] d = "/b" /\ c = "type" -> "file"
      [] d = "/b" /\ c = "lib"  -> "file"
      [] d = "/f" /\ c = "lib"  -> "functions"
      [] OTHER -> "none"]]
AllBuiltins == [c \in AllCommands |-> IF c = "type" THEN "plain" ELSE "no"]

\* -ab value and an option word behind the end; -bv -x operand.
SomeArgs == {<<<<"-", "a", "b">>, <<"v">>, <<"-", "-">>, <<"-", "a">>>>,
             <<<<"-", "b", "v">>, <<"-", "x">>, <<"o">>>>}
NoArgs == {<<>>}
AllArgs == [variables |-> NoArgs, flags |-> NoArgs, options |-> SomeArgs, commands |-> NoArgs,
            paths |-> NoArgs]
AB == <<":", "a", "b", ":">>

\* One group at a time keeps the instance small.
AllGroups == [variables |-> {"assign", "export", "unset", "local", "call", "callwith"},
              flags     |-> {"assign", "export", "unset", "set", "dot", "local"},
              options   |-> {"getopts", "params", "call", "assign"},
              commands  |-> {"run", "hash", "defun", "cd", "assign"},
              paths     |-> {"run", "assign", "local", "call"}]
AllUses == [variables |-> {"x"}, flags |-> {"x"}, options |-> {"OPTIND"}, commands |-> {"PATH"},
            paths |-> {"PATH"}]
AllDepths == [variables |-> 2, flags |-> 2, options |-> 1, commands |-> 0, paths |-> 2]
=============================================================================
