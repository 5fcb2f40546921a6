----------------------------- MODULE MCShellEval -----------------------------
(* Small instances of ShellEval for TLC. *)
EXTENDS ShellEval

CONSTANT Target   \* the file redirections open

NoRedirection == {<<>>}

\* No redirection, one that succeeds and one that fails.
OneFd == {<<>>,
          <<[op |-> "open", fd |-> 0, file |-> Target]>>,
          <<[op |-> "open", fd |-> 0, file |-> Closed]>>}
=============================================================================
