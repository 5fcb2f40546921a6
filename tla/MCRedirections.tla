--------------------------- MODULE MCRedirections ---------------------------
(* Small instances of RedirNesting for TLC. *)
EXTENDS RedirNesting

CONSTANT Target   \* the file redirections open

Some == {r \in Redirection : r.op = "open" => r.file \in {Target, Closed}}
UpToOne == {<<>>} \cup {<<r>> : r \in Some}

\* What follows a redirection that fails is not looked at.
Fails(r) == r.op = "open" /\ r.file = Closed
ToItself(r) == r.op = "dup" /\ r.from = r.fd
UpToTwo == UpToOne \cup {<<r, s>> : r \in {q \in Some : ~Fails(q) /\ ~ToItself(q)},
                                   s \in {q \in Some : ~ToItself(q)}}
=============================================================================
