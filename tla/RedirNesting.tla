---------------------------- MODULE RedirNesting ----------------------------
(***************************************************************************)
(* Commands with redirections inside each other (box/shell/ash.c):         *)
(* evalcommand, the NREDIR case of evaltree and `exec' as callers of       *)
(* redirect and popredir, and the reset after an error.                    *)
(***************************************************************************)
EXTENDS Redirections

CONSTANT MaxNest   \* bound: commands with redirections inside each other

ASSUME NestAssumption == MaxNest \in Nat

\* The process does not run out of descriptors: there is a high one for each
\* that the nested commands may save, and one more to open a file with.
ASSUME RoomAssumption == MaxOpen > FirstSaved + MaxNest * FirstSaved

VARIABLES
    io,
    nest,      \* for each command being executed: what it redirects, and fds before it
    failed     \* the redirections of the innermost command have failed

vars == <<io, nest, failed>>

Init == io = NewIo /\ nest = <<>> /\ failed = FALSE

\* A group, a function or a builtin with redirections, or without, is entered.
Begin(list) ==
    /\ ~failed /\ Len(nest) < MaxNest
    /\ io' = Redirect(io, list, TRUE)
    /\ failed' = RedirectFails(io, list)
    /\ nest' = <<[named |-> Named(list), fds |-> io.fds]>> \o nest

\* It is left, or was not executed as its redirections failed.
End ==
    /\ nest # <<>>
    /\ io' = PopRedir(io, FALSE)
    /\ failed' = FALSE
    /\ nest' = Tail(nest)

\* `exec' with redirections only.
Exec(list) ==
    /\ ~failed /\ ~RedirectFails(io, list)
    /\ io' = PopRedir(Redirect(io, list, TRUE), TRUE)
    /\ UNCHANGED <<nest, failed>>

\* `exec' whose redirections fail: an interactive shell is reset.
ExecFails(list) ==
    /\ ~failed /\ RedirectFails(io, list)
    /\ io' = ClearRedir(Redirect(io, list, TRUE))
    /\ nest' = <<>> /\ failed' = FALSE

\* An error ends all commands of an interactive shell.
Reset ==
    /\ nest # <<>>
    /\ io' = ClearRedir(io)
    /\ nest' = <<>> /\ failed' = FALSE

Next == (\E list \in Redirs : Begin(list) \/ Exec(list) \/ ExecFails(list)) \/ End \/ Reset

Spec == Init /\ [][Next]_vars

-----------------------------------------------------------------------------
(* Properties.                                                             *)

IsRename(at) == at \in {EMPTY, CLOSED} \cup (FirstSaved..(MaxOpen - 1))

TypeOK ==
    /\ io.fds \in [Fds -> Files \cup {Closed}]
    /\ \A i \in DOMAIN io.redirlist :
          /\ \A d \in UserFds : IsRename(io.redirlist[i].renamed[d])
          /\ io.redirlist[i].nullredirs \in Nat
    /\ io.nullredirs \in Nat
    /\ failed \in BOOLEAN

At(s) == io.redirlist[s[1]].renamed[s[2]]
Saved == {s \in (1..Len(io.redirlist)) \X UserFds : At(s) >= 0}

\* Each saved descriptor has an open high number of its own, and the high
\* numbers are used for nothing else: no redirection leaks a descriptor,
\* whether it is undone, dropped by `exec' or fails half way.
SavedOnce ==
    /\ \A s \in Saved : At(s) >= FirstSaved /\ io.fds[At(s)] # Closed
    /\ \A s, t \in Saved : At(s) = At(t) => s = t
    /\ \A d \in Fds \ UserFds : io.fds[d] # Closed => \E s \in Saved : At(s) = d

\* At the end of a command the descriptors it redirected are what they were,
\* whatever the commands inside it redirected or changed for good with `exec',
\* and the other descriptors stay as these commands left them.
\* After an error the descriptors the outermost command redirected are what they
\* were before it, and nothing is left to undo.
Restores ==
    [][/\ End => LET begin == Head(nest)
                 IN  \A d \in UserFds :
                        IF d \notin begin.named THEN io'.fds[d] = io.fds[d]
                        ELSE begin.fds[d] # Closed => io'.fds[d] = begin.fds[d]
       /\ Reset => LET begin == nest[Len(nest)]
                   IN  /\ \A d \in begin.named :
                             begin.fds[d] # Closed => io'.fds[d] = begin.fds[d]
                      /\ io'.redirlist = <<>> /\ io'.nullredirs = 0]_vars
=============================================================================
