---------------------------- MODULE Redirections ----------------------------
(***************************************************************************)
(* Redirections of the shell (box/shell/ash.c, "redir.c"): how the         *)
(* descriptors a redirection takes away are moved to high numbers, listed  *)
(* in redirlist and moved back.                                            *)
(*                                                                         *)
(* The state that redirect and popredir share is the record io: the open   *)
(* descriptors of the process, redirlist and g_nullredirs.  The operators  *)
(* compute the new io.  RedirNesting drives them the way nested commands   *)
(* and `exec' do, ShellEval the way the evaluation of a script does.       *)
(* External: the descriptor table of the kernel.                           *)
(***************************************************************************)
EXTENDS Integers, Sequences

CONSTANTS
    FirstSaved,   \* 10 in the code: redirections name lower descriptors only
    MaxOpen,      \* the descriptors a process may have
    Files,        \* what may be opened
    FirstOpen,    \* descriptors open in the beginning
    Redirs,       \* lists of redirections that commands may have
    Closed        \* a descriptor that is not open

UserFds == 0..(FirstSaved - 1)
Fds == 0..(MaxOpen - 1)

EMPTY == -2    \* redirtab: this descriptor was not touched
CLOSED == -3   \* redirtab: this descriptor was not open before

\* A redirection opens a file (open fails for the file Closed) or duplicates a
\* descriptor (`from' is -1 for `>&-').
Redirection == [op : {"open"}, fd : UserFds, file : Files \cup {Closed}]
               \cup [op : {"dup"}, fd : UserFds, from : UserFds \cup {-1}]

ASSUME RedirectionsAssumption ==
    /\ FirstSaved \in Nat /\ MaxOpen \in Nat /\ FirstSaved < MaxOpen
    /\ Closed \notin Files
    /\ FirstOpen \subseteq UserFds /\ (FirstOpen # {} => Files # {})
    /\ Redirs \subseteq Seq(Redirection)

-----------------------------------------------------------------------------
(* Descriptors.                                                            *)

\* The lowest closed descriptor from a number on, or -1.
Lowest(fds, from) ==
    LET free == {d \in Fds : d >= from /\ fds[d] = Closed}
    IN  IF free = {} THEN -1 ELSE CHOOSE d \in free : \A e \in free : d <= e

\* What copyfd returns: -1 for a closed descriptor, EMPTY if there is none left.
CopyFd(fds, from, to) ==
    IF fds[from] = Closed THEN -1
    ELSE IF Lowest(fds, to) = -1 THEN EMPTY ELSE Lowest(fds, to)

\* What copyfd does.
Copied(fds, from, to) ==
    LET d == CopyFd(fds, from, to)
    IN  IF d >= 0 THEN [fds EXCEPT ![d] = fds[from]] ELSE fds

\* dupredirect.
DupRedirect(fds, r, new) ==
    IF r.op = "dup"
    THEN IF r.from >= 0 THEN Copied(fds, r.from, r.fd) ELSE fds
    ELSE [Copied(fds, new, r.fd) EXCEPT ![new] = Closed]

-----------------------------------------------------------------------------
(* redirect.                                                               *)

\* Where redirect moves a descriptor to.
SavedAt(fds, fd) == CopyFd(fds, fd, FirstSaved)

\* A descriptor is saved the first time a list that is to be undone names it.
Saves(step, fd) == step.push /\ step.renamed[fd] = EMPTY

\* One redirection of a list.  step is what the earlier ones have left.
Apply(step, r) ==
    LET new == IF r.op = "open" THEN Lowest(step.fds, 0) ELSE -1
        fails == r.op = "open" /\ (r.file = Closed \/ new = -1)
        opened == IF r.op = "open" THEN [step.fds EXCEPT ![new] = r.file] ELSE step.fds
        save == Saves(step, r.fd)
        at == SavedAt(opened, r.fd)
        moved == IF save /\ at >= 0 THEN [opened EXCEPT ![at] = opened[r.fd]] ELSE opened
        freed == IF save /\ at = -1 THEN moved ELSE [moved EXCEPT ![r.fd] = Closed]
    IN  IF step.error \/ (r.op = "dup" /\ r.from = r.fd) THEN step
        ELSE IF fails THEN [step EXCEPT !.error = TRUE]
        ELSE IF new = r.fd
        THEN [step EXCEPT !.fds = opened,
                          !.renamed[r.fd] = IF save THEN CLOSED ELSE @]
        ELSE [step EXCEPT !.fds = DupRedirect(freed, r, new),
                          !.renamed[r.fd] = IF save /\ at # -1 THEN at ELSE @]

\* All of them, up to the first that fails.
ApplyAll(io, list, push) ==
    LET step[n \in 0..Len(list)] ==
            IF n = 0 THEN [fds |-> io.fds, renamed |-> [d \in UserFds |-> EMPTY],
                           push |-> push, error |-> FALSE]
            ELSE Apply(step[n - 1], list[n])
    IN  step[Len(list)]

RedirectFails(io, list) == ApplyAll(io, list, TRUE).error

\* redirect, with REDIR_PUSH or without.
Redirect(io, list, push) ==
    LET done == ApplyAll(io, list, push)
    IN  IF list # <<>> /\ push
        THEN [fds |-> done.fds,
              redirlist |-> <<[renamed |-> done.renamed, nullredirs |-> io.nullredirs]>>
                            \o io.redirlist,
              nullredirs |-> 0]
        ELSE [io EXCEPT !.fds = done.fds, !.nullredirs = @ + 1]

-----------------------------------------------------------------------------
(* popredir.                                                               *)

\* Mutant: popredir keeps the saved copies open when they are dropped.
RestoreAndKeep(fds, d, at, drop) ==
    IF drop THEN fds
    ELSE [Copied([fds EXCEPT ![d] = Closed], at, d) EXCEPT ![at] = Closed]

\* A saved descriptor is moved back, or dropped.
Restore(fds, d, at, drop) ==
    [IF drop THEN fds ELSE Copied([fds EXCEPT ![d] = Closed], at, d)
        EXCEPT ![at] = Closed]

\* What popredir does for descriptor d.
Undo(fds, d, at, drop) ==
    IF at = CLOSED THEN IF drop THEN fds ELSE [fds EXCEPT ![d] = Closed]
    ELSE IF at = EMPTY THEN fds
    ELSE Restore(fds, d, at, drop)

\* The count of empty redirections redirect has put away.
NullRedirs(tab) == tab.nullredirs

\* What it does for all of them, one after the other.
UndoAll(fds, renamed, drop) ==
    LET undone[n \in 0..FirstSaved] ==
            IF n = 0 THEN fds ELSE Undo(undone[n - 1], n - 1, renamed[n - 1], drop)
    IN  undone[FirstSaved]

PopRedir(io, drop) ==
    IF io.nullredirs > 0 \/ io.redirlist = <<>>
    THEN [io EXCEPT !.nullredirs = @ - 1]
    ELSE LET tab == Head(io.redirlist)
         IN  [fds |-> UndoAll(io.fds, tab.renamed, drop),
              redirlist |-> Tail(io.redirlist),
              nullredirs |-> NullRedirs(tab)]

\* Mutant: clearredir undoes only the last redirection.
ClearNewest(io) == [PopRedir(io, FALSE) EXCEPT !.nullredirs = 0]

\* clearredir: undo everything.
ClearRedir(io) ==
    LET cleared[n \in 0..Len(io.redirlist)] ==
            IF n = 0 THEN io ELSE PopRedir([cleared[n - 1] EXCEPT !.nullredirs = 0], FALSE)
    IN  [cleared[Len(io.redirlist)] EXCEPT !.nullredirs = 0]

NewIo == [fds |-> [d \in Fds |-> IF d \in FirstOpen THEN CHOOSE f \in Files : TRUE ELSE Closed],
          redirlist |-> <<>>,
          nullredirs |-> 0]

\* The descriptors a list redirects; `1>&1' does nothing.
Named(list) == {list[i].fd : i \in {j \in DOMAIN list :
                                       list[j].op = "dup" => list[j].from # list[j].fd}}
=============================================================================
