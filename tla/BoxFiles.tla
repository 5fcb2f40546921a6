------------------------------ MODULE BoxFiles ------------------------------
(***************************************************************************)
(* cp, mv, rm, rmdir and mkdir, one system call after the other.  Any call *)
(* may fail and the process may be killed before any call: the state `s'   *)
(* counts the calls it has made, s.fault is the number of the one that     *)
(* fails and s.kill the number of the one that is never made.              *)
(***************************************************************************)
EXTENDS BoxNumbers

-----------------------------------------------------------------------------
(* The file system: a function from paths to files.                        *)

Parent(p)     == Front(p)
Exists(fs, p) == p \in DOMAIN fs
Under(p, q)   == IsPrefix(q, p)
Children(fs, p) == {q \in DOMAIN fs : Len(q) = Len(p) + 1 /\ Under(q, p)}
Isdir(fs, p)  == Exists(fs, p) /\ fs[p].type = "d"

\* The path behind the links, <<>> when there are too many of them.
RECURSIVE Canon(_, _, _)
Canon(fs, p, fuel) ==
    IF fuel = 0 \/ p = <<>> THEN <<>>
    ELSE LET real == Canon(fs, Parent(p), fuel - 1) \o <<Last(p)>>
         IN  IF Exists(fs, real) /\ fs[real].type = "l" THEN Canon(fs, fs[real].to, fuel - 1) ELSE real
Followed(fs, p) == Canon(fs, p, 6)
Named(fs, p)    == IF Len(p) = 1 THEN p ELSE Append(Followed(fs, Parent(p)), Last(p))

\* Why a name cannot be looked up: its directory is missing or is a file.
PathError(fs, p) ==
    IF Len(p) = 1 \/ Isdir(fs, Parent(p)) THEN "ok" ELSE IF Exists(fs, Parent(p)) THEN "ENOTDIR" ELSE "ENOENT"
Lookup(fs, p) == IF PathError(fs, p) # "ok" THEN PathError(fs, p) ELSE IF Exists(fs, p) THEN "ok" ELSE "ENOENT"

\* One system call: the error it would meet and what it makes of the files.
Call(s, err, fs) ==
    IF s.dead \/ s.n = s.kill THEN [s EXCEPT !.dead = TRUE, !.errno = "EIO"]
    ELSE IF s.n = s.fault \/ err # "ok" THEN [s EXCEPT !.n = @ + 1, !.errno = IF s.n = s.fault THEN "EIO" ELSE err]
    ELSE [s EXCEPT !.n = @ + 1, !.errno = "ok", !.fs = fs]
Ok(s) == s.errno = "ok"

Without(fs, p) == [q \in DOMAIN fs \ {p} |-> fs[q]]
With(fs, p, node) == (p :> node) @@ fs

\* Paths are resolved as far as the call follows them.
stat(s, p)   == Call(s, Lookup(s.fs, Followed(s.fs, p)), s.fs)
lstat(s, p)  == Call(s, Lookup(s.fs, Named(s.fs, p)), s.fs)
Look(s, p)   == Call(s, "ok", s.fs)
Unlink(s, p) ==
    LET q == Named(s.fs, p)
    IN  Call(s, IF Lookup(s.fs, q) # "ok" THEN Lookup(s.fs, q) ELSE IF Isdir(s.fs, q) THEN "EISDIR" ELSE "ok", Without(s.fs, q))
Rmdir(s, p) ==
    LET q == Named(s.fs, p)
    IN  Call(s, CASE Lookup(s.fs, q) # "ok" -> Lookup(s.fs, q)
                  [] Lookup(s.fs, q) = "ok" /\ ~Isdir(s.fs, q) -> "ENOTDIR"
                  [] Isdir(s.fs, q) -> IF Children(s.fs, q) = {} THEN "ok" ELSE "ENOTEMPTY", Without(s.fs, q))
Create(s, p, node) ==
    LET q == Named(s.fs, p)
    IN  Call(s, IF PathError(s.fs, q) # "ok" THEN PathError(s.fs, q) ELSE IF Exists(s.fs, q) THEN "EEXIST" ELSE "ok", With(s.fs, q, node))
Truncate(s, p) ==
    LET q == Followed(s.fs, p)
    IN  Call(s, IF Isdir(s.fs, q) THEN "EISDIR" ELSE PathError(s.fs, q), With(s.fs, q, [type |-> "f", data |-> <<>>]))
Write(s, p, block) ==
    LET q == Followed(s.fs, p) IN Call(s, "ok", [s.fs EXCEPT ![q].data = Append(@, block)])
Open(s, p) == Call(s, Lookup(s.fs, Followed(s.fs, p)), s.fs)

\* rename() stays within a device, which the first name of a path tells.
Moved(fs, a, b) ==
    LET stay == {q \in DOMAIN fs : ~Under(q, a) /\ q # b}
    IN  [q \in stay \cup {b \o SubSeq(r, Len(a) + 1, Len(r)) : r \in {r \in DOMAIN fs : Under(r, a)}} |->
            IF q \in stay THEN fs[q] ELSE fs[a \o SubSeq(q, Len(b) + 1, Len(q))]]
RenameError(fs, a, b) ==
    CASE Lookup(fs, a) # "ok" -> Lookup(fs, a)
      [] PathError(fs, b) # "ok" -> PathError(fs, b)
      [] a[1] # b[1] -> "EXDEV"
      [] Under(b, a) /\ a # b -> "EINVAL"
      [] Isdir(fs, b) /\ ~Isdir(fs, a) -> "EISDIR"
      [] Exists(fs, b) /\ ~Isdir(fs, b) /\ Isdir(fs, a) -> "ENOTDIR"
      [] Isdir(fs, b) /\ Children(fs, b) # {} /\ a # b -> "ENOTEMPTY"
      [] OTHER -> "ok"
Rename(s, p, r) ==
    LET a == Named(s.fs, p)
        b == Named(s.fs, r)
        e == IF Lookup(s.fs, a) = "ok" /\ PathError(s.fs, b) = "ok" THEN RenameError(s.fs, a, b) ELSE "ENOENT"
    IN  Call(s, e, IF e = "ok" /\ a # b THEN Moved(s.fs, a, b) ELSE s.fs)

\* mkdir(): what the umask takes away.  A mode is a set: "u" for 0300, "g" and
\* "o" for the other permissions of 0777, "s" for those above.
Mkdir(s, p, mode) == Create(s, p, [type |-> "d", mode |-> mode \ s.umask])
Chmod(s, p, mode) ==
    LET q == Followed(s.fs, p) IN Call(s, Lookup(s.fs, q), IF Exists(s.fs, q) THEN [s.fs EXCEPT ![q].mode = mode] ELSE s.fs)

-----------------------------------------------------------------------------
(* The recursion of copy_file() and remove_file() over the entries of a    *)
(* directory, and the results they give.                                   *)

RECURSIVE Descend(_, _, _, _, _)

Ret(s, n)   == [s EXCEPT !.ret = n]
Worse(s, n) == [s EXCEPT !.ret = IF n < 0 THEN n ELSE @]
Result(s)   == Ret(s, IF Ok(s) THEN 0 ELSE -1)
Checked(s)  == IF Ok(s) THEN s ELSE Ret(s, -1)
Names(fs, p) == SetToSeq({Last(q) : q \in Children(fs, p)})

-----------------------------------------------------------------------------
(* copy_file().  Flags: "p" preserve, "D" dereference, "R" recur, "i"      *)
(* interactive, "l" hard and "s" soft links.  Modes, owners and times that *)
(* are copied are left out: failing to copy them changes no result.        *)

Unlinked(s) == Ret(s, IF Ok(s) THEN 1 ELSE -1)
ask_and_unlink(s, q, flags) == IF "i" \in flags /\ ~s.yes THEN Ret(s, 0) ELSE Unlinked(Unlink(s, q))

SourcePath(fs, p, flags) == IF "D" \in flags THEN Followed(fs, p) ELSE Named(fs, p)

\* link() and symlink()
Linked(s, p, q, flags) ==
    LET r == Named(s.fs, p)
    IN  IF "s" \in flags THEN Create(s, q, [type |-> "l", to |-> p])
        ELSE IF Lookup(s.fs, r) # "ok" \/ Isdir(s.fs, r) THEN Call(s, "EPERM", s.fs) ELSE Create(s, q, s.fs[r])
LinkedAfter(s, p, q, flags) == IF s.ret <= 0 THEN s ELSE Result(Linked(s, p, q, flags))
LinkOrAsk(s, p, q, flags) == IF Ok(s) THEN Ret(s, 0) ELSE LinkedAfter(ask_and_unlink(s, q, flags), p, q, flags)
make_links(s, p, q, flags) == LinkOrAsk(Linked(s, p, q, flags), p, q, flags)

\* bb_copyfd_eof(): read and write a block at a time, up to the read that finds
\* the end.
WriteRead(s, q, block) == IF Ok(s) THEN Write(s, q, block) ELSE s
ReadEnd(s, q) == IF s.ret < 0 THEN s ELSE Result(Look(s, q))
bb_copyfd_eof(s, q, data) ==
    ReadEnd(FoldLeft(LAMBDA t, block : IF t.ret < 0 THEN t ELSE Result(WriteRead(Look(t, q), q, block)), Ret(s, 0), data), q)
CopyAndClose(s, q, data) == Checked(Look(bb_copyfd_eof(s, q, data), q))

NewFile == [type |-> "f", data |-> <<>>]
CopyMade(s, q, data) == IF Ok(s) THEN CopyAndClose(s, q, data) ELSE Ret(s, -1)
CopyAgain(s, q, data) == IF s.ret <= 0 THEN s ELSE CopyMade(Create(s, q, NewFile), q, data)
CopyTo(s, q, data, flags) ==
    IF Ok(s) THEN CopyAndClose(s, q, data) ELSE CopyAgain(ask_and_unlink(s, q, flags), q, data)
CopyOpened(s, q, data, flags, overwrite) ==
    IF ~Ok(s) THEN Ret(s, -1) ELSE CopyTo(IF overwrite THEN Truncate(s, q) ELSE Create(s, q, NewFile), q, data, flags)
CopyRegular(s, p, q, flags, exists) ==
    CopyOpened(Open(s, p), q, s.fs[SourcePath(s.fs, p, flags)].data, flags,
               exists /\ flags \cap {"R", "i"} = {} /\ s.fs[Named(s.fs, q)].type # "l")

\* Note that a link that cannot be read is left out without an error.
LinkRead(s, p, q) == IF ~Ok(s) THEN Ret(s, 0) ELSE Result(Create(s, q, s.fs[Named(s.fs, p)]))
LinkAsked(s, p, q) == IF s.ret <= 0 THEN s ELSE LinkRead(Look(s, p), p, q)
CopyLink(s, p, q, flags, exists) == LinkAsked(IF exists THEN ask_and_unlink(s, q, flags) ELSE Ret(s, 1), p, q)

\* A directory is made without the umask, and remembered so that it is not
\* copied into itself.
DirectoryMade(s, q) == IF ~Ok(s) THEN Ret(s, -1) ELSE Result(lstat(s, q))
MakeDirectory(s, q) ==
    DirectoryMade([Mkdir([s EXCEPT !.umask = {}], q, {"u", "g", "o"} \ (s.umask \ {"u"})) EXCEPT !.umask = s.umask], q)
ChangeMode(s, q, exists) == IF exists THEN s ELSE Look(s, q)
CopyNames(s, p, q, flags, exists) ==
    LET Entry(u, name) == Worse(Descend("copy", u, Append(p, name), Append(q, name), flags), u.ret)
    IN  IF ~Ok(s) THEN Ret(s, -1)
        ELSE ChangeMode(FoldLeft(Entry, Ret(s, 0), Names(s.fs, SourcePath(s.fs, p, flags))), q, exists)
CopyInto(s, p, q, flags, exists) ==
    IF s.ret < 0 THEN s ELSE CopyNames(Look([s EXCEPT !.made = @ \cup {Named(s.fs, q)}], p), p, q, flags, exists)
CopyDirectory(s, p, q, flags, exists) ==
    IF \/ "R" \notin flags
       \/ SourcePath(s.fs, p, flags) \in s.made
       \/ exists /\ ~Isdir(s.fs, Named(s.fs, q))
    THEN Ret(s, -1)
    ELSE CopyInto(IF exists THEN Ret(s, 0) ELSE MakeDirectory(s, q), p, q, flags, exists)

SameFile(s, p, q, flags) == SourcePath(s.fs, p, flags) = Named(s.fs, q)
CopyByType(s, p, q, flags, exists) ==
    LET type == s.fs[SourcePath(s.fs, p, flags)].type
    IN  CASE type = "d" -> CopyDirectory(s, p, q, flags, exists)
          [] type # "d" /\ flags \cap {"l", "s"} # {} -> make_links(s, p, q, flags)
          [] type = "f" /\ flags \cap {"l", "s"} = {} -> CopyRegular(s, p, q, flags, exists)
          [] type = "l" /\ flags \cap {"l", "s"} = {} -> CopyLink(s, p, q, flags, exists)
CopyOver(s, p, q, flags) ==
    IF \/ ~Ok(s) /\ s.errno # "ENOENT"
       \/ Ok(s) /\ SameFile(s, p, q, flags)
    THEN Ret(s, -1)
    ELSE CopyByType(s, p, q, flags, Ok(s))
CopyFound(s, p, q, flags) ==
    IF Ok(s) THEN CopyOver(lstat(s, q), p, q, flags)
    ELSE IF flags \cap {"l", "s"} # {} THEN make_links(s, p, q, flags) ELSE Ret(s, -1)
copy_file(s, p, q, flags) == CopyFound(IF "D" \in flags THEN stat(s, p) ELSE lstat(s, p), p, q, flags)

-----------------------------------------------------------------------------
(* remove_file().  Flags: "f" force, "R" recur, "i" interactive.           *)

RemoveSelf(s, p) == IF ~Ok(s) THEN Ret(s, -1) ELSE Checked(Rmdir(s, p))
RemoveNames(s, p, flags) ==
    LET Entry(u, name) == Worse(Descend("remove", u, Append(p, name), <<>>, flags), u.ret)
    IN  IF ~Ok(s) THEN Ret(s, -1) ELSE RemoveSelf(Look(FoldLeft(Entry, Ret(s, 0), Names(s.fs, Named(s.fs, p))), p), p)
RemoveFound(s, p, flags) ==
    LET dir == Isdir(s.fs, Named(s.fs, p))
    IN  CASE ~Ok(s) -> Ret(s, IF s.errno = "ENOENT" /\ "f" \in flags THEN 0 ELSE -1)
          [] Ok(s) /\ dir /\ "R" \notin flags -> Ret(s, -1)
          [] Ok(s) /\ (dir => "R" \in flags) ->
                IF "i" \in flags /\ ~s.yes THEN Ret(s, 0)
                ELSE IF dir THEN RemoveNames(Look(s, p), p, flags) ELSE Result(Unlink(s, p))
remove_file(s, p, flags) == RemoveFound(lstat(s, p), p, flags)

Descend(what, s, p, q, flags) ==
    IF what = "copy" THEN copy_file(s, p, q, flags) ELSE remove_file(s, p, flags)

-----------------------------------------------------------------------------
(* The tools.                                                              *)

\* cp_mv_stat2(): -1 for an error, 0 for no such file, 3 for a directory.
KindOf(s, p, flags) ==
    Ret(s, IF ~Ok(s) THEN (IF s.errno = "ENOENT" THEN 0 ELSE -1) ELSE IF Isdir(s.fs, SourcePath(s.fs, p, flags)) THEN 3 ELSE 1)
Kind(s, p, flags) == KindOf(IF "D" \in flags THEN stat(s, p) ELSE lstat(s, p), p, flags)
cp_mv_stat(s, p) == Kind(s, p, {"D"})

Fails(s) == [s EXCEPT !.status = 1]
Noted(s) == IF s.ret < 0 THEN Fails(s) ELSE s

\* Where a source goes to: into the last argument, or to it.
Into(dir, p) == Append(dir, Last(p))
Place(args, p, into) == IF into THEN Into(Last(args), p) ELSE Last(args)

\* 3 when the last argument is a directory to copy into.
CopyTarget(s, kind, flags) ==
    Ret(s, IF s.ret < 0 THEN -1
           ELSE IF (kind # 3 /\ s.ret # 3) \/ ("R" \in flags /\ kind = 3 /\ s.ret = 0) THEN 1 ELSE 3)
CopyTwo(s, args, flags) == IF s.ret < 0 THEN s ELSE CopyTarget(cp_mv_stat(s, args[2]), s.ret, flags)
CopyEach(s, args, flags, into) ==
    IF s.ret < 0 THEN Fails(s)
    ELSE FoldLeft(LAMBDA t, p : Noted(copy_file(t, p, Place(args, p, into), flags)), s, Front(args))
CopyAll(s, args, flags) == CopyEach(s, args, flags, s.ret = 3)
cp_main(s, args, flags) ==
    CopyAll(IF Len(args) = 2 THEN CopyTwo(Kind(s, args[1], flags), args, flags) ELSE Ret(s, 3), args, flags)

\* mv within a device is rename(); from one to another, a copy that is followed
\* by the removal of the source.
RemoveAnyway(s, a) == Noted(remove_file(s, a, {"R", "f"}))       \* a slip: a failed copy is not seen
RemoveCopied(s, a) == IF s.ret < 0 THEN Fails(s) ELSE Noted(remove_file(s, a, {"R", "f"}))
MoveCopy(s, a, b) == IF Ok(s) THEN RemoveCopied(copy_file(s, a, b, {"R", "p"}), a) ELSE Fails(s)
MoveAcross(s, a, b, exists) ==
    IF s.ret < 1 \/ (exists # 0 /\ (exists = 3) # (s.ret = 3)) THEN Fails(s)
    ELSE MoveCopy(IF exists = 0 THEN s ELSE Unlink(s, b), a, b)
Renamed(s, a, b, exists) ==
    IF Ok(s) THEN s ELSE IF s.errno # "EXDEV" THEN Fails(s) ELSE MoveAcross(cp_mv_stat(s, a), a, b, exists)
MoveOne(s, a, b, flags) ==
    CASE s.ret < 0 -> Fails(s)
      [] s.ret > 0 /\ "i" \in flags /\ ~s.yes -> s
      [] s.ret >= 0 /\ (s.ret = 0 \/ "i" \notin flags \/ s.yes) -> Renamed(Rename(s, a, b), a, b, s.ret)
MoveEach(s, args, flags, into) ==
    FoldLeft(LAMBDA t, p : MoveOne(IF into THEN cp_mv_stat(t, Place(args, p, into)) ELSE t, p, Place(args, p, into), flags), s, Front(args))
MoveAll(s, args, flags) == MoveEach(s, args, flags, s.ret = 3)
mv_main(s, args, flags) ==
    MoveAll(IF Len(args) = 2 THEN cp_mv_stat(s, args[2]) ELSE Ret(s, 3), args, flags)

rm_main(s, args, flags) ==
    LET One(t, p) ==
            IF Last(p) \in {".", ".."} THEN Fails(t)
            ELSE Noted(remove_file(t, p, flags))
    IN  FoldLeft(One, s, args)

\* rmdir -p goes on with the parents, as far as they can be removed.
NotedError(s) == IF Ok(s) THEN s ELSE Fails(s)
rmdir_main(s, args, flags) ==
    LET Up(t, p) == IF ~Ok(t) THEN t ELSE NotedError(Rmdir(t, p))
        Parents(p) == [i \in 1..Len(p) |-> SubSeq(p, 1, Len(p) - i + 1)]
        One(t, p) == FoldLeft(Up, [t EXCEPT !.errno = "ok"], IF "p" \in flags THEN Parents(p) ELSE <<p>>)
    IN  FoldLeft(One, s, args)

\* bb_make_directory().  A mode that is not given arrives as the largest mode_t,
\* which is the -1 it is compared with only when a long is no wider.
All       == {"u", "g", "o"}
NotGiven  == {"s", "u", "g", "o"}
IsMinus1(mode) == mode = NotGiven /\ IntWidth = LongWidth
NotMade(s, p, last, mask) ==
    IF ~Ok(s) \/ ~Isdir(s.fs, Followed(s.fs, p)) THEN Ret([s EXCEPT !.umask = mask], -1)
    ELSE IF last THEN Ret([s EXCEPT !.umask = mask], 0) ELSE s
MadeOne(s, p, last, mode, flags, mask) ==
    CASE Ok(s) /\ ~last -> s
      [] Ok(s) /\ last -> Result(Chmod([s EXCEPT !.umask = mask], p, IF IsMinus1(mode) THEN All \ mask ELSE mode))
      [] ~Ok(s) -> NotMade(IF s.errno # "EEXIST" \/ "R" \notin flags THEN s ELSE stat(s, p), p, last, mask)
MakeOne(s, p, last, mode, flags, mask) == MadeOne(Mkdir(s, p, All), p, last, mode, flags, mask)
bb_make_directory(s, p, mode, flags) ==
    LET mask  == s.umask
        start == Ret([s EXCEPT !.umask = IF IsMinus1(mode) THEN mask ELSE mask \ {"u"}], 0)
        One(t, i) == IF t.ret < 0 THEN t ELSE MakeOne(t, SubSeq(p, 1, i), i = Len(p), mode, flags, mask)
    IN  IF "R" \in flags THEN FoldLeft(One, start, [i \in 1..Len(p) |-> i]) ELSE One(start, Len(p))
mkdir_main(s, args, mode, flags) ==
    FoldLeft(LAMBDA t, p : Noted(bb_make_directory(t, p, mode, flags)), s, args)

-----------------------------------------------------------------------------
\* A tool run on the files, with the call that fails and the one before which
\* the process is killed (0 for none).
RunFiles(job) ==
    LET s == [fs |-> job.fs, n |-> 1, fault |-> job.fault, kill |-> job.kill, dead |-> FALSE, errno |-> "ok", ret |-> 0,
              status |-> 0, made |-> {}, umask |-> job.umask, yes |-> job.yes]
        f == job.flags
    IN  CASE job.tool = "cp"    -> cp_main(s, job.args, f)
          [] job.tool = "mv"    -> mv_main(s, job.args, f)
          [] job.tool = "rm"    -> rm_main(s, job.args, f)
          [] job.tool = "rmdir" -> rmdir_main(s, job.args, f)
          [] job.tool = "mkdir" -> mkdir_main(s, job.args, job.mode, f)

-----------------------------------------------------------------------------
(***************************************************************************)
(* What the tools may do to the files, wherever a system call fails or the *)
(* process is killed.                                                      *)
(***************************************************************************)

Below(fs, p) == {q \in DOMAIN fs : Under(q, p)}
Onto(q, a, b) == b \o SubSeq(q, Len(a) + 1, Len(q))

\* Two nodes are the same but for the attributes of a directory.
Same(m, n) == m.type = n.type /\ (m.type # "d" => m = n)
Has(fs, q, node) == q \in DOMAIN fs /\ Same(fs[q], node)

\* A node has arrived; only a link that could not be read may be missing, which
\* copy_file() does not report.
Arrived(job, q, new, r) == Has(new, r, job.fs[q]) \/ (job.fault # 0 /\ job.fs[q].type = "l")
TreeCopied(job, a, new, b) ==
    /\ \A q \in Below(job.fs, a) : Arrived(job, q, new, Onto(q, a, b))
    /\ \A q \in Below(new, b) : Onto(q, b, a) \in DOMAIN job.fs

\* The places a source goes to.
TargetName(fs, args, p) ==
    IF Len(args) = 2 /\ ~Isdir(fs, Followed(fs, Last(args))) THEN Last(args) ELSE Append(Last(args), Last(p))
Target(fs, args, p) == Named(fs, TargetName(fs, args, p))
Sources(args) == {args[i] : i \in 1..(Len(args) - 1)}
Untouched(old, new, places) ==
    \A q \in DOMAIN old \cup DOMAIN new :
        (\A p \in places : ~Under(q, p)) => (q \in DOMAIN old /\ q \in DOMAIN new /\ Same(old[q], new[q]))

\* mv: each file is, whole, where it was or where it goes to; nothing else is
\* changed; with status 0 it has gone over.
MoveKept(job, end) ==
    LET a(p) == Named(job.fs, p)
        b(p) == Target(job.fs, job.args, p)
        moved == {p \in Sources(job.args) : a(p) # b(p)}
    IN  /\ Untouched(job.fs, end.fs, {a(p) : p \in moved} \cup {b(p) : p \in moved})
        /\ \A p \in moved : \A q \in Below(job.fs, a(p)) :
              \/ Has(end.fs, q, job.fs[q])
              \/ Arrived(job, q, end.fs, Onto(q, a(p), b(p)))
        /\ end.status = 0 /\ ~end.dead /\ ~("i" \in job.flags /\ ~job.yes) =>
              \A p \in moved : ~Exists(end.fs, a(p)) /\ TreeCopied(job, a(p), end.fs, b(p))

\* cp: the sources stay as they are, nothing but the targets is changed, and with
\* status 0 a target that was not there is a copy of its source.
CopyKept(job, end) ==
    LET a(p) == SourcePath(job.fs, p, job.flags)
        b(p) == Target(job.fs, job.args, p)
    IN  /\ \A p \in Sources(job.args) : \A q \in Below(job.fs, a(p)) :
              (\A r \in Sources(job.args) : ~Under(q, b(r))) => Has(end.fs, q, job.fs[q])
        /\ Untouched(job.fs, end.fs, {b(p) : p \in Sources(job.args)})
        /\ end.status = 0 /\ ~end.dead /\ job.flags \cap {"i", "l", "s"} = {} =>
              \A p \in Sources(job.args) :
                  /\ a(p) # b(p)
                  /\ \A q \in Below(job.fs, a(p)) :
                        IF "D" \in job.flags /\ job.fs[q].type = "l"
                        THEN Exists(end.fs, Onto(q, a(p), b(p))) /\ end.fs[Onto(q, a(p), b(p))].type # "l"
                        ELSE Arrived(job, q, end.fs, Onto(q, a(p), b(p)))

\* rm and rmdir: nothing but what is named goes; with status 0 all of it.
RemoveKept(job, end) ==
    /\ Untouched(job.fs, end.fs, {Named(job.fs, p) : p \in {job.args[i] : i \in DOMAIN job.args}})
    /\ DOMAIN end.fs \subseteq DOMAIN job.fs
    /\ end.status = 0 /\ ~end.dead /\ ~("i" \in job.flags /\ ~job.yes) =>
          \A i \in DOMAIN job.args : ~Exists(end.fs, Named(job.fs, job.args[i]))
RmdirKept(job, end) ==
    /\ \A q \in DOMAIN job.fs : q \notin DOMAIN end.fs => job.fs[q].type = "d" /\ \E i \in DOMAIN job.args : Under(Named(job.fs, job.args[i]), q)
    /\ \A q \in DOMAIN end.fs : q \in DOMAIN job.fs /\ end.fs[q] = job.fs[q]
    /\ end.status = 0 /\ ~end.dead => \A i \in DOMAIN job.args : ~Exists(end.fs, Named(job.fs, job.args[i]))

\* mkdir: what there was stays; a directory that is made has the mode asked for,
\* or what the umask leaves of 0777; its parents can be entered.
MakeKept(job, end) ==
    /\ \A q \in DOMAIN job.fs : q \in DOMAIN end.fs /\ end.fs[q] = job.fs[q]
    /\ end.dead \/ end.umask = job.umask
    /\ \A q \in DOMAIN end.fs \ DOMAIN job.fs : end.fs[q].type = "d" /\ \E i \in DOMAIN job.args : Under(Followed(end.fs, job.args[i]), q)
    /\ end.status = 0 /\ ~end.dead =>
          \A i \in DOMAIN job.args :
              /\ Isdir(end.fs, Followed(end.fs, job.args[i]))
              /\ (Followed(end.fs, job.args[i]) \notin DOMAIN job.fs /\ IntWidth = LongWidth) =>
                    end.fs[Followed(end.fs, job.args[i])].mode = IF job.mode = NotGiven THEN All \ job.umask ELSE job.mode

FilesKept(job, end) ==
    CASE job.tool = "mv"    -> MoveKept(job, end)
      [] job.tool = "cp"    -> CopyKept(job, end)
      [] job.tool = "rm"    -> RemoveKept(job, end)
      [] job.tool = "rmdir" -> RmdirKept(job, end)
      [] job.tool = "mkdir" -> MakeKept(job, end)
=============================================================================
