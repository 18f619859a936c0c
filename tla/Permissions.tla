------------------------------ MODULE Permissions ------------------------------
(***************************************************************************)
(* FileService.checkPerm (internal/service/file_service.go) over the rows  *)
(* of repository/permission.go, which the administrator changes meanwhile. *)
(* A path is the sequence of its names.  The rows of one user are read in  *)
(* the order SQLite has them in, with no ORDER BY (here the order they     *)
(* were granted in, which may be any): the loop must find the longest that *)
(* covers the file, wherever it stands.                                    *)
(***************************************************************************)
EXTENDS Maps

CONSTANTS GrantPaths,  \* the paths administrators name
          FilePaths    \* the paths of files of other users

ASSUME PathsAssumption == GrantPaths \cup FilePaths \subseteq Seq(STRING)

VARIABLES perms,       \* the rows of one user, in order
          asked        \* ghost: the last question and its answer

permVars == <<perms, asked>>

\* The column takes any text; one that is none of the three grants nothing.
Perms    == {"read", "write", "admin", "other"}
Requires == {"read", "write"}
NotAsked == [path |-> <<>>, require |-> "read", answer |-> FALSE]

PermInit == perms = <<>> /\ asked = NotAsked

\* INSERT ... ON CONFLICT(user_id, file_path) DO UPDATE: a row keeps its place.
PermCreate(path, perm) ==
    /\ perms' = IF \E i \in 1..Len(perms) : perms[i].path = path
                  THEN [i \in 1..Len(perms) |->
                           IF perms[i].path = path THEN [perms[i] EXCEPT !.perm = perm]
                                                   ELSE perms[i]]
                  ELSE Append(perms, [path |-> path, perm |-> perm])
    /\ UNCHANGED asked

\* A row is deleted by its id; UNIQUE(user_id, file_path): one path, one row.
PermDelete(path) ==
    /\ \E i \in 1..Len(perms) :
          /\ perms[i].path = path
          /\ perms' = DropAt(perms, i)
    /\ UNCHANGED asked

Covers(p, path) == Len(p.path) <= Len(path) /\ SubSeq(path, 1, Len(p.path)) = p.path

\* A plausible slip: the first row that covers the file is taken.
LongerFirst(p, best) == Len(p.path) > 0 /\ best.path = <<>>

\* The empty path covers every file, but is no longer than nothing.
Longer(p, best) == Len(p.path) > Len(best.path)

NoPerm == [path |-> <<>>, perm |-> "none"]

\* The loop: the best of the first n rows.
Best(path) ==
    LET best[n \in 0..Len(perms)] ==
            IF n = 0 THEN NoPerm
            ELSE IF Covers(perms[n], path) /\ Longer(perms[n], best[n - 1])
                   THEN perms[n] ELSE best[n - 1]
    IN best[Len(perms)]

checkPerm(path, require) ==
    \/ Best(path).perm \in {"admin", "write"}
    \/ Best(path).perm = "read" /\ require = "read"

\* Download, Rename, Move, Delete and Copy ask before they do anything else.
Ask(path, require) ==
    /\ asked' = [path |-> path, require |-> require, answer |-> checkPerm(path, require)]
    /\ UNCHANGED perms

PermNext ==
    \/ \E path \in GrantPaths : PermDelete(path) \/ \E perm \in Perms : PermCreate(path, perm)
    \/ \E path \in FilePaths, require \in Requires : Ask(path, require)

PermSpec == PermInit /\ [][PermNext]_permVars

------------------------------------------------------------------------------
(* What is promised: the nearest directory that has a row decides.           *)

Granted(path, n) == {p.perm : p \in {perms[i] : i \in {j \in 1..Len(perms) :
                                          perms[j].path = SubSeq(path, 1, n)}}}
Deciding(path)   == {n \in 1..Len(path) : Granted(path, n) # {}}
Allowed(path, require) ==
    \E n \in Deciding(path) :
        /\ \A m \in Deciding(path) : m <= n
        /\ Granted(path, n) \subseteq (IF require = "read" THEN Perms \ {"other"} ELSE {"write", "admin"})

\* Whatever order rows were granted, changed and revoked in, a user is answered by
\* the row of the nearest directory, and not by one further up or not by rows gone.
NearestRowDecides ==
    [][asked' # asked => asked'.answer = Allowed(asked'.path, asked'.require)]_permVars
===============================================================================
