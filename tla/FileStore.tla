------------------------------ MODULE FileStore ------------------------------
(***************************************************************************)
(* What the file, recycle-bin and version services share: the tables of    *)
(* the database, the storage driver, the users' used-bytes counters, and   *)
(* the goroutines that run requests.  One SQL statement and one call of    *)
(* the storage driver is one step; the services use no transaction, so     *)
(* steps of different requests interleave freely, any of them may fail,    *)
(* and the process may die between any two.                                *)
(***************************************************************************)
EXTENDS Integers, FiniteSets, FiniteSetsExt

CONSTANTS Requesters,   \* goroutines that serve HTTP requests
          Janitors,     \* the goroutine with the six-hour cleanup ticker
          Users, Names, \* a name is a file name without its directory
          Folders, Root,\* parent directories, and the NULL parent
          NoName,
          Sizes,        \* sizes of uploads
          Encryption,   \* whether a client encrypts what it uploads
          Quota,        \* every user's storage_quota, 0 for none
          PageSize,     \* the clamp of both List queries (50)
          MaxVersions,  \* cfg.Versioning.MaxVersions (10)
          Stamps,       \* the Unix seconds a snapshot may be taken in
          Ops,          \* the requests this instance serves
          FreshNames,   \* TRUE: no user uploads a name twice
          MaxCalls, MaxUploads, MaxFaults, MaxCrashes   \* bounds

Procs == Requesters \cup Janitors

AllOps == {"upload", "delete", "restore", "purge", "empty", "cleanup",
           "restoreVersion", "deleteVersion"}

ASSUME FileStoreAssumption ==
    /\ Users # {} /\ Names # {}
    /\ Sizes \subseteq Nat /\ Sizes # {}
    /\ Encryption \subseteq BOOLEAN
    /\ Quota \in Nat /\ PageSize \in Nat \ {0} /\ MaxVersions \in Nat \ {0}
    /\ Stamps \subseteq Nat
    /\ Root \notin Folders /\ NoName \notin Names
    /\ Ops \subseteq AllOps
    /\ FreshNames \in BOOLEAN
    /\ MaxCalls \in Nat /\ MaxUploads \in Nat
    /\ MaxFaults \in Nat /\ MaxCrashes \in Nat

------------------------------------------------------------------------------
(* Storage paths, by the four shapes the services build.                   *)

PathOf(kinds) == [kind : kinds, user : Users, name : Names \cup {NoName},
                  fid : Nat, num : Nat, ts : Nat]
Path == PathOf({"home", "tmp", "trash", "snap"})

\* /users/{u}/{name}: the parent directory is not part of an upload's path.
Home(u, n) == [kind |-> "home", user |-> u, name |-> n, fid |-> 0, num |-> 0, ts |-> 0]
\* the same with ".uploading"
Tmp(u, n) == [Home(u, n) EXCEPT !.kind = "tmp"]
\* A plausible slip: the file id is left out of the trash path.
TrashSlotByName(u, fid, n) == [Home(u, n) EXCEPT !.kind = "trash"]
\* /.trash/{u}/{fid}_{name}
TrashSlot(u, fid, n) == [Home(u, n) EXCEPT !.kind = "trash", !.fid = fid]
\* /.versions/{u}/{fid}/v{num}_{ts}
Snap(u, fid, num, ts) == [kind |-> "snap", user |-> u, name |-> NoName,
                          fid |-> fid, num |-> num, ts |-> ts]

\* The bytes at a path: which upload wrote them, how many there are, whether the
\* client had encrypted them.  Blob 0 is what an interrupted copy leaves.
Blob == [id : Nat, size : Nat, e2ee : BOOLEAN]
Torn == [id |-> 0, size |-> 0, e2ee |-> FALSE]

\* Rows of files, recycle_bin and file_versions.  sha is the id of the hashed
\* bytes, 0 where the column is left empty.
FileRow == [owner : Users, parent : Folders \cup {Root}, name : Names,
            path : PathOf({"home"}), size : Nat, sha : Nat, e2ee : BOOLEAN]
Item == [user : Users, fid : Nat, orig : PathOf({"home"}), name : Names,
         slot : PathOf({"trash"}),
         size : Nat, expired : BOOLEAN]
Version == [fid : Nat, num : Nat, size : Nat, sha : Nat, path : PathOf({"snap"})]

VARIABLES files, nextFile,  \* rows by id; ids are AUTOINCREMENT, never reused
          bin, nextItem,
          vers, nextVer,
          used,             \* used[u]: users.storage_used
          store, nextBlob,  \* the bytes at every existing path
          pc, loc,          \* each goroutine's next step and local variables
          acked,            \* ghost: blobs whose upload was answered with success
          erased,           \* ghost: blobs deleted by a purge or a pruning
          taken,            \* ghost: the <<user, name>> pairs uploaded so far
          calls, uploads, faults, crashes   \* counters for the bounds

vars == <<files, nextFile, bin, nextItem, vers, nextVer, used, store, nextBlob,
          pc, loc, acked, erased, taken, calls, uploads, faults, crashes>>

files_  == <<files, nextFile>>
bin_    == <<bin, nextItem>>
vers_   == <<vers, nextVer>>
store_  == <<store, nextBlob>>
ghosts  == <<acked, erased>>
data    == <<files_, bin_, vers_, used, store_, ghosts>>
bounds  == <<taken, calls, uploads, crashes>>

------------------------------------------------------------------------------
(* Tables and storage as partial functions.                                *)

Empty == [x \in {} |-> {}]
Insert(tbl, k, r) == [x \in DOMAIN tbl \cup {k} |-> IF x = k THEN r ELSE tbl[x]]
Remove(tbl, ks) == [x \in DOMAIN tbl \ ks |-> tbl[x]]

\* Rename replaces whatever the destination held (os.Rename).
Renamed(q, r) == Insert(Remove(store, {q}), r, store[q])
IdsAt(qs) == {store[q].id : q \in qs \cap DOMAIN store}

\* What a copy from q that fails may have left at its destination: nothing, if q
\* could not be opened; else a part, or all of it when only the sync failed.
Leftovers(q) == {Torn} \cup {store[x] : x \in {q} \cap DOMAIN store}

\* Delete of a path that does not exist succeeds (os.RemoveAll).
Erase(qs) ==
    /\ store' = Remove(store, qs)
    /\ erased' = erased \cup IdsAt(qs)
    /\ UNCHANGED <<nextBlob, acked>>

\* A file read by id, as GetByID does, and found to belong to user u.
Owned(fid, u) == fid \in DOMAIN files /\ files[fid].owner = u

\* UNIQUE(user_id, parent_id, name): a NULL parent never conflicts.
Conflicts(r) ==
    /\ r.parent # Root
    /\ \E f \in DOMAIN files : /\ files[f].owner = r.owner
                               /\ files[f].parent = r.parent
                               /\ files[f].name = r.name

\* The newest PageSize members of a set of ids (created_at and deleted_at grow
\* with the id).
Page(ids) == {i \in ids : Cardinality({j \in ids : j > i}) < PageSize}
ListByParent(u, d) ==
    Page({f \in DOMAIN files : files[f].owner = u /\ files[f].parent = d})
ListByUser(u) == Page({i \in DOMAIN bin : bin[i].user = u})
VersionsOf(fid) == {v \in DOMAIN vers : vers[v].fid = fid}

\* PRAGMA foreign_keys=ON reaches one connection of the pool: a statement on
\* another neither cascades nor checks the reference.
CascadeVersions(fid) ==
    \/ vers' = Remove(vers, VersionsOf(fid))
    \/ VersionsOf(fid) # {} /\ vers' = vers

------------------------------------------------------------------------------
(* Requests.                                                                *)

NoPath(kind) == [kind |-> kind, user |-> CHOOSE u \in Users : TRUE, name |-> NoName,
           fid |-> 0, num |-> 0, ts |-> 0]
NoRow == [owner |-> CHOOSE u \in Users : TRUE, parent |-> Root,
          name |-> CHOOSE n \in Names : TRUE, path |-> NoPath("home"),
          size |-> 0, sha |-> 0, e2ee |-> FALSE]
NoItem == [user |-> CHOOSE u \in Users : TRUE, fid |-> 0, orig |-> NoPath("home"),
           name |-> CHOOSE n \in Names : TRUE, slot |-> NoPath("trash"), size |-> 0,
           expired |-> FALSE]
NoVersion == [fid |-> 0, num |-> 0, size |-> 0, sha |-> 0, path |-> NoPath("snap")]

\* A goroutine's locals: f is the row an upload builds or a deletion moves, g
\* the row a snapshot is taken of, id a row id from the request, it and v the
\* item and version read, todo the trash paths still to delete, ret the step
\* SaveVersion returns to.
Locals == [user : Users, id : Nat, fid : Nat, f : FileRow, g : FileRow, size : Nat,
           it : Item, v : Version, old : Nat, snap : Version,
           todo : SUBSET PathOf({"trash"}), ret : {"none", "up_write", "rv_copy"}]
NoLocals == [user |-> CHOOSE u \in Users : TRUE, id |-> 0, fid |-> 0, f |-> NoRow,
             g |-> NoRow, size |-> 0, it |-> NoItem, v |-> NoVersion, old |-> 0,
             snap |-> NoVersion, todo |-> {}, ret |-> "none"]

Goto(p, l) == pc' = [pc EXCEPT ![p] = l]
Return(p) == /\ pc' = [pc EXCEPT ![p] = "idle"]
             /\ loc' = [loc EXCEPT ![p] = NoLocals]
Fail(p) == Return(p) /\ UNCHANGED data

\* The step works, or its statement or its system call fails.
OrFault(ok, failed) ==
    \/ ok /\ UNCHANGED faults
    \/ /\ faults < MaxFaults
       /\ faults' = faults + 1
       /\ failed

\* A step that ends the request with an error when its condition is false or when
\* the statement or system call fails.
Attempt(p, cond, change) ==
    OrFault(\/ cond /\ change
            \/ ~cond /\ Fail(p),
            Fail(p))

\* A request reaches its handler, which calls the service.
Call(p, op, l, locals) ==
    /\ p \in Requesters /\ op \in Ops
    /\ pc[p] = "idle" /\ calls < MaxCalls
    /\ calls' = calls + 1
    /\ Goto(p, l)
    /\ loc' = [loc EXCEPT ![p] = locals]
    /\ UNCHANGED <<data, faults, crashes>>

Init ==
    /\ files = Empty /\ nextFile = 1
    /\ bin = Empty /\ nextItem = 1
    /\ vers = Empty /\ nextVer = 1
    /\ used = [u \in Users |-> 0]
    /\ store = Empty /\ nextBlob = 1
    /\ pc = [p \in Procs |-> "idle"]
    /\ loc = [p \in Procs |-> NoLocals]
    /\ acked = {} /\ erased = {} /\ taken = {}
    /\ calls = 0 /\ uploads = 0 /\ faults = 0 /\ crashes = 0

\* The process dies between two statements; SQLite and the disk survive it.
Crash ==
    /\ crashes < MaxCrashes
    /\ crashes' = crashes + 1
    /\ pc' = [p \in Procs |-> "idle"]
    /\ loc' = [p \in Procs |-> NoLocals]
    /\ UNCHANGED <<data, taken, calls, uploads, faults>>
==============================================================================
