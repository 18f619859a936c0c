--------------------------- MODULE VersionService ---------------------------
(***************************************************************************)
(* internal/service/version_service.go: snapshots of a file's bytes, taken *)
(* before an overwriting upload and before a restore, the pruning of the   *)
(* oldest beyond MaxVersions, and restoring or deleting one version.       *)
(***************************************************************************)
EXTENDS FileStore

\* SaveVersion's error is ignored by an upload and ends a restore.
SvFail(p) ==
    IF loc[p].ret = "up_write" THEN Goto(p, "up_write") /\ UNCHANGED loc
                               ELSE Return(p)

\* A plausible slip: the count of the versions is taken for their maximum.
NextNumByCount(fid) == Cardinality(VersionsOf(fid)) + 1

\* A plausible slip: the next number is taken downwards.
NextNumDown(fid) ==
    Max({0} \cup {vers[v].num : v \in VersionsOf(fid)}) - 1

\* max(version_num) + 1, where an error of the query counts as no version.
NextVersionNum(fid) ==
    Max({0} \cup {vers[v].num : v \in VersionsOf(fid)}) + 1

SvNum(p) ==
    /\ pc[p] = "sv_num"
    /\ \E ts \in Stamps :
         LET l == loc[p]
             snap(n) == [fid |-> l.fid, num |-> n, size |-> l.g.size, sha |-> l.g.sha,
                         path |-> Snap(l.g.owner, l.fid, n, ts)]
         IN OrFault(loc' = [loc EXCEPT ![p].snap = snap(NextVersionNum(l.fid))],
                    loc' = [loc EXCEPT ![p].snap = snap(1)])
    /\ Goto(p, "sv_copy")
    /\ UNCHANGED <<data, bounds>>

\* An interrupted copy leaves what it has written behind.
SvCopy(p) ==
    /\ pc[p] = "sv_copy"
    /\ LET l == loc[p] IN
       OrFault(\/ /\ l.g.path \in DOMAIN store
                  /\ store' = Insert(store, l.snap.path, store[l.g.path])
                  /\ Goto(p, "sv_row")
                  /\ UNCHANGED loc
               \/ /\ l.g.path \notin DOMAIN store
                  /\ SvFail(p)
                  /\ UNCHANGED store,
               /\ \/ UNCHANGED store
                  \/ /\ l.g.path \in DOMAIN store
                     /\ \E b \in Leftovers(l.g.path) :
                          store' = Insert(store, l.snap.path, b)
               /\ SvFail(p))
    /\ UNCHANGED <<files_, bin_, vers_, used, nextBlob, ghosts, bounds>>

\* The insert fails on a missing file row where the foreign key is enforced; a
\* failed insert deletes the snapshot, unless that fails too.
SvUndo(p, rest) ==
    /\ store' = rest
    /\ SvFail(p)
    /\ UNCHANGED vers_

SvRow(p) ==
    /\ pc[p] = "sv_row"
    /\ LET l == loc[p]
           without == Remove(store, {l.snap.path})
       IN OrFault(\/ /\ vers' = Insert(vers, nextVer, l.snap)
                     /\ nextVer' = nextVer + 1
                     /\ Goto(p, "pr_count")
                     /\ UNCHANGED <<store, loc>>
                  \/ l.fid \notin DOMAIN files /\ SvUndo(p, without),
                  SvUndo(p, without) \/ SvUndo(p, store))
    /\ UNCHANGED <<files_, bin_, used, nextBlob, ghosts, bounds>>

------------------------------------------------------------------------------
(* pruneOldest: count, oldest, delete its bytes, delete its row, again.     *)
(* Its errors are not the caller's.                                         *)

PruneDone(p) ==
    /\ Goto(p, loc[p].ret)
    /\ UNCHANGED loc

\* A plausible slip: the loop stops one version early.
PrCountOffByOne(p) ==
    /\ pc[p] = "pr_count"
    /\ IF Cardinality(VersionsOf(loc[p].fid)) <= MaxVersions + 1
         THEN PruneDone(p)
         ELSE Goto(p, "pr_oldest") /\ UNCHANGED loc
    /\ UNCHANGED <<data, faults, bounds>>

PrCount(p) ==
    /\ pc[p] = "pr_count"
    /\ OrFault(IF Cardinality(VersionsOf(loc[p].fid)) <= MaxVersions
                 THEN PruneDone(p)
                 ELSE Goto(p, "pr_oldest") /\ UNCHANGED loc,
               PruneDone(p))
    /\ UNCHANGED <<data, bounds>>

\* A plausible slip: ORDER BY version_num DESC.
Newest(fid) ==
    {v \in VersionsOf(fid) : \A x \in VersionsOf(fid) : vers[v].num >= vers[x].num}

Oldest(fid) ==
    {v \in VersionsOf(fid) : \A x \in VersionsOf(fid) : vers[v].num <= vers[x].num}

PrOldest(p) ==
    /\ pc[p] = "pr_oldest"
    /\ OrFault(\/ \E v \in Oldest(loc[p].fid) :
                    /\ loc' = [loc EXCEPT ![p].old = v, ![p].snap = vers[v]]
                    /\ Goto(p, "pr_blob")
               \/ VersionsOf(loc[p].fid) = {} /\ PruneDone(p),
               PruneDone(p))
    /\ UNCHANGED <<data, bounds>>

PrBlob(p) ==
    /\ pc[p] = "pr_blob"
    /\ OrFault(Erase({loc[p].snap.path}), UNCHANGED <<store_, ghosts>>)
    /\ Goto(p, "pr_row")
    /\ UNCHANGED <<files_, bin_, vers_, used, loc, bounds>>

PrRow(p) ==
    /\ pc[p] = "pr_row"
    /\ OrFault(/\ vers' = Remove(vers, {loc[p].old})
               /\ Goto(p, "pr_count")
               /\ UNCHANGED loc,
               PruneDone(p) /\ UNCHANGED vers)
    /\ UNCHANGED <<files_, bin_, nextVer, used, store_, ghosts, bounds>>

------------------------------------------------------------------------------
(* RestoreVersion, from its handler's GetFile on.                           *)

RestoreVersion(p) ==
    \E u \in Users, f \in 1..(nextFile - 1), v \in 1..(nextVer - 1) :
        /\ Call(p, "restoreVersion", "rv_file",
                [NoLocals EXCEPT !.user = u, !.fid = f, !.id = v, !.ret = "rv_copy"])
        /\ UNCHANGED <<taken, uploads>>

RvFile(p) ==
    /\ pc[p] = "rv_file"
    /\ LET l == loc[p] IN
       Attempt(p, Owned(l.fid, l.user),
               /\ loc' = [loc EXCEPT ![p].g = files[l.fid]]
               /\ Goto(p, "rv_ver")
               /\ UNCHANGED data)
    /\ UNCHANGED bounds

RvVer(p) ==
    /\ pc[p] = "rv_ver"
    /\ LET l == loc[p] IN
       Attempt(p, l.id \in VersionsOf(l.fid),
               /\ loc' = [loc EXCEPT ![p].v = vers[l.id]]
               /\ Goto(p, "rv_exists")
               /\ UNCHANGED data)
    /\ UNCHANGED bounds

\* A plausible slip: the current state is not saved before it is overwritten.
RvExistsNoSave(p) ==
    /\ pc[p] = "rv_exists"
    /\ Attempt(p, loc[p].v.path \in DOMAIN store,
               /\ Goto(p, "rv_copy")
               /\ UNCHANGED <<data, loc>>)
    /\ UNCHANGED bounds

RvExists(p) ==
    /\ pc[p] = "rv_exists"
    /\ Attempt(p, loc[p].v.path \in DOMAIN store,
               /\ Goto(p, "sv_num")
               /\ UNCHANGED <<data, loc>>)
    /\ UNCHANGED bounds

\* The destination is opened with O_TRUNC before the bytes are copied.
RvCopy(p) ==
    /\ pc[p] = "rv_copy"
    /\ LET l == loc[p] IN
       OrFault(\/ /\ l.v.path \in DOMAIN store
                  /\ store' = Insert(store, l.g.path, store[l.v.path])
                  /\ Goto(p, "rv_row")
                  /\ UNCHANGED loc
               \/ /\ l.v.path \notin DOMAIN store
                  /\ Return(p)
                  /\ UNCHANGED store,
               /\ \/ UNCHANGED store
                  \/ /\ l.v.path \in DOMAIN store
                     /\ \E b \in Leftovers(l.v.path) :
                          store' = Insert(store, l.g.path, b)
               /\ Return(p))
    /\ UNCHANGED <<files_, bin_, vers_, used, nextBlob, ghosts, bounds>>

\* Update writes every column of the row read at the start.
RvRow(p) ==
    /\ pc[p] = "rv_row"
    /\ LET l == loc[p]
           row == [l.g EXCEPT !.size = l.v.size, !.sha = l.v.sha]
       IN OrFault(files' = IF l.fid \in DOMAIN files
                             THEN [files EXCEPT ![l.fid] = row] ELSE files,
                  UNCHANGED files)
    /\ Return(p)
    /\ UNCHANGED <<nextFile, bin_, vers_, used, store_, ghosts, bounds>>

------------------------------------------------------------------------------
(* DeleteVersion: the handler checks the file, the service looks up the     *)
(* version by its id alone.                                                 *)

DeleteVersion(p) ==
    \E u \in Users, f \in 1..(nextFile - 1), v \in 1..(nextVer - 1) :
        /\ Call(p, "deleteVersion", "dv_file",
                [NoLocals EXCEPT !.user = u, !.fid = f, !.id = v])
        /\ UNCHANGED <<taken, uploads>>

DvFile(p) ==
    /\ pc[p] = "dv_file"
    /\ Attempt(p, Owned(loc[p].fid, loc[p].user),
               /\ Goto(p, "dv_get")
               /\ UNCHANGED <<data, loc>>)
    /\ UNCHANGED bounds

DvGet(p) ==
    /\ pc[p] = "dv_get"
    /\ LET l == loc[p] IN
       Attempt(p, l.id \in DOMAIN vers,
               /\ loc' = [loc EXCEPT ![p].v = vers[l.id]]
               /\ Goto(p, "dv_blob")
               /\ UNCHANGED data)
    /\ UNCHANGED bounds

DvBlob(p) ==
    /\ pc[p] = "dv_blob"
    /\ OrFault(Erase({loc[p].v.path}), UNCHANGED <<store_, ghosts>>)
    /\ Goto(p, "dv_row")
    /\ UNCHANGED <<files_, bin_, vers_, used, loc, bounds>>

\* A plausible slip: the bytes are deleted and the row is kept.
DvRowForgotten(p) ==
    /\ pc[p] = "dv_row"
    /\ Return(p)
    /\ UNCHANGED <<data, faults, bounds>>

DvRow(p) ==
    /\ pc[p] = "dv_row"
    /\ OrFault(vers' = Remove(vers, {loc[p].id}), UNCHANGED vers)
    /\ Return(p)
    /\ UNCHANGED <<files_, bin_, nextVer, used, store_, ghosts, bounds>>

VersionCalls(p) == RestoreVersion(p) \/ DeleteVersion(p)
VersionSteps(p) ==
    \/ SvNum(p) \/ SvCopy(p) \/ SvRow(p)
    \/ PrCount(p) \/ PrOldest(p) \/ PrBlob(p) \/ PrRow(p)
    \/ RvFile(p) \/ RvVer(p) \/ RvExists(p) \/ RvCopy(p) \/ RvRow(p)
    \/ DvFile(p) \/ DvGet(p) \/ DvBlob(p) \/ DvRow(p)
==============================================================================
