---------------------------- MODULE FileService ----------------------------
(***************************************************************************)
(* internal/service/file_service.go: Upload and Delete, composed with the  *)
(* recycle bin and the versions they call.  This is the storage core of    *)
(* PureFS: every goroutine of the server that touches files, recycle_bin,  *)
(* file_versions, storage_used or the bytes in storage.                    *)
(***************************************************************************)
EXTENDS RecycleService, VersionService

------------------------------------------------------------------------------
(* UploadWithOptions.                                                       *)

\* Two uploads of one path at the same time write one temporary file; their
\* bytes mix, and the model leaves them out.
Uploading(u, n) ==
    \E p \in Procs : /\ loc[p].f.owner = u /\ loc[p].f.name = n
                     /\ \/ pc[p] \in {"up_list", "up_write", "up_quota", "up_rename"}
                        \/ loc[p].ret = "up_write"

Upload(p) ==
    \E u \in Users, d \in Folders \cup {Root}, n \in Names, s \in Sizes, e \in Encryption :
        /\ uploads < MaxUploads
        /\ ~Uploading(u, n)
        /\ FreshNames => <<u, n>> \notin taken
        /\ LET row == [owner |-> u, parent |-> d, name |-> n, path |-> Home(u, n),
                       size |-> s, sha |-> 0, e2ee |-> e]
           IN Call(p, "upload", "up_list", [NoLocals EXCEPT !.user = u, !.f = row])
        /\ uploads' = uploads + 1
        /\ taken' = taken \cup {<<u, n>>}

\* The first row of the listing with this name has its bytes saved; an error of
\* the listing skips that.
UpList(p) ==
    /\ pc[p] = "up_list"
    /\ LET r == loc[p].f
           same == {f \in ListByParent(r.owner, r.parent) : files[f].name = r.name}
       IN OrFault(\/ /\ same # {}
                     /\ loc' = [loc EXCEPT ![p].fid = Max(same), ![p].g = files[Max(same)],
                                           ![p].ret = "up_write"]
                     /\ Goto(p, "sv_num")
                  \/ /\ same = {}
                     /\ Goto(p, "up_write")
                     /\ UNCHANGED loc,
                  Goto(p, "up_write") /\ UNCHANGED loc)
    /\ UNCHANGED <<data, bounds>>

\* On an error the temporary file is deleted, unless that fails, too.
DropTmp(tmp) == store' = Remove(store, {tmp}) \/ UNCHANGED store

UpWrite(p) ==
    /\ pc[p] = "up_write"
    /\ LET r == loc[p].f
           tmp == Tmp(r.owner, r.name)
           blob == [id |-> nextBlob, size |-> r.size, e2ee |-> r.e2ee]
       IN OrFault(/\ store' = Insert(store, tmp, blob)
                  /\ nextBlob' = nextBlob + 1
                  /\ loc' = [loc EXCEPT ![p].f.sha = nextBlob, ![p].ret = "none"]
                  /\ Goto(p, "up_quota"),
                  /\ DropTmp(tmp) \/ store' = Insert(store, tmp, Torn)
                  /\ Return(p)
                  /\ UNCHANGED nextBlob)
    /\ UNCHANGED <<files_, bin_, vers_, used, ghosts, bounds>>

\* A plausible slip: the upload's own size is left out of the test.
WithinQuotaBefore(u, s) == Quota > 0 => used[u] <= Quota

WithinQuota(u, s) == Quota > 0 => used[u] + s <= Quota

\* A plausible slip: the temporary file of a rejected upload is not deleted.
UpQuotaKeepsTmp(p) ==
    /\ pc[p] = "up_quota"
    /\ IF WithinQuota(loc[p].f.owner, loc[p].f.size)
         THEN Goto(p, "up_rename") /\ UNCHANGED loc
         ELSE Return(p)
    /\ UNCHANGED <<data, faults, bounds>>

\* A failed read of the user leaves the temporary file.
UpQuota(p) ==
    /\ pc[p] = "up_quota"
    /\ LET r == loc[p].f IN
       OrFault(\/ /\ WithinQuota(r.owner, r.size)
                  /\ Goto(p, "up_rename")
                  /\ UNCHANGED <<store, loc>>
               \/ /\ ~WithinQuota(r.owner, r.size)
                  /\ store' = Remove(store, {Tmp(r.owner, r.name)})
                  /\ Return(p),
               Return(p) /\ UNCHANGED store)
    /\ UNCHANGED <<files_, bin_, vers_, used, nextBlob, ghosts, bounds>>

\* A plausible slip: the row is inserted with the bytes still at the temporary path.
UpRenameSkipped(p) ==
    /\ pc[p] = "up_rename"
    /\ Goto(p, "up_row")
    /\ UNCHANGED <<data, loc, faults, bounds>>

UpRename(p) ==
    /\ pc[p] = "up_rename"
    /\ LET r == loc[p].f
           tmp == Tmp(r.owner, r.name)
       IN OrFault(/\ store' = Renamed(tmp, r.path)
                  /\ Goto(p, "up_row")
                  /\ UNCHANGED loc,
                  /\ DropTmp(tmp)
                  /\ Return(p))
    /\ UNCHANGED <<files_, bin_, vers_, used, nextBlob, ghosts, bounds>>

\* The new row is inserted beside the one it replaces; a conflict or an error
\* leaves the new bytes at the path with no row of their own.
UpRow(p) ==
    /\ pc[p] = "up_row"
    /\ LET r == loc[p].f IN
       Attempt(p, ~Conflicts(r),
               /\ files' = Insert(files, nextFile, r)
               /\ nextFile' = nextFile + 1
               /\ Goto(p, "up_charge")
               /\ UNCHANGED <<bin_, vers_, used, store_, loc, ghosts>>)
    /\ UNCHANGED bounds

UpCharge(p) ==
    /\ pc[p] = "up_charge"
    /\ LET r == loc[p].f IN
       OrFault(/\ used' = [used EXCEPT ![r.owner] = @ + r.size]
               /\ acked' = acked \cup {r.sha},
               UNCHANGED <<used, acked>>)
    /\ Return(p)
    /\ UNCHANGED <<files_, bin_, vers_, store_, erased, bounds>>

------------------------------------------------------------------------------
(* Delete: the row is read once for its size, again by Trash, and the size  *)
(* of the first reading is given back.                                      *)

Delete(p) ==
    \E u \in Users, f \in 1..(nextFile - 1) :
        /\ Call(p, "delete", "de_get", [NoLocals EXCEPT !.user = u, !.fid = f])
        /\ UNCHANGED <<taken, uploads>>

\* A plausible slip: the size is given back whatever became of the deletion.
DeGetCharges(p) ==
    /\ pc[p] = "de_get"
    /\ LET l == loc[p] IN
       IF Owned(l.fid, l.user)
         THEN /\ loc' = [loc EXCEPT ![p].size = 0]
              /\ used' = [used EXCEPT ![l.user] = @ - files[l.fid].size]
              /\ Goto(p, "tr_get")
         ELSE Return(p) /\ UNCHANGED used
    /\ UNCHANGED <<files_, bin_, vers_, store_, ghosts, faults, bounds>>

DeGet(p) ==
    /\ pc[p] = "de_get"
    /\ LET l == loc[p] IN
       Attempt(p, Owned(l.fid, l.user),
               /\ loc' = [loc EXCEPT ![p].size = files[l.fid].size]
               /\ Goto(p, "tr_get")
               /\ UNCHANGED data)
    /\ UNCHANGED bounds

DeCharge(p) ==
    /\ pc[p] = "de_charge"
    /\ LET l == loc[p] IN
       OrFault(used' = [used EXCEPT ![l.user] = @ - l.size], UNCHANGED used)
    /\ Return(p)
    /\ UNCHANGED <<files_, bin_, vers_, store_, ghosts, bounds>>

------------------------------------------------------------------------------
Calls(p) == Upload(p) \/ Delete(p) \/ RecycleCalls(p) \/ VersionCalls(p)
Steps(p) ==
    \/ UpList(p) \/ UpWrite(p) \/ UpQuota(p) \/ UpRename(p) \/ UpRow(p) \/ UpCharge(p)
    \/ DeGet(p) \/ DeCharge(p)
    \/ RecycleSteps(p)
    \/ VersionSteps(p)

Next ==
    \/ \E p \in Procs : Calls(p) \/ Steps(p)
    \/ \E i \in DOMAIN bin : Expire(i)
    \/ Crash

\* A request in progress is run on by the Go scheduler, and the ticker fires.
Fairness ==
    /\ \A p \in Procs : WF_vars(Steps(p))
    /\ \A j \in Janitors : WF_vars(CleanupExpired(j))

Spec == Init /\ [][Next]_vars /\ Fairness
------------------------------------------------------------------------------
(* Properties.                                                              *)

Labels == {"idle", "up_list", "up_write", "up_quota", "up_rename", "up_row", "up_charge",
           "de_get", "tr_get", "tr_rename", "tr_item", "tr_undo", "tr_row", "de_charge",
           "re_get", "re_rename", "re_row", "re_undo", "re_item", "re_charge",
           "pd_get", "pd_blob", "pd_row", "et_list", "et_blobs", "cu_list", "cu_blobs",
           "sv_num", "sv_copy", "sv_row", "pr_count", "pr_oldest", "pr_blob", "pr_row",
           "rv_file", "rv_ver", "rv_exists", "rv_copy", "rv_row",
           "dv_file", "dv_get", "dv_blob", "dv_row"}

TablesOK ==
    /\ nextFile \in Nat \ {0} /\ nextItem \in Nat \ {0} /\ nextVer \in Nat \ {0}
    /\ files \in [DOMAIN files -> FileRow] /\ DOMAIN files \subseteq 1..(nextFile - 1)
    /\ bin \in [DOMAIN bin -> Item] /\ DOMAIN bin \subseteq 1..(nextItem - 1)
    /\ vers \in [DOMAIN vers -> Version] /\ DOMAIN vers \subseteq 1..(nextVer - 1)
    /\ used \in [Users -> Int]

StoreOK ==
    /\ nextBlob \in Nat \ {0}
    /\ store \in [DOMAIN store -> Blob] /\ DOMAIN store \subseteq Path
    /\ IdsAt(DOMAIN store) \subseteq 0..(nextBlob - 1)

ProcsOK ==
    /\ pc \in [Procs -> Labels]
    /\ loc \in [Procs -> Locals]

GhostsOK ==
    /\ acked \subseteq Nat /\ erased \subseteq Nat /\ taken \subseteq Users \X Names
    /\ calls \in Nat /\ uploads \in Nat /\ faults \in Nat /\ crashes \in Nat

\* Every table keeps its shape, ids stay below the counters, and a goroutine
\* is at one of the steps above with locals of the right shape.
TypeOK == TablesOK /\ StoreOK /\ ProcsOK /\ GhostsOK

Quiet == \A p \in Procs : pc[p] = "idle"

\* An upload that was answered with success keeps its bytes somewhere in storage
\* until a purge or a pruning deletes them: no rename lands on them, no error
\* path removes them, whatever fails and whenever the process dies.
NoSilentLoss == acked \ erased \subseteq IdsAt(DOMAIN store)

\* The requests of a user that are past a row and short of its charge or refund,
\* and the uploads that have passed the test of the quota.
Charging(u)  == {p \in Procs : pc[p] = "up_charge" /\ loc[p].user = u}
Refunding(u) == {p \in Procs : pc[p] = "de_charge" /\ loc[p].user = u}
InFlight(u)  == {p \in Procs : loc[p].user = u /\ pc[p] \in {"up_rename", "up_row", "up_charge"}}

Uploaded == [p \in Procs |-> loc[p].f.size]
Refunds  == [p \in Procs |-> loc[p].size]
RowSizes == [f \in DOMAIN files |-> files[f].size]
RowsOf(u) == {f \in DOMAIN files : files[f].owner = u}

\* storage_used is the sum of the sizes of the user's file rows, up to the
\* requests that are between writing the row and charging for it.  Stated of
\* uploads, deletions and purges in which nothing fails.
UsedMatchesRows ==
    \A u \in Users :
        used[u] + SumFunctionOnSet(Uploaded, Charging(u))
      = SumFunctionOnSet(RowSizes, RowsOf(u)) + SumFunctionOnSet(Refunds, Refunding(u))

\* The check of the quota and the charge are apart, so concurrent uploads may
\* pass it together; yet the overshoot is bounded by what the other goroutines
\* can have in flight.  A Restore charges with no check: the runs of this property
\* serve none.
QuotaOvershootBounded ==
    \A u \in Users :
        used[u] + SumFunctionOnSet(Uploaded, InFlight(u))
      <= Quota + (Cardinality(Requesters) - 1) * Max(Sizes)

\* The bytes a file row was created for are at its path, or in its trash slot
\* while a deletion is under way, or the deletion is past its bin row, which
\* another request may purge before the file row is gone.
RowBacked ==
    \A f \in DOMAIN files :
        LET r == files[f] IN
        \/ r.sha \in IdsAt({r.path, TrashSlot(r.owner, f, r.name)})
        \/ \E p \in Procs : pc[p] = "tr_row" /\ loc[p].fid = f

\* At rest, what the bin lists can be restored: its bytes are in its slot.
BinBacked == Quiet => \A i \in DOMAIN bin : bin[i].slot \in DOMAIN store

\* At rest, what the version list offers can be downloaded and restored.
VersionsBacked == Quiet => \A v \in DOMAIN vers : vers[v].path \in DOMAIN store

\* At rest no file has more than MaxVersions versions, however many goroutines
\* have been saving and pruning at once.
VersionsBounded ==
    Quiet => \A f \in 1..(nextFile - 1) : Cardinality(VersionsOf(f)) <= MaxVersions

\* Two versions of a file never share a number or a snapshot path, so that
\* deleting one does not take the other's bytes.  Holds of one request at a time.
VersionsDistinct ==
    \A v, w \in DOMAIN vers :
        v # w /\ vers[v].fid = vers[w].fid =>
            vers[v].num # vers[w].num /\ vers[v].path # vers[w].path

\* At rest no temporary file of an upload is left behind.
NoTmpLeft == Quiet => \A q \in DOMAIN store : q.kind # "tmp"

\* A restore of a version never overwrites bytes that no version of the file
\* holds: the restore itself can be undone.
RestoreCanBeUndone ==
    [][\A p \in Procs :
         pc[p] = "rv_copy" /\ pc'[p] = "rv_row" =>
             \E v \in VersionsOf(loc[p].fid) :
                 /\ vers[v].path \in DOMAIN store
                 /\ store[vers[v].path] = store[loc[p].g.path]]_vars

\* Pruning never takes a version while an older one of the same file remains.
\* Holds of one request at a time: a number computed before another request
\* prunes may be inserted below the version that is being pruned.
PrunesOldestFirst ==
    [][\A p \in Procs :
         pc[p] = "pr_row" /\ vers' # vers =>
             \A v \in VersionsOf(loc[p].fid) : vers[v].num >= loc[p].snap.num]_vars

\* An item whose retention is over leaves the bin, although the cleanup may
\* fail or die and requests keep changing the bin.
ExpiredIsPurged ==
    \A i \in 1..MaxCalls :
        (i \in DOMAIN bin /\ bin[i].expired) ~> (i \notin DOMAIN bin)

------------------------------------------------------------------------------
(* What the documentation says, and the code does not do.                   *)

\* migrations/008_e2ee.sql:12 "files.is_e2ee: 1 when the file bytes stored on
\* disk are client-encrypted".
E2EEFlagMatchesBytes ==
    Quiet => \A f \in DOMAIN files :
        files[f].path \in DOMAIN store /\ store[files[f].path].e2ee => files[f].e2ee

\* version_service.go:81-83 RestoreVersion "restores a file to a previous version
\* by copying the version snapshot back over the current file".
SnapshotSurvivesItsRestore ==
    \A p \in Procs : pc[p] = "rv_copy" => loc[p].v.path \in DOMAIN store

\* docs/API.md:160 DELETE /recycle empties the recycle bin: at rest, bytes in the
\* trash are bytes the bin lists.
TrashHasNoOrphans ==
    Quiet => \A q \in DOMAIN store :
        q.kind = "trash" => \E i \in DOMAIN bin : bin[i].slot = q

\* docs/REQUIREMENTS.md:87 an overwriting upload saves the old version: a rename
\* over existing bytes finds them held by a version row.
OverwriteKeepsVersion ==
    [][\A p \in Procs :
         pc[p] = "up_rename" /\ pc'[p] = "up_row" /\ loc[p].f.path \in DOMAIN store =>
             \E v \in DOMAIN vers :
                 /\ vers[v].path \in DOMAIN store
                 /\ store[vers[v].path] = store[loc[p].f.path]]_vars
==============================================================================
