--------------------------- MODULE RecycleService ---------------------------
(***************************************************************************)
(* internal/service/recycle_service.go: moving a file to the recycle bin,  *)
(* restoring it, and the three ways of purging it.  Each is a sequence of  *)
(* storage calls and SQL statements with no transaction around them.       *)
(***************************************************************************)
EXTENDS FileStore

OwnedItem(i, u) == i \in DOMAIN bin /\ bin[i].user = u

------------------------------------------------------------------------------
(* Trash(user, fid), called by FileService.Delete: rename to the slot,     *)
(* insert the bin row (on error rename back), delete the file row.         *)

TrGet(p) ==
    /\ pc[p] = "tr_get"
    /\ LET l == loc[p] IN
       Attempt(p, Owned(l.fid, l.user),
                  /\ loc' = [loc EXCEPT ![p].f = files[l.fid]]
                  /\ Goto(p, "tr_rename")
                  /\ UNCHANGED data)
    /\ UNCHANGED bounds

SlotOf(l) == TrashSlot(l.user, l.fid, l.f.name)

TrRename(p) ==
    /\ pc[p] = "tr_rename"
    /\ LET l == loc[p] IN
       Attempt(p, l.f.path \in DOMAIN store,
                  /\ store' = Renamed(l.f.path, SlotOf(l))
                  /\ Goto(p, "tr_item")
                  /\ UNCHANGED <<files_, bin_, vers_, used, nextBlob, loc, ghosts>>)
    /\ UNCHANGED bounds

TrItem(p) ==
    /\ pc[p] = "tr_item"
    /\ LET l == loc[p]
           item == [user |-> l.user, fid |-> l.fid, orig |-> l.f.path,
                    name |-> l.f.name, slot |-> SlotOf(l), size |-> l.f.size,
                    expired |-> FALSE]
       IN OrFault(/\ bin' = Insert(bin, nextItem, item)
                  /\ nextItem' = nextItem + 1
                  /\ Goto(p, "tr_row")
                  /\ UNCHANGED loc,
                  /\ Goto(p, "tr_undo")
                  /\ UNCHANGED <<bin_, loc>>)
    /\ UNCHANGED <<files_, vers_, used, store_, ghosts, bounds>>

\* A plausible slip: the failed deletion cleans up what it has moved.
TrUndoDelete(p) ==
    /\ pc[p] = "tr_undo"
    /\ store' = Remove(store, {SlotOf(loc[p])})
    /\ Return(p)
    /\ UNCHANGED <<files_, bin_, vers_, used, nextBlob, ghosts, faults, bounds>>

TrUndo(p) ==
    /\ pc[p] = "tr_undo"
    /\ LET l == loc[p] IN
       OrFault(IF SlotOf(l) \in DOMAIN store
                 THEN store' = Renamed(SlotOf(l), l.f.path)
                 ELSE UNCHANGED store,
               UNCHANGED store)
    /\ Return(p)
    /\ UNCHANGED <<files_, bin_, vers_, used, nextBlob, ghosts, bounds>>

\* The file's version rows go with it, where the foreign key is enforced; the
\* snapshots they name stay in storage.
TrRow(p) ==
    /\ pc[p] = "tr_row"
    /\ OrFault(/\ files' = Remove(files, {loc[p].fid})
               /\ CascadeVersions(loc[p].fid)
               /\ Goto(p, "de_charge")
               /\ UNCHANGED <<nextFile, bin_, nextVer, used, store_, loc, ghosts>>,
               Fail(p))
    /\ UNCHANGED bounds

------------------------------------------------------------------------------
(* Restore: rename back, over whatever is at the original path by now,     *)
(* insert a new file row (on error rename to the slot again), delete the   *)
(* bin row, charge the size.                                                *)

Restore(p) ==
    \E u \in Users, i \in 1..(nextItem - 1) :
        /\ Call(p, "restore", "re_get", [NoLocals EXCEPT !.user = u, !.id = i])
        /\ UNCHANGED <<taken, uploads>>

ReGet(p) ==
    /\ pc[p] = "re_get"
    /\ LET l == loc[p] IN
       Attempt(p, OwnedItem(l.id, l.user),
                  /\ loc' = [loc EXCEPT ![p].it = bin[l.id]]
                  /\ Goto(p, "re_rename")
                  /\ UNCHANGED data)
    /\ UNCHANGED bounds

ReRename(p) ==
    /\ pc[p] = "re_rename"
    /\ LET it == loc[p].it IN
       Attempt(p, it.slot \in DOMAIN store,
                  /\ store' = Renamed(it.slot, it.orig)
                  /\ Goto(p, "re_row")
                  /\ UNCHANGED <<files_, bin_, vers_, used, nextBlob, loc, ghosts>>)
    /\ UNCHANGED bounds

\* The new row has no parent, no sha256 and no is_e2ee: the bin keeps none.
ReRow(p) ==
    /\ pc[p] = "re_row"
    /\ LET it == loc[p].it
           row == [owner |-> loc[p].user, parent |-> Root, name |-> it.name,
                   path |-> it.orig, size |-> it.size, sha |-> 0, e2ee |-> FALSE]
       IN OrFault(/\ files' = Insert(files, nextFile, row)
                  /\ nextFile' = nextFile + 1
                  /\ Goto(p, "re_item"),
                  /\ Goto(p, "re_undo")
                  /\ UNCHANGED files_)
    /\ UNCHANGED <<bin_, vers_, used, store_, loc, ghosts, bounds>>

ReUndo(p) ==
    /\ pc[p] = "re_undo"
    /\ LET it == loc[p].it IN
       OrFault(IF it.orig \in DOMAIN store
                 THEN store' = Renamed(it.orig, it.slot)
                 ELSE UNCHANGED store,
               UNCHANGED store)
    /\ Return(p)
    /\ UNCHANGED <<files_, bin_, vers_, used, nextBlob, ghosts, bounds>>

ReItem(p) ==
    /\ pc[p] = "re_item"
    /\ OrFault(/\ bin' = Remove(bin, {loc[p].id})
               /\ Goto(p, "re_charge")
               /\ UNCHANGED <<files_, nextItem, vers_, used, store_, loc, ghosts>>,
               Fail(p))
    /\ UNCHANGED bounds

ReCharge(p) ==
    /\ pc[p] = "re_charge"
    /\ OrFault(used' = [used EXCEPT ![loc[p].user] = @ + loc[p].it.size],
               UNCHANGED used)
    /\ Return(p)
    /\ UNCHANGED <<files_, bin_, vers_, store_, ghosts, bounds>>

------------------------------------------------------------------------------
(* PermanentlyDelete: the bytes, then the bin row.                          *)

PermanentlyDelete(p) ==
    \E u \in Users, i \in 1..(nextItem - 1) :
        /\ Call(p, "purge", "pd_get", [NoLocals EXCEPT !.user = u, !.id = i])
        /\ UNCHANGED <<taken, uploads>>

PdGet(p) ==
    /\ pc[p] = "pd_get"
    /\ LET l == loc[p] IN
       Attempt(p, OwnedItem(l.id, l.user),
                  /\ loc' = [loc EXCEPT ![p].it = bin[l.id]]
                  /\ Goto(p, "pd_blob")
                  /\ UNCHANGED data)
    /\ UNCHANGED bounds

PdBlob(p) ==
    /\ pc[p] = "pd_blob"
    /\ OrFault(/\ Erase({loc[p].it.slot})
               /\ Goto(p, "pd_row")
               /\ UNCHANGED <<files_, bin_, vers_, used, loc>>,
               Fail(p))
    /\ UNCHANGED bounds

PdRow(p) ==
    /\ pc[p] = "pd_row"
    /\ OrFault(bin' = Remove(bin, {loc[p].id}), UNCHANGED bin)
    /\ Return(p)
    /\ UNCHANGED <<files_, nextItem, vers_, used, store_, ghosts, bounds>>

------------------------------------------------------------------------------
(* EmptyTrash and CleanupExpired: list, delete the bytes of what was       *)
(* listed, then delete the bin rows that match now.                        *)

Slots(items) == {bin[i].slot : i \in items}

\* The rows a listing and the later DELETE of the two purges select.
Expired == {i \in DOMAIN bin : bin[i].expired}
AllOf(u) == {i \in DOMAIN bin : bin[i].user = u}

EmptyTrash(p) ==
    \E u \in Users :
        /\ Call(p, "empty", "et_list", [NoLocals EXCEPT !.user = u])
        /\ UNCHANGED <<taken, uploads>>

\* The limit of 1000 the service asks for is above the repository's maximum and
\* becomes its default page.
ListPurge(p, here, items, next) ==
    /\ pc[p] = here
    /\ OrFault(/\ loc' = [loc EXCEPT ![p].todo = Slots(items)]
               /\ Goto(p, next)
               /\ UNCHANGED data,
               Fail(p))
    /\ UNCHANGED bounds

\* An error of one Delete is ignored.
PurgeBlob(p, here) ==
    /\ pc[p] = here
    /\ \E q \in loc[p].todo :
        /\ loc' = [loc EXCEPT ![p].todo = @ \ {q}]
        /\ OrFault(Erase({q}), UNCHANGED <<store_, ghosts>>)
    /\ UNCHANGED <<files_, bin_, vers_, used, pc, bounds>>

PurgeRows(p, here, items) ==
    /\ pc[p] = here /\ loc[p].todo = {}
    /\ OrFault(bin' = Remove(bin, items), UNCHANGED bin)
    /\ Return(p)
    /\ UNCHANGED <<files_, nextItem, vers_, used, store_, ghosts, bounds>>

EtList(p) == ListPurge(p, "et_list", ListByUser(loc[p].user), "et_blobs")
EtBlob(p) == PurgeBlob(p, "et_blobs")
EtRows(p) == PurgeRows(p, "et_blobs", AllOf(loc[p].user))

\* The ticker of main.go: CleanupExpired runs again and again, unbounded.
CleanupExpired(j) ==
    /\ j \in Janitors /\ "cleanup" \in Ops
    /\ pc[j] = "idle"
    /\ Goto(j, "cu_list")
    /\ UNCHANGED <<data, loc, faults, bounds>>

CuList(p) == ListPurge(p, "cu_list", Expired, "cu_blobs")
CuBlob(p) == PurgeBlob(p, "cu_blobs")
\* A plausible slip: only the rows of items that have not expired are matched.
CuRowsInverted(p) == PurgeRows(p, "cu_blobs", DOMAIN bin \ Expired)
CuRows(p) == PurgeRows(p, "cu_blobs", Expired)

\* expire_at passes.
Expire(i) ==
    /\ "cleanup" \in Ops
    /\ i \in DOMAIN bin /\ ~bin[i].expired
    /\ bin' = [bin EXCEPT ![i].expired = TRUE]
    /\ UNCHANGED <<files_, nextItem, vers_, used, store_, pc, loc, ghosts, faults, bounds>>

RecycleCalls(p) ==
    Restore(p) \/ PermanentlyDelete(p) \/ EmptyTrash(p) \/ CleanupExpired(p)
RecycleSteps(p) ==
    \/ TrGet(p) \/ TrRename(p) \/ TrItem(p) \/ TrUndo(p) \/ TrRow(p)
    \/ ReGet(p) \/ ReRename(p) \/ ReRow(p) \/ ReUndo(p) \/ ReItem(p) \/ ReCharge(p)
    \/ PdGet(p) \/ PdBlob(p) \/ PdRow(p)
    \/ EtList(p) \/ EtBlob(p) \/ EtRows(p)
    \/ CuList(p) \/ CuBlob(p) \/ CuRows(p)
==============================================================================
