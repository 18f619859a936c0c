-------------------------- MODULE FileServiceBytes --------------------------
(***************************************************************************)
(* What becomes of the bytes of an upload: where no user uploads a name    *)
(* twice they stay until a purge deletes them, and where nothing fails     *)
(* every row has its bytes and no temporary file is left behind. For       *)
(* every set of requesters, users and names.                               *)
(***************************************************************************)
EXTENDS FileServiceProofs

------------------------------------------------------------------------------
(* Whose rows, items and goroutines a name belongs to.                      *)

\* An upload whose row is still to be inserted.
Rowless == UpSteps \cup {"up_row"}
\* Between the first rename of a deletion, or of a restore, and its last step
\* that knows of a path.
Trashing == {"tr_rename", "tr_item", "tr_undo", "tr_row"}
Restoring == {"re_rename", "re_row", "re_undo", "re_item"}
\* The steps that know of a version.
Versioning == Saving \cup {"rv_copy", "rv_row", "dv_file", "dv_get", "dv_blob", "dv_row"}

RowKey(r) == <<r.owner, r.name>>
ItemKey(i) == <<i.user, i.name>>
AtHome(r) == r.path = Home(r.owner, r.name)
InPlace(i) == i.orig = Home(i.user, i.name) /\ i.slot = TrashSlot(i.user, i.fid, i.name)

\* A name whose upload is past its row, or has failed.
Settled(k) == k \in taken /\ \A p \in Procs : pc[p] \in Rowless => KeyOf(p) # k

\* No name is uploaded over, so no version is ever taken.
NoVersions ==
    /\ vers = Empty /\ nextVer = 1
    /\ \A p \in Procs : pc[p] \notin Versioning /\ loc[p].ret = "none"

\* Uploads on their way to a row have names of their own.
Alone ==
    /\ \A p \in Procs : pc[p] \in Rowless => AtHome(loc[p].f) /\ KeyOf(p) \in taken
    /\ \A p, q \in Procs :
           p # q /\ pc[p] \in Rowless /\ pc[q] \in Rowless => KeyOf(p) # KeyOf(q)

RowsSettled == \A f \in DOMAIN files : AtHome(files[f]) /\ Settled(RowKey(files[f]))
ItemsSettled == \A i \in DOMAIN bin : InPlace(bin[i]) /\ Settled(ItemKey(bin[i]))
\* What goroutine p has read to move or to restore.
HoldsSettled(p) ==
    /\ pc[p] \in Trashing =>
           AtHome(loc[p].f) /\ Settled(KeyOf(p)) /\ loc[p].f.owner = loc[p].user
    /\ pc[p] \in Restoring =>
           InPlace(loc[p].it) /\ Settled(ItemKey(loc[p].it)) /\ loc[p].it.user = loc[p].user

NamesInv ==
    /\ NoVersions /\ Alone /\ RowsSettled /\ ItemsSettled
    /\ \A p \in Procs : HoldsSettled(p)

------------------------------------------------------------------------------
(* Where the bytes of an upload are.                                        *)

PathKey(q) == <<q.user, q.name>>

\* The bytes of a name are at one path, of an upload that has begun.
OnePath ==
    /\ \A q \in DOMAIN store : PathKey(q) \in taken
    /\ \A q, r \in DOMAIN store : PathKey(q) = PathKey(r) => q = r

\* They are nowhere before the upload writes them.
Unwritten ==
    \A p \in Procs : pc[p] \in {"up_list", "up_write"} =>
        \A q \in DOMAIN store : PathKey(q) # KeyOf(p)

\* Two paths hold the bytes of two uploads, or of an interrupted write.
OwnBytes ==
    \A q, r \in DOMAIN store : q # r /\ store[q].id = store[r].id => store[q].id = 0

\* The uploads that are past their rename, and those that were answered.
Due == acked \cup {loc[p].f.sha : p \in {x \in Procs : pc[x] \in {"up_row", "up_charge"}}}
DueKept == Due \subseteq IdsAt(DOMAIN store) \cup erased
DueWritten == Due \subseteq 1..(nextBlob - 1)
\* A temporary file holds nothing that is due: dropping it loses nothing.
TmpNotDue == \A q \in DOMAIN store : q.kind = "tmp" => store[q].id \notin Due
\* The upload at its quota check or rename holds a blob that exists.
ShaWritten ==
    \A p \in Procs : pc[p] \in {"up_quota", "up_rename"} => loc[p].f.sha \in 1..(nextBlob - 1)

BytesInv ==
    OnePath /\ Unwritten /\ OwnBytes /\ DueKept /\ DueWritten /\ TmpNotDue /\ ShaWritten

LossInv == Inv /\ NamesInv /\ BytesInv
------------------------------------------------------------------------------
(* Names stay apart.                                                        *)

\* What goroutine p has read keeps to names whose upload is over.
NewsOf(p) ==
    /\ pc'[p] \in Trashing => /\ AtHome(loc'[p].f) /\ Settled(RowKey(loc'[p].f))
                              /\ loc'[p].f.owner = loc'[p].user
    /\ pc'[p] \in Restoring => /\ InPlace(loc'[p].it) /\ Settled(ItemKey(loc'[p].it))
                               /\ loc'[p].it.user = loc'[p].user

\* Rows and items stay, go, or are made of such names.
RowsFrom == \A f \in DOMAIN files' :
                \/ f \in DOMAIN files /\ files'[f] = files[f]
                \/ AtHome(files'[f]) /\ Settled(RowKey(files'[f]))
ItemsFrom == \A i \in DOMAIN bin' :
                \/ i \in DOMAIN bin /\ bin'[i] = bin[i]
                \/ InPlace(bin'[i]) /\ Settled(ItemKey(bin'[i]))

\* A step of p that starts no upload and inserts no upload's row.
Orderly(p) ==
    /\ OthersStay(p) /\ UNCHANGED <<vers, nextVer, taken>>
    /\ pc'[p] \notin Versioning \cup {"up_charge"} /\ loc'[p].ret = "none"
    /\ pc'[p] \in Rowless => /\ pc[p] \in Rowless /\ KeyOf(p)' = KeyOf(p)
                             /\ loc'[p].f.path = loc[p].f.path
    /\ RowsFrom /\ ItemsFrom /\ NewsOf(p)

\* Such a step keeps the names apart.
LEMMA OrderlyNames ==
    ASSUME NamesInv, NEW p \in Procs, Orderly(p)
    PROVE  NamesInv'
<1>1. \A r \in Procs : pc'[r] \in Rowless =>
          pc[r] \in Rowless /\ KeyOf(r)' = KeyOf(r) /\ loc'[r].f.path = loc[r].f.path
  BY DEF Orderly, OthersStay, KeyOf
<1>2. \A k : Settled(k) => Settled(k)'
  BY <1>1 DEF Settled, Orderly
<1>3. NoVersions'
  BY DEF NamesInv, NoVersions, Orderly, OthersStay
<1>4. Alone'
  <2>1. \A r \in Procs : pc'[r] \in Rowless => AtHome(loc'[r].f) /\ KeyOf(r)' \in taken'
    <3> SUFFICES ASSUME NEW r \in Procs, pc'[r] \in Rowless
                 PROVE  AtHome(loc'[r].f) /\ KeyOf(r)' \in taken'
      OBVIOUS
    <3>1. AtHome(loc[r].f) /\ KeyOf(r) \in taken
      BY <1>1 DEF NamesInv, Alone
    <3>2. loc'[r].f.owner = loc[r].f.owner /\ loc'[r].f.name = loc[r].f.name
      BY <1>1 DEF KeyOf
    <3> QED BY <1>1, <3>1, <3>2 DEF AtHome, Orderly
  <2>2. \A r, q \in Procs :
            r # q /\ pc'[r] \in Rowless /\ pc'[q] \in Rowless => KeyOf(r)' # KeyOf(q)'
    BY <1>1 DEF NamesInv, Alone
  <2> QED BY <2>1, <2>2 DEF Alone
<1>5. RowsSettled'
  BY <1>2 DEF NamesInv, RowsSettled, Orderly, RowsFrom
<1>6. ItemsSettled'
  BY <1>2 DEF NamesInv, ItemsSettled, Orderly, ItemsFrom
<1>7. \A r \in Procs : HoldsSettled(r)'
  <2> SUFFICES ASSUME NEW r \in Procs PROVE HoldsSettled(r)'
    OBVIOUS
  <2>1. CASE r = p
    BY <1>2, <2>1 DEF Orderly, NewsOf, HoldsSettled, KeyOf, RowKey
  <2>2. CASE r # p
    <3>1. pc'[r] = pc[r] /\ loc'[r] = loc[r]
      BY <2>2 DEF Orderly, OthersStay
    <3>2. HoldsSettled(r)
      BY DEF NamesInv
    <3> QED BY <1>2, <3>1, <3>2 DEF HoldsSettled, KeyOf
  <2> QED BY <2>1, <2>2
<1> QED BY <1>3, <1>4, <1>5, <1>6, <1>7 DEF NamesInv

\* A table that stays or loses rows.
LEMMA TablesShrink ==
    /\ UNCHANGED files => RowsFrom
    /\ UNCHANGED bin => ItemsFrom
    /\ \A ks : files' = Remove(files, ks) => RowsFrom
    /\ \A ks : bin' = Remove(bin, ks) => ItemsFrom
  BY DEF RowsFrom, ItemsFrom, Remove

\* A goroutine that returns holds nothing.
LEMMA ReturnOrderly ==
    ASSUME LocalsInv, NEW p \in Procs, Return(p), UNCHANGED <<vers_, taken>>,
           RowsFrom, ItemsFrom
    PROVE  Orderly(p)
<1>1. pc'[p] = "idle" /\ loc'[p].ret = "none"
  BY NoLocalsOK DEF LocalsInv, ProcsOK, Return
<1>2. OthersStay(p)
  BY DEF LocalsInv, ProcsOK, Return, OthersStay
<1>3. NewsOf(p)
  BY <1>1 DEF NewsOf, Trashing, Restoring
<1> QED BY <1>1, <1>2, <1>3
        DEF Orderly, Versioning, Saving, Rowless, UpSteps, vers_

\* One that goes on with the locals it has.
LEMMA GotoOrderly ==
    ASSUME LocalsInv, NamesInv, NEW p \in Procs, NEW l, Goto(p, l), UNCHANGED <<loc, vers_, taken>>,
           l \notin Versioning \cup {"up_charge"}, l \in Rowless => pc[p] \in Rowless,
           l \in Trashing => pc[p] \in Trashing, l \in Restoring => pc[p] \in Restoring,
           RowsFrom, ItemsFrom
    PROVE  Orderly(p)
<1>1. pc'[p] = l /\ loc'[p] = loc[p] /\ loc'[p].ret = "none"
  BY DEF LocalsInv, ProcsOK, Goto, NamesInv, NoVersions
<1>2. OthersStay(p)
  BY DEF LocalsInv, ProcsOK, Goto, OthersStay
<1>3. NewsOf(p)
  BY <1>1 DEF NewsOf, NamesInv, HoldsSettled, KeyOf, RowKey
<1> QED BY <1>1, <1>2, <1>3 DEF Orderly, KeyOf, vers_

\* One that reads something first.
LEMMA ReadOrderly ==
    ASSUME LocalsInv, NEW p \in Procs, NEW l, NEW x, Goto(p, l),
           loc' = [loc EXCEPT ![p] = x], UNCHANGED <<vers_, taken, files, bin>>,
           x.ret = "none",
           l \notin Versioning \cup Rowless, l # "up_charge",
           l \in Trashing => AtHome(x.f) /\ Settled(RowKey(x.f)) /\ x.f.owner = x.user,
           l \in Restoring => InPlace(x.it) /\ Settled(ItemKey(x.it)) /\ x.it.user = x.user
    PROVE  Orderly(p)
<1>1. pc'[p] = l /\ loc'[p] = x
  BY DEF LocalsInv, ProcsOK, Goto
<1>2. OthersStay(p)
  BY DEF LocalsInv, ProcsOK, Goto, OthersStay
<1>3. NewsOf(p)
  BY <1>1 DEF NewsOf
<1> QED BY <1>1, <1>2, <1>3, TablesShrink DEF Orderly, vers_

\* A request that ends with an error.
LEMMA FailOrderly ==
    ASSUME LocalsInv, NEW p \in Procs, Fail(p), UNCHANGED taken
    PROVE  Orderly(p)
  BY ReturnOrderly, TablesShrink DEF Fail, data, files_, bin_, vers_

\* The recycle bin keeps the names apart: what it reads of a row or of an item is
\* of a settled name, and so is what it inserts.
LEMMA RecycleOrderly ==
    ASSUME TypeInv, NamesInv, NEW p \in Procs, RecycleSteps(p)
    PROVE  Orderly(p)
<1>1. LocalsInv /\ loc \in [Procs -> Locals] /\ loc[p] \in Locals /\ UNCHANGED taken
  <2>1. UNCHANGED bounds
    BY DEF RecycleSteps, TrGet, TrRename, TrItem, TrUndo, TrRow,
           ReGet, ReRename, ReRow, ReUndo, ReItem, ReCharge, PdGet, PdBlob, PdRow, EtList,
           EtBlob, EtRows, CuList, CuBlob, CuRows, ListPurge, PurgeBlob, PurgeRows, Attempt
  <2> QED BY <2>1, LocalTypes DEF TypeInv, LocalsInv, ProcsOK, bounds
<1>h. HoldsSettled(p) /\ loc[p].ret = "none" /\ RowsSettled /\ ItemsSettled
  BY DEF NamesInv, NoVersions
<1>2. ASSUME Fail(p) PROVE Orderly(p)
  BY <1>1, <1>2, FailOrderly
<1>3. CASE TrGet(p) /\ ~ Fail(p)
  <2>1. /\ Owned(loc[p].fid, loc[p].user) /\ Goto(p, "tr_rename")
        /\ loc' = [loc EXCEPT ![p].f = files[loc[p].fid]] /\ UNCHANGED data
    BY <1>3 DEF TrGet, Attempt, OrFault
  <2> DEFINE x == [loc[p] EXCEPT !.f = files[loc[p].fid]]
  <2>2. loc' = [loc EXCEPT ![p] = x]
    BY <1>1, <2>1
  <2>3. x.ret = "none" /\ x.f = files[loc[p].fid] /\ x.user = loc[p].user
    BY <1>1, <1>h DEF Locals
  <2>4. AtHome(x.f) /\ Settled(RowKey(x.f)) /\ x.f.owner = x.user
    BY <1>h, <2>1, <2>3 DEF Owned, RowsSettled
  <2>5. "tr_rename" \notin Versioning \cup Rowless \cup Restoring
    BY DEF Versioning, Saving, Rowless, UpSteps, Restoring
  <2> HIDE DEF x
  <2> QED BY <1>1, <2>1, <2>2, <2>3, <2>4, <2>5, ReadOrderly DEF data, files_, bin_, vers_
<1>4. CASE ReGet(p) /\ ~ Fail(p)
  <2>1. /\ OwnedItem(loc[p].id, loc[p].user) /\ Goto(p, "re_rename")
        /\ loc' = [loc EXCEPT ![p].it = bin[loc[p].id]] /\ UNCHANGED data
    BY <1>4 DEF ReGet, Attempt, OrFault
  <2> DEFINE x == [loc[p] EXCEPT !.it = bin[loc[p].id]]
  <2>2. loc' = [loc EXCEPT ![p] = x]
    BY <1>1, <2>1
  <2>3. x.ret = "none" /\ x.it = bin[loc[p].id] /\ x.user = loc[p].user
    BY <1>1, <1>h DEF Locals
  <2>4. InPlace(x.it) /\ Settled(ItemKey(x.it)) /\ x.it.user = x.user
    BY <1>h, <2>1, <2>3 DEF OwnedItem, ItemsSettled
  <2>5. "re_rename" \notin Versioning \cup Rowless \cup Trashing
    BY DEF Versioning, Saving, Rowless, UpSteps, Trashing
  <2> HIDE DEF x
  <2> QED BY <1>1, <2>1, <2>2, <2>3, <2>4, <2>5, ReadOrderly DEF data, files_, bin_, vers_
<1>5. CASE PdGet(p) /\ ~ Fail(p)
  <2>1. /\ Goto(p, "pd_blob")
        /\ loc' = [loc EXCEPT ![p].it = bin[loc[p].id]] /\ UNCHANGED data
    BY <1>5 DEF PdGet, Attempt, OrFault
  <2> DEFINE x == [loc[p] EXCEPT !.it = bin[loc[p].id]]
  <2>2. loc' = [loc EXCEPT ![p] = x]
    BY <1>1, <2>1
  <2>3. x.ret = "none"
    BY <1>1, <1>h DEF Locals
  <2>5. "pd_blob" \notin Versioning \cup Rowless \cup Trashing \cup Restoring
    BY DEF Versioning, Saving, Rowless, UpSteps, Trashing, Restoring
  <2> HIDE DEF x
  <2> QED BY <1>1, <2>1, <2>2, <2>3, <2>5, ReadOrderly DEF data, files_, bin_, vers_
<1>6. CASE (EtList(p) \/ CuList(p)) /\ ~ Fail(p)
  <2>1. PICK t : loc' = [loc EXCEPT ![p].todo = t]
    BY <1>6 DEF EtList, CuList, ListPurge, OrFault
  <2>2. (Goto(p, "et_blobs") \/ Goto(p, "cu_blobs")) /\ UNCHANGED data
    BY <1>6 DEF EtList, CuList, ListPurge, OrFault
  <2> DEFINE x == [loc[p] EXCEPT !.todo = t]
  <2>3. loc' = [loc EXCEPT ![p] = x] /\ x.ret = "none"
    BY <1>1, <1>h, <2>1 DEF Locals
  <2>4. {"et_blobs", "cu_blobs"} \cap (Versioning \cup Rowless \cup Trashing \cup Restoring) = {}
    BY DEF Versioning, Saving, Rowless, UpSteps, Trashing, Restoring
  <2> HIDE DEF x
  <2> QED BY <1>1, <2>2, <2>3, <2>4, ReadOrderly DEF data, files_, bin_, vers_
<1>7. CASE EtBlob(p) \/ CuBlob(p)
  <2>1. PICK q : loc' = [loc EXCEPT ![p].todo = @ \ {q}]
    BY <1>7 DEF EtBlob, CuBlob, PurgeBlob
  <2>2. UNCHANGED <<pc, files_, bin_, vers_>> /\ pc[p] \in {"et_blobs", "cu_blobs"}
    BY <1>7 DEF EtBlob, CuBlob, PurgeBlob
  <2> DEFINE x == [loc[p] EXCEPT !.todo = @ \ {q}]
  <2>3. loc' = [loc EXCEPT ![p] = x] /\ x.ret = "none"
    BY <1>1, <1>h, <2>1 DEF Locals
  <2>4. {"et_blobs", "cu_blobs"} \cap (Versioning \cup Rowless \cup Trashing \cup Restoring) = {}
    BY DEF Versioning, Saving, Rowless, UpSteps, Trashing, Restoring
  <2>5. Goto(p, pc[p])
    BY <1>1, <2>2 DEF Goto, LocalsInv, ProcsOK
  <2> HIDE DEF x
  <2> QED BY <1>1, <2>2, <2>3, <2>4, <2>5, ReadOrderly DEF files_, bin_, vers_
<1>8. CASE (TrRename(p) \/ ReRename(p) \/ PdBlob(p)) /\ ~ Fail(p)
  <2>1. /\ UNCHANGED <<files_, bin_, vers_, loc>>
        /\ \/ pc[p] = "tr_rename" /\ Goto(p, "tr_item")
           \/ pc[p] = "re_rename" /\ Goto(p, "re_row")
           \/ pc[p] = "pd_blob" /\ Goto(p, "pd_row")
    BY <1>8 DEF TrRename, ReRename, PdBlob, Attempt, OrFault
  <2> QED BY <1>1, <2>1, GotoOrderly, TablesShrink
          DEF files_, bin_, vers_, Versioning, Saving, Rowless, UpSteps, Trashing, Restoring
<1>9. CASE TrItem(p)
  <2>1. /\ UNCHANGED <<files_, vers_, loc>> /\ pc[p] = "tr_item"
        /\ Goto(p, "tr_row") \/ Goto(p, "tr_undo")
    BY <1>9 DEF TrItem, OrFault
  <2>2. ItemsFrom
    <3>1. CASE UNCHANGED bin
      BY <3>1, TablesShrink
    <3>2. CASE bin' # bin
      <4> DEFINE item == [user |-> loc[p].user, fid |-> loc[p].fid, orig |-> loc[p].f.path,
                          name |-> loc[p].f.name, slot |-> SlotOf(loc[p]),
                          size |-> loc[p].f.size, expired |-> FALSE]
      <4>1. bin' = Insert(bin, nextItem, item)
        BY <1>9, <3>2 DEF TrItem, OrFault, bin_
      <4>2. AtHome(loc[p].f) /\ Settled(KeyOf(p)) /\ loc[p].f.owner = loc[p].user
        BY <1>h, <2>1 DEF HoldsSettled, Trashing
      <4>3. InPlace(item) /\ Settled(ItemKey(item))
        BY <4>2 DEF InPlace, AtHome, ItemKey, KeyOf, SlotOf
      <4> HIDE DEF item
      <4> QED BY <4>1, <4>3 DEF ItemsFrom, Insert
    <3> QED BY <3>1, <3>2
  <2> QED BY <1>1, <2>1, <2>2, GotoOrderly, TablesShrink
          DEF files_, vers_, Versioning, Saving, Rowless, UpSteps, Trashing, Restoring
<1>10. CASE ReRow(p)
  <2>1. /\ UNCHANGED <<bin_, vers_, loc>> /\ pc[p] = "re_row"
        /\ Goto(p, "re_item") \/ Goto(p, "re_undo")
    BY <1>10 DEF ReRow, OrFault
  <2>2. RowsFrom
    <3>1. CASE UNCHANGED files
      BY <3>1, TablesShrink
    <3>2. CASE files' # files
      <4> DEFINE row == [owner |-> loc[p].user, parent |-> Root, name |-> loc[p].it.name,
                         path |-> loc[p].it.orig, size |-> loc[p].it.size, sha |-> 0,
                         e2ee |-> FALSE]
      <4>1. files' = Insert(files, nextFile, row)
        BY <1>10, <3>2 DEF ReRow, OrFault, files_
      <4>2. InPlace(loc[p].it) /\ Settled(ItemKey(loc[p].it)) /\ loc[p].it.user = loc[p].user
        BY <1>h, <2>1 DEF HoldsSettled, Restoring
      <4>3. AtHome(row) /\ Settled(RowKey(row))
        BY <4>2 DEF InPlace, AtHome, ItemKey, RowKey
      <4> HIDE DEF row
      <4> QED BY <4>1, <4>3 DEF RowsFrom, Insert
    <3> QED BY <3>1, <3>2
  <2> QED BY <1>1, <2>1, <2>2, GotoOrderly, TablesShrink
          DEF bin_, vers_, Versioning, Saving, Rowless, UpSteps, Trashing, Restoring
<1>11. CASE ReItem(p) /\ ~ Fail(p)
  <2>1. /\ UNCHANGED <<files_, vers_, loc>> /\ Goto(p, "re_charge")
        /\ bin' = Remove(bin, {loc[p].id})
    BY <1>11 DEF ReItem, OrFault
  <2> QED BY <1>1, <2>1, GotoOrderly, TablesShrink
          DEF files_, vers_, Versioning, Saving, Rowless, UpSteps, Trashing, Restoring
<1>12. CASE TrRow(p) /\ ~ Fail(p)
  <2>1. /\ UNCHANGED <<nextVer, bin_, loc>> /\ Goto(p, "de_charge")
        /\ files' = Remove(files, {loc[p].fid}) /\ CascadeVersions(loc[p].fid)
    BY <1>12 DEF TrRow, OrFault
  <2>2. UNCHANGED vers
    BY <2>1 DEF CascadeVersions, VersionsOf, NamesInv, NoVersions, Empty, Remove
  <2> QED BY <1>1, <2>1, <2>2, GotoOrderly, TablesShrink
          DEF bin_, vers_, Versioning, Saving, Rowless, UpSteps, Trashing, Restoring
<1>13. CASE TrUndo(p) \/ ReUndo(p) \/ ReCharge(p)
  <2>1. Return(p) /\ UNCHANGED <<files_, bin_, vers_>>
    BY <1>13 DEF TrUndo, ReUndo, ReCharge
  <2> QED BY <1>1, <2>1, ReturnOrderly, TablesShrink DEF files_, bin_
<1>14. CASE PdRow(p) \/ EtRows(p) \/ CuRows(p)
  <2>1. Return(p) /\ UNCHANGED <<files_, vers_>>
    BY <1>14 DEF PdRow, EtRows, CuRows, PurgeRows
  <2>2. UNCHANGED bin \/ \E ks : bin' = Remove(bin, ks)
    BY <1>14 DEF PdRow, EtRows, CuRows, PurgeRows, OrFault
  <2> QED BY <1>1, <2>1, <2>2, ReturnOrderly, TablesShrink DEF files_
<1> QED BY <1>2, <1>3, <1>4, <1>5, <1>6, <1>7, <1>8, <1>9, <1>10, <1>11, <1>12, <1>13, <1>14
        DEF RecycleSteps

\* No row has the name of an upload that has no row yet.
LEMMA NothingToSave ==
    ASSUME NamesInv, NEW p \in Procs, pc[p] \in Rowless, NEW u, NEW d,
           NEW f \in ListByParent(u, d), u = loc[p].f.owner
    PROVE  files[f].name # loc[p].f.name
<1>1. f \in DOMAIN files /\ files[f].owner = u
  BY DEF ListByParent, Page
<1>2. Settled(RowKey(files[f])) /\ ~ Settled(KeyOf(p))
  BY <1>1 DEF NamesInv, RowsSettled, Settled
<1> QED BY <1>1, <1>2 DEF RowKey, KeyOf

\* The steps of uploads and deletions, but for the insertion of a row.
LEMMA UploadOrderly ==
    ASSUME TypeInv, NamesInv, NEW p \in Procs,
           UpList(p) \/ UpWrite(p) \/ UpQuota(p) \/ UpRename(p) \/ UpCharge(p)
           \/ DeGet(p) \/ DeCharge(p)
    PROVE  Orderly(p)
<1>1. LocalsInv /\ loc \in [Procs -> Locals] /\ loc[p] \in Locals /\ UNCHANGED taken
  <2>1. UNCHANGED bounds
    BY DEF UpList, UpWrite, UpQuota, UpRename, UpCharge, DeGet, DeCharge, Attempt
  <2> QED BY <2>1, LocalTypes DEF TypeInv, LocalsInv, ProcsOK, bounds
<1>h. loc[p].ret = "none"
  BY DEF NamesInv, NoVersions
<1>s. /\ {"up_list", "up_write", "up_quota", "up_rename", "up_row"} = Rowless
      /\ Rowless \cap (Versioning \cup Trashing \cup Restoring) = {}
  BY DEF Versioning, Saving, Rowless, UpSteps, Trashing, Restoring
<1>2. CASE UpList(p)
  <2>1. pc[p] = "up_list" /\ UNCHANGED <<files, bin, vers_>>
    BY <1>2 DEF UpList, data, files_, bin_
  <2>2. {f \in ListByParent(loc[p].f.owner, loc[p].f.parent) :
            files[f].name = loc[p].f.name} = {}
    BY <1>s, <2>1, NothingToSave
  <2>3. Goto(p, "up_write") /\ UNCHANGED loc
    BY <1>2, <2>2 DEF UpList, OrFault
  <2> QED BY <1>1, <1>s, <2>1, <2>3, GotoOrderly, TablesShrink
<1>3. CASE UpWrite(p) /\ ~ Return(p)
  <2>1. /\ pc[p] = "up_write" /\ Goto(p, "up_quota") /\ UNCHANGED <<files_, bin_, vers_>>
        /\ loc' = [loc EXCEPT ![p].f.sha = nextBlob, ![p].ret = "none"]
    BY <1>3 DEF UpWrite, OrFault
  <2>2. loc[p].f \in FileRow
    BY <1>1, LocalTypes DEF LocalsInv
  <2>3. /\ \A r \in Procs \ {p} : loc'[r] = loc[r]
        /\ loc'[p].ret = "none" /\ loc'[p].f.path = loc[p].f.path
        /\ loc'[p].f.owner = loc[p].f.owner /\ loc'[p].f.name = loc[p].f.name
    BY <1>1, <2>1, <2>2 DEF Locals, FileRow
  <2>4. pc'[p] = "up_quota" /\ OthersStay(p)
    BY <1>1, <2>1, <2>3 DEF OthersStay, Goto, LocalsInv, ProcsOK
  <2>5. NewsOf(p)
    BY <1>s, <2>4 DEF NewsOf
  <2> QED BY <1>1, <1>s, <2>1, <2>3, <2>4, <2>5, TablesShrink
          DEF Orderly, KeyOf, files_, bin_, vers_
<1>4. CASE (UpQuota(p) \/ UpRename(p)) /\ ~ Return(p)
  <2>1. /\ pc[p] \in Rowless /\ (Goto(p, "up_rename") \/ Goto(p, "up_row"))
        /\ UNCHANGED <<files_, bin_, vers_, loc>>
    BY <1>4, <1>s DEF UpQuota, UpRename, OrFault
  <2> QED BY <1>1, <1>s, <2>1, GotoOrderly, TablesShrink DEF files_, bin_
<1>5. CASE /\ UpWrite(p) \/ UpQuota(p) \/ UpRename(p) \/ UpCharge(p) \/ DeCharge(p)
           /\ Return(p)
  <2>1. UNCHANGED <<files_, bin_, vers_>>
    BY <1>5 DEF UpWrite, UpQuota, UpRename, UpCharge, DeCharge
  <2> QED BY <1>1, <1>5, <2>1, ReturnOrderly, TablesShrink DEF files_, bin_
<1>6. CASE DeGet(p) /\ ~ Fail(p)
  <2>1. /\ loc' = [loc EXCEPT ![p].size = files[loc[p].fid].size]
        /\ Goto(p, "tr_get") /\ UNCHANGED data
    BY <1>6 DEF DeGet, Attempt, OrFault
  <2> DEFINE x == [loc[p] EXCEPT !.size = files[loc[p].fid].size]
  <2>2. loc' = [loc EXCEPT ![p] = x]
    BY <1>1, <2>1
  <2>3. x.ret = "none"
    BY <1>1, <1>h DEF Locals
  <2>4. "tr_get" \notin Versioning \cup Rowless \cup Trashing \cup Restoring
    BY DEF Versioning, Saving, Rowless, UpSteps, Trashing, Restoring
  <2> HIDE DEF x
  <2> QED BY <1>1, <2>1, <2>2, <2>3, <2>4, ReadOrderly DEF data, files_, bin_, vers_
<1>7. CASE DeGet(p) /\ Fail(p)
  BY <1>1, <1>7, FailOrderly
<1> QED BY <1>2, <1>3, <1>4, <1>5, <1>6, <1>7 DEF UpCharge, DeCharge

\* The row of an upload is the first of its name.
LEMMA UpRowNames ==
    ASSUME TypeInv, NamesInv, NEW p \in Procs, UpRow(p)
    PROVE  NamesInv'
<1>1. LocalsInv /\ UNCHANGED <<bounds, taken>>
  BY DEF TypeInv, UpRow, Attempt, bounds
<1>2. CASE Fail(p)
  BY <1>1, <1>2, FailOrderly, OrderlyNames
<1>3. CASE ~ Fail(p)
  <2>1. /\ pc[p] = "up_row" /\ Goto(p, "up_charge") /\ files' = Insert(files, nextFile, loc[p].f)
        /\ UNCHANGED <<bin_, vers_, loc>>
    BY <1>3 DEF UpRow, Attempt, OrFault
  <2>2. pc'[p] = "up_charge" /\ OthersStay(p)
    BY <1>1, <2>1 DEF LocalsInv, ProcsOK, Goto, OthersStay
  <2>3. \A r \in Procs : pc'[r] \in Rowless \cup Trashing \cup Restoring =>
            r # p /\ pc'[r] = pc[r]
    BY <2>2 DEF OthersStay, Rowless, UpSteps, Trashing, Restoring
  <2>4. \A k : Settled(k) => Settled(k)'
    BY <1>1, <2>1, <2>3 DEF Settled, KeyOf
  <2>5. AtHome(loc[p].f) /\ Settled(KeyOf(p))'
    <3>1. pc[p] \in Rowless
      BY <2>1 DEF Rowless
    <3>2. AtHome(loc[p].f) /\ KeyOf(p) \in taken
      BY <3>1 DEF NamesInv, Alone
    <3>3. \A r \in Procs : pc'[r] \in Rowless => KeyOf(r) # KeyOf(p)
      BY <2>3, <3>1 DEF NamesInv, Alone
    <3> QED BY <1>1, <2>1, <3>2, <3>3 DEF Settled, KeyOf
  <2>6. NoVersions'
    <3>1. "up_charge" \notin Versioning
      BY DEF Versioning, Saving
    <3> QED BY <2>1, <2>2, <3>1 DEF NamesInv, NoVersions, OthersStay, vers_
  <2>7. Alone'
    BY <1>1, <2>1, <2>3 DEF NamesInv, Alone, KeyOf
  <2>8. RowsSettled'
    <3>1. \A f \in DOMAIN files' :
            (f \in DOMAIN files /\ files'[f] = files[f]) \/ files'[f] = loc[p].f
      BY <2>1 DEF Insert
    <3>2. loc'[p].f = loc[p].f
      BY <2>1
    <3> QED BY <2>4, <2>5, <3>1, <3>2 DEF NamesInv, RowsSettled, RowKey, KeyOf
  <2>9. ItemsSettled'
    BY <2>1, <2>4 DEF NamesInv, ItemsSettled, bin_
  <2>10. \A r \in Procs : HoldsSettled(r)'
    BY <2>1, <2>3, <2>4 DEF NamesInv, HoldsSettled, KeyOf
  <2> QED BY <2>6, <2>7, <2>8, <2>9, <2>10 DEF NamesInv
<1> QED BY <1>2, <1>3

\* A version step knows of a version, and there is none.
LEMMA NoVersionSteps ==
    ASSUME NamesInv, NEW p \in Procs
    PROVE  ~ VersionSteps(p) /\ ~ VersionCalls(p)
<1>1. ~ VersionSteps(p)
  <2>1. pc[p] \notin Versioning
    BY DEF NamesInv, NoVersions
  <2> QED BY <2>1
          DEF Versioning, Saving, VersionSteps, SvNum, SvCopy, SvRow, PrCount, PrOldest,
              PrBlob, PrRow, RvFile, RvVer, RvExists, RvCopy, RvRow, DvFile, DvGet, DvBlob, DvRow
<1>2. 1..(nextVer - 1) = {}
  BY DEF NamesInv, NoVersions
<1>3. ~ VersionCalls(p)
  BY <1>2 DEF VersionCalls, RestoreVersion, DeleteVersion
<1> QED BY <1>1, <1>3

\* The other requests, and the ticker, begin with a reading.
LEMMA CallOrderly ==
    ASSUME TypeInv, NamesInv, NEW p \in Procs, Delete(p) \/ RecycleCalls(p)
    PROVE  Orderly(p)
<1>1. LocalsInv /\ NoLocals.ret = "none"
  BY NoLocalsOK DEF TypeInv
<1>s. {"de_get", "re_get", "pd_get", "et_list", "cu_list"} \cap
          (Versioning \cup Rowless \cup Trashing \cup Restoring) = {}
  BY DEF Versioning, Saving, Rowless, UpSteps, Trashing, Restoring
<1>2. ASSUME NEW op, NEW l \in {"de_get", "re_get", "pd_get", "et_list"}, NEW x,
             Call(p, op, l, x), UNCHANGED taken, x.ret = "none"
      PROVE  Orderly(p)
  <2>1. Goto(p, l) /\ loc' = [loc EXCEPT ![p] = x] /\ UNCHANGED data
    BY <1>2 DEF Call
  <2> QED BY <1>1, <1>2, <1>s, <2>1, ReadOrderly DEF data, files_, bin_, vers_
<1>3. CASE Delete(p)
  <2>1. PICK u, f :
          /\ Call(p, "delete", "de_get", [NoLocals EXCEPT !.user = u, !.fid = f])
          /\ UNCHANGED <<taken, uploads>>
    BY <1>3 DEF Delete
  <2>2. [NoLocals EXCEPT !.user = u, !.fid = f].ret = "none"
    BY <1>1 DEF NoLocals
  <2> QED BY <1>2, <2>1, <2>2
<1>4. CASE Restore(p)
  <2>1. PICK u, i :
          /\ Call(p, "restore", "re_get", [NoLocals EXCEPT !.user = u, !.id = i])
          /\ UNCHANGED <<taken, uploads>>
    BY <1>4 DEF Restore
  <2>2. [NoLocals EXCEPT !.user = u, !.id = i].ret = "none"
    BY <1>1 DEF NoLocals
  <2> QED BY <1>2, <2>1, <2>2
<1>5. CASE PermanentlyDelete(p)
  <2>1. PICK u, i :
          /\ Call(p, "purge", "pd_get", [NoLocals EXCEPT !.user = u, !.id = i])
          /\ UNCHANGED <<taken, uploads>>
    BY <1>5 DEF PermanentlyDelete
  <2>2. [NoLocals EXCEPT !.user = u, !.id = i].ret = "none"
    BY <1>1 DEF NoLocals
  <2> QED BY <1>2, <2>1, <2>2
<1>6. CASE EmptyTrash(p)
  <2>1. PICK u :
          /\ Call(p, "empty", "et_list", [NoLocals EXCEPT !.user = u])
          /\ UNCHANGED <<taken, uploads>>
    BY <1>6 DEF EmptyTrash
  <2>2. [NoLocals EXCEPT !.user = u].ret = "none"
    BY <1>1 DEF NoLocals
  <2> QED BY <1>2, <2>1, <2>2
<1>7. CASE CleanupExpired(p)
  <2>1. Goto(p, "cu_list") /\ UNCHANGED <<data, loc, bounds>>
    BY <1>7 DEF CleanupExpired
  <2> QED BY <1>1, <1>s, <2>1, GotoOrderly, TablesShrink DEF data, files_, bin_, vers_, bounds
<1> QED BY <1>3, <1>4, <1>5, <1>6, <1>7 DEF RecycleCalls

\* An upload that begins: nobody has had its name.
LEMMA FreshUpload ==
    ASSUME TypeInv, FreshNames, NEW p \in Procs, Upload(p)
    PROVE  \E k : /\ k \notin taken /\ taken' = taken \cup {k}
                  /\ OthersStay(p) /\ UNCHANGED data
                  /\ pc'[p] = "up_list" /\ KeyOf(p)' = k
                  /\ loc'[p].ret = "none" /\ AtHome(loc'[p].f)
<1> DEFINE row(u, d, n, s, e) ==
             [owner |-> u, parent |-> d, name |-> n, path |-> Home(u, n),
              size |-> s, sha |-> 0, e2ee |-> e]
           x(u, r) == [NoLocals EXCEPT !.user = u, !.f = r]
<1>1. PICK u, n, d, s, e :
        /\ <<u, n>> \notin taken
        /\ Call(p, "upload", "up_list", x(u, row(u, d, n, s, e)))
        /\ taken' = taken \cup {<<u, n>>}
  BY Zenon DEF Upload
<1> DEFINE r == row(u, d, n, s, e)
<1>2. /\ pc' = [pc EXCEPT ![p] = "up_list"] /\ loc' = [loc EXCEPT ![p] = x(u, r)]
      /\ UNCHANGED data
  <2> HIDE DEF x, row
  <2> QED BY <1>1 DEF Call, Goto
<1>3. r.owner = u /\ r.name = n /\ AtHome(r)
  BY DEF AtHome
<1>4. x(u, r).ret = "none" /\ x(u, r).f = r
  <2> HIDE DEF r
  <2> QED BY NoLocalsOK DEF NoLocals
<1> HIDE DEF x, r
<1>5. pc'[p] = "up_list" /\ loc'[p] = x(u, r) /\ OthersStay(p)
  BY <1>2 DEF OthersStay, TypeInv, LocalsInv, ProcsOK
<1> QED BY <1>1, <1>2, <1>3, <1>4, <1>5 DEF KeyOf

\* Its start keeps the names apart.
LEMMA UploadNames ==
    ASSUME TypeInv, NamesInv, FreshNames, NEW p \in Procs, Upload(p)
    PROVE  NamesInv'
<1>1. PICK k : /\ k \notin taken /\ taken' = taken \cup {k}
               /\ OthersStay(p) /\ UNCHANGED data
               /\ pc'[p] = "up_list" /\ KeyOf(p)' = k
               /\ loc'[p].ret = "none" /\ AtHome(loc'[p].f)
  BY FreshUpload
<1>2. /\ UNCHANGED <<files, bin, vers, nextVer>>
      /\ \A r \in Procs \ {p} : /\ pc'[r] = pc[r] /\ loc'[r] = loc[r]
                                /\ KeyOf(r)' = KeyOf(r)
  BY <1>1 DEF data, files_, bin_, vers_, OthersStay, KeyOf
<1>3. \A h : Settled(h) => Settled(h)'
  BY <1>1, <1>2 DEF Settled
<1>4. "up_list" \notin Versioning \cup Trashing \cup Restoring
  BY DEF Versioning, Saving, Trashing, Restoring
<1>5. NoVersions'
  BY <1>1, <1>2, <1>4 DEF NamesInv, NoVersions
<1>6. Alone'
  <2>1. \A r \in Procs \ {p} : pc'[r] \in Rowless =>
            AtHome(loc'[r].f) /\ KeyOf(r)' \in taken /\ KeyOf(r)' # k
    BY <1>1, <1>2 DEF NamesInv, Alone
  <2>2. \A r, q \in Procs \ {p} :
            r # q /\ pc'[r] \in Rowless /\ pc'[q] \in Rowless => KeyOf(r)' # KeyOf(q)'
    BY <1>2 DEF NamesInv, Alone
  <2> QED BY <1>1, <2>1, <2>2 DEF Alone
<1>7. RowsSettled' /\ ItemsSettled'
  BY <1>2, <1>3 DEF NamesInv, RowsSettled, ItemsSettled
<1>8. \A r \in Procs : HoldsSettled(r)'
  BY <1>1, <1>2, <1>3, <1>4 DEF NamesInv, HoldsSettled
<1> QED BY <1>5, <1>6, <1>7, <1>8 DEF NamesInv

\* After a crash nobody holds anything.
LEMMA CrashNames ==
    ASSUME NamesInv, Crash
    PROVE  NamesInv'
<1>1. /\ UNCHANGED <<files, bin, vers, nextVer, taken>>
      /\ \A p \in Procs : pc'[p] = "idle" /\ loc'[p].ret = "none"
  BY NoLocalsOK DEF Crash, data, files_, bin_, vers_
<1>2. "idle" \notin Versioning \cup Rowless \cup Trashing \cup Restoring
  BY DEF Versioning, Saving, Rowless, UpSteps, Trashing, Restoring
<1>3. \A k : Settled(k) => Settled(k)'
  BY <1>1, <1>2 DEF Settled
<1> QED BY <1>1, <1>2, <1>3
        DEF NamesInv, NoVersions, Alone, RowsSettled, ItemsSettled, HoldsSettled

\* The names of an item outlast its retention.
LEMMA ExpireNames ==
    ASSUME NamesInv, NEW i \in DOMAIN bin, Expire(i)
    PROVE  NamesInv'
<1>1. /\ UNCHANGED <<files, vers, nextVer, taken, pc, loc>>
      /\ bin' = [bin EXCEPT ![i].expired = TRUE]
  BY DEF Expire, files_, vers_, bounds
<1>2. bin'[i] = [bin[i] EXCEPT !.expired = TRUE]
  BY <1>1
<1>3. /\ DOMAIN bin' = DOMAIN bin
      /\ \A j \in DOMAIN bin :
            /\ bin'[j].user = bin[j].user /\ bin'[j].name = bin[j].name
            /\ bin'[j].fid = bin[j].fid /\ bin'[j].orig = bin[j].orig
            /\ bin'[j].slot = bin[j].slot
  BY <1>1, <1>2
<1>4. \A k : Settled(k) => Settled(k)'
  BY <1>1 DEF Settled, KeyOf
<1>5. ItemsSettled'
  BY <1>3, <1>4 DEF NamesInv, ItemsSettled, InPlace, ItemKey
<1>6. RowsSettled'
  BY <1>1, <1>4 DEF NamesInv, RowsSettled
<1>7. \A r \in Procs : HoldsSettled(r)'
  BY <1>1, <1>4 DEF NamesInv, HoldsSettled, KeyOf
<1>8. NoVersions' /\ Alone'
  BY <1>1 DEF NamesInv, NoVersions, Alone, KeyOf
<1> QED BY <1>5, <1>6, <1>7, <1>8 DEF NamesInv

\* Every step keeps the names apart.
LEMMA StepNames == FreshNames /\ TypeInv /\ NamesInv /\ [Next]_vars => NamesInv'
<1> SUFFICES ASSUME FreshNames, TypeInv, NamesInv, [Next]_vars PROVE NamesInv'
  OBVIOUS
<1>1. CASE UNCHANGED vars
  <2>1. UNCHANGED <<files, bin, vers, nextVer, taken, pc, loc>>
    BY <1>1 DEF vars
  <2> QED BY <2>1 DEF NamesInv, NoVersions, Alone, RowsSettled, ItemsSettled, HoldsSettled,
                      Settled, KeyOf
<1>2. ASSUME NEW p \in Procs, Calls(p) PROVE NamesInv'
  BY <1>2, UploadNames, CallOrderly, OrderlyNames, NoVersionSteps DEF Calls
<1>3. ASSUME NEW p \in Procs, Steps(p) PROVE NamesInv'
  BY <1>3, UploadOrderly, UpRowNames, RecycleOrderly, OrderlyNames, NoVersionSteps DEF Steps
<1>4. ASSUME NEW i \in DOMAIN bin, Expire(i) PROVE NamesInv'
  BY <1>4, ExpireNames
<1>5. CASE Crash
  BY <1>5, CrashNames
<1> QED BY <1>1, <1>2, <1>3, <1>4, <1>5 DEF Next

------------------------------------------------------------------------------
(* What is due stays.                                                       *)

\* What is stored was stored before, under the same name; a temporary file was
\* where it is.
Carried ==
    \A r \in DOMAIN store' : \E q \in DOMAIN store :
        PathKey(q) = PathKey(r) /\ store'[r] = store[q] /\ (r.kind = "tmp" => q = r)

\* The upload of p is where it was: before its write, before its rename, or after.
SameStage(p) ==
    /\ pc'[p] \in {"up_list", "up_write"} =>
           pc[p] \in {"up_list", "up_write"} /\ KeyOf(p)' = KeyOf(p)
    /\ pc'[p] \in {"up_quota", "up_rename"} =>
           pc[p] \in {"up_quota", "up_rename"} /\ loc'[p].f.sha = loc[p].f.sha
    /\ pc'[p] \in {"up_row", "up_charge"} =>
           pc[p] \in {"up_row", "up_charge"} /\ loc'[p].f.sha = loc[p].f.sha

\* A step that moves what is stored, and makes nothing more due, keeps all that.
LEMMA BytesCarried ==
    ASSUME BytesInv, NEW p \in Procs, OthersStay(p), SameStage(p), Carried, OnePath',
           UNCHANGED nextBlob, Due' \subseteq Due, DueKept'
    PROVE  BytesInv'
<1> USE DEF BytesInv
<1>1. \A r \in Procs : pc'[r] \in {"up_list", "up_write"} =>
          pc[r] \in {"up_list", "up_write"} /\ KeyOf(r)' = KeyOf(r)
  BY DEF OthersStay, SameStage, KeyOf
<1>2. Unwritten'
  BY <1>1 DEF Unwritten, Carried
<1>3. OwnBytes'
  <2> SUFFICES ASSUME NEW x \in DOMAIN store', NEW y \in DOMAIN store', x # y,
                      store'[x].id = store'[y].id
               PROVE  store'[x].id = 0
    BY DEF OwnBytes
  <2>1. PICK q \in DOMAIN store : PathKey(q) = PathKey(x) /\ store'[x] = store[q]
    BY DEF Carried
  <2>2. PICK r \in DOMAIN store : PathKey(r) = PathKey(y) /\ store'[y] = store[r]
    BY DEF Carried
  <2>3. q # r
    BY <2>1, <2>2 DEF OnePath
  <2> QED BY <2>1, <2>2, <2>3 DEF OwnBytes
<1>4. DueWritten'
  BY DEF DueWritten
<1>5. TmpNotDue'
  BY DEF TmpNotDue, Carried
<1>6. ShaWritten'
  <2>1. \A r \in Procs : pc'[r] \in {"up_quota", "up_rename"} =>
            pc[r] \in {"up_quota", "up_rename"} /\ loc'[r].f.sha = loc[r].f.sha
    BY DEF OthersStay, SameStage
  <2> QED BY <2>1 DEF ShaWritten
<1> QED BY <1>2, <1>3, <1>4, <1>5, <1>6

\* Answers apart, only an upload's rename makes something due.
LEMMA DueShrinks ==
    ASSUME NEW p \in Procs, OthersStay(p), SameStage(p), UNCHANGED acked
    PROVE  Due' \subseteq Due
<1>1. \A r \in Procs : pc'[r] \in {"up_row", "up_charge"} =>
          pc[r] \in {"up_row", "up_charge"} /\ loc'[r].f.sha = loc[r].f.sha
  BY DEF OthersStay, SameStage
<1> QED BY <1>1 DEF Due

\* The store is left alone, by a step other than the start of an upload.
LEMMA BytesStay ==
    ASSUME BytesInv, NEW p \in Procs, OthersStay(p), SameStage(p),
           UNCHANGED <<store, nextBlob, erased, taken>>, Due' \subseteq Due
    PROVE  BytesInv'
<1>1. Carried
  BY DEF Carried
<1>2. OnePath'
  BY DEF BytesInv, OnePath
<1>3. DueKept'
  BY DEF BytesInv, DueKept, IdsAt
<1> QED BY <1>1, <1>2, <1>3, BytesCarried

\* Paths are deleted, and what they held is recorded as erased or is not due.
LEMMA BytesErased ==
    ASSUME BytesInv, NEW p \in Procs, OthersStay(p), SameStage(p), UNCHANGED <<nextBlob, taken>>,
           Due' \subseteq Due, NEW qs, store' = Remove(store, qs),
           \/ erased' = erased \cup IdsAt(qs)
           \/ erased' = erased /\ \A q \in qs : q.kind = "tmp"
    PROVE  BytesInv'
<1>1. DOMAIN store' = DOMAIN store \ qs /\ \A q \in DOMAIN store' : store'[q] = store[q]
  BY DEF Remove
<1>2. Carried
  BY <1>1 DEF Carried
<1>3. OnePath'
  BY <1>1 DEF BytesInv, OnePath
<1>4. DueKept'
  <2> SUFFICES ASSUME NEW x \in Due, x \notin erased'
               PROVE  \E q \in DOMAIN store' : store'[q].id = x
    BY DEF DueKept, IdsAt
  <2>1. x \notin erased
    BY DEF IdsAt
  <2>2. PICK q \in DOMAIN store : store[q].id = x
    BY <2>1 DEF BytesInv, DueKept, IdsAt
  <2>3. q \notin qs
    BY <2>2 DEF BytesInv, TmpNotDue, IdsAt
  <2> QED BY <1>1, <2>2, <2>3
<1> QED BY <1>2, <1>3, <1>4, BytesCarried

\* A rename within a name replaces nothing.
LEMMA RenameCarries ==
    ASSUME OnePath, NEW q \in DOMAIN store, NEW r, PathKey(q) = PathKey(r), r.kind # "tmp",
           store' = Renamed(q, r), UNCHANGED taken
    PROVE  /\ Carried /\ OnePath' /\ IdsAt(DOMAIN store)' = IdsAt(DOMAIN store)
           /\ q = r \/ q \notin DOMAIN store'
<1>1. /\ DOMAIN store' = (DOMAIN store \ {q}) \cup {r}
      /\ \A x \in DOMAIN store' : store'[x] = IF x = r THEN store[q] ELSE store[x]
  BY DEF Renamed, Insert, Remove
<1>2. \A x \in DOMAIN store : x = r => x = q
  BY DEF OnePath
<1>3. Carried
  BY <1>1 DEF Carried
<1>4. OnePath'
  BY <1>1 DEF OnePath
<1>5. IdsAt(DOMAIN store)' = IdsAt(DOMAIN store)
  <2>1. \A x \in DOMAIN store : \E y \in DOMAIN store' : store'[y] = store[x]
    BY <1>1, <1>2
  <2>2. \A y \in DOMAIN store' : \E x \in DOMAIN store : store'[y] = store[x]
    BY <1>1
  <2> QED BY <2>1, <2>2 DEF IdsAt
<1> QED BY <1>1, <1>3, <1>4, <1>5

\* So it keeps what is due.
LEMMA BytesRenamed ==
    ASSUME BytesInv, NEW p \in Procs, OthersStay(p), SameStage(p),
           UNCHANGED <<nextBlob, erased, taken>>, Due' \subseteq Due,
           NEW q \in DOMAIN store, NEW r, PathKey(q) = PathKey(r), r.kind # "tmp",
           store' = Renamed(q, r)
    PROVE  BytesInv'
<1>1. /\ Carried /\ OnePath' /\ IdsAt(DOMAIN store)' = IdsAt(DOMAIN store)
  BY RenameCarries DEF BytesInv
<1>2. DueKept'
  BY <1>1 DEF BytesInv, DueKept
<1> QED BY <1>1, <1>2, BytesCarried

\* A step of another request is of no upload's stage.
LEMMA OtherStage ==
    ASSUME NEW p \in Procs, Orderly(p), pc[p] \notin Rowless
    PROVE  SameStage(p)
  BY DEF Orderly, SameStage, Rowless, UpSteps

\* The recycle bin moves bytes within a name, or erases them.
LEMMA RecycleBytes ==
    ASSUME TypeInv, NamesInv, BytesInv, NEW p \in Procs, RecycleSteps(p)
    PROVE  BytesInv'
<1> DEFINE l == loc[p]
<1>1. Orderly(p)
  BY RecycleOrderly
<1>2. pc[p] \notin Rowless
  BY DEF Rowless, UpSteps, RecycleSteps, TrGet, TrRename, TrItem, TrUndo, TrRow,
         ReGet, ReRename, ReRow, ReUndo, ReItem, ReCharge, PdGet, PdBlob, PdRow,
         EtList, EtBlob, EtRows, CuList, CuBlob, CuRows, ListPurge, PurgeBlob, PurgeRows
<1>3. OthersStay(p) /\ SameStage(p) /\ UNCHANGED taken
  BY <1>1, <1>2, OtherStage DEF Orderly
<1>4. HoldsSettled(p)
  BY DEF NamesInv
<1>5. ASSUME UNCHANGED <<store_, ghosts>> PROVE BytesInv'
  BY <1>3, <1>5, DueShrinks, BytesStay DEF store_, ghosts
<1>6. ASSUME NEW qs, Erase(qs) PROVE BytesInv'
  BY <1>3, <1>6, DueShrinks, BytesErased DEF Erase
<1>7. ASSUME NEW q \in DOMAIN store, NEW r, PathKey(q) = PathKey(r), r.kind # "tmp",
             store' = Renamed(q, r), UNCHANGED <<nextBlob, ghosts>>
      PROVE  BytesInv'
  BY <1>3, <1>7, DueShrinks, BytesRenamed DEF ghosts
<1>8. CASE \/ TrGet(p) \/ TrItem(p) \/ TrRow(p) \/ ReGet(p) \/ ReRow(p) \/ ReItem(p)
           \/ ReCharge(p) \/ PdGet(p) \/ PdRow(p) \/ EtList(p) \/ EtRows(p) \/ CuList(p)
           \/ CuRows(p)
  <2>1. UNCHANGED <<store_, ghosts>>
    BY <1>8 DEF TrGet, TrItem, TrRow, ReGet, ReRow, ReItem, ReCharge, PdGet, PdRow, EtList,
                EtRows, CuList, CuRows, ListPurge, PurgeRows, Attempt, OrFault, Fail, data
  <2> QED BY <1>5, <2>1
<1>9. CASE PdBlob(p)
  <2>1. Erase({l.it.slot}) \/ UNCHANGED <<store_, ghosts>>
    BY <1>9 DEF PdBlob, OrFault, Fail, data
  <2> QED BY <1>5, <1>6, <2>1
<1>10. CASE EtBlob(p) \/ CuBlob(p)
  <2>1. (\E q : Erase({q})) \/ UNCHANGED <<store_, ghosts>>
    BY <1>10 DEF EtBlob, CuBlob, PurgeBlob, OrFault
  <2> QED BY <1>5, <1>6, <2>1
<1>11. CASE TrRename(p) \/ TrUndo(p)
  <2>1. pc[p] \in Trashing
    BY <1>11 DEF TrRename, TrUndo, Trashing
  <2>2. l.f.path = Home(l.f.owner, l.f.name) /\ l.f.owner = l.user
    BY <1>4, <2>1 DEF HoldsSettled, AtHome
  <2>3. /\ PathKey(l.f.path) = PathKey(SlotOf(l))
        /\ l.f.path.kind = "home" /\ SlotOf(l).kind = "trash"
    BY <2>2 DEF PathKey, SlotOf, TrashSlot, Home
  <2>4. \/ UNCHANGED <<store_, ghosts>>
        \/ /\ l.f.path \in DOMAIN store /\ store' = Renamed(l.f.path, SlotOf(l))
           /\ UNCHANGED <<nextBlob, ghosts>>
        \/ /\ SlotOf(l) \in DOMAIN store /\ store' = Renamed(SlotOf(l), l.f.path)
           /\ UNCHANGED <<nextBlob, ghosts>>
    BY <1>11 DEF TrRename, TrUndo, Attempt, OrFault, Fail, data, store_
  <2> QED BY <1>5, <1>7, <2>3, <2>4
<1>12. CASE ReRename(p) \/ ReUndo(p)
  <2>1. pc[p] \in Restoring
    BY <1>12 DEF ReRename, ReUndo, Restoring
  <2>2. InPlace(l.it)
    BY <1>4, <2>1 DEF HoldsSettled
  <2>3. /\ PathKey(l.it.orig) = PathKey(l.it.slot)
        /\ l.it.orig.kind = "home" /\ l.it.slot.kind = "trash"
    BY <2>2 DEF InPlace, PathKey, TrashSlot, Home
  <2>4. \/ UNCHANGED <<store_, ghosts>>
        \/ /\ l.it.slot \in DOMAIN store /\ store' = Renamed(l.it.slot, l.it.orig)
           /\ UNCHANGED <<nextBlob, ghosts>>
        \/ /\ l.it.orig \in DOMAIN store /\ store' = Renamed(l.it.orig, l.it.slot)
           /\ UNCHANGED <<nextBlob, ghosts>>
    BY <1>12 DEF ReRename, ReUndo, Attempt, OrFault, Fail, data, store_
  <2> QED BY <1>5, <1>7, <2>3, <2>4
<1> QED BY <1>8, <1>9, <1>10, <1>11, <1>12 DEF RecycleSteps

\* The steps of uploads and deletions that leave the store alone.
LEMMA ApartBytes ==
    ASSUME TypeInv, NamesInv, BytesInv, NEW p \in Procs,
           UpList(p) \/ UpRow(p) \/ UpCharge(p) \/ DeGet(p) \/ DeCharge(p)
    PROVE  BytesInv'
<1>1. /\ UNCHANGED <<store, nextBlob, erased, taken>>
      /\ UNCHANGED acked \/ (pc[p] = "up_charge" /\ acked' = acked \cup {loc[p].f.sha})
  BY DEF UpList, UpRow, UpCharge, DeGet, DeCharge, Attempt, OrFault, Fail, data, store_,
         ghosts, bounds
<1>2. pc \in [Procs -> Labels] /\ loc \in [Procs -> Locals]
  BY DEF TypeInv, LocalsInv, ProcsOK
<1>3. OthersStay(p) /\ SameStage(p)
  <2>1. CASE UpRow(p)
    <3>1. pc[p] = "up_row" /\ (Return(p) \/ (Goto(p, "up_charge") /\ UNCHANGED loc))
      BY <2>1 DEF UpRow, Attempt, OrFault, Fail
    <3> QED BY <1>2, <3>1 DEF Goto, Return, OthersStay, SameStage
  <2>2. CASE UpList(p)
    <3>1. Orderly(p) /\ pc[p] = "up_list"
      BY <2>2, UploadOrderly DEF UpList
    <3>2. pc'[p] \in {"up_list", "up_write", "sv_num", "idle"}
      BY <1>2, <2>2 DEF UpList, OrFault, Goto
    <3> QED BY <3>1, <3>2 DEF Orderly, SameStage, Rowless, UpSteps
  <2>3. CASE UpCharge(p) \/ DeGet(p) \/ DeCharge(p)
    <3>1. Orderly(p) /\ pc[p] \notin Rowless
      BY <2>3, UploadOrderly DEF Rowless, UpSteps, UpCharge, DeGet, DeCharge
    <3> QED BY <3>1, OtherStage DEF Orderly
  <2> QED BY <2>1, <2>2, <2>3
<1>4. Due' \subseteq Due
  <2>1. CASE UNCHANGED acked
    BY <1>3, <2>1, DueShrinks
  <2>2. CASE pc[p] = "up_charge" /\ acked' = acked \cup {loc[p].f.sha}
    <3>1. \A r \in Procs : pc'[r] \in {"up_row", "up_charge"} =>
              pc[r] \in {"up_row", "up_charge"} /\ loc'[r].f.sha = loc[r].f.sha
      BY <1>3 DEF OthersStay, SameStage
    <3> QED BY <2>2, <3>1 DEF Due
  <2> QED BY <1>1, <2>1, <2>2
<1> QED BY <1>1, <1>3, <1>4, BytesStay

\* What an upload writes, or leaves of a failed write, is at a path nobody has.
LEMMA TmpWritten ==
    ASSUME TypeInv, NamesInv, BytesInv, NEW p \in Procs, pc[p] = "up_write", OthersStay(p),
           UNCHANGED <<acked, erased, taken>>,
           NEW b, store' = Insert(store, TmpOf(p), b),
           \/ /\ b.id = nextBlob /\ nextBlob' = nextBlob + 1
              /\ pc'[p] = "up_quota" /\ loc'[p].f.sha = nextBlob
           \/ b.id = 0 /\ nextBlob' = nextBlob /\ pc'[p] = "idle"
    PROVE  BytesInv'
<1> DEFINE tmp == TmpOf(p)
<1>1. PathKey(tmp) = KeyOf(p) /\ tmp.kind = "tmp"
  BY DEF TmpOf, Tmp, Home, PathKey, KeyOf
<1>2. /\ KeyOf(p) \in taken
      /\ \A r \in Procs \ {p} : pc[r] \in {"up_list", "up_write"} => KeyOf(r) # KeyOf(p)
  BY DEF NamesInv, Alone, Rowless, UpSteps
<1>3. \A q \in DOMAIN store : PathKey(q) # KeyOf(p)
  BY DEF BytesInv, Unwritten
<1> HIDE DEF tmp
<1>4. /\ DOMAIN store' = DOMAIN store \cup {tmp} /\ store'[tmp] = b
      /\ \A q \in DOMAIN store : store'[q] = store[q]
  BY <1>1, <1>3 DEF Insert, tmp
<1>5. nextBlob \in Nat \ {0} /\ \A q \in DOMAIN store : store[q].id \in Nat /\ store[q].id < nextBlob
  BY BlobsOK DEF TypeInv, StoreOK
<1>6. Due' \subseteq Due
  BY DEF Due, OthersStay
<1>7. OnePath'
  <2>1. \A q \in DOMAIN store' : PathKey(q) \in taken'
    BY <1>1, <1>2, <1>4 DEF BytesInv, OnePath
  <2>2. \A q, r \in DOMAIN store' : PathKey(q) = PathKey(r) => q = r
    BY <1>1, <1>3, <1>4 DEF BytesInv, OnePath
  <2> QED BY <2>1, <2>2 DEF OnePath
<1>8. Unwritten'
  <2> SUFFICES ASSUME NEW r \in Procs, pc'[r] \in {"up_list", "up_write"}
               PROVE  \A q \in DOMAIN store' : PathKey(q) # KeyOf(r)'
    BY DEF Unwritten
  <2>1. r # p /\ pc[r] \in {"up_list", "up_write"} /\ KeyOf(r)' = KeyOf(r)
    BY DEF OthersStay, KeyOf
  <2>2. \A q \in DOMAIN store : PathKey(q) # KeyOf(r)
    BY <2>1 DEF BytesInv, Unwritten
  <2> QED BY <1>1, <1>2, <1>4, <2>1, <2>2
<1>9. OwnBytes'
  BY <1>4, <1>5 DEF BytesInv, OwnBytes
<1>10. DueKept'
  BY <1>4, <1>6 DEF BytesInv, DueKept, IdsAt
<1>11. DueWritten'
  <2>1. 1..(nextBlob - 1) \subseteq 1..(nextBlob' - 1)
    BY <1>5
  <2> QED BY <1>6, <2>1 DEF BytesInv, DueWritten
<1>12. TmpNotDue'
  <2>1. b.id \notin Due
    BY <1>5 DEF BytesInv, DueWritten
  <2> QED BY <1>4, <1>6, <2>1 DEF BytesInv, TmpNotDue
<1>13. ShaWritten'
  <2> SUFFICES ASSUME NEW r \in Procs, pc'[r] \in {"up_quota", "up_rename"}
               PROVE  loc'[r].f.sha \in 1..(nextBlob' - 1)
    BY DEF ShaWritten
  <2>1. CASE r = p
    BY <1>5, <2>1
  <2>2. CASE r # p
    <3>1. loc'[r].f.sha \in 1..(nextBlob - 1)
      BY <2>2 DEF OthersStay, BytesInv, ShaWritten
    <3> QED BY <1>5, <3>1
  <2> QED BY <2>1, <2>2
<1> QED BY <1>7, <1>8, <1>9, <1>10, <1>11, <1>12, <1>13 DEF BytesInv

\* An upload that ends with an error.
LEMMA UploadReturns ==
    ASSUME TypeInv, NEW p \in Procs, Return(p)
    PROVE  OthersStay(p) /\ SameStage(p) /\ pc'[p] = "idle"
  BY DEF TypeInv, LocalsInv, ProcsOK, Return, OthersStay, SameStage

\* The temporary file of an upload is no due bytes.
LEMMA TmpDropped ==
    ASSUME TypeInv, BytesInv, NEW p \in Procs, Return(p),
           UNCHANGED <<nextBlob, acked, erased, taken>>,
           UNCHANGED store \/ store' = Remove(store, {TmpOf(p)})
    PROVE  BytesInv'
<1>1. OthersStay(p) /\ SameStage(p) /\ Due' \subseteq Due
  BY UploadReturns, DueShrinks
<1>2. TmpOf(p).kind = "tmp"
  BY TmpOfKey DEF TmpOf
<1> QED BY <1>1, <1>2, BytesStay, BytesErased

\* The rename of an upload makes its bytes due, and puts them at their path.
LEMMA UpRenameBytes ==
    ASSUME TypeInv, UpInv, NamesInv, BytesInv, NEW p \in Procs, pc[p] = "up_rename",
           Goto(p, "up_row"), store' = Renamed(TmpOf(p), loc[p].f.path),
           UNCHANGED <<loc, nextBlob, acked, erased, taken>>
    PROVE  BytesInv'
<1> DEFINE tmp == TmpOf(p)
           home == loc[p].f.path
           sha == loc[p].f.sha
<1>1. pc'[p] = "up_row" /\ \A r \in Procs \ {p} : pc'[r] = pc[r]
  BY DEF TypeInv, LocalsInv, ProcsOK, Goto
<1>2. home = Home(loc[p].f.owner, loc[p].f.name)
  BY DEF NamesInv, Alone, AtHome, Rowless, UpSteps
<1>3. /\ PathKey(tmp) = PathKey(home) /\ tmp.kind = "tmp" /\ home.kind = "home"
  BY <1>2 DEF TmpOf, Tmp, Home, PathKey
<1>4. tmp \in DOMAIN store /\ store[tmp].id = sha
  BY DEF UpInv, TmpHeld
<1>5. sha \in 1..(nextBlob - 1)
  BY DEF BytesInv, ShaWritten
<1>6. Due' \subseteq Due \cup {sha}
  BY <1>1 DEF Due
<1> HIDE DEF tmp, home
<1>r. store' = Renamed(tmp, home)
  BY DEF tmp, home
<1>7. /\ Carried /\ OnePath' /\ IdsAt(DOMAIN store)' = IdsAt(DOMAIN store)
      /\ tmp \notin DOMAIN store'
  BY <1>r, <1>3, <1>4, RenameCarries DEF BytesInv
<1>8. Unwritten'
  <2>1. \A r \in Procs : pc'[r] \in {"up_list", "up_write"} =>
            pc[r] \in {"up_list", "up_write"} /\ KeyOf(r)' = KeyOf(r)
    BY <1>1 DEF KeyOf
  <2> QED BY <1>7, <2>1 DEF BytesInv, Unwritten, Carried
<1>9. OwnBytes'
  <2> SUFFICES ASSUME NEW x \in DOMAIN store', NEW y \in DOMAIN store', x # y,
                      store'[x].id = store'[y].id
               PROVE  store'[x].id = 0
    BY DEF OwnBytes
  <2>1. PICK q \in DOMAIN store : PathKey(q) = PathKey(x) /\ store'[x] = store[q]
    BY <1>7 DEF Carried
  <2>2. PICK r \in DOMAIN store : PathKey(r) = PathKey(y) /\ store'[y] = store[r]
    BY <1>7 DEF Carried
  <2>3. q # r
    BY <1>7, <2>1, <2>2 DEF OnePath
  <2> QED BY <2>1, <2>2, <2>3 DEF BytesInv, OwnBytes
<1>10. DueKept'
  <2>1. sha \in IdsAt(DOMAIN store)
    BY <1>4 DEF IdsAt
  <2> QED BY <1>6, <1>7, <2>1 DEF BytesInv, DueKept
<1>11. DueWritten'
  BY <1>5, <1>6 DEF BytesInv, DueWritten
<1>12. TmpNotDue'
  <2> SUFFICES ASSUME NEW x \in DOMAIN store', x.kind = "tmp" PROVE store'[x].id \notin Due'
    BY DEF TmpNotDue
  <2>1. x \in DOMAIN store /\ store'[x] = store[x] /\ x # tmp
    BY <1>7 DEF Carried
  <2>2. store[x].id # sha
    BY <1>4, <1>5, <2>1 DEF BytesInv, OwnBytes
  <2>3. store[x].id \notin Due
    BY <2>1 DEF BytesInv, TmpNotDue
  <2> QED BY <1>6, <2>1, <2>2, <2>3
<1>13. ShaWritten'
  BY <1>1 DEF BytesInv, ShaWritten
<1> QED BY <1>7, <1>8, <1>9, <1>10, <1>11, <1>12, <1>13 DEF BytesInv

\* The write, the quota check and the rename of an upload.
LEMMA TmpBytes ==
    ASSUME TypeInv, UpInv, NamesInv, BytesInv, NEW p \in Procs,
           UpWrite(p) \/ UpQuota(p) \/ UpRename(p)
    PROVE  BytesInv'
<1>1. UNCHANGED <<acked, erased, taken>> /\ Orderly(p)
  BY UploadOrderly DEF UpWrite, UpQuota, UpRename, ghosts, bounds
<1>2. CASE UpWrite(p) /\ ~ Return(p)
  <2> DEFINE b == [id |-> nextBlob, size |-> loc[p].f.size, e2ee |-> loc[p].f.e2ee]
  <2>1. /\ pc[p] = "up_write" /\ Goto(p, "up_quota") /\ nextBlob' = nextBlob + 1
        /\ store' = Insert(store, TmpOf(p), b)
        /\ loc' = [loc EXCEPT ![p].f.sha = nextBlob, ![p].ret = "none"]
    BY <1>2 DEF UpWrite, OrFault, TmpOf
  <2>2. loc[p].f \in FileRow /\ loc \in [Procs -> Locals] /\ loc[p] \in Locals
    BY LocalTypes DEF TypeInv, LocalsInv, ProcsOK
  <2>3. loc'[p].f.sha = nextBlob
    BY <2>1, <2>2 DEF Locals, FileRow
  <2>4. pc'[p] = "up_quota" /\ b.id = nextBlob
    BY <2>1 DEF Goto, TypeInv, LocalsInv, ProcsOK
  <2> HIDE DEF b
  <2> QED BY <1>1, <2>1, <2>3, <2>4, TmpWritten DEF Orderly
<1>3. CASE UpWrite(p) /\ Return(p)
  <2>1. /\ pc[p] = "up_write" /\ pc'[p] = "idle" /\ OthersStay(p)
    BY <1>3, UploadReturns DEF UpWrite
  <2>2. CASE UpWrite(p) /\ nextBlob' = nextBlob
    <3>1. \/ UNCHANGED store \/ store' = Remove(store, {TmpOf(p)})
          \/ store' = Insert(store, TmpOf(p), Torn)
      <4>1. nextBlob \in Nat
        BY DEF TypeInv, StoreOK
      <4> QED BY <2>2, <4>1 DEF UpWrite, OrFault, DropTmp, TmpOf
    <3>2. Torn.id = 0
      BY DEF Torn
    <3> QED BY <1>1, <1>3, <2>1, <2>2, <3>1, <3>2, TmpDropped, TmpWritten
  <2>3. nextBlob' = nextBlob
    <3>1. ~ Goto(p, "up_quota")
      BY <2>1 DEF Goto, TypeInv, LocalsInv, ProcsOK
    <3> QED BY <1>3, <3>1 DEF UpWrite, OrFault
  <2> QED BY <1>3, <2>2, <2>3
<1>4. CASE UpQuota(p) /\ ~ Return(p)
  <2>1. /\ pc[p] = "up_quota" /\ Goto(p, "up_rename")
        /\ UNCHANGED <<store, loc, nextBlob>>
    BY <1>4 DEF UpQuota, OrFault
  <2>2. SameStage(p)
    BY <2>1 DEF SameStage, Goto, TypeInv, LocalsInv, ProcsOK
  <2> QED BY <1>1, <2>1, <2>2, DueShrinks, BytesStay DEF Orderly
<1>5. CASE UpRename(p) /\ ~ Return(p)
  <2>1. /\ pc[p] = "up_rename" /\ Goto(p, "up_row") /\ UNCHANGED <<loc, nextBlob>>
        /\ store' = Renamed(TmpOf(p), loc[p].f.path)
    BY <1>5 DEF UpRename, OrFault, TmpOf
  <2> QED BY <1>1, <2>1, UpRenameBytes
<1>6. CASE (UpQuota(p) \/ UpRename(p)) /\ Return(p)
  <2>1. pc'[p] = "idle"
    BY <1>6, UploadReturns
  <2>2. ~ Goto(p, "up_rename") /\ ~ Goto(p, "up_row")
    BY <2>1 DEF Goto, TypeInv, LocalsInv, ProcsOK
  <2>3. /\ UNCHANGED nextBlob
        /\ UNCHANGED store \/ store' = Remove(store, {TmpOf(p)})
    BY <1>6, <2>2 DEF UpQuota, UpRename, OrFault, DropTmp, TmpOf
  <2> QED BY <1>1, <1>6, <2>3, TmpDropped
<1> QED BY <1>2, <1>3, <1>4, <1>5, <1>6

------------------------------------------------------------------------------
(* The theorem.                                                             *)

\* An upload that begins has nothing in storage, the other requests nothing yet.
LEMMA CallBytes ==
    ASSUME TypeInv, NamesInv, BytesInv, FreshNames, NEW p \in Procs, Calls(p)
    PROVE  BytesInv'
<1>1. UNCHANGED data
  BY DEF Calls, Upload, Delete, RecycleCalls, Restore, PermanentlyDelete, EmptyTrash,
         CleanupExpired, VersionCalls, RestoreVersion, DeleteVersion, Call
<1>2. UNCHANGED <<store, nextBlob, acked, erased>>
  BY <1>1 DEF data, store_, ghosts
<1>3. CASE Delete(p) \/ RecycleCalls(p)
  <2>1. Orderly(p)
    BY <1>3, CallOrderly
  <2>2. pc[p] = "idle"
    BY <1>3 DEF Delete, RecycleCalls, Restore, PermanentlyDelete, EmptyTrash, CleanupExpired, Call
  <2>3. SameStage(p) /\ OthersStay(p) /\ UNCHANGED taken
    BY <2>1, <2>2, OtherStage DEF Orderly, Rowless, UpSteps
  <2> QED BY <1>2, <2>3, DueShrinks, BytesStay
<1>4. CASE Upload(p)
  <2>1. PICK k : /\ k \notin taken /\ taken' = taken \cup {k} /\ OthersStay(p)
                 /\ pc'[p] = "up_list" /\ KeyOf(p)' = k
    BY <1>4, FreshUpload
  <2>2. Due' \subseteq Due
    BY <1>2, <2>1 DEF Due, OthersStay
  <2>3. OnePath'
    BY <1>2, <2>1 DEF BytesInv, OnePath
  <2>4. Unwritten'
    <3> SUFFICES ASSUME NEW r \in Procs, pc'[r] \in {"up_list", "up_write"}
                 PROVE  \A q \in DOMAIN store : PathKey(q) # KeyOf(r)'
      BY <1>2 DEF Unwritten
    <3>1. CASE r = p
      BY <2>1, <3>1 DEF BytesInv, OnePath
    <3>2. CASE r # p
      BY <2>1, <3>2 DEF BytesInv, Unwritten, OthersStay, KeyOf
    <3> QED BY <3>1, <3>2
  <2>5. OwnBytes' /\ TmpNotDue' /\ DueWritten'
    BY <1>2, <2>2 DEF BytesInv, OwnBytes, TmpNotDue, DueWritten
  <2>6. DueKept'
    BY <1>2, <2>2 DEF BytesInv, DueKept, IdsAt
  <2>7. ShaWritten'
    BY <1>2, <2>1 DEF BytesInv, ShaWritten, OthersStay
  <2> QED BY <2>3, <2>4, <2>5, <2>6, <2>7 DEF BytesInv
<1> QED BY <1>3, <1>4, NoVersionSteps DEF Calls

\* A crash leaves nothing due but what was answered; an expiry touches no bytes.
LEMMA CrashBytes ==
    ASSUME BytesInv, Crash \/ (\E i \in DOMAIN bin : Expire(i)) \/ UNCHANGED vars
    PROVE  BytesInv'
<1>1. UNCHANGED <<store, nextBlob, acked, erased, taken>>
  BY DEF Crash, Expire, vars, data, store_, ghosts, bounds
<1>2. UNCHANGED <<pc, loc>> \/ \A p \in Procs : pc'[p] = "idle"
  BY DEF Crash, Expire, vars
<1>3. Due' \subseteq Due
  BY <1>1, <1>2 DEF Due
<1>4. OnePath' /\ OwnBytes' /\ TmpNotDue' /\ DueWritten'
  BY <1>1, <1>3 DEF BytesInv, OnePath, OwnBytes, TmpNotDue, DueWritten
<1>5. DueKept'
  BY <1>1, <1>3 DEF BytesInv, DueKept, IdsAt
<1>6. Unwritten' /\ ShaWritten'
  BY <1>1, <1>2 DEF BytesInv, Unwritten, ShaWritten, KeyOf
<1> QED BY <1>4, <1>5, <1>6 DEF BytesInv

\* Every step keeps what is due.
LEMMA StepBytes ==
    FreshNames /\ Inv /\ NamesInv /\ BytesInv /\ [Next]_vars => BytesInv'
<1> SUFFICES ASSUME FreshNames, Inv, NamesInv, BytesInv, [Next]_vars PROVE BytesInv'
  OBVIOUS
<1>1. ASSUME NEW p \in Procs, Calls(p) PROVE BytesInv'
  BY <1>1, CallBytes DEF Inv
<1>2. ASSUME NEW p \in Procs, Steps(p) PROVE BytesInv'
  BY <1>2, ApartBytes, TmpBytes, RecycleBytes, NoVersionSteps DEF Steps, Inv
<1> QED BY <1>1, <1>2, CrashBytes DEF Next

\* Nothing is named or stored at the start.
LEMMA InitLoss == Init => LossInv
<1> SUFFICES ASSUME Init PROVE LossInv
  OBVIOUS
<1>1. \A p \in Procs : pc[p] = "idle" /\ loc[p].ret = "none"
  BY NoLocalsOK DEF Init
<1>2. "idle" \notin Versioning \cup Rowless \cup Trashing \cup Restoring
  BY DEF Versioning, Saving, Rowless, UpSteps, Trashing, Restoring
<1>3. files = Empty /\ bin = Empty /\ vers = Empty /\ nextVer = 1 /\ store = Empty /\ acked = {}
  BY DEF Init
<1>4. DOMAIN files = {} /\ DOMAIN bin = {} /\ DOMAIN store = {}
  BY <1>3 DEF Empty
<1>5. NamesInv
  BY <1>1, <1>2, <1>3, <1>4
     DEF NamesInv, NoVersions, Alone, RowsSettled, ItemsSettled, HoldsSettled
<1>6. Due = {}
  BY <1>1, <1>3 DEF Due
<1>7. BytesInv
  BY <1>1, <1>4, <1>6
     DEF BytesInv, OnePath, Unwritten, OwnBytes, DueKept, DueWritten, TmpNotDue, ShaWritten
<1> QED BY <1>5, <1>7, InitInv DEF LossInv

\* Where no user uploads a name twice, the bytes of an upload that was answered with
\* success stay somewhere in storage until a purge deletes them: whatever is deleted,
\* restored and purged at the same time, whichever statement or system call fails, and
\* whenever the process dies.
THEOREM AnsweredUploadsStay == ASSUME FreshNames PROVE Spec => []NoSilentLoss
<1>1. LossInv /\ [Next]_vars => LossInv'
  BY StepInv, StepNames, StepBytes DEF LossInv, Inv
<1>2. LossInv => NoSilentLoss
  BY DEF LossInv, BytesInv, DueKept, Due, NoSilentLoss
<1> QED BY <1>1, <1>2, InitLoss, PTL DEF Spec

------------------------------------------------------------------------------
(* Temporary files, where nothing fails: names may be uploaded over again,  *)
(* and versions taken.                                                      *)

\* A temporary file is of an upload between its write and its rename.
TmpOwned ==
    \A q \in DOMAIN store : q.kind = "tmp" =>
        \E p \in Procs : pc[p] \in {"up_quota", "up_rename"} /\ TmpOf(p) = q

\* No temporary file is made.
NoNewTmp == \A q \in DOMAIN store' : q.kind = "tmp" => q \in DOMAIN store

\* Statements on other paths make none.
LEMMA OtherPaths ==
    ASSUME \/ UNCHANGED store
           \/ \E qs : store' = Remove(store, qs)
           \/ \E q, b : store' = Insert(store, q, b) /\ q.kind # "tmp"
           \/ \E q, r : store' = Renamed(q, r) /\ r.kind # "tmp"
    PROVE  NoNewTmp
<1>1. ASSUME NEW qs, store' = Remove(store, qs) PROVE NoNewTmp
  BY <1>1 DEF NoNewTmp, Remove
<1>2. ASSUME NEW q, NEW b, store' = Insert(store, q, b), q.kind # "tmp" PROVE NoNewTmp
  BY <1>2 DEF NoNewTmp, Insert
<1>3. ASSUME NEW q, NEW r, store' = Renamed(q, r), r.kind # "tmp" PROVE NoNewTmp
  BY <1>3 DEF NoNewTmp, Renamed, Insert, Remove
<1>4. CASE UNCHANGED store
  BY <1>4 DEF NoNewTmp
<1> QED BY <1>1, <1>2, <1>3, <1>4

\* The recycle bin and the versions make none.
LEMMA ServicesNoTmp ==
    ASSUME TypeInv, NEW p \in Procs, RecycleSteps(p) \/ VersionSteps(p)
    PROVE  NoNewTmp
<1> DEFINE l == loc[p]
<1>1. /\ l.f.path.kind # "tmp" /\ l.g.path.kind # "tmp" /\ l.it.orig.kind # "tmp"
      /\ l.it.slot.kind # "tmp" /\ l.snap.path.kind # "tmp" /\ SlotOf(l).kind # "tmp"
  BY NoTmpKnown DEF TypeInv
<1>2. CASE RecycleSteps(p)
  <2>1. \/ UNCHANGED store
        \/ \E qs : store' = Remove(store, qs)
        \/ \E q, r : store' = Renamed(q, r) /\ r.kind # "tmp"
    <3>1. CASE \/ TrGet(p) \/ TrItem(p) \/ TrRow(p) \/ ReGet(p) \/ ReRow(p) \/ ReItem(p)
               \/ ReCharge(p) \/ PdGet(p) \/ PdRow(p) \/ EtList(p) \/ EtRows(p) \/ CuList(p)
               \/ CuRows(p)
      BY <3>1 DEF TrGet, TrItem, TrRow, ReGet, ReRow, ReItem, ReCharge, PdGet, PdRow, EtList,
                  EtRows, CuList, CuRows, ListPurge, PurgeRows, Attempt, OrFault, Fail, data, store_
    <3>2. CASE TrRename(p) \/ TrUndo(p)
      BY <1>1, <3>2 DEF TrRename, TrUndo, Attempt, OrFault, Fail, data, store_
    <3>3. CASE ReRename(p) \/ ReUndo(p)
      BY <1>1, <3>3 DEF ReRename, ReUndo, Attempt, OrFault, Fail, data, store_
    <3>4. CASE PdBlob(p) \/ EtBlob(p) \/ CuBlob(p)
      BY <3>4 DEF PdBlob, EtBlob, CuBlob, PurgeBlob, Erase, OrFault, Fail, data, store_
    <3> QED BY <1>2, <3>1, <3>2, <3>3, <3>4 DEF RecycleSteps
  <2> QED BY <2>1, OtherPaths
<1>3. CASE VersionSteps(p)
  <2>1. \/ UNCHANGED store
        \/ \E qs : store' = Remove(store, qs)
        \/ \E q, b : store' = Insert(store, q, b) /\ q.kind # "tmp"
    <3>1. CASE \/ SvNum(p) \/ PrCount(p) \/ PrOldest(p) \/ PrRow(p) \/ RvFile(p) \/ RvVer(p)
               \/ RvExists(p) \/ RvRow(p) \/ DvFile(p) \/ DvGet(p) \/ DvRow(p)
      BY <3>1 DEF SvNum, PrCount, PrOldest, PrRow, RvFile, RvVer, RvExists, RvRow, DvFile,
                  DvGet, DvRow, Attempt, OrFault, Fail, data, store_
    <3>2. CASE SvCopy(p) \/ RvCopy(p)
      BY <1>1, <3>2 DEF SvCopy, RvCopy, OrFault
    <3>3. CASE SvRow(p) \/ PrBlob(p) \/ DvBlob(p)
      BY <3>3 DEF SvRow, SvUndo, PrBlob, DvBlob, Erase, OrFault, store_
    <3> QED BY <1>3, <3>1, <3>2, <3>3 DEF VersionSteps
  <2> QED BY <2>1, OtherPaths
<1> QED BY <1>2, <1>3

\* With a bound of no fault nothing fails.
LEMMA NoFaults ==
    ASSUME GhostsOK, MaxFaults = 0
    PROVE  ~ (faults < MaxFaults)
  BY DEF GhostsOK

\* The steps of an upload rename or delete what it has written.
LEMMA UploadTmp ==
    ASSUME TypeInv, TmpOwned, MaxFaults = 0, NEW p \in Procs,
           UpWrite(p) \/ UpQuota(p) \/ UpRename(p)
    PROVE  TmpOwned'
<1> DEFINE tmp == TmpOf(p)
<1>1. OthersStay(p)
  BY OneMoves DEF Steps
<1>2. ~ (faults < MaxFaults) /\ pc \in [Procs -> Labels] /\ loc \in [Procs -> Locals]
  BY NoFaults DEF TypeInv, LocalsInv, ProcsOK
<1>3. \A r \in Procs \ {p} : pc'[r] = pc[r] /\ TmpOf(r)' = TmpOf(r)
  BY <1>1 DEF OthersStay, TmpOf
<1>4. ASSUME \A q \in DOMAIN store' : q.kind = "tmp" => q \in DOMAIN store /\ q # tmp
      PROVE  TmpOwned'
  BY <1>3, <1>4 DEF TmpOwned
<1>5. ASSUME \A q \in DOMAIN store' : q.kind = "tmp" => q = tmp \/ q \in DOMAIN store,
             pc'[p] \in {"up_quota", "up_rename"}, TmpOf(p)' = tmp
      PROVE  TmpOwned'
  <2> SUFFICES ASSUME NEW q \in DOMAIN store', q.kind = "tmp"
               PROVE  \E r \in Procs : pc'[r] \in {"up_quota", "up_rename"} /\ TmpOf(r)' = q
    BY DEF TmpOwned
  <2>1. CASE q = tmp
    BY <1>5, <2>1
  <2>2. CASE q # tmp
    BY <1>3, <1>5, <2>2 DEF TmpOwned
  <2> QED BY <2>1, <2>2
<1>6. loc[p].f.path.kind # "tmp" /\ loc[p] \in Locals /\ loc[p].f \in FileRow
  BY NoTmpKnown, LocalTypes DEF TypeInv, LocalsInv
<1>7. CASE UpWrite(p)
  <2>1. /\ Goto(p, "up_quota") /\ loc' = [loc EXCEPT ![p].f.sha = nextBlob, ![p].ret = "none"]
        /\ \E b : store' = Insert(store, tmp, b)
    BY <1>2, <1>7 DEF UpWrite, OrFault, TmpOf
  <2>2. loc'[p].f.owner = loc[p].f.owner /\ loc'[p].f.name = loc[p].f.name
    BY <1>2, <1>6, <2>1 DEF Locals, FileRow
  <2>3. pc'[p] = "up_quota" /\ TmpOf(p)' = tmp
    BY <1>2, <2>1, <2>2 DEF Goto, TmpOf
  <2> HIDE DEF tmp
  <2>4. DOMAIN store' = DOMAIN store \cup {tmp}
    BY <2>1 DEF Insert
  <2> QED BY <1>5, <2>3, <2>4
<1>8. CASE UpQuota(p)
  <2>1. \/ Goto(p, "up_rename") /\ UNCHANGED <<store, loc>>
        \/ store' = Remove(store, {tmp})
    BY <1>2, <1>8 DEF UpQuota, OrFault, TmpOf
  <2>2. CASE Goto(p, "up_rename") /\ UNCHANGED <<store, loc>>
    BY <1>2, <1>5, <2>2 DEF Goto, TmpOf
  <2>3. CASE store' = Remove(store, {tmp})
    <3> HIDE DEF tmp
    <3> QED BY <1>4, <2>3 DEF Remove
  <2> QED BY <2>1, <2>2, <2>3
<1>9. CASE UpRename(p)
  <2>1. store' = Renamed(tmp, loc[p].f.path)
    BY <1>2, <1>9 DEF UpRename, OrFault, TmpOf
  <2> HIDE DEF tmp
  <2>2. \A q \in DOMAIN store' : q = loc[p].f.path \/ (q \in DOMAIN store /\ q # tmp)
    BY <2>1 DEF Renamed, Insert, Remove
  <2> QED BY <1>4, <1>6, <2>2
<1> QED BY <1>7, <1>8, <1>9

\* Every step that does not fail leaves a temporary file with its upload.
LEMMA StepTmp ==
    ASSUME TypeInv, TmpOwned, MaxFaults = 0, MaxCrashes = 0, [Next]_vars
    PROVE  TmpOwned'
<1>1. ASSUME NEW p \in Procs, OthersStay(p), NoNewTmp, pc[p] \notin {"up_quota", "up_rename"}
      PROVE  TmpOwned'
  <2>1. \A r \in Procs : pc[r] \in {"up_quota", "up_rename"} =>
            pc'[r] = pc[r] /\ TmpOf(r)' = TmpOf(r)
    BY <1>1 DEF OthersStay, TmpOf
  <2> QED BY <1>1, <2>1 DEF TmpOwned, NoNewTmp
<1>2. ASSUME NEW p \in Procs, Calls(p) PROVE TmpOwned'
  <2>1. UNCHANGED data /\ pc[p] = "idle"
    BY <1>2 DEF Calls, Upload, Delete, RecycleCalls, Restore, PermanentlyDelete, EmptyTrash,
                CleanupExpired, VersionCalls, RestoreVersion, DeleteVersion, Call
  <2>2. NoNewTmp
    BY <2>1, OtherPaths DEF data, store_
  <2> QED BY <1>1, <1>2, <2>1, <2>2, OneMoves
<1>3. ASSUME NEW p \in Procs, Steps(p) PROVE TmpOwned'
  <2>1. CASE UpWrite(p) \/ UpQuota(p) \/ UpRename(p)
    BY <2>1, UploadTmp
  <2>2. CASE UpList(p) \/ UpRow(p) \/ UpCharge(p) \/ DeGet(p) \/ DeCharge(p)
    <3>1. UNCHANGED store /\ pc[p] \notin {"up_quota", "up_rename"}
      BY <2>2 DEF UpList, UpRow, UpCharge, DeGet, DeCharge, Attempt, OrFault, Fail, data, store_
    <3> QED BY <1>1, <1>3, <3>1, OneMoves, OtherPaths
  <2>3. CASE RecycleSteps(p)
    <3>1. pc[p] \notin {"up_quota", "up_rename"}
      BY <2>3 DEF RecycleSteps, TrGet, TrRename, TrItem, TrUndo, TrRow,
           ReGet, ReRename, ReRow, ReUndo, ReItem, ReCharge, PdGet, PdBlob, PdRow, EtList,
           EtBlob, EtRows, CuList, CuBlob, CuRows, ListPurge, PurgeBlob, PurgeRows
    <3> QED BY <1>1, <1>3, <2>3, <3>1, OneMoves, ServicesNoTmp
  <2>4. CASE VersionSteps(p)
    <3>1. pc[p] \notin {"up_quota", "up_rename"}
      BY <2>4 DEF VersionSteps, SvNum, SvCopy, SvRow, PrCount, PrOldest, PrBlob, PrRow,
           RvFile, RvVer, RvExists, RvCopy, RvRow, DvFile, DvGet, DvBlob, DvRow
    <3> QED BY <1>1, <1>3, <2>4, <3>1, OneMoves, ServicesNoTmp
  <2> QED BY <1>3, <2>1, <2>2, <2>3, <2>4 DEF Steps
<1>4. CASE (\E i \in DOMAIN bin : Expire(i)) \/ UNCHANGED vars
  <2>1. UNCHANGED <<store, pc, loc>>
    BY <1>4 DEF Expire, vars, store_
  <2> QED BY <2>1 DEF TmpOwned, TmpOf
<1>5. CASE Crash
  BY <1>5 DEF Crash, TypeInv, GhostsOK
<1> QED BY <1>2, <1>3, <1>4, <1>5 DEF Next

\* Where nothing fails and the process does not die, no temporary file outlives the
\* upload that wrote it, however many uploads, overwrites and restores are at work.
THEOREM TemporaryFilesGo == ASSUME MaxFaults = 0, MaxCrashes = 0 PROVE Spec => []NoTmpLeft
<1>1. Init => TmpOwned
  BY DEF Init, Empty, TmpOwned
<1>2. Inv /\ TmpOwned /\ [Next]_vars => TmpOwned'
  BY StepTmp DEF Inv
<1>3. TmpOwned => NoTmpLeft
  BY DEF TmpOwned, NoTmpLeft, Quiet
<1> QED BY <1>1, <1>2, <1>3, StorageInvariant, PTL DEF Spec

------------------------------------------------------------------------------
(* File rows and their bytes, where nothing fails, no name is uploaded      *)
(* twice and nothing is restored from the bin.                              *)

\* No step of a restore, and no failed deletion.
NoWayBack ==
    \A p \in Procs : pc[p] \notin Restoring \cup {"re_get", "re_charge", "tr_undo"}

RowsUnique == \A f, g \in DOMAIN files : RowKey(files[f]) = RowKey(files[g]) => f = g

Dropping(f) == \E p \in Procs : pc[p] = "tr_row" /\ loc[p].fid = f
\* A row that is gone, or is about to go.
Doomed(f) == f < nextFile /\ (f \notin DOMAIN files \/ Dropping(f))

\* A deletion moves the bytes of its own row.
Takes(p) ==
    pc[p] \in Trashing =>
        /\ loc[p].fid < nextFile
        /\ \A g \in DOMAIN files :
              RowKey(files[g]) = KeyOf(p) => g = loc[p].fid /\ files[g] = loc[p].f

Stored(r, q) == q \in DOMAIN store /\ store[q].id = r.sha
SlotOfRow(f) == TrashSlot(files[f].owner, f, files[f].name)
Backed(f) ==
    \/ Stored(files[f], files[f].path)
    \/ /\ Stored(files[f], SlotOfRow(f))
       /\ \E p \in Procs : pc[p] = "tr_item" /\ loc[p].fid = f
    \/ Dropping(f)

\* The bytes of an upload are at its path when it inserts its row.
UpBacked == \A p \in Procs : pc[p] = "up_row" => Stored(loc[p].f, loc[p].f.path)

\* A purge only deletes slots of rows that are gone or about to go.
SlotsDoomed(p) ==
    /\ \A q \in loc[p].todo : Doomed(q.fid)
    /\ pc[p] = "pd_blob" => Doomed(loc[p].it.slot.fid)
BinDoomed == \A i \in DOMAIN bin : Doomed(bin[i].slot.fid)

BackedInv ==
    /\ NoWayBack /\ RowsUnique /\ UpBacked /\ BinDoomed
    /\ \A p \in Procs : Takes(p) /\ SlotsDoomed(p)
    /\ \A f \in DOMAIN files : Backed(f)

\* The user's directory, and the slots of rows that stay, keep what they hold.
Spared ==
    \A q \in DOMAIN store :
        q.kind = "home" \/ (q.kind = "trash" /\ ~ Doomed(q.fid)) =>
            q \in DOMAIN store' /\ store'[q].id = store[q].id

\* A step of p that neither moves a row's bytes nor adds or drops a row.
Harmless(p) ==
    /\ OthersStay(p) /\ UNCHANGED <<files, nextFile>> /\ Spared
    /\ \A i \in DOMAIN bin' : i \in DOMAIN bin /\ bin'[i].slot = bin[i].slot
    /\ pc[p] \notin {"tr_item", "tr_row"}
    /\ pc'[p] \notin Restoring \cup {"re_get", "re_charge", "tr_undo", "tr_item", "tr_row"}
    /\ \A q \in loc'[p].todo : Doomed(q.fid)
    /\ pc'[p] = "pd_blob" => Doomed(loc'[p].it.slot.fid)
    /\ pc'[p] = "up_row" => Stored(loc[p].f, loc[p].f.path)' /\ loc'[p].f = loc[p].f
    /\ pc'[p] \in Trashing =>
           /\ loc'[p].fid < nextFile
           /\ \A g \in DOMAIN files : RowKey(files[g]) = RowKey(loc'[p].f) =>
                  g = loc'[p].fid /\ files[g] = loc'[p].f

\* Such a step keeps every row with its bytes.
LEMMA HarmlessBacked ==
    ASSUME NamesInv, BackedInv, NEW p \in Procs, Harmless(p)
    PROVE  BackedInv'
<1> USE DEF BackedInv
<1>1. \A r \in Procs \ {p} : pc'[r] = pc[r] /\ loc'[r] = loc[r]
  BY DEF Harmless, OthersStay
<1>2. files' = files /\ nextFile' = nextFile
  BY DEF Harmless
<1>3. \A f : Dropping(f)' <=> Dropping(f)
  BY <1>1 DEF Dropping, Harmless
<1>4. \A f : Doomed(f)' <=> Doomed(f)
  BY <1>2, <1>3 DEF Doomed
<1>5. NoWayBack'
  BY <1>1 DEF NoWayBack, Harmless
<1>6. RowsUnique'
  BY <1>2 DEF RowsUnique
<1>7. UpBacked'
  <2> SUFFICES ASSUME NEW r \in Procs, pc'[r] = "up_row"
               PROVE  Stored(loc[r].f, loc[r].f.path)'
    BY DEF UpBacked
  <2>1. CASE r = p
    BY <2>1 DEF Harmless
  <2>2. CASE r # p
    <3>1. pc[r] = "up_row" /\ loc'[r] = loc[r] /\ Stored(loc[r].f, loc[r].f.path)
      BY <1>1, <2>2 DEF UpBacked
    <3>2. AtHome(loc[r].f)
      BY <3>1 DEF NamesInv, Alone, Rowless
    <3>3. loc[r].f.path.kind = "home"
      BY <3>2 DEF AtHome, Home
    <3> QED BY <3>1, <3>3 DEF Stored, Harmless, Spared
  <2> QED BY <2>1, <2>2
<1>8. BinDoomed'
  BY <1>4 DEF BinDoomed, Harmless
<1>9. \A r \in Procs : Takes(r)'
  <2>1. Takes(p)'
    BY <1>2 DEF Takes, Harmless, RowKey, KeyOf
  <2>2. \A r \in Procs \ {p} : Takes(r)'
    BY <1>1, <1>2 DEF Takes, KeyOf
  <2> QED BY <2>1, <2>2
<1>10. \A r \in Procs : SlotsDoomed(r)'
  <2>1. SlotsDoomed(p)'
    BY <1>4 DEF SlotsDoomed, Harmless
  <2>2. \A r \in Procs \ {p} : SlotsDoomed(r)'
    BY <1>1, <1>4 DEF SlotsDoomed
  <2> QED BY <2>1, <2>2
<1>11. \A f \in DOMAIN files' : Backed(f)'
  <2> SUFFICES ASSUME NEW f \in DOMAIN files PROVE Backed(f)'
    BY <1>2
  <2>1. CASE Dropping(f)
    BY <1>3, <2>1 DEF Backed
  <2>2. CASE ~ Dropping(f) /\ Stored(files[f], files[f].path)
    <3>1. AtHome(files[f])
      BY DEF NamesInv, RowsSettled
    <3>2. files[f].path.kind = "home"
      BY <3>1 DEF AtHome, Home
    <3> QED BY <1>2, <2>2, <3>2 DEF Backed, Stored, Harmless, Spared
  <2>3. CASE /\ ~ Dropping(f) /\ Stored(files[f], SlotOfRow(f))
             /\ \E r \in Procs : pc[r] = "tr_item" /\ loc[r].fid = f
    <3>1. \E r \in Procs : pc'[r] = "tr_item" /\ loc'[r].fid = f
      BY <1>1, <2>3 DEF Harmless
    <3>2. SlotOfRow(f).kind = "trash" /\ SlotOfRow(f).fid = f /\ ~ Doomed(f)
      BY <2>3 DEF SlotOfRow, TrashSlot, Home, Doomed
    <3>3. Stored(files[f], SlotOfRow(f))'
      BY <1>2, <2>3, <3>2 DEF Stored, SlotOfRow, Harmless, Spared
    <3> QED BY <3>1, <3>3 DEF Backed
  <2> QED BY <2>1, <2>2, <2>3 DEF Backed
<1> QED BY <1>5, <1>6, <1>7, <1>8, <1>9, <1>10, <1>11

\* A store that stays, grows by a temporary file, or loses what may go.
LEMMA SparedStore ==
    ASSUME \/ UNCHANGED store
           \/ \E qs : /\ store' = Remove(store, qs)
                      /\ \A q \in qs : q.kind = "tmp" \/ (q.kind = "trash" /\ Doomed(q.fid))
           \/ \E q, b : store' = Insert(store, q, b) /\ q.kind = "tmp"
    PROVE  Spared
<1>1. ASSUME NEW qs, store' = Remove(store, qs),
             \A q \in qs : q.kind = "tmp" \/ (q.kind = "trash" /\ Doomed(q.fid))
      PROVE  Spared
  <2>1. /\ DOMAIN store' = DOMAIN store \ qs
        /\ \A q \in DOMAIN store' : store'[q] = store[q]
    BY <1>1 DEF Remove
  <2> QED BY <1>1, <2>1 DEF Spared
<1>2. ASSUME NEW q, NEW b, store' = Insert(store, q, b), q.kind = "tmp" PROVE Spared
  BY <1>2 DEF Spared, Insert
<1> QED BY <1>1, <1>2 DEF Spared

\* A request that returns.
LEMMA ReturnHarmless ==
    ASSUME LocalsInv, NEW p \in Procs, Return(p), UNCHANGED files_, Spared,
           UNCHANGED bin \/ \E ks : bin' = Remove(bin, ks),
           pc[p] \notin {"tr_item", "tr_row"}
    PROVE  Harmless(p)
<1>1. pc'[p] = "idle" /\ loc'[p] = NoLocals /\ OthersStay(p)
  BY DEF LocalsInv, ProcsOK, Return, OthersStay
<1>2. NoLocals.todo = {}
  BY DEF NoLocals
<1>3. \A i \in DOMAIN bin' : i \in DOMAIN bin /\ bin'[i].slot = bin[i].slot
  BY DEF Remove
<1> QED BY <1>1, <1>2, <1>3 DEF Harmless, Restoring, Trashing, files_

\* One that goes on with what it knows.
LEMMA GotoHarmless ==
    ASSUME LocalsInv, BackedInv, NEW p \in Procs, NEW l, Goto(p, l),
           UNCHANGED <<loc, files_, bin>>, Spared, pc[p] \notin {"tr_item", "tr_row"},
           l \notin Restoring \cup Trashing \cup {"re_get", "re_charge", "pd_blob"},
           l = "up_row" => Stored(loc[p].f, loc[p].f.path)'
    PROVE  Harmless(p)
<1>1. pc'[p] = l /\ loc'[p] = loc[p] /\ OthersStay(p)
  BY DEF LocalsInv, ProcsOK, Goto, OthersStay
<1>2. \A q \in loc[p].todo : Doomed(q.fid)
  BY DEF BackedInv, SlotsDoomed
<1> QED BY <1>1, <1>2 DEF Harmless, Trashing, files_

\* One that reads first.
LEMMA ReadHarmless ==
    ASSUME LocalsInv, NEW p \in Procs, NEW l, NEW x, Goto(p, l), loc' = [loc EXCEPT ![p] = x],
           UNCHANGED <<files_, bin>>, Spared, pc[p] \notin {"tr_item", "tr_row"},
           l \notin Restoring \cup {"re_get", "re_charge", "tr_undo", "tr_item", "tr_row", "up_row"},
           \A q \in x.todo : Doomed(q.fid),
           l = "pd_blob" => Doomed(x.it.slot.fid),
           l \in Trashing => /\ x.fid < nextFile
                             /\ \A g \in DOMAIN files : RowKey(files[g]) = RowKey(x.f) =>
                                    g = x.fid /\ files[g] = x.f
    PROVE  Harmless(p)
<1>1. pc'[p] = l /\ loc'[p] = x /\ OthersStay(p)
  BY DEF LocalsInv, ProcsOK, Goto, OthersStay
<1> QED BY <1>1 DEF Harmless, files_

\* The purges delete slots of rows that are gone.
LEMMA PurgesHarmless ==
    ASSUME TypeInv, BackedInv, NEW p \in Procs,
           \/ PdGet(p) \/ PdBlob(p) \/ PdRow(p) \/ EtList(p) \/ EtBlob(p) \/ EtRows(p)
           \/ CuList(p) \/ CuBlob(p) \/ CuRows(p)
    PROVE  Harmless(p)
<1>1. /\ LocalsInv /\ loc \in [Procs -> Locals] /\ loc[p] \in Locals
      /\ loc[p].todo \subseteq PathOf({"trash"}) /\ loc[p].it.slot \in PathOf({"trash"})
  BY LocalTypes, ItemTypes DEF TypeInv, LocalsInv, ProcsOK
<1>2. SlotsDoomed(p) /\ BinDoomed
  BY DEF BackedInv
<1>3. pc[p] \notin {"tr_item", "tr_row"}
  BY DEF PdGet, PdBlob, PdRow, EtList, EtBlob, EtRows, CuList, CuBlob, CuRows, ListPurge,
         PurgeBlob, PurgeRows
<1>4. \A q \in PathOf({"trash"}) : q.kind = "trash"
  BY DEF PathOf
<1>5. CASE Fail(p)
  BY <1>1, <1>3, <1>5, ReturnHarmless, SparedStore DEF Fail, data, store_, bin_
<1>6. CASE PdGet(p) /\ ~ Fail(p)
  <2>1. /\ OwnedItem(loc[p].id, loc[p].user) /\ Goto(p, "pd_blob")
        /\ loc' = [loc EXCEPT ![p].it = bin[loc[p].id]] /\ UNCHANGED data
    BY <1>6 DEF PdGet, Attempt, OrFault
  <2> DEFINE x == [loc[p] EXCEPT !.it = bin[loc[p].id]]
  <2>2. loc' = [loc EXCEPT ![p] = x] /\ x.it = bin[loc[p].id] /\ x.todo = loc[p].todo
    BY <1>1, <2>1 DEF Locals
  <2>3. Doomed(x.it.slot.fid) /\ \A q \in x.todo : Doomed(q.fid)
    BY <1>2, <2>1, <2>2 DEF OwnedItem, BinDoomed, SlotsDoomed
  <2>4. Spared /\ UNCHANGED <<files_, bin>>
    BY <2>1, SparedStore DEF data, store_, bin_
  <2> HIDE DEF x
  <2> QED BY <1>1, <1>3, <2>1, <2>2, <2>3, <2>4, ReadHarmless DEF Trashing, Restoring
<1>7. CASE (EtList(p) \/ CuList(p)) /\ ~ Fail(p)
  <2>1. PICK items : /\ items \subseteq DOMAIN bin /\ loc' = [loc EXCEPT ![p].todo = Slots(items)]
                     /\ UNCHANGED data
    <3>1. ListByUser(loc[p].user) \subseteq DOMAIN bin /\ Expired \subseteq DOMAIN bin
      BY DEF ListByUser, Page, Expired
    <3>2. CASE EtList(p)
      BY <1>7, <3>1, <3>2 DEF EtList, ListPurge, OrFault
    <3>3. CASE CuList(p)
      BY <1>7, <3>1, <3>3 DEF CuList, ListPurge, OrFault
    <3> QED BY <1>7, <3>2, <3>3
  <2> DEFINE x == [loc[p] EXCEPT !.todo = Slots(items)]
  <2>2. loc' = [loc EXCEPT ![p] = x] /\ x.todo = Slots(items)
    BY <1>1, <2>1 DEF Locals
  <2>3. \A q \in x.todo : Doomed(q.fid)
    BY <1>2, <2>1, <2>2 DEF BinDoomed, Slots
  <2>4. Goto(p, "et_blobs") \/ Goto(p, "cu_blobs")
    BY <1>7 DEF EtList, CuList, ListPurge, OrFault
  <2>5. Spared /\ UNCHANGED <<files_, bin>>
    BY <2>1, SparedStore DEF data, store_, bin_
  <2> HIDE DEF x
  <2> QED BY <1>1, <1>3, <2>2, <2>3, <2>4, <2>5, ReadHarmless DEF Trashing, Restoring
<1>8. CASE EtBlob(p) \/ CuBlob(p)
  <2>1. PICK q \in loc[p].todo : /\ loc' = [loc EXCEPT ![p].todo = @ \ {q}]
                                 /\ store' = Remove(store, {q}) \/ UNCHANGED store
    BY <1>8 DEF EtBlob, CuBlob, PurgeBlob, OrFault, Erase, store_
  <2>2. UNCHANGED <<pc, files_, bin_>> /\ pc[p] \in {"et_blobs", "cu_blobs"}
    BY <1>8 DEF EtBlob, CuBlob, PurgeBlob
  <2> DEFINE x == [loc[p] EXCEPT !.todo = @ \ {q}]
  <2>3. loc' = [loc EXCEPT ![p] = x] /\ x.todo \subseteq loc[p].todo
    BY <1>1, <2>1 DEF Locals
  <2>4. Goto(p, pc[p])
    BY <1>1, <2>2 DEF Goto, LocalsInv, ProcsOK
  <2>5. Spared
    BY <1>1, <1>2, <1>4, <2>1, SparedStore DEF SlotsDoomed
  <2> HIDE DEF x
  <2> QED BY <1>1, <1>2, <1>3, <2>2, <2>3, <2>4, <2>5, ReadHarmless
          DEF SlotsDoomed, Trashing, Restoring, bin_
<1>9. CASE PdBlob(p) /\ ~ Fail(p)
  <2>1. /\ pc[p] = "pd_blob" /\ Goto(p, "pd_row") /\ store' = Remove(store, {loc[p].it.slot})
        /\ UNCHANGED <<files_, bin_, loc>>
    BY <1>9 DEF PdBlob, OrFault, Erase
  <2>2. Spared
    BY <1>1, <1>2, <1>4, <2>1, SparedStore DEF SlotsDoomed
  <2> QED BY <1>1, <1>3, <2>1, <2>2, GotoHarmless DEF Trashing, Restoring, bin_
<1>10. CASE PdRow(p) \/ EtRows(p) \/ CuRows(p)
  <2>1. Return(p) /\ UNCHANGED <<files_, store>>
    BY <1>10 DEF PdRow, EtRows, CuRows, PurgeRows, store_
  <2>2. UNCHANGED bin \/ \E ks : bin' = Remove(bin, ks)
    BY <1>10 DEF PdRow, EtRows, CuRows, PurgeRows, OrFault
  <2> QED BY <1>1, <1>3, <2>1, <2>2, ReturnHarmless, SparedStore
<1> QED BY <1>5, <1>6, <1>7, <1>8, <1>9, <1>10

\* Of the steps of an upload only the insertion of its row is another matter: its
\* rename puts bytes where there were none.
LEMMA UploadHarmless ==
    ASSUME LossInv, BackedInv, MaxFaults = 0, NEW p \in Procs,
           UpList(p) \/ UpWrite(p) \/ UpQuota(p) \/ UpRename(p) \/ UpCharge(p)
    PROVE  Harmless(p)
<1> DEFINE tmp == TmpOf(p)
<1>1. /\ LocalsInv /\ loc \in [Procs -> Locals] /\ loc[p] \in Locals /\ loc[p].f \in FileRow
      /\ NamesInv
  BY LocalTypes DEF LossInv, Inv, TypeInv, LocalsInv, ProcsOK
<1>2. ~ (faults < MaxFaults)
  BY NoFaults DEF LossInv, Inv, TypeInv
<1>3. \A q \in loc[p].todo : Doomed(q.fid)
  BY DEF BackedInv, SlotsDoomed
<1>4. tmp.kind = "tmp"
  BY TmpOfKey DEF TmpOf
<1>s. {"up_write", "up_quota", "up_rename", "up_row"} \cap
          (Trashing \cup Restoring \cup {"re_get", "re_charge", "pd_blob"}) = {}
  BY DEF Trashing, Restoring
<1>5. CASE UpList(p)
  <2>1. pc[p] = "up_list" /\ UNCHANGED <<files_, bin, store>>
    BY <1>5 DEF UpList, data, store_, bin_
  <2>2. {f \in ListByParent(loc[p].f.owner, loc[p].f.parent) :
            files[f].name = loc[p].f.name} = {}
    BY <1>1, <2>1, NothingToSave DEF Rowless, UpSteps
  <2>3. Goto(p, "up_write") /\ UNCHANGED loc
    BY <1>5, <2>2 DEF UpList, OrFault
  <2> QED BY <1>1, <1>s, <2>1, <2>3, GotoHarmless, SparedStore
<1>6. CASE UpWrite(p)
  <2>1. /\ pc[p] = "up_write" /\ Goto(p, "up_quota") /\ UNCHANGED <<files_, bin>>
        /\ loc' = [loc EXCEPT ![p].f.sha = nextBlob, ![p].ret = "none"]
        /\ \E b : store' = Insert(store, tmp, b)
    BY <1>2, <1>6 DEF UpWrite, OrFault, TmpOf, bin_
  <2> DEFINE x == [loc[p] EXCEPT !.f.sha = nextBlob, !.ret = "none"]
  <2>2. loc' = [loc EXCEPT ![p] = x] /\ x.todo = loc[p].todo
    BY <1>1, <2>1 DEF Locals
  <2> HIDE DEF x, tmp
  <2>3. Spared
    BY <1>4, <2>1, SparedStore
  <2> QED BY <1>1, <1>3, <1>s, <2>1, <2>2, <2>3, ReadHarmless DEF Trashing, Restoring
<1>7. CASE UpQuota(p)
  <2>1. /\ pc[p] = "up_quota" /\ UNCHANGED <<files_, bin>>
        /\ \/ Goto(p, "up_rename") /\ UNCHANGED <<store, loc>>
           \/ Return(p) /\ store' = Remove(store, {tmp})
    BY <1>2, <1>7 DEF UpQuota, OrFault, TmpOf, bin_
  <2> HIDE DEF tmp
  <2>2. Spared
    BY <1>4, <2>1, SparedStore
  <2> QED BY <1>1, <1>s, <2>1, <2>2, GotoHarmless, ReturnHarmless
<1>8. CASE UpRename(p)
  <2> DEFINE home == loc[p].f.path
  <2>1. /\ pc[p] = "up_rename" /\ Goto(p, "up_row") /\ UNCHANGED <<files_, bin, loc>>
        /\ store' = Renamed(tmp, home)
    BY <1>2, <1>8 DEF UpRename, OrFault, TmpOf, bin_
  <2>2. home = Home(loc[p].f.owner, loc[p].f.name)
    BY <1>1, <2>1 DEF NamesInv, Alone, AtHome, Rowless, UpSteps
  <2>3. PathKey(tmp) = PathKey(home) /\ home.kind = "home"
    BY <2>2 DEF TmpOf, Tmp, Home, PathKey
  <2>4. tmp \in DOMAIN store /\ store[tmp].id = loc[p].f.sha
    BY <2>1 DEF LossInv, Inv, UpInv, TmpHeld
  <2> HIDE DEF tmp, home
  <2>5. home \notin DOMAIN store
    BY <1>4, <2>3, <2>4 DEF LossInv, BytesInv, OnePath
  <2>6. /\ DOMAIN store' = (DOMAIN store \ {tmp}) \cup {home} /\ store'[home] = store[tmp]
        /\ \A q \in DOMAIN store \ {tmp} : store'[q] = store[q]
    BY <2>1, <2>5 DEF Renamed, Insert, Remove
  <2>7. Spared
    BY <1>4, <2>5, <2>6 DEF Spared
  <2>8. Stored(loc[p].f, loc[p].f.path)'
    BY <2>1, <2>4, <2>6 DEF Stored, home
  <2> QED BY <1>1, <1>s, <2>1, <2>7, <2>8, GotoHarmless
<1>9. CASE UpCharge(p)
  <2>1. pc[p] = "up_charge" /\ Return(p) /\ UNCHANGED <<files_, bin, store>>
    BY <1>9 DEF UpCharge, bin_, store_
  <2> QED BY <1>1, <2>1, SparedStore, ReturnHarmless
<1> QED BY <1>5, <1>6, <1>7, <1>8, <1>9

\* A deletion begins with the row of the only file of its name.
LEMMA DeleteHarmless ==
    ASSUME LossInv, BackedInv, NEW p \in Procs, DeGet(p) \/ DeCharge(p) \/ TrGet(p)
    PROVE  Harmless(p)
<1>1. /\ LocalsInv /\ loc \in [Procs -> Locals] /\ loc[p] \in Locals
      /\ DOMAIN files \subseteq 1..(nextFile - 1) /\ nextFile \in Nat
  BY LocalTypes DEF LossInv, Inv, TypeInv, LocalsInv, ProcsOK, TablesOK
<1>2. \A q \in loc[p].todo : Doomed(q.fid)
  BY DEF BackedInv, SlotsDoomed
<1>3. pc[p] \notin {"tr_item", "tr_row"}
  BY DEF DeGet, DeCharge, TrGet
<1>4. CASE Fail(p) \/ DeCharge(p)
  <2>1. Return(p) /\ UNCHANGED <<files_, bin, store>>
    BY <1>4 DEF Fail, DeCharge, data, bin_, store_
  <2> QED BY <1>1, <1>3, <2>1, SparedStore, ReturnHarmless
<1>5. CASE DeGet(p) /\ ~ Fail(p)
  <2> DEFINE x == [loc[p] EXCEPT !.size = files[loc[p].fid].size]
  <2>1. /\ loc' = [loc EXCEPT ![p].size = files[loc[p].fid].size]
        /\ Goto(p, "tr_get") /\ UNCHANGED data
    BY <1>5 DEF DeGet, Attempt, OrFault
  <2>2. loc' = [loc EXCEPT ![p] = x] /\ x.todo = loc[p].todo
    BY <1>1, <2>1 DEF Locals
  <2>3. UNCHANGED <<files_, bin, store>>
    BY <2>1 DEF data, bin_, store_
  <2> HIDE DEF x
  <2> QED BY <1>1, <1>2, <1>3, <2>1, <2>2, <2>3, ReadHarmless, SparedStore DEF Trashing, Restoring
<1>6. CASE TrGet(p) /\ ~ Fail(p)
  <2> DEFINE f == loc[p].fid
             x == [loc[p] EXCEPT !.f = files[f]]
  <2>1. /\ Owned(f, loc[p].user) /\ loc' = [loc EXCEPT ![p].f = files[f]]
        /\ Goto(p, "tr_rename") /\ UNCHANGED data
    BY <1>6 DEF TrGet, Attempt, OrFault
  <2>2. loc' = [loc EXCEPT ![p] = x] /\ x.todo = loc[p].todo /\ x.f = files[f] /\ x.fid = f
    BY <1>1, <2>1 DEF Locals
  <2>3. UNCHANGED <<files_, bin, store>>
    BY <2>1 DEF data, bin_, store_
  <2>4. f \in DOMAIN files
    BY <2>1 DEF Owned
  <2>5. f < nextFile
    <3> HIDE DEF f
    <3> QED BY <1>1, <2>4
  <2>6. \A g \in DOMAIN files : RowKey(files[g]) = RowKey(x.f) => g = x.fid /\ files[g] = x.f
    BY <2>2, <2>4 DEF BackedInv, RowsUnique
  <2> HIDE DEF x, f
  <2> QED BY <1>1, <1>2, <1>3, <2>1, <2>2, <2>3, <2>5, <2>6, ReadHarmless, SparedStore
          DEF Trashing, Restoring
<1> QED BY <1>4, <1>5, <1>6

\* A request that begins holds nothing.
LEMMA CallHarmless ==
    ASSUME LossInv, BackedInv, "restore" \notin Ops, NEW p \in Procs, Calls(p)
    PROVE  Harmless(p)
<1>1. LocalsInv /\ NamesInv
  BY DEF LossInv, Inv, TypeInv
<1>2. ASSUME NEW op, NEW l \in {"up_list", "de_get", "pd_get", "et_list"}, NEW x,
             Call(p, op, l, x), x.todo = {}
      PROVE  Harmless(p)
  <2>1. /\ pc[p] = "idle" /\ Goto(p, l) /\ loc' = [loc EXCEPT ![p] = x]
        /\ UNCHANGED <<files_, bin, store>>
    BY <1>2 DEF Call, data, bin_, store_
  <2> QED BY <1>1, <1>2, <2>1, ReadHarmless, SparedStore DEF Trashing, Restoring
<1>3. CASE Upload(p)
  <2>1. PICK u, row : Call(p, "upload", "up_list", [NoLocals EXCEPT !.user = u, !.f = row])
    BY <1>3 DEF Upload
  <2>2. [NoLocals EXCEPT !.user = u, !.f = row].todo = {}
    BY DEF NoLocals
  <2> QED BY <1>2, <2>1, <2>2
<1>4. CASE Delete(p)
  <2>1. PICK u, f : Call(p, "delete", "de_get", [NoLocals EXCEPT !.user = u, !.fid = f])
    BY <1>4 DEF Delete
  <2>2. [NoLocals EXCEPT !.user = u, !.fid = f].todo = {}
    BY DEF NoLocals
  <2> QED BY <1>2, <2>1, <2>2
<1>5. CASE PermanentlyDelete(p)
  <2>1. PICK u, i : Call(p, "purge", "pd_get", [NoLocals EXCEPT !.user = u, !.id = i])
    BY <1>5 DEF PermanentlyDelete
  <2>2. [NoLocals EXCEPT !.user = u, !.id = i].todo = {}
    BY DEF NoLocals
  <2> QED BY <1>2, <2>1, <2>2
<1>6. CASE EmptyTrash(p)
  <2>1. PICK u : Call(p, "empty", "et_list", [NoLocals EXCEPT !.user = u])
    BY <1>6 DEF EmptyTrash
  <2>2. [NoLocals EXCEPT !.user = u].todo = {}
    BY DEF NoLocals
  <2> QED BY <1>2, <2>1, <2>2
<1>7. CASE CleanupExpired(p)
  <2>1. pc[p] = "idle" /\ Goto(p, "cu_list") /\ UNCHANGED <<files_, bin, loc, store>>
    BY <1>7 DEF CleanupExpired, data, bin_, store_
  <2> QED BY <1>1, <2>1, GotoHarmless, SparedStore DEF Trashing, Restoring
<1>8. ~ Restore(p)
  BY DEF Restore, Call
<1> QED BY <1>1, <1>3, <1>4, <1>5, <1>6, <1>7, <1>8, NoVersionSteps DEF Calls, RecycleCalls

\* A new row is the only one of its name, and has the bytes of its upload.
LEMMA UpRowBacked ==
    ASSUME LossInv, BackedInv, NEW p \in Procs, UpRow(p)
    PROVE  BackedInv'
<1> USE DEF BackedInv
<1> DEFINE r == loc[p].f
<1>1. /\ LocalsInv /\ NamesInv /\ pc[p] = "up_row"
      /\ DOMAIN files \subseteq 1..(nextFile - 1) /\ nextFile \in Nat
  BY DEF LossInv, Inv, TypeInv, TablesOK, UpRow
<1>2. CASE Fail(p)
  <2>1. Return(p) /\ UNCHANGED <<files_, bin, store>>
    BY <1>2 DEF Fail, data, bin_, store_
  <2> QED BY <1>1, <2>1, SparedStore, ReturnHarmless, HarmlessBacked
<1>3. CASE ~ Fail(p)
  <2>1. /\ Goto(p, "up_charge") /\ files' = Insert(files, nextFile, r)
        /\ nextFile' = nextFile + 1 /\ UNCHANGED <<bin, store, loc>>
    BY <1>3 DEF UpRow, Attempt, OrFault, bin_, store_
  <2>2. nextFile \notin DOMAIN files /\ \A f \in DOMAIN files : f < nextFile
    BY <1>1
  <2>3. /\ DOMAIN files' = DOMAIN files \cup {nextFile} /\ files'[nextFile] = r
        /\ \A f \in DOMAIN files : files'[f] = files[f]
    BY <2>1, <2>2 DEF Insert
  <2>4. pc'[p] = "up_charge" /\ \A q \in Procs \ {p} : pc'[q] = pc[q]
    BY <1>1, <2>1 DEF LocalsInv, ProcsOK, Goto
  <2>5. \A f : Dropping(f)' <=> Dropping(f)
    BY <1>1, <2>1, <2>4 DEF Dropping
  <2>6. \A f \in Nat : Doomed(f) => Doomed(f)'
    BY <1>1, <2>1, <2>3, <2>5 DEF Doomed
  <2>7. \A k : Settled(k) => k # RowKey(r)
    BY <1>1 DEF Settled, Rowless, KeyOf, RowKey
  <2>8. NoWayBack'
    BY <2>1, <2>4 DEF NoWayBack, Restoring
  <2>9. RowsUnique'
    <3>1. \A f \in DOMAIN files : RowKey(files[f]) # RowKey(r)
      BY <1>1, <2>7 DEF NamesInv, RowsSettled
    <3> HIDE DEF r
    <3> QED BY <2>3, <3>1 DEF RowsUnique
  <2>10. UpBacked'
    BY <2>1, <2>4 DEF UpBacked, Stored
  <2>11. BinDoomed'
    <3>1. \A i \in DOMAIN bin : bin[i].slot.fid \in Nat
      BY DEF LossInv, Inv, TypeInv, TablesOK, Item, PathOf
    <3> QED BY <2>1, <2>6, <3>1 DEF BinDoomed
  <2>12. \A q \in Procs : Takes(q)'
    <3> SUFFICES ASSUME NEW q \in Procs, pc'[q] \in Trashing PROVE Takes(q)'
      BY DEF Takes
    <3>1. pc[q] = pc'[q] /\ loc'[q] = loc[q]
      BY <2>1, <2>4 DEF Trashing
    <3>2. Settled(KeyOf(q)) /\ Takes(q)
      BY <1>1, <3>1 DEF NamesInv, HoldsSettled
    <3>3. loc[q].fid < nextFile'
      <4>1. loc[q].fid \in Nat /\ loc[q].fid < nextFile
        BY <1>1, <3>1, <3>2, LocalTypes DEF Takes, LocalsInv
      <4> HIDE DEF r
      <4> QED BY <1>1, <2>1, <4>1
    <3>4. RowKey(r) # KeyOf(q)
      BY <2>7, <3>2
    <3>5. \A g \in DOMAIN files' : RowKey(files'[g]) = KeyOf(q) =>
              g = loc[q].fid /\ files'[g] = loc[q].f
      <4> HIDE DEF r
      <4> QED BY <2>3, <3>1, <3>2, <3>4 DEF Takes
    <3>6. KeyOf(q)' = KeyOf(q)
      BY <3>1 DEF KeyOf
    <3> QED BY <3>1, <3>3, <3>5, <3>6 DEF Takes
  <2>13. \A q \in Procs : SlotsDoomed(q)'
    <3> SUFFICES ASSUME NEW q \in Procs PROVE SlotsDoomed(q)'
      OBVIOUS
    <3>1. loc'[q] = loc[q] /\ (pc'[q] = "pd_blob" => pc[q] = "pd_blob") /\ SlotsDoomed(q)
      BY <2>1, <2>4
    <3>2. loc[q].it.slot.fid \in Nat /\ \A x \in loc[q].todo : x.fid \in Nat
      BY <1>1, LocalTypes, ItemTypes DEF LocalsInv, PathOf
    <3> QED BY <2>6, <3>1, <3>2 DEF SlotsDoomed
  <2>14. \A f \in DOMAIN files' : Backed(f)'
    <3>1. ASSUME NEW f, f = nextFile PROVE Backed(f)'
      <4>1. Stored(r, r.path)
        BY <1>1 DEF UpBacked
      <4> HIDE DEF r
      <4> QED BY <2>1, <2>3, <3>1, <4>1 DEF Backed, Stored
    <3>2. ASSUME NEW f \in DOMAIN files PROVE Backed(f)'
      <4>1. files'[f] = files[f] /\ SlotOfRow(f)' = SlotOfRow(f)
        BY <2>3 DEF SlotOfRow
      <4>2. (\E q \in Procs : pc[q] = "tr_item" /\ loc[q].fid = f) =>
                (\E q \in Procs : pc'[q] = "tr_item" /\ loc'[q].fid = f)
        BY <1>1, <2>1, <2>4
      <4>3. \A q : Stored(files[f], q)' <=> Stored(files[f], q)
        BY <2>1, <4>1 DEF Stored
      <4>4. Stored(files[f], files[f].path)' <=> Stored(files[f], files[f].path)
        BY <2>1, <4>1 DEF Stored
      <4>5. Stored(files[f], SlotOfRow(f))' <=> Stored(files[f], SlotOfRow(f))
        BY <2>1, <4>1 DEF Stored
      <4> QED BY <2>5, <4>2, <4>4, <4>5 DEF Backed
    <3> QED BY <2>1, <2>3, <3>1, <3>2
  <2> QED BY <2>8, <2>9, <2>10, <2>11, <2>12, <2>13, <2>14
<1> QED BY <1>2, <1>3

\* A deletion past its rename has a slot of its own, and then an item.
LEMMA TrItemBacked ==
    ASSUME LossInv, BackedInv, MaxFaults = 0, NEW p \in Procs, TrItem(p)
    PROVE  BackedInv'
<1> USE DEF BackedInv
<1> DEFINE f == loc[p].fid
<1>1. /\ LocalsInv /\ pc[p] = "tr_item" /\ ~ (faults < MaxFaults)
  BY NoFaults DEF LossInv, Inv, TypeInv, TrItem
<1>2. /\ Goto(p, "tr_row") /\ UNCHANGED <<files, nextFile, store, loc>>
      /\ \A i \in DOMAIN bin' : \/ i \in DOMAIN bin /\ bin'[i] = bin[i]
                                \/ bin'[i].slot = SlotOf(loc[p])
  BY <1>1 DEF TrItem, OrFault, Insert, files_, store_
<1>3. pc'[p] = "tr_row" /\ \A q \in Procs \ {p} : pc'[q] = pc[q]
  BY <1>1, <1>2 DEF LocalsInv, ProcsOK, Goto
<1>4. \A g : Dropping(g) => Dropping(g)'
  BY <1>1, <1>2, <1>3 DEF Dropping
<1>5. \A g : Doomed(g) => Doomed(g)'
  BY <1>2, <1>4 DEF Doomed
<1>6. f < nextFile /\ \A g : g = f => Dropping(g)'
  BY <1>1, <1>2, <1>3 DEF Takes, Trashing, Dropping
<1>7. \A q \in Procs : (pc'[q] \in Trashing => pc[q] \in Trashing)
                       /\ (pc'[q] \in {"up_row", "pd_blob"} => pc'[q] = pc[q])
  BY <1>1, <1>3 DEF Trashing
<1>8. NoWayBack'
  BY <1>3 DEF NoWayBack, Restoring
<1>9. RowsUnique'
  BY <1>2 DEF RowsUnique
<1>10. UpBacked'
  BY <1>2, <1>7 DEF UpBacked, Stored
<1>11. BinDoomed'
  <2>1. SlotOf(loc[p]).fid = f
    BY DEF SlotOf, TrashSlot, Home
  <2>2. \A g : g = f => Doomed(g)'
    BY <1>2, <1>6 DEF Doomed
  <2> HIDE DEF f
  <2> QED BY <1>2, <1>5, <2>1, <2>2 DEF BinDoomed
<1>12. \A q \in Procs : Takes(q)'
  BY <1>2, <1>7 DEF Takes, KeyOf
<1>13. \A q \in Procs : SlotsDoomed(q)'
  BY <1>2, <1>5, <1>7 DEF SlotsDoomed
<1>14. \A g \in DOMAIN files' : Backed(g)'
  <2> SUFFICES ASSUME NEW g \in DOMAIN files PROVE Backed(g)'
    BY <1>2
  <2>1. CASE g = f
    BY <1>6, <2>1 DEF Backed
  <2>2. CASE g # f
    <3>1. (\E q \in Procs : pc[q] = "tr_item" /\ loc[q].fid = g) =>
              (\E q \in Procs : pc'[q] = "tr_item" /\ loc'[q].fid = g)
      BY <1>2, <1>3, <2>2
    <3> QED BY <1>2, <1>4, <3>1 DEF Backed, Stored, SlotOfRow
  <2> QED BY <2>1, <2>2
<1> QED BY <1>8, <1>9, <1>10, <1>11, <1>12, <1>13, <1>14

\* A row that goes leaves the others as they are.
LEMMA TrRowBacked ==
    ASSUME LossInv, BackedInv, MaxFaults = 0, NEW p \in Procs, TrRow(p)
    PROVE  BackedInv'
<1> USE DEF BackedInv
<1> DEFINE f == loc[p].fid
<1>1. /\ LocalsInv /\ pc[p] = "tr_row" /\ ~ (faults < MaxFaults)
  BY NoFaults DEF LossInv, Inv, TypeInv, TrRow
<1>2. /\ Goto(p, "de_charge") /\ UNCHANGED <<nextFile, bin, store, loc>>
      /\ files' = Remove(files, {f})
  BY <1>1 DEF TrRow, OrFault, bin_, store_
<1>3. pc'[p] = "de_charge" /\ \A q \in Procs \ {p} : pc'[q] = pc[q]
  BY <1>1, <1>2 DEF LocalsInv, ProcsOK, Goto
<1>4. /\ DOMAIN files' = DOMAIN files \ {f}
      /\ \A g \in DOMAIN files' : files'[g] = files[g]
  BY <1>2 DEF Remove
<1>5. \A g : g # f /\ Dropping(g) => Dropping(g)'
  BY <1>1, <1>2, <1>3 DEF Dropping
<1>6. \A g : Doomed(g) => Doomed(g)'
  BY <1>2, <1>4, <1>5 DEF Doomed
<1>7. \A q \in Procs : pc'[q] \in Trashing \cup {"up_row", "pd_blob", "tr_item"} => pc'[q] = pc[q]
  BY <1>3 DEF Trashing
<1>8. NoWayBack'
  BY <1>3 DEF NoWayBack, Restoring
<1>9. RowsUnique'
  BY <1>4 DEF RowsUnique
<1>10. UpBacked'
  BY <1>2, <1>7 DEF UpBacked, Stored
<1>11. BinDoomed'
  BY <1>2, <1>6 DEF BinDoomed
<1>12. \A q \in Procs : Takes(q)'
  <2> SUFFICES ASSUME NEW q \in Procs, pc'[q] \in Trashing PROVE Takes(q)'
    BY DEF Takes
  <2>1. Takes(q) /\ pc[q] \in Trashing /\ loc'[q] = loc[q] /\ KeyOf(q)' = KeyOf(q)
    BY <1>2, <1>7 DEF KeyOf
  <2> HIDE DEF f
  <2> QED BY <1>2, <1>4, <2>1 DEF Takes
<1>13. \A q \in Procs : SlotsDoomed(q)'
  BY <1>2, <1>6, <1>7 DEF SlotsDoomed
<1>14. \A g \in DOMAIN files' : Backed(g)'
  <2> SUFFICES ASSUME NEW g \in DOMAIN files, g # f PROVE Backed(g)'
    BY <1>4
  <2>1. files'[g] = files[g]
    BY <1>4
  <2>2. (\E q \in Procs : pc[q] = "tr_item" /\ loc[q].fid = g) =>
            (\E q \in Procs : pc'[q] = "tr_item" /\ loc'[q].fid = g)
    BY <1>1, <1>2, <1>3
  <2> QED BY <1>2, <1>5, <2>1, <2>2 DEF Backed, Stored, SlotOfRow
<1> QED BY <1>8, <1>9, <1>10, <1>11, <1>12, <1>13, <1>14

\* The bytes a deletion moves are those of its own row.
LEMMA TrRenameBacked ==
    ASSUME LossInv, BackedInv, NEW p \in Procs, TrRename(p)
    PROVE  BackedInv'
<1> USE DEF BackedInv
<1> DEFINE f == loc[p].fid
           r == loc[p].f
           home == loc[p].f.path
           slot == SlotOf(loc[p])
<1>1. LocalsInv /\ NamesInv /\ pc[p] = "tr_rename"
  BY DEF LossInv, Inv, TypeInv, TrRename
<1>2. CASE Fail(p)
  <2>1. Return(p) /\ UNCHANGED <<files_, bin, store>>
    BY <1>2 DEF Fail, data, bin_, store_
  <2> QED BY <1>1, <2>1, SparedStore, ReturnHarmless, HarmlessBacked
<1>3. CASE ~ Fail(p)
  <2>1. /\ Goto(p, "tr_item") /\ UNCHANGED <<files, nextFile, bin, loc>>
        /\ home \in DOMAIN store /\ store' = Renamed(home, slot)
    BY <1>3 DEF TrRename, Attempt, OrFault, files_, bin_
  <2>2. AtHome(r) /\ Settled(KeyOf(p)) /\ r.owner = loc[p].user /\ Takes(p)
    BY <1>1 DEF NamesInv, HoldsSettled, Trashing
  <2>3. /\ home = Home(r.owner, r.name) /\ slot = TrashSlot(r.owner, f, r.name)
    BY <2>2 DEF AtHome, SlotOf
  <2>4. PathKey(home) = KeyOf(p) /\ PathKey(slot) = KeyOf(p) /\ home.kind = "home" /\ slot.kind = "trash"
    BY <2>3 DEF PathKey, KeyOf, TrashSlot, Home
  <2>5. \A q \in Procs : pc'[q] = IF q = p THEN "tr_item" ELSE pc[q]
    BY <1>1, <2>1 DEF LocalsInv, ProcsOK, Goto
  <2> HIDE DEF home, slot
  <2>6. slot \notin DOMAIN store
    BY <2>1, <2>4 DEF LossInv, BytesInv, OnePath
  <2>7. /\ DOMAIN store' = (DOMAIN store \ {home}) \cup {slot} /\ store'[slot] = store[home]
        /\ \A q \in DOMAIN store \ {home} : q \in DOMAIN store' /\ store'[q] = store[q]
    BY <2>1, <2>4, <2>6 DEF Renamed, Insert, Remove
  <2>8. \A x, q : Stored(x, q) /\ q # home => q \in DOMAIN store' /\ store'[q].id = x.sha
    BY <2>7 DEF Stored
  <2>9. \A g : Dropping(g)' <=> Dropping(g)
    BY <1>1, <2>1, <2>5 DEF Dropping
  <2>10. \A g : Doomed(g)' <=> Doomed(g)
    BY <2>1, <2>9 DEF Doomed
  <2>11. NoWayBack' /\ RowsUnique'
    BY <2>1, <2>5 DEF NoWayBack, Restoring, RowsUnique
  <2>12. UpBacked'
    <3> SUFFICES ASSUME NEW q \in Procs, pc'[q] = "up_row"
                 PROVE  Stored(loc[q].f, loc[q].f.path)'
      BY DEF UpBacked
    <3>1. pc[q] = "up_row" /\ Stored(loc[q].f, loc[q].f.path)
      BY <2>5 DEF UpBacked
    <3>2. AtHome(loc[q].f) /\ KeyOf(q) # KeyOf(p)
      BY <1>1, <2>2, <3>1 DEF NamesInv, Alone, Rowless, Settled
    <3>3. PathKey(loc[q].f.path) = KeyOf(q)
      BY <3>2 DEF AtHome, Home, PathKey, KeyOf
    <3>4. loc[q].f.path # home
      BY <2>4, <3>2, <3>3
    <3> QED BY <2>1, <2>8, <3>1, <3>4 DEF Stored
  <2>13. BinDoomed'
    BY <2>1, <2>10 DEF BinDoomed
  <2>14. \A q \in Procs : Takes(q)'
    BY <1>1, <2>1, <2>5 DEF Takes, KeyOf, Trashing
  <2>15. \A q \in Procs : SlotsDoomed(q)'
    BY <2>1, <2>5, <2>10 DEF SlotsDoomed
  <2>16. \A g \in DOMAIN files' : Backed(g)'
    <3> SUFFICES ASSUME NEW g \in DOMAIN files PROVE Backed(g)'
      BY <2>1
    <3>1. CASE Dropping(g)
      BY <2>9, <3>1 DEF Backed
    <3>2. CASE Stored(files[g], files[g].path) /\ files[g].path # home
      BY <2>1, <2>8, <3>2 DEF Backed, Stored
    <3>3. CASE Stored(files[g], files[g].path) /\ files[g].path = home
      <4>1. AtHome(files[g])
        BY <1>1 DEF NamesInv, RowsSettled
      <4>2. PathKey(files[g].path) = RowKey(files[g])
        BY <4>1 DEF AtHome, Home, PathKey, RowKey
      <4>3. g = f /\ files[g] = r
        BY <1>1, <2>2, <2>4, <3>3, <4>2 DEF Takes, Trashing
      <4>4. SlotOfRow(g) = slot
        BY <2>3, <4>3 DEF SlotOfRow
      <4>5. Stored(files[g], SlotOfRow(g))'
        <5>1. SlotOfRow(g)' = slot
          BY <2>1, <4>4 DEF SlotOfRow
        <5> QED BY <2>1, <2>7, <3>3, <5>1 DEF Stored
      <4>6. pc'[p] = "tr_item" /\ loc'[p].fid = g
        BY <2>1, <2>5, <4>3
      <4> QED BY <4>5, <4>6 DEF Backed
    <3>4. CASE /\ Stored(files[g], SlotOfRow(g))
               /\ \E q \in Procs : pc[q] = "tr_item" /\ loc[q].fid = g
      <4>1. SlotOfRow(g) # home
        BY <2>4 DEF SlotOfRow, TrashSlot, Home
      <4>2. Stored(files[g], SlotOfRow(g))'
        BY <2>1, <2>8, <3>4, <4>1 DEF Stored, SlotOfRow
      <4>3. \E q \in Procs : pc'[q] = "tr_item" /\ loc'[q].fid = g
        BY <2>1, <2>5, <3>4
      <4> QED BY <4>2, <4>3 DEF Backed
    <3> QED BY <3>1, <3>2, <3>3, <3>4 DEF Backed
  <2> QED BY <2>11, <2>12, <2>13, <2>14, <2>15, <2>16
<1> QED BY <1>2, <1>3

\* Where nothing fails and nothing is restored, no step parts a row from its bytes.
LEMMA StepBacked ==
    ASSUME FreshNames, MaxFaults = 0, MaxCrashes = 0, "restore" \notin Ops,
           LossInv, BackedInv, [Next]_vars
    PROVE  BackedInv'
<1>1. NamesInv /\ TypeInv
  BY DEF LossInv, Inv
<1>2. ASSUME NEW p \in Procs, Calls(p) PROVE BackedInv'
  BY <1>1, <1>2, CallHarmless, HarmlessBacked
<1>3. ASSUME NEW p \in Procs, Steps(p) PROVE BackedInv'
  <2>1. CASE \/ UpList(p) \/ UpWrite(p) \/ UpQuota(p) \/ UpRename(p) \/ UpCharge(p)
             \/ DeGet(p) \/ DeCharge(p) \/ TrGet(p)
    BY <1>1, <2>1, UploadHarmless, DeleteHarmless, HarmlessBacked
  <2>2. CASE UpRow(p) \/ TrRename(p) \/ TrItem(p) \/ TrRow(p)
    BY <2>2, UpRowBacked, TrRenameBacked, TrItemBacked, TrRowBacked
  <2>3. CASE \/ PdGet(p) \/ PdBlob(p) \/ PdRow(p) \/ EtList(p) \/ EtBlob(p) \/ EtRows(p)
             \/ CuList(p) \/ CuBlob(p) \/ CuRows(p)
    BY <1>1, <2>3, PurgesHarmless, HarmlessBacked
  <2>4. ~ (TrUndo(p) \/ ReGet(p) \/ ReRename(p) \/ ReRow(p) \/ ReUndo(p) \/ ReItem(p) \/ ReCharge(p))
    BY DEF BackedInv, NoWayBack, Restoring, TrUndo, ReGet, ReRename, ReRow, ReUndo, ReItem, ReCharge
  <2> QED BY <1>1, <1>3, <2>1, <2>2, <2>3, <2>4, NoVersionSteps DEF Steps, RecycleSteps
<1>4. ASSUME NEW i \in DOMAIN bin, Expire(i) PROVE BackedInv'
  <2>1. UNCHANGED <<files, nextFile, store, pc, loc>> /\ bin' = [bin EXCEPT ![i].expired = TRUE]
    BY <1>4 DEF Expire, files_, store_
  <2>2. bin'[i] = [bin[i] EXCEPT !.expired = TRUE]
    BY <2>1
  <2>3. DOMAIN bin' = DOMAIN bin /\ \A j \in DOMAIN bin : bin'[j].slot = bin[j].slot
    BY <2>1, <2>2
  <2>4. \A g : (Doomed(g)' <=> Doomed(g)) /\ (Dropping(g)' <=> Dropping(g))
    BY <2>1 DEF Doomed, Dropping
  <2>5. BinDoomed'
    BY <2>3, <2>4 DEF BackedInv, BinDoomed
  <2>6. NoWayBack' /\ RowsUnique' /\ UpBacked' /\ \A p \in Procs : Takes(p)' /\ SlotsDoomed(p)'
    BY <2>1, <2>4
       DEF BackedInv, NoWayBack, RowsUnique, UpBacked, Stored, Takes, KeyOf, SlotsDoomed
  <2>7. \A g \in DOMAIN files' : Backed(g)'
    BY <2>1, <2>4 DEF BackedInv, Backed, Stored, SlotOfRow
  <2> QED BY <2>5, <2>6, <2>7 DEF BackedInv
<1>5. ~ Crash
  BY DEF Crash, LossInv, Inv, TypeInv, GhostsOK
<1>6. CASE UNCHANGED vars
  <2>1. UNCHANGED <<files, nextFile, bin, store, pc, loc>>
    BY <1>6 DEF vars
  <2> QED BY <2>1 DEF BackedInv, NoWayBack, RowsUnique, UpBacked, BinDoomed, Doomed, Dropping,
                      Stored, Takes, KeyOf, SlotsDoomed, Backed, SlotOfRow
<1> QED BY <1>2, <1>3, <1>4, <1>5, <1>6 DEF Next

\* The bytes a file row was created for are at its path, or in its trash slot while its
\* deletion is under way, or the deletion is past its bin row: uploads, deletions and
\* purges, in any number and any order, never leave a row without its bytes, where nothing
\* fails, no name is uploaded twice, and nothing is restored.
THEOREM RowsKeepTheirBytes ==
    ASSUME FreshNames, MaxFaults = 0, MaxCrashes = 0, "restore" \notin Ops
    PROVE  Spec => []RowBacked
<1>1. Init => LossInv /\ BackedInv
  <2> SUFFICES ASSUME Init PROVE BackedInv
    BY InitLoss
  <2>1. (\A p \in Procs : pc[p] = "idle" /\ loc[p].todo = {})
        /\ DOMAIN files = {} /\ DOMAIN bin = {}
    BY DEF Init, Empty, NoLocals
  <2> QED BY <2>1 DEF BackedInv, NoWayBack, RowsUnique, UpBacked, BinDoomed, Takes, SlotsDoomed,
                      Trashing, Restoring
<1>2. LossInv /\ BackedInv /\ [Next]_vars => (LossInv /\ BackedInv)'
  BY StepBacked, StepInv, StepNames, StepBytes DEF LossInv, Inv
<1>3. LossInv /\ BackedInv => RowBacked
  BY DEF LossInv, BackedInv, Backed, Stored, SlotOfRow, Dropping, RowBacked, IdsAt
<1> QED BY <1>1, <1>2, <1>3, PTL DEF Spec
==============================================================================
