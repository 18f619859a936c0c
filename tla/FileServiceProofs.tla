-------------------------- MODULE FileServiceProofs --------------------------
(***************************************************************************)
(* Theorems about the storage core, for every set of requesters, users and *)
(* names and with every bound of FileStore: every step keeps the shape of  *)
(* the tables, the store and the locals, uploads keep their temporary      *)
(* files, and versions stay bounded.                                       *)
(***************************************************************************)
EXTENDS FileService, FiniteSetTheorems, WellFoundedInduction, TLAPS

------------------------------------------------------------------------------
(* The greatest element of a finite set of numbers.                         *)

\* Every finite nonempty set of numbers has a greatest element: the one with the
\* fewest elements above it.  The code takes it with ORDER BY ... DESC LIMIT 1.
LEMMA LargestExists ==
    ASSUME NEW S \in SUBSET Nat, S # {}, IsFiniteSet(S)
    PROVE  \E m \in S : \A x \in S : m >= x
<1> DEFINE above(m) == {x \in S : x > m}
           T == {Cardinality(above(m)) : m \in S}
<1>1. \A m \in S : IsFiniteSet(above(m)) /\ Cardinality(above(m)) \in Nat
  BY FS_Subset, FS_CardinalityType
<1>2. T \subseteq Nat
  BY <1>1
<1>3. T # {}
  OBVIOUS
<1>4. PICK t \in T : \A y \in T : ~ (<<y, t>> \in OpToRel(<, Nat))
  BY <1>2, <1>3, NatLessThanWellFounded, WFMin
<1>5. \A y \in T : ~ (y < t)
  BY <1>2, <1>4 DEF OpToRel
<1>6. PICK m \in S : t = Cardinality(above(m))
  BY <1>4
<1>7. ASSUME NEW x \in S, x > m PROVE FALSE
  <2>1. x \in Nat /\ m \in Nat
    OBVIOUS
  <2>2. above(x) \subseteq above(m)
    <3>1. \A y \in Nat : y > x => y > m
      BY <1>7, <2>1
    <3> QED BY <3>1
  <2>3. x \in above(m) /\ x \notin above(x)
    BY <1>7, <2>1
  <2>4. Cardinality(above(x)) < Cardinality(above(m))
    <3>1. above(x) # above(m)
      BY <2>3
    <3> HIDE DEF above
    <3> QED BY <2>2, <3>1, <1>1, FS_Subset
  <2> QED BY <2>4, <1>5, <1>6
<1>8. \A x \in S : m >= x
  BY <1>7
<1> QED BY <1>8

\* The Max of the community modules is that element.
LEMMA MaxIn ==
    ASSUME NEW S \in SUBSET Nat, S # {}, IsFiniteSet(S)
    PROVE  Max(S) \in S /\ \A x \in S : x <= Max(S)
<1>1. \E m \in S : \A x \in S : m >= x
  BY LargestExists
<1>2. Max(S) \in S /\ \A x \in S : Max(S) >= x
  BY <1>1 DEF Max
<1> QED BY <1>2

------------------------------------------------------------------------------
(* The invariant: what TypeOK leaves open is where a snapshot returns to.   *)

Saving == {"sv_num", "sv_copy", "sv_row", "pr_count", "pr_oldest", "pr_blob", "pr_row",
           "rv_file", "rv_ver", "rv_exists"}

\* A goroutine in SaveVersion or pruneOldest, or on its way there, knows its caller.
CallerKnown == \A p \in Procs : pc[p] \in Saving => loc[p].ret # "none"

LocalsInv == ProcsOK /\ CallerKnown
TypeInv == TablesOK /\ StoreOK /\ LocalsInv /\ GhostsOK

------------------------------------------------------------------------------
(* Rows, paths and locals have their shapes.                                *)

\* Every path the services build is a Path.
LEMMA PathsOK ==
    ASSUME NEW u \in Users, NEW n \in Names, NEW k \in Nat, NEW m \in Nat, NEW ts \in Nat
    PROVE  /\ Home(u, n) \in PathOf({"home"})
           /\ Tmp(u, n) \in PathOf({"tmp"})
           /\ TrashSlot(u, k, n) \in PathOf({"trash"})
           /\ Snap(u, k, m, ts) \in PathOf({"snap"})
  BY DEF Home, Tmp, TrashSlot, Snap, PathOf

\* Paths of different kinds differ.
LEMMA KindsOK ==
    ASSUME NEW kind \in {"home", "tmp", "trash", "snap"}, NEW q \in PathOf({kind})
    PROVE  q \in Path /\ q.kind = kind
  BY DEF Path, PathOf

\* The locals of a goroutine with nothing to do have the shape of Locals.
LEMMA NoLocalsOK == NoLocals \in Locals /\ NoLocals.ret = "none"
  BY FileStoreAssumption
     DEF NoLocals, Locals, NoRow, NoItem, NoVersion, NoPath, FileRow, Item, Version, PathOf

\* What a goroutine at work knows of itself.
LEMMA LocalTypes ==
    ASSUME ProcsOK, NEW p \in Procs
    PROVE  /\ pc[p] \in Labels /\ loc[p] \in Locals
           /\ loc[p].user \in Users /\ loc[p].id \in Nat /\ loc[p].fid \in Nat
           /\ loc[p].f \in FileRow /\ loc[p].g \in FileRow
           /\ loc[p].size \in Nat /\ loc[p].old \in Nat
           /\ loc[p].it \in Item /\ loc[p].v \in Version /\ loc[p].snap \in Version
           /\ loc[p].todo \in SUBSET PathOf({"trash"})
           /\ loc[p].ret \in {"none", "up_write", "rv_copy"}
  BY DEF ProcsOK, Locals

\* The columns of a files row.
LEMMA RowTypes ==
    ASSUME NEW r \in FileRow
    PROVE  /\ r.owner \in Users /\ r.name \in Names /\ r.path \in PathOf({"home"})
           /\ r.size \in Nat /\ r.sha \in Nat
           /\ r.parent \in Folders \cup {Root} /\ r.e2ee \in BOOLEAN
  BY DEF FileRow

\* The columns of a recycle_bin row.
LEMMA ItemTypes ==
    ASSUME NEW i \in Item
    PROVE  /\ i.user \in Users /\ i.name \in Names /\ i.fid \in Nat
           /\ i.orig \in PathOf({"home"}) /\ i.slot \in PathOf({"trash"}) /\ i.size \in Nat /\ i.expired \in BOOLEAN
  BY DEF Item

\* The columns of a file_versions row.
LEMMA VersionTypes ==
    ASSUME NEW v \in Version
    PROVE  v.num \in Nat /\ v.size \in Nat /\ v.sha \in Nat /\ v.path \in PathOf({"snap"}) /\ v.fid \in Nat
  BY DEF Version

------------------------------------------------------------------------------
(* How a goroutine moves on.                                                *)

\* It keeps its locals.
LEMMA Stay ==
    ASSUME LocalsInv, NEW p \in Procs, NEW l \in Labels, Goto(p, l), loc' = loc,
           l \in Saving => loc[p].ret # "none"
    PROVE  LocalsInv'
  BY DEF LocalsInv, ProcsOK, CallerKnown, Goto

\* It has new locals.
LEMMA Advance ==
    ASSUME LocalsInv, NEW p \in Procs, NEW l \in Labels, NEW x \in Locals,
           Goto(p, l), loc' = [loc EXCEPT ![p] = x],
           l \in Saving => x.ret # "none"
    PROVE  LocalsInv'
  BY DEF LocalsInv, ProcsOK, CallerKnown, Goto

\* It answers its request, or stops with an error.
LEMMA Returned ==
    ASSUME LocalsInv, NEW p \in Procs, Return(p)
    PROVE  LocalsInv'
<1>1. "idle" \in Labels \ Saving
  BY DEF Labels, Saving
<1>2. Goto(p, "idle")
  BY DEF Return, Goto
<1> QED BY <1>1, <1>2, NoLocalsOK, Advance DEF Return

\* A snapshot that fails ends its restore, and never its upload.
LEMMA SvFailed ==
    ASSUME LocalsInv, NEW p \in Procs, SvFail(p)
    PROVE  LocalsInv'
<1>1. CASE loc[p].ret = "up_write"
  BY <1>1, Stay DEF SvFail, Labels, Saving
<1>2. CASE loc[p].ret # "up_write"
  BY <1>2, Returned DEF SvFail
<1> QED BY <1>1, <1>2

\* pruneOldest returns to the caller of SaveVersion.
LEMMA Pruned ==
    ASSUME LocalsInv, NEW p \in Procs, pc[p] \in Saving, PruneDone(p)
    PROVE  LocalsInv'
<1>1. loc[p].ret \in {"up_write", "rv_copy"}
  BY LocalTypes DEF LocalsInv, CallerKnown
<1>2. loc[p].ret \in Labels /\ loc[p].ret \notin Saving
  BY <1>1 DEF Labels, Saving
<1> QED BY <1>2, Stay DEF PruneDone

------------------------------------------------------------------------------
(* What a step may do to the store and to the tables.                       *)

\* A DELETE keeps the shape of a table.
LEMMA RemoveOK ==
    ASSUME NEW tbl, NEW R, tbl \in [DOMAIN tbl -> R], NEW ks
    PROVE  /\ Remove(tbl, ks) \in [DOMAIN Remove(tbl, ks) -> R]
           /\ DOMAIN Remove(tbl, ks) = DOMAIN tbl \ ks
           /\ \A x \in DOMAIN tbl \ ks : Remove(tbl, ks)[x] = tbl[x]
  BY DEF Remove

\* An INSERT keeps the shape of a table.
LEMMA InsertOK ==
    ASSUME NEW tbl, NEW R, tbl \in [DOMAIN tbl -> R], NEW k, NEW r \in R
    PROVE  /\ Insert(tbl, k, r) \in [DOMAIN Insert(tbl, k, r) -> R]
           /\ DOMAIN Insert(tbl, k, r) = DOMAIN tbl \cup {k}
           /\ Insert(tbl, k, r)[k] = r
           /\ \A x \in DOMAIN tbl : x # k => Insert(tbl, k, r)[x] = tbl[x]
  BY DEF Insert

\* What is stored is a blob of an upload that has begun, or Torn.
LEMMA BlobsOK ==
    ASSUME StoreOK, NEW q \in DOMAIN store
    PROVE  store[q] \in Blob /\ store[q].id \in Nat /\ store[q].id < nextBlob /\ q \in Path
  BY DEF StoreOK, IdsAt, Blob

\* StoreOK, path by path.
LEMMA StoreByPath ==
    ASSUME nextBlob' \in Nat \ {0},
           store' = [q \in DOMAIN store' |-> store'[q]],
           \A q \in DOMAIN store' :
               q \in Path /\ store'[q] \in Blob /\ store'[q].id < nextBlob'
    PROVE  StoreOK'
<1>1. \A q \in DOMAIN store' : store'[q].id \in 0..(nextBlob' - 1)
  BY DEF Blob
<1>2. store' \in [DOMAIN store' -> Blob]
  OBVIOUS
<1> QED BY <1>1, <1>2 DEF StoreOK, IdsAt

\* Deleting paths.
LEMMA StoreRemove ==
    ASSUME StoreOK, NEW qs, store' = Remove(store, qs), nextBlob' = nextBlob
    PROVE  StoreOK'
<1>1. DOMAIN store' = DOMAIN store \ qs /\ \A x \in DOMAIN store' : store'[x] = store[x]
  BY DEF Remove
<1>2. store' = [x \in DOMAIN store' |-> store'[x]]
  BY DEF Remove
<1> QED BY <1>1, <1>2, BlobsOK, StoreByPath DEF StoreOK

\* Writing a path.
LEMMA StoreInsert ==
    ASSUME StoreOK, NEW q \in Path, NEW b \in Blob, store' = Insert(store, q, b),
           nextBlob' \in Nat, nextBlob <= nextBlob', b.id < nextBlob'
    PROVE  StoreOK'
<1>1. DOMAIN store' = DOMAIN store \cup {q}
  BY DEF Insert
<1>2. \A x \in DOMAIN store' : store'[x] = IF x = q THEN b ELSE store[x]
  BY DEF Insert
<1>3. store' = [x \in DOMAIN store' |-> store'[x]]
  BY DEF Insert
<1>4. nextBlob \in Nat \ {0}
  BY DEF StoreOK
<1> QED BY <1>1, <1>2, <1>3, <1>4, BlobsOK, StoreByPath

\* Renaming a path.
LEMMA StoreRename ==
    ASSUME StoreOK, NEW q \in DOMAIN store, NEW r \in Path, store' = Renamed(q, r),
           nextBlob' = nextBlob
    PROVE  StoreOK'
<1>1. DOMAIN store' = (DOMAIN store \ {q}) \cup {r}
  BY DEF Renamed, Insert, Remove
<1>2. \A x \in DOMAIN store' : store'[x] = IF x = r THEN store[q] ELSE store[x]
  BY DEF Renamed, Insert, Remove
<1>3. store' = [x \in DOMAIN store' |-> store'[x]]
  BY DEF Renamed, Insert
<1> QED BY <1>1, <1>2, <1>3, BlobsOK, StoreByPath DEF StoreOK

\* Deleting paths for good.
LEMMA EraseOK ==
    ASSUME StoreOK, GhostsOK, NEW qs, Erase(qs)
    PROVE  StoreOK' /\ acked' \subseteq Nat /\ erased' \subseteq Nat
<1>1. StoreOK'
  BY StoreRemove DEF Erase
<1>2. IdsAt(qs) \subseteq Nat
  BY BlobsOK DEF IdsAt
<1> QED BY <1>1, <1>2 DEF Erase, GhostsOK

\* The tables are left alone.
LEMMA TablesKept ==
    ASSUME TablesOK, UNCHANGED <<files_, bin_, vers_, used>>
    PROVE  TablesOK'
  BY DEF TablesOK, files_, bin_, vers_

\* The store is left alone.
LEMMA StoreKept ==
    ASSUME StoreOK, UNCHANGED store_
    PROVE  StoreOK'
  BY DEF StoreOK, store_, IdsAt

\* The ghosts are left alone, and the bounds but for faults.
LEMMA GhostsKept ==
    ASSUME GhostsOK, UNCHANGED <<ghosts, bounds>>, faults' \in Nat
    PROVE  GhostsOK'
  BY DEF GhostsOK, ghosts, bounds

------------------------------------------------------------------------------
(* What a statement does to the tables.                                     *)

\* INSERT INTO files.
LEMMA FileInserted ==
    ASSUME TablesOK, NEW r \in FileRow, files' = Insert(files, nextFile, r),
           nextFile' = nextFile + 1, UNCHANGED <<bin_, vers_, used>>
    PROVE  TablesOK'
  BY DEF TablesOK, Insert, bin_, vers_

\* INSERT INTO recycle_bin.
LEMMA ItemInserted ==
    ASSUME TablesOK, NEW r \in Item, bin' = Insert(bin, nextItem, r),
           nextItem' = nextItem + 1, UNCHANGED <<files_, vers_, used>>
    PROVE  TablesOK'
  BY DEF TablesOK, Insert, files_, vers_

\* INSERT INTO file_versions.
LEMMA VersionInserted ==
    ASSUME TablesOK, NEW r \in Version, vers' = Insert(vers, nextVer, r),
           nextVer' = nextVer + 1, UNCHANGED <<files_, bin_, used>>
    PROVE  TablesOK'
  BY DEF TablesOK, Insert, files_, bin_

\* DELETE FROM recycle_bin.
LEMMA ItemsRemoved ==
    ASSUME TablesOK, NEW ks, bin' = Remove(bin, ks),
           UNCHANGED <<files_, nextItem, vers_, used>>
    PROVE  TablesOK'
  BY DEF TablesOK, Remove, files_, vers_

\* DELETE FROM file_versions.
LEMMA VersionsRemoved ==
    ASSUME TablesOK, NEW ks, vers' = Remove(vers, ks),
           UNCHANGED <<files_, nextVer, bin_, used>>
    PROVE  TablesOK'
  BY DEF TablesOK, Remove, files_, bin_

\* UPDATE users SET storage_used.
LEMMA Charged ==
    ASSUME TablesOK, NEW u \in Users, NEW s \in Nat,
           used' = [used EXCEPT ![u] = @ + s] \/ used' = [used EXCEPT ![u] = @ - s],
           UNCHANGED <<files_, bin_, vers_>>
    PROVE  TablesOK'
  BY DEF TablesOK, files_, bin_, vers_

------------------------------------------------------------------------------
(* The steps that change no data.                                           *)

\* A goroutine moves on, whatever becomes of it, and leaves all data alone.
LEMMA DataKept ==
    ASSUME TypeInv, LocalsInv', UNCHANGED <<data, bounds>>, faults' \in Nat
    PROVE  TypeInv'
<1>1. TablesOK' /\ StoreOK' /\ GhostsOK'
  BY TablesKept, StoreKept, GhostsKept DEF TypeInv, data
<1> QED BY <1>1 DEF TypeInv

\* A fault is counted, or there is none.
LEMMA FaultsOK ==
    ASSUME GhostsOK
    PROVE  faults \in Nat /\ faults + 1 \in Nat
  BY DEF GhostsOK

\* A request ends with an error.
LEMMA FailType ==
    ASSUME TypeInv, NEW p \in Procs, Fail(p), UNCHANGED bounds, faults' \in Nat
    PROVE  TypeInv'
  BY Returned, DataKept DEF Fail, TypeInv

------------------------------------------------------------------------------
(* The steps of recycle_service.go.                                         *)

\* Trash reads the row.
LEMMA TrGetType ==
    ASSUME TypeInv, NEW p \in Procs, TrGet(p)
    PROVE  TypeInv'
<1>1. faults' \in Nat /\ UNCHANGED bounds
  BY FaultsOK DEF TypeInv, TrGet, Attempt, OrFault
<1>2. CASE Fail(p)
  BY <1>1, <1>2, FailType
<1>3. CASE ~ Fail(p)
  <2> DEFINE x == [loc[p] EXCEPT !.f = files[loc[p].fid]]
  <2>1. /\ loc[p].fid \in DOMAIN files /\ UNCHANGED data
        /\ Goto(p, "tr_rename") /\ loc' = [loc EXCEPT ![p] = x]
    BY <1>3 DEF TrGet, Attempt, OrFault, Owned
  <2>2. x \in Locals
    BY <2>1, LocalTypes DEF TypeInv, LocalsInv, TablesOK, Locals
  <2>3. "tr_rename" \in Labels \ Saving
    BY DEF Labels, Saving
  <2>4. LocalsInv'
    <3> HIDE DEF x
    <3> QED BY <2>1, <2>2, <2>3, Advance DEF TypeInv
  <2> QED BY <1>1, <2>1, <2>4, DataKept
<1> QED BY <1>2, <1>3

\* Trash moves the bytes to the slot.
LEMMA TrRenameType ==
    ASSUME TypeInv, NEW p \in Procs, TrRename(p)
    PROVE  TypeInv'
<1>1. faults' \in Nat /\ UNCHANGED bounds
  BY FaultsOK DEF TypeInv, TrRename, Attempt, OrFault
<1>2. CASE Fail(p)
  BY <1>1, <1>2, FailType
<1>3. CASE ~ Fail(p)
  <2>1. /\ loc[p].f.path \in DOMAIN store
        /\ store' = Renamed(loc[p].f.path, SlotOf(loc[p]))
        /\ Goto(p, "tr_item")
        /\ UNCHANGED <<files_, bin_, vers_, used, nextBlob, loc, ghosts>>
    BY <1>3 DEF TrRename, Attempt, OrFault
  <2>2. TablesOK' /\ GhostsOK'
    BY <1>1, <2>1, TablesKept, GhostsKept DEF TypeInv
  <2>3. SlotOf(loc[p]) \in Path
    BY LocalTypes, RowTypes, PathsOK, KindsOK DEF SlotOf, TypeInv, LocalsInv
  <2>4. StoreOK'
    BY <2>1, <2>3, StoreRename DEF TypeInv
  <2>5. LocalsInv'
    BY <2>1, Stay DEF TypeInv, Labels, Saving
  <2> QED BY <2>2, <2>4, <2>5 DEF TypeInv
<1> QED BY <1>2, <1>3

\* Trash inserts the row of the bin.
LEMMA TrItemType ==
    ASSUME TypeInv, NEW p \in Procs, TrItem(p)
    PROVE  TypeInv'
<1>1. faults' \in Nat /\ UNCHANGED <<files_, vers_, used, store_, ghosts, bounds, loc>>
  BY FaultsOK DEF TypeInv, TrItem, OrFault
<1>2. StoreOK' /\ GhostsOK'
  BY <1>1, StoreKept, GhostsKept DEF TypeInv
<1>3. LocalsInv'
  BY <1>1, Stay DEF TypeInv, TrItem, OrFault, Labels, Saving
<1>4. TablesOK'
  <2>1. CASE UNCHANGED bin_
    BY <1>1, <2>1, TablesKept DEF TypeInv
  <2>2. CASE ~ UNCHANGED bin_
    <3> DEFINE l == loc[p]
               item == [user |-> l.user, fid |-> l.fid, orig |-> l.f.path,
                        name |-> l.f.name, slot |-> SlotOf(l), size |-> l.f.size,
                        expired |-> FALSE]
    <3>1. bin' = Insert(bin, nextItem, item) /\ nextItem' = nextItem + 1
      BY <2>2 DEF TrItem, OrFault
    <3>2. item \in Item
      BY LocalTypes, RowTypes, PathsOK DEF SlotOf, TypeInv, LocalsInv, Item
    <3> HIDE DEF item
    <3> QED BY <1>1, <3>1, <3>2, ItemInserted DEF TypeInv
  <2> QED BY <2>1, <2>2
<1> QED BY <1>2, <1>3, <1>4 DEF TypeInv

\* Trash moves the bytes back.
LEMMA TrUndoType ==
    ASSUME TypeInv, NEW p \in Procs, TrUndo(p)
    PROVE  TypeInv'
<1>1. faults' \in Nat /\ UNCHANGED <<files_, bin_, vers_, used, nextBlob, ghosts, bounds>>
  BY FaultsOK DEF TypeInv, TrUndo, OrFault
<1>2. TablesOK' /\ GhostsOK'
  BY <1>1, TablesKept, GhostsKept DEF TypeInv
<1>3. LocalsInv'
  BY Returned DEF TypeInv, TrUndo
<1>4. StoreOK'
  <2>1. CASE UNCHANGED store
    BY <1>1, <2>1, StoreKept DEF TypeInv, store_
  <2>2. CASE ~ UNCHANGED store
    <3>1. /\ SlotOf(loc[p]) \in DOMAIN store
          /\ store' = Renamed(SlotOf(loc[p]), loc[p].f.path)
      BY <2>2 DEF TrUndo, OrFault
    <3>2. loc[p].f.path \in Path
      BY LocalTypes, RowTypes, KindsOK DEF TypeInv, LocalsInv
    <3> QED BY <1>1, <3>1, <3>2, StoreRename DEF TypeInv
  <2> QED BY <2>1, <2>2
<1> QED BY <1>2, <1>3, <1>4 DEF TypeInv

\* Trash deletes the row, and the versions of the file with it or not.
LEMMA TrRowType ==
    ASSUME TypeInv, NEW p \in Procs, TrRow(p)
    PROVE  TypeInv'
<1>1. faults' \in Nat /\ UNCHANGED bounds
  BY FaultsOK DEF TypeInv, TrRow, OrFault
<1>2. CASE Fail(p)
  BY <1>1, <1>2, FailType
<1>3. CASE ~ Fail(p)
  <2>1. /\ files' = Remove(files, {loc[p].fid})
        /\ CascadeVersions(loc[p].fid)
        /\ Goto(p, "de_charge")
        /\ UNCHANGED <<nextFile, bin_, nextVer, used, store_, loc, ghosts>>
    BY <1>3 DEF TrRow, OrFault
  <2>2. TablesOK'
    <3>1. CASE vers' = vers
      BY <2>1, <3>1 DEF TypeInv, TablesOK, Remove, bin_
    <3>2. CASE vers' = Remove(vers, VersionsOf(loc[p].fid))
      BY <2>1, <3>2 DEF TypeInv, TablesOK, Remove, bin_
    <3> QED BY <2>1, <3>1, <3>2 DEF CascadeVersions
  <2>3. StoreOK' /\ GhostsOK'
    BY <1>1, <2>1, StoreKept, GhostsKept DEF TypeInv
  <2>4. LocalsInv'
    BY <2>1, Stay DEF TypeInv, Labels, Saving
  <2> QED BY <2>2, <2>3, <2>4 DEF TypeInv
<1> QED BY <1>2, <1>3

\* Restore and PermanentlyDelete read the item.
LEMMA ItemReadType ==
    ASSUME TypeInv, NEW p \in Procs, ReGet(p) \/ PdGet(p)
    PROVE  TypeInv'
<1>1. faults' \in Nat /\ UNCHANGED bounds
  BY FaultsOK DEF TypeInv, ReGet, PdGet, Attempt, OrFault
<1>2. CASE Fail(p)
  BY <1>1, <1>2, FailType
<1>3. CASE ~ Fail(p)
  <2> DEFINE x == [loc[p] EXCEPT !.it = bin[loc[p].id]]
  <2>1. /\ loc[p].id \in DOMAIN bin /\ UNCHANGED data
        /\ Goto(p, "re_rename") \/ Goto(p, "pd_blob")
        /\ loc' = [loc EXCEPT ![p] = x]
    BY <1>3 DEF ReGet, PdGet, Attempt, OrFault, OwnedItem
  <2>2. x \in Locals
    BY <2>1, LocalTypes DEF TypeInv, LocalsInv, TablesOK, Locals
  <2>3. {"re_rename", "pd_blob"} \subseteq Labels \ Saving
    BY DEF Labels, Saving
  <2>4. LocalsInv'
    <3> HIDE DEF x
    <3> QED BY <2>1, <2>2, <2>3, Advance DEF TypeInv
  <2> QED BY <1>1, <2>1, <2>4, DataKept
<1> QED BY <1>2, <1>3

\* Restore moves the bytes to their original path.
LEMMA ReRenameType ==
    ASSUME TypeInv, NEW p \in Procs, ReRename(p)
    PROVE  TypeInv'
<1>1. faults' \in Nat /\ UNCHANGED bounds
  BY FaultsOK DEF TypeInv, ReRename, Attempt, OrFault
<1>2. CASE Fail(p)
  BY <1>1, <1>2, FailType
<1>3. CASE ~ Fail(p)
  <2>1. /\ loc[p].it.slot \in DOMAIN store
        /\ store' = Renamed(loc[p].it.slot, loc[p].it.orig)
        /\ Goto(p, "re_row")
        /\ UNCHANGED <<files_, bin_, vers_, used, nextBlob, loc, ghosts>>
    BY <1>3 DEF ReRename, Attempt, OrFault
  <2>2. TablesOK' /\ GhostsOK'
    BY <1>1, <2>1, TablesKept, GhostsKept DEF TypeInv
  <2>3. loc[p].it.orig \in Path
    BY LocalTypes, ItemTypes, KindsOK DEF TypeInv, LocalsInv
  <2>4. StoreOK'
    BY <2>1, <2>3, StoreRename DEF TypeInv
  <2>5. LocalsInv'
    BY <2>1, Stay DEF TypeInv, Labels, Saving
  <2> QED BY <2>2, <2>4, <2>5 DEF TypeInv
<1> QED BY <1>2, <1>3

\* Restore inserts a new row.
LEMMA ReRowType ==
    ASSUME TypeInv, NEW p \in Procs, ReRow(p)
    PROVE  TypeInv'
<1>1. faults' \in Nat /\ UNCHANGED <<bin_, vers_, used, store_, loc, ghosts, bounds>>
  BY FaultsOK DEF TypeInv, ReRow, OrFault
<1>2. StoreOK' /\ GhostsOK'
  BY <1>1, StoreKept, GhostsKept DEF TypeInv
<1>3. LocalsInv'
  BY <1>1, Stay DEF TypeInv, ReRow, OrFault, Labels, Saving
<1>4. TablesOK'
  <2>1. CASE UNCHANGED files_
    BY <1>1, <2>1, TablesKept DEF TypeInv
  <2>2. CASE ~ UNCHANGED files_
    <3> DEFINE it == loc[p].it
               row == [owner |-> loc[p].user, parent |-> Root, name |-> it.name,
                       path |-> it.orig, size |-> it.size, sha |-> 0, e2ee |-> FALSE]
    <3>1. files' = Insert(files, nextFile, row) /\ nextFile' = nextFile + 1
      BY <2>2 DEF ReRow, OrFault
    <3>2. row \in FileRow
      BY LocalTypes, ItemTypes DEF TypeInv, LocalsInv, FileRow
    <3> HIDE DEF row
    <3> QED BY <1>1, <3>1, <3>2, FileInserted DEF TypeInv
  <2> QED BY <2>1, <2>2
<1> QED BY <1>2, <1>3, <1>4 DEF TypeInv

\* Restore moves the bytes back to the slot.
LEMMA ReUndoType ==
    ASSUME TypeInv, NEW p \in Procs, ReUndo(p)
    PROVE  TypeInv'
<1>1. faults' \in Nat /\ UNCHANGED <<files_, bin_, vers_, used, nextBlob, ghosts, bounds>>
  BY FaultsOK DEF TypeInv, ReUndo, OrFault
<1>2. TablesOK' /\ GhostsOK'
  BY <1>1, TablesKept, GhostsKept DEF TypeInv
<1>3. LocalsInv'
  BY Returned DEF TypeInv, ReUndo
<1>4. StoreOK'
  <2>1. CASE UNCHANGED store
    BY <1>1, <2>1, StoreKept DEF TypeInv, store_
  <2>2. CASE ~ UNCHANGED store
    <3>1. /\ loc[p].it.orig \in DOMAIN store
          /\ store' = Renamed(loc[p].it.orig, loc[p].it.slot)
      BY <2>2 DEF ReUndo, OrFault
    <3>2. loc[p].it.slot \in Path
      BY LocalTypes, ItemTypes, KindsOK DEF TypeInv, LocalsInv
    <3> QED BY <1>1, <3>1, <3>2, StoreRename DEF TypeInv
  <2> QED BY <2>1, <2>2
<1> QED BY <1>2, <1>3, <1>4 DEF TypeInv

\* Restore deletes the item.
LEMMA ReItemType ==
    ASSUME TypeInv, NEW p \in Procs, ReItem(p)
    PROVE  TypeInv'
<1>1. faults' \in Nat /\ UNCHANGED bounds
  BY FaultsOK DEF TypeInv, ReItem, OrFault
<1>2. CASE Fail(p)
  BY <1>1, <1>2, FailType
<1>3. CASE ~ Fail(p)
  <2>1. /\ bin' = Remove(bin, {loc[p].id})
        /\ Goto(p, "re_charge")
        /\ UNCHANGED <<files_, nextItem, vers_, used, store_, loc, ghosts>>
    BY <1>3 DEF ReItem, OrFault
  <2>2. TablesOK' /\ StoreOK' /\ GhostsOK'
    BY <1>1, <2>1, ItemsRemoved, StoreKept, GhostsKept DEF TypeInv
  <2>3. LocalsInv'
    BY <2>1, Stay DEF TypeInv, Labels, Saving
  <2> QED BY <2>2, <2>3 DEF TypeInv
<1> QED BY <1>2, <1>3

\* Restore charges the size, and an upload and a deletion theirs.
LEMMA ChargeType ==
    ASSUME TypeInv, NEW p \in Procs, ReCharge(p) \/ UpCharge(p) \/ DeCharge(p)
    PROVE  TypeInv'
<1> USE LocalTypes, RowTypes, ItemTypes DEF TypeInv, LocalsInv
<1>1. /\ faults' \in Nat /\ Return(p)
      /\ UNCHANGED <<files_, bin_, vers_, store_, erased, bounds>>
  BY FaultsOK DEF ReCharge, UpCharge, DeCharge, OrFault, ghosts
<1>2. LocalsInv'
  BY <1>1, Returned
<1>3. StoreOK'
  BY <1>1, StoreKept
<1>4. GhostsOK'
  BY <1>1 DEF ReCharge, UpCharge, DeCharge, OrFault, GhostsOK, ghosts, bounds
<1>5. TablesOK'
  <2>1. CASE UNCHANGED used
    BY <1>1, <2>1, TablesKept
  <2>2. CASE ReCharge(p) /\ ~ UNCHANGED used
    BY <1>1, <2>2, Charged DEF ReCharge, OrFault
  <2>3. CASE UpCharge(p) /\ ~ UNCHANGED used
    BY <1>1, <2>3, Charged DEF UpCharge, OrFault
  <2>4. CASE DeCharge(p) /\ ~ UNCHANGED used
    BY <1>1, <2>4, Charged DEF DeCharge, OrFault
  <2> QED BY <2>1, <2>2, <2>3, <2>4
<1> QED BY <1>2, <1>3, <1>4, <1>5

\* PermanentlyDelete deletes the bytes.
LEMMA PdBlobType ==
    ASSUME TypeInv, NEW p \in Procs, PdBlob(p)
    PROVE  TypeInv'
<1>1. faults' \in Nat /\ UNCHANGED bounds
  BY FaultsOK DEF TypeInv, PdBlob, OrFault
<1>2. CASE Fail(p)
  BY <1>1, <1>2, FailType
<1>3. CASE ~ Fail(p)
  <2>1. /\ Erase({loc[p].it.slot})
        /\ Goto(p, "pd_row")
        /\ UNCHANGED <<files_, bin_, vers_, used, loc>>
    BY <1>3 DEF PdBlob, OrFault
  <2>2. TablesOK'
    BY <2>1, TablesKept DEF TypeInv
  <2>3. StoreOK' /\ acked' \subseteq Nat /\ erased' \subseteq Nat
    BY <2>1, EraseOK DEF TypeInv
  <2>4. GhostsOK'
    BY <1>1, <2>3 DEF TypeInv, GhostsOK, bounds
  <2>5. LocalsInv'
    BY <2>1, Stay DEF TypeInv, Labels, Saving
  <2> QED BY <2>2, <2>3, <2>4, <2>5 DEF TypeInv
<1> QED BY <1>2, <1>3

\* The three purges delete the rows.
LEMMA PurgeRowsType ==
    ASSUME TypeInv, NEW p \in Procs, PdRow(p) \/ EtRows(p) \/ CuRows(p)
    PROVE  TypeInv'
<1>1. /\ faults' \in Nat /\ Return(p)
      /\ UNCHANGED <<files_, nextItem, vers_, used, store_, ghosts, bounds>>
  BY FaultsOK DEF TypeInv, PdRow, EtRows, CuRows, PurgeRows, OrFault
<1>2. StoreOK' /\ GhostsOK' /\ LocalsInv'
  BY <1>1, StoreKept, GhostsKept, Returned DEF TypeInv
<1>3. TablesOK'
  <2>1. CASE UNCHANGED bin
    BY <1>1, <2>1, TablesKept DEF TypeInv, bin_
  <2>2. CASE ~ UNCHANGED bin
    <3>1. PICK ks : bin' = Remove(bin, ks)
      BY <2>2 DEF PdRow, EtRows, CuRows, PurgeRows, OrFault
    <3> QED BY <1>1, <3>1, ItemsRemoved DEF TypeInv
  <2> QED BY <2>1, <2>2
<1> QED BY <1>2, <1>3 DEF TypeInv

\* EmptyTrash and CleanupExpired list what they will purge.
LEMMA ListPurgeType ==
    ASSUME TypeInv, NEW p \in Procs, NEW here, NEW items \in SUBSET DOMAIN bin,
           NEW next \in {"et_blobs", "cu_blobs"}, ListPurge(p, here, items, next)
    PROVE  TypeInv'
<1>1. faults' \in Nat /\ UNCHANGED bounds
  BY FaultsOK DEF TypeInv, ListPurge, OrFault
<1>2. CASE Fail(p)
  BY <1>1, <1>2, FailType
<1>3. CASE ~ Fail(p)
  <2> DEFINE x == [loc[p] EXCEPT !.todo = Slots(items)]
  <2>1. UNCHANGED data /\ Goto(p, next) /\ loc' = [loc EXCEPT ![p] = x]
    BY <1>3 DEF ListPurge, OrFault
  <2>2. Slots(items) \in SUBSET PathOf({"trash"})
    BY ItemTypes DEF Slots, TypeInv, TablesOK
  <2>3. x \in Locals
    BY <2>2, LocalTypes DEF TypeInv, LocalsInv, Locals
  <2>4. next \in Labels \ Saving
    BY DEF Labels, Saving
  <2>5. LocalsInv'
    <3> HIDE DEF x
    <3> QED BY <2>1, <2>3, <2>4, Advance DEF TypeInv
  <2> QED BY <1>1, <2>1, <2>5, DataKept
<1> QED BY <1>2, <1>3

\* They delete the bytes of one listed item.
LEMMA PurgeBlobType ==
    ASSUME TypeInv, NEW p \in Procs, NEW here, PurgeBlob(p, here)
    PROVE  TypeInv'
<1>1. PICK q \in loc[p].todo :
        /\ loc' = [loc EXCEPT ![p].todo = @ \ {q}]
        /\ OrFault(Erase({q}), UNCHANGED <<store_, ghosts>>)
  BY DEF PurgeBlob
<1>2. UNCHANGED <<files_, bin_, vers_, used, pc, bounds>> /\ faults' \in Nat
  BY <1>1, FaultsOK DEF PurgeBlob, TypeInv, OrFault
<1>3. TablesOK'
  BY <1>2, TablesKept DEF TypeInv
<1>4. StoreOK' /\ GhostsOK'
  <2>1. CASE Erase({q})
    BY <1>2, <2>1, EraseOK DEF TypeInv, GhostsOK, bounds
  <2>2. CASE UNCHANGED <<store_, ghosts>>
    BY <1>2, <2>2, StoreKept, GhostsKept DEF TypeInv
  <2> QED BY <1>1, <2>1, <2>2 DEF OrFault
<1>5. LocalsInv'
  <2> DEFINE x == [loc[p] EXCEPT !.todo = @ \ {q}]
  <2>1. x \in Locals /\ x.ret = loc[p].ret
    BY LocalTypes DEF TypeInv, LocalsInv, Locals
  <2>2. loc' = [loc EXCEPT ![p] = x]
    BY <1>1
  <2> HIDE DEF x
  <2> QED BY <1>2, <2>1, <2>2 DEF TypeInv, LocalsInv, ProcsOK, CallerKnown
<1> QED BY <1>3, <1>4, <1>5 DEF TypeInv

\* An item's retention ends.
LEMMA ExpireType ==
    ASSUME TypeInv, NEW i \in DOMAIN bin, Expire(i)
    PROVE  TypeInv'
<1>1. /\ bin' = [bin EXCEPT ![i].expired = TRUE]
      /\ UNCHANGED <<files_, nextItem, vers_, used, store_, pc, loc, ghosts, faults, bounds>>
  BY DEF Expire
<1>2. bin' \in [DOMAIN bin -> Item] /\ DOMAIN bin' = DOMAIN bin
  BY <1>1 DEF TypeInv, TablesOK, Item
<1>3. TablesOK'
  BY <1>1, <1>2 DEF TypeInv, TablesOK, files_, vers_
<1>4. StoreOK' /\ GhostsOK'
  BY <1>1, StoreKept, GhostsKept DEF TypeInv, GhostsOK
<1>5. LocalsInv'
  BY <1>1 DEF TypeInv, LocalsInv, ProcsOK, CallerKnown
<1> QED BY <1>3, <1>4, <1>5 DEF TypeInv

\* Every step of the recycle bin.
LEMMA RecycleStepType ==
    ASSUME TypeInv, NEW p \in Procs, RecycleSteps(p)
    PROVE  TypeInv'
<1>1. CASE EtList(p)
  <2>1. ListByUser(loc[p].user) \in SUBSET DOMAIN bin
    BY DEF ListByUser, Page
  <2> QED BY <1>1, <2>1, ListPurgeType DEF EtList
<1>2. CASE CuList(p)
  <2>1. Expired \in SUBSET DOMAIN bin
    BY DEF Expired
  <2> QED BY <1>2, <2>1, ListPurgeType DEF CuList
<1>3. CASE EtBlob(p) \/ CuBlob(p)
  BY <1>3, PurgeBlobType DEF EtBlob, CuBlob
<1> QED BY <1>1, <1>2, <1>3, TrGetType, TrRenameType, TrItemType, TrUndoType, TrRowType,
           ItemReadType, ReRenameType, ReRowType, ReUndoType, ReItemType, ChargeType,
           PdBlobType, PurgeRowsType DEF RecycleSteps

------------------------------------------------------------------------------
(* The steps of version_service.go.                                         *)

\* The numbers of a file's versions have a maximum, and the next one is above it.
LEMMA NextNumType ==
    ASSUME TablesOK, NEW fid
    PROVE  /\ NextVersionNum(fid) \in Nat
           /\ \A v \in VersionsOf(fid) : NextVersionNum(fid) > vers[v].num
<1> DEFINE V == VersionsOf(fid)
           num == [v \in V |-> vers[v].num]
           N == {0} \cup {vers[v].num : v \in V}
<1>1. IsFiniteSet(V)
  <2>1. IsFiniteSet(1..(nextVer - 1))
    <3>1. 1 \in Int /\ nextVer - 1 \in Int
      BY DEF TablesOK
    <3> QED BY ONLY <3>1, FS_Interval
  <2>2. V \subseteq 1..(nextVer - 1)
    BY DEF TablesOK, VersionsOf
  <2> QED BY <2>1, <2>2, FS_Subset
<1>2. V \subseteq DOMAIN vers /\ \A v \in V : vers[v].num \in Nat
  BY VersionTypes DEF TablesOK, VersionsOf
<1>3. IsFiniteSet({vers[v].num : v \in V})
  <2>1. num \in Surjection(V, {vers[v].num : v \in V})
    BY DEF Surjection
  <2> QED BY <1>1, <2>1, FS_Surjection
<1>4. IsFiniteSet(N)
  BY <1>3, FS_AddElement DEF N
<1>5. N \in SUBSET Nat /\ N # {}
  BY <1>2
<1>6. Max(N) \in N /\ \A x \in N : x <= Max(N)
  BY <1>4, <1>5, MaxIn
<1>7. NextVersionNum(fid) = Max(N) + 1
  BY DEF NextVersionNum
<1>8. Max(N) \in Nat /\ \A v \in V : vers[v].num <= Max(N)
  BY <1>5, <1>6
<1> HIDE DEF N
<1> QED BY <1>2, <1>7, <1>8

\* SaveVersion takes its number, 1 after an error of the query.
LEMMA SvNumType ==
    ASSUME TypeInv, NEW p \in Procs, SvNum(p)
    PROVE  TypeInv'
<1> DEFINE l == loc[p]
           snap(n, ts) == [fid |-> l.fid, num |-> n, size |-> l.g.size, sha |-> l.g.sha,
                           path |-> Snap(l.g.owner, l.fid, n, ts)]
           x(n, ts) == [l EXCEPT !.snap = snap(n, ts)]
<1>1. /\ pc[p] = "sv_num" /\ faults' \in Nat
      /\ Goto(p, "sv_copy") /\ UNCHANGED <<data, bounds>>
  BY FaultsOK DEF TypeInv, SvNum, OrFault
<1>2. PICK ts \in Stamps, n \in {1, NextVersionNum(l.fid)} : loc' = [loc EXCEPT ![p] = x(n, ts)]
  BY DEF SvNum, OrFault
<1>3. n \in Nat /\ ts \in Nat
  BY <1>2, NextNumType, FileStoreAssumption DEF TypeInv
<1>4. x(n, ts) \in Locals /\ x(n, ts).ret = l.ret
  <2>1. snap(n, ts) \in Version
    BY <1>3, LocalTypes, RowTypes, PathsOK DEF TypeInv, LocalsInv, Version
  <2> QED BY <2>1, LocalTypes DEF TypeInv, LocalsInv, Locals
<1>5. "sv_copy" \in Labels /\ "sv_num" \in Saving
  BY DEF Labels, Saving
<1>6. l.ret # "none"
  BY <1>1, <1>5 DEF TypeInv, LocalsInv, CallerKnown
<1>7. LocalsInv'
  <2> HIDE DEF x
  <2> QED BY <1>1, <1>2, <1>4, <1>5, <1>6, Advance DEF TypeInv
<1> QED BY <1>1, <1>7, DataKept

\* SaveVersion and RestoreVersion copy bytes, or a part of them.
LEMMA CopyOK ==
    ASSUME StoreOK, NEW q, NEW r \in Path, nextBlob' = nextBlob, q \in DOMAIN store,
           NEW b \in Leftovers(q), store' = Insert(store, r, b)
    PROVE  StoreOK'
<1>1. b = Torn \/ b = store[q]
  BY DEF Leftovers
<1>2. Torn \in Blob /\ Torn.id < nextBlob
  BY DEF Torn, Blob, StoreOK
<1>3. b \in Blob /\ b.id < nextBlob
  BY <1>1, <1>2, BlobsOK
<1>4. nextBlob' \in Nat /\ nextBlob <= nextBlob'
  BY DEF StoreOK
<1> QED BY <1>3, <1>4, StoreInsert

\* SaveVersion copies the current bytes to the snapshot.
LEMMA SvCopyType ==
    ASSUME TypeInv, NEW p \in Procs, SvCopy(p)
    PROVE  TypeInv'
<1> DEFINE l == loc[p]
<1>1. /\ faults' \in Nat /\ pc[p] = "sv_copy"
      /\ UNCHANGED <<files_, bin_, vers_, used, nextBlob, ghosts, bounds>>
  BY FaultsOK DEF TypeInv, SvCopy, OrFault
<1>2. TablesOK' /\ GhostsOK'
  BY <1>1, TablesKept, GhostsKept DEF TypeInv
<1>3. (Goto(p, "sv_row") /\ UNCHANGED loc) \/ SvFail(p)
  BY DEF SvCopy, OrFault
<1>4. LocalsInv'
  <2>1. l.ret # "none" /\ "sv_row" \in Labels
    BY <1>1 DEF TypeInv, LocalsInv, CallerKnown, Saving, Labels
  <2> QED BY <1>3, <2>1, Stay, SvFailed DEF TypeInv
<1>5. StoreOK'
  <2>1. CASE UNCHANGED store
    BY <1>1, <2>1, StoreKept DEF TypeInv, store_
  <2>2. CASE ~ UNCHANGED store
    <3>1. /\ l.g.path \in DOMAIN store
          /\ \E b \in Leftovers(l.g.path) : store' = Insert(store, l.snap.path, b)
      BY <2>2 DEF SvCopy, OrFault, Leftovers
    <3>2. l.snap.path \in Path
      BY LocalTypes, VersionTypes, KindsOK DEF TypeInv, LocalsInv
    <3> QED BY <1>1, <3>1, <3>2, CopyOK DEF TypeInv
  <2> QED BY <2>1, <2>2
<1> QED BY <1>2, <1>4, <1>5 DEF TypeInv

\* SaveVersion inserts the version's row, or deletes the snapshot.
LEMMA SvRowType ==
    ASSUME TypeInv, NEW p \in Procs, SvRow(p)
    PROVE  TypeInv'
<1> DEFINE l == loc[p]
<1>1. /\ faults' \in Nat /\ pc[p] = "sv_row"
      /\ UNCHANGED <<files_, bin_, used, nextBlob, ghosts, bounds>>
  BY FaultsOK DEF TypeInv, SvRow, OrFault
<1>2. GhostsOK'
  BY <1>1, GhostsKept DEF TypeInv
<1>3. \/ /\ vers' = Insert(vers, nextVer, l.snap) /\ nextVer' = nextVer + 1
         /\ Goto(p, "pr_count") /\ UNCHANGED <<store, loc>>
      \/ /\ SvFail(p) /\ UNCHANGED vers_
         /\ store' = Remove(store, {l.snap.path}) \/ UNCHANGED store
  BY DEF SvRow, SvUndo, OrFault
<1>4. LocalsInv'
  <2>1. l.ret # "none" /\ "pr_count" \in Labels
    BY <1>1 DEF TypeInv, LocalsInv, CallerKnown, Saving, Labels
  <2> QED BY <1>3, <2>1, Stay, SvFailed DEF TypeInv
<1>5. StoreOK'
  BY <1>1, <1>3, StoreKept, StoreRemove DEF TypeInv, store_
<1>6. TablesOK'
  <2>1. l.snap \in Version
    BY LocalTypes DEF TypeInv, LocalsInv
  <2> QED BY <1>1, <1>3, <2>1, TablesKept, VersionInserted DEF TypeInv
<1> QED BY <1>2, <1>4, <1>5, <1>6 DEF TypeInv

\* pruneOldest counts.
LEMMA PrCountType ==
    ASSUME TypeInv, NEW p \in Procs, PrCount(p)
    PROVE  TypeInv'
<1>1. /\ faults' \in Nat /\ pc[p] = "pr_count" /\ UNCHANGED <<data, bounds>>
  BY FaultsOK DEF TypeInv, PrCount, OrFault
<1>2. (Goto(p, "pr_oldest") /\ UNCHANGED loc) \/ PruneDone(p)
  BY DEF PrCount, OrFault
<1>3. pc[p] \in Saving /\ loc[p].ret # "none" /\ "pr_oldest" \in Labels
  BY <1>1 DEF TypeInv, LocalsInv, CallerKnown, Saving, Labels
<1>4. LocalsInv'
  BY <1>2, <1>3, Stay, Pruned DEF TypeInv
<1> QED BY <1>1, <1>4, DataKept

\* pruneOldest reads the oldest version.
LEMMA PrOldestType ==
    ASSUME TypeInv, NEW p \in Procs, PrOldest(p)
    PROVE  TypeInv'
<1> DEFINE x(v) == [loc[p] EXCEPT !.old = v, !.snap = vers[v]]
<1>1. /\ faults' \in Nat /\ pc[p] = "pr_oldest" /\ UNCHANGED <<data, bounds>>
  BY FaultsOK DEF TypeInv, PrOldest, OrFault
<1>2. pc[p] \in Saving /\ loc[p].ret # "none" /\ "pr_blob" \in Labels
  BY <1>1 DEF TypeInv, LocalsInv, CallerKnown, Saving, Labels
<1>3. CASE PruneDone(p)
  BY <1>1, <1>2, <1>3, Pruned, DataKept DEF TypeInv
<1>4. CASE ~ PruneDone(p)
  <2>1. PICK v \in Oldest(loc[p].fid) : loc' = [loc EXCEPT ![p] = x(v)] /\ Goto(p, "pr_blob")
    BY <1>4 DEF PrOldest, OrFault
  <2>2. v \in Nat /\ vers[v] \in Version
    BY <2>1 DEF Oldest, VersionsOf, TypeInv, TablesOK
  <2>3. x(v) \in Locals /\ x(v).ret = loc[p].ret
    BY <2>2, LocalTypes DEF TypeInv, LocalsInv, Locals
  <2>4. LocalsInv'
    <3> HIDE DEF x
    <3> QED BY <1>2, <2>1, <2>3, Advance DEF TypeInv
  <2> QED BY <1>1, <2>4, DataKept
<1> QED BY <1>3, <1>4

\* pruneOldest and DeleteVersion delete a snapshot.
LEMMA SnapshotErasedType ==
    ASSUME TypeInv, NEW p \in Procs, PrBlob(p) \/ DvBlob(p)
    PROVE  TypeInv'
<1>1. faults' \in Nat /\ UNCHANGED <<files_, bin_, vers_, used, loc, bounds>>
  BY FaultsOK DEF TypeInv, PrBlob, DvBlob, OrFault
<1>2. TablesOK'
  BY <1>1, TablesKept DEF TypeInv
<1>3. StoreOK' /\ GhostsOK'
  <2>1. CASE UNCHANGED <<store_, ghosts>>
    BY <1>1, <2>1, StoreKept, GhostsKept DEF TypeInv
  <2>2. CASE ~ UNCHANGED <<store_, ghosts>>
    <3>1. PICK qs : Erase(qs)
      BY <2>2 DEF PrBlob, DvBlob, OrFault
    <3> QED BY <1>1, <3>1, EraseOK DEF TypeInv, GhostsOK, bounds
  <2> QED BY <2>1, <2>2
<1>4. LocalsInv'
  <2>1. CASE PrBlob(p)
    <3>1. loc[p].ret # "none" /\ Goto(p, "pr_row") /\ "pr_row" \in Labels
      BY <2>1 DEF PrBlob, TypeInv, LocalsInv, CallerKnown, Saving, Labels
    <3> QED BY <1>1, <3>1, Stay DEF TypeInv
  <2>2. CASE DvBlob(p)
    BY <1>1, <2>2, Stay DEF DvBlob, TypeInv, Saving, Labels
  <2> QED BY <2>1, <2>2
<1> QED BY <1>2, <1>3, <1>4 DEF TypeInv

\* pruneOldest and DeleteVersion delete a version's row.
LEMMA VersionErasedType ==
    ASSUME TypeInv, NEW p \in Procs, PrRow(p) \/ DvRow(p)
    PROVE  TypeInv'
<1>1. faults' \in Nat /\ UNCHANGED <<files_, bin_, nextVer, used, store_, ghosts, bounds>>
  BY FaultsOK DEF TypeInv, PrRow, DvRow, OrFault
<1>2. StoreOK' /\ GhostsOK'
  BY <1>1, StoreKept, GhostsKept DEF TypeInv
<1>3. TablesOK'
  <2>1. CASE UNCHANGED vers
    BY <1>1, <2>1, TablesKept DEF TypeInv, vers_
  <2>2. CASE ~ UNCHANGED vers
    <3>1. PICK ks : vers' = Remove(vers, ks)
      BY <2>2 DEF PrRow, DvRow, OrFault
    <3> QED BY <1>1, <3>1, VersionsRemoved DEF TypeInv
  <2> QED BY <2>1, <2>2
<1>4. LocalsInv'
  <2>1. CASE PrRow(p)
    <3>1. (Goto(p, "pr_count") /\ UNCHANGED loc) \/ PruneDone(p)
      BY <2>1 DEF PrRow, OrFault
    <3>2. pc[p] \in Saving /\ loc[p].ret # "none" /\ "pr_count" \in Labels
      BY <2>1 DEF PrRow, TypeInv, LocalsInv, CallerKnown, Saving, Labels
    <3> QED BY <3>1, <3>2, Stay, Pruned DEF TypeInv
  <2>2. CASE DvRow(p)
    BY <2>2, Returned DEF DvRow, TypeInv
  <2> QED BY <2>1, <2>2
<1> QED BY <1>2, <1>3, <1>4 DEF TypeInv

\* RestoreVersion reads the file.
LEMMA RvFileType ==
    ASSUME TypeInv, NEW p \in Procs, RvFile(p)
    PROVE  TypeInv'
<1>1. faults' \in Nat /\ pc[p] = "rv_file" /\ UNCHANGED bounds
  BY FaultsOK DEF TypeInv, RvFile, Attempt, OrFault
<1>2. CASE Fail(p)
  BY <1>1, <1>2, FailType
<1>3. CASE ~ Fail(p)
  <2> DEFINE x == [loc[p] EXCEPT !.g = files[loc[p].fid]]
  <2>1. /\ loc[p].fid \in DOMAIN files /\ UNCHANGED data
        /\ Goto(p, "rv_ver") /\ loc' = [loc EXCEPT ![p] = x]
    BY <1>3 DEF RvFile, Attempt, OrFault, Owned
  <2>2. x \in Locals /\ x.ret = loc[p].ret
    BY <2>1, LocalTypes DEF TypeInv, LocalsInv, TablesOK, Locals
  <2>3. loc[p].ret # "none" /\ "rv_ver" \in Labels
    BY <1>1 DEF TypeInv, LocalsInv, CallerKnown, Saving, Labels
  <2>4. LocalsInv'
    <3> HIDE DEF x
    <3> QED BY <2>1, <2>2, <2>3, Advance DEF TypeInv
  <2> QED BY <1>1, <2>1, <2>4, DataKept
<1> QED BY <1>2, <1>3

\* RestoreVersion and DeleteVersion read the version.
LEMMA VersionReadType ==
    ASSUME TypeInv, NEW p \in Procs, RvVer(p) \/ DvGet(p)
    PROVE  TypeInv'
<1>1. faults' \in Nat /\ UNCHANGED bounds
  BY FaultsOK DEF TypeInv, RvVer, DvGet, Attempt, OrFault
<1>2. CASE Fail(p)
  BY <1>1, <1>2, FailType
<1>3. CASE ~ Fail(p)
  <2> DEFINE x == [loc[p] EXCEPT !.v = vers[loc[p].id]]
  <2>1. /\ loc[p].id \in DOMAIN vers /\ UNCHANGED data
        /\ (pc[p] = "rv_ver" /\ Goto(p, "rv_exists")) \/ Goto(p, "dv_blob")
        /\ loc' = [loc EXCEPT ![p] = x]
    BY <1>3 DEF RvVer, DvGet, Attempt, OrFault, VersionsOf
  <2>2. x \in Locals /\ x.ret = loc[p].ret
    BY <2>1, LocalTypes DEF TypeInv, LocalsInv, TablesOK, Locals
  <2>3. /\ pc[p] = "rv_ver" => loc[p].ret # "none"
        /\ "rv_exists" \in Labels /\ "dv_blob" \in Labels \ Saving
    BY DEF TypeInv, LocalsInv, CallerKnown, Saving, Labels
  <2>4. LocalsInv'
    <3> HIDE DEF x
    <3> QED BY <2>1, <2>2, <2>3, Advance DEF TypeInv
  <2> QED BY <1>1, <2>1, <2>4, DataKept
<1> QED BY <1>2, <1>3

\* RestoreVersion looks for the snapshot, DeleteVersion's handler at the file.
LEMMA LookType ==
    ASSUME TypeInv, NEW p \in Procs, RvExists(p) \/ DvFile(p)
    PROVE  TypeInv'
<1>1. faults' \in Nat /\ UNCHANGED bounds
  BY FaultsOK DEF TypeInv, RvExists, DvFile, Attempt, OrFault
<1>2. CASE Fail(p)
  BY <1>1, <1>2, FailType
<1>3. CASE ~ Fail(p)
  <2>1. /\ UNCHANGED <<data, loc>>
        /\ (pc[p] = "rv_exists" /\ Goto(p, "sv_num")) \/ Goto(p, "dv_get")
    BY <1>3 DEF RvExists, DvFile, Attempt, OrFault
  <2>2. /\ pc[p] = "rv_exists" => loc[p].ret # "none"
        /\ "sv_num" \in Labels /\ "dv_get" \in Labels \ Saving
    BY DEF TypeInv, LocalsInv, CallerKnown, Saving, Labels
  <2>3. LocalsInv'
    BY <2>1, <2>2, Stay DEF TypeInv
  <2> QED BY <1>1, <2>1, <2>3, DataKept
<1> QED BY <1>2, <1>3

\* RestoreVersion copies the snapshot over the current bytes.
LEMMA RvCopyType ==
    ASSUME TypeInv, NEW p \in Procs, RvCopy(p)
    PROVE  TypeInv'
<1> DEFINE l == loc[p]
<1>1. /\ faults' \in Nat
      /\ UNCHANGED <<files_, bin_, vers_, used, nextBlob, ghosts, bounds>>
  BY FaultsOK DEF TypeInv, RvCopy, OrFault
<1>2. TablesOK' /\ GhostsOK'
  BY <1>1, TablesKept, GhostsKept DEF TypeInv
<1>3. LocalsInv'
  BY Stay, Returned DEF RvCopy, OrFault, TypeInv, Labels, Saving
<1>4. StoreOK'
  <2>1. CASE UNCHANGED store
    BY <1>1, <2>1, StoreKept DEF TypeInv, store_
  <2>2. CASE ~ UNCHANGED store
    <3>1. /\ l.v.path \in DOMAIN store
          /\ \E b \in Leftovers(l.v.path) : store' = Insert(store, l.g.path, b)
      BY <2>2 DEF RvCopy, OrFault, Leftovers
    <3>2. l.g.path \in Path
      BY LocalTypes, RowTypes, KindsOK DEF TypeInv, LocalsInv
    <3> QED BY <1>1, <3>1, <3>2, CopyOK DEF TypeInv
  <2> QED BY <2>1, <2>2
<1> QED BY <1>2, <1>3, <1>4 DEF TypeInv

\* RestoreVersion updates the row of the file.
LEMMA RvRowType ==
    ASSUME TypeInv, NEW p \in Procs, RvRow(p)
    PROVE  TypeInv'
<1>1. /\ faults' \in Nat /\ Return(p)
      /\ UNCHANGED <<nextFile, bin_, vers_, used, store_, ghosts, bounds>>
  BY FaultsOK DEF TypeInv, RvRow, OrFault
<1>2. StoreOK' /\ GhostsOK' /\ LocalsInv'
  BY <1>1, StoreKept, GhostsKept, Returned DEF TypeInv
<1>3. TablesOK'
  <2>1. CASE UNCHANGED files
    BY <1>1, <2>1, TablesKept DEF TypeInv, files_
  <2>2. CASE ~ UNCHANGED files
    <3> DEFINE row == [loc[p].g EXCEPT !.size = loc[p].v.size, !.sha = loc[p].v.sha]
    <3>1. loc[p].fid \in DOMAIN files /\ files' = [files EXCEPT ![loc[p].fid] = row]
      BY <2>2 DEF RvRow, OrFault
    <3>2. row \in FileRow
      BY LocalTypes, VersionTypes DEF TypeInv, LocalsInv, FileRow
    <3> HIDE DEF row
    <3> QED BY <1>1, <3>1, <3>2 DEF TypeInv, TablesOK, bin_, vers_
  <2> QED BY <2>1, <2>2
<1> QED BY <1>2, <1>3 DEF TypeInv

\* Every step of the versions.
LEMMA VersionStepType ==
    ASSUME TypeInv, NEW p \in Procs, VersionSteps(p)
    PROVE  TypeInv'
  BY SvNumType, SvCopyType, SvRowType, PrCountType, PrOldestType, SnapshotErasedType,
     VersionErasedType, RvFileType, VersionReadType, LookType, RvCopyType, RvRowType
     DEF VersionSteps

------------------------------------------------------------------------------
(* The steps of file_service.go.                                            *)

\* Among some rows of files there is a newest.
LEMMA NewestRow ==
    ASSUME TablesOK, NEW S \in SUBSET DOMAIN files, S # {}
    PROVE  Max(S) \in S
<1>1. IsFiniteSet(1..(nextFile - 1))
  <2>1. 1 \in Int /\ nextFile - 1 \in Int
    BY DEF TablesOK
  <2> QED BY ONLY <2>1, FS_Interval
<1>2. S \subseteq 1..(nextFile - 1)
  BY DEF TablesOK
<1>3. IsFiniteSet(S)
  BY <1>1, <1>2, FS_Subset
<1>4. S \in SUBSET Nat
  BY <1>2 DEF TablesOK
<1> QED BY <1>3, <1>4, MaxIn

\* UploadWithOptions lists the directory.
LEMMA UpListType ==
    ASSUME TypeInv, NEW p \in Procs, UpList(p)
    PROVE  TypeInv'
<1> DEFINE r == loc[p].f
           same == {f \in ListByParent(r.owner, r.parent) : files[f].name = r.name}
           x == [loc[p] EXCEPT !.fid = Max(same), !.g = files[Max(same)], !.ret = "up_write"]
<1>1. faults' \in Nat /\ UNCHANGED <<data, bounds>>
  BY FaultsOK DEF TypeInv, UpList, OrFault
<1>2. CASE Goto(p, "up_write") /\ UNCHANGED loc
  BY <1>1, <1>2, Stay, DataKept DEF TypeInv, Labels, Saving
<1>3. CASE ~ (Goto(p, "up_write") /\ UNCHANGED loc)
  <2>1. same # {} /\ Goto(p, "sv_num") /\ loc' = [loc EXCEPT ![p] = x]
    BY <1>3 DEF UpList, OrFault
  <2>2. Max(same) \in DOMAIN files
    <3>1. same \in SUBSET DOMAIN files
      BY DEF ListByParent, Page
    <3>2. same # {}
      BY <2>1
    <3> HIDE DEF same
    <3> QED BY <3>1, <3>2, NewestRow DEF TypeInv
  <2>3. Max(same) \in Nat /\ files[Max(same)] \in FileRow
    <3> HIDE DEF same
    <3> QED BY <2>2 DEF TypeInv, TablesOK
  <2>4. x \in Locals /\ x.ret = "up_write"
    <3> HIDE DEF same
    <3> QED BY <2>3, LocalTypes DEF TypeInv, LocalsInv, Locals
  <2>5. LocalsInv'
    <3> HIDE DEF x
    <3> QED BY <2>1, <2>4, Advance DEF TypeInv, Labels
  <2> QED BY <1>1, <2>5, DataKept
<1> QED BY <1>2, <1>3

\* UploadWithOptions writes the temporary file.
LEMMA UpWriteType ==
    ASSUME TypeInv, NEW p \in Procs, UpWrite(p)
    PROVE  TypeInv'
<1> DEFINE r == loc[p].f
           tmp == Tmp(r.owner, r.name)
           blob == [id |-> nextBlob, size |-> r.size, e2ee |-> r.e2ee]
           x == [loc[p] EXCEPT !.f.sha = nextBlob, !.ret = "none"]
<1>1. faults' \in Nat /\ UNCHANGED <<files_, bin_, vers_, used, ghosts, bounds>>
  BY FaultsOK DEF TypeInv, UpWrite, OrFault
<1>2. TablesOK' /\ GhostsOK'
  BY <1>1, TablesKept, GhostsKept DEF TypeInv
<1>3. tmp \in Path /\ r.size \in Nat /\ r.e2ee \in BOOLEAN
  BY LocalTypes, RowTypes, PathsOK, KindsOK DEF TypeInv, LocalsInv
<1>4. nextBlob \in Nat \ {0}
  BY DEF TypeInv, StoreOK
<1>5. CASE Return(p) /\ UNCHANGED nextBlob
  <2>1. LocalsInv'
    BY <1>5, Returned DEF TypeInv
  <2>2. \/ UNCHANGED store
        \/ store' = Remove(store, {tmp})
        \/ store' = Insert(store, tmp, Torn)
    <3>1. CASE loc' = [loc EXCEPT ![p].f.sha = nextBlob, ![p].ret = "none"] /\ nextBlob' = nextBlob + 1
      BY <1>4, <1>5, <3>1
    <3>2. CASE ~ (loc' = [loc EXCEPT ![p].f.sha = nextBlob, ![p].ret = "none"] /\ nextBlob' = nextBlob + 1)
      BY <3>2 DEF UpWrite, DropTmp, OrFault
    <3> QED BY <3>1, <3>2
  <2>3. Torn \in Blob /\ Torn.id < nextBlob
    BY <1>4 DEF Torn, Blob
  <2>4. StoreOK'
    <3> HIDE DEF tmp
    <3> QED BY <1>3, <1>4, <1>5, <2>2, <2>3, StoreKept, StoreRemove, StoreInsert DEF TypeInv, store_
  <2> QED BY <1>2, <2>1, <2>4 DEF TypeInv
<1>6. CASE ~ (Return(p) /\ UNCHANGED nextBlob)
  <2>1. /\ store' = Insert(store, tmp, blob) /\ nextBlob' = nextBlob + 1
        /\ Goto(p, "up_quota")
        /\ loc' = [loc EXCEPT ![p].f.sha = nextBlob, ![p].ret = "none"]
    BY <1>6 DEF UpWrite, OrFault
  <2>2. blob \in Blob /\ blob.id < nextBlob'
    BY <1>3, <1>4, <2>1 DEF Blob
  <2>3. StoreOK'
    <3> HIDE DEF tmp, blob
    <3> QED BY <1>3, <1>4, <2>1, <2>2, StoreInsert DEF TypeInv
  <2>4. x \in Locals
    <3>1. [r EXCEPT !.sha = nextBlob] \in FileRow
      BY <1>4, LocalTypes DEF TypeInv, LocalsInv, FileRow
    <3>2. x = [loc[p] EXCEPT !.f = [r EXCEPT !.sha = nextBlob], !.ret = "none"]
      BY LocalTypes DEF TypeInv, LocalsInv, Locals
    <3> HIDE DEF x
    <3> QED BY <3>1, <3>2, LocalTypes DEF TypeInv, LocalsInv, Locals
  <2>5. loc' = [loc EXCEPT ![p] = x]
    BY <2>1
  <2>6. LocalsInv'
    <3>1. "up_quota" \in Labels /\ "up_quota" \notin Saving
      BY DEF Labels, Saving
    <3> HIDE DEF x
    <3> QED BY <2>1, <2>4, <2>5, <3>1, Advance DEF TypeInv
  <2> QED BY <1>2, <2>3, <2>6 DEF TypeInv
<1> QED BY <1>5, <1>6

\* UploadWithOptions looks at the quota.
LEMMA UpQuotaType ==
    ASSUME TypeInv, NEW p \in Procs, UpQuota(p)
    PROVE  TypeInv'
<1>1. /\ faults' \in Nat
      /\ UNCHANGED <<files_, bin_, vers_, used, nextBlob, ghosts, bounds>>
  BY FaultsOK DEF TypeInv, UpQuota, OrFault
<1>2. TablesOK' /\ GhostsOK'
  BY <1>1, TablesKept, GhostsKept DEF TypeInv
<1>3. LocalsInv'
  BY Stay, Returned DEF UpQuota, OrFault, TypeInv, Labels, Saving
<1>4. UNCHANGED store \/ store' = Remove(store, {Tmp(loc[p].f.owner, loc[p].f.name)})
  BY DEF UpQuota, OrFault
<1>5. StoreOK'
  BY <1>1, <1>4, StoreKept, StoreRemove DEF TypeInv, store_
<1> QED BY <1>2, <1>3, <1>5 DEF TypeInv

\* UploadWithOptions inserts the new row.
LEMMA UpRowType ==
    ASSUME TypeInv, NEW p \in Procs, UpRow(p)
    PROVE  TypeInv'
<1>1. faults' \in Nat /\ UNCHANGED bounds
  BY FaultsOK DEF TypeInv, UpRow, Attempt, OrFault
<1>2. CASE Fail(p)
  BY <1>1, <1>2, FailType
<1>3. CASE ~ Fail(p)
  <2>1. /\ files' = Insert(files, nextFile, loc[p].f) /\ nextFile' = nextFile + 1
        /\ Goto(p, "up_charge")
        /\ UNCHANGED <<bin_, vers_, used, store_, loc, ghosts>>
    BY <1>3 DEF UpRow, Attempt, OrFault
  <2>2. loc[p].f \in FileRow
    BY LocalTypes DEF TypeInv, LocalsInv
  <2>3. TablesOK' /\ StoreOK' /\ GhostsOK'
    BY <1>1, <2>1, <2>2, FileInserted, StoreKept, GhostsKept DEF TypeInv
  <2>4. LocalsInv'
    BY <2>1, Stay DEF TypeInv, Labels, Saving
  <2> QED BY <2>3, <2>4 DEF TypeInv
<1> QED BY <1>2, <1>3

\* Delete reads the row's size.
LEMMA DeGetType ==
    ASSUME TypeInv, NEW p \in Procs, DeGet(p)
    PROVE  TypeInv'
<1>1. faults' \in Nat /\ UNCHANGED bounds
  BY FaultsOK DEF TypeInv, DeGet, Attempt, OrFault
<1>2. CASE Fail(p)
  BY <1>1, <1>2, FailType
<1>3. CASE ~ Fail(p)
  <2> DEFINE x == [loc[p] EXCEPT !.size = files[loc[p].fid].size]
  <2>1. /\ loc[p].fid \in DOMAIN files /\ UNCHANGED data
        /\ Goto(p, "tr_get") /\ loc' = [loc EXCEPT ![p] = x]
    BY <1>3 DEF DeGet, Attempt, OrFault, Owned
  <2>2. files[loc[p].fid].size \in Nat
    BY <2>1, RowTypes DEF TypeInv, TablesOK
  <2>3. x \in Locals
    BY <2>2, LocalTypes DEF TypeInv, LocalsInv, Locals
  <2>4. "tr_get" \in Labels \ Saving
    BY DEF Labels, Saving
  <2>5. LocalsInv'
    <3> HIDE DEF x
    <3> QED BY <2>1, <2>3, <2>4, Advance DEF TypeInv
  <2> QED BY <1>1, <2>1, <2>5, DataKept
<1> QED BY <1>2, <1>3

------------------------------------------------------------------------------
(* The temporary file of an upload belongs to it until the upload renames   *)
(* or drops it: no other goroutine and no error path can take it away.      *)

UpSteps == {"up_list", "up_write", "up_quota", "up_rename"}
InUpload(p) == pc[p] \in UpSteps \/ loc[p].ret = "up_write"
KeyOf(p) == <<loc[p].f.owner, loc[p].f.name>>
TmpOf(p) == Tmp(loc[p].f.owner, loc[p].f.name)

\* Uploads at work write different temporary files.
Exclusive == \A p, q \in Procs : p # q /\ InUpload(p) /\ InUpload(q) => KeyOf(p) # KeyOf(q)

\* Only SaveVersion and pruneOldest still know of the upload that called them.
CallerUsed == \A p \in Procs : loc[p].ret = "up_write" => pc[p] \in Saving \cup {"up_write"}

\* An upload past its write finds its own bytes in its temporary file.
TmpHeld ==
    \A p \in Procs :
        pc[p] \in {"up_quota", "up_rename"} =>
            TmpOf(p) \in DOMAIN store /\ store[TmpOf(p)].id = loc[p].f.sha

UpInv == Exclusive /\ CallerUsed /\ TmpHeld

\* A step of p that is outside of every upload, and leaves temporary files alone.
OthersStay(p) == \A r \in Procs \ {p} : pc'[r] = pc[r] /\ loc'[r] = loc[r]
Quietly(p) == OthersStay(p) /\ pc'[p] \notin UpSteps /\ loc'[p].ret # "up_write"
TmpKept == \A q \in DOMAIN store :
               q.kind = "tmp" => q \in DOMAIN store' /\ store'[q] = store[q]

\* A step that belongs to the upload of p, before it writes.
Onwards(p) ==
    /\ OthersStay(p)
    /\ InUpload(p) /\ loc'[p].f = loc[p].f
    /\ pc'[p] \notin {"up_quota", "up_rename"}
    /\ loc'[p].ret = "up_write" => pc'[p] \in Saving \cup {"up_write"}

\* Two keys with one temporary file are one key, and it is a path of its own kind.
LEMMA TmpOfKey ==
    ASSUME NEW u, NEW n, NEW v, NEW m
    PROVE  Tmp(u, n).kind = "tmp" /\ (Tmp(u, n) = Tmp(v, m) => u = v /\ n = m)
<1>1. \A x, y : Tmp(x, y) = [kind |-> "tmp", user |-> x, name |-> y, fid |-> 0,
                              num |-> 0, ts |-> 0]
  BY DEF Tmp, Home
<1> QED BY <1>1

\* Steps outside of uploads keep the invariant.
LEMMA QuietUp ==
    ASSUME UpInv, NEW p \in Procs, Quietly(p), TmpKept
    PROVE  UpInv'
<1>1. \A r \in Procs : InUpload(r)' => r # p /\ InUpload(r) /\ KeyOf(r)' = KeyOf(r)
  BY DEF Quietly, OthersStay, InUpload, KeyOf
<1>2. Exclusive'
  BY <1>1 DEF UpInv, Exclusive
<1>3. CallerUsed'
  BY DEF UpInv, CallerUsed, Quietly, OthersStay
<1>4. TmpHeld'
  <2> SUFFICES ASSUME NEW r \in Procs, pc'[r] \in {"up_quota", "up_rename"}
               PROVE  TmpOf(r)' \in DOMAIN store' /\ store'[TmpOf(r)'].id = loc'[r].f.sha
    BY DEF TmpHeld
  <2>1. r # p
    BY DEF Quietly, UpSteps
  <2>2. pc'[r] = pc[r] /\ loc'[r] = loc[r]
    BY <2>1 DEF Quietly, OthersStay
  <2>3. TmpOf(r)' = TmpOf(r)
    BY <2>2 DEF TmpOf
  <2>4. TmpOf(r) \in DOMAIN store /\ store[TmpOf(r)].id = loc[r].f.sha
    BY <2>2 DEF UpInv, TmpHeld
  <2>5. TmpOf(r).kind = "tmp"
    BY TmpOfKey DEF TmpOf
  <2> QED BY <2>2, <2>3, <2>4, <2>5 DEF TmpKept
<1> QED BY <1>2, <1>3, <1>4 DEF UpInv

\* So do an upload's own steps before it writes.
LEMMA OnwardsUp ==
    ASSUME UpInv, NEW p \in Procs, Onwards(p), TmpKept
    PROVE  UpInv'
<1>1. \A r \in Procs : InUpload(r)' => InUpload(r)
  BY DEF Onwards, OthersStay, InUpload
<1>2. \A r \in Procs : KeyOf(r)' = KeyOf(r)
  BY DEF Onwards, OthersStay, KeyOf
<1>3. Exclusive'
  BY <1>1, <1>2 DEF UpInv, Exclusive
<1>4. CallerUsed'
  BY DEF UpInv, CallerUsed, Onwards, OthersStay
<1>5. TmpHeld'
  <2> SUFFICES ASSUME NEW r \in Procs, pc'[r] \in {"up_quota", "up_rename"}
               PROVE  TmpOf(r)' \in DOMAIN store' /\ store'[TmpOf(r)'].id = loc'[r].f.sha
    BY DEF TmpHeld
  <2>1. r # p
    BY DEF Onwards
  <2>2. pc'[r] = pc[r] /\ loc'[r] = loc[r]
    BY <2>1 DEF Onwards, OthersStay
  <2>3. TmpOf(r)' = TmpOf(r)
    BY <2>2 DEF TmpOf
  <2>4. TmpOf(r) \in DOMAIN store /\ store[TmpOf(r)].id = loc[r].f.sha
    BY <2>2 DEF UpInv, TmpHeld
  <2>5. TmpOf(r).kind = "tmp"
    BY TmpOfKey DEF TmpOf
  <2> QED BY <2>2, <2>3, <2>4, <2>5 DEF TmpKept
<1> QED BY <1>3, <1>4, <1>5 DEF UpInv

\* Renaming, writing and deleting other paths leaves temporary files alone.
LEMMA TmpUntouched ==
    ASSUME StoreOK,
           \/ UNCHANGED store
           \/ \E qs : store' = Remove(store, qs) /\ \A q \in qs : q.kind # "tmp"
           \/ \E q, b : store' = Insert(store, q, b) /\ q.kind # "tmp"
           \/ \E q, r : /\ q \in DOMAIN store /\ store' = Renamed(q, r)
                        /\ q.kind # "tmp" /\ r.kind # "tmp"
    PROVE  TmpKept
<1>1. CASE UNCHANGED store
  BY <1>1 DEF TmpKept
<1>2. ASSUME NEW qs, store' = Remove(store, qs), \A q \in qs : q.kind # "tmp"
      PROVE  TmpKept
  BY <1>2 DEF TmpKept, Remove
<1>3. ASSUME NEW q, NEW b, store' = Insert(store, q, b), q.kind # "tmp"
      PROVE  TmpKept
  BY <1>3 DEF TmpKept, Insert
<1>4. ASSUME NEW q \in DOMAIN store, NEW r, store' = Renamed(q, r),
             q.kind # "tmp", r.kind # "tmp"
      PROVE  TmpKept
  BY <1>4 DEF TmpKept, Renamed, Insert, Remove
<1> QED BY <1>1, <1>2, <1>3, <1>4

\* A goroutine that returns is quiet.
LEMMA ReturnQuiet ==
    ASSUME LocalsInv, NEW p \in Procs, Return(p)
    PROVE  Quietly(p)
<1>1. \A r \in Procs \ {p} : pc'[r] = pc[r] /\ loc'[r] = loc[r]
  BY DEF LocalsInv, ProcsOK, Return
<1>2. pc'[p] = "idle" /\ loc'[p] = NoLocals
  BY DEF LocalsInv, ProcsOK, Return
<1> QED BY <1>1, <1>2, NoLocalsOK DEF Quietly, OthersStay, UpSteps

\* So is one that goes on outside of an upload.
LEMMA StayQuiet ==
    ASSUME LocalsInv, NEW p \in Procs, NEW l, Goto(p, l), l \notin UpSteps,
           \A r \in Procs \ {p} : loc'[r] = loc[r],
           loc'[p].ret # "up_write"
    PROVE  Quietly(p)
  BY DEF LocalsInv, ProcsOK, Goto, Quietly, OthersStay

\* The paths the services know are not temporary files.
LEMMA NoTmpKnown ==
    ASSUME LocalsInv, NEW p \in Procs
    PROVE  /\ loc[p].f.path.kind # "tmp" /\ loc[p].g.path.kind # "tmp"
           /\ loc[p].it.orig.kind # "tmp" /\ loc[p].it.slot.kind # "tmp"
           /\ loc[p].v.path.kind # "tmp" /\ loc[p].snap.path.kind # "tmp"
           /\ SlotOf(loc[p]).kind # "tmp"
           /\ \A q \in loc[p].todo : q.kind # "tmp"
<1>1. /\ loc[p].f \in FileRow /\ loc[p].g \in FileRow /\ loc[p].it \in Item
      /\ loc[p].v \in Version /\ loc[p].snap \in Version
      /\ loc[p].user \in Users /\ loc[p].fid \in Nat
      /\ loc[p].todo \subseteq PathOf({"trash"})
  BY LocalTypes DEF LocalsInv
<1>2. SlotOf(loc[p]) \in PathOf({"trash"})
  BY <1>1, RowTypes, PathsOK DEF SlotOf
<1> QED BY <1>1, <1>2, RowTypes, ItemTypes, VersionTypes DEF PathOf

\* The recycle bin leaves uploads alone.
LEMMA RecycleUp ==
    ASSUME TypeInv, UpInv, NEW p \in Procs, RecycleSteps(p)
    PROVE  UpInv'
<1>1. loc[p].ret # "up_write"
  BY DEF RecycleSteps, UpInv, CallerUsed, Saving, TrGet, TrRename, TrItem, TrUndo, TrRow,
         ReGet, ReRename, ReRow, ReUndo, ReItem, ReCharge, PdGet, PdBlob, PdRow,
         EtList, EtBlob, EtRows, CuList, CuBlob, CuRows, ListPurge, PurgeBlob, PurgeRows
<1>2. LocalsInv /\ StoreOK /\ loc \in [Procs -> Locals] /\ loc[p] \in Locals
  BY LocalTypes DEF TypeInv, LocalsInv, ProcsOK
<1>3. ASSUME TmpKept, Quietly(p) PROVE UpInv'
  BY <1>3, QuietUp
<1>4. ASSUME NEW l, Goto(p, l), l \notin UpSteps, UNCHANGED loc PROVE Quietly(p)
  BY <1>1, <1>2, <1>4, StayQuiet
<1>5. ASSUME Fail(p) PROVE UpInv'
  BY <1>2, <1>3, <1>5, ReturnQuiet, TmpUntouched DEF Fail, data, store_
<1>6. CASE TrGet(p) \/ ReGet(p) \/ PdGet(p)
  <2>1. CASE ~ Fail(p)
    <3>1. UNCHANGED store
      BY <1>6, <2>1 DEF TrGet, ReGet, PdGet, Attempt, OrFault, data, store_
    <3>2. /\ \A r \in Procs \ {p} : loc'[r] = loc[r]
          /\ loc'[p].ret = loc[p].ret
      BY <1>2, <1>6, <2>1 DEF TrGet, ReGet, PdGet, Attempt, OrFault, Locals
    <3>3. Quietly(p)
      BY <1>1, <1>2, <1>6, <2>1, <3>2, StayQuiet
         DEF TrGet, ReGet, PdGet, Attempt, OrFault, UpSteps
    <3> QED BY <1>2, <1>3, <3>1, <3>3, TmpUntouched
  <2> QED BY <1>5, <2>1
<1>7. CASE TrRename(p)
  <2>1. CASE ~ Fail(p)
    <3>1. Quietly(p)
      BY <1>4, <1>7, <2>1 DEF TrRename, Attempt, OrFault, UpSteps
    <3>2. TmpKept
      BY <1>2, <1>7, <2>1, NoTmpKnown, TmpUntouched DEF TrRename, Attempt, OrFault
    <3> QED BY <1>3, <3>1, <3>2
  <2> QED BY <1>5, <2>1
<1>8. CASE TrItem(p) \/ ReRow(p)
  <2>1. Quietly(p)
    BY <1>4, <1>8 DEF TrItem, ReRow, OrFault, UpSteps
  <2>2. TmpKept
    BY <1>2, <1>8, TmpUntouched DEF TrItem, ReRow, store_
  <2> QED BY <1>3, <2>1, <2>2
<1>9. CASE TrUndo(p) \/ ReUndo(p)
  <2>1. Quietly(p)
    BY <1>2, <1>9, ReturnQuiet DEF TrUndo, ReUndo
  <2>2. TmpKept
    BY <1>2, <1>9, NoTmpKnown, TmpUntouched DEF TrUndo, ReUndo, OrFault
  <2> QED BY <1>3, <2>1, <2>2
<1>10. CASE TrRow(p) \/ ReItem(p)
  <2>1. CASE ~ Fail(p)
    <3>1. Quietly(p)
      BY <1>4, <1>10, <2>1 DEF TrRow, ReItem, OrFault, UpSteps
    <3>2. TmpKept
      BY <1>2, <1>10, <2>1, TmpUntouched DEF TrRow, ReItem, OrFault, store_
    <3> QED BY <1>3, <3>1, <3>2
  <2> QED BY <1>5, <2>1
<1>11. CASE ReRename(p)
  <2>1. CASE ~ Fail(p)
    <3>1. Quietly(p)
      BY <1>4, <1>11, <2>1 DEF ReRename, Attempt, OrFault, UpSteps
    <3>2. TmpKept
      BY <1>2, <1>11, <2>1, NoTmpKnown, TmpUntouched DEF ReRename, Attempt, OrFault
    <3> QED BY <1>3, <3>1, <3>2
  <2> QED BY <1>5, <2>1
<1>12. CASE ReCharge(p) \/ PdRow(p) \/ EtRows(p) \/ CuRows(p)
  <2>1. Return(p) /\ UNCHANGED store
    BY <1>12 DEF ReCharge, PdRow, EtRows, CuRows, PurgeRows, store_
  <2> QED BY <1>2, <1>3, <2>1, ReturnQuiet, TmpUntouched
<1>13. CASE PdBlob(p)
  <2>1. CASE ~ Fail(p)
    <3>1. Quietly(p)
      BY <1>4, <1>13, <2>1 DEF PdBlob, OrFault, UpSteps
    <3>2. TmpKept
      <4>1. store' = Remove(store, {loc[p].it.slot})
        BY <1>13, <2>1 DEF PdBlob, OrFault, Erase
      <4> QED BY <1>2, <4>1, NoTmpKnown, TmpUntouched
    <3> QED BY <1>3, <3>1, <3>2
  <2> QED BY <1>5, <2>1
<1>14. CASE EtList(p) \/ CuList(p)
  <2>1. CASE ~ Fail(p)
    <3>1. UNCHANGED store
      BY <1>14, <2>1 DEF EtList, CuList, ListPurge, OrFault, data, store_
    <3>2. /\ \A r \in Procs \ {p} : loc'[r] = loc[r]
          /\ loc'[p].ret = loc[p].ret
      BY <1>2, <1>14, <2>1 DEF EtList, CuList, ListPurge, OrFault, Locals
    <3>3. Goto(p, "et_blobs") \/ Goto(p, "cu_blobs")
      BY <1>14, <2>1 DEF EtList, CuList, ListPurge, OrFault
    <3>4. Quietly(p)
      BY <1>1, <1>2, <3>2, <3>3, StayQuiet DEF UpSteps
    <3> QED BY <1>2, <1>3, <3>1, <3>4, TmpUntouched
  <2> QED BY <1>5, <2>1
<1>15. CASE EtBlob(p) \/ CuBlob(p)
  <2>1. PICK q \in loc[p].todo : /\ loc' = [loc EXCEPT ![p].todo = @ \ {q}]
                                 /\ store' = Remove(store, {q}) \/ UNCHANGED store
    BY <1>15 DEF EtBlob, CuBlob, PurgeBlob, OrFault, Erase, store_
  <2>2. /\ \A r \in Procs \ {p} : loc'[r] = loc[r]
        /\ loc'[p].ret = loc[p].ret
    BY <1>2, <2>1 DEF Locals
  <2>3. UNCHANGED pc /\ pc[p] \in {"et_blobs", "cu_blobs"}
    BY <1>15 DEF EtBlob, CuBlob, PurgeBlob
  <2>4. Quietly(p)
    BY <1>1, <2>2, <2>3 DEF Quietly, OthersStay, UpSteps
  <2>5. TmpKept
    BY <1>2, <2>1, NoTmpKnown, TmpUntouched
  <2> QED BY <1>3, <2>4, <2>5
<1> QED BY <1>6, <1>7, <1>8, <1>9, <1>10, <1>11, <1>12, <1>13, <1>14, <1>15 DEF RecycleSteps

\* SaveVersion and pruneOldest go on, inside of an upload or of a restore.
LEMMA SavingUp ==
    ASSUME LocalsInv, UpInv, NEW p \in Procs, TmpKept,
           \/ /\ \E l \in Saving : Goto(p, l)
              /\ \A r \in Procs \ {p} : loc'[r] = loc[r]
              /\ loc'[p].f = loc[p].f /\ loc'[p].ret = loc[p].ret
           \/ SvFail(p)
           \/ pc[p] \in Saving /\ PruneDone(p)
    PROVE  UpInv'
<1>1. CASE loc[p].ret = "up_write"
  <2>1. Onwards(p)
    BY <1>1 DEF Onwards, OthersStay, InUpload, LocalsInv, ProcsOK, Goto, Saving, SvFail, PruneDone
  <2> QED BY <2>1, OnwardsUp
<1>2. CASE loc[p].ret # "up_write"
  <2>1. CASE \E l \in Saving : /\ Goto(p, l)
                               /\ \A r \in Procs \ {p} : loc'[r] = loc[r]
                               /\ loc'[p].f = loc[p].f /\ loc'[p].ret = loc[p].ret
    BY <1>2, <2>1, StayQuiet, QuietUp DEF Saving, UpSteps
  <2>2. CASE SvFail(p)
    BY <1>2, <2>2, ReturnQuiet, QuietUp DEF SvFail
  <2>3. CASE pc[p] \in Saving /\ PruneDone(p)
    <3>1. loc[p].ret = "rv_copy"
      BY <1>2, <2>3, LocalTypes DEF LocalsInv, CallerKnown
    <3>2. Quietly(p)
      BY <1>2, <2>3, <3>1, StayQuiet DEF PruneDone, UpSteps
    <3> QED BY <3>2, QuietUp
  <2> QED BY <2>1, <2>2, <2>3
<1> QED BY <1>1, <1>2

\* The versions leave uploads alone.
LEMMA VersionUp ==
    ASSUME TypeInv, UpInv, NEW p \in Procs, VersionSteps(p)
    PROVE  UpInv'
<1>1. LocalsInv /\ StoreOK /\ loc \in [Procs -> Locals] /\ loc[p] \in Locals
  BY LocalTypes DEF TypeInv, LocalsInv, ProcsOK
<1>2. ASSUME Fail(p) PROVE UpInv'
  BY <1>1, <1>2, ReturnQuiet, QuietUp, TmpUntouched DEF Fail, data, store_
<1>3. ASSUME Return(p), TmpKept PROVE UpInv'
  BY <1>1, <1>3, ReturnQuiet, QuietUp
<1>4. ASSUME NEW l \in Saving, Goto(p, l), UNCHANGED loc, TmpKept PROVE UpInv'
  BY <1>1, <1>4, SavingUp
<1>5. CASE SvNum(p)
  <2>1. Goto(p, "sv_copy") /\ UNCHANGED store
    BY <1>5 DEF SvNum, data, store_
  <2>2. /\ \A r \in Procs \ {p} : loc'[r] = loc[r]
        /\ loc'[p].f = loc[p].f /\ loc'[p].ret = loc[p].ret
    BY <1>1, <1>5 DEF SvNum, OrFault, Locals
  <2> QED BY <1>1, <2>1, <2>2, SavingUp, TmpUntouched DEF Saving
<1>6. CASE SvCopy(p)
  <2>1. TmpKept
    BY <1>1, <1>6, NoTmpKnown, TmpUntouched DEF SvCopy, OrFault
  <2>2. (Goto(p, "sv_row") /\ UNCHANGED loc) \/ SvFail(p)
    BY <1>6 DEF SvCopy, OrFault
  <2> QED BY <1>1, <1>4, <2>1, <2>2, SavingUp DEF Saving
<1>7. CASE SvRow(p)
  <2>1. UNCHANGED store \/ store' = Remove(store, {loc[p].snap.path})
    BY <1>7 DEF SvRow, SvUndo, OrFault
  <2>2. TmpKept
    BY <1>1, <2>1, NoTmpKnown, TmpUntouched
  <2>3. (Goto(p, "pr_count") /\ UNCHANGED loc) \/ SvFail(p)
    BY <1>7 DEF SvRow, SvUndo, OrFault
  <2> QED BY <1>1, <1>4, <2>2, <2>3, SavingUp DEF Saving
<1>8. CASE PrCount(p) \/ PrRow(p)
  <2>1. UNCHANGED store /\ pc[p] \in Saving
    BY <1>8 DEF PrCount, PrRow, data, store_, Saving
  <2>2. \/ (Goto(p, "pr_oldest") \/ Goto(p, "pr_count")) /\ UNCHANGED loc
        \/ PruneDone(p)
    BY <1>8 DEF PrCount, PrRow, OrFault
  <2>3. TmpKept
    BY <1>1, <2>1, TmpUntouched
  <2> QED BY <1>1, <1>4, <2>1, <2>2, <2>3, SavingUp DEF Saving
<1>9. CASE PrOldest(p)
  <2>1. UNCHANGED store /\ pc[p] \in Saving
    BY <1>9 DEF PrOldest, data, store_, Saving
  <2>2. TmpKept
    BY <1>1, <2>1, TmpUntouched
  <2>3. CASE PruneDone(p)
    BY <1>1, <2>1, <2>2, <2>3, SavingUp
  <2>4. CASE ~ PruneDone(p)
    <3>1. Goto(p, "pr_blob")
      BY <1>9, <2>4 DEF PrOldest, OrFault
    <3>v. PICK v : loc' = [loc EXCEPT ![p].old = v, ![p].snap = vers[v]]
      BY <1>9, <2>4 DEF PrOldest, OrFault
    <3>2. /\ \A r \in Procs \ {p} : loc'[r] = loc[r]
          /\ loc'[p].f = loc[p].f /\ loc'[p].ret = loc[p].ret
      BY <1>1, <3>v DEF Locals
    <3>3. \E l \in Saving : Goto(p, l)
      BY <3>1 DEF Saving
    <3> QED BY <1>1, <2>2, <3>2, <3>3, SavingUp
  <2> QED BY <2>3, <2>4
<1>10. CASE PrBlob(p)
  <2>1. Goto(p, "pr_row") /\ UNCHANGED loc
    BY <1>10 DEF PrBlob
  <2>2. UNCHANGED store \/ store' = Remove(store, {loc[p].snap.path})
    BY <1>10 DEF PrBlob, OrFault, Erase, store_
  <2>3. TmpKept
    BY <1>1, <2>2, NoTmpKnown, TmpUntouched
  <2> QED BY <1>4, <2>1, <2>3 DEF Saving
<1>11. CASE RvFile(p) \/ RvVer(p) \/ RvExists(p)
  <2>1. CASE ~ Fail(p)
    <3>1. UNCHANGED store
      BY <1>11, <2>1 DEF RvFile, RvVer, RvExists, Attempt, OrFault, data, store_
    <3>2. Goto(p, "rv_ver") \/ Goto(p, "rv_exists") \/ Goto(p, "sv_num")
      BY <1>11, <2>1 DEF RvFile, RvVer, RvExists, Attempt, OrFault
    <3>3. /\ \A r \in Procs \ {p} : loc'[r] = loc[r]
          /\ loc'[p].f = loc[p].f /\ loc'[p].ret = loc[p].ret
      BY <1>1, <1>11, <2>1 DEF RvFile, RvVer, RvExists, Attempt, OrFault, Locals
    <3> QED BY <1>1, <3>1, <3>2, <3>3, SavingUp, TmpUntouched DEF Saving
  <2> QED BY <1>2, <2>1
<1>12. ASSUME pc[p] \in {"rv_copy", "dv_file", "dv_get", "dv_blob"}, NEW l,
              Goto(p, l), l \in {"rv_row", "dv_get", "dv_blob", "dv_row"},
              \A r \in Procs \ {p} : loc'[r] = loc[r],
              loc'[p].ret = loc[p].ret, TmpKept
       PROVE  UpInv'
  <2>1. loc[p].ret # "up_write"
    BY <1>12 DEF UpInv, CallerUsed, Saving
  <2>2. Quietly(p)
    BY <1>1, <1>12, <2>1, StayQuiet DEF UpSteps
  <2> QED BY <1>12, <2>2, QuietUp
<1>13. CASE RvCopy(p)
  <2>1. TmpKept
    BY <1>1, <1>13, NoTmpKnown, TmpUntouched DEF RvCopy, OrFault
  <2>2. pc[p] = "rv_copy" /\ ((Goto(p, "rv_row") /\ UNCHANGED loc) \/ Return(p))
    BY <1>13 DEF RvCopy, OrFault
  <2> QED BY <1>3, <1>12, <2>1, <2>2
<1>14. CASE RvRow(p) \/ DvRow(p)
  <2>1. Return(p) /\ UNCHANGED store
    BY <1>14 DEF RvRow, DvRow, store_
  <2> QED BY <1>1, <1>3, <2>1, TmpUntouched
<1>15. CASE DvFile(p) \/ DvGet(p)
  <2>1. CASE ~ Fail(p)
    <3>1. UNCHANGED store /\ pc[p] \in {"dv_file", "dv_get"}
      BY <1>15, <2>1 DEF DvFile, DvGet, Attempt, OrFault, data, store_
    <3>2. Goto(p, "dv_get") \/ Goto(p, "dv_blob")
      BY <1>15, <2>1 DEF DvFile, DvGet, Attempt, OrFault
    <3>3. /\ \A r \in Procs \ {p} : loc'[r] = loc[r]
          /\ loc'[p].ret = loc[p].ret
      BY <1>1, <1>15, <2>1 DEF DvFile, DvGet, Attempt, OrFault, Locals
    <3>4. TmpKept
      BY <1>1, <3>1, TmpUntouched
    <3> QED BY <1>12, <3>1, <3>2, <3>3, <3>4
  <2> QED BY <1>2, <2>1
<1>16. CASE DvBlob(p)
  <2>1. pc[p] = "dv_blob" /\ Goto(p, "dv_row") /\ UNCHANGED loc
    BY <1>16 DEF DvBlob
  <2>2. UNCHANGED store \/ store' = Remove(store, {loc[p].v.path})
    BY <1>16 DEF DvBlob, OrFault, Erase, store_
  <2>3. TmpKept
    BY <1>1, <2>2, NoTmpKnown, TmpUntouched
  <2> QED BY <1>12, <2>1, <2>3
<1> QED BY <1>5, <1>6, <1>7, <1>8, <1>9, <1>10, <1>11, <1>13, <1>14, <1>15, <1>16
     DEF VersionSteps

------------------------------------------------------------------------------
(* Uploads and their temporary files.                                       *)

\* The listing of an upload, and its row, its charge and a deletion's steps, are
\* before and after the temporary file.
LEMMA ApartUp ==
    ASSUME TypeInv, UpInv, NEW p \in Procs,
           UpList(p) \/ UpRow(p) \/ UpCharge(p) \/ DeGet(p) \/ DeCharge(p)
    PROVE  UpInv'
<1>1. LocalsInv /\ StoreOK /\ loc \in [Procs -> Locals] /\ loc[p] \in Locals
  BY LocalTypes DEF TypeInv, LocalsInv, ProcsOK
<1>2. UNCHANGED store
  BY DEF UpList, UpRow, UpCharge, DeGet, DeCharge, Attempt, OrFault, Fail, data, store_
<1>3. TmpKept
  BY <1>1, <1>2, TmpUntouched
<1>4. CASE Return(p)
  BY <1>1, <1>3, <1>4, ReturnQuiet, QuietUp
<1>5. CASE UpList(p)
  <2>o. PICK id, g : \/ UNCHANGED loc
                     \/ loc' = [loc EXCEPT ![p].fid = id, ![p].g = g, ![p].ret = "up_write"]
    BY <1>5 DEF UpList, OrFault
  <2>1. /\ pc[p] = "up_list" /\ \A r \in Procs \ {p} : loc'[r] = loc[r]
        /\ loc'[p].f = loc[p].f
    <3>1. pc[p] = "up_list"
      BY <1>5 DEF UpList
    <3>2. \A r \in Procs \ {p} : loc'[r] = loc[r]
      BY <1>1, <2>o
    <3>3. loc'[p].f = loc[p].f
      BY <1>1, <2>o DEF Locals
    <3> QED BY <3>1, <3>2, <3>3
  <2>2. \/ Goto(p, "sv_num")
        \/ Goto(p, "up_write")
    BY <1>5 DEF UpList, OrFault
  <2>3. Onwards(p)
    BY <1>1, <2>1, <2>2
       DEF Onwards, OthersStay, InUpload, LocalsInv, ProcsOK, Goto, Saving, UpSteps
  <2> QED BY <1>3, <2>3, OnwardsUp
<1>6. CASE ~ Return(p) /\ (UpRow(p) \/ DeGet(p))
  <2>1. loc[p].ret # "up_write"
    BY <1>6 DEF UpRow, DeGet, UpInv, CallerUsed, Saving
  <2>2. Goto(p, "up_charge") \/ Goto(p, "tr_get")
    BY <1>6 DEF UpRow, DeGet, Attempt, OrFault, Fail
  <2>3. /\ \A r \in Procs \ {p} : loc'[r] = loc[r]
        /\ loc'[p].ret = loc[p].ret
    BY <1>1, <1>6 DEF UpRow, DeGet, Attempt, OrFault, Fail, Locals
  <2>4. Quietly(p)
    BY <1>1, <2>1, <2>2, <2>3, StayQuiet DEF UpSteps
  <2> QED BY <1>3, <2>4, QuietUp
<1> QED BY <1>4, <1>5, <1>6 DEF UpCharge, DeCharge

\* A step of one upload leaves the temporary files of the others.
LEMMA OwnTmp ==
    ASSUME TypeInv, UpInv, NEW p \in Procs, InUpload(p), OthersStay(p),
           \A q \in DOMAIN store \ {TmpOf(p)} :
               q.kind = "tmp" => q \in DOMAIN store' /\ store'[q] = store[q],
           \/ pc'[p] \notin UpSteps /\ loc'[p].ret # "up_write"
           \/ /\ KeyOf(p)' = KeyOf(p) /\ loc'[p].ret # "up_write"
              /\ pc'[p] \in {"up_quota", "up_rename"}
              /\ TmpOf(p)' \in DOMAIN store' /\ store'[TmpOf(p)'].id = loc'[p].f.sha
    PROVE  UpInv'
<1>1. \A r \in Procs \ {p} : /\ pc'[r] = pc[r] /\ loc'[r] = loc[r]
                             /\ KeyOf(r)' = KeyOf(r) /\ TmpOf(r)' = TmpOf(r)
                             /\ InUpload(r)' <=> InUpload(r)
  BY DEF OthersStay, KeyOf, TmpOf, InUpload
<1>2. InUpload(p)' => KeyOf(p)' = KeyOf(p)
  BY DEF InUpload
<1>3. Exclusive'
  BY <1>1, <1>2 DEF UpInv, Exclusive
<1>4. CallerUsed'
  BY <1>1 DEF UpInv, CallerUsed
<1>5. TmpHeld'
  <2> SUFFICES ASSUME NEW r \in Procs, pc'[r] \in {"up_quota", "up_rename"}
               PROVE  TmpOf(r)' \in DOMAIN store' /\ store'[TmpOf(r)'].id = loc'[r].f.sha
    BY DEF TmpHeld
  <2>1. CASE r = p
    BY <2>1 DEF UpSteps
  <2>2. CASE r # p
    <3>1. pc[r] \in {"up_quota", "up_rename"} /\ InUpload(r)
      BY <1>1, <2>2 DEF InUpload, UpSteps
    <3>2. TmpOf(r) \in DOMAIN store /\ store[TmpOf(r)].id = loc[r].f.sha
      BY <3>1 DEF UpInv, TmpHeld
    <3>3. KeyOf(r) # KeyOf(p)
      BY <2>2, <3>1 DEF UpInv, Exclusive
    <3>4. TmpOf(r) # TmpOf(p) /\ TmpOf(r).kind = "tmp"
      BY <3>3, TmpOfKey DEF TmpOf, KeyOf
    <3> QED BY <1>1, <2>2, <3>2, <3>4
  <2> QED BY <2>1, <2>2
<1> QED BY <1>3, <1>4, <1>5 DEF UpInv

\* The write, the quota check and the rename touch the upload's own temporary file.
LEMMA TmpUp ==
    ASSUME TypeInv, UpInv, NEW p \in Procs, UpWrite(p) \/ UpQuota(p) \/ UpRename(p)
    PROVE  UpInv'
<1> DEFINE tmp == TmpOf(p)
<1>1. LocalsInv /\ StoreOK /\ loc \in [Procs -> Locals] /\ loc[p] \in Locals
  BY LocalTypes DEF TypeInv, LocalsInv, ProcsOK
<1>2. InUpload(p)
  BY DEF InUpload, UpSteps, UpWrite, UpQuota, UpRename
<1>3. \/ UNCHANGED store
      \/ store' = Remove(store, {tmp})
      \/ \E b : store' = Insert(store, tmp, b)
      \/ store' = Renamed(tmp, loc[p].f.path)
  BY DEF UpWrite, UpQuota, UpRename, DropTmp, OrFault, TmpOf
<1>4. \A q \in DOMAIN store \ {tmp} :
          q.kind = "tmp" => q \in DOMAIN store' /\ store'[q] = store[q]
  <2>1. loc[p].f.path.kind # "tmp"
    BY <1>1, NoTmpKnown
  <2> HIDE DEF tmp
  <2> QED BY <1>3, <2>1 DEF Remove, Insert, Renamed
<1>5. CASE Return(p)
  <2>1. Quietly(p)
    BY <1>1, <1>5, ReturnQuiet
  <2> QED BY <1>2, <1>4, <2>1, OwnTmp DEF Quietly
<1>6. CASE UpWrite(p) /\ ~ Return(p)
  <2>1. /\ store' = Insert(store, tmp, [id |-> nextBlob, size |-> loc[p].f.size,
                                        e2ee |-> loc[p].f.e2ee])
        /\ Goto(p, "up_quota")
        /\ loc' = [loc EXCEPT ![p].f.sha = nextBlob, ![p].ret = "none"]
    BY <1>6 DEF UpWrite, OrFault, TmpOf
  <2>2. loc[p].f \in FileRow
    BY <1>1, LocalTypes DEF LocalsInv
  <2>3. /\ \A r \in Procs \ {p} : loc'[r] = loc[r]
        /\ loc'[p].ret = "none" /\ loc'[p].f.sha = nextBlob
        /\ loc'[p].f.owner = loc[p].f.owner /\ loc'[p].f.name = loc[p].f.name
    BY <1>1, <2>1, <2>2 DEF Locals, FileRow
  <2>4. pc'[p] = "up_quota" /\ OthersStay(p)
    BY <1>1, <2>1, <2>3 DEF OthersStay, Goto, LocalsInv, ProcsOK
  <2>5. KeyOf(p)' = KeyOf(p) /\ TmpOf(p)' = tmp
    BY <2>3 DEF KeyOf, TmpOf
  <2>6. tmp \in DOMAIN store' /\ store'[tmp].id = nextBlob
    <3> HIDE DEF tmp
    <3> QED BY <2>1 DEF Insert
  <2> QED BY <1>2, <1>4, <2>3, <2>4, <2>5, <2>6, OwnTmp
<1>7. CASE UpQuota(p) /\ ~ Return(p)
  <2>1. pc[p] = "up_quota" /\ Goto(p, "up_rename") /\ UNCHANGED <<store, loc>>
    BY <1>7 DEF UpQuota, OrFault
  <2>2. pc'[p] = "up_rename" /\ OthersStay(p)
    BY <1>1, <2>1 DEF OthersStay, Goto, LocalsInv, ProcsOK
  <2>3. loc[p].ret # "up_write"
    BY <2>1 DEF UpInv, CallerUsed, Saving
  <2>4. KeyOf(p)' = KeyOf(p) /\ TmpOf(p)' = tmp
    BY <2>1 DEF KeyOf, TmpOf
  <2>5. tmp \in DOMAIN store /\ store[tmp].id = loc[p].f.sha
    BY <2>1 DEF UpInv, TmpHeld
  <2> HIDE DEF tmp
  <2> QED BY <1>2, <1>4, <2>1, <2>2, <2>3, <2>4, <2>5, OwnTmp
<1>8. CASE UpRename(p) /\ ~ Return(p)
  <2>1. pc[p] = "up_rename" /\ Goto(p, "up_row") /\ UNCHANGED loc
    BY <1>8 DEF UpRename, OrFault
  <2>2. loc[p].ret # "up_write"
    BY <2>1 DEF UpInv, CallerUsed, Saving
  <2>3. Quietly(p)
    BY <1>1, <2>1, <2>2, StayQuiet DEF UpSteps
  <2> QED BY <1>2, <1>4, <2>3, OwnTmp DEF Quietly
<1> QED BY <1>5, <1>6, <1>7, <1>8

\* UploadWithOptions moves the temporary file, which is there, to its path.
LEMMA UpRenameType ==
    ASSUME TypeInv, UpInv, NEW p \in Procs, UpRename(p)
    PROVE  TypeInv'
<1> DEFINE tmp == Tmp(loc[p].f.owner, loc[p].f.name)
<1>1. /\ faults' \in Nat
      /\ UNCHANGED <<files_, bin_, vers_, used, nextBlob, ghosts, bounds>>
  BY FaultsOK DEF TypeInv, UpRename, OrFault
<1>2. TablesOK' /\ GhostsOK'
  BY <1>1, TablesKept, GhostsKept DEF TypeInv
<1>3. LocalsInv'
  BY Stay, Returned DEF UpRename, OrFault, TypeInv, Labels, Saving
<1>4. UNCHANGED store \/ store' = Remove(store, {tmp}) \/ store' = Renamed(tmp, loc[p].f.path)
  BY DEF UpRename, DropTmp, OrFault
<1>5. tmp \in DOMAIN store
  BY DEF UpInv, TmpHeld, TmpOf, UpRename
<1>6. loc[p].f.path \in Path
  BY LocalTypes, RowTypes, KindsOK DEF TypeInv, LocalsInv
<1>7. StoreOK'
  <2> HIDE DEF tmp
  <2> QED BY <1>1, <1>4, <1>5, <1>6, StoreKept, StoreRemove, StoreRename DEF TypeInv, store_
<1> QED BY <1>2, <1>3, <1>7 DEF TypeInv

------------------------------------------------------------------------------
(* The requests, the ticker and the crash.                                  *)

\* A request that is not an upload begins.
LEMMA CallBegins ==
    ASSUME TypeInv, UpInv, NEW p \in Procs, NEW op, NEW l \in Labels \ UpSteps,
           NEW x \in Locals, Call(p, op, l, x), UNCHANGED <<taken, uploads>>,
           x.ret # "up_write", l \in Saving => x.ret # "none"
    PROVE  TypeInv' /\ UpInv'
<1>1. /\ Goto(p, l) /\ loc' = [loc EXCEPT ![p] = x] /\ calls' = calls + 1
      /\ UNCHANGED <<data, faults, crashes, taken, uploads>>
  BY DEF Call
<1>2. LocalsInv'
  BY <1>1, Advance DEF TypeInv
<1>3. TablesOK' /\ StoreOK'
  BY <1>1, TablesKept, StoreKept DEF TypeInv, data
<1>4. GhostsOK'
  BY <1>1 DEF TypeInv, GhostsOK, data, ghosts
<1>5. Quietly(p)
  BY <1>1 DEF Quietly, OthersStay, TypeInv, LocalsInv, ProcsOK, Goto
<1>6. TmpKept
  BY <1>1, TmpUntouched DEF TypeInv, data, store_
<1> QED BY <1>2, <1>3, <1>4, <1>5, <1>6, QuietUp DEF TypeInv

\* What the ids of a request can be.
LEMMA IdsOK ==
    ASSUME TablesOK
    PROVE  /\ 1..(nextFile - 1) \subseteq Nat
           /\ 1..(nextItem - 1) \subseteq Nat
           /\ 1..(nextVer - 1) \subseteq Nat
  BY DEF TablesOK

\* The requests with a user and an id.
LEMMA RequestBegins ==
    ASSUME TypeInv, UpInv, NEW p \in Procs,
           Delete(p) \/ Restore(p) \/ PermanentlyDelete(p) \/ EmptyTrash(p) \/ VersionCalls(p)
    PROVE  TypeInv' /\ UpInv'
<1>1. /\ {"de_get", "re_get", "pd_get", "et_list", "dv_file"} \subseteq Labels \ (UpSteps \cup Saving)
      /\ "rv_file" \in Labels \ UpSteps
  BY DEF Labels, UpSteps, Saving
<1>2. CASE Delete(p)
  <2>1. PICK u \in Users, f \in 1..(nextFile - 1) :
          Call(p, "delete", "de_get", [NoLocals EXCEPT !.user = u, !.fid = f]) /\ UNCHANGED <<taken, uploads>>
    BY <1>2 DEF Delete
  <2>2. f \in Nat
    BY IdsOK DEF TypeInv
  <2> DEFINE x == [NoLocals EXCEPT !.user = u, !.fid = f]
  <2>3. x \in Locals /\ x.ret = "none"
    BY <2>2, NoLocalsOK DEF Locals
  <2>4. Call(p, "delete", "de_get", x) /\ UNCHANGED <<taken, uploads>>
    BY <2>1
  <2> HIDE DEF x
  <2> QED BY <1>1, <2>3, <2>4, CallBegins
<1>3. CASE Restore(p)
  <2>1. PICK u \in Users, i \in 1..(nextItem - 1) :
          Call(p, "restore", "re_get", [NoLocals EXCEPT !.user = u, !.id = i]) /\ UNCHANGED <<taken, uploads>>
    BY <1>3 DEF Restore
  <2>2. i \in Nat
    BY IdsOK DEF TypeInv
  <2> DEFINE x == [NoLocals EXCEPT !.user = u, !.id = i]
  <2>3. x \in Locals /\ x.ret = "none"
    BY <2>2, NoLocalsOK DEF Locals
  <2>4. Call(p, "restore", "re_get", x) /\ UNCHANGED <<taken, uploads>>
    BY <2>1
  <2> HIDE DEF x
  <2> QED BY <1>1, <2>3, <2>4, CallBegins
<1>4. CASE PermanentlyDelete(p)
  <2>1. PICK u \in Users, i \in 1..(nextItem - 1) :
          Call(p, "purge", "pd_get", [NoLocals EXCEPT !.user = u, !.id = i]) /\ UNCHANGED <<taken, uploads>>
    BY <1>4 DEF PermanentlyDelete
  <2>2. i \in Nat
    BY IdsOK DEF TypeInv
  <2> DEFINE x == [NoLocals EXCEPT !.user = u, !.id = i]
  <2>3. x \in Locals /\ x.ret = "none"
    BY <2>2, NoLocalsOK DEF Locals
  <2>4. Call(p, "purge", "pd_get", x) /\ UNCHANGED <<taken, uploads>>
    BY <2>1
  <2> HIDE DEF x
  <2> QED BY <1>1, <2>3, <2>4, CallBegins
<1>5. CASE EmptyTrash(p)
  <2>1. PICK u \in Users :
          Call(p, "empty", "et_list", [NoLocals EXCEPT !.user = u]) /\ UNCHANGED <<taken, uploads>>
    BY <1>5 DEF EmptyTrash
  <2> DEFINE x == [NoLocals EXCEPT !.user = u]
  <2>3. x \in Locals /\ x.ret = "none"
    BY NoLocalsOK DEF Locals
  <2>4. Call(p, "empty", "et_list", x) /\ UNCHANGED <<taken, uploads>>
    BY <2>1
  <2> HIDE DEF x
  <2> QED BY <1>1, <2>3, <2>4, CallBegins
<1>6. CASE RestoreVersion(p)
  <2>1. PICK u \in Users, f \in 1..(nextFile - 1), v \in 1..(nextVer - 1) :
          Call(p, "restoreVersion", "rv_file", [NoLocals EXCEPT !.user = u, !.fid = f, !.id = v, !.ret = "rv_copy"]) /\ UNCHANGED <<taken, uploads>>
    BY <1>6 DEF RestoreVersion
  <2>2. f \in Nat /\ v \in Nat
    BY IdsOK DEF TypeInv
  <2> DEFINE x == [NoLocals EXCEPT !.user = u, !.fid = f, !.id = v, !.ret = "rv_copy"]
  <2>3. x \in Locals /\ x.ret = "rv_copy"
    BY <2>2, NoLocalsOK DEF Locals
  <2>4. Call(p, "restoreVersion", "rv_file", x) /\ UNCHANGED <<taken, uploads>>
    BY <2>1
  <2> HIDE DEF x
  <2> QED BY <1>1, <2>3, <2>4, CallBegins
<1>7. CASE DeleteVersion(p)
  <2>1. PICK u \in Users, f \in 1..(nextFile - 1), v \in 1..(nextVer - 1) :
          Call(p, "deleteVersion", "dv_file", [NoLocals EXCEPT !.user = u, !.fid = f, !.id = v]) /\ UNCHANGED <<taken, uploads>>
    BY <1>7 DEF DeleteVersion
  <2>2. f \in Nat /\ v \in Nat
    BY IdsOK DEF TypeInv
  <2> DEFINE x == [NoLocals EXCEPT !.user = u, !.fid = f, !.id = v]
  <2>3. x \in Locals /\ x.ret = "none"
    BY <2>2, NoLocalsOK DEF Locals
  <2>4. Call(p, "deleteVersion", "dv_file", x) /\ UNCHANGED <<taken, uploads>>
    BY <2>1
  <2> HIDE DEF x
  <2> QED BY <1>1, <2>3, <2>4, CallBegins
<1> QED BY <1>2, <1>3, <1>4, <1>5, <1>6, <1>7 DEF VersionCalls

\* An upload begins: no other upload at work has its key.
LEMMA UploadBegins ==
    ASSUME TypeInv, UpInv, NEW p \in Procs, Upload(p)
    PROVE  TypeInv' /\ UpInv'
<1> DEFINE row(u, d, n, s, e) ==
             [owner |-> u, parent |-> d, name |-> n, path |-> Home(u, n),
              size |-> s, sha |-> 0, e2ee |-> e]
           x(u, r) == [NoLocals EXCEPT !.user = u, !.f = r]
<1>1. PICK u \in Users, d \in Folders \cup {Root}, n \in Names, s \in Sizes, e \in Encryption :
        /\ ~Uploading(u, n)
        /\ Call(p, "upload", "up_list", x(u, row(u, d, n, s, e)))
        /\ uploads' = uploads + 1
        /\ taken' = taken \cup {<<u, n>>}
  BY Zenon DEF Upload
<1> DEFINE r == row(u, d, n, s, e)
<1>2. /\ ~Uploading(u, n)
      /\ pc' = [pc EXCEPT ![p] = "up_list"]
      /\ loc' = [loc EXCEPT ![p] = x(u, r)]
      /\ calls' = calls + 1 /\ uploads' = uploads + 1
      /\ taken' = taken \cup {<<u, n>>}
      /\ UNCHANGED <<data, faults, crashes>>
  <2> HIDE DEF x, row
  <2> QED BY <1>1 DEF Call, Goto
<1>3. r \in FileRow /\ r.owner = u /\ r.name = n
  <2>1. Home(u, n) \in PathOf({"home"})
    BY PathsOK
  <2>2. s \in Nat /\ e \in BOOLEAN
    BY FileStoreAssumption
  <2> QED BY <2>1, <2>2 DEF FileRow
<1>4. PICK y \in Locals : y.ret = "none" /\ y.f = r /\ loc' = [loc EXCEPT ![p] = y]
  <2> HIDE DEF r
  <2>1. x(u, r) \in Locals /\ x(u, r).ret = "none" /\ x(u, r).f = r
    BY <1>3, NoLocalsOK DEF Locals
  <2> HIDE DEF x
  <2> QED BY <1>2, <2>1
<1> HIDE DEF r
<1>5. LocalsInv'
  <2>1. "up_list" \in Labels /\ "up_list" \notin Saving
    BY DEF Labels, Saving
  <2> QED BY <1>2, <1>4, <2>1, Advance DEF TypeInv, Goto
<1>6. TablesOK' /\ StoreOK'
  BY <1>2, TablesKept, StoreKept DEF TypeInv, data
<1>7. GhostsOK'
  BY <1>2 DEF TypeInv, GhostsOK, data, ghosts
<1>8. pc \in [Procs -> Labels] /\ loc \in [Procs -> Locals]
  BY DEF TypeInv, LocalsInv, ProcsOK
<1>9. /\ pc'[p] = "up_list" /\ loc'[p] = y
      /\ \A q \in Procs \ {p} : pc'[q] = pc[q] /\ loc'[q] = loc[q]
  BY <1>2, <1>4, <1>8
<1>10. \A q \in Procs \ {p} : InUpload(q) => KeyOf(q) # <<u, n>>
  BY <1>2 DEF Uploading, InUpload, UpSteps, KeyOf
<1>11. Exclusive'
  <2>1. KeyOf(p)' = <<u, n>>
    BY <1>3, <1>4, <1>9 DEF KeyOf
  <2>2. \A q \in Procs \ {p} : KeyOf(q)' = KeyOf(q) /\ (InUpload(q)' <=> InUpload(q))
    BY <1>9 DEF KeyOf, InUpload
  <2> QED BY <1>10, <2>1, <2>2 DEF Exclusive, UpInv
<1>12. CallerUsed'
  BY <1>4, <1>9 DEF UpInv, CallerUsed
<1>13. TmpHeld'
  <2>1. UNCHANGED store
    BY <1>2 DEF data, store_
  <2> QED BY <1>9, <2>1 DEF UpInv, TmpHeld, TmpOf
<1> QED BY <1>5, <1>6, <1>7, <1>11, <1>12, <1>13 DEF TypeInv, UpInv

\* The ticker fires.
LEMMA CleanupBegins ==
    ASSUME TypeInv, UpInv, NEW p \in Procs, CleanupExpired(p)
    PROVE  TypeInv' /\ UpInv'
<1>1. /\ Goto(p, "cu_list") /\ UNCHANGED <<data, loc, faults, bounds>> /\ pc[p] = "idle"
  BY DEF CleanupExpired
<1>2. "cu_list" \in Labels \ (Saving \cup UpSteps)
  BY DEF Labels, Saving, UpSteps
<1>3. LocalsInv'
  BY <1>1, <1>2, Stay DEF TypeInv
<1>4. TypeInv'
  BY <1>1, <1>3, DataKept DEF TypeInv, GhostsOK
<1>5. loc[p].ret # "up_write"
  BY <1>1 DEF UpInv, CallerUsed, Saving
<1>6. Quietly(p)
  BY <1>1, <1>2, <1>5, StayQuiet DEF TypeInv
<1>7. TmpKept
  BY <1>1, TmpUntouched DEF TypeInv, data, store_
<1> QED BY <1>4, <1>6, <1>7, QuietUp

\* The process dies.
LEMMA CrashKeeps ==
    ASSUME TypeInv, Crash
    PROVE  TypeInv' /\ UpInv'
<1>1. /\ pc' = [p \in Procs |-> "idle"] /\ loc' = [p \in Procs |-> NoLocals]
      /\ crashes' = crashes + 1 /\ UNCHANGED <<data, taken, calls, uploads, faults>>
  BY DEF Crash
<1>2. LocalsInv'
  BY <1>1, NoLocalsOK DEF LocalsInv, ProcsOK, CallerKnown, Labels, Saving
<1>3. TablesOK' /\ StoreOK'
  BY <1>1, TablesKept, StoreKept DEF TypeInv, data
<1>4. GhostsOK'
  BY <1>1 DEF TypeInv, GhostsOK, data, ghosts
<1>5. \A p \in Procs : ~ InUpload(p)' /\ pc'[p] = "idle" /\ loc'[p].ret = "none"
  BY <1>1, NoLocalsOK DEF InUpload, UpSteps
<1>6. UpInv'
  BY <1>5 DEF UpInv, Exclusive, CallerUsed, TmpHeld
<1> QED BY <1>2, <1>3, <1>4, <1>6 DEF TypeInv

------------------------------------------------------------------------------
(* The theorems.                                                            *)

Inv == TypeInv /\ UpInv

\* The server starts with empty tables and an idle process.
LEMMA InitInv == Init => Inv
<1> SUFFICES ASSUME Init PROVE Inv
  OBVIOUS
<1>1. TablesOK
  BY DEF Init, Empty, TablesOK
<1>2. StoreOK
  BY DEF Init, Empty, StoreOK, IdsAt
<1>3. LocalsInv
  BY NoLocalsOK DEF Init, LocalsInv, ProcsOK, CallerKnown, Labels, Saving
<1>4. GhostsOK
  BY DEF Init, GhostsOK
<1>5. \A p \in Procs : ~ InUpload(p) /\ pc[p] = "idle" /\ loc[p].ret = "none"
  BY NoLocalsOK DEF Init, InUpload, UpSteps
<1>6. UpInv
  BY <1>5 DEF UpInv, Exclusive, CallerUsed, TmpHeld
<1> QED BY <1>1, <1>2, <1>3, <1>4, <1>6 DEF Inv, TypeInv

\* Every request, step, expiry and crash keeps the invariant.
LEMMA StepInv == Inv /\ [Next]_vars => Inv'
<1> SUFFICES ASSUME Inv, [Next]_vars PROVE Inv'
  OBVIOUS
<1> USE DEF Inv
<1>1. CASE UNCHANGED vars
  <2>1. UNCHANGED <<files_, bin_, vers_, used, store_, ghosts, bounds, faults, pc, loc>>
    BY <1>1 DEF vars, files_, bin_, vers_, store_, ghosts, bounds
  <2>2. TypeInv'
    <3>1. LocalsInv'
      BY <2>1 DEF TypeInv, LocalsInv, ProcsOK, CallerKnown
    <3> QED BY <2>1, <3>1, TablesKept, StoreKept, GhostsKept DEF TypeInv, GhostsOK
  <2>3. UpInv'
    BY <2>1 DEF UpInv, Exclusive, CallerUsed, TmpHeld, InUpload, KeyOf, TmpOf, store_
  <2> QED BY <2>2, <2>3
<1>2. ASSUME NEW p \in Procs, Calls(p) PROVE Inv'
  BY <1>2, UploadBegins, RequestBegins, CleanupBegins DEF Calls, RecycleCalls
<1>3. ASSUME NEW p \in Procs, Steps(p) PROVE Inv'
  <2>1. TypeInv'
    BY <1>3, UpListType, UpWriteType, UpQuotaType, UpRenameType, UpRowType, ChargeType,
       DeGetType, RecycleStepType, VersionStepType DEF Steps
  <2>2. UpInv'
    BY <1>3, ApartUp, TmpUp, RecycleUp, VersionUp DEF Steps
  <2> QED BY <2>1, <2>2
<1>4. ASSUME NEW i \in DOMAIN bin, Expire(i) PROVE Inv'
  <2>1. TypeInv'
    BY <1>4, ExpireType
  <2>2. UNCHANGED <<store, pc, loc>>
    BY <1>4 DEF Expire, store_
  <2>3. UpInv'
    BY <2>2 DEF UpInv, Exclusive, CallerUsed, TmpHeld, InUpload, KeyOf, TmpOf
  <2> QED BY <2>1, <2>3
<1>5. CASE Crash
  BY <1>5, CrashKeeps
<1> QED BY <1>1, <1>2, <1>3, <1>4, <1>5 DEF Next

\* The inductive invariant: shapes, callers and temporary files, in every state.
THEOREM StorageInvariant == Spec => []Inv
  BY InitInv, StepInv, PTL DEF Spec

\* Whatever interleaves, fails or dies: every row keeps its shape, files rows point
\* into the users' directories, bin rows into the trash and version rows at
\* snapshots, no blob is older than its upload, and every goroutine is at a step
\* that exists, the one SaveVersion returns to among them.
THEOREM StorageTypeCorrect == Spec => []TypeOK
<1>1. Inv => TypeOK
  BY DEF Inv, TypeInv, LocalsInv, TypeOK
<1> QED BY <1>1, StorageInvariant, PTL

------------------------------------------------------------------------------
(* The number of versions kept, where nothing fails.                        *)

Pruning == {"pr_count", "pr_oldest", "pr_blob", "pr_row"}
PruningOf(p, f) == pc[p] \in Pruning /\ loc[p].fid = f

\* A file with too many versions has a goroutine that prunes them.
SomeonePrunes ==
    \A f : Cardinality(VersionsOf(f)) <= MaxVersions \/ \E p \in Procs : PruningOf(p, f)

\* What SaveVersion is about to insert is a version of the file it was called for.
SnapOfFile ==
    \A p \in Procs : pc[p] \in {"sv_copy", "sv_row"} => loc[p].snap.fid = loc[p].fid

\* Versions only go.
Shrinks == \A f : VersionsOf(f)' \subseteq VersionsOf(f)

\* One goroutine takes a step, the others stay.
LEMMA OneMoves ==
    ASSUME TypeInv, NEW p \in Procs, Calls(p) \/ Steps(p)
    PROVE  OthersStay(p)
<1>1. pc \in [Procs -> Labels] /\ loc \in [Procs -> Locals]
  BY DEF TypeInv, LocalsInv, ProcsOK
<1>2. ASSUME Return(p) PROVE OthersStay(p)
  BY <1>1, <1>2 DEF Return, OthersStay
<1>3. ASSUME NEW l, Goto(p, l), UNCHANGED loc PROVE OthersStay(p)
  BY <1>1, <1>3 DEF Goto, OthersStay
<1>4. ASSUME NEW l, Goto(p, l), \A r \in Procs \ {p} : loc'[r] = loc[r] PROVE OthersStay(p)
  BY <1>1, <1>4 DEF Goto, OthersStay
<1>5. ASSUME SvFail(p) \/ PruneDone(p) \/ Fail(p) PROVE OthersStay(p)
  BY <1>2, <1>3, <1>5 DEF SvFail, PruneDone, Fail
<1>6. CASE Calls(p)
  <2>1. \E l : Goto(p, l)
    BY <1>6 DEF Calls, Upload, Delete, RecycleCalls, Restore, PermanentlyDelete, EmptyTrash,
                CleanupExpired, VersionCalls, RestoreVersion, DeleteVersion, Call
  <2>2. UNCHANGED loc \/ \E x : loc' = [loc EXCEPT ![p] = x]
    BY <1>6, Zenon
       DEF Calls, Upload, Delete, RecycleCalls, Restore, PermanentlyDelete, EmptyTrash,
           CleanupExpired, VersionCalls, RestoreVersion, DeleteVersion, Call
  <2>3. \A r \in Procs \ {p} : loc'[r] = loc[r]
    BY <1>1, <2>2
  <2> QED BY <1>4, <2>1, <2>3
<1>7. CASE \/ UpList(p) \/ UpWrite(p) \/ UpQuota(p) \/ UpRename(p) \/ UpRow(p)
           \/ UpCharge(p) \/ DeGet(p) \/ DeCharge(p)
  <2>1. CASE UpQuota(p) \/ UpRename(p) \/ UpRow(p) \/ UpCharge(p) \/ DeCharge(p)
    BY <1>2, <1>3, <1>5, <2>1 DEF UpQuota, UpRename, UpRow, UpCharge, DeCharge, Attempt, OrFault
  <2>2. CASE UpList(p)
    <3>1. CASE \A l : ~ Goto(p, l)
      BY <1>2, <1>3, <1>5, <2>2, <3>1 DEF UpList, OrFault
    <3>2. CASE \E l : Goto(p, l)
      <4>1. \A r \in Procs \ {p} : loc'[r] = loc[r]
        BY <1>1, <2>2 DEF UpList, OrFault, Return, Fail
      <4> QED BY <1>4, <3>2, <4>1
    <3> QED BY <3>1, <3>2
  <2>3. CASE UpWrite(p)
    <3>1. CASE \A l : ~ Goto(p, l)
      BY <1>2, <1>3, <1>5, <2>3, <3>1 DEF UpWrite, OrFault
    <3>2. CASE \E l : Goto(p, l)
      <4>1. \A r \in Procs \ {p} : loc'[r] = loc[r]
        BY <1>1, <2>3 DEF UpWrite, OrFault, Return, Fail
      <4> QED BY <1>4, <3>2, <4>1
    <3> QED BY <3>1, <3>2
  <2>4. CASE DeGet(p)
    <3>1. CASE \A l : ~ Goto(p, l)
      BY <1>2, <1>3, <1>5, <2>4, <3>1 DEF DeGet, Attempt, OrFault
    <3>2. CASE \E l : Goto(p, l)
      <4>1. \A r \in Procs \ {p} : loc'[r] = loc[r]
        BY <1>1, <2>4 DEF DeGet, Attempt, OrFault, Return, Fail
      <4> QED BY <1>4, <3>2, <4>1
    <3> QED BY <3>1, <3>2
  <2> QED BY <1>7, <2>1, <2>2, <2>3, <2>4
<1>8. CASE RecycleSteps(p)
  <2>1. CASE TrRename(p) \/ TrItem(p) \/ TrUndo(p) \/ TrRow(p) \/ ReRename(p) \/ ReRow(p)
             \/ ReUndo(p) \/ ReItem(p) \/ ReCharge(p) \/ PdBlob(p) \/ PdRow(p)
             \/ EtRows(p) \/ CuRows(p)
    BY <1>2, <1>3, <1>5, <2>1
       DEF TrRename, TrItem, TrUndo, TrRow, ReRename, ReRow, ReUndo, ReItem, ReCharge,
           PdBlob, PdRow, EtRows, CuRows, PurgeRows, Attempt, OrFault
  <2>2. CASE TrGet(p) \/ ReGet(p) \/ PdGet(p)
    <3>1. CASE \A l : ~ Goto(p, l)
      BY <1>2, <1>3, <1>5, <2>2, <3>1 DEF TrGet, ReGet, PdGet, Attempt, OrFault
    <3>2. CASE \E l : Goto(p, l)
      <4>1. \A r \in Procs \ {p} : loc'[r] = loc[r]
        BY <1>1, <2>2 DEF TrGet, ReGet, PdGet, Attempt, OrFault, Return, Fail
      <4> QED BY <1>4, <3>2, <4>1
    <3> QED BY <3>1, <3>2
  <2>3. CASE EtList(p) \/ CuList(p)
    <3>1. CASE \A l : ~ Goto(p, l)
      BY <1>2, <1>3, <1>5, <2>3, <3>1 DEF EtList, CuList, ListPurge, OrFault
    <3>2. CASE \E l : Goto(p, l)
      <4>1. \A r \in Procs \ {p} : loc'[r] = loc[r]
        BY <1>1, <2>3 DEF EtList, CuList, ListPurge, OrFault, Return, Fail
      <4> QED BY <1>4, <3>2, <4>1
    <3> QED BY <3>1, <3>2
  <2>4. CASE EtBlob(p) \/ CuBlob(p)
    BY <1>1, <2>4 DEF EtBlob, CuBlob, PurgeBlob, OthersStay
  <2> QED BY <1>8, <2>1, <2>2, <2>3, <2>4 DEF RecycleSteps
<1>9. CASE VersionSteps(p)
  <2>1. CASE SvCopy(p) \/ SvRow(p) \/ PrCount(p) \/ PrBlob(p) \/ PrRow(p)
             \/ RvExists(p) \/ RvCopy(p) \/ RvRow(p) \/ DvFile(p) \/ DvBlob(p) \/ DvRow(p)
    BY <1>2, <1>3, <1>5, <2>1
       DEF SvCopy, SvRow, SvUndo, PrCount, PrBlob, PrRow, RvExists, RvCopy, RvRow,
           DvFile, DvBlob, DvRow, Attempt, OrFault
  <2>2. CASE SvNum(p)
    <3>1. CASE \A l : ~ Goto(p, l)
      BY <1>2, <1>3, <1>5, <2>2, <3>1 DEF SvNum, OrFault
    <3>2. CASE \E l : Goto(p, l)
      <4>1. \A r \in Procs \ {p} : loc'[r] = loc[r]
        BY <1>1, <2>2 DEF SvNum, OrFault, Return, Fail
      <4> QED BY <1>4, <3>2, <4>1
    <3> QED BY <3>1, <3>2
  <2>3. CASE PrOldest(p)
    <3>1. CASE \A l : ~ Goto(p, l)
      BY <1>2, <1>3, <1>5, <2>3, <3>1 DEF PrOldest, PruneDone, OrFault
    <3>2. CASE \E l : Goto(p, l)
      <4>1. \A r \in Procs \ {p} : loc'[r] = loc[r]
        BY <1>1, <2>3 DEF PrOldest, PruneDone, OrFault, Return, Fail
      <4> QED BY <1>4, <3>2, <4>1
    <3> QED BY <3>1, <3>2
  <2>4. CASE RvFile(p) \/ RvVer(p) \/ DvGet(p)
    <3>1. CASE \A l : ~ Goto(p, l)
      BY <1>2, <1>3, <1>5, <2>4, <3>1 DEF RvFile, RvVer, DvGet, Attempt, OrFault
    <3>2. CASE \E l : Goto(p, l)
      <4>1. \A r \in Procs \ {p} : loc'[r] = loc[r]
        BY <1>1, <2>4 DEF RvFile, RvVer, DvGet, Attempt, OrFault, Return, Fail
      <4> QED BY <1>4, <3>2, <4>1
    <3> QED BY <3>1, <3>2
  <2> QED BY <1>9, <2>1, <2>2, <2>3, <2>4 DEF VersionSteps
<1> QED BY <1>6, <1>7, <1>8, <1>9 DEF Steps

\* Only SaveVersion adds a version.
LEMMA VersionsShrink ==
    ASSUME NEW p \in Procs, Calls(p) \/ Steps(p), ~ SvRow(p)
    PROVE  Shrinks
<1>1. UNCHANGED vers => Shrinks
  BY DEF Shrinks, VersionsOf
<1>2. ASSUME NEW ks, vers' = Remove(vers, ks) PROVE Shrinks
  BY <1>2 DEF Shrinks, VersionsOf, Remove
<1>3. UNCHANGED vers \/ \E ks : vers' = Remove(vers, ks)
  <2>1. CASE Calls(p)
    BY <2>1
       DEF Calls, Upload, Delete, RecycleCalls, Restore, PermanentlyDelete, EmptyTrash,
           CleanupExpired, VersionCalls, RestoreVersion, DeleteVersion, Call, data, vers_
  <2>2. CASE \/ UpList(p) \/ UpWrite(p) \/ UpQuota(p) \/ UpRename(p) \/ UpRow(p)
             \/ UpCharge(p) \/ DeGet(p) \/ DeCharge(p)
    BY <2>2 DEF UpList, UpWrite, UpQuota, UpRename, UpRow, UpCharge, DeGet, DeCharge,
                Attempt, OrFault, Fail, data, vers_
  <2>3. CASE RecycleSteps(p)
    BY <2>3 DEF RecycleSteps, TrGet, TrRename, TrItem, TrUndo, TrRow, CascadeVersions,
                ReGet, ReRename, ReRow, ReUndo, ReItem, ReCharge, PdGet, PdBlob, PdRow,
                EtList, EtBlob, EtRows, CuList, CuBlob, CuRows, ListPurge, PurgeBlob,
                PurgeRows, Attempt, OrFault, Fail, data, vers_
  <2>4. CASE VersionSteps(p)
    BY <2>4 DEF VersionSteps, SvNum, SvCopy, PrCount, PrOldest, PrBlob, PrRow, RvFile, RvVer,
                RvExists, RvCopy, RvRow, DvFile, DvGet, DvBlob, DvRow,
                Attempt, OrFault, Fail, data, vers_
  <2> QED BY <2>1, <2>2, <2>3, <2>4 DEF Steps
<1> QED BY <1>1, <1>2, <1>3

\* A file has finitely many versions, fewer when some go.
LEMMA FewerVersions ==
    ASSUME TablesOK, NEW f
    PROVE  /\ IsFiniteSet(VersionsOf(f)) /\ Cardinality(VersionsOf(f)) \in Nat
           /\ \A S : S \subseteq VersionsOf(f) => Cardinality(S) <= Cardinality(VersionsOf(f))
<1>1. IsFiniteSet(1..(nextVer - 1))
  <2>1. 1 \in Int /\ nextVer - 1 \in Int
    BY DEF TablesOK
  <2> QED BY ONLY <2>1, FS_Interval
<1>2. VersionsOf(f) \subseteq 1..(nextVer - 1)
  BY DEF TablesOK, VersionsOf
<1>3. IsFiniteSet(VersionsOf(f))
  BY <1>1, <1>2, FS_Subset
<1>4. \A S : S \subseteq VersionsOf(f) => Cardinality(S) <= Cardinality(VersionsOf(f))
  BY <1>3, FS_Subset
<1>5. Cardinality(VersionsOf(f)) \in Nat
  BY <1>3, FS_CardinalityType
<1> QED BY <1>3, <1>4, <1>5

\* A step that adds no version keeps the invariant, unless it ends a pruning.
LEMMA PrunersStay ==
    ASSUME TypeInv, TypeInv', SomeonePrunes, NEW p \in Procs, OthersStay(p), Shrinks,
           \A f : PruningOf(p, f) =>
                      PruningOf(p, f)' \/ Cardinality(VersionsOf(f)) <= MaxVersions
    PROVE  SomeonePrunes'
<1> SUFFICES ASSUME NEW f
             PROVE  \/ Cardinality(VersionsOf(f)') <= MaxVersions
                    \/ \E q \in Procs : PruningOf(q, f)'
  BY DEF SomeonePrunes
<1>1. CASE Cardinality(VersionsOf(f)) <= MaxVersions
  <2>1. /\ Cardinality(VersionsOf(f)') <= Cardinality(VersionsOf(f))
        /\ Cardinality(VersionsOf(f)) \in Nat
    BY FewerVersions DEF Shrinks, TypeInv
  <2>2. Cardinality(VersionsOf(f)') \in Nat
    <3>1. IsFiniteSet(VersionsOf(f)')
      BY FewerVersions, FS_Subset DEF Shrinks, TypeInv
    <3> QED BY <3>1, FS_CardinalityType
  <2>3. MaxVersions \in Nat
    BY FileStoreAssumption
  <2> QED BY <1>1, <2>1, <2>2, <2>3
<1>2. CASE ~ (Cardinality(VersionsOf(f)) <= MaxVersions)
  <2>1. PICK q \in Procs : PruningOf(q, f)
    BY <1>2 DEF SomeonePrunes
  <2>2. PruningOf(q, f)'
    BY <1>2, <2>1 DEF OthersStay, PruningOf
  <2> QED BY <2>2
<1> QED BY <1>1, <1>2

\* One pass of the loop of pruneOldest, without faults: it ends when it has
\* counted no more than MaxVersions, or found no version at all.
LEMMA PruningGoesOn ==
    ASSUME MaxFaults = 0, TypeInv, NEW p \in Procs, pc[p] \in Pruning,
           Calls(p) \/ Steps(p), NEW f, PruningOf(p, f)
    PROVE  PruningOf(p, f)' \/ Cardinality(VersionsOf(f)) <= MaxVersions
<1>1. faults \in Nat /\ ~ (faults < MaxFaults)
  BY DEF TypeInv, GhostsOK
<1>2. loc[p].fid = f /\ loc[p] \in Locals /\ pc \in [Procs -> Labels] /\ loc \in [Procs -> Locals]
  BY DEF PruningOf, TypeInv, LocalsInv, ProcsOK
<1>3. PrCount(p) \/ PrOldest(p) \/ PrBlob(p) \/ PrRow(p)
  <2>1. ~ Calls(p)
    BY DEF Pruning, Calls, Upload, Delete, RecycleCalls, Restore, PermanentlyDelete,
           EmptyTrash, CleanupExpired, VersionCalls, RestoreVersion, DeleteVersion, Call
  <2>2. ~ RecycleSteps(p)
    BY DEF Pruning, RecycleSteps, TrGet, TrRename, TrItem, TrUndo, TrRow,
           ReGet, ReRename, ReRow, ReUndo, ReItem, ReCharge, PdGet, PdBlob, PdRow,
           EtList, EtBlob, EtRows, CuList, CuBlob, CuRows, ListPurge, PurgeBlob, PurgeRows
  <2> QED BY <2>1, <2>2 DEF Pruning, Steps, UpList, UpWrite, UpQuota, UpRename, UpRow,
           UpCharge, DeGet, DeCharge, VersionSteps, SvNum, SvCopy, SvRow, RvFile, RvVer,
           RvExists, RvCopy, RvRow, DvFile, DvGet, DvBlob, DvRow
<1>4. CASE PrCount(p)
  BY <1>1, <1>2, <1>4 DEF PrCount, OrFault, Goto, PruningOf, Pruning
<1>5. CASE PrOldest(p)
  <2>1. CASE VersionsOf(f) = {}
    BY <2>1, FS_EmptySet, FileStoreAssumption
  <2>2. CASE VersionsOf(f) # {}
    <3>1. PICK v \in Oldest(f) : /\ loc' = [loc EXCEPT ![p].old = v, ![p].snap = vers[v]]
                                 /\ Goto(p, "pr_blob")
      BY <1>1, <1>2, <1>5, <2>2 DEF PrOldest, OrFault
    <3>2. loc'[p].fid = loc[p].fid
      BY <1>2, <3>1 DEF Locals
    <3> QED BY <1>2, <3>1, <3>2 DEF Goto, PruningOf, Pruning
  <2> QED BY <2>1, <2>2
<1>6. CASE PrBlob(p)
  BY <1>2, <1>6 DEF PrBlob, Goto, PruningOf, Pruning
<1>7. CASE PrRow(p)
  BY <1>1, <1>2, <1>7 DEF PrRow, OrFault, Goto, PruningOf, Pruning
<1> QED BY <1>3, <1>4, <1>5, <1>6, <1>7

\* A new version brings its pruner.
LEMMA SavedIsPruned ==
    ASSUME MaxFaults = 0, TypeInv, SomeonePrunes, SnapOfFile,
           NEW p \in Procs, OthersStay(p), SvRow(p)
    PROVE  SomeonePrunes'
<1>1. faults \in Nat /\ ~ (faults < MaxFaults)
  BY DEF TypeInv, GhostsOK
<1>2. pc \in [Procs -> Labels] /\ loc \in [Procs -> Locals] /\ pc[p] = "sv_row"
  BY DEF TypeInv, LocalsInv, ProcsOK, SvRow
<1>3. \A q \in Procs : \A f : PruningOf(q, f) => PruningOf(q, f)'
  BY <1>2 DEF OthersStay, PruningOf, Pruning
<1>4. CASE UNCHANGED vers
  BY <1>3, <1>4 DEF SomeonePrunes, VersionsOf
<1>5. CASE ~ UNCHANGED vers
  <2>1. /\ vers' = Insert(vers, nextVer, loc[p].snap)
        /\ Goto(p, "pr_count") /\ UNCHANGED loc
    BY <1>1, <1>5 DEF SvRow, SvUndo, OrFault, vers_
  <2>2. \A f : f = loc[p].fid => PruningOf(p, f)'
    BY <1>2, <2>1 DEF PruningOf, Pruning, Goto
  <2>3. ASSUME NEW f, f # loc[p].fid PROVE VersionsOf(f)' = VersionsOf(f)
    <3>1. nextVer \notin DOMAIN vers
      BY DEF TypeInv, TablesOK
    <3>2. /\ DOMAIN vers' = DOMAIN vers \cup {nextVer}
          /\ vers'[nextVer] = loc[p].snap
          /\ \A v \in DOMAIN vers : vers'[v] = vers[v]
      BY <2>1, <3>1 DEF Insert
    <3>3. loc[p].snap.fid = loc[p].fid
      BY <1>2 DEF SnapOfFile
    <3> QED BY <2>3, <3>2, <3>3 DEF VersionsOf
  <2>4. ASSUME NEW f
        PROVE  \/ Cardinality(VersionsOf(f)') <= MaxVersions
               \/ \E q \in Procs : PruningOf(q, f)'
    <3>1. CASE f = loc[p].fid
      BY <2>2, <3>1
    <3>2. CASE f # loc[p].fid
      BY <1>3, <2>3, <3>2 DEF SomeonePrunes
    <3> QED BY <3>1, <3>2
  <2> QED BY <2>4 DEF SomeonePrunes
<1> QED BY <1>4, <1>5

\* Only SvNum and SvCopy lead into SaveVersion's copy and insert.
LEMMA IntoSave ==
    ASSUME TypeInv, NEW p \in Procs, Calls(p) \/ Steps(p), ~ SvNum(p), ~ SvCopy(p)
    PROVE  pc'[p] \notin {"sv_copy", "sv_row"}
<1>1. pc \in [Procs -> Labels] /\ loc[p].ret \in {"none", "up_write", "rv_copy"}
  BY LocalTypes DEF TypeInv, LocalsInv, ProcsOK
<1>2. ASSUME NEW l, l \notin {"sv_copy", "sv_row"}, Goto(p, l)
      PROVE  pc'[p] \notin {"sv_copy", "sv_row"}
  BY <1>1, <1>2 DEF Goto
<1>3. ASSUME Return(p) \/ Fail(p) \/ SvFail(p) \/ PruneDone(p)
      PROVE  pc'[p] \notin {"sv_copy", "sv_row"}
  BY <1>1, <1>2, <1>3 DEF Return, Fail, SvFail, PruneDone
<1>4. CASE Calls(p)
  BY <1>2, <1>4
     DEF Calls, Upload, Delete, RecycleCalls, Restore, PermanentlyDelete, EmptyTrash,
         CleanupExpired, VersionCalls, RestoreVersion, DeleteVersion, Call
<1>5. CASE \/ UpList(p) \/ UpWrite(p) \/ UpQuota(p) \/ UpRename(p) \/ UpRow(p)
           \/ UpCharge(p) \/ DeGet(p) \/ DeCharge(p)
  BY <1>2, <1>3, <1>5 DEF UpList, UpWrite, UpQuota, UpRename, UpRow, UpCharge, DeGet,
                          DeCharge, Attempt, OrFault
<1>6. CASE RecycleSteps(p)
  BY <1>2, <1>3, <1>6
     DEF RecycleSteps, TrGet, TrRename, TrItem, TrUndo, TrRow,
         ReGet, ReRename, ReRow, ReUndo, ReItem, ReCharge, PdGet, PdBlob, PdRow,
         EtList, EtBlob, EtRows, CuList, CuBlob, CuRows, ListPurge, PurgeBlob, PurgeRows,
         Attempt, OrFault
<1>7. CASE VersionSteps(p)
  BY <1>2, <1>3, <1>7
     DEF VersionSteps, SvRow, SvUndo, PrCount, PrOldest, PrBlob, PrRow, RvFile, RvVer,
         RvExists, RvCopy, RvRow, DvFile, DvGet, DvBlob, DvRow, Attempt, OrFault
<1> QED BY <1>4, <1>5, <1>6, <1>7 DEF Steps

\* So the version SaveVersion inserts stays one of its file.
LEMMA SnapKept ==
    ASSUME TypeInv, SnapOfFile, NEW p \in Procs, OthersStay(p), Calls(p) \/ Steps(p)
    PROVE  SnapOfFile'
<1>1. pc \in [Procs -> Labels] /\ loc \in [Procs -> Locals] /\ loc[p] \in Locals
  BY LocalTypes DEF TypeInv, LocalsInv, ProcsOK
<1>2. SUFFICES ASSUME pc'[p] \in {"sv_copy", "sv_row"} PROVE loc'[p].snap.fid = loc'[p].fid
  BY DEF SnapOfFile, OthersStay
<1>3. CASE SvNum(p)
  BY <1>1, <1>3 DEF SvNum, OrFault, Locals
<1>4. CASE SvCopy(p)
  <2>1. UNCHANGED loc /\ pc[p] = "sv_copy"
    BY <1>1, <1>2, <1>4 DEF SvCopy, SvFail, Return, Goto, OrFault
  <2> QED BY <2>1 DEF SnapOfFile
<1> QED BY <1>2, <1>3, <1>4, IntoSave

PruneInv == Inv /\ SomeonePrunes /\ SnapOfFile

\* Nothing has versions at the start.
LEMMA PruneInit == Init => PruneInv
<1> SUFFICES ASSUME Init PROVE PruneInv
  OBVIOUS
<1>1. Inv
  BY InitInv
<1>2. \A f : VersionsOf(f) = {}
  BY DEF Init, Empty, VersionsOf
<1>3. SomeonePrunes
  BY <1>2, FS_EmptySet, FileStoreAssumption DEF SomeonePrunes
<1>4. SnapOfFile
  BY DEF Init, SnapOfFile
<1> QED BY <1>1, <1>3, <1>4 DEF PruneInv

\* Every step keeps it, where nothing fails and the process lives.
LEMMA PruneStep ==
    ASSUME MaxFaults = 0, MaxCrashes = 0
    PROVE  PruneInv /\ [Next]_vars => PruneInv'
<1> SUFFICES ASSUME PruneInv, [Next]_vars PROVE PruneInv'
  OBVIOUS
<1>1. Inv' /\ TypeInv /\ TypeInv'
  BY StepInv DEF PruneInv, Inv
<1>2. CASE UNCHANGED vars
  <2>1. UNCHANGED <<vers, pc, loc>>
    BY <1>2 DEF vars
  <2> QED BY <1>1, <2>1
          DEF PruneInv, SomeonePrunes, SnapOfFile, PruningOf, VersionsOf
<1>3. ASSUME NEW p \in Procs, Calls(p) \/ Steps(p) PROVE PruneInv'
  <2>1. OthersStay(p)
    BY <1>1, <1>3, OneMoves
  <2>2. SnapOfFile'
    BY <1>1, <1>3, <2>1, SnapKept DEF PruneInv
  <2>3. CASE SvRow(p)
    BY <1>1, <2>1, <2>2, <2>3, SavedIsPruned DEF PruneInv
  <2>4. CASE ~ SvRow(p)
    <3>1. Shrinks
      BY <1>3, <2>4, VersionsShrink
    <3>2. \A f : PruningOf(p, f) =>
                     PruningOf(p, f)' \/ Cardinality(VersionsOf(f)) <= MaxVersions
      BY <1>1, <1>3, PruningGoesOn DEF PruningOf
    <3> QED BY <1>1, <2>1, <2>2, <3>1, <3>2, PrunersStay DEF PruneInv
  <2> QED BY <2>3, <2>4
<1>4. ASSUME NEW i \in DOMAIN bin, Expire(i) PROVE PruneInv'
  <2>1. UNCHANGED <<vers, pc, loc>>
    BY <1>4 DEF Expire, vers_
  <2> QED BY <1>1, <2>1
          DEF PruneInv, SomeonePrunes, SnapOfFile, PruningOf, VersionsOf
<1>5. ~ Crash
  BY <1>1 DEF Crash, TypeInv, GhostsOK
<1> QED BY <1>2, <1>3, <1>4, <1>5 DEF Next

\* However many goroutines save, restore, delete and prune versions at once, no
\* file has more than MaxVersions of them at rest, as long as no statement fails
\* and the process does not die in the loop: the last to insert counts after all.
THEOREM VersionsStayBounded ==
    ASSUME MaxFaults = 0, MaxCrashes = 0
    PROVE  Spec => []VersionsBounded
<1>1. PruneInv => VersionsBounded
  BY DEF PruneInv, SomeonePrunes, PruningOf, Pruning, VersionsBounded, Quiet
<1>2. Init => PruneInv
  BY PruneInit
<1>3. PruneInv /\ [Next]_vars => PruneInv'
  BY PruneStep
<1> QED BY <1>1, <1>2, <1>3, PTL DEF Spec
==============================================================================
