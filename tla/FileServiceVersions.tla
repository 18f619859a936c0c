-------------------------- MODULE FileServiceVersions --------------------------
(***************************************************************************)
(* Versions and the recycle bin where one request is served at a time, by  *)
(* any number of users and beside any number of cleanups: versions keep    *)
(* their numbers, their order and their bytes, a restore can be undone,    *)
(* and what the bin lists is there.                                        *)
(***************************************************************************)
EXTENDS FileServiceBytes

------------------------------------------------------------------------------
(* What is known of the versions between the steps of a request.            *)

OneAtATime == \A p, q \in Requesters : p = q

\* In the middle of a request, as opposed to a cleanup.
AtWork(p) == pc[p] \notin {"idle", "cu_list", "cu_blobs"}
RequestersWork == \A p \in Procs : AtWork(p) => p \in Requesters

\* A snapshot's path tells its file and its number.
Numbered ==
    \A v \in DOMAIN vers : vers[v].path.fid = vers[v].fid /\ vers[v].path.num = vers[v].num

NumbersApart ==
    \A v, w \in DOMAIN vers : v # w /\ vers[v].fid = vers[w].fid => vers[v].num # vers[w].num

\* The number of a snapshot to be inserted is above all of its file's.
Saves(p) ==
    pc[p] \in {"sv_copy", "sv_row"} =>
        /\ loc[p].snap.fid = loc[p].fid
        /\ loc[p].snap.path.fid = loc[p].fid /\ loc[p].snap.path.num = loc[p].snap.num
        /\ \A v \in VersionsOf(loc[p].fid) : vers[v].num < loc[p].snap.num

NumberInv == RequestersWork /\ Numbered /\ NumbersApart /\ \A p \in Procs : Saves(p)

\* The version a pruning has chosen is there, and is the oldest.
Chosen(p) ==
    pc[p] \in {"pr_blob", "pr_row"} =>
        /\ loc[p].old \in VersionsOf(loc[p].fid) /\ vers[loc[p].old] = loc[p].snap
        /\ \A v \in VersionsOf(loc[p].fid) : vers[v].num >= loc[p].snap.num

ChosenInv == RequestersWork /\ \A p \in Procs : Chosen(p)

Same(q, r) == q \in DOMAIN store /\ r \in DOMAIN store /\ store[q] = store[r]

\* The snapshot holds what the file holds.
Copied(p) == pc[p] = "sv_row" => Same(loc[p].snap.path, loc[p].g.path)

\* So does the newest version, which is not the one that is pruned.
Saved(p) ==
    pc[p] = "rv_copy" \/ (pc[p] \in Pruning /\ loc[p].ret = "rv_copy") =>
        \E v \in Newest(loc[p].fid) :
            /\ Same(vers[v].path, loc[p].g.path)
            /\ pc[p] \in {"pr_blob", "pr_row"} => v # loc[p].old

Crowded(p) == pc[p] = "pr_oldest" => Cardinality(VersionsOf(loc[p].fid)) > MaxVersions

SavedInv == NumberInv /\ ChosenInv /\ \A p \in Procs : Copied(p) /\ Saved(p) /\ Crowded(p)

\* A version is deleted by the row that was read.
Known(p) ==
    pc[p] \in {"dv_blob", "dv_row"} => loc[p].id \in DOMAIN vers /\ vers[loc[p].id] = loc[p].v

\* A version without bytes is about to go.
Going(p, v) == \/ pc[p] = "pr_row" /\ loc[p].old = v
               \/ pc[p] = "dv_row" /\ loc[p].id = v
Backing == \A v \in DOMAIN vers : vers[v].path \in DOMAIN store \/ \E p \in Procs : Going(p, v)

BackingInv == SavedInv /\ Backing /\ \A p \in Procs : Known(p)

------------------------------------------------------------------------------
(* One request at a time.                                                   *)

\* Steps of goroutines outside of a request are the cleanup's.
LEMMA CleanupOnly ==
    ASSUME NEW p \in Procs, ~ AtWork(p), Steps(p)
    PROVE  CuList(p) \/ CuBlob(p) \/ CuRows(p)
  BY DEF AtWork, Steps, UpList, UpWrite, UpQuota, UpRename, UpRow, UpCharge, DeGet, DeCharge,
         RecycleSteps, TrGet, TrRename, TrItem, TrUndo, TrRow, ReGet, ReRename, ReRow, ReUndo,
         ReItem, ReCharge, PdGet, PdBlob, PdRow, EtList, EtBlob, EtRows, ListPurge, PurgeBlob,
         PurgeRows, VersionSteps, SvNum, SvCopy, SvRow, PrCount, PrOldest, PrBlob, PrRow,
         RvFile, RvVer, RvExists, RvCopy, RvRow, DvFile, DvGet, DvBlob, DvRow

\* A request begins at a goroutine that has none.
LEMMA CallsAtRest ==
    ASSUME NEW p \in Procs, Calls(p)
    PROVE  /\ pc[p] = "idle" /\ UNCHANGED data
           /\ p \in Requesters \/ (Goto(p, "cu_list") /\ UNCHANGED loc)
  BY DEF Calls, Upload, Delete, RecycleCalls, Restore, PermanentlyDelete, EmptyTrash,
         CleanupExpired, VersionCalls, RestoreVersion, DeleteVersion, Call

\* Requests stay with the requesters.
LEMMA WorkStays ==
    ASSUME TypeInv, RequestersWork, [Next]_vars
    PROVE  RequestersWork'
<1>1. pc \in [Procs -> Labels]
  BY DEF TypeInv, LocalsInv, ProcsOK
<1>2. ASSUME NEW p \in Procs, OthersStay(p), p \in Requesters \/ ~ AtWork(p)' PROVE RequestersWork'
  BY <1>2 DEF OthersStay, RequestersWork, AtWork
<1>3. ASSUME NEW p \in Procs, Calls(p) PROVE RequestersWork'
  <2>1. p \in Requesters \/ pc'[p] = "cu_list"
    BY <1>1, <1>3, CallsAtRest DEF Goto
  <2> QED BY <1>2, <1>3, <2>1, OneMoves DEF AtWork
<1>4. ASSUME NEW p \in Procs, Steps(p) PROVE RequestersWork'
  <2>1. CASE AtWork(p)
    BY <1>2, <1>4, <2>1, OneMoves DEF RequestersWork
  <2>2. CASE ~ AtWork(p)
    <3>1. CuList(p) \/ CuBlob(p) \/ CuRows(p)
      BY <1>4, <2>2, CleanupOnly
    <3>2. pc'[p] \in {"idle", "cu_blobs"}
      BY <1>1, <3>1 DEF CuList, CuBlob, CuRows, ListPurge, PurgeBlob, PurgeRows, OrFault, Fail,
                        Return, Goto
    <3> QED BY <1>2, <1>4, <3>2, OneMoves DEF AtWork
  <2> QED BY <2>1, <2>2
<1>5. CASE Crash
  BY <1>5 DEF Crash, RequestersWork, AtWork
<1>6. CASE (\E i \in DOMAIN bin : Expire(i)) \/ UNCHANGED vars
  BY <1>6 DEF Expire, vars, RequestersWork, AtWork
<1> QED BY <1>3, <1>4, <1>5, <1>6 DEF Next

\* While one request is served the others rest.
LEMMA OthersRest ==
    ASSUME OneAtATime, RequestersWork, NEW p \in Procs, AtWork(p), NEW r \in Procs \ {p}
    PROVE  ~ AtWork(r)
  BY DEF OneAtATime, RequestersWork

\* A cleanup deletes slots and items, and nothing else.
LEMMA CleanupTouches ==
    ASSUME TypeInv, NEW p \in Procs, ~ AtWork(p), Calls(p) \/ Steps(p)
    PROVE  /\ UNCHANGED <<files_, vers_, used>>
           /\ UNCHANGED store \/ \E q \in loc[p].todo : q.kind = "trash" /\ store' = Remove(store, {q})
<1>1. CASE Calls(p)
  BY <1>1, CallsAtRest DEF data, store_
<1>2. CASE Steps(p)
  <2>1. CuList(p) \/ CuBlob(p) \/ CuRows(p)
    BY <1>2, CleanupOnly
  <2>2. CASE CuList(p) \/ CuRows(p)
    BY <2>2 DEF CuList, CuRows, ListPurge, PurgeRows, OrFault, Fail, data, store_, vers_, files_
  <2>3. CASE CuBlob(p)
    <3>1. loc[p].todo \subseteq PathOf({"trash"})
      BY LocalTypes DEF TypeInv, LocalsInv
    <3>2. \A q \in loc[p].todo : q.kind = "trash"
      BY <3>1, KindsOK
    <3>3. \/ UNCHANGED store
          \/ \E q \in loc[p].todo : store' = Remove(store, {q})
      BY <2>3 DEF CuBlob, PurgeBlob, OrFault, Erase, store_
    <3>4. UNCHANGED <<files_, vers_, used>>
      BY <2>3 DEF CuBlob, PurgeBlob
    <3> QED BY <3>2, <3>3, <3>4
  <2> QED BY <2>1, <2>2, <2>3
<1> QED BY <1>1, <1>2

------------------------------------------------------------------------------
(* The numbers of versions.                                                 *)

\* Versions only go.
LEMMA VersionsGo ==
    ASSUME NEW p \in Procs, Calls(p) \/ Steps(p), ~ SvRow(p)
    PROVE  /\ DOMAIN vers' \subseteq DOMAIN vers
           /\ \A v \in DOMAIN vers' : vers'[v] = vers[v]
<1>1. UNCHANGED vers \/ \E ks : vers' = Remove(vers, ks)
  <2>1. CASE Calls(p)
    BY <2>1, CallsAtRest DEF data, vers_
  <2>2. CASE \/ UpList(p) \/ UpWrite(p) \/ UpQuota(p) \/ UpRename(p) \/ UpRow(p)
             \/ UpCharge(p) \/ DeGet(p) \/ DeCharge(p)
    BY <2>2 DEF UpList, UpWrite, UpQuota, UpRename, UpRow, UpCharge, DeGet, DeCharge,
                Attempt, OrFault, Fail, data, vers_
  <2>3. CASE RecycleSteps(p)
    BY <2>3 DEF RecycleSteps, TrGet, TrRename, TrItem, TrUndo, TrRow, CascadeVersions,
                ReGet, ReRename, ReRow, ReUndo, ReItem, ReCharge, PdGet, PdBlob, PdRow,
                EtList, EtBlob, EtRows, CuList, CuBlob, CuRows, ListPurge, PurgeBlob,
                PurgeRows, Attempt, OrFault, Fail, data, vers_
  <2>4. CASE VersionSteps(p)
    BY <2>4 DEF VersionSteps, SvNum, SvCopy, PrCount, PrOldest, PrBlob, PrRow, RvFile, RvVer,
                RvExists, RvCopy, RvRow, DvFile, DvGet, DvBlob, DvRow,
                Attempt, OrFault, Fail, data, vers_
  <2> QED BY <2>1, <2>2, <2>3, <2>4 DEF Steps
<1> QED BY <1>1 DEF Remove

LEMMA FewerNumbered ==
    ASSUME Numbered, NumbersApart, DOMAIN vers' \subseteq DOMAIN vers,
           \A v \in DOMAIN vers' : vers'[v] = vers[v]
    PROVE  Numbered' /\ NumbersApart'
  BY DEF Numbered, NumbersApart

\* A goroutine that stays where it is, while versions go.
LEMMA SavesStay ==
    ASSUME NEW p \in Procs, Saves(p), DOMAIN vers' \subseteq DOMAIN vers,
           \A v \in DOMAIN vers' : vers'[v] = vers[v],
           pc'[p] \in {"sv_copy", "sv_row"} => pc[p] \in {"sv_copy", "sv_row"} /\ loc'[p] = loc[p]
    PROVE  Saves(p)'
  BY DEF Saves, VersionsOf

\* The next number is above all of the file's.
LEMMA NextIsAbove ==
    ASSUME TablesOK, NEW f
    PROVE  /\ NextVersionNum(f) \in Nat
           /\ \A v \in VersionsOf(f) : vers[v].num < NextVersionNum(f)
<1> DEFINE S == {0} \cup {vers[v].num : v \in VersionsOf(f)}
<1>1. \A v \in VersionsOf(f) : vers[v].num \in Nat
  BY VersionTypes DEF TablesOK, VersionsOf
<1>2. S \in SUBSET Nat /\ S # {}
  BY <1>1
<1>3. IsFiniteSet(S)
  <2>1. IsFiniteSet({vers[v].num : v \in VersionsOf(f)})
    <3> DEFINE num == [v \in VersionsOf(f) |-> vers[v].num]
               T == {vers[v].num : v \in VersionsOf(f)}
    <3>1. IsFiniteSet(VersionsOf(f))
      BY FewerVersions
    <3>2. num \in Surjection(VersionsOf(f), T)
      BY DEF Surjection
    <3> HIDE DEF num, T
    <3>3. IsFiniteSet(T)
      BY <3>1, <3>2, FS_Surjection
    <3> QED BY <3>3 DEF T
  <2>2. IsFiniteSet({0})
    BY FS_Singleton
  <2> QED BY <2>1, <2>2, FS_Union
<1>4. Max(S) \in S /\ \A x \in S : x <= Max(S)
  <2> HIDE DEF S
  <2> QED BY <1>2, <1>3, MaxIn
<1>5. NextVersionNum(f) = Max(S) + 1
  BY DEF NextVersionNum
<1>6. Max(S) \in Nat
  BY <1>2, <1>4
<1>7. \A v \in VersionsOf(f) : vers[v].num <= Max(S)
  BY <1>4
<1> HIDE DEF S
<1> QED BY <1>1, <1>5, <1>6, <1>7

LEMMA NumberStep ==
    ASSUME OneAtATime, MaxFaults = 0, TypeInv, NumberInv, [Next]_vars
    PROVE  NumberInv'
<1>1. /\ pc \in [Procs -> Labels] /\ loc \in [Procs -> Locals] /\ ~ (faults < MaxFaults)
  BY NoFaults DEF TypeInv, LocalsInv, ProcsOK
<1>2. RequestersWork'
  BY WorkStays DEF NumberInv
<1>3. ASSUME DOMAIN vers' \subseteq DOMAIN vers, \A v \in DOMAIN vers' : vers'[v] = vers[v],
             \A r \in Procs : pc'[r] \in {"sv_copy", "sv_row"} =>
                 pc[r] \in {"sv_copy", "sv_row"} /\ loc'[r] = loc[r]
      PROVE  NumberInv'
  BY <1>2, <1>3, SavesStay, FewerNumbered DEF NumberInv
<1>4. ASSUME NEW p \in Procs, Calls(p) \/ Steps(p), ~ SvNum(p), ~ SvCopy(p), ~ SvRow(p)
      PROVE  NumberInv'
  BY <1>3, <1>4, OneMoves, VersionsGo, IntoSave DEF OthersStay
<1>5. ASSUME NEW p \in Procs, SvCopy(p) PROVE NumberInv'
  <2>1. UNCHANGED vers /\ pc[p] = "sv_copy" /\ OthersStay(p)
    BY <1>5, OneMoves DEF SvCopy, vers_, Steps, VersionSteps
  <2>2. pc'[p] \in {"sv_copy", "sv_row"} => loc'[p] = loc[p]
    BY <1>1, <1>5 DEF SvCopy, SvFail, Return, Goto, OrFault
  <2> QED BY <1>3, <2>1, <2>2 DEF OthersStay
<1>6. ASSUME NEW p \in Procs, SvNum(p) PROVE NumberInv'
  <2>1. UNCHANGED vers /\ OthersStay(p)
    BY <1>6, OneMoves DEF SvNum, data, vers_, Steps, VersionSteps
  <2> DEFINE n == NextVersionNum(loc[p].fid)
  <2>2. PICK ts \in Stamps : loc' = [loc EXCEPT ![p].snap =
            [fid |-> loc[p].fid, num |-> n, size |-> loc[p].g.size, sha |-> loc[p].g.sha,
             path |-> Snap(loc[p].g.owner, loc[p].fid, n, ts)]]
    BY <1>1, <1>6 DEF SvNum, OrFault
  <2>3. loc[p] \in Locals
    BY <1>1
  <2>4. /\ loc'[p].fid = loc[p].fid /\ loc'[p].snap.fid = loc[p].fid /\ loc'[p].snap.num = n
        /\ loc'[p].snap.path = Snap(loc[p].g.owner, loc[p].fid, n, ts)
    BY <1>1, <2>2, <2>3 DEF Locals
  <2>5. loc'[p].snap.path.fid = loc[p].fid /\ loc'[p].snap.path.num = n
    BY <2>4 DEF Snap
  <2>6. \A v \in VersionsOf(loc[p].fid) : vers[v].num < n
    BY NextIsAbove DEF TypeInv
  <2>7. Saves(p)'
    BY <2>1, <2>4, <2>5, <2>6 DEF Saves, VersionsOf
  <2>8. \A r \in Procs \ {p} : Saves(r)'
    BY <2>1, SavesStay DEF NumberInv, OthersStay
  <2> QED BY <1>2, <2>1, <2>7, <2>8, FewerNumbered DEF NumberInv
<1>7. ASSUME NEW p \in Procs, SvRow(p) PROVE NumberInv'
  <2>1. OthersStay(p) /\ pc[p] = "sv_row" /\ Saves(p)
    BY <1>7, OneMoves DEF SvRow, Steps, VersionSteps, NumberInv
  <2>2. pc'[p] \notin {"sv_copy", "sv_row"}
    BY <1>7, IntoSave DEF SvRow, SvNum, SvCopy, Steps, VersionSteps
  <2>3. CASE UNCHANGED vers
    BY <1>3, <2>1, <2>2, <2>3 DEF OthersStay
  <2>4. CASE ~ UNCHANGED vers
    <3>1. vers' = Insert(vers, nextVer, loc[p].snap)
      BY <1>1, <1>7, <2>4 DEF SvRow, SvUndo, OrFault, vers_
    <3>2. nextVer \notin DOMAIN vers
      BY DEF TypeInv, TablesOK
    <3>3. /\ DOMAIN vers' = DOMAIN vers \cup {nextVer}
          /\ vers'[nextVer] = loc[p].snap
          /\ \A v \in DOMAIN vers : vers'[v] = vers[v]
      BY <3>1, <3>2 DEF Insert
    <3>4. /\ loc[p].snap.fid = loc[p].fid /\ loc[p].snap.path.fid = loc[p].snap.fid
          /\ loc[p].snap.path.num = loc[p].snap.num
          /\ \A v \in DOMAIN vers : vers[v].fid = loc[p].fid => vers[v].num < loc[p].snap.num
      BY <2>1 DEF Saves, VersionsOf
    <3>5. loc[p].snap.num \in Nat /\ \A v \in DOMAIN vers : vers[v].num \in Nat
      BY LocalTypes, VersionTypes DEF TypeInv, LocalsInv, TablesOK
    <3>6. Numbered'
      BY <3>3, <3>4 DEF Numbered, NumberInv
    <3>7. NumbersApart'
      <4>1. \A v \in DOMAIN vers : vers[v].fid = loc[p].fid => vers[v].num # loc[p].snap.num
        BY <3>4, <3>5
      <4> QED BY <3>3, <3>4, <4>1 DEF NumbersApart, NumberInv
    <3>8. \A r \in Procs \ {p} : pc'[r] \notin {"sv_copy", "sv_row"}
      BY <2>1, OthersRest DEF NumberInv, AtWork, OthersStay
    <3>9. \A r \in Procs : Saves(r)'
      BY <2>2, <3>8 DEF Saves
    <3> QED BY <1>2, <3>6, <3>7, <3>9 DEF NumberInv
  <2> QED BY <2>3, <2>4
<1>8. CASE Crash
  BY <1>3, <1>8 DEF Crash, data, vers_
<1>9. CASE (\E i \in DOMAIN bin : Expire(i)) \/ UNCHANGED vars
  BY <1>3, <1>9 DEF Expire, vars, vers_
<1> QED BY <1>4, <1>5, <1>6, <1>7, <1>8, <1>9 DEF Next

LEMMA NumberInitially == Init => NumberInv
  BY DEF Init, Empty, NumberInv, RequestersWork, AtWork, Numbered, NumbersApart, Saves

\* VersionsDistinct: of one request at a time, whatever versions have been pruned,
\* deleted or lost in a crash meanwhile, no snapshot takes a number or a path that is in use.
THEOREM VersionsStayDistinct ==
    ASSUME OneAtATime, MaxFaults = 0 PROVE Spec => []VersionsDistinct
<1>1. Inv /\ NumberInv /\ [Next]_vars => NumberInv'
  BY NumberStep DEF Inv
<1>2. NumberInv => VersionsDistinct
  BY DEF NumberInv, Numbered, NumbersApart, VersionsDistinct
<1> QED BY <1>1, <1>2, NumberInitially, StorageInvariant, PTL DEF Spec

------------------------------------------------------------------------------
(* The order of pruning.                                                    *)

\* Only the choice of the oldest leads to its deletion.
LEMMA IntoPrune ==
    ASSUME TypeInv, NEW p \in Procs, Calls(p) \/ Steps(p), ~ PrOldest(p), ~ PrBlob(p)
    PROVE  pc'[p] \notin {"pr_blob", "pr_row"}
<1>1. pc \in [Procs -> Labels] /\ loc[p].ret \in {"none", "up_write", "rv_copy"}
  BY LocalTypes DEF TypeInv, LocalsInv, ProcsOK
<1>2. ASSUME NEW l, l \notin {"pr_blob", "pr_row"}, Goto(p, l)
      PROVE  pc'[p] \notin {"pr_blob", "pr_row"}
  BY <1>1, <1>2 DEF Goto
<1>3. ASSUME Return(p) \/ Fail(p) \/ SvFail(p) \/ PruneDone(p)
      PROVE  pc'[p] \notin {"pr_blob", "pr_row"}
  BY <1>1, <1>2, <1>3 DEF Return, Fail, SvFail, PruneDone
<1>4. CASE Calls(p)
  BY <1>2, <1>4
     DEF Calls, Upload, Delete, RecycleCalls, Restore, PermanentlyDelete, EmptyTrash,
         CleanupExpired, VersionCalls, RestoreVersion, DeleteVersion, Call
<1>5. CASE \/ UpList(p) \/ UpWrite(p) \/ UpQuota(p) \/ UpRename(p) \/ UpRow(p)
           \/ UpCharge(p) \/ DeGet(p) \/ DeCharge(p)
  BY <1>2, <1>3, <1>5 DEF UpList, UpWrite, UpQuota, UpRename, UpRow, UpCharge, DeGet,
                          DeCharge, Attempt, OrFault
<1>6. CASE RecycleSteps(p)
  BY <1>1, <1>2, <1>3, <1>6
     DEF RecycleSteps, TrGet, TrRename, TrItem, TrUndo, TrRow,
         ReGet, ReRename, ReRow, ReUndo, ReItem, ReCharge, PdGet, PdBlob, PdRow,
         EtList, EtBlob, EtRows, CuList, CuBlob, CuRows, ListPurge, PurgeBlob, PurgeRows,
         Attempt, OrFault
<1>7. CASE VersionSteps(p)
  BY <1>2, <1>3, <1>7
     DEF VersionSteps, SvNum, SvCopy, SvRow, SvUndo, PrCount, PrRow, RvFile, RvVer,
         RvExists, RvCopy, RvRow, DvFile, DvGet, DvBlob, DvRow, Attempt, OrFault
<1> QED BY <1>4, <1>5, <1>6, <1>7 DEF Steps

\* A goroutine that stays where it is, while the versions do.
LEMMA ChosenStays ==
    ASSUME NEW p \in Procs, Chosen(p), vers' = vers,
           pc'[p] \in {"pr_blob", "pr_row"} => pc[p] \in {"pr_blob", "pr_row"} /\ loc'[p] = loc[p]
    PROVE  Chosen(p)'
  BY DEF Chosen, VersionsOf

LEMMA ChosenStep ==
    ASSUME OneAtATime, TypeInv, ChosenInv, [Next]_vars
    PROVE  ChosenInv'
<1>1. pc \in [Procs -> Labels] /\ loc \in [Procs -> Locals] /\ RequestersWork'
  BY WorkStays DEF TypeInv, LocalsInv, ProcsOK, ChosenInv
<1>2. ASSUME vers' = vers,
             \A r \in Procs : pc'[r] \in {"pr_blob", "pr_row"} =>
                 pc[r] \in {"pr_blob", "pr_row"} /\ loc'[r] = loc[r]
      PROVE  ChosenInv'
  BY <1>1, <1>2, ChosenStays DEF ChosenInv
<1>3. ASSUME NEW p \in Procs, Calls(p) \/ Steps(p), ~ PrOldest(p), ~ PrBlob(p)
      PROVE  ChosenInv'
  <2>1. OthersStay(p) /\ pc'[p] \notin {"pr_blob", "pr_row"}
    BY <1>3, OneMoves, IntoPrune
  <2>2. CASE AtWork(p)
    <3>1. \A r \in Procs \ {p} : pc'[r] \notin {"pr_blob", "pr_row"}
      BY <2>1, <2>2, OthersRest DEF ChosenInv, AtWork, OthersStay
    <3> QED BY <1>1, <2>1, <3>1 DEF ChosenInv, Chosen
  <2>3. CASE ~ AtWork(p)
    BY <1>2, <1>3, <2>1, <2>3, CleanupTouches DEF OthersStay, vers_
  <2> QED BY <2>2, <2>3
<1>4. ASSUME NEW p \in Procs, PrBlob(p) PROVE ChosenInv'
  <2>1. OthersStay(p)
    BY <1>4, OneMoves DEF Steps, VersionSteps
  <2>2. pc[p] = "pr_blob" /\ UNCHANGED <<vers, loc>>
    BY <1>4 DEF PrBlob, vers_
  <2> QED BY <1>2, <2>1, <2>2 DEF OthersStay
<1>5. ASSUME NEW p \in Procs, PrOldest(p) PROVE ChosenInv'
  <2>1. OthersStay(p) /\ UNCHANGED vers
    BY <1>5, OneMoves DEF PrOldest, data, vers_, Steps, VersionSteps
  <2>2. Chosen(p)'
    <3>1. CASE PruneDone(p)
      <4>1. pc'[p] = loc[p].ret /\ loc[p].ret \notin {"pr_blob", "pr_row"}
        BY <1>1, <3>1, LocalTypes DEF PruneDone, Goto, TypeInv, LocalsInv
      <4> QED BY <4>1 DEF Chosen
    <3>2. CASE ~ PruneDone(p)
      <4>1. PICK v \in Oldest(loc[p].fid) : loc' = [loc EXCEPT ![p].old = v, ![p].snap = vers[v]]
        BY <1>5, <3>2 DEF PrOldest, OrFault
      <4>2. loc'[p].fid = loc[p].fid /\ loc'[p].old = v /\ loc'[p].snap = vers[v]
        BY <1>1, <4>1 DEF Locals
      <4>3. v \in VersionsOf(loc[p].fid) /\ \A x \in VersionsOf(loc[p].fid) : vers[v].num <= vers[x].num
        BY DEF Oldest
      <4>4. \A x \in VersionsOf(loc[p].fid) : vers[x].num >= vers[v].num
        BY <4>3
      <4> QED BY <2>1, <4>2, <4>3, <4>4 DEF Chosen, VersionsOf
    <3> QED BY <3>1, <3>2
  <2>3. \A r \in Procs \ {p} : Chosen(r)'
    BY <2>1, ChosenStays DEF ChosenInv, OthersStay
  <2> QED BY <1>1, <2>2, <2>3 DEF ChosenInv
<1>6. CASE Crash
  BY <1>2, <1>6 DEF Crash, data, vers_
<1>7. CASE (\E i \in DOMAIN bin : Expire(i)) \/ UNCHANGED vars
  BY <1>2, <1>7 DEF Expire, vars, vers_
<1> QED BY <1>3, <1>4, <1>5, <1>6, <1>7 DEF Next

LEMMA ChosenInitially == Init => ChosenInv
  BY DEF Init, ChosenInv, RequestersWork, AtWork, Chosen

\* PrunesOldestFirst: of one request at a time, whatever fails and wherever the process
\* dies, the version a pruning deletes is the oldest its file has.
THEOREM OldestArePruned == ASSUME OneAtATime PROVE Spec => PrunesOldestFirst
<1>1. Inv /\ ChosenInv /\ [Next]_vars => ChosenInv'
  BY ChosenStep DEF Inv
<1>2. ChosenInv /\ [Next]_vars =>
          [\A p \in Procs :
               pc[p] = "pr_row" /\ vers' # vers =>
                   \A v \in VersionsOf(loc[p].fid) : vers[v].num >= loc[p].snap.num]_vars
  BY DEF ChosenInv, Chosen
<1> QED BY <1>1, <1>2, ChosenInitially, StorageInvariant, PTL DEF Spec, PrunesOldestFirst

------------------------------------------------------------------------------
(* What a restore of a version can be undone with.                          *)

\* Where the steps of a snapshot and its pruning lead, and what leads there.
LEMMA IntoPruning ==
    ASSUME TypeInv, NEW p \in Procs, Calls(p) \/ Steps(p), ~ SvRow(p),
           ~ PrCount(p), ~ PrOldest(p), ~ PrBlob(p), ~ PrRow(p)
    PROVE  pc'[p] \notin Pruning \cup {"rv_copy"}
<1> USE DEF Pruning
<1>1. pc \in [Procs -> Labels]
  BY LocalTypes DEF TypeInv, LocalsInv, ProcsOK
<1>2. ASSUME NEW l, l \notin Pruning \cup {"rv_copy"}, Goto(p, l)
      PROVE  pc'[p] \notin Pruning \cup {"rv_copy"}
  BY <1>1, <1>2 DEF Goto
<1>3. ASSUME Return(p) \/ Fail(p) \/ SvFail(p)
      PROVE  pc'[p] \notin Pruning \cup {"rv_copy"}
  BY <1>1, <1>2, <1>3 DEF Return, Fail, SvFail
<1>4. CASE Calls(p)
  BY <1>2, <1>4
     DEF Calls, Upload, Delete, RecycleCalls, Restore, PermanentlyDelete, EmptyTrash,
         CleanupExpired, VersionCalls, RestoreVersion, DeleteVersion, Call
<1>5. CASE \/ UpList(p) \/ UpWrite(p) \/ UpQuota(p) \/ UpRename(p) \/ UpRow(p)
           \/ UpCharge(p) \/ DeGet(p) \/ DeCharge(p)
  BY <1>2, <1>3, <1>5 DEF UpList, UpWrite, UpQuota, UpRename, UpRow, UpCharge, DeGet,
                          DeCharge, Attempt, OrFault
<1>6. CASE RecycleSteps(p)
  BY <1>1, <1>2, <1>3, <1>6
     DEF RecycleSteps, TrGet, TrRename, TrItem, TrUndo, TrRow,
         ReGet, ReRename, ReRow, ReUndo, ReItem, ReCharge, PdGet, PdBlob, PdRow,
         EtList, EtBlob, EtRows, CuList, CuBlob, CuRows, ListPurge, PurgeBlob, PurgeRows,
         Attempt, OrFault
<1>7. CASE VersionSteps(p)
  BY <1>2, <1>3, <1>7
     DEF VersionSteps, SvNum, SvCopy, RvFile, RvVer, RvExists, RvCopy, RvRow,
         DvFile, DvGet, DvBlob, DvRow, Attempt, OrFault
<1> QED BY <1>4, <1>5, <1>6, <1>7 DEF Steps

SavedHere(p) == Copied(p) /\ Saved(p) /\ Crowded(p)

\* A goroutine that stays, where the versions and the paths that are not in the
\* trash stay.
LEMMA SavedStays ==
    ASSUME LocalsInv, TablesOK, NEW p \in Procs, SavedHere(p), vers' = vers,
           \A q \in DOMAIN store : q.kind # "trash" => q \in DOMAIN store' /\ store'[q] = store[q],
           pc'[p] = pc[p], loc'[p] = loc[p]
    PROVE  SavedHere(p)'
<1>1. ASSUME NEW q, NEW r, q.kind # "trash", r.kind # "trash", Same(q, r) PROVE Same(q, r)'
  BY <1>1 DEF Same
<1>2. loc[p].g.path.kind # "trash" /\ loc[p].snap.path.kind # "trash"
  BY LocalTypes, RowTypes, VersionTypes, KindsOK DEF LocalsInv
<1>3. \A v \in DOMAIN vers : vers[v].path.kind # "trash"
  BY VersionTypes, KindsOK DEF TablesOK
<1>4. Copied(p)'
  BY <1>1, <1>2 DEF Copied, SavedHere
<1>5. Saved(p)'
  <2>1. \A f : Newest(f)' = Newest(f) /\ Newest(f) \subseteq DOMAIN vers
    BY DEF Newest, VersionsOf
  <2>2. \A v \in DOMAIN vers : Same(vers[v].path, loc[p].g.path) => Same(vers[v].path, loc[p].g.path)'
    BY <1>1, <1>2, <1>3
  <2> QED BY <2>1, <2>2 DEF Saved, SavedHere
<1>6. Crowded(p)'
  BY DEF Crowded, SavedHere, VersionsOf
<1> QED BY <1>4, <1>5, <1>6 DEF SavedHere

\* The request that has just inserted a snapshot.
LEMMA SavedByRow ==
    ASSUME MaxFaults = 0, TypeInv, NEW p \in Procs, SavedHere(p), Saves(p), SvRow(p)
    PROVE  SavedHere(p)'
<1>1. /\ pc \in [Procs -> Labels] /\ loc \in [Procs -> Locals] /\ ~ (faults < MaxFaults)
      /\ pc[p] = "sv_row" /\ loc[p].ret \in {"none", "up_write", "rv_copy"}
  BY NoFaults, LocalTypes DEF TypeInv, LocalsInv, ProcsOK, SvRow
<1>2. CASE SvFail(p)
  <2>1. pc'[p] \in {"idle", "up_write"}
    BY <1>1, <1>2 DEF SvFail, Return, Goto
  <2> QED BY <2>1 DEF SavedHere, Copied, Saved, Crowded, Pruning
<1>3. CASE ~ SvFail(p)
  <2> PICK n : n = nextVer
    OBVIOUS
  <2>1. /\ vers' = Insert(vers, n, loc[p].snap) /\ Goto(p, "pr_count")
        /\ UNCHANGED <<store, loc>>
    BY <1>1, <1>3 DEF SvRow, SvUndo, OrFault
  <2>2. n \notin DOMAIN vers
    BY DEF TypeInv, TablesOK
  <2>3. /\ DOMAIN vers' = DOMAIN vers \cup {n}
        /\ vers'[n] = loc[p].snap
        /\ \A v \in DOMAIN vers : vers'[v] = vers[v]
    BY <2>1, <2>2 DEF Insert
  <2>4. /\ loc[p].snap.fid = loc[p].fid
        /\ \A v \in DOMAIN vers : vers[v].fid = loc[p].fid => vers[v].num < loc[p].snap.num
    BY <1>1 DEF Saves, VersionsOf
  <2>5. loc[p].snap.num \in Nat /\ \A v \in DOMAIN vers : vers[v].num \in Nat
    BY LocalTypes, VersionTypes DEF TypeInv, LocalsInv, TablesOK
  <2>6. n \in Newest(loc[p].fid)'
    <3>1. n \in VersionsOf(loc[p].fid)'
      BY <2>1, <2>3, <2>4 DEF VersionsOf
    <3>2. ASSUME NEW x \in VersionsOf(loc[p].fid)' PROVE vers'[n].num >= vers'[x].num
      <4>1. CASE x = n
        BY <2>3, <2>5, <4>1
      <4>2. CASE x # n
        <5>1. x \in DOMAIN vers /\ vers[x].fid = loc[p].fid /\ vers'[x] = vers[x]
          BY <2>1, <2>3, <4>2 DEF VersionsOf
        <5> QED BY <2>3, <2>4, <2>5, <5>1
      <4> QED BY <4>1, <4>2
    <3> QED BY <2>1, <3>1, <3>2 DEF Newest
  <2>7. Same(vers[n].path, loc[p].g.path)'
    BY <1>1, <2>1, <2>3 DEF SavedHere, Copied, Same
  <2>8. pc'[p] = "pr_count"
    BY <1>1, <2>1 DEF Goto
  <2> QED BY <2>1, <2>6, <2>7, <2>8 DEF SavedHere, Copied, Saved, Crowded
<1> QED BY <1>2, <1>3

\* The choice of the oldest does not fall on the newest while there are two.
LEMMA OldestIsOther ==
    ASSUME TablesOK, NumbersApart, NEW f, Cardinality(VersionsOf(f)) > MaxVersions,
           NEW v \in Newest(f), NEW w \in Oldest(f)
    PROVE  v # w
<1> SUFFICES ASSUME v = w PROVE FALSE
  OBVIOUS
<1>1. v \in VersionsOf(f) /\ \A x \in VersionsOf(f) : vers[v].num >= vers[x].num /\ vers[v].num <= vers[x].num
  BY DEF Newest, Oldest
<1>2. \A x \in VersionsOf(f) : x \in DOMAIN vers /\ vers[x].fid = f /\ vers[x].num \in Nat
  BY VersionTypes DEF TablesOK, VersionsOf
<1>3. \A x \in VersionsOf(f) : vers[v].num = vers[x].num
  BY <1>1, <1>2
<1>4. \A x \in VersionsOf(f) : x = v
  BY <1>1, <1>2, <1>3 DEF NumbersApart
<1>5. VersionsOf(f) = {v}
  BY <1>1, <1>4
<1>6. Cardinality({v}) = 1
  BY FS_Singleton
<1>7. MaxVersions \in Nat \ {0}
  BY FileStoreAssumption
<1>8. ~ (Cardinality({v}) > MaxVersions)
  BY <1>6, <1>7
<1> QED BY <1>5, <1>8

\* One step of the loop of pruneOldest.
LEMMA SavedByPrune ==
    ASSUME MaxFaults = 0, TypeInv, NumberInv, NEW p \in Procs, SavedHere(p), Chosen(p),
           PrCount(p) \/ PrOldest(p) \/ PrBlob(p) \/ PrRow(p)
    PROVE  SavedHere(p)'
<1>1. /\ pc \in [Procs -> Labels] /\ loc \in [Procs -> Locals] /\ ~ (faults < MaxFaults)
      /\ loc[p].ret \in {"none", "up_write", "rv_copy"} /\ pc[p] \in Pruning
  BY NoFaults, LocalTypes DEF TypeInv, LocalsInv, ProcsOK, PrCount, PrOldest, PrBlob, PrRow, Pruning
<1>2. loc[p] \in Locals /\ LocalsInv /\ TablesOK
  BY <1>1 DEF TypeInv
<1>3. ASSUME UNCHANGED <<vers, store, loc>>,
             pc'[p] \in Pruning \cup {"rv_copy"} =>
                 /\ pc'[p] = "rv_copy" => loc[p].ret = "rv_copy"
                 /\ pc'[p] # "pr_blob" /\ (pc'[p] = "pr_row" => pc[p] = "pr_blob"),
             pc'[p] # "sv_row", Crowded(p)'
      PROVE  SavedHere(p)'
  <2>1. Copied(p)'
    BY <1>3 DEF Copied
  <2>2. Saved(p)'
    BY <1>1, <1>3 DEF Saved, SavedHere, Newest, VersionsOf, Same
  <2> QED BY <1>3, <2>1, <2>2 DEF SavedHere
<1>4. ASSUME PruneDone(p), UNCHANGED <<vers, store>> PROVE SavedHere(p)'
  <2>1. pc'[p] = loc[p].ret /\ UNCHANGED loc
    BY <1>1, <1>4 DEF PruneDone, Goto
  <2>2. Crowded(p)'
    BY <1>1, <2>1 DEF Crowded
  <2> QED BY <1>1, <1>3, <1>4, <2>1, <2>2 DEF Pruning
<1>5. CASE PrCount(p)
  <2>1. UNCHANGED <<vers, store>>
    BY <1>5 DEF PrCount, data, vers_, store_
  <2>2. CASE ~ PruneDone(p)
    <3>1. /\ ~ (Cardinality(VersionsOf(loc[p].fid)) <= MaxVersions)
          /\ pc'[p] = "pr_oldest" /\ UNCHANGED loc
      BY <1>1, <1>5, <2>2 DEF PrCount, OrFault, Goto
    <3>2. Cardinality(VersionsOf(loc[p].fid)) \in Nat /\ MaxVersions \in Nat
      BY <1>2, FewerVersions, FileStoreAssumption
    <3>3. Cardinality(VersionsOf(loc[p].fid)) > MaxVersions
      BY <3>1, <3>2
    <3>4. Crowded(p)'
      BY <2>1, <3>1, <3>3 DEF Crowded, VersionsOf
    <3> QED BY <1>3, <2>1, <3>1, <3>4
  <2> QED BY <1>4, <2>1, <2>2
<1>6. CASE PrOldest(p)
  <2>1. UNCHANGED <<vers, store>> /\ pc[p] = "pr_oldest"
    BY <1>6 DEF PrOldest, data, vers_, store_
  <2>2. CASE ~ PruneDone(p)
    <3>1. PICK w \in Oldest(loc[p].fid) : /\ loc' = [loc EXCEPT ![p].old = w, ![p].snap = vers[w]]
                                          /\ Goto(p, "pr_blob")
      BY <1>6, <2>2 DEF PrOldest, OrFault
    <3>2. /\ loc'[p].fid = loc[p].fid /\ loc'[p].old = w /\ loc'[p].ret = loc[p].ret
          /\ loc'[p].g = loc[p].g /\ pc'[p] = "pr_blob"
      BY <1>1, <1>2, <3>1 DEF Locals, Goto
    <3>3. Cardinality(VersionsOf(loc[p].fid)) > MaxVersions
      BY <2>1 DEF SavedHere, Crowded
    <3>4. \A v \in Newest(loc[p].fid) : v # w
      BY <1>2, <3>3, OldestIsOther DEF NumberInv
    <3>5. Saved(p)'
      <4> SUFFICES ASSUME loc[p].ret = "rv_copy"
                   PROVE  \E v \in Newest(loc[p].fid)' : Same(vers[v].path, loc[p].g.path)' /\ v # w
        BY <3>2 DEF Saved
      <4>1. PICK v \in Newest(loc[p].fid) : Same(vers[v].path, loc[p].g.path)
        BY <1>1 DEF SavedHere, Saved
      <4>2. v # w
        BY <3>4
      <4>3. v \in Newest(loc[p].fid)'
        BY <2>1, <3>2 DEF Newest, VersionsOf
      <4>4. Same(vers[v].path, loc[p].g.path)'
        BY <2>1, <3>2, <4>1 DEF Same
      <4> QED BY <4>2, <4>3, <4>4
    <3> QED BY <3>2, <3>5 DEF SavedHere, Copied, Crowded
  <2> QED BY <1>4, <2>1, <2>2
<1>7. CASE PrBlob(p)
  <2>1. /\ pc[p] = "pr_blob" /\ pc'[p] = "pr_row" /\ UNCHANGED <<vers, loc>>
        /\ store' = Remove(store, {loc[p].snap.path})
    BY <1>1, <1>7 DEF PrBlob, OrFault, Erase, Goto, vers_
  <2>2. /\ loc[p].old \in VersionsOf(loc[p].fid) /\ vers[loc[p].old] = loc[p].snap
    BY <2>1 DEF Chosen
  <2>3. Saved(p)'
    <3> SUFFICES ASSUME loc[p].ret = "rv_copy"
                 PROVE  \E v \in Newest(loc[p].fid)' :
                            Same(vers[v].path, loc[p].g.path)' /\ v # loc[p].old
      BY <2>1 DEF Saved
    <3>1. PICK v \in Newest(loc[p].fid) : Same(vers[v].path, loc[p].g.path) /\ v # loc[p].old
      BY <1>1, <2>1 DEF SavedHere, Saved
    <3>2. v \in DOMAIN vers /\ vers[v].fid = loc[p].fid
      BY DEF Newest, VersionsOf
    <3>3. loc[p].old \in DOMAIN vers /\ vers[loc[p].old].fid = loc[p].fid
      BY <2>2 DEF VersionsOf
    <3>4. vers[v].path.num # loc[p].snap.path.num
      BY <2>2, <3>1, <3>2, <3>3 DEF NumberInv, Numbered, NumbersApart
    <3>5. loc[p].g.path.kind = "home" /\ loc[p].snap.path.kind = "snap"
      BY <1>2, LocalTypes, RowTypes, VersionTypes, KindsOK DEF LocalsInv
    <3>6. vers[v].path # loc[p].snap.path /\ loc[p].g.path # loc[p].snap.path
      BY <3>4, <3>5
    <3>7. Same(vers[v].path, loc[p].g.path)'
      BY <2>1, <3>1, <3>6 DEF Same, Remove
    <3>8. v \in Newest(loc[p].fid)'
      BY <2>1 DEF Newest, VersionsOf
    <3> QED BY <3>1, <3>7, <3>8
  <2> QED BY <2>1, <2>3 DEF SavedHere, Copied, Crowded
<1>8. CASE PrRow(p)
  <2>1. /\ pc[p] = "pr_row" /\ pc'[p] = "pr_count" /\ UNCHANGED <<store, loc>>
        /\ vers' = Remove(vers, {loc[p].old})
    BY <1>1, <1>8 DEF PrRow, OrFault, Goto, store_
  <2>2. /\ DOMAIN vers' = DOMAIN vers \ {loc[p].old}
        /\ \A v \in DOMAIN vers' : vers'[v] = vers[v]
    BY <2>1 DEF Remove
  <2>3. Saved(p)'
    <3> SUFFICES ASSUME loc[p].ret = "rv_copy"
                 PROVE  \E v \in Newest(loc[p].fid)' : Same(vers[v].path, loc[p].g.path)'
      BY <2>1 DEF Saved
    <3>1. PICK v \in Newest(loc[p].fid) : Same(vers[v].path, loc[p].g.path) /\ v # loc[p].old
      BY <1>1, <2>1 DEF SavedHere, Saved
    <3>2. v \in Newest(loc[p].fid)'
      BY <2>1, <2>2, <3>1 DEF Newest, VersionsOf
    <3>3. vers'[v] = vers[v]
      BY <2>2, <3>2 DEF Newest, VersionsOf
    <3> QED BY <2>1, <3>1, <3>2, <3>3 DEF Same
  <2> QED BY <2>1, <2>3 DEF SavedHere, Copied, Crowded
<1> QED BY <1>5, <1>6, <1>7, <1>8

LEMMA SavedStep ==
    ASSUME OneAtATime, MaxFaults = 0, TypeInv, SavedInv, [Next]_vars
    PROVE  SavedInv'
<1>1. /\ pc \in [Procs -> Labels] /\ loc \in [Procs -> Locals] /\ ~ (faults < MaxFaults)
      /\ LocalsInv /\ TablesOK
  BY NoFaults DEF TypeInv, LocalsInv, ProcsOK
<1>2. NumberInv' /\ ChosenInv'
  BY NumberStep, ChosenStep DEF SavedInv
<1>3. RequestersWork /\ \A r \in Procs : SavedHere(r) /\ Saves(r) /\ Chosen(r)
  BY DEF SavedInv, NumberInv, ChosenInv, SavedHere
<1>4. ASSUME \A r \in Procs : SavedHere(r)' PROVE SavedInv'
  BY <1>2, <1>4 DEF SavedInv, SavedHere
<1>5. ASSUME NEW r \in Procs, pc'[r] \notin Pruning \cup {"rv_copy", "sv_row"} PROVE SavedHere(r)'
  BY <1>5 DEF SavedHere, Copied, Saved, Crowded, Pruning
<1>6. ASSUME NEW p \in Procs, Calls(p) \/ Steps(p), ~ AtWork(p) PROVE SavedInv'
  <2>1. OthersStay(p) /\ vers' = vers
    BY <1>6, OneMoves, CleanupTouches DEF vers_, TypeInv
  <2>2. \A q \in DOMAIN store : q.kind # "trash" => q \in DOMAIN store' /\ store'[q] = store[q]
    <3>1. UNCHANGED store \/ \E q : q.kind = "trash" /\ store' = Remove(store, {q})
      BY <1>6, CleanupTouches
    <3> QED BY <3>1 DEF Remove
  <2>3. pc'[p] \notin Pruning \cup {"rv_copy", "sv_row"}
    <3>1. ~ SvRow(p) /\ ~ SvCopy(p) /\ ~ SvNum(p) /\ ~ PrCount(p) /\ ~ PrOldest(p) /\ ~ PrBlob(p) /\ ~ PrRow(p)
      BY <1>6 DEF AtWork, SvRow, SvCopy, SvNum, PrCount, PrOldest, PrBlob, PrRow
    <3> QED BY <1>6, <3>1, IntoPruning, IntoSave
  <2>4. \A r \in Procs \ {p} : SavedHere(r)'
    BY <1>1, <1>3, <2>1, <2>2, SavedStays DEF OthersStay
  <2> QED BY <1>4, <1>5, <2>3, <2>4
<1>7. ASSUME NEW p \in Procs, Calls(p) \/ Steps(p), AtWork(p), SavedHere(p)' PROVE SavedInv'
  <2>1. \A r \in Procs \ {p} : pc'[r] \notin Pruning \cup {"rv_copy", "sv_row"}
    <3>1. OthersStay(p)
      BY <1>7, OneMoves
    <3>2. \A r \in Procs \ {p} : ~ AtWork(r)
      BY <1>3, <1>7, OthersRest
    <3> QED BY <3>1, <3>2 DEF OthersStay, AtWork, Pruning
  <2> QED BY <1>4, <1>5, <1>7, <2>1
<1>8. ASSUME NEW p \in Procs, SvCopy(p) PROVE SavedHere(p)'
  <2>1. CASE SvFail(p)
    <3>1. pc'[p] \in {"idle", "up_write"}
      BY <1>1, <2>1 DEF SvFail, Return, Goto
    <3> QED BY <1>5, <3>1 DEF Pruning
  <2>2. CASE ~ SvFail(p)
    <3>1. /\ loc[p].g.path \in DOMAIN store /\ pc'[p] = "sv_row" /\ UNCHANGED loc
          /\ store' = Insert(store, loc[p].snap.path, store[loc[p].g.path])
      BY <1>1, <1>8, <2>2 DEF SvCopy, OrFault, Goto
    <3>2. loc[p].g.path.kind = "home" /\ loc[p].snap.path.kind = "snap"
      BY <1>1, LocalTypes, RowTypes, VersionTypes, KindsOK DEF LocalsInv
    <3>3. loc[p].g.path # loc[p].snap.path
      BY <3>2
    <3>4. Same(loc[p].snap.path, loc[p].g.path)'
      BY <3>1, <3>3 DEF Same, Insert
    <3> QED BY <3>1, <3>4 DEF SavedHere, Copied, Saved, Crowded, Pruning
  <2> QED BY <2>1, <2>2
<1>9. ASSUME NEW p \in Procs, Calls(p) \/ Steps(p), AtWork(p) PROVE SavedInv'
  <2>1. CASE SvCopy(p)
    BY <1>7, <1>8, <1>9, <2>1
  <2>2. CASE SvRow(p)
    BY <1>3, <1>7, <1>9, <2>2, SavedByRow
  <2>3. CASE PrCount(p) \/ PrOldest(p) \/ PrBlob(p) \/ PrRow(p)
    BY <1>3, <1>7, <1>9, <2>3, SavedByPrune DEF SavedInv
  <2>4. CASE /\ ~ SvCopy(p) /\ ~ SvRow(p)
             /\ ~ PrCount(p) /\ ~ PrOldest(p) /\ ~ PrBlob(p) /\ ~ PrRow(p)
    <3>1. pc'[p] # "sv_row"
      <4>1. CASE SvNum(p)
        BY <1>1, <4>1 DEF SvNum, Goto
      <4> QED BY <1>9, <2>4, <4>1, IntoSave
    <3>2. pc'[p] \notin Pruning \cup {"rv_copy"}
      BY <1>9, <2>4, IntoPruning
    <3> QED BY <1>5, <1>7, <1>9, <3>1, <3>2
  <2> QED BY <2>1, <2>2, <2>3, <2>4
<1>10. CASE Crash
  <2>1. \A r \in Procs : pc'[r] \notin Pruning \cup {"rv_copy", "sv_row"}
    BY <1>10 DEF Crash, Pruning
  <2> QED BY <1>4, <1>5, <2>1
<1>11. CASE (\E i \in DOMAIN bin : Expire(i)) \/ UNCHANGED vars
  <2>1. UNCHANGED <<vers, store, pc, loc>>
    BY <1>11 DEF Expire, vars, vers_, store_
  <2>2. \A r \in Procs : SavedHere(r)'
    BY <1>1, <1>3, <2>1, SavedStays
  <2> QED BY <1>4, <2>2
<1> QED BY <1>6, <1>9, <1>10, <1>11 DEF Next

LEMMA SavedInitially == Init => SavedInv
  BY NumberInitially, ChosenInitially DEF Init, SavedInv, Copied, Saved, Crowded, Pruning

\* RestoreCanBeUndone: of one request at a time, wherever the process dies, a restore
\* writes over bytes that a version of the file still holds after its pruning.
THEOREM RestoresCanBeUndone ==
    ASSUME OneAtATime, MaxFaults = 0 PROVE Spec => RestoreCanBeUndone
<1>1. Inv /\ SavedInv /\ [Next]_vars => SavedInv'
  BY SavedStep DEF Inv
<1>2. SavedInv /\ [Next]_vars =>
          [\A p \in Procs :
               pc[p] = "rv_copy" /\ pc'[p] = "rv_row" =>
                   \E v \in VersionsOf(loc[p].fid) :
                       /\ vers[v].path \in DOMAIN store
                       /\ store[vers[v].path] = store[loc[p].g.path]]_vars
  BY DEF SavedInv, Saved, Newest, Same
<1> QED BY <1>1, <1>2, SavedInitially, StorageInvariant, PTL DEF Spec, RestoreCanBeUndone

------------------------------------------------------------------------------
(* The bytes of versions.                                                   *)

\* Snapshots are deleted by three steps only.
LEMMA SnapsStay ==
    ASSUME TypeInv, NEW p \in Procs, Calls(p) \/ Steps(p), ~ SvRow(p), ~ PrBlob(p), ~ DvBlob(p)
    PROVE  \A q \in DOMAIN store : q.kind = "snap" => q \in DOMAIN store'
<1> DEFINE l == loc[p]
           Stays == \A q \in DOMAIN store : q.kind = "snap" => q \in DOMAIN store'
<1>1. /\ l \in Locals /\ l.f \in FileRow /\ l.it \in Item /\ l.todo \subseteq PathOf({"trash"})
      /\ l.user \in Users /\ l.fid \in Nat
  BY LocalTypes DEF TypeInv, LocalsInv
<1>2. /\ l.f.path.kind # "snap" /\ l.it.orig.kind # "snap" /\ l.it.slot.kind # "snap"
      /\ \A q \in l.todo : q.kind # "snap"
  BY <1>1, RowTypes, ItemTypes, KindsOK
<1>3. SlotOf(l).kind # "snap" /\ Tmp(l.f.owner, l.f.name).kind # "snap"
  BY DEF SlotOf, TrashSlot, Tmp, Home
<1>4. ASSUME \/ UNCHANGED store
             \/ \E qs : store' = Remove(store, qs) /\ \A q \in qs : q.kind # "snap"
             \/ \E q, b : store' = Insert(store, q, b)
             \/ \E q, r : store' = Renamed(q, r) /\ q.kind # "snap"
      PROVE  Stays
  <2>1. ASSUME NEW qs, store' = Remove(store, qs), \A q \in qs : q.kind # "snap" PROVE Stays
    BY <2>1 DEF Remove
  <2>2. ASSUME NEW q, NEW b, store' = Insert(store, q, b) PROVE Stays
    BY <2>2 DEF Insert
  <2>3. ASSUME NEW q, NEW r, store' = Renamed(q, r), q.kind # "snap" PROVE Stays
    BY <2>3 DEF Renamed, Insert, Remove
  <2> QED BY <1>4, <2>1, <2>2, <2>3
<1> SUFFICES Stays
  OBVIOUS
<1> HIDE DEF Stays, l
<1>5. CASE Calls(p)
  BY <1>4, <1>5, CallsAtRest DEF data, store_
<1>6. CASE \/ UpList(p) \/ UpWrite(p) \/ UpQuota(p) \/ UpRename(p) \/ UpRow(p) \/ UpCharge(p)
           \/ DeGet(p) \/ DeCharge(p)
  <2>1. CASE UpList(p) \/ UpRow(p) \/ UpCharge(p) \/ DeGet(p) \/ DeCharge(p)
    BY <1>4, <2>1 DEF UpList, UpRow, UpCharge, DeGet, DeCharge, Attempt, OrFault, Fail, data, store_
  <2>2. CASE UpWrite(p) \/ UpQuota(p) \/ UpRename(p)
    <3> DEFINE tmp == Tmp(l.f.owner, l.f.name)
    <3>1. \/ UNCHANGED store \/ store' = Remove(store, {tmp})
          \/ \E q, b : store' = Insert(store, q, b)
          \/ store' = Renamed(tmp, l.f.path)
      BY <2>2 DEF UpWrite, UpQuota, UpRename, OrFault, DropTmp, l
    <3>2. tmp.kind # "snap"
      BY <1>3
    <3> HIDE DEF tmp
    <3> QED BY <1>4, <3>1, <3>2
  <2> QED BY <1>6, <2>1, <2>2
<1>7. CASE RecycleSteps(p)
  <2>1. CASE \/ TrGet(p) \/ TrItem(p) \/ TrRow(p) \/ ReGet(p) \/ ReRow(p) \/ ReItem(p)
             \/ ReCharge(p) \/ PdGet(p) \/ PdRow(p) \/ EtList(p) \/ EtRows(p) \/ CuList(p)
             \/ CuRows(p)
    BY <1>4, <2>1 DEF TrGet, TrItem, TrRow, ReGet, ReRow, ReItem, ReCharge, PdGet, PdRow, EtList,
                EtRows, CuList, CuRows, ListPurge, PurgeRows, Attempt, OrFault, Fail, data, store_
  <2>2. CASE TrRename(p) \/ TrUndo(p)
    <3>1. UNCHANGED store \/ \E r : store' = Renamed(l.f.path, r) \/ store' = Renamed(SlotOf(l), r)
      BY <2>2 DEF TrRename, TrUndo, Attempt, OrFault, Fail, data, store_, l
    <3> QED BY <1>2, <1>3, <1>4, <3>1
  <2>3. CASE ReRename(p) \/ ReUndo(p)
    <3>1. UNCHANGED store \/ \E r : store' = Renamed(l.it.orig, r) \/ store' = Renamed(l.it.slot, r)
      BY <2>3 DEF ReRename, ReUndo, Attempt, OrFault, Fail, data, store_, l
    <3> QED BY <1>2, <1>4, <3>1
  <2>4. CASE PdBlob(p)
    <3>1. UNCHANGED store \/ store' = Remove(store, {l.it.slot})
      BY <2>4 DEF PdBlob, Erase, OrFault, Fail, data, store_, l
    <3> QED BY <1>2, <1>4, <3>1
  <2>5. CASE EtBlob(p) \/ CuBlob(p)
    <3>1. UNCHANGED store \/ \E q \in l.todo : store' = Remove(store, {q})
      BY <2>5 DEF EtBlob, CuBlob, PurgeBlob, Erase, OrFault, store_, l
    <3>2. ASSUME NEW q \in l.todo, store' = Remove(store, {q}) PROVE Stays
      <4>1. \A r \in {q} : r.kind # "snap"
        BY <1>2
      <4> QED BY <1>4, <3>2, <4>1
    <3>3. CASE UNCHANGED store
      BY <1>4, <3>3
    <3> QED BY <3>1, <3>2, <3>3
  <2> QED BY <1>7, <2>1, <2>2, <2>3, <2>4, <2>5 DEF RecycleSteps
<1>8. CASE VersionSteps(p)
  <2>1. CASE \/ SvNum(p) \/ PrCount(p) \/ PrOldest(p) \/ PrRow(p) \/ RvFile(p) \/ RvVer(p)
             \/ RvExists(p) \/ RvRow(p) \/ DvFile(p) \/ DvGet(p) \/ DvRow(p)
    BY <1>4, <2>1 DEF SvNum, PrCount, PrOldest, PrRow, RvFile, RvVer, RvExists, RvRow, DvFile,
                DvGet, DvRow, Attempt, OrFault, Fail, data, store_
  <2>2. CASE SvCopy(p) \/ RvCopy(p)
    <3>1. UNCHANGED store \/ \E q, b : store' = Insert(store, q, b)
      BY <2>2 DEF SvCopy, RvCopy, OrFault
    <3> QED BY <1>4, <3>1
  <2> QED BY <1>8, <2>1, <2>2 DEF VersionSteps
<1> QED BY <1>5, <1>6, <1>7, <1>8 DEF Steps

\* Only the reading of a version leads to its deletion.
LEMMA IntoDelete ==
    ASSUME TypeInv, NEW p \in Procs, Calls(p) \/ Steps(p), ~ DvGet(p), ~ DvBlob(p)
    PROVE  pc'[p] \notin {"dv_blob", "dv_row"}
<1>1. pc \in [Procs -> Labels] /\ loc[p].ret \in {"none", "up_write", "rv_copy"}
  BY LocalTypes DEF TypeInv, LocalsInv, ProcsOK
<1>2. ASSUME NEW l, l \notin {"dv_blob", "dv_row"}, Goto(p, l)
      PROVE  pc'[p] \notin {"dv_blob", "dv_row"}
  BY <1>1, <1>2 DEF Goto
<1>3. ASSUME Return(p) \/ Fail(p) \/ SvFail(p) \/ PruneDone(p)
      PROVE  pc'[p] \notin {"dv_blob", "dv_row"}
  BY <1>1, <1>2, <1>3 DEF Return, Fail, SvFail, PruneDone
<1>4. CASE Calls(p)
  BY <1>2, <1>4
     DEF Calls, Upload, Delete, RecycleCalls, Restore, PermanentlyDelete, EmptyTrash,
         CleanupExpired, VersionCalls, RestoreVersion, DeleteVersion, Call
<1>5. CASE \/ UpList(p) \/ UpWrite(p) \/ UpQuota(p) \/ UpRename(p) \/ UpRow(p)
           \/ UpCharge(p) \/ DeGet(p) \/ DeCharge(p)
  BY <1>2, <1>3, <1>5 DEF UpList, UpWrite, UpQuota, UpRename, UpRow, UpCharge, DeGet,
                          DeCharge, Attempt, OrFault
<1>6. CASE RecycleSteps(p)
  BY <1>1, <1>2, <1>3, <1>6
     DEF RecycleSteps, TrGet, TrRename, TrItem, TrUndo, TrRow,
         ReGet, ReRename, ReRow, ReUndo, ReItem, ReCharge, PdGet, PdBlob, PdRow,
         EtList, EtBlob, EtRows, CuList, CuBlob, CuRows, ListPurge, PurgeBlob, PurgeRows,
         Attempt, OrFault
<1>7. CASE VersionSteps(p)
  BY <1>2, <1>3, <1>7
     DEF VersionSteps, SvNum, SvCopy, SvRow, SvUndo, PrCount, PrOldest, PrBlob, PrRow, RvFile,
         RvVer, RvExists, RvCopy, RvRow, DvFile, DvRow, Attempt, OrFault
<1> QED BY <1>4, <1>5, <1>6, <1>7 DEF Steps

\* Two versions have two paths.
LEMMA PathsApart ==
    ASSUME Numbered, NumbersApart, NEW v \in DOMAIN vers, NEW w \in DOMAIN vers, v # w
    PROVE  vers[v].path # vers[w].path
  BY DEF Numbered, NumbersApart

\* What a request knows of the version it deletes.
LEMMA KnownStep ==
    ASSUME OneAtATime, TypeInv, RequestersWork, \A r \in Procs : Known(r),
           NEW p \in Procs, Calls(p) \/ Steps(p)
    PROVE  \A r \in Procs : Known(r)'
<1>1. pc \in [Procs -> Labels] /\ loc \in [Procs -> Locals] /\ OthersStay(p)
  BY OneMoves DEF TypeInv, LocalsInv, ProcsOK
<1>2. Known(p)'
  <2>1. CASE DvGet(p)
    <3>1. CASE Fail(p)
      BY <1>1, <3>1 DEF Fail, Return, Known
    <3>2. CASE ~ Fail(p)
      <4>1. /\ loc[p].id \in DOMAIN vers /\ UNCHANGED data
            /\ loc' = [loc EXCEPT ![p].v = vers[loc[p].id]]
        BY <2>1, <3>2 DEF DvGet, Attempt, OrFault
      <4>2. loc'[p].id = loc[p].id /\ loc'[p].v = vers[loc[p].id] /\ vers' = vers
        BY <1>1, <4>1 DEF Locals, data, vers_
      <4> QED BY <4>1, <4>2 DEF Known
    <3> QED BY <3>1, <3>2
  <2>2. CASE DvBlob(p)
    BY <2>2 DEF DvBlob, Known, vers_
  <2>3. CASE ~ DvGet(p) /\ ~ DvBlob(p)
    BY <2>3, IntoDelete DEF Known
  <2> QED BY <2>1, <2>2, <2>3
<1>3. ASSUME NEW r \in Procs \ {p} PROVE Known(r)'
  <2>1. CASE AtWork(p)
    BY <1>1, <1>3, <2>1, OthersRest DEF OthersStay, AtWork, Known
  <2>2. CASE ~ AtWork(p)
    BY <1>1, <2>2, CleanupTouches DEF OthersStay, Known, vers_
  <2> QED BY <2>1, <2>2
<1> QED BY <1>2, <1>3

LEMMA BackingStep ==
    ASSUME OneAtATime, MaxFaults = 0, TypeInv, BackingInv, NEW p \in Procs, Calls(p) \/ Steps(p)
    PROVE  Backing'
<1>1. /\ pc \in [Procs -> Labels] /\ loc \in [Procs -> Locals] /\ ~ (faults < MaxFaults)
      /\ LocalsInv /\ TablesOK /\ OthersStay(p)
  BY NoFaults, OneMoves DEF TypeInv, LocalsInv, ProcsOK
<1>2. /\ RequestersWork /\ Numbered /\ NumbersApart /\ Saves(p) /\ Chosen(p) /\ Copied(p) /\ Known(p)
      /\ Backing
  BY DEF BackingInv, SavedInv, NumberInv, ChosenInv
<1>3. \A v \in DOMAIN vers : vers[v].path.kind = "snap"
  BY <1>1, VersionTypes, KindsOK DEF TablesOK
<1>4. CASE ~ AtWork(p)
  <2>1. UNCHANGED vers /\ (UNCHANGED store \/ \E q : q.kind = "trash" /\ store' = Remove(store, {q}))
    BY <1>4, CleanupTouches DEF vers_
  <2>2. \A q \in DOMAIN store : q.kind = "snap" => q \in DOMAIN store'
    BY <2>1 DEF Remove
  <2>3. \A v : ~ Going(p, v)
    BY <1>4 DEF AtWork, Going
  <2>4. \A r \in Procs : \A v : Going(r, v) => Going(r, v)'
    BY <1>1, <2>3 DEF OthersStay, Going
  <2> QED BY <1>2, <1>3, <2>1, <2>2, <2>4 DEF Backing
<1>5. CASE AtWork(p)
  <2>1. ASSUME NEW v \in DOMAIN vers PROVE vers[v].path \in DOMAIN store \/ Going(p, v)
    <3>1. \A r \in Procs \ {p} : ~ Going(r, v)
      BY <1>2, <1>5, OthersRest DEF AtWork, Going
    <3> QED BY <1>2, <2>1, <3>1 DEF Backing
  <2>2. CASE ~ SvRow(p) /\ ~ PrBlob(p) /\ ~ PrRow(p) /\ ~ DvBlob(p) /\ ~ DvRow(p)
    <3>1. \A v : ~ Going(p, v)
      <4>1. pc[p] \notin {"pr_row", "dv_row"}
        <5>1. CASE Calls(p)
          BY <5>1, CallsAtRest
        <5>2. CASE Steps(p)
          BY <2>2, <5>2 DEF Steps, UpList, UpWrite, UpQuota, UpRename, UpRow, UpCharge, DeGet, DeCharge,
             RecycleSteps, TrGet, TrRename, TrItem, TrUndo, TrRow, ReGet, ReRename, ReRow, ReUndo,
             ReItem, ReCharge, PdGet, PdBlob, PdRow, EtList, EtBlob, EtRows, CuList, CuBlob, CuRows,
             ListPurge, PurgeBlob, PurgeRows, VersionSteps, SvNum, SvCopy, PrCount, PrOldest,
             RvFile, RvVer, RvExists, RvCopy, RvRow, DvFile, DvGet
        <5> QED BY <5>1, <5>2
      <4> QED BY <4>1 DEF Going
    <3>2. \A q \in DOMAIN store : q.kind = "snap" => q \in DOMAIN store'
      BY <2>2, SnapsStay
    <3>3. DOMAIN vers' \subseteq DOMAIN vers /\ \A v \in DOMAIN vers' : vers'[v] = vers[v]
      BY <2>2, VersionsGo
    <3> QED BY <1>3, <2>1, <3>1, <3>2, <3>3 DEF Backing
  <2>3. CASE SvRow(p)
    <3>1. pc[p] = "sv_row" /\ \A v \in DOMAIN vers : vers[v].path \in DOMAIN store
      BY <2>1, <2>3 DEF SvRow, Going
    <3>2. loc[p].snap.path \in DOMAIN store
      BY <1>2, <3>1 DEF Copied, Same
    <3>3. CASE UNCHANGED vers
      <4>1. store' = Remove(store, {loc[p].snap.path}) \/ UNCHANGED store
        BY <1>1, <2>3 DEF SvRow, SvUndo, OrFault
      <4>2. \A v \in DOMAIN vers : vers[v].path # loc[p].snap.path
        <5> SUFFICES ASSUME NEW v \in DOMAIN vers, vers[v].path = loc[p].snap.path PROVE FALSE
          OBVIOUS
        <5>1. vers[v].fid = loc[p].fid /\ vers[v].num = loc[p].snap.num
          BY <1>2, <3>1 DEF Saves, Numbered
        <5>2. vers[v].num < loc[p].snap.num
          BY <1>2, <3>1, <5>1 DEF Saves, VersionsOf
        <5>3. vers[v].num \in Nat
          BY <1>1, VersionTypes DEF TablesOK
        <5> QED BY <5>1, <5>2, <5>3
      <4>3. \A v \in DOMAIN vers : vers[v].path \in DOMAIN store'
        BY <3>1, <4>1, <4>2 DEF Remove
      <4> QED BY <3>3, <4>3 DEF Backing
    <3>4. CASE ~ UNCHANGED vers
      <4>1. vers' = Insert(vers, nextVer, loc[p].snap) /\ UNCHANGED store
        BY <1>1, <2>3, <3>4 DEF SvRow, SvUndo, OrFault, vers_
      <4>2. \A v \in DOMAIN vers' : vers'[v].path \in DOMAIN store'
        BY <3>1, <3>2, <4>1 DEF Insert
      <4> QED BY <4>2 DEF Backing
    <3> QED BY <3>3, <3>4
  <2>4. CASE PrBlob(p) \/ DvBlob(p)
    <3>1. /\ UNCHANGED <<vers, loc>> /\ pc[p] \in {"pr_blob", "dv_blob"}
          /\ pc'[p] = IF pc[p] = "pr_blob" THEN "pr_row" ELSE "dv_row"
      BY <1>1, <2>4 DEF PrBlob, DvBlob, Goto, vers_
    <3>2. \A v \in DOMAIN vers : vers[v].path \in DOMAIN store
      BY <2>1, <3>1 DEF Going
    <3>3. PICK w \in DOMAIN vers : Going(p, w)' /\ store' = Remove(store, {vers[w].path})
      <4>1. CASE PrBlob(p)
        <5>1. /\ pc[p] = "pr_blob" /\ loc[p].old \in DOMAIN vers /\ vers[loc[p].old] = loc[p].snap
              /\ store' = Remove(store, {loc[p].snap.path})
          BY <1>1, <1>2, <4>1 DEF PrBlob, OrFault, Erase, Chosen, VersionsOf
        <5>2. Going(p, loc[p].old)'
          BY <3>1, <5>1 DEF Going
        <5> QED BY <3>1, <5>1, <5>2
      <4>2. CASE DvBlob(p)
        <5>1. /\ pc[p] = "dv_blob" /\ loc[p].id \in DOMAIN vers /\ vers[loc[p].id] = loc[p].v
              /\ store' = Remove(store, {loc[p].v.path})
          BY <1>1, <1>2, <4>2 DEF DvBlob, OrFault, Erase, Known
        <5>2. Going(p, loc[p].id)'
          BY <3>1, <5>1 DEF Going
        <5> QED BY <3>1, <5>1, <5>2
      <4> QED BY <2>4, <4>1, <4>2
    <3>4. \A v \in DOMAIN vers \ {w} : vers[v].path # vers[w].path
      BY <1>2, PathsApart
    <3>5. \A v \in DOMAIN vers \ {w} : vers[v].path \in DOMAIN store'
      BY <3>2, <3>3, <3>4 DEF Remove
    <3> QED BY <3>1, <3>3, <3>5 DEF Backing
  <2>5. CASE PrRow(p) \/ DvRow(p)
    <3>1. PICK w : /\ \A v : Going(p, v) => v = w
                   /\ vers' = Remove(vers, {w}) /\ UNCHANGED store
      <4>1. CASE PrRow(p)
        BY <1>1, <4>1 DEF PrRow, OrFault, Going, store_
      <4>2. CASE DvRow(p)
        BY <1>1, <4>2 DEF DvRow, OrFault, Going, store_
      <4> QED BY <2>5, <4>1, <4>2
    <3>2. \A v \in DOMAIN vers' : v \in DOMAIN vers /\ v # w /\ vers'[v] = vers[v]
      BY <3>1 DEF Remove
    <3> QED BY <2>1, <3>1, <3>2 DEF Backing
  <2> QED BY <2>2, <2>3, <2>4, <2>5
<1> QED BY <1>4, <1>5

\* VersionsBacked: of one request at a time, where nothing fails and the process does not
\* die, every version in the list has its bytes, whatever was uploaded over, pruned,
\* restored or deleted, and whether or not the database cascades.
THEOREM VersionsKeepTheirBytes ==
    ASSUME OneAtATime, MaxFaults = 0, MaxCrashes = 0 PROVE Spec => []VersionsBacked
<1>1. Inv /\ BackingInv /\ [Next]_vars => BackingInv'
  <2> SUFFICES ASSUME Inv, BackingInv, [Next]_vars PROVE BackingInv'
    OBVIOUS
  <2>1. SavedInv' /\ TypeInv /\ RequestersWork
    BY SavedStep DEF Inv, BackingInv, SavedInv, NumberInv
  <2>2. ASSUME NEW p \in Procs, Calls(p) \/ Steps(p) PROVE Backing' /\ \A r \in Procs : Known(r)'
    BY <2>1, <2>2, BackingStep, KnownStep DEF BackingInv
  <2>3. CASE (\E i \in DOMAIN bin : Expire(i)) \/ UNCHANGED vars
    <3>1. UNCHANGED <<vers, store, pc, loc>>
      BY <2>3 DEF Expire, vars, vers_, store_
    <3>2. Backing' /\ \A r \in Procs : Known(r)'
      BY <3>1 DEF BackingInv, Backing, Going, Known
    <3> QED BY <2>1, <3>2 DEF BackingInv
  <2>4. CASE Crash
    BY <2>1, <2>4 DEF Crash, TypeInv, GhostsOK
  <2> QED BY <2>1, <2>2, <2>3, <2>4 DEF Next, BackingInv
<1>2. BackingInv => VersionsBacked
  BY DEF BackingInv, Backing, Going, VersionsBacked, Quiet
<1>3. Init => BackingInv
  BY SavedInitially DEF Init, Empty, BackingInv, Backing, Known
<1> QED BY <1>1, <1>2, <1>3, StorageInvariant, PTL DEF Spec
------------------------------------------------------------------------------
(* The bin: a row whose item is listed is gone or about to go, so that no   *)
(* two items share a slot, and what deletes a slot deletes its item next.   *)

\* An item is of a row that is gone or about to go, and no two are of one row.
ItemsApart == \A i, j \in DOMAIN bin : bin[i].fid = bin[j].fid => i = j
ItemsDoomed == \A i \in DOMAIN bin : bin[i].slot.fid = bin[i].fid /\ Doomed(bin[i].fid)

\* A deletion has its row until it drops it, and the bytes in their slot before the
\* item is listed.
Deletes(p) ==
    pc[p] \in Trashing =>
        /\ loc[p].fid \in DOMAIN files
        /\ pc[p] = "tr_item" => SlotOf(loc[p]) \in DOMAIN store

\* The item a request has read is that of the slot.
Reads(p) ==
    pc[p] \in {"pd_blob", "re_rename"} =>
        /\ Doomed(loc[p].it.slot.fid)
        /\ \A i \in DOMAIN bin : bin[i].slot = loc[p].it.slot => i = loc[p].id

\* A purge deletes the slots of items that it will drop.
Purges(p) ==
    \A q \in loc[p].todo :
        /\ Doomed(q.fid)
        /\ \A i \in DOMAIN bin : bin[i].slot = q =>
              \/ pc[p] = "et_blobs" /\ bin[i].user = loc[p].user
              \/ pc[p] = "cu_blobs" /\ bin[i].expired

Leaving(p, i) ==
    \/ pc[p] \in {"pd_row", "re_row", "re_item"} /\ loc[p].id = i
    \/ pc[p] = "et_blobs" /\ bin[i].user = loc[p].user
    \/ pc[p] = "cu_blobs" /\ bin[i].expired
Listed == \A i \in DOMAIN bin : bin[i].slot \in DOMAIN store \/ \E p \in Procs : Leaving(p, i)

BinInv ==
    /\ RequestersWork /\ ItemsApart /\ ItemsDoomed /\ Listed
    /\ \A p \in Procs : Deletes(p) /\ Reads(p) /\ Purges(p)

\* A row that is gone does not come back, and one that is about to go does.
LEMMA DoomedStays ==
    ASSUME MaxFaults = 0, TypeInv, NEW p \in Procs, Calls(p) \/ Steps(p)
    PROVE  \A f \in Nat : Doomed(f) => Doomed(f)'
<1>1. OthersStay(p) /\ ~ (faults < MaxFaults) /\ nextFile \in Nat
  BY OneMoves, NoFaults DEF TypeInv, TablesOK
<1>2. CASE TrRow(p)
  <2>1. files' = Remove(files, {loc[p].fid}) /\ nextFile' = nextFile /\ pc[p] = "tr_row"
    BY <1>1, <1>2 DEF TrRow, OrFault
  <2>2. DOMAIN files' = DOMAIN files \ {loc[p].fid}
    BY <2>1 DEF Remove
  <2>3. \A f : Dropping(f) => f = loc[p].fid \/ Dropping(f)'
    BY <1>1 DEF Dropping, OthersStay
  <2> QED BY <2>1, <2>2, <2>3 DEF Doomed
<1>3. CASE ~ TrRow(p)
  <2>1. pc[p] # "tr_row"
    <3>1. CASE Calls(p)
      BY <3>1, CallsAtRest
    <3>2. CASE Steps(p)
      BY <1>3, <3>2 DEF Steps, UpList, UpWrite, UpQuota, UpRename, UpRow, UpCharge, DeGet, DeCharge,
         RecycleSteps, TrGet, TrRename, TrItem, TrUndo, ReGet, ReRename, ReRow, ReUndo,
         ReItem, ReCharge, PdGet, PdBlob, PdRow, EtList, EtBlob, EtRows, CuList, CuBlob, CuRows,
         ListPurge, PurgeBlob, PurgeRows, VersionSteps, SvNum, SvCopy, SvRow, PrCount, PrOldest,
         PrBlob, PrRow, RvFile, RvVer, RvExists, RvCopy, RvRow, DvFile, DvGet, DvBlob, DvRow
    <3> QED BY <3>1, <3>2
  <2>2. \A f : Dropping(f) => Dropping(f)'
    BY <1>1, <2>1 DEF Dropping, OthersStay
  <2>3. \/ DOMAIN files' = DOMAIN files /\ nextFile' = nextFile
        \/ DOMAIN files' = DOMAIN files \cup {nextFile} /\ nextFile' = nextFile + 1
    <3>1. CASE Calls(p)
      BY <3>1, CallsAtRest DEF data, files_
    <3>2. CASE \/ UpList(p) \/ UpWrite(p) \/ UpQuota(p) \/ UpRename(p)
               \/ UpCharge(p) \/ DeGet(p) \/ DeCharge(p)
      BY <3>2 DEF UpList, UpWrite, UpQuota, UpRename, UpCharge, DeGet, DeCharge,
                  Attempt, OrFault, Fail, data, files_
    <3>3. CASE UpRow(p) \/ ReRow(p)
      BY <3>3 DEF UpRow, ReRow, Attempt, OrFault, Fail, Insert, data, files_
    <3>4. CASE RecycleSteps(p) /\ ~ ReRow(p)
      BY <1>3, <3>4 DEF RecycleSteps, TrGet, TrRename, TrItem, TrUndo,
                  ReGet, ReRename, ReUndo, ReItem, ReCharge, PdGet, PdBlob, PdRow,
                  EtList, EtBlob, EtRows, CuList, CuBlob, CuRows, ListPurge, PurgeBlob,
                  PurgeRows, Attempt, OrFault, Fail, data, files_
    <3>5. CASE VersionSteps(p)
      BY <3>5 DEF VersionSteps, SvNum, SvCopy, SvRow, SvUndo, PrCount, PrOldest, PrBlob, PrRow,
                  RvFile, RvVer, RvExists, RvCopy, RvRow, DvFile, DvGet, DvBlob, DvRow,
                  Attempt, OrFault, Fail, data, files_
    <3> QED BY <3>1, <3>2, <3>3, <3>4, <3>5 DEF Steps
  <2> QED BY <1>1, <2>2, <2>3 DEF Doomed
<1> QED BY <1>2, <1>3

\* A row that a deletion holds is not doomed before its last step.
LEMMA HeldRow ==
    ASSUME OneAtATime, BinInv, NEW p \in Procs, pc[p] \in Trashing \ {"tr_row"}
    PROVE  /\ ~ Doomed(loc[p].fid)
           /\ \A i \in DOMAIN bin : bin[i].fid # loc[p].fid
           /\ \A r \in Procs : \A q \in loc[r].todo : q.fid # loc[p].fid
<1>1. AtWork(p)
  BY DEF AtWork, Trashing
<1>2. \A r \in Procs \ {p} : pc[r] # "tr_row"
  BY <1>1, OthersRest DEF BinInv, AtWork
<1>3. ~ Dropping(loc[p].fid) /\ loc[p].fid \in DOMAIN files
  BY <1>2 DEF Dropping, BinInv, Deletes
<1> QED BY <1>3 DEF Doomed, BinInv, ItemsDoomed, Purges

\* The deletions of the others go on.
LEMMA DeletesStay ==
    ASSUME OneAtATime, TypeInv, BinInv, NEW p \in Procs, Calls(p) \/ Steps(p), NEW r \in Procs \ {p}
    PROVE  Deletes(r)'
<1>1. pc'[r] = pc[r] /\ loc'[r] = loc[r] /\ RequestersWork /\ Deletes(r)
  BY OneMoves DEF OthersStay, BinInv
<1>2. CASE AtWork(p)
  BY <1>1, <1>2, OthersRest DEF AtWork, Trashing, Deletes
<1>3. CASE ~ AtWork(p) /\ pc[r] \in Trashing
  <2>1. /\ files' = files
        /\ UNCHANGED store \/ \E q \in loc[p].todo : store' = Remove(store, {q})
    BY <1>3, CleanupTouches DEF files_
  <2>2. pc[r] = "tr_item" => \A q \in loc[p].todo : q # SlotOf(loc[r])
    <3> SUFFICES ASSUME pc[r] = "tr_item", NEW q \in loc[p].todo, q = SlotOf(loc[r]) PROVE FALSE
      OBVIOUS
    <3>1. q.fid = loc[r].fid
      BY DEF SlotOf, TrashSlot, Home
    <3>2. q.fid # loc[r].fid
      BY HeldRow DEF Trashing
    <3> QED BY <3>1, <3>2
  <2>3. pc[r] = "tr_item" /\ SlotOf(loc[r]) \in DOMAIN store => SlotOf(loc[r]) \in DOMAIN store'
    BY <2>1, <2>2 DEF Remove
  <2> QED BY <1>1, <1>3, <2>1, <2>3 DEF Deletes
<1>4. CASE pc[r] \notin Trashing
  BY <1>1, <1>4 DEF Deletes
<1> QED BY <1>2, <1>3, <1>4

\* What a step of p must see to.
Minded(p) ==
    /\ \A i \in DOMAIN bin' :
          /\ i \in DOMAIN bin
          /\ bin'[i].slot = bin[i].slot /\ bin'[i].fid = bin[i].fid /\ bin'[i].user = bin[i].user
          /\ bin[i].expired => bin'[i].expired
          /\ bin[i].slot \in DOMAIN store \/ Leaving(p, i) =>
                 bin[i].slot \in DOMAIN store' \/ Leaving(p, i)'
    /\ Deletes(p)' /\ Reads(p)' /\ Purges(p)'

LEMMA MindedStep ==
    ASSUME OneAtATime, MaxFaults = 0, TypeInv, BinInv, NEW p \in Procs, Calls(p) \/ Steps(p),
           Minded(p)
    PROVE  BinInv'
<1>1. RequestersWork' /\ OthersStay(p) /\ \A r \in Procs : Deletes(r)'
  BY OneMoves, WorkStays, DeletesStay DEF Minded, BinInv, Next
<1>2. \A f \in Nat : Doomed(f) => Doomed(f)'
  BY DoomedStays
<1>3. ItemsApart' /\ ItemsDoomed'
  <2>1. \A i \in DOMAIN bin : bin[i].fid \in Nat
    BY ItemTypes DEF TypeInv, TablesOK
  <2>2. ItemsApart'
    BY DEF BinInv, Minded, ItemsApart
  <2>3. ItemsDoomed'
    <3> SUFFICES ASSUME NEW i \in DOMAIN bin' PROVE (bin[i].slot.fid = bin[i].fid /\ Doomed(bin[i].fid)')
      BY DEF Minded, ItemsDoomed
    <3> QED BY <1>2, <2>1 DEF BinInv, Minded, ItemsDoomed
  <2> QED BY <2>2, <2>3
<1>4. ASSUME NEW r \in Procs \ {p} PROVE Reads(r)' /\ Purges(r)'
  <2>1. pc'[r] = pc[r] /\ loc'[r] = loc[r] /\ Reads(r) /\ Purges(r)
    BY <1>1 DEF OthersStay, BinInv
  <2>2. loc[r].it.slot.fid \in Nat /\ \A q \in loc[r].todo : q.fid \in Nat
    BY LocalTypes, ItemTypes DEF TypeInv, LocalsInv, PathOf
  <2>3. Reads(r)'
    BY <1>2, <2>1, <2>2 DEF Minded, Reads
  <2>4. \A q \in loc'[r].todo : Doomed(q.fid)'
    BY <1>2, <2>1, <2>2 DEF Purges
  <2>5. Purges(r)'
    BY <2>1, <2>4 DEF Minded, Purges
  <2> QED BY <2>3, <2>5
<1>5. Listed'
  <2> SUFFICES ASSUME NEW i \in DOMAIN bin'
               PROVE  bin'[i].slot \in DOMAIN store' \/ \E r \in Procs : Leaving(r, i)'
    BY DEF Listed
  <2>1. i \in DOMAIN bin /\ bin'[i].slot = bin[i].slot
    BY DEF Minded
  <2>2. CASE bin[i].slot \in DOMAIN store \/ Leaving(p, i)
    BY <2>1, <2>2 DEF Minded
  <2>3. ASSUME NEW r \in Procs \ {p}, Leaving(r, i) PROVE Leaving(r, i)'
    <3>1. pc'[r] = pc[r] /\ loc'[r] = loc[r]
      BY <1>1 DEF OthersStay
    <3> QED BY <2>3, <3>1 DEF Minded, Leaving
  <2> QED BY <2>1, <2>2, <2>3 DEF BinInv, Listed
<1> QED BY <1>1, <1>3, <1>4, <1>5 DEF BinInv, Minded

\* Where the items of the bin and their slots are known to a goroutine.
AtBin == Trashing \cup {"re_rename", "re_row", "re_item", "pd_blob", "pd_row",
                        "et_blobs", "cu_blobs"}

\* A step apart from the bin.
LEMMA ApartStep ==
    ASSUME NEW p \in Procs, Purges(p),
           pc[p] \notin AtBin, pc'[p] \notin AtBin,
           loc'[p].todo \subseteq loc[p].todo,
           \A q \in loc[p].todo : Doomed(q.fid)',
           UNCHANGED bin, \A i \in DOMAIN bin : bin[i].slot \in DOMAIN store => bin[i].slot \in DOMAIN store'
    PROVE  Minded(p)
<1>1. Deletes(p)' /\ Reads(p)'
  BY DEF AtBin, Deletes, Reads
<1>2. Purges(p)'
  BY DEF AtBin, Purges
<1>3. \A i : ~ Leaving(p, i)
  BY DEF AtBin, Leaving
<1> QED BY <1>1, <1>2, <1>3 DEF Minded

\* The calls and the steps of uploads and versions are such.
LEMMA OthersApart ==
    ASSUME MaxFaults = 0, TypeInv, BinInv, NEW p \in Procs,
           \/ Calls(p) \/ VersionSteps(p) \/ DeGet(p) \/ DeCharge(p)
           \/ UpList(p) \/ UpWrite(p) \/ UpQuota(p) \/ UpRename(p) \/ UpRow(p) \/ UpCharge(p)
    PROVE  Minded(p)
<1>1. /\ pc \in [Procs -> Labels] /\ loc \in [Procs -> Locals] /\ LocalsInv /\ TablesOK
      /\ loc[p].ret \in {"none", "up_write", "rv_copy"}
  BY LocalTypes DEF TypeInv, LocalsInv, ProcsOK
<1>2. pc[p] \notin AtBin
  BY CallsAtRest
     DEF AtBin, Trashing, VersionSteps, DeGet, DeCharge, UpList, UpWrite, UpQuota, UpRename, UpRow,
         UpCharge, SvNum, SvCopy, SvRow, PrCount, PrOldest, PrBlob, PrRow,
         RvFile, RvVer, RvExists, RvCopy, RvRow, DvFile, DvGet, DvBlob, DvRow
<1>3. UNCHANGED bin
  <2>1. CASE Calls(p)
    BY <2>1, CallsAtRest DEF data, bin_
  <2>2. CASE VersionSteps(p)
    BY <2>2 DEF VersionSteps, SvNum, SvCopy, SvRow, PrCount, PrOldest, PrBlob, PrRow,
                RvFile, RvVer, RvExists, RvCopy, RvRow, DvFile, DvGet, DvBlob, DvRow,
                Attempt, OrFault, Fail, data, bin_
  <2>3. CASE \/ DeGet(p) \/ DeCharge(p) \/ UpList(p) \/ UpWrite(p) \/ UpQuota(p)
             \/ UpRename(p) \/ UpRow(p) \/ UpCharge(p)
    BY <2>3 DEF DeGet, DeCharge, UpList, UpWrite, UpQuota, UpRename, UpRow, UpCharge,
                Attempt, OrFault, Fail, data, bin_
  <2> QED BY <2>1, <2>2, <2>3
<1>4. pc'[p] \notin AtBin
  <2>1. ASSUME NEW l, l \notin AtBin, Goto(p, l) PROVE pc'[p] \notin AtBin
    BY <1>1, <2>1 DEF Goto
  <2>2. ASSUME Return(p) \/ Fail(p) \/ SvFail(p) \/ PruneDone(p) PROVE pc'[p] \notin AtBin
    BY <1>1, <2>1, <2>2 DEF Return, Fail, SvFail, PruneDone, AtBin, Trashing
  <2>3. CASE Calls(p)
    BY <2>1, <2>3
       DEF Calls, Upload, Delete, RecycleCalls, Restore, PermanentlyDelete, EmptyTrash,
           CleanupExpired, VersionCalls, RestoreVersion, DeleteVersion, Call, AtBin, Trashing
  <2>4. CASE VersionSteps(p)
    BY <2>1, <2>2, <2>4
       DEF VersionSteps, SvNum, SvCopy, SvRow, SvUndo, PrCount, PrOldest, PrBlob, PrRow, RvFile,
           RvVer, RvExists, RvCopy, RvRow, DvFile, DvGet, DvBlob, DvRow, Attempt, OrFault, AtBin, Trashing
  <2>5. CASE \/ DeGet(p) \/ DeCharge(p) \/ UpList(p) \/ UpWrite(p) \/ UpQuota(p)
             \/ UpRename(p) \/ UpRow(p) \/ UpCharge(p)
    BY <2>1, <2>2, <2>5
       DEF DeGet, DeCharge, UpList, UpWrite, UpQuota, UpRename, UpRow, UpCharge,
           Attempt, OrFault, AtBin, Trashing
  <2> QED BY <2>3, <2>4, <2>5
<1>5. loc'[p].todo \subseteq loc[p].todo
  <2> DEFINE Fewer == loc'[p].todo \subseteq loc[p].todo
  <2>0. loc[p] \in Locals /\ NoLocals.todo = {}
    BY <1>1 DEF NoLocals
  <2>1. ASSUME Return(p) \/ Fail(p) PROVE Fewer
    BY <1>1, <2>0, <2>1 DEF Return, Fail
  <2>2. ASSUME UNCHANGED loc PROVE Fewer
    BY <2>2
  <2>3. ASSUME SvFail(p) \/ PruneDone(p) PROVE Fewer
    BY <1>1, <2>0, <2>1, <2>3 DEF SvFail, PruneDone, Locals
  <2>4. ASSUME NEW x, x.todo = {}, loc' = [loc EXCEPT ![p] = x] PROVE Fewer
    BY <1>1, <2>4
  <2> SUFFICES Fewer
    OBVIOUS
  <2> HIDE DEF Fewer
  <2>5. CASE Calls(p)
    <3>1. CASE CleanupExpired(p)
      BY <2>2, <3>1 DEF CleanupExpired
    <3>2. CASE ~ CleanupExpired(p)
      <4>1. \E x : x.todo = {} /\ loc' = [loc EXCEPT ![p] = x]
        <5>1. CASE Upload(p)
          <6>1. \E x, u : loc' = [loc EXCEPT ![p] = [NoLocals EXCEPT !.user = u, !.f = x]]
            BY <5>1 DEF Upload, Call
          <6>2. \A x, u : [NoLocals EXCEPT !.user = u, !.f = x].todo = {}
            BY DEF NoLocals
          <6> QED BY <6>1, <6>2
        <5>2. CASE Delete(p) \/ Restore(p) \/ PermanentlyDelete(p)
          BY <2>0, <5>2 DEF Delete, Restore, PermanentlyDelete, Call, NoLocals
        <5>3. CASE EmptyTrash(p) \/ VersionCalls(p)
          BY <2>0, <5>3 DEF EmptyTrash, VersionCalls, RestoreVersion, DeleteVersion, Call, NoLocals
        <5> QED BY <2>5, <3>2, <5>1, <5>2, <5>3 DEF Calls, RecycleCalls
      <4> QED BY <2>4, <4>1
    <3> QED BY <3>1, <3>2
  <2>6. CASE \/ DeCharge(p) \/ UpQuota(p) \/ UpRename(p) \/ UpRow(p) \/ UpCharge(p)
    BY <2>1, <2>2, <2>6 DEF DeCharge, UpQuota, UpRename, UpRow, UpCharge, Attempt, OrFault
  <2>7. CASE DeGet(p) \/ UpList(p) \/ UpWrite(p)
    <3>1. CASE DeGet(p)
      BY <1>1, <2>0, <2>1, <3>1 DEF DeGet, Attempt, OrFault, Locals, Fewer
    <3>2. CASE UpList(p)
      <4>1. \/ UNCHANGED loc
            \/ \E x, y : loc' = [loc EXCEPT ![p].fid = x, ![p].g = y, ![p].ret = "up_write"]
        BY <3>2 DEF UpList, OrFault
      <4>2. ASSUME NEW x, NEW y,
                   loc' = [loc EXCEPT ![p].fid = x, ![p].g = y, ![p].ret = "up_write"]
            PROVE  Fewer
        <5>1. loc'[p].todo = loc[p].todo
          BY <1>1, <2>0, <4>2 DEF Locals
        <5> QED BY <5>1 DEF Fewer
      <4> QED BY <2>2, <4>1, <4>2
    <3>3. CASE UpWrite(p)
      BY <1>1, <2>0, <2>1, <3>3 DEF UpWrite, OrFault, Locals, Fewer
    <3> QED BY <2>7, <3>1, <3>2, <3>3
  <2>8. CASE VersionSteps(p)
    <3>1. CASE \/ PrRow(p) \/ RvExists(p) \/ RvCopy(p) \/ RvRow(p) \/ DvFile(p) \/ DvBlob(p)
               \/ DvRow(p) \/ PrBlob(p) \/ PrCount(p) \/ SvCopy(p) \/ SvRow(p)
      BY <2>1, <2>2, <2>3, <3>1
         DEF PrRow, RvExists, RvCopy, RvRow, DvFile, DvBlob, DvRow, PrBlob, PrCount, SvCopy, SvRow,
             SvUndo, Attempt, OrFault
    <3>2. CASE SvNum(p)
      BY <1>1, <2>0, <2>1, <2>3, <3>2 DEF SvNum, Attempt, OrFault, Locals, Fewer
    <3>3. CASE PrOldest(p)
      BY <1>1, <2>0, <2>1, <2>3, <3>3 DEF PrOldest, Attempt, OrFault, Locals, Fewer
    <3>4. CASE RvFile(p)
      BY <1>1, <2>0, <2>1, <2>3, <3>4 DEF RvFile, Attempt, OrFault, Locals, Fewer
    <3>5. CASE RvVer(p)
      BY <1>1, <2>0, <2>1, <2>3, <3>5 DEF RvVer, Attempt, OrFault, Locals, Fewer
    <3>6. CASE DvGet(p)
      BY <1>1, <2>0, <2>1, <2>3, <3>6 DEF DvGet, Attempt, OrFault, Locals, Fewer
    <3> QED BY <2>8, <3>1, <3>2, <3>3, <3>4, <3>5, <3>6 DEF VersionSteps
  <2> QED BY <2>5, <2>6, <2>7, <2>8
<1>6. \A q \in DOMAIN store : q.kind = "trash" => q \in DOMAIN store'
  <2> DEFINE l == loc[p]
             Stays == \A q \in DOMAIN store : q.kind = "trash" => q \in DOMAIN store'
             tmp == Tmp(l.f.owner, l.f.name)
  <2>1. /\ l \in Locals /\ l.v \in Version /\ l.snap \in Version
    BY <1>1, LocalTypes DEF LocalsInv
  <2>2. l.v.path.kind # "trash" /\ l.snap.path.kind # "trash"
    BY <2>1, VersionTypes, KindsOK
  <2>3. tmp.kind # "trash"
    BY DEF Tmp, Home
  <2>4. ASSUME \/ UNCHANGED store
               \/ \E q : store' = Remove(store, {q}) /\ q.kind # "trash"
               \/ \E q, b : store' = Insert(store, q, b)
               \/ \E q, r : store' = Renamed(q, r) /\ q.kind # "trash"
        PROVE  Stays
    <3>1. ASSUME NEW q, store' = Remove(store, {q}), q.kind # "trash" PROVE Stays
      BY <3>1 DEF Remove
    <3>2. ASSUME NEW q, NEW b, store' = Insert(store, q, b) PROVE Stays
      BY <3>2 DEF Insert
    <3>3. ASSUME NEW q, NEW r, store' = Renamed(q, r), q.kind # "trash" PROVE Stays
      BY <3>3 DEF Renamed, Insert, Remove
    <3> QED BY <2>4, <3>1, <3>2, <3>3
  <2> SUFFICES Stays
    OBVIOUS
  <2> HIDE DEF Stays, tmp, l
  <2>5. CASE Calls(p)
    BY <2>4, <2>5, CallsAtRest DEF data, store_
  <2>6. CASE \/ UpList(p) \/ UpRow(p) \/ UpCharge(p) \/ DeGet(p) \/ DeCharge(p)
    BY <2>4, <2>6 DEF UpList, UpRow, UpCharge, DeGet, DeCharge, Attempt, OrFault, Fail, data, store_
  <2>7. CASE UpWrite(p) \/ UpQuota(p) \/ UpRename(p)
    <3>1. \/ UNCHANGED store \/ store' = Remove(store, {tmp})
          \/ \E q, b : store' = Insert(store, q, b)
          \/ store' = Renamed(tmp, l.f.path)
      BY <2>7 DEF UpWrite, UpQuota, UpRename, OrFault, DropTmp, l, tmp
    <3> QED BY <2>3, <2>4, <3>1
  <2>8. CASE VersionSteps(p)
    <3>1. \/ UNCHANGED store
          \/ store' = Remove(store, {l.v.path}) \/ store' = Remove(store, {l.snap.path})
          \/ \E q, b : store' = Insert(store, q, b)
      <4>1. CASE \/ SvNum(p) \/ PrCount(p) \/ PrOldest(p) \/ PrRow(p) \/ RvFile(p) \/ RvVer(p)
                 \/ RvExists(p) \/ RvRow(p) \/ DvFile(p) \/ DvGet(p) \/ DvRow(p)
        BY <4>1 DEF SvNum, PrCount, PrOldest, PrRow, RvFile, RvVer, RvExists, RvRow, DvFile,
                    DvGet, DvRow, Attempt, OrFault, Fail, data, store_
      <4>2. CASE SvCopy(p) \/ RvCopy(p)
        BY <4>2 DEF SvCopy, RvCopy, OrFault
      <4>3. CASE SvRow(p)
        BY <4>3 DEF SvRow, SvUndo, OrFault, l
      <4>4. CASE PrBlob(p) \/ DvBlob(p)
        BY <4>4 DEF PrBlob, DvBlob, Erase, OrFault, store_, l
      <4> QED BY <2>8, <4>1, <4>2, <4>3, <4>4 DEF VersionSteps
    <3> QED BY <2>2, <2>4, <3>1
  <2> QED BY <2>5, <2>6, <2>7, <2>8
<1>7. \A i \in DOMAIN bin : bin[i].slot.kind = "trash"
  BY <1>1, ItemTypes, KindsOK DEF TablesOK
<1>8. \A q \in loc[p].todo : Doomed(q.fid)'
  <2>1. \A q \in loc[p].todo : q.fid \in Nat
    BY <1>1, LocalTypes DEF LocalsInv, PathOf
  <2> QED BY <2>1, DoomedStays DEF BinInv, Purges, Steps
<1>9. Purges(p)
  BY DEF BinInv
<1> HIDE DEF BinInv
<1> QED BY <1>2, <1>3, <1>4, <1>5, <1>6, <1>7, <1>8, <1>9, ApartStep

\* A request that ends.
LEMMA ReturnMinded ==
    ASSUME LocalsInv, NEW p \in Procs, Return(p),
           \A i \in DOMAIN bin' :
               /\ i \in DOMAIN bin /\ bin'[i] = bin[i]
               /\ bin[i].slot \in DOMAIN store \/ Leaving(p, i) => bin[i].slot \in DOMAIN store'
    PROVE  Minded(p)
<1>1. pc'[p] = "idle" /\ loc'[p] = NoLocals
  BY DEF Return, LocalsInv, ProcsOK
<1>2. NoLocals.todo = {}
  BY DEF NoLocals
<1>3. Deletes(p)' /\ Reads(p)'
  BY <1>1 DEF Deletes, Reads, Trashing
<1>4. Purges(p)'
  BY <1>1, <1>2 DEF Purges
<1> QED BY <1>3, <1>4 DEF Minded

\* A purge that is not begun.
LEMMA NotPurging ==
    ASSUME MaxFaults = 0, TypeInv, BinInv, NEW p \in Procs, Steps(p),
           pc[p] \notin {"et_blobs", "cu_blobs"}, loc'[p].todo = loc[p].todo,
           \A i \in DOMAIN bin' : i \in DOMAIN bin /\ bin'[i].slot = bin[i].slot
    PROVE  Purges(p)'
<1>1. \A q \in loc[p].todo : q.fid \in Nat
  BY LocalTypes DEF TypeInv, LocalsInv, PathOf
<1>2. Purges(p) /\ \A q \in loc[p].todo : Doomed(q.fid)'
  BY <1>1, DoomedStays DEF BinInv, Purges
<1> QED BY <1>2 DEF Purges

\* A step of a deletion.
LEMMA DeletionMinded ==
    ASSUME OneAtATime, MaxFaults = 0, TypeInv, BinInv, NEW p \in Procs,
           TrGet(p) \/ TrRename(p) \/ TrUndo(p) \/ TrRow(p)
    PROVE  Minded(p)
<1>1. /\ pc \in [Procs -> Labels] /\ loc \in [Procs -> Locals] /\ LocalsInv /\ TablesOK
      /\ loc[p].f \in FileRow /\ ~ (faults < MaxFaults)
  BY LocalTypes, NoFaults DEF TypeInv, LocalsInv, ProcsOK
<1>2. Steps(p) /\ \A i : ~ Leaving(p, i)
  BY DEF Steps, RecycleSteps, TrGet, TrRename, TrUndo, TrRow, Leaving
<1>3. ASSUME Fail(p) PROVE Minded(p)
  BY <1>1, <1>2, <1>3, ReturnMinded DEF Fail, data, bin_, store_
<1>4. \A i \in DOMAIN bin : bin[i].slot.kind = "trash"
  BY <1>1, ItemTypes, KindsOK DEF TablesOK
<1>5. loc[p].f.path.kind = "home"
  BY <1>1, RowTypes, KindsOK
<1>6. CASE TrGet(p) /\ ~ Fail(p)
  <2>1. /\ pc[p] = "tr_get" /\ pc'[p] = "tr_rename" /\ loc[p].fid \in DOMAIN files /\ UNCHANGED data
        /\ loc' = [loc EXCEPT ![p].f = files[loc[p].fid]]
    BY <1>1, <1>6 DEF TrGet, Attempt, OrFault, Owned, Goto
  <2>2. loc'[p].fid = loc[p].fid /\ loc'[p].todo = loc[p].todo
    BY <1>1, <2>1 DEF Locals
  <2>3. UNCHANGED <<bin, store, files>>
    BY <2>1 DEF data, bin_, store_, files_
  <2>4. Deletes(p)' /\ Reads(p)'
    BY <2>1, <2>2, <2>3 DEF Deletes, Reads
  <2>5. Purges(p)'
    BY <1>2, <2>1, <2>2, <2>3, NotPurging
  <2> QED BY <1>2, <2>3, <2>4, <2>5 DEF Minded
<1>7. CASE TrRename(p) /\ ~ Fail(p)
  <2>1. /\ pc[p] = "tr_rename" /\ pc'[p] = "tr_item" /\ UNCHANGED <<files, bin, loc>>
        /\ store' = Renamed(loc[p].f.path, SlotOf(loc[p]))
    BY <1>1, <1>7 DEF TrRename, Attempt, OrFault, Goto, files_, bin_
  <2>2. DOMAIN store' = (DOMAIN store \ {loc[p].f.path}) \cup {SlotOf(loc[p])}
    BY <2>1 DEF Renamed, Insert, Remove
  <2>3. Deletes(p)' /\ Reads(p)'
    BY <2>1, <2>2 DEF Deletes, Reads, BinInv, Trashing
  <2>4. Purges(p)'
    BY <1>2, <2>1, NotPurging
  <2> QED BY <1>2, <1>4, <1>5, <2>1, <2>2, <2>3, <2>4 DEF Minded
<1>8. CASE TrUndo(p)
  <2>1. /\ pc[p] = "tr_undo" /\ Return(p) /\ UNCHANGED bin
        /\ UNCHANGED store \/ store' = Renamed(SlotOf(loc[p]), loc[p].f.path)
    BY <1>8 DEF TrUndo, OrFault, bin_
  <2>2. \A i \in DOMAIN bin : bin[i].slot # SlotOf(loc[p])
    <3>1. \A i \in DOMAIN bin : bin[i].slot.fid # loc[p].fid
      BY <2>1, HeldRow DEF Trashing, BinInv, ItemsDoomed
    <3>2. SlotOf(loc[p]).fid = loc[p].fid
      BY DEF SlotOf, TrashSlot, Home
    <3> QED BY <3>1, <3>2
  <2>3. \A i \in DOMAIN bin : bin[i].slot \in DOMAIN store => bin[i].slot \in DOMAIN store'
    BY <2>1, <2>2 DEF Renamed, Insert, Remove
  <2> QED BY <1>1, <1>2, <2>1, <2>3, ReturnMinded
<1>9. CASE TrRow(p)
  <2>1. pc[p] = "tr_row" /\ pc'[p] = "de_charge" /\ UNCHANGED <<bin, store, loc>>
    BY <1>1, <1>9 DEF TrRow, OrFault, Goto, bin_, store_
  <2>2. Deletes(p)' /\ Reads(p)'
    BY <2>1 DEF Deletes, Reads, Trashing
  <2>3. Purges(p)'
    BY <1>2, <2>1, NotPurging
  <2> QED BY <1>2, <2>1, <2>2, <2>3 DEF Minded
<1> QED BY <1>3, <1>6, <1>7, <1>8, <1>9

\* A step of a restore or of a purge of one item.
LEMMA ItemMinded ==
    ASSUME OneAtATime, MaxFaults = 0, TypeInv, BinInv, NEW p \in Procs,
           \/ ReGet(p) \/ ReRename(p) \/ ReRow(p) \/ ReUndo(p) \/ ReItem(p) \/ ReCharge(p)
           \/ PdGet(p) \/ PdBlob(p) \/ PdRow(p)
    PROVE  Minded(p)
<1>1. /\ pc \in [Procs -> Labels] /\ loc \in [Procs -> Locals] /\ LocalsInv /\ TablesOK
      /\ loc[p].it \in Item /\ ~ (faults < MaxFaults)
  BY LocalTypes, NoFaults DEF TypeInv, LocalsInv, ProcsOK
<1>2. Steps(p)
  BY DEF Steps, RecycleSteps
<1>3. \A i \in DOMAIN bin : bin[i].slot.kind = "trash"
  BY <1>1, ItemTypes, KindsOK DEF TablesOK
<1>4. loc[p].it.orig.kind = "home"
  BY <1>1, ItemTypes, KindsOK
<1>5. ASSUME Fail(p), pc[p] \in {"re_get", "re_rename", "pd_get"} PROVE Minded(p)
  <2>1. \A i : ~ Leaving(p, i)
    BY <1>5 DEF Leaving
  <2> QED BY <1>1, <1>5, <2>1, ReturnMinded DEF Fail, data, bin_, store_
<1>6. CASE (ReGet(p) \/ PdGet(p)) /\ ~ Fail(p)
  <2>1. /\ pc[p] \in {"re_get", "pd_get"} /\ pc'[p] \in {"re_rename", "pd_blob"}
        /\ loc[p].id \in DOMAIN bin /\ UNCHANGED data
        /\ loc' = [loc EXCEPT ![p].it = bin[loc[p].id]]
    BY <1>1, <1>6 DEF ReGet, PdGet, Attempt, OrFault, OwnedItem, Goto
  <2>2. /\ loc'[p].it = bin[loc[p].id] /\ loc'[p].id = loc[p].id /\ loc'[p].todo = loc[p].todo
    BY <1>1, <2>1 DEF Locals
  <2>3. UNCHANGED <<bin, store>>
    BY <2>1 DEF data, bin_, store_
  <2>4. Doomed(bin[loc[p].id].slot.fid)'
    <3>1. bin[loc[p].id].slot.fid \in Nat
      BY <1>1, <2>1, ItemTypes DEF TablesOK, PathOf
    <3>2. Doomed(bin[loc[p].id].slot.fid)
      BY <2>1 DEF BinInv, ItemsDoomed
    <3>3. \A f \in Nat : Doomed(f) => Doomed(f)'
      BY <1>2, DoomedStays
    <3>4. bin'[loc'[p].id].slot.fid = bin[loc[p].id].slot.fid
      BY <2>2, <2>3
    <3> QED BY <3>1, <3>2, <3>3, <3>4
  <2>5. \A i \in DOMAIN bin : bin[i].slot = bin[loc[p].id].slot => i = loc[p].id
    BY <2>1 DEF BinInv, ItemsDoomed, ItemsApart
  <2>6. Reads(p)' /\ Deletes(p)'
    BY <2>1, <2>2, <2>3, <2>4, <2>5 DEF Reads, Deletes, Trashing
  <2>7. Purges(p)'
    BY <1>2, <2>1, <2>2, <2>3, NotPurging
  <2>8. \A i : ~ Leaving(p, i)
    BY <2>1 DEF Leaving
  <2> QED BY <2>3, <2>6, <2>7, <2>8 DEF Minded
<1>7. CASE (ReRename(p) \/ PdBlob(p)) /\ ~ (Fail(p) /\ ReRename(p))
  <2>1. /\ pc[p] \in {"re_rename", "pd_blob"} /\ pc'[p] \in {"re_row", "pd_row"}
        /\ UNCHANGED <<bin, loc>>
        /\ store' = Renamed(loc[p].it.slot, loc[p].it.orig) \/ store' = Remove(store, {loc[p].it.slot})
    BY <1>1, <1>7 DEF ReRename, PdBlob, Attempt, OrFault, Goto, Erase, bin_
  <2>2. \A q \in DOMAIN store : q # loc[p].it.slot => q \in DOMAIN store'
    BY <2>1 DEF Renamed, Insert, Remove
  <2>3. \A i \in DOMAIN bin : bin[i].slot = loc[p].it.slot => i = loc[p].id
    BY <2>1 DEF BinInv, Reads
  <2>4. \A i : i = loc[p].id => Leaving(p, i)'
    BY <2>1 DEF Leaving
  <2>5. Reads(p)' /\ Deletes(p)'
    BY <2>1 DEF Reads, Deletes, Trashing
  <2>6. Purges(p)'
    BY <1>2, <2>1, NotPurging
  <2>7. \A i : ~ Leaving(p, i)
    BY <2>1 DEF Leaving
  <2>8. \A i \in DOMAIN bin : bin[i].slot \in DOMAIN store =>
            bin[i].slot \in DOMAIN store' \/ Leaving(p, i)'
    BY <2>2, <2>3, <2>4
  <2> QED BY <2>1, <2>5, <2>6, <2>7, <2>8 DEF Minded
<1>8. CASE ReRow(p)
  <2>1. pc[p] = "re_row" /\ pc'[p] = "re_item" /\ UNCHANGED <<bin, store, loc>>
    BY <1>1, <1>8 DEF ReRow, OrFault, Goto, bin_, store_
  <2>2. \A i \in DOMAIN bin : Leaving(p, i) => Leaving(p, i)'
    BY <2>1 DEF Leaving
  <2>3. Reads(p)' /\ Deletes(p)'
    BY <2>1 DEF Reads, Deletes, Trashing
  <2>4. Purges(p)'
    BY <1>2, <2>1, NotPurging
  <2> QED BY <2>1, <2>2, <2>3, <2>4 DEF Minded
<1>9. CASE ReUndo(p) \/ ReCharge(p)
  <2>1. /\ Return(p) /\ UNCHANGED bin /\ pc[p] \in {"re_undo", "re_charge"}
        /\ UNCHANGED store \/ store' = Renamed(loc[p].it.orig, loc[p].it.slot)
    BY <1>9 DEF ReUndo, ReCharge, OrFault, bin_, store_
  <2>2. \A i \in DOMAIN bin : bin[i].slot \in DOMAIN store => bin[i].slot \in DOMAIN store'
    BY <1>3, <1>4, <2>1 DEF Renamed, Insert, Remove
  <2>3. \A i : ~ Leaving(p, i)
    BY <2>1 DEF Leaving
  <2> QED BY <1>1, <2>1, <2>2, <2>3, ReturnMinded
<1>10. CASE ReItem(p) \/ PdRow(p)
  <2>1. /\ pc[p] \in {"re_item", "pd_row"} /\ bin' = Remove(bin, {loc[p].id}) /\ UNCHANGED store
        /\ Return(p) \/ (Goto(p, "re_charge") /\ UNCHANGED loc)
    BY <1>1, <1>10 DEF ReItem, PdRow, OrFault, store_
  <2>2. \A i \in DOMAIN bin' : i \in DOMAIN bin /\ bin'[i] = bin[i] /\ i # loc[p].id
    BY <2>1 DEF Remove
  <2>3. \A i \in DOMAIN bin' : ~ Leaving(p, i)
    BY <2>1, <2>2 DEF Leaving
  <2>4. CASE Return(p)
    BY <1>1, <2>1, <2>2, <2>3, <2>4, ReturnMinded
  <2>5. CASE Goto(p, "re_charge") /\ UNCHANGED loc
    <3>1. pc'[p] = "re_charge"
      BY <1>1, <2>5 DEF Goto
    <3>2. Reads(p)' /\ Deletes(p)'
      BY <3>1 DEF Reads, Deletes, Trashing
    <3>3. Purges(p)'
      BY <1>2, <2>1, <2>2, <2>5, NotPurging
    <3> QED BY <2>1, <2>2, <2>3, <3>2, <3>3 DEF Minded
  <2> QED BY <2>1, <2>4, <2>5
<1>11. ReGet(p) \/ ReRename(p) \/ PdGet(p) => pc[p] \in {"re_get", "re_rename", "pd_get"}
  BY DEF ReGet, ReRename, PdGet
<1> QED BY <1>5, <1>6, <1>7, <1>8, <1>9, <1>10, <1>11

\* A step of EmptyTrash or CleanupExpired.
LEMMA PurgeMinded ==
    ASSUME OneAtATime, MaxFaults = 0, TypeInv, BinInv, NEW p \in Procs,
           EtList(p) \/ EtBlob(p) \/ EtRows(p) \/ CuList(p) \/ CuBlob(p) \/ CuRows(p)
    PROVE  Minded(p)
<1>1. /\ pc \in [Procs -> Labels] /\ loc \in [Procs -> Locals] /\ LocalsInv /\ TablesOK
      /\ loc[p].todo \subseteq PathOf({"trash"}) /\ ~ (faults < MaxFaults) /\ loc[p] \in Locals
  BY LocalTypes, NoFaults DEF TypeInv, LocalsInv, ProcsOK
<1>2. Steps(p) /\ Purges(p)
  BY DEF Steps, RecycleSteps, BinInv
<1>3. \A f \in Nat : Doomed(f) => Doomed(f)'
  BY <1>2, DoomedStays
<1>4. CASE EtList(p) \/ CuList(p)
  <2>1. PICK items : /\ loc' = [loc EXCEPT ![p].todo = Slots(items)] /\ UNCHANGED data
                     /\ items \subseteq DOMAIN bin
                     /\ \/ /\ pc[p] = "et_list" /\ pc'[p] = "et_blobs"
                           /\ \A i \in items : bin[i].user = loc[p].user
                        \/ /\ pc[p] = "cu_list" /\ pc'[p] = "cu_blobs"
                           /\ \A i \in items : bin[i].expired
    <3>1. CASE EtList(p)
      <4>1. /\ loc' = [loc EXCEPT ![p].todo = Slots(ListByUser(loc[p].user))] /\ UNCHANGED data
            /\ pc[p] = "et_list" /\ pc'[p] = "et_blobs"
        BY <1>1, <3>1 DEF EtList, ListPurge, OrFault, Goto
      <4>2. \A i \in ListByUser(loc[p].user) : i \in DOMAIN bin /\ bin[i].user = loc[p].user
        BY DEF ListByUser, Page
      <4> QED BY <4>1, <4>2
    <3>2. CASE CuList(p)
      <4>1. /\ loc' = [loc EXCEPT ![p].todo = Slots(Expired)] /\ UNCHANGED data
            /\ pc[p] = "cu_list" /\ pc'[p] = "cu_blobs"
        BY <1>1, <3>2 DEF CuList, ListPurge, OrFault, Goto
      <4>2. \A i \in Expired : i \in DOMAIN bin /\ bin[i].expired
        BY DEF Expired
      <4> QED BY <4>1, <4>2
    <3> QED BY <1>4, <3>1, <3>2
  <2>2. loc'[p].todo = Slots(items) /\ loc'[p].user = loc[p].user
    BY <1>1, <2>1 DEF Locals
  <2>3. UNCHANGED <<bin, store>>
    BY <2>1 DEF data, bin_, store_
  <2>4. Deletes(p)' /\ Reads(p)'
    BY <2>1 DEF Deletes, Reads, Trashing
  <2>5. ASSUME NEW q \in Slots(items)
        PROVE  /\ Doomed(q.fid)'
               /\ \A i \in DOMAIN bin : bin[i].slot = q => i \in items
    <3>1. PICK j \in items : q = bin[j].slot
      BY DEF Slots
    <3>2. bin[j].slot.fid \in Nat /\ Doomed(bin[j].slot.fid)
      BY <1>1, <2>1, ItemTypes DEF TablesOK, PathOf, BinInv, ItemsDoomed
    <3>3. \A i \in DOMAIN bin : bin[i].slot = q => i = j
      BY <2>1, <3>1 DEF BinInv, ItemsDoomed, ItemsApart
    <3> QED BY <1>3, <3>1, <3>2, <3>3
  <2>6. Purges(p)'
    BY <2>1, <2>2, <2>3, <2>5 DEF Purges
  <2>7. \A i : ~ Leaving(p, i)
    BY <2>1 DEF Leaving
  <2> QED BY <2>3, <2>4, <2>6, <2>7 DEF Minded
<1>5. CASE EtBlob(p) \/ CuBlob(p)
  <2>1. PICK q \in loc[p].todo :
            /\ loc' = [loc EXCEPT ![p].todo = @ \ {q}] /\ store' = Remove(store, {q})
            /\ UNCHANGED <<bin, pc>> /\ pc[p] \in {"et_blobs", "cu_blobs"}
    BY <1>1, <1>5 DEF EtBlob, CuBlob, PurgeBlob, OrFault, Erase, bin_
  <2>2. loc'[p].todo = loc[p].todo \ {q} /\ loc'[p].user = loc[p].user /\ loc'[p].id = loc[p].id
    BY <1>1, <2>1 DEF Locals
  <2>3. \A i \in DOMAIN bin : Leaving(p, i) <=> Leaving(p, i)'
    BY <2>1, <2>2 DEF Leaving
  <2>4. Deletes(p)' /\ Reads(p)'
    BY <2>1 DEF Deletes, Reads, Trashing
  <2>5. \A r \in loc[p].todo : r.fid \in Nat
    BY <1>1 DEF PathOf
  <2>6. \A r \in loc[p].todo : Doomed(r.fid)'
    BY <1>2, <1>3, <2>5 DEF Purges
  <2>7. Purges(p)'
    BY <1>2, <2>1, <2>2, <2>6 DEF Purges
  <2>8. \A i \in DOMAIN bin : bin[i].slot = q => Leaving(p, i)
    BY <1>2 DEF Purges, Leaving
  <2>9. \A r \in DOMAIN store : r # q => r \in DOMAIN store'
    BY <2>1 DEF Remove
  <2> QED BY <2>1, <2>3, <2>4, <2>7, <2>8, <2>9 DEF Minded
<1>6. CASE EtRows(p) \/ CuRows(p)
  <2>1. /\ Return(p) /\ UNCHANGED store
        /\ \A i \in DOMAIN bin' : i \in DOMAIN bin /\ bin'[i] = bin[i] /\ ~ Leaving(p, i)
    <3>1. CASE EtRows(p)
      <4>1. /\ pc[p] = "et_blobs" /\ bin' = Remove(bin, AllOf(loc[p].user)) /\ Return(p)
            /\ UNCHANGED store
        BY <1>1, <3>1 DEF EtRows, PurgeRows, OrFault, store_
      <4>2. \A i \in DOMAIN bin' : i \in DOMAIN bin /\ bin'[i] = bin[i] /\ bin[i].user # loc[p].user
        BY <4>1 DEF Remove, AllOf
      <4> QED BY <4>1, <4>2 DEF Leaving
    <3>2. CASE CuRows(p)
      <4>1. /\ pc[p] = "cu_blobs" /\ bin' = Remove(bin, Expired) /\ Return(p) /\ UNCHANGED store
        BY <1>1, <3>2 DEF CuRows, PurgeRows, OrFault, store_
      <4>2. \A i \in DOMAIN bin' : i \in DOMAIN bin /\ bin'[i] = bin[i] /\ ~ bin[i].expired
        BY <4>1 DEF Remove, Expired
      <4> QED BY <4>1, <4>2 DEF Leaving
    <3> QED BY <1>6, <3>1, <3>2
  <2> QED BY <1>1, <2>1, ReturnMinded
<1> QED BY <1>4, <1>5, <1>6

\* The deletion lists an item of its row, whose bytes are in their slot.
LEMMA TrItemBin ==
    ASSUME OneAtATime, MaxFaults = 0, TypeInv, BinInv, NEW p \in Procs, TrItem(p)
    PROVE  BinInv'
<1> DEFINE f == loc[p].fid
<1>1. /\ pc \in [Procs -> Labels] /\ loc \in [Procs -> Locals] /\ TablesOK
      /\ ~ (faults < MaxFaults) /\ Steps(p) /\ OthersStay(p)
  BY NoFaults, OneMoves DEF TypeInv, LocalsInv, ProcsOK, Steps, RecycleSteps
<1>2. PICK item : /\ bin' = Insert(bin, nextItem, item) /\ item.fid = f /\ item.slot = SlotOf(loc[p])
                  /\ pc[p] = "tr_item" /\ pc'[p] = "tr_row" /\ UNCHANGED <<files, nextFile, store, loc>>
  BY <1>1 DEF TrItem, OrFault, Goto, files_, store_
<1>3. SlotOf(loc[p]).fid = f
  BY DEF SlotOf, TrashSlot, Home
<1>4. /\ f \in DOMAIN files /\ f < nextFile /\ SlotOf(loc[p]) \in DOMAIN store
      /\ \A i \in DOMAIN bin : bin[i].fid # f
      /\ \A r \in Procs : \A q \in loc[r].todo : q.fid # f
  <2>1. Deletes(p)
    BY DEF BinInv
  <2>2. f \in DOMAIN files /\ SlotOf(loc[p]) \in DOMAIN store
    BY <1>2, <2>1 DEF Deletes, Trashing
  <2>3. f < nextFile
    BY <1>1, <2>2 DEF TablesOK
  <2> QED BY <1>2, <2>2, <2>3, HeldRow DEF Trashing
<1>5. /\ DOMAIN bin' = DOMAIN bin \cup {nextItem} /\ bin'[nextItem] = item
      /\ nextItem \notin DOMAIN bin /\ \A i \in DOMAIN bin : bin'[i] = bin[i]
  BY <1>1, <1>2 DEF Insert, TablesOK
<1>6. \A g : Doomed(g) \/ g = f => Doomed(g)'
  <2>1. \A g : Dropping(g) \/ g = f => Dropping(g)'
    BY <1>1, <1>2 DEF Dropping, OthersStay
  <2> QED BY <1>2, <1>4, <2>1 DEF Doomed
<1> HIDE DEF f
<1>7. RequestersWork' /\ \A r \in Procs \ {p} : Deletes(r)'
  BY <1>1, WorkStays, DeletesStay DEF BinInv, Next
<1>8. Deletes(p)' /\ Reads(p)'
  BY <1>2, <1>4 DEF Deletes, Reads, f
<1>9. ItemsApart' /\ ItemsDoomed'
  <2>1. ItemsApart'
    BY <1>2, <1>4, <1>5 DEF BinInv, ItemsApart
  <2>2. ItemsDoomed'
    BY <1>2, <1>3, <1>5, <1>6 DEF BinInv, ItemsDoomed
  <2> QED BY <2>1, <2>2
<1>10. \A r \in Procs : Purges(r)'
  <2> SUFFICES ASSUME NEW r \in Procs PROVE Purges(r)'
    OBVIOUS
  <2>1. /\ loc'[r] = loc[r] /\ Purges(r)
        /\ pc'[r] = pc[r] \/ (r = p /\ pc[r] = "tr_item")
    BY <1>1, <1>2 DEF OthersStay, BinInv
  <2>2. item.slot.fid = f
    BY <1>2, <1>3
  <2>3. \A q \in loc[r].todo : Doomed(q.fid)'
    BY <1>6, <2>1 DEF Purges
  <2> QED BY <1>4, <1>5, <2>1, <2>2, <2>3 DEF Purges
<1>11. \A r \in Procs \ {p} : Reads(r)'
  <2>1. \A r \in Procs \ {p} : ~ AtWork(r)
    BY <1>2, OthersRest DEF AtWork, BinInv
  <2> QED BY <1>1, <2>1 DEF OthersStay, AtWork, Reads
<1>12. Listed'
  <2>1. \A r \in Procs : \A i \in DOMAIN bin : Leaving(r, i) => Leaving(r, i)'
    BY <1>1, <1>2, <1>5 DEF OthersStay, Leaving
  <2> QED BY <1>2, <1>4, <1>5, <2>1 DEF BinInv, Listed
<1> QED BY <1>7, <1>8, <1>9, <1>10, <1>11, <1>12 DEF BinInv

LEMMA BinStep ==
    ASSUME OneAtATime, MaxFaults = 0, MaxCrashes = 0, TypeInv, BinInv, [Next]_vars
    PROVE  BinInv'
<1>1. ASSUME NEW p \in Procs, Calls(p) \/ Steps(p) PROVE BinInv'
  <2>1. TrItem(p) \/ Minded(p)
    BY <1>1, OthersApart, DeletionMinded, ItemMinded, PurgeMinded DEF Steps, RecycleSteps
  <2> QED BY <1>1, <2>1, TrItemBin, MindedStep
<1>2. ASSUME NEW i \in DOMAIN bin, Expire(i) PROVE BinInv'
  <2>1. /\ bin' = [bin EXCEPT ![i].expired = TRUE]
        /\ UNCHANGED <<files, nextFile, store, pc, loc>>
    BY <1>2 DEF Expire, files_, store_
  <2>2. /\ DOMAIN bin' = DOMAIN bin
        /\ \A j \in DOMAIN bin : /\ bin'[j].slot = bin[j].slot /\ bin'[j].fid = bin[j].fid
                                 /\ bin'[j].user = bin[j].user
                                 /\ bin[j].expired => bin'[j].expired
    <3>1. \A j \in DOMAIN bin : bin[j] \in Item
      BY DEF TypeInv, TablesOK
    <3> QED BY <2>1, <3>1 DEF Item
  <2>3. \A f : Doomed(f) <=> Doomed(f)'
    BY <2>1 DEF Doomed, Dropping
  <2>4. RequestersWork' /\ ItemsApart' /\ ItemsDoomed'
    BY <2>1, <2>2, <2>3 DEF BinInv, RequestersWork, AtWork, ItemsApart, ItemsDoomed
  <2>5. ASSUME NEW p \in Procs PROVE Deletes(p)' /\ Reads(p)' /\ Purges(p)'
    <3>1. Deletes(p) /\ Reads(p) /\ Purges(p)
      BY DEF BinInv
    <3>2. Deletes(p)'
      BY <2>1, <3>1 DEF Deletes
    <3>3. Reads(p)'
      BY <2>1, <2>2, <2>3, <3>1 DEF Reads
    <3>4. \A q \in loc[p].todo : Doomed(q.fid)'
      BY <2>3, <3>1 DEF Purges
    <3>5. Purges(p)'
      BY <2>1, <2>2, <3>1, <3>4 DEF Purges
    <3> QED BY <3>2, <3>3, <3>5
  <2>6. Listed'
    <3>1. \A p \in Procs : \A j \in DOMAIN bin : Leaving(p, j) => Leaving(p, j)'
      BY <2>1, <2>2 DEF Leaving
    <3> QED BY <2>1, <2>2, <3>1 DEF BinInv, Listed
  <2> QED BY <2>4, <2>5, <2>6 DEF BinInv
<1>3. CASE Crash
  BY <1>3 DEF Crash, TypeInv, GhostsOK
<1>4. CASE UNCHANGED vars
  <2>1. UNCHANGED <<files, nextFile, bin, store, pc, loc>>
    BY <1>4 DEF vars
  <2> QED BY <2>1 DEF BinInv, RequestersWork, AtWork, ItemsApart, ItemsDoomed, Listed, Deletes, Reads,
                      Purges, Leaving, Doomed, Dropping
<1> QED BY <1>1, <1>2, <1>3, <1>4 DEF Next

\* BinBacked: of one request at a time, with cleanups beside it, where nothing fails and
\* the process does not die, every item the bin lists has its bytes in its slot: no purge
\* deletes the bytes of an item it leaves listed, and none that is listed meanwhile.
THEOREM ListedItemsAreThere ==
    ASSUME OneAtATime, MaxFaults = 0, MaxCrashes = 0 PROVE Spec => []BinBacked
<1>1. Inv /\ BinInv /\ [Next]_vars => BinInv'
  BY BinStep DEF Inv
<1>2. BinInv => BinBacked
  BY DEF BinInv, Listed, Leaving, BinBacked, Quiet
<1>3. Init => BinInv
  BY DEF Init, Empty, NoLocals, BinInv, RequestersWork, AtWork, ItemsApart, ItemsDoomed, Listed, Deletes,
         Reads, Purges, Trashing
<1> QED BY <1>1, <1>2, <1>3, StorageInvariant, PTL DEF Spec
==============================================================================
