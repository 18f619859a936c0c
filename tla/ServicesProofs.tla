--------------------------- MODULE ServicesProofs ---------------------------
(***************************************************************************)
(* Theorems about the services that have one row or one table of their     *)
(* own: shares, search, accounts, the rate limiter and permissions, a part *)
(* for each, and about the composition of all services.                    *)
(***************************************************************************)
EXTENDS Services, FiniteSetTheorems, SequenceTheorems, WellFoundedInduction, TLAPS

------------------------------------------------------------------------------
(* ShareService: how far the requests of a share pass its limit, for any   *)
(* finite set of requests at once and any limit.                           *)

ShareRow == [made : BOOLEAN, limited : BOOLEAN, max_accesses : Nat, access_count : Nat,
             can_download : BOOLEAN, is_active : BOOLEAN, expired : BOOLEAN]

ShareTypeOK ==
    /\ share \in ShareRow
    /\ visit \in [Visitors -> [kind : {"none", "content", "view", "look"}, count : Nat]]
    /\ served \in Nat /\ uncounted \in Nat

\* The requests between their test of the limit and their count.
Pending == {v \in Visitors : visit[v] # NoVisit}

\* Every request let through has been counted, or its count has failed.
CountExact == served = share.access_count + uncounted

\* Who passes the test finds the count below the limit, and there is room for
\* the others that are under way: one less than there are requests.
CountBounded ==
    /\ ~share.made => ~share.limited /\ Pending = {} /\ share.access_count = 0
    /\ share.limited => share.access_count + Cardinality(Pending)
                            <= share.max_accesses - 1 + Cardinality(Visitors)

ShareInv == ShareTypeOK /\ CountExact /\ CountBounded

------------------------------------------------------------------------------
\* The counting of the requests under way, which are some of a finite set.
LEMMA PendingFinite ==
    /\ IsFiniteSet(Pending) /\ Cardinality(Pending) \in Nat
    /\ Cardinality(Visitors) \in Nat /\ Cardinality(Visitors) > 0
    /\ Cardinality(Pending) <= Cardinality(Visitors)
<1>1. Pending \in SUBSET Visitors
    BY DEF Pending
<1>2. IsFiniteSet(Pending) /\ Cardinality(Pending) <= Cardinality(Visitors)
    BY <1>1, FS_Subset, VisitorsAssumption
<1>3. Cardinality(Pending) \in Nat /\ Cardinality(Visitors) \in Nat
    BY <1>2, FS_CardinalityType, VisitorsAssumption
<1>4. Cardinality(Visitors) # 0
    BY FS_EmptySet, VisitorsAssumption
<1> QED
    BY <1>2, <1>3, <1>4

\* Before the share is made nothing has been counted.
LEMMA ShareInitially == ShareInit => ShareInv
<1> SUFFICES ASSUME ShareInit PROVE ShareInv
    OBVIOUS
<1>1. ShareTypeOK
    BY DEF ShareInit, ShareTypeOK, ShareRow, NoShare, NoVisit
<1>2. CountExact
    BY DEF ShareInit, CountExact, NoShare
<1>3. CountBounded
    BY DEF ShareInit, CountBounded, NoShare, NoVisit, Pending
<1> QED
    BY <1>1, <1>2, <1>3 DEF ShareInv

\* A request that ends leaves one fewer under way.
LEMMA PendingEnds ==
    ASSUME ShareTypeOK, NEW v \in Visitors, visit[v] # NoVisit,
           visit' = [visit EXCEPT ![v] = NoVisit]
    PROVE  Pending # {} /\ Cardinality(Pending') = Cardinality(Pending) - 1
<1>1. v \in Pending /\ Pending' = Pending \ {v}
    BY DEF Pending, ShareTypeOK
<1> QED
    BY <1>1, PendingFinite, FS_RemoveElement

\* Every step keeps the types, the count and the room under the limit.
LEMMA ShareStep == ShareInv /\ [ShareNext]_shareVars => ShareInv'
<1> SUFFICES ASSUME ShareInv, [ShareNext]_shareVars PROVE ShareInv'
    OBVIOUS
<1> USE DEF ShareInv
<1>f. Cardinality(Pending) \in Nat /\ Cardinality(Visitors) \in Nat
    BY PendingFinite
<1>1. CASE CreateShare
  <2>1. PICK max \in Limits, limited \in BOOLEAN, can \in BOOLEAN :
            share' = [made |-> TRUE, limited |-> limited, max_accesses |-> max,
                      access_count |-> 0, can_download |-> can, is_active |-> TRUE,
                      expired |-> FALSE]
      BY <1>1 DEF CreateShare
  <2>2. UNCHANGED <<visit, served, uncounted>> /\ max \in Nat
      BY <1>1, <2>1, ShareAssumption DEF CreateShare
  <2>3. ShareTypeOK'
      BY <2>1, <2>2 DEF ShareTypeOK, ShareRow
  <2>4. Pending' = {} /\ share.access_count = 0
      BY <1>1, <2>2 DEF CreateShare, CountBounded, Pending
  <2>5. CountExact'
      BY <2>1, <2>2, <2>4 DEF CountExact, ShareTypeOK
  <2>6. Cardinality(Pending') = 0
      BY <2>4, FS_EmptySet
  <2>7. CountBounded'
      BY <2>1, <2>2, <2>6, PendingFinite DEF CountBounded
  <2> QED
      BY <2>3, <2>5, <2>7
<1>2. CASE DeactivateShare \/ ShareExpires \/ SharedFileGoes \/ UNCHANGED shareVars
  <2>1. /\ share'.made = share.made /\ share'.limited = share.limited
        /\ share'.max_accesses = share.max_accesses
        /\ share'.access_count = share.access_count
        /\ share' \in ShareRow
        /\ UNCHANGED <<visit, served, uncounted>>
      BY <1>2 DEF DeactivateShare, ShareExpires, SharedFileGoes, shareVars, ShareTypeOK, ShareRow
  <2>2. Pending' = Pending
      BY <2>1 DEF Pending
  <2> QED
      BY <2>1, <2>2 DEF ShareTypeOK, CountExact, CountBounded
<1>3. ASSUME NEW v \in Visitors, ServeContent(v) \/ GetShare(v) \/ GetPublicShare(v)
      PROVE  ShareInv'
  <2>1. PICK kind \in {"content", "view", "look"} : Begins(v, kind)
      BY <1>3 DEF ServeContent, GetShare, GetPublicShare
  <2>2. /\ UNCHANGED <<share, served, uncounted>> /\ visit[v] = NoVisit /\ ValidateShare
        /\ visit' = [visit EXCEPT ![v] = [kind |-> kind, count |-> share.access_count]]
      BY <2>1 DEF Begins
  <2>3. ShareTypeOK'
      BY <2>2 DEF ShareTypeOK, ShareRow
  <2>4. CountExact'
      BY <2>2 DEF CountExact
  <2>5. Cardinality(Pending') <= Cardinality(Visitors) /\ Cardinality(Pending') \in Nat
    <3>1. Pending' \in SUBSET Visitors
        BY DEF Pending
    <3> QED
        BY <3>1, FS_Subset, FS_CardinalityType, VisitorsAssumption
  <2>6. share.made /\ (share.limited => share.access_count < share.max_accesses)
      BY <2>2 DEF ValidateShare
  <2>7. CountBounded'
      BY <1>f, <2>2, <2>5, <2>6 DEF CountBounded, ShareTypeOK, ShareRow
  <2> QED
      BY <2>3, <2>4, <2>7
<1>4. ASSUME NEW v \in Visitors, RecordAccess(v) PROVE ShareInv'
  <2>1. /\ share' = [share EXCEPT !.access_count = @ + 1] /\ served' = served + 1
        /\ visit' = [visit EXCEPT ![v] = NoVisit] /\ visit[v] # NoVisit /\ uncounted' = uncounted
      BY <1>4 DEF RecordAccess, IncrementAccess, Counted, NoVisit
  <2>2. Pending # {} /\ Cardinality(Pending') = Cardinality(Pending) - 1
      BY <2>1, PendingEnds
  <2>3. ShareTypeOK'
      BY <2>1 DEF ShareTypeOK, ShareRow, NoVisit
  <2>4. CountExact'
      BY <2>1 DEF CountExact, ShareTypeOK, ShareRow
  <2>5. CountBounded'
      BY <1>f, <2>1, <2>2 DEF CountBounded, ShareTypeOK, ShareRow
  <2> QED
      BY <2>3, <2>4, <2>5
<1>5. ASSUME NEW v \in Visitors, RecordFails(v) \/ DownloadFails(v) PROVE ShareInv'
  <2>1. /\ visit' = [visit EXCEPT ![v] = NoVisit] /\ visit[v] # NoVisit /\ share' = share
        /\ \/ UNCHANGED <<served, uncounted>>
           \/ served' = served + 1 /\ uncounted' = uncounted + 1
      BY <1>5 DEF RecordFails, DownloadFails, Counted, NoVisit
  <2>2. Pending # {} /\ Cardinality(Pending') = Cardinality(Pending) - 1
      BY <2>1, PendingEnds
  <2>3. ShareTypeOK'
      BY <2>1 DEF ShareTypeOK, ShareRow, NoVisit
  <2>4. CountExact'
      BY <2>1 DEF CountExact, ShareTypeOK, ShareRow
  <2>5. CountBounded'
      BY <1>f, <2>1, <2>2 DEF CountBounded, ShareTypeOK, ShareRow
  <2> QED
      BY <2>3, <2>4, <2>5
<1> QED
    BY <1>1, <1>2, <1>3, <1>4, <1>5 DEF ShareNext

\* What the room under the limit is for.
LEMMA InvServedWithinLimit == ShareInv => ServedWithinLimit
<1> SUFFICES ASSUME ShareInv, share.limited PROVE
        served < share.max_accesses + Cardinality(Visitors) + uncounted
    BY DEF ServedWithinLimit
<1>1. share.access_count + Cardinality(Pending) <= share.max_accesses - 1 + Cardinality(Visitors)
    BY DEF ShareInv, CountBounded
<1>2. served = share.access_count + uncounted
    BY DEF ShareInv, CountExact
<1> QED
    BY <1>1, <1>2, PendingFinite DEF ShareInv, ShareTypeOK, ShareRow

\* Requests at once pass max_accesses by fewer than there are of them, however
\* many there are, whatever the limit, but for those whose count failed.
THEOREM LimitPassedByFew == ShareSpec => []ServedWithinLimit
<1> QED
    BY ShareInitially, ShareStep, InvServedWithinLimit, PTL DEF ShareSpec
------------------------------------------------------------------------------
(* SearchService: how many entries a path may have, for any finite set of  *)
(* workers, any paths, any requests and any length of the queue.           *)

Task == [type : {"index", "deindex"}, id : Nat, path : DocPaths]

SearchTypeOK ==
    /\ docs \in Nat
    /\ \A id \in DOMAIN docRows : id \in Nat /\ docRows[id] \in DocPaths
    /\ index \in [DocPaths -> Seq(Nat)]
    /\ tasks \in Seq(Task)
    /\ submitting \in [Uploaders -> Task \cup {NoTask}]
    /\ indexing \in [Indexers -> Task \cup {NoTask}]

SearchInv == SearchTypeOK /\ EntriesBounded

------------------------------------------------------------------------------
\* The workers inserting at a path are some of a finite set.
LEMMA InsertingFinite ==
    ASSUME NEW p
    PROVE  /\ IsFiniteSet(Inserting(p)) /\ Cardinality(Inserting(p)) \in Nat
           /\ Cardinality(Indexers) \in Nat /\ Cardinality(Inserting(p)) <= Cardinality(Indexers)
<1>1. Inserting(p) \in SUBSET Indexers
    BY DEF Inserting
<1> QED
    BY <1>1, FS_Subset, FS_CardinalityType, IndexersAssumption

\* The same after a step.
LEMMA InsertingFiniteNext ==
    ASSUME NEW p
    PROVE  /\ IsFiniteSet(Inserting(p)') /\ Cardinality(Inserting(p)') \in Nat
           /\ Cardinality(Inserting(p)') <= Cardinality(Indexers)
<1>1. Inserting(p)' \in SUBSET Indexers
    BY DEF Inserting
<1> QED
    BY <1>1, FS_Subset, FS_CardinalityType, IndexersAssumption

\* An index without entries whose workers are idle.
LEMMA SearchInitially == SearchInit => SearchInv
<1> SUFFICES ASSUME SearchInit PROVE SearchInv
    OBVIOUS
<1>1. SearchTypeOK
    BY DEF SearchInit, SearchTypeOK
<1>2. ASSUME NEW p \in DocPaths
      PROVE  Len(index[p]) + Cardinality(Inserting(p)) <= Cardinality(Indexers)
  <2>1. Len(index[p]) = 0
      BY DEF SearchInit
  <2> QED
      BY <2>1, InsertingFinite
<1> QED
    BY <1>1, <1>2 DEF SearchInv, EntriesBounded

\* The head of the channel is a task, and what is left is a channel.
LEMMA HeadIsTask ==
    ASSUME SearchTypeOK, tasks # <<>>
    PROVE  Head(tasks) \in Task /\ Tail(tasks) \in Seq(Task)
BY DEF SearchTypeOK

\* Every step keeps the types.
LEMMA SearchTypes == SearchTypeOK /\ [SearchNext]_searchVars => SearchTypeOK'
<1> SUFFICES ASSUME SearchTypeOK, [SearchNext]_searchVars PROVE SearchTypeOK'
    OBVIOUS
<1>1. ASSUME NEW u \in Uploaders, NEW p \in DocPaths, UploadDoc(u, p) PROVE SearchTypeOK'
  <2>1. docs' = docs + 1 /\ docs' \in Nat /\ docRows' = Put(docRows, docs', p)
      BY <1>1 DEF UploadDoc, SearchTypeOK
  <2>2. \A id \in DOMAIN docRows' : id \in Nat /\ docRows'[id] \in DocPaths
      BY <2>1 DEF Put, SearchTypeOK
  <2>3. submitting' \in [Uploaders -> Task \cup {NoTask}]
      BY <1>1, <2>1 DEF UploadDoc, SearchTypeOK, Task
  <2> QED
      BY <1>1, <2>1, <2>2, <2>3 DEF UploadDoc, SearchTypeOK
<1>2. ASSUME NEW u \in Uploaders, NEW id \in DOMAIN docRows, DeleteDoc(u, id)
      PROVE  SearchTypeOK'
  <2>1. id \in Nat /\ docRows[id] \in DocPaths
      BY DEF SearchTypeOK
  <2>2. \A i \in DOMAIN docRows' : i \in Nat /\ docRows'[i] \in DocPaths
      BY <1>2 DEF DeleteDoc, Without, SearchTypeOK
  <2>3. submitting' \in [Uploaders -> Task \cup {NoTask}]
      BY <1>2, <2>1 DEF DeleteDoc, SearchTypeOK, Task
  <2> QED
      BY <1>2, <2>2, <2>3 DEF DeleteDoc, SearchTypeOK
<1>3. ASSUME NEW u \in Uploaders, SubmitAsync(u) \/ ChargeFails(u) PROVE SearchTypeOK'
  <2>1. submitting' \in [Uploaders -> Task \cup {NoTask}]
      BY <1>3 DEF SubmitAsync, ChargeFails, SearchTypeOK
  <2>2. submitting[u] # NoTask => submitting[u] \in Task
      BY DEF SearchTypeOK
  <2>3. tasks' \in Seq(Task)
      BY <1>3, <2>2 DEF SubmitAsync, ChargeFails, SearchTypeOK
  <2> QED
      BY <1>3, <2>1, <2>3 DEF SubmitAsync, ChargeFails, SearchTypeOK
<1>4. ASSUME NEW w \in Indexers, Remove(w) PROVE SearchTypeOK'
  <2>1. Head(tasks) \in Task /\ Tail(tasks) \in Seq(Task)
      BY <1>4, HeadIsTask DEF Remove, Taken
  <2> QED
      BY <1>4, <2>1 DEF Remove, SearchTypeOK, Task
<1>5. ASSUME NEW w \in Indexers, IndexDelete(w) PROVE SearchTypeOK'
  <2>1. Head(tasks) \in Task /\ Tail(tasks) \in Seq(Task)
      BY <1>5, HeadIsTask DEF IndexDelete, Taken
  <2>2. index' \in [DocPaths -> Seq(Nat)]
    <3>1. index' = index \/ index' = [index EXCEPT ![Head(tasks).path] = <<>>]
        BY <1>5 DEF IndexDelete, DeleteOld
    <3>2. CASE index' = [index EXCEPT ![Head(tasks).path] = <<>>]
      <4> DEFINE old == Head(tasks).path
      <4>1. index \in [DocPaths -> Seq(Nat)] /\ index' = [index EXCEPT ![old] = <<>>]
          BY <3>2 DEF SearchTypeOK
      <4>2. <<>> \in Seq(Nat)
          OBVIOUS
      <4> HIDE DEF old
      <4> QED
          BY <4>1, <4>2
    <3>3. CASE index' = index
        BY <3>3 DEF SearchTypeOK
    <3> QED
        BY <3>1, <3>2, <3>3
  <2>3. indexing' \in [Indexers -> Task \cup {NoTask}]
    <3>1. indexing' = indexing \/ indexing' = [indexing EXCEPT ![w] = Head(tasks)]
        BY <1>5 DEF IndexDelete
    <3> QED
        BY <2>1, <3>1 DEF SearchTypeOK
  <2> QED
      BY <1>5, <2>1, <2>2, <2>3 DEF IndexDelete, SearchTypeOK
<1>6. ASSUME NEW w \in Indexers, IndexInsert(w) PROVE SearchTypeOK'
  <2>1. indexing[w] \in Task
      BY <1>6 DEF IndexInsert, SearchTypeOK
  <2>2. index' \in [DocPaths -> Seq(Nat)]
      BY <1>6, <2>1 DEF IndexInsert, SearchTypeOK, Task
  <2> QED
      BY <1>6, <2>2 DEF IndexInsert, SearchTypeOK
<1>7. ASSUME NEW w \in Indexers, TaskFails(w) PROVE SearchTypeOK'
  <2>1. CASE tasks # <<>> /\ tasks' = Tail(tasks) /\ UNCHANGED indexing
    <3>1. tasks' \in Seq(Task)
        BY <2>1, HeadIsTask
    <3> QED
        BY <1>7, <2>1, <3>1 DEF TaskFails, SearchTypeOK
  <2>2. CASE indexing' = [indexing EXCEPT ![w] = NoTask] /\ UNCHANGED tasks
    <3>1. indexing' \in [Indexers -> Task \cup {NoTask}]
        BY <2>2 DEF SearchTypeOK
    <3> QED
        BY <1>7, <2>2, <3>1 DEF TaskFails, SearchTypeOK
  <2> QED
      BY <1>7, <2>1, <2>2 DEF TaskFails
<1>8. CASE SearchRestarts
    BY <1>8 DEF SearchRestarts, SearchTypeOK
<1>9. CASE UNCHANGED searchVars
    BY <1>9 DEF searchVars, SearchTypeOK
<1> QED
    BY <1>1, <1>2, <1>3, <1>4, <1>5, <1>6, <1>7, <1>8, <1>9 DEF SearchNext, handleTask

\* A path whose entries grow no more and whose workers are no others keeps its
\* bound.
LEMMA BoundKept ==
    ASSUME SearchInv, SearchTypeOK', NEW p \in DocPaths, Len(index'[p]) <= Len(index[p]),
           Inserting(p)' \subseteq Inserting(p)
    PROVE  Len(index'[p]) + Cardinality(Inserting(p)') <= Cardinality(Indexers)
<1>1. Cardinality(Inserting(p)') <= Cardinality(Inserting(p))
    BY InsertingFinite, FS_Subset
<1>2. Len(index[p]) + Cardinality(Inserting(p)) <= Cardinality(Indexers)
    BY DEF SearchInv, EntriesBounded
<1>3. Len(index'[p]) \in Nat /\ Len(index[p]) \in Nat
    BY DEF SearchInv, SearchTypeOK
<1> QED
    BY <1>1, <1>2, <1>3, InsertingFinite, InsertingFiniteNext

\* Every step keeps the bound.
LEMMA SearchStep == SearchInv /\ [SearchNext]_searchVars => SearchInv'
<1> SUFFICES ASSUME SearchInv, [SearchNext]_searchVars, NEW p \in DocPaths
             PROVE  Len(index'[p]) + Cardinality(Inserting(p)') <= Cardinality(Indexers)
    BY SearchTypes DEF SearchInv, EntriesBounded
<1>t. SearchTypeOK /\ SearchTypeOK'
    BY SearchTypes DEF SearchInv
<1>n. Len(index[p]) \in Nat /\ Len(index'[p]) \in Nat
    BY <1>t DEF SearchTypeOK
<1>1. CASE UNCHANGED <<index, indexing>>
    BY <1>1, <1>t, <1>n, BoundKept DEF Inserting
<1>2. ASSUME NEW w \in Indexers, Remove(w)
      PROVE  Len(index'[p]) + Cardinality(Inserting(p)') <= Cardinality(Indexers)
  <2>1. index'[p] = index[p] \/ index'[p] = <<>>
      BY <1>2, <1>t DEF Remove, SearchTypeOK
  <2>2. Len(index'[p]) <= Len(index[p])
      BY <1>n, <2>1
  <2>3. Inserting(p)' = Inserting(p)
      BY <1>2 DEF Remove, Inserting
  <2> QED
      BY <1>t, <2>2, <2>3, BoundKept
<1>3. ASSUME NEW w \in Indexers, IndexDelete(w), Head(tasks).id \in DOMAIN docRows
      PROVE  Len(index'[p]) + Cardinality(Inserting(p)') <= Cardinality(Indexers)
  <2> DEFINE task == Head(tasks)
  <2>1. /\ index' = [index EXCEPT ![task.path] = <<>>] /\ indexing[w] = NoTask
        /\ indexing' = [indexing EXCEPT ![w] = task]
      BY <1>3 DEF IndexDelete, DeleteOld, Taken
  <2>2. CASE task.path = p
    <3>1. Len(index'[p]) = 0
        BY <1>t, <2>1, <2>2 DEF SearchTypeOK
    <3> QED
        BY <3>1, InsertingFiniteNext, InsertingFinite
  <2>3. CASE task.path # p
    <3>1. index'[p] = index[p]
        BY <1>t, <2>1, <2>3 DEF SearchTypeOK
    <3>2. Inserting(p)' \subseteq Inserting(p)
        BY <1>t, <2>1, <2>3 DEF SearchTypeOK, Inserting
    <3> QED
        BY <1>t, <1>n, <3>1, <3>2, BoundKept
  <2> QED
      BY <2>2, <2>3
<1>4. ASSUME NEW w \in Indexers, IndexInsert(w)
      PROVE  Len(index'[p]) + Cardinality(Inserting(p)') <= Cardinality(Indexers)
  <2>1. /\ index' = [index EXCEPT ![indexing[w].path] = Append(@, indexing[w].id)]
        /\ indexing' = [indexing EXCEPT ![w] = NoTask]
        /\ indexing[w] # NoTask /\ indexing[w] \in Task
      BY <1>4, <1>t DEF IndexInsert, SearchTypeOK
  <2>2. CASE indexing[w].path = p
    <3>1. w \in Inserting(p) /\ Inserting(p)' = Inserting(p) \ {w}
        BY <1>t, <2>1, <2>2 DEF Inserting, SearchTypeOK
    <3>2. Cardinality(Inserting(p)') = Cardinality(Inserting(p)) - 1
        BY <3>1, InsertingFinite, FS_RemoveElement
    <3>3. index'[p] = Append(index[p], indexing[w].id) /\ index[p] \in Seq(Nat)
        BY <1>t, <2>1, <2>2 DEF SearchTypeOK
    <3>4. Len(index'[p]) = Len(index[p]) + 1
        BY <2>1, <3>3 DEF Task
    <3> QED
        BY <1>n, <3>2, <3>4, InsertingFinite DEF SearchInv, EntriesBounded
  <2>3. CASE indexing[w].path # p
    <3>1. index'[p] = index[p]
        BY <1>t, <2>1, <2>3 DEF SearchTypeOK
    <3>2. Inserting(p)' \subseteq Inserting(p)
        BY <1>t, <2>1 DEF SearchTypeOK, Inserting
    <3> QED
        BY <1>t, <1>n, <3>1, <3>2, BoundKept
  <2> QED
      BY <2>2, <2>3
<1>5. CASE SearchRestarts \/ \E w \in Indexers : TaskFails(w)
  <2>1. index' = index
      BY <1>5 DEF SearchRestarts, TaskFails
  <2>2. Inserting(p)' \subseteq Inserting(p)
      BY <1>5, <1>t DEF SearchRestarts, TaskFails, Inserting, SearchTypeOK
  <2> QED
      BY <1>n, <1>t, <2>1, <2>2, BoundKept
<1>6. ASSUME NEW w \in Indexers, IndexDelete(w), Head(tasks).id \notin DOMAIN docRows
      PROVE  UNCHANGED <<index, indexing>>
    BY <1>6 DEF IndexDelete
<1>7. ASSUME NEW u \in Uploaders,
             \/ SubmitAsync(u) \/ ChargeFails(u)
             \/ \E q \in DocPaths : UploadDoc(u, q)
             \/ \E id \in DOMAIN docRows : DeleteDoc(u, id)
      PROVE  UNCHANGED <<index, indexing>>
    BY <1>7 DEF SubmitAsync, ChargeFails, UploadDoc, DeleteDoc
<1>8. UNCHANGED searchVars => UNCHANGED <<index, indexing>>
    BY DEF searchVars
<1> QED
    BY <1>1, <1>2, <1>3, <1>4, <1>5, <1>6, <1>7, <1>8 DEF SearchNext, handleTask

\* A path never has more entries than there are workers, whatever tasks of it
\* are handled at once, fail or are lost.
THEOREM EntriesAtMostWorkers == SearchSpec => []EntriesBounded
<1>1. SearchInv => EntriesBounded
    BY DEF SearchInv
<1> QED
    BY SearchInitially, SearchStep, <1>1, PTL DEF SearchSpec
------------------------------------------------------------------------------
(* UserService: what the requests of an account keep, for any set of them  *)
(* at once, any clients, any life of a token and any number of reset       *)
(* tokens.                                                                 *)

UserRow == [totp_secret : Nat, totp_enabled : BOOLEAN, is_active : BOOLEAN,
            reset_token : Nat, expired : BOOLEAN, e2ee : Nat]
Ops == {"quiet", "setup", "enable", "disable", "activate", "deactivate", "reset", "clear"}

UserTypeOK ==
    /\ user \in UserRow /\ made \in Nat
    /\ call \in [Calls -> [op : Ops, u : UserRow]]
    /\ jwt \in [Clients -> Nat]
    /\ acked \in Nat

\* Tokens in the row and in the requests that met one are of those made up, so
\* that a new one is none of the spent.
TokensMade ==
    /\ spent \subseteq 1..made /\ user.reset_token \in 0..made
    /\ \A c \in Calls : call[c].op \in {"reset", "clear"} => call[c].u.reset_token \in 1..made

\* The rows that requests hold, to be written back, ask for codes of such a secret too.
Proven(u) == u.totp_enabled => u.totp_secret \in proven
HeldProven == \A c \in Calls : Proven(call[c].u)

UserInv ==
    /\ UserTypeOK
    /\ TargetedColumnsKept
    /\ TokensMade /\ ResetTokenSpent
    /\ AskedSecretProven /\ HeldProven

------------------------------------------------------------------------------
\* A new account has no secret, no key and no token.
LEMMA UserInitially == UserInit => UserInv
<1> SUFFICES ASSUME UserInit PROVE UserInv
    OBVIOUS
<1>1. NewRow \in UserRow
    BY DEF NewRow, UserRow, None
<1>2. UserTypeOK
    BY <1>1, UserAssumption DEF UserInit, UserTypeOK, Quiet, Ops, None
<1>3. TargetedColumnsKept /\ TokensMade /\ ResetTokenSpent
    BY DEF UserInit, TargetedColumnsKept, TokensMade, ResetTokenSpent, NewRow, Quiet, None
<1>4. AskedSecretProven /\ HeldProven
    BY DEF UserInit, AskedSecretProven, HeldProven, Proven, NewRow, Quiet
<1> QED
    BY <1>2, <1>3, <1>4 DEF UserInv

\* A request that reads the row: what it holds is the row, or the row without
\* its token when it does not look for one.
LEMMA ReadsKeep ==
    ASSUME UserInv, NEW c \in Calls, NEW op \in Ops \ {"clear"}, NEW row \in UserRow,
           Reads(c, op, row), Proven(row),
           op = "reset" => row.reset_token \in 1..made
    PROVE  UserInv'
<1>1. /\ UNCHANGED <<user, made, jwt, spent, acked, proven>>
      /\ call' = [call EXCEPT ![c] = [op |-> op, u |-> row]]
    BY DEF Reads
<1>2. UserTypeOK'
    BY <1>1 DEF UserInv, UserTypeOK
<1>3. TargetedColumnsKept' /\ ResetTokenSpent' /\ AskedSecretProven'
    BY <1>1 DEF UserInv, TargetedColumnsKept, ResetTokenSpent, AskedSecretProven
<1>4. TokensMade'
    BY <1>1 DEF UserInv, UserTypeOK, TokensMade
<1>5. HeldProven'
  <2>1. \A k \in Calls : call'[k] = call[k] \/ call'[k].u = row
      BY <1>1 DEF UserInv, UserTypeOK
  <2> QED
      BY <1>1, <2>1 DEF UserInv, HeldProven, Proven
<1> QED
    BY <1>2, <1>3, <1>4, <1>5 DEF UserInv

\* What Update leaves alone is what the three properties of the row rest on.
LEMMA UpdateKeeps ==
    ASSUME UserInv, NEW row \in UserRow, Update(row)
    PROVE  /\ user' \in UserRow
           /\ user'.e2ee = user.e2ee /\ user'.reset_token = user.reset_token
           /\ user'.totp_enabled = row.totp_enabled /\ user'.totp_secret = row.totp_secret
BY DEF UserInv, UserTypeOK, Update, UserRow

\* A request that writes its row back and ends.  A secret proven stays so.
LEMMA WritesKeep ==
    ASSUME UserInv, NEW c \in Calls, NEW op, NEW row \in UserRow,
           Writes(c, op, row), proven \subseteq proven',
           row.totp_enabled => row.totp_secret \in proven'
    PROVE  UserInv'
<1>1. /\ UNCHANGED <<made, jwt, spent, acked>> /\ Update(row)
      /\ call' = [call EXCEPT ![c] = Quiet]
    BY DEF Writes
<1>2. /\ user' \in UserRow
      /\ user'.e2ee = user.e2ee /\ user'.reset_token = user.reset_token
      /\ user'.totp_enabled = row.totp_enabled /\ user'.totp_secret = row.totp_secret
    BY <1>1, UpdateKeeps
<1>3. Quiet.op = "quiet" /\ Quiet \in [op : Ops, u : UserRow] /\ ~ Quiet.u.totp_enabled
    BY DEF Quiet, NewRow, UserRow, Ops, None
<1>4. UserTypeOK'
    BY <1>1, <1>2, <1>3 DEF UserInv, UserTypeOK
<1>5. TargetedColumnsKept' /\ ResetTokenSpent' /\ AskedSecretProven'
    BY <1>1, <1>2 DEF UserInv, TargetedColumnsKept, ResetTokenSpent, AskedSecretProven
<1>6. TokensMade'
    BY <1>1, <1>2, <1>3 DEF UserInv, UserTypeOK, TokensMade
<1>7. HeldProven'
  <2>1. \A k \in Calls : call'[k] = call[k] \/ call'[k] = Quiet
      BY <1>1 DEF UserInv, UserTypeOK
  <2> QED
      BY <1>3, <2>1 DEF UserInv, HeldProven, Proven
<1> QED
    BY <1>4, <1>5, <1>6, <1>7 DEF UserInv

\* SetResetToken leaves the other columns alone.
LEMMA SetTokenKeeps ==
    ASSUME UserTypeOK, NEW t \in Nat, SetResetToken(t)
    PROVE  /\ user' \in UserRow /\ user'.reset_token = t /\ user'.e2ee = user.e2ee
           /\ user'.totp_enabled = user.totp_enabled /\ user'.totp_secret = user.totp_secret
<1>1. user \in UserRow /\ user' = [user EXCEPT !.reset_token = t, !.expired = FALSE]
    BY DEF UserTypeOK, SetResetToken
<1>2. user' = [totp_secret |-> user.totp_secret, totp_enabled |-> user.totp_enabled,
               is_active |-> user.is_active, reset_token |-> t, expired |-> FALSE,
               e2ee |-> user.e2ee]
    BY <1>1 DEF UserRow
<1> QED
    BY <1>1, <1>2 DEF UserRow

\* A request that ends, with the row as it was or without its token.
LEMMA EndsKeep ==
    ASSUME UserInv, NEW c \in Calls, call' = [call EXCEPT ![c] = Quiet],
           UNCHANGED <<made, jwt, acked, proven>>,
           \/ UNCHANGED <<user, spent>>
           \/ ClearResetToken(c)
    PROVE  UserInv'
<1>1. Quiet.op = "quiet" /\ Quiet \in [op : Ops, u : UserRow] /\ ~ Quiet.u.totp_enabled
    BY DEF Quiet, NewRow, UserRow, Ops, None
<1>2. /\ user' \in UserRow /\ user'.e2ee = user.e2ee
      /\ user'.totp_enabled = user.totp_enabled /\ user'.totp_secret = user.totp_secret
  <2>1. CASE UNCHANGED <<user, spent>>
      BY <2>1 DEF UserInv, UserTypeOK
  <2>2. CASE ClearResetToken(c)
      BY <2>2, SetTokenKeeps DEF UserInv, ClearResetToken, None
  <2> QED
      BY <2>1, <2>2
<1>3. /\ user'.reset_token \in 0..made /\ user'.reset_token \notin spent'
      /\ spent' \subseteq 1..made
  <2>1. CASE UNCHANGED <<user, spent>>
      BY <2>1 DEF UserInv, TokensMade, ResetTokenSpent
  <2>2. CASE ClearResetToken(c)
    <3>1. spent' = spent \cup {call[c].u.reset_token} /\ user'.reset_token = 0
        BY <2>2, SetTokenKeeps DEF UserInv, ClearResetToken, None
    <3>2. call[c].u.reset_token \in 1..made
        BY <2>2 DEF ClearResetToken, UserInv, TokensMade
    <3>3. spent \subseteq 1..made /\ made \in Nat
        BY DEF UserInv, UserTypeOK, TokensMade
    <3>4. spent' \subseteq 1..made
        BY <3>1, <3>2, <3>3
    <3>5. 0 \in 0..made /\ 0 \notin 1..made
        BY <3>3
    <3> QED
        BY <3>1, <3>4, <3>5
  <2> QED
      BY <2>1, <2>2
<1>4. UserTypeOK'
    BY <1>1, <1>2 DEF UserInv, UserTypeOK
<1>5. TargetedColumnsKept' /\ ResetTokenSpent' /\ AskedSecretProven'
    BY <1>2, <1>3 DEF UserInv, TargetedColumnsKept, ResetTokenSpent, AskedSecretProven
<1>6. TokensMade'
    BY <1>1, <1>3 DEF UserInv, UserTypeOK, TokensMade
<1>7. HeldProven'
  <2>1. \A k \in Calls : call'[k] = call[k] \/ call'[k] = Quiet
      BY DEF UserInv, UserTypeOK
  <2> QED
      BY <1>1, <2>1 DEF UserInv, HeldProven, Proven
<1> QED
    BY <1>4, <1>5, <1>6, <1>7 DEF UserInv

\* Every step of a request or of time keeps what the properties rest on.
LEMMA UserStep == UserInv /\ [UserNext]_userVars => UserInv'
<1> SUFFICES ASSUME UserInv, [UserNext]_userVars PROVE UserInv'
    OBVIOUS
<1>t. UserTypeOK /\ Proven(user)
    BY DEF UserInv, AskedSecretProven, Proven
<1>h. \A c \in Calls : call[c].u \in UserRow /\ Proven(call[c].u)
    BY <1>t DEF UserInv, UserTypeOK, HeldProven
<1>1. ASSUME NEW c \in Calls, HandleTOTP(c) \/ HandleToggle(c) PROVE UserInv'
  <2>1. PICK op \in {"setup", "enable", "disable", "activate", "deactivate"} : GetByID(c, op)
      BY <1>1 DEF HandleTOTP, HandleToggle
  <2> DEFINE row == [user EXCEPT !.reset_token = None, !.expired = FALSE]
  <2>2. row \in UserRow /\ Proven(row)
      BY <1>t DEF UserTypeOK, UserRow, Proven, None
  <2>3. Reads(c, op, row) /\ op \in Ops \ {"clear"} /\ op # "reset"
      BY <2>1 DEF GetByID, Ops
  <2> QED
      BY <2>2, <2>3, ReadsKeep
<1>2. ASSUME NEW c \in Calls, HandleReset(c) PROVE UserInv'
  <2>1. Reads(c, "reset", user) /\ user.reset_token \in 1..made
      BY <1>2 DEF HandleReset, GetByResetToken
  <2>2. "reset" \in Ops \ {"clear"} /\ user \in UserRow
      BY <1>t DEF Ops, UserTypeOK
  <2> QED
      BY <1>t, <2>1, <2>2, ReadsKeep
<1>3. ASSUME NEW c \in Calls, SetupTOTP(c) PROVE UserInv'
  <2>1. PICK x \in Secrets :
            /\ Writes(c, "setup", [call[c].u EXCEPT !.totp_secret = x])
            /\ proven' = IF call[c].u.totp_enabled THEN proven \cup {x} ELSE proven
      BY <1>3 DEF SetupTOTP
  <2> DEFINE row == [call[c].u EXCEPT !.totp_secret = x]
  <2>2. x \in Nat
      BY UserAssumption
  <2>3. /\ row \in UserRow /\ row.totp_secret = x
        /\ row.totp_enabled = call[c].u.totp_enabled
      BY <1>h, <2>2 DEF UserRow
  <2>4. proven \subseteq proven' /\ (row.totp_enabled => row.totp_secret \in proven')
      BY <2>1, <2>3
  <2>5. Writes(c, "setup", row)
      BY <2>1
  <2> HIDE DEF row
  <2> QED
      BY <2>3, <2>4, <2>5, WritesKeep
<1>4. ASSUME NEW c \in Calls, EnableTOTP(c) PROVE UserInv'
  <2> DEFINE row == [call[c].u EXCEPT !.totp_enabled = TRUE]
  <2>1. row \in UserRow /\ row.totp_secret = call[c].u.totp_secret
      BY <1>h DEF UserRow
  <2>2. Writes(c, "enable", row) /\ proven' = proven \cup {call[c].u.totp_secret}
      BY <1>4 DEF EnableTOTP
  <2>3. proven \subseteq proven' /\ row.totp_secret \in proven'
      BY <2>1, <2>2
  <2> HIDE DEF row
  <2> QED
      BY <2>1, <2>2, <2>3, WritesKeep
<1>5. ASSUME NEW c \in Calls, DisableTOTP(c) PROVE UserInv'
  <2> DEFINE row == [call[c].u EXCEPT !.totp_enabled = FALSE, !.totp_secret = None]
  <2>1. row \in UserRow /\ ~ row.totp_enabled
      BY <1>h DEF UserRow, None
  <2>2. Writes(c, "disable", row) /\ proven' = proven
      BY <1>5 DEF DisableTOTP
  <2> HIDE DEF row
  <2> QED
      BY <2>1, <2>2, WritesKeep
<1>6. ASSUME NEW c \in Calls, ToggleUserActive(c) PROVE UserInv'
  <2>1. PICK active \in BOOLEAN, op \in Ops : /\ Writes(c, op, [call[c].u EXCEPT !.is_active = active])
                                               /\ proven' = proven
      BY <1>6 DEF ToggleUserActive, Ops
  <2> DEFINE row == [call[c].u EXCEPT !.is_active = active]
  <2>2. row \in UserRow /\ (row.totp_enabled => row.totp_secret \in proven')
      BY <1>h, <2>1 DEF UserRow, Proven
  <2>3. Writes(c, op, row)
      BY <2>1
  <2> HIDE DEF row
  <2> QED
      BY <2>1, <2>2, <2>3, WritesKeep
<1>7. ASSUME NEW c \in Calls, ResetPassword(c) PROVE UserInv'
  <2>1. /\ call[c].op = "reset" /\ Update(call[c].u)
        /\ call' = [call EXCEPT ![c].op = "clear"]
        /\ UNCHANGED <<made, jwt, spent, acked, proven>>
      BY <1>7 DEF ResetPassword
  <2>2. /\ user' \in UserRow
        /\ user'.e2ee = user.e2ee /\ user'.reset_token = user.reset_token
        /\ user'.totp_enabled => user'.totp_secret \in proven
      BY <1>h, <2>1, UpdateKeeps DEF Proven
  <2>3. UserTypeOK'
      BY <1>t, <2>1, <2>2 DEF UserTypeOK, Ops
  <2>4. TargetedColumnsKept' /\ ResetTokenSpent' /\ AskedSecretProven'
      BY <2>1, <2>2 DEF UserInv, TargetedColumnsKept, ResetTokenSpent, AskedSecretProven
  <2>5. TokensMade'
      BY <1>t, <2>1, <2>2 DEF UserInv, UserTypeOK, TokensMade
  <2>6. HeldProven'
      BY <1>t, <1>h, <2>1 DEF UserTypeOK, HeldProven, Proven
  <2> QED
      BY <2>3, <2>4, <2>5, <2>6 DEF UserInv
<1>8. ASSUME NEW c \in Calls, ClearResetToken(c) \/ CallFails(c) PROVE UserInv'
    BY <1>8, EndsKeep DEF ClearResetToken, CallFails
<1>9. CASE ForgotPassword
  <2>1. /\ made' = made + 1 /\ SetResetToken(made + 1) /\ made + 1 \in Nat
        /\ UNCHANGED <<call, jwt, spent, acked, proven>>
      BY <1>t, <1>9 DEF ForgotPassword, UserTypeOK, SetResetToken
  <2>2. /\ user'.reset_token = made + 1 /\ user'.e2ee = user.e2ee /\ user' \in UserRow
        /\ user'.totp_enabled = user.totp_enabled /\ user'.totp_secret = user.totp_secret
      BY <1>t, <2>1, SetTokenKeeps
  <2>3. UserTypeOK'
      BY <1>t, <2>1, <2>2 DEF UserTypeOK
  <2>4. TargetedColumnsKept' /\ AskedSecretProven' /\ HeldProven'
      BY <2>1, <2>2 DEF UserInv, TargetedColumnsKept, AskedSecretProven, HeldProven, Proven
  <2>5. TokensMade' /\ ResetTokenSpent'
      BY <1>t, <2>1, <2>2 DEF UserInv, UserTypeOK, TokensMade, ResetTokenSpent
  <2> QED
      BY <2>3, <2>4, <2>5 DEF UserInv
<1>10. ASSUME NEW k \in Clients, Login(k) \/ RefreshToken(k) \/ JWTExpires(k) PROVE UserInv'
  <2>1. UNCHANGED <<user, made, call, spent, acked, proven>> /\ jwt' \in [Clients -> Nat]
      BY <1>t, <1>10, UserAssumption
      DEF Login, RefreshToken, JWTExpires, GenerateToken, UserTypeOK
  <2> QED
      BY <2>1 DEF UserInv, UserTypeOK, TargetedColumnsKept, TokensMade, ResetTokenSpent,
                  AskedSecretProven, HeldProven, Proven
<1>11. CASE SetE2EE \/ DisableE2EE
  <2>1. PICK k \in Nat : user' = [user EXCEPT !.e2ee = k] /\ acked' = k
      BY <1>11, UserAssumption DEF SetE2EE, SetE2EEKeys, DisableE2EE, ClearE2EE, None
  <2>2. UNCHANGED <<made, call, jwt, spent, proven>>
      BY <1>11 DEF SetE2EE, DisableE2EE
  <2>3. /\ user'.reset_token = user.reset_token /\ user'.e2ee = k /\ user' \in UserRow
        /\ user'.totp_enabled = user.totp_enabled /\ user'.totp_secret = user.totp_secret
      BY <1>t, <2>1 DEF UserTypeOK, UserRow
  <2> QED
      BY <2>1, <2>2, <2>3 DEF UserInv, UserTypeOK, TargetedColumnsKept, TokensMade,
         ResetTokenSpent, AskedSecretProven, HeldProven, Proven
<1>12. CASE ResetTokenExpires \/ UNCHANGED userVars
  <2>1. UNCHANGED <<made, call, jwt, spent, acked, proven>>
      BY <1>12 DEF ResetTokenExpires, userVars
  <2>2. /\ user'.reset_token = user.reset_token /\ user'.e2ee = user.e2ee /\ user' \in UserRow
        /\ user'.totp_enabled = user.totp_enabled /\ user'.totp_secret = user.totp_secret
      BY <1>t, <1>12 DEF ResetTokenExpires, userVars, UserTypeOK, UserRow
  <2> QED
      BY <2>1, <2>2 DEF UserInv, UserTypeOK, TargetedColumnsKept, TokensMade,
         ResetTokenSpent, AskedSecretProven, HeldProven, Proven
<1> QED
    BY <1>1, <1>2, <1>3, <1>4, <1>5, <1>6, <1>7, <1>8, <1>9, <1>10, <1>11, <1>12 DEF UserNext

\* The wrapped key is the one last acknowledged, whatever stale rows are
\* written back over it.
THEOREM WrappedKeyKept == UserSpec => []TargetedColumnsKept
<1>1. UserInv => TargetedColumnsKept
    BY DEF UserInv
<1> QED
    BY UserInitially, UserStep, <1>1, PTL DEF UserSpec

\* A reset token is good for no request that begins after the one it changed a
\* password for has ended.
THEOREM SpentTokenIsGone == UserSpec => []ResetTokenSpent
<1>1. UserInv => ResetTokenSpent
    BY DEF UserInv
<1> QED
    BY UserInitially, UserStep, <1>1, PTL DEF UserSpec

\* Whatever requests set up, enable and disable codes at once, an account that asks for
\* codes asks for those of a secret EnableTOTP accepted a code of, the empty one
\* included, or of one SetupTOTP put in the place of a secret already asked for.
THEOREM AskedSecretsAreProven == UserSpec => []AskedSecretProven
<1>1. UserInv => AskedSecretProven
    BY DEF UserInv
<1> QED
    BY UserInitially, UserStep, <1>1, PTL DEF UserSpec
------------------------------------------------------------------------------
(* RateLimiter: how many requests of an address fit in one window's        *)
(* length, for any rate, any window, any interval between the ticks and    *)
(* any addresses.                                                          *)

RateTypeOK ==
    /\ now \in Nat /\ cleaned \in Nat
    /\ allowed \in [Addresses -> Seq(Nat)]
    /\ \A ip \in DOMAIN entries : entries[ip] \in [count : Nat, windowStart : Nat]

\* The first `count` requests from the end are those of the open window.
Open(ip) ==
    LET a == allowed[ip]  n == Len(a)  c == entries[ip].count  start == entries[ip].windowStart
    IN /\ c \in 1..Rate /\ start <= now
       /\ \A i \in 1..n : a[i] < start + WindowLength
       /\ \A i \in 1..n : i <= n - c + 1 => a[i] <= start
       /\ \A i \in 1..n : i <= n - c - Rate + 1 => a[i] + WindowLength <= start

\* An address is forgotten when its last request is a window ago.
Forgotten(ip) == \A i \in 1..Len(allowed[ip]) : allowed[ip][i] + WindowLength <= now

\* Between the first and the last of twice the rate lies a window's length.
Spread(a) ==
    \A i \in 1..Len(a) :
        i + 2 * Rate - 1 <= Len(a) => a[i + 2 * Rate - 1] - a[i] >= WindowLength

Tracked(ip) == IF ip \in DOMAIN entries THEN Open(ip) ELSE Forgotten(ip)

RateInv ==
    /\ RateTypeOK
    /\ \A ip \in Addresses : Spread(allowed[ip]) /\ Tracked(ip)

------------------------------------------------------------------------------
\* The window of an address stays open while nothing it is made of changes.
LEMMA OpenKept ==
    ASSUME NEW ip, Open(ip), allowed'[ip] = allowed[ip], entries'[ip] = entries[ip], now' = now
    PROVE  Open(ip)'
<1> DEFINE a == allowed[ip]
           c == entries[ip].count
           start == entries[ip].windowStart
<1>1. /\ c \in 1..Rate /\ start <= now
      /\ \A i \in 1..Len(a) : a[i] < start + WindowLength
      /\ \A i \in 1..Len(a) : i <= Len(a) - c + 1 => a[i] <= start
      /\ \A i \in 1..Len(a) : i <= Len(a) - c - Rate + 1 => a[i] + WindowLength <= start
    BY DEF Open
<1>2. allowed'[ip] = a /\ entries'[ip].count = c /\ entries'[ip].windowStart = start
    OBVIOUS
<1> HIDE DEF a, c, start
<1> QED
    BY <1>1, <1>2 DEF Open

\* No request has been counted.
LEMMA RateInitially == RateInit => RateInv
<1> SUFFICES ASSUME RateInit PROVE RateInv
    OBVIOUS
<1>1. RateTypeOK
    BY DEF RateInit, RateTypeOK
<1>2. ASSUME NEW ip \in Addresses PROVE Spread(allowed[ip]) /\ Tracked(ip)
    BY DEF RateInit, Spread, Tracked, Forgotten
<1> QED
    BY <1>1, <1>2 DEF RateInv

\* A request let through: it begins a window, or is one more of the open one.
\* In both cases the request 2 * Rate - 1 before it is of no later window than
\* the one before.
LEMMA RequestKeeps ==
    ASSUME RateInv, NEW ip \in Addresses, RateLimit(ip)
    PROVE  Spread(allowed'[ip]) /\ Tracked(ip)'
<1> DEFINE a == allowed[ip]
           n == Len(a)
           b == Append(a, now)
           c == entries'[ip].count
           start == entries'[ip].windowStart
<1>t. /\ now \in Nat /\ a \in Seq(Nat) /\ n \in Nat
      /\ Rate \in Nat /\ Rate > 0 /\ WindowLength \in Nat /\ WindowLength > 0
    BY RateAssumption DEF RateInv, RateTypeOK
<1>b. /\ allowed'[ip] = b /\ Len(b) = n + 1 /\ b[n + 1] = now
      /\ \A i \in 1..n : b[i] = a[i] /\ a[i] \in Nat
    BY <1>t DEF RateLimit, RateInv, RateTypeOK
<1>e. \A i \in 1..n : a[i] \in Nat
    BY <1>b
<1>n. now' = now
    BY DEF RateLimit
<1>1. /\ ip \in DOMAIN entries' /\ c \in 1..Rate /\ start \in Nat /\ start <= now
      /\ now < start + WindowLength
      /\ \A i \in 1..n : i <= n + 1 - c - Rate + 1 => a[i] + WindowLength <= start
      /\ \A i \in 1..n : i <= n + 1 - c + 1 => a[i] <= start
      /\ \A i \in 1..n : a[i] < start + WindowLength
      /\ n + 1 <= n + 1 - c + 1 => now <= start
  <2>1. CASE ip \notin DOMAIN entries
    <3>1. entries' = Put(entries, ip, [count |-> 1, windowStart |-> now])
        BY <2>1 DEF RateLimit, allow
    <3>2. ip \in DOMAIN entries' /\ c = 1 /\ start = now
        BY <3>1 DEF Put
    <3>3. \A i \in 1..n : a[i] + WindowLength <= now
        BY <2>1 DEF RateInv, Tracked, Forgotten
    <3>4. \A i \in 1..n : a[i] \in Int /\ i \in Int
        BY <1>e
    <3> HIDE DEF c, start, a, n, b
    <3>5. \A i \in 1..n : a[i] + WindowLength <= start /\ a[i] <= start /\ a[i] < start + WindowLength
        BY <1>t, <3>2, <3>3, <3>4
    <3>6. c \in 1..Rate /\ start \in Nat /\ start <= now /\ now < start + WindowLength
        BY <1>t, <3>2
    <3> QED
        BY <3>2, <3>5, <3>6
  <2>2. CASE ip \in DOMAIN entries /\ Passed(ip, 1)
    <3>1. entries' = Put(entries, ip, [count |-> 1, windowStart |-> now])
        BY <2>2 DEF RateLimit, allow
    <3>2. ip \in DOMAIN entries' /\ c = 1 /\ start = now
        BY <3>1 DEF Put
    <3> DEFINE c0 == entries[ip].count
               start0 == entries[ip].windowStart
    <3>3. /\ c0 \in 1..Rate /\ start0 \in Nat /\ start0 <= now
          /\ \A i \in 1..n : a[i] < start0 + WindowLength
          /\ \A i \in 1..n : i <= n - c0 + 1 => a[i] <= start0
        BY <2>2 DEF RateInv, RateTypeOK, Tracked, Open
    <3>4. now - start0 >= WindowLength
        BY <1>t, <2>2 DEF Passed
    <3> HIDE DEF c, start, a, c0, start0, n, b
    <3>5. c \in 1..Rate /\ start \in Nat /\ start <= now /\ now < start + WindowLength
        BY <1>t, <3>2, <3>3, <3>4
    <3>6. ASSUME NEW i \in 1..n
          PROVE  /\ i <= n + 1 - c - Rate + 1 => a[i] + WindowLength <= start
                 /\ i <= n + 1 - c + 1 => a[i] <= start
                 /\ a[i] < start + WindowLength
      <4>1. i \in Int /\ a[i] \in Nat /\ n \in Nat
          BY <1>t, <1>e
      <4> QED
          BY <1>t, <4>1, <3>2, <3>3, <3>4
    <3>7. n + 1 <= n + 1 - c + 1 => now <= start
        BY <1>t, <3>2, <3>3, <3>4
    <3> QED
        BY <3>2, <3>5, <3>6, <3>7
  <2>3. CASE ip \in DOMAIN entries /\ ~Passed(ip, 1)
    <3> DEFINE c0 == entries[ip].count
               start0 == entries[ip].windowStart
    <3>1. c0 < Rate /\ entries' = [entries EXCEPT ![ip].count = c0 + 1]
        BY <2>3 DEF RateLimit, allow
    <3>2. ip \in DOMAIN entries' /\ c = c0 + 1 /\ start = start0
        BY <2>3, <3>1 DEF RateInv, RateTypeOK
    <3>3. /\ c0 \in 1..Rate /\ start0 \in Nat /\ start0 <= now
          /\ \A i \in 1..n : a[i] < start0 + WindowLength
          /\ \A i \in 1..n : i <= n - c0 + 1 => a[i] <= start0
          /\ \A i \in 1..n : i <= n - c0 - Rate + 1 => a[i] + WindowLength <= start0
        BY <2>3 DEF RateInv, RateTypeOK, Tracked, Open
    <3>4. now - start0 < WindowLength
        BY <1>t, <2>3, <3>3 DEF Passed
    <3> HIDE DEF c, start, a, c0, start0, n, b
    <3>5. c \in 1..Rate /\ start \in Nat /\ start <= now /\ now < start + WindowLength
        BY <1>t, <3>1, <3>2, <3>3, <3>4
    <3>6. ASSUME NEW i \in 1..n
          PROVE  /\ i <= n + 1 - c - Rate + 1 => a[i] + WindowLength <= start
                 /\ i <= n + 1 - c + 1 => a[i] <= start
                 /\ a[i] < start + WindowLength
      <4>1. i \in Int /\ a[i] \in Int /\ n \in Int /\ Rate \in Int /\ c0 \in Int
          BY <1>t, <1>e, <3>3
      <4>2. /\ i <= n - c0 - Rate + 1 => a[i] + WindowLength <= start
            /\ i <= n - c0 + 1 => a[i] <= start
            /\ a[i] < start + WindowLength
          BY <3>2, <3>3
      <4>3. n + 1 - c - Rate + 1 = n - c0 - Rate + 1 /\ n + 1 - c + 1 = n - c0 + 1
          BY <3>2, <4>1
      <4> QED
          BY <4>2, <4>3
    <3>7. n + 1 <= n + 1 - c + 1 => now <= start
        BY <1>t, <3>1, <3>2, <3>3, <3>4
    <3> QED
        BY <3>2, <3>5, <3>6, <3>7
  <2> QED
      BY <2>1, <2>2, <2>3
<1>2. /\ \A i \in 1..Len(b) : b[i] < start + WindowLength
      /\ \A i \in 1..Len(b) : i <= Len(b) - c + 1 => b[i] <= start
      /\ \A i \in 1..Len(b) : i <= Len(b) - c - Rate + 1 => b[i] + WindowLength <= start
  <2> HIDE DEF a, b, c, start
  <2> SUFFICES ASSUME NEW i \in 1..Len(b)
               PROVE  /\ b[i] < start + WindowLength
                      /\ i <= Len(b) - c + 1 => b[i] <= start
                      /\ i <= Len(b) - c - Rate + 1 => b[i] + WindowLength <= start
      OBVIOUS
  <2>1. CASE i = n + 1
    <3>1. b[i] = now /\ Len(b) = n + 1
        BY <1>b, <2>1
    <3>2. /\ n \in Int /\ Rate \in Int /\ Rate > 0 /\ c \in Int /\ c >= 1
          /\ now < start + WindowLength /\ (n + 1 <= n + 1 - c + 1 => now <= start)
        BY <1>t, <1>1
    <3>3. ~ (n + 1 <= n + 1 - c - Rate + 1)
        BY <3>2
    <3> QED
        BY <2>1, <3>1, <3>2, <3>3
  <2>2. CASE i \in 1..n
      BY <1>t, <1>b, <1>1, <2>2
  <2> QED
      BY <1>t, <1>b, <2>1, <2>2
<1>3. Tracked(ip)'
    BY <1>1, <1>2, <1>b, <1>n DEF Tracked, Open
<1>4. Spread(b)
  <2>1. Spread(a)
      BY DEF RateInv
  <2> HIDE DEF a, b, c, start
  <2> SUFFICES ASSUME NEW i \in 1..Len(b), i + 2 * Rate - 1 <= Len(b)
               PROVE  b[i + 2 * Rate - 1] - b[i] >= WindowLength
      BY DEF Spread
  <2> DEFINE j == i + 2 * Rate - 1
  <2>2. j \in 1..(n + 1) /\ i \in 1..n
      BY <1>t, <1>b
  <2>3. CASE j = n + 1
    <3>1. i <= n + 1 - c - Rate + 1
        BY <1>t, <1>1, <2>2, <2>3
    <3>2. /\ a[i] + WindowLength <= start /\ start <= now /\ b[i] = a[i]
          /\ a[i] \in Int /\ start \in Int
        BY <1>1, <1>b, <2>2, <3>1
    <3>3. b[j] = now
        BY <1>b, <2>3
    <3>t. now \in Int /\ WindowLength \in Int
        BY <1>t
    <3> HIDE DEF j, b, n
    <3>4. b[j] - b[i] >= WindowLength
        BY <3>t, <3>2, <3>3
    <3> QED
        BY <3>4 DEF j
  <2>4. CASE j \in 1..n
    <3>1. b[j] = a[j] /\ b[i] = a[i] /\ j <= Len(a)
        BY <1>b, <2>2, <2>4
    <3>2. a[j] - a[i] >= WindowLength
        BY <2>1, <2>2, <3>1 DEF Spread
    <3> QED
        BY <3>1, <3>2
  <2> HIDE DEF j, n
  <2>5. j = n + 1 \/ j \in 1..n
      BY <1>t, <2>2
  <2> USE DEF j
  <2> QED
      BY <2>3, <2>4, <2>5
<1> QED
    BY <1>3, <1>4, <1>b

\* Every step keeps the spread.
LEMMA RateStep == RateInv /\ [RateNext]_rateVars => RateInv'
<1> SUFFICES ASSUME RateInv, [RateNext]_rateVars PROVE RateInv'
    OBVIOUS
<1>a. /\ now \in Nat /\ WindowLength \in Nat /\ Rate \in Nat /\ allowed \in [Addresses -> Seq(Nat)]
      /\ \A ip \in DOMAIN entries : entries[ip] \in [count : Nat, windowStart : Nat]
    BY RateAssumption DEF RateInv, RateTypeOK
<1>1. ASSUME NEW ip \in Addresses, RateLimit(ip) PROVE RateInv'
  <2>1. /\ allowed' = [allowed EXCEPT ![ip] = Append(@, now)] /\ UNCHANGED <<now, cleaned>>
        /\ \/ entries' = Put(entries, ip, [count |-> 1, windowStart |-> now])
           \/ ip \in DOMAIN entries /\ entries' = [entries EXCEPT ![ip].count = @ + 1]
      BY <1>1 DEF RateLimit, allow
  <2>2. \A q \in DOMAIN entries' : entries'[q] \in [count : Nat, windowStart : Nat]
    <3>1. CASE entries' = Put(entries, ip, [count |-> 1, windowStart |-> now])
        BY <1>a, <3>1 DEF Put
    <3>2. CASE ip \in DOMAIN entries /\ entries' = [entries EXCEPT ![ip].count = @ + 1]
      <4>1. DOMAIN entries' = DOMAIN entries
          BY <3>2
      <4>2. \A q \in DOMAIN entries : entries'[q] =
                IF q = ip THEN [entries[ip] EXCEPT !.count = @ + 1] ELSE entries[q]
          BY <3>2
      <4>3. ASSUME NEW q \in DOMAIN entries
            PROVE  entries'[q] \in [count : Nat, windowStart : Nat]
        <5>1. entries[q] \in [count : Nat, windowStart : Nat]
            BY <1>a
        <5> QED
            BY <4>2, <5>1
      <4> QED
          BY <4>1, <4>3
    <3> QED
        BY <2>1, <3>1, <3>2
  <2>3. RateTypeOK'
      BY <1>a, <2>1, <2>2 DEF RateInv, RateTypeOK
  <2>4. ASSUME NEW q \in Addresses, q # ip PROVE Spread(allowed'[q]) /\ Tracked(q)'
    <3>1. /\ allowed'[q] = allowed[q] /\ now' = now
          /\ q \in DOMAIN entries' <=> q \in DOMAIN entries
          /\ q \in DOMAIN entries => entries'[q] = entries[q]
        BY <1>a, <2>1, <2>4 DEF Put
    <3> QED
        BY <3>1 DEF RateInv, Tracked, Open, Forgotten
  <2> QED
      BY <1>1, <2>3, <2>4, RequestKeeps DEF RateInv
<1>2. CASE cleanup
  <2>1. /\ entries' = Without(entries, {ip \in DOMAIN entries : Expired(ip)})
        /\ UNCHANGED <<now, allowed>> /\ cleaned' = now
      BY <1>2 DEF cleanup
  <2>2. RateTypeOK'
      BY <1>a, <2>1 DEF RateTypeOK, Without
  <2>3. ASSUME NEW q \in Addresses PROVE Spread(allowed'[q]) /\ Tracked(q)'
    <3>1. CASE q \in DOMAIN entries /\ Expired(q)
      <4>1. q \notin DOMAIN entries'
          BY <2>1, <3>1 DEF Without
      <4>2. entries[q].windowStart + 2 * WindowLength <= now
          BY <1>a, <3>1 DEF Expired, Passed
      <4>3. \A i \in 1..Len(allowed[q]) :
                allowed[q][i] \in Nat /\ allowed[q][i] < entries[q].windowStart + WindowLength
          BY <1>a, <3>1 DEF RateInv, Tracked, Open
      <4>4. Forgotten(q)
        <5> SUFFICES ASSUME NEW i \in 1..Len(allowed[q])
                     PROVE  allowed[q][i] + WindowLength <= now
            BY DEF Forgotten
        <5> DEFINE t == allowed[q][i]
                   start == entries[q].windowStart
        <5>1. t \in Int /\ t < start + WindowLength
            BY <4>3
        <5>2. start \in Int /\ WindowLength \in Int /\ now \in Int
            BY <1>a, <3>1
        <5>3. start + 2 * WindowLength <= now
            BY <4>2
        <5> HIDE DEF t, start
        <5>4. t + WindowLength <= now
            BY <5>1, <5>2, <5>3
        <5> QED
            BY <5>4 DEF t
      <4> QED
          BY <2>1, <4>1, <4>4 DEF RateInv, Tracked, Forgotten
    <3>2. CASE ~(q \in DOMAIN entries /\ Expired(q))
      <4>1. /\ q \in DOMAIN entries' <=> q \in DOMAIN entries
            /\ q \in DOMAIN entries => entries'[q] = entries[q]
          BY <2>1, <3>2 DEF Without
      <4>2. Spread(allowed[q]) /\ Tracked(q)
          BY DEF RateInv
      <4>3. now' = now /\ allowed'[q] = allowed[q]
          BY <2>1
      <4>4. CASE q \in DOMAIN entries
        <5>1. Open(q) /\ entries'[q] = entries[q]
            BY <4>1, <4>2, <4>4 DEF Tracked
        <5>2. Open(q)'
            BY <4>3, <5>1, OpenKept
        <5> QED
            BY <4>1, <4>2, <4>3, <4>4, <5>2 DEF Tracked
      <4>5. CASE q \notin DOMAIN entries
        <5>1. Forgotten(q)'
            BY <4>2, <4>3, <4>5 DEF Tracked, Forgotten
        <5> QED
            BY <4>1, <4>2, <4>3, <4>5, <5>1 DEF Tracked
      <4> QED
          BY <4>4, <4>5
    <3> QED
        BY <3>1, <3>2
  <2> QED
      BY <2>2, <2>3 DEF RateInv
<1>3. CASE Pass
  <2>1. now' = now + 1 /\ UNCHANGED <<entries, cleaned, allowed>>
      BY <1>3 DEF Pass
  <2>2. RateTypeOK'
      BY <1>a, <2>1 DEF RateInv, RateTypeOK
  <2>3. ASSUME NEW q \in Addresses PROVE Spread(allowed'[q]) /\ Tracked(q)'
    <3>1. CASE q \in DOMAIN entries
      <4>1. Spread(allowed[q]) /\ Open(q)
          BY <3>1 DEF RateInv, Tracked
      <4>2. entries[q].windowStart <= now'
          BY <1>a, <2>1, <3>1, <4>1 DEF Open
      <4>3. allowed' = allowed /\ entries' = entries
          BY <2>1
      <4>4. Open(q)'
          BY <4>1, <4>2, <4>3 DEF Open
      <4> QED
          BY <3>1, <4>1, <4>3, <4>4 DEF Tracked
    <3>2. CASE q \notin DOMAIN entries
      <4>1. \A i \in 1..Len(allowed[q]) :
                allowed[q][i] \in Nat /\ allowed[q][i] + WindowLength <= now
          BY <1>a, <3>2 DEF RateInv, Tracked, Forgotten
      <4>2. Forgotten(q)'
          BY <1>a, <2>1, <4>1 DEF Forgotten
      <4> QED
          BY <2>1, <3>2, <4>2 DEF RateInv, Tracked
    <3> QED
        BY <3>1, <3>2
  <2> QED
      BY <2>2, <2>3 DEF RateInv
<1>4. CASE UNCHANGED rateVars
    BY <1>4 DEF rateVars, RateInv, RateTypeOK, Tracked, Open, Forgotten
<1> QED
    BY <1>1, <1>2, <1>3, <1>4 DEF RateNext

\* Fewer than twice the rate pass in any interval of a window's length, whatever
\* the rate, the window and the ticks.
THEOREM FewerThanTwiceTheRate == RateSpec => []UnderTwiceTheRate
<1>1. RateInv => UnderTwiceTheRate
    BY DEF RateInv, Spread, UnderTwiceTheRate
<1> QED
    BY RateInitially, RateStep, <1>1, PTL DEF RateSpec

------------------------------------------------------------------------------
(* Permissions: what the loop of checkPerm finds, for any rows in any      *)
(* order.  Induction over the rows is by a minimal counterexample.         *)

\* A set of natural numbers has a least one.
LEMMA LeastOf ==
    ASSUME NEW T, T \subseteq Nat, T # {}
    PROVE  \E x \in T : \A y \in T : x <= y
<1> DEFINE R == OpToRel(<, Nat)
<1>1. IsWellFoundedOn(R, Nat)
  BY NatLessThanWellFounded
<1>2. \A x, y \in Nat : <<x, y>> \in R <=> x < y
  BY DEF OpToRel
<1> HIDE DEF R
<1>3. PICK x \in T : \A y \in T : ~ (<<y, x>> \in R)
  BY <1>1, WFMin
<1>4. ASSUME NEW y \in T PROVE x <= y
  <2>1. x \in Nat /\ y \in Nat /\ ~ (<<y, x>> \in R)
    BY <1>3
  <2>2. ~ (y < x)
    BY <1>2, <2>1
  <2> QED BY <2>1, <2>2
<1> QED BY <1>4

\* What the loop of checkPerm does with the n-th row.
Better(path, n, best) == IF Covers(perms[n], path) /\ Longer(perms[n], best) THEN perms[n] ELSE best

\* The loop's bests after each of the first m rows.
IsLoop(f, path, m) ==
    f = [n \in 0..m |-> IF n = 0 THEN NoPerm ELSE Better(path, n, f[n - 1])]

\* The loop runs: there is such a sequence of bests, whatever the rows.
LEMMA LoopRuns ==
    ASSUME NEW path, NEW m \in Nat
    PROVE  \E f : IsLoop(f, path, m)
<1> DEFINE T == {k \in Nat : ~ \E f : IsLoop(f, path, k)}
<1> SUFFICES ASSUME T # {} PROVE FALSE
  OBVIOUS
<1>1. PICK k \in T : \A j \in T : k <= j
  <2>1. T \subseteq Nat
    OBVIOUS
  <2> HIDE DEF T
  <2> QED BY <2>1, LeastOf
<1>2. k \in Nat /\ ~ \E f : IsLoop(f, path, k)
  OBVIOUS
<1>3. CASE k = 0
  <2> DEFINE f == [n \in 0..0 |-> NoPerm]
  <2>1. IsLoop(f, path, 0)
    BY DEF IsLoop
  <2> QED BY <1>2, <1>3, <2>1
<1>4. CASE k # 0
  <2>1. k - 1 \in Nat /\ ~ (k <= k - 1)
    BY <1>2, <1>4
  <2>2. PICK f : IsLoop(f, path, k - 1)
    <3>1. k - 1 \notin T
      BY <1>1, <2>1
    <3> QED BY <2>1, <3>1
  <2> DEFINE g == [n \in 0..k |-> IF n = k THEN Better(path, k, f[k - 1]) ELSE f[n]]
  <2>3. \A n \in 0..(k - 1) : f[n] = IF n = 0 THEN NoPerm ELSE Better(path, n, f[n - 1])
    BY <2>2 DEF IsLoop
  <2>4. \A n \in 0..k : g[n] = IF n = 0 THEN NoPerm ELSE Better(path, n, g[n - 1])
    <3> SUFFICES ASSUME NEW n \in 0..k
                 PROVE  g[n] = IF n = 0 THEN NoPerm ELSE Better(path, n, g[n - 1])
      OBVIOUS
    <3> DEFINE G(x) == IF x = k THEN Better(path, k, f[k - 1]) ELSE f[x]
    <3>1. \A x \in 0..k : g[x] = G(x)
      OBVIOUS
    <3> HIDE DEF g
    <3>2. CASE n = 0
      BY <1>4, <2>1, <2>3, <3>1, <3>2
    <3>3. CASE n # 0
      <4>1. n - 1 \in 0..(k - 1) /\ n - 1 \in 0..k /\ n - 1 # k /\ (n # k => n \in 0..(k - 1))
        BY <1>2, <3>3
      <4>2. g[n - 1] = f[n - 1]
        BY <3>1, <4>1
      <4>3. CASE n = k
        BY <3>1, <3>3, <4>2, <4>3
      <4>4. CASE n # k
        BY <2>3, <3>1, <3>3, <4>1, <4>2, <4>4
      <4> QED BY <4>3, <4>4
    <3> QED BY <3>2, <3>3
  <2>5. g = [n \in 0..k |-> g[n]]
    OBVIOUS
  <2> HIDE DEF g
  <2>6. IsLoop(g, path, k)
    BY <2>4, <2>5 DEF IsLoop
  <2> QED BY <1>2, <2>6
<1> QED BY <1>3, <1>4

LEMMA LoopIs ==
    ASSUME NEW path, Len(perms) \in Nat
    PROVE  \E f : IsLoop(f, path, Len(perms)) /\ Best(path) = f[Len(perms)]
<1> DEFINE f == CHOOSE f : IsLoop(f, path, Len(perms))
<1>1. IsLoop(f, path, Len(perms))
  BY LoopRuns
<1>2. Best(path) = f[Len(perms)]
  BY DEF Best, IsLoop, Better
<1> QED BY <1>1, <1>2

\* The loop finds the longest of the rows that cover the path.
LEMMA LoopFinds ==
    ASSUME NEW path, Len(perms) \in Nat, Len(path) \in Nat,
           \A i \in 1..Len(perms) : Len(perms[i].path) \in Nat
    PROVE  /\ \A i \in 1..Len(perms) : Covers(perms[i], path) => Len(perms[i].path) <= Len(Best(path).path)
           /\ \/ Best(path) = NoPerm
              \/ \E i \in 1..Len(perms) : /\ Best(path) = perms[i] /\ Covers(perms[i], path)
                                          /\ Len(perms[i].path) > 0
<1> DEFINE N == Len(perms)
           L(i) == Len(perms[i].path)
           C(i) == Covers(perms[i], path)
<1>1. PICK f : IsLoop(f, path, N) /\ Best(path) = f[N]
  BY LoopIs
<1> DEFINE P(n) == /\ Len(f[n].path) \in Nat
                   /\ \A i \in 1..n : C(i) => L(i) <= Len(f[n].path)
                   /\ f[n] = NoPerm \/ \E i \in 1..n : f[n] = perms[i] /\ C(i) /\ L(i) > 0
           T == {n \in 0..N : ~ P(n)}
<1>2. f[0] = NoPerm /\ \A n \in 1..N : f[n] = Better(path, n, f[n - 1])
  <2>1. \A n \in 0..N : f[n] = IF n = 0 THEN NoPerm ELSE Better(path, n, f[n - 1])
    BY <1>1 DEF IsLoop
  <2>2. 0 \in 0..N /\ \A n \in 1..N : n \in 0..N /\ n # 0
    OBVIOUS
  <2> QED BY <2>1, <2>2
<1>3. Len(NoPerm.path) = 0
  BY DEF NoPerm
<1>4. N \in Nat /\ \A i \in 1..N : L(i) \in Nat
  OBVIOUS
<1>5. P(N)
  <2> SUFFICES ASSUME T # {} PROVE FALSE
    BY <1>4
  <2>1. T \subseteq Nat
    OBVIOUS
  <2>2. PICK k \in T : \A j \in T : k <= j
    <3> HIDE DEF T
    <3> QED BY <2>1, LeastOf
  <2>3. k \in 0..N /\ ~ P(k)
    OBVIOUS
  <2>4. CASE k = 0
    <3>1. P(0)
      BY <1>2, <1>3
    <3> QED BY <2>3, <2>4, <3>1
  <2>5. CASE k # 0
    <3>1. k - 1 \in 0..N /\ ~ (k <= k - 1) /\ k \in 1..N
      BY <1>4, <2>3, <2>5
    <3>2. P(k - 1)
      BY <2>2, <3>1
    <3>3. f[k] = Better(path, k, f[k - 1])
      BY <1>2, <3>1
    <3>4. \A i \in 1..k : i \in 1..(k - 1) \/ i = k
      BY <1>4, <3>1
    <3>5. \A i \in 1..(k - 1) : i \in 1..k
      BY <1>4, <3>1
    <3> DEFINE a == f[k - 1]
               b == f[k]
               q == perms[k]
    <3>6. /\ Len(a.path) \in Nat /\ \A i \in 1..(k - 1) : C(i) => L(i) <= Len(a.path)
          /\ a = NoPerm \/ \E i \in 1..(k - 1) : a = perms[i] /\ C(i) /\ L(i) > 0
      BY <3>2
    <3>7. Len(q.path) \in Nat /\ L(k) = Len(q.path) /\ (C(k) <=> Covers(q, path))
      BY <1>4, <3>1
    <3>8. \A i \in 1..k : L(i) \in Nat
      BY <1>4, <3>1
    <3>9. b = IF C(k) /\ Len(q.path) > Len(a.path) THEN q ELSE a
      BY <3>3, <3>7 DEF Better, Longer
    <3>k. k \in 1..k
      BY <1>4, <3>1
    <3> HIDE DEF C, L, a, b
    <3>10. CASE C(k) /\ Len(q.path) > Len(a.path)
      <4>1. b = q /\ L(k) > 0
        BY <3>6, <3>7, <3>9, <3>10
      <4>2. \A i \in 1..k : C(i) => L(i) <= Len(b.path)
        BY <3>4, <3>6, <3>7, <3>8, <3>10, <4>1
      <4>3. P(k)
        BY <3>7, <3>10, <3>k, <4>1, <4>2 DEF b
      <4> QED BY <2>3, <4>3
    <3>11. CASE ~ (C(k) /\ Len(q.path) > Len(a.path))
      <4>1. b = a
        BY <3>9, <3>11
      <4>2. \A i \in 1..k : C(i) => L(i) <= Len(b.path)
        BY <3>4, <3>6, <3>7, <3>8, <3>11, <4>1
      <4>3. b = NoPerm \/ \E i \in 1..k : b = perms[i] /\ C(i) /\ L(i) > 0
        BY <3>5, <3>6, <4>1
      <4>4. P(k)
        BY <3>6, <4>1, <4>2, <4>3 DEF b
      <4> QED BY <2>3, <4>4
    <3> QED BY <3>10, <3>11
  <2> QED BY <2>4, <2>5
<1> QED BY <1>1, <1>5

\* Rows are of sequences of names, each path once, as UNIQUE(user_id, file_path) has it.
PermInv ==
    /\ perms \in Seq([path : Seq(STRING), perm : Perms])
    /\ \A i, j \in 1..Len(perms) : perms[i].path = perms[j].path => i = j

LEMMA PermStep == PermInv /\ [PermNext]_permVars => PermInv'
<1> SUFFICES ASSUME PermInv, PermNext PROVE PermInv'
  BY DEF PermInv, permVars
<1> DEFINE Row == [path : Seq(STRING), perm : Perms]
           N == Len(perms)
<1>1. perms \in Seq(Row) /\ N \in Nat /\ \A i \in 1..N : perms[i] \in Row
  <2>1. perms \in Seq(Row)
    BY DEF PermInv
  <2> HIDE DEF Row
  <2> QED BY <2>1
<1>2. \A i, j \in 1..N : perms[i].path = perms[j].path => i = j
  BY DEF PermInv
<1>3. ASSUME NEW path \in GrantPaths, PermDelete(path) PROVE PermInv'
  <2>1. PICK k \in 1..N : perms' = DropAt(perms, k)
    BY <1>3 DEF PermDelete
  <2> DEFINE g(i) == IF i < k THEN i ELSE i + 1
  <2>a. N \in Nat
    BY <1>1
  <2>2. \A i \in 1..(N - 1) : g(i) \in 1..N
    BY <2>a
  <2>3. \A i, j \in 1..(N - 1) : g(i) = g(j) => i = j
    <3> SUFFICES ASSUME NEW i \in 1..(N - 1), NEW j \in 1..(N - 1), g(i) = g(j) PROVE i = j
      OBVIOUS
    <3>1. i \in Int /\ j \in Int /\ k \in Int
      BY <2>a
    <3> QED BY <3>1
  <2>4. perms' = [i \in 1..(N - 1) |-> perms[g(i)]]
    BY <2>1 DEF DropAt
  <2>5. N - 1 \in Nat
    BY <1>1, <2>1
  <2> HIDE DEF g, Row, N
  <2>6. \A i \in 1..(N - 1) : perms[g(i)] \in Row
    BY <1>1, <2>2
  <2>7. perms' \in Seq(Row) /\ Len(perms') = N - 1
    BY <2>4, <2>5, <2>6
  <2>8. \A i, j \in 1..Len(perms') : perms'[i].path = perms'[j].path => i = j
    <3> SUFFICES ASSUME NEW i \in 1..(N - 1), NEW j \in 1..(N - 1), perms'[i].path = perms'[j].path
                 PROVE  i = j
      BY <2>7
    <3>1. perms'[i] = perms[g(i)] /\ perms'[j] = perms[g(j)]
      BY <2>4
    <3> QED BY <1>2, <2>2, <2>3, <3>1
  <2> QED BY <2>7, <2>8 DEF PermInv, Row
<1>4. ASSUME NEW path \in GrantPaths, NEW perm \in Perms, PermCreate(path, perm) PROVE PermInv'
  <2>1. path \in Seq(STRING)
    BY PathsAssumption
  <2>2. CASE \E i \in 1..N : perms[i].path = path
    <3>1. perms' = [i \in 1..N |-> IF perms[i].path = path THEN [perms[i] EXCEPT !.perm = perm]
                                                            ELSE perms[i]]
      BY <1>4, <2>2 DEF PermCreate
    <3>2. \A i \in 1..N : perms'[i] \in Row /\ perms'[i].path = perms[i].path
      BY <1>1, <3>1
    <3> HIDE DEF N, Row
    <3>3. perms' \in Seq(Row) /\ Len(perms') = N
      BY <1>1, <3>1, <3>2
    <3> QED BY <1>2, <3>2, <3>3 DEF PermInv, Row
  <2>3. CASE ~ \E i \in 1..N : perms[i].path = path
    <3> DEFINE r == [path |-> path, perm |-> perm]
    <3>1. perms' = Append(perms, r)
      BY <1>4, <2>3 DEF PermCreate
    <3>2. r \in Row /\ r.path = path
      BY <2>1
    <3> HIDE DEF r, Row
    <3>3. /\ perms' \in Seq(Row) /\ Len(perms') = N + 1 /\ perms'[N + 1] = r
          /\ \A i \in 1..N : perms'[i] = perms[i]
      BY <1>1, <3>1, <3>2, AppendProperties
    <3>4. \A i \in 1..(N + 1) : i \in 1..N \/ i = N + 1
      BY <1>1
    <3>5. \A i, j \in 1..Len(perms') : perms'[i].path = perms'[j].path => i = j
      BY <1>2, <2>3, <3>2, <3>3, <3>4
    <3> QED BY <3>3, <3>5 DEF PermInv, Row
  <2> QED BY <2>2, <2>3
<1>5. ASSUME NEW path \in FilePaths, NEW require \in Requires, Ask(path, require) PROVE PermInv'
  BY <1>5 DEF Ask, PermInv
<1> QED BY <1>3, <1>4, <1>5 DEF PermNext

\* What covers a file is the row of one of its directories, or its own.
LEMMA CoversIs ==
    ASSUME NEW p, p.path \in Seq(STRING), NEW path \in Seq(STRING)
    PROVE  /\ Covers(p, path) => /\ Len(p.path) \in 0..Len(path)
                                 /\ p.path = SubSeq(path, 1, Len(p.path))
           /\ \A n \in 1..Len(path) : p.path = SubSeq(path, 1, n) => Covers(p, path) /\ Len(p.path) = n
<1>1. Len(p.path) \in Nat /\ Len(path) \in Nat
  OBVIOUS
<1>2. Covers(p, path) => Len(p.path) \in 0..Len(path) /\ p.path = SubSeq(path, 1, Len(p.path))
  BY <1>1 DEF Covers
<1>3. ASSUME NEW n \in 1..Len(path), p.path = SubSeq(path, 1, n)
      PROVE  Covers(p, path) /\ Len(p.path) = n
  <2>1. Len(SubSeq(path, 1, n)) = n
    BY <1>1, <1>3, SubSeqProperties
  <2> QED BY <1>1, <1>3, <2>1 DEF Covers
<1> QED BY <1>2, <1>3

\* The loop answers what the nearest row does.
LEMMA LoopAgrees ==
    ASSUME PermInv, NEW path \in Seq(STRING), NEW require \in Requires
    PROVE  checkPerm(path, require) <=> Allowed(path, require)
<1> DEFINE b == Best(path)
           N == Len(perms)
<1>1. /\ N \in Nat /\ Len(path) \in Nat
      /\ \A i \in 1..N : /\ perms[i].path \in Seq(STRING) /\ perms[i].perm \in Perms
                         /\ Len(perms[i].path) \in Nat
      /\ \A i, j \in 1..N : perms[i].path = perms[j].path => i = j
  <2> DEFINE Row == [path : Seq(STRING), perm : Perms]
  <2>1. perms \in Seq(Row) /\ \A i, j \in 1..N : perms[i].path = perms[j].path => i = j
    BY DEF PermInv
  <2>2. \A r \in Row : r.path \in Seq(STRING) /\ r.perm \in Perms
    OBVIOUS
  <2> HIDE DEF Row
  <2>3. N \in Nat /\ \A i \in 1..N : perms[i] \in Row
    BY <2>1
  <2> QED BY <2>1, <2>2, <2>3
<1>2. /\ \A i \in 1..N : Covers(perms[i], path) => Len(perms[i].path) <= Len(b.path)
      /\ \/ b = NoPerm
         \/ \E i \in 1..N : b = perms[i] /\ Covers(perms[i], path) /\ Len(perms[i].path) > 0
  BY <1>1, LoopFinds
<1>3. checkPerm(path, require) <=>
          \/ b.perm \in {"admin", "write"}
          \/ b.perm = "read" /\ require = "read"
  BY DEF checkPerm
<1> HIDE DEF b, N
<1>4. \A n : n \in Deciding(path) <=>
          n \in 1..Len(path) /\ \E i \in 1..N : perms[i].path = SubSeq(path, 1, n)
  BY DEF Deciding, Granted, N
<1>5. \A n \in Deciding(path) : n <= Len(b.path) /\ n \in 1..Len(path)
  <2> SUFFICES ASSUME NEW n \in Deciding(path) PROVE n <= Len(b.path) /\ n \in 1..Len(path)
    OBVIOUS
  <2>1. PICK i \in 1..N : n \in 1..Len(path) /\ perms[i].path = SubSeq(path, 1, n)
    BY <1>4
  <2>2. Covers(perms[i], path) /\ Len(perms[i].path) = n
    BY <1>1, <2>1, CoversIs
  <2> QED BY <1>2, <2>1, <2>2
<1>6. CASE b = NoPerm
  <2>1. ~ checkPerm(path, require)
    BY <1>3, <1>6 DEF NoPerm
  <2>2. Len(b.path) = 0
    BY <1>6 DEF NoPerm
  <2>3. Deciding(path) = {}
    BY <1>1, <1>5, <2>2
  <2> QED BY <2>1, <2>3 DEF Allowed
<1>7. ASSUME NEW i \in 1..N, b = perms[i], Covers(perms[i], path), Len(perms[i].path) > 0
      PROVE  checkPerm(path, require) <=> Allowed(path, require)
  <2> DEFINE m == Len(b.path)
  <2>1. m \in 1..Len(path) /\ b.path = SubSeq(path, 1, m)
    <3> DEFINE r == perms[i]
    <3>1. r.path \in Seq(STRING) /\ Covers(r, path)
      BY <1>1, <1>7
    <3> HIDE DEF r
    <3>2. Len(r.path) \in 0..Len(path) /\ r.path = SubSeq(path, 1, Len(r.path))
      BY <3>1, CoversIs
    <3>3. b = r /\ Len(r.path) > 0
      BY <1>7 DEF r
    <3> QED BY <1>1, <3>2, <3>3
  <2>2. b.perm \in Perms
    BY <1>1, <1>7
  <2>3. m \in Deciding(path)
    BY <1>4, <1>7, <2>1
  <2>4. Granted(path, m) = {b.perm}
    <3>1. \A j \in 1..N : perms[j].path = SubSeq(path, 1, m) <=> j = i
      BY <1>1, <1>7, <2>1
    <3>2. {j \in 1..N : perms[j].path = SubSeq(path, 1, m)} = {i}
      BY <3>1
    <3> QED BY <1>7, <3>2 DEF Granted, N
  <2>5. \A n \in Deciding(path) : (\A k \in Deciding(path) : k <= n) <=> n = m
    BY <1>1, <1>5, <2>1, <2>3
  <2> HIDE DEF m
  <2>6. Allowed(path, require) <=>
            b.perm \in (IF require = "read" THEN Perms \ {"other"} ELSE {"write", "admin"})
    <3> DEFINE S == IF require = "read" THEN Perms \ {"other"} ELSE {"write", "admin"}
    <3>1. Allowed(path, require) <=> Granted(path, m) \subseteq S
      BY <2>3, <2>5 DEF Allowed
    <3> QED BY <2>4, <3>1
  <2> QED BY <1>3, <2>2, <2>6 DEF Perms, Requires
<1> QED BY <1>2, <1>6, <1>7

\* NearestRowDecides: whatever rows there are and in whatever order, checkPerm answers
\* by the row of the nearest directory, after any grants, changes and revocations.
THEOREM NearestRowAnswers == PermSpec => NearestRowDecides
<1>1. PermInit => PermInv
  BY DEF PermInit, PermInv
<1>2. PermInv /\ [PermNext]_permVars =>
          [asked' # asked => asked'.answer = Allowed(asked'.path, asked'.require)]_permVars
  <2> SUFFICES ASSUME PermInv, PermNext, asked' # asked
               PROVE  asked'.answer = Allowed(asked'.path, asked'.require)
    OBVIOUS
  <2>1. PICK path \in FilePaths, require \in Requires : Ask(path, require)
    BY DEF PermNext, PermDelete, PermCreate
  <2>2. /\ asked' = [path |-> path, require |-> require, answer |-> checkPerm(path, require)]
        /\ path \in Seq(STRING)
    BY <2>1, PathsAssumption DEF Ask
  <2>3. checkPerm(path, require) <=> Allowed(path, require)
    BY <2>2, LoopAgrees
  <2>4. checkPerm(path, require) = Allowed(path, require)
    BY <2>3 DEF checkPerm, Allowed
  <2>5. asked'.path = path /\ asked'.require = require /\ asked'.answer = checkPerm(path, require)
    BY <2>2
  <2> QED BY <2>4, <2>5
<1> QED BY <1>1, <1>2, PermStep, PTL DEF PermSpec, NearestRowDecides

------------------------------------------------------------------------------
(* Services: the components side by side.                                   *)

\* What the others do leaves a component's variables as they are: run together, each
\* behaves by its own specification, so that its theorems hold of the composition.
THEOREM EachKeepsItsOwn ==
    ServicesSpec => /\ SftpSpec /\ UserSpec /\ EncSpec /\ ShareSpec
                    /\ RateSpec /\ SearchSpec /\ PermSpec
<1>1. ServicesInit => /\ SftpInit /\ UserInit /\ EncInit /\ ShareInit
                      /\ RateInit /\ SearchInit /\ PermInit
  BY DEF ServicesInit
<1>2. [ServicesNext]_servicesVars =>
          /\ [SftpNext]_sftpVars /\ [UserNext]_userVars /\ [EncNext]_encVars
          /\ [ShareNext]_shareVars /\ [RateNext]_rateVars /\ [SearchNext]_searchVars
          /\ [PermNext]_permVars
  BY DEF ServicesNext, servicesVars, Sftp, User, Enc, Share, Limit, Index, Permit
<1> QED
    BY <1>1, <1>2, PTL
       DEF ServicesSpec, SftpSpec, UserSpec, EncSpec, ShareSpec, RateSpec, SearchSpec, PermSpec
==============================================================================
