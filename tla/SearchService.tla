----------------------------- MODULE SearchService -----------------------------
(***************************************************************************)
(* internal/service/search_service.go and internal/search/fts5.go: the     *)
(* index of the files' text, brought up to date by the workers of a queue  *)
(* of their own (see TaskQueue; its Stop is not repeated here).  An upload *)
(* submits the file's id once its row is there, a deletion the file's path *)
(* once the row is gone; a full queue drops what it is given.  Index is    *)
(* two statements.  Files encrypted by the client are never submitted.     *)
(* What a search answers is not modelled, only the index it reads.         *)
(***************************************************************************)
EXTENDS Maps

CONSTANTS Uploaders, Indexers,   \* requests and workers
          DocPaths,
          QueueLength,           \* of the channel
          MaxDocs,               \* bound on the rows made
          Faults                 \* whether statements fail and the server restarts

ASSUME SearchAssumption ==
    QueueLength \in Nat /\ MaxDocs \in Nat /\ Faults \in BOOLEAN
ASSUME IndexersAssumption == IsFiniteSet(Indexers)

VARIABLES docRows,     \* id -> path, the rows of files
          docs,        \* rows made so far: ids are not used again
          index,       \* path -> the ids of its entries
          tasks,       \* the channel
          submitting,  \* request -> the task it has to submit
          indexing,    \* worker -> the document it has deleted the old entry of
          forgone      \* ghost: paths a file was deleted at, or whose task was dropped

searchVars == <<docRows, docs, index, tasks, submitting, indexing, forgone>>

NoTask == [type |-> "none", id |-> None, path |-> ""]

SearchInit ==
    /\ docRows = <<>> /\ docs = 0 /\ tasks = <<>> /\ forgone = {}
    /\ index = [p \in DocPaths |-> <<>>]
    /\ submitting = [u \in Uploaders |-> NoTask]
    /\ indexing = [w \in Indexers |-> NoTask]

------------------------------------------------------------------------------
(* The requests.                                                             *)

UploadDoc(u, p) ==
    /\ submitting[u] = NoTask /\ docs < MaxDocs
    /\ docs' = docs + 1 /\ docRows' = Put(docRows, docs', p)
    /\ submitting' = [submitting EXCEPT ![u] = [type |-> "index", id |-> docs', path |-> p]]
    /\ UNCHANGED <<index, tasks, indexing, forgone>>

DeleteDoc(u, id) ==
    /\ submitting[u] = NoTask /\ id \in DOMAIN docRows
    /\ docRows' = Without(docRows, {id})
    /\ forgone' = forgone \cup {docRows[id]}
    /\ submitting' = [submitting EXCEPT ![u] = [type |-> "deindex", id |-> id, path |-> docRows[id]]]
    /\ UNCHANGED <<docs, index, tasks, indexing>>

\* IndexFileAsync and RemoveFromIndexAsync: the send does not wait.
SubmitAsync(u) ==
    LET task == submitting[u] IN
    /\ task # NoTask
    /\ IF Len(tasks) < QueueLength
         THEN tasks' = Append(tasks, task) /\ UNCHANGED forgone
         ELSE forgone' = forgone \cup {task.path} /\ UNCHANGED tasks
    /\ submitting' = [submitting EXCEPT ![u] = NoTask]
    /\ UNCHANGED <<docRows, docs, index, indexing>>

\* The charge to the user fails: the row of the upload is there, and no task.
ChargeFails(u) ==
    /\ Faults /\ submitting[u].type = "index"
    /\ submitting' = [submitting EXCEPT ![u] = NoTask]
    /\ UNCHANGED <<docRows, docs, index, tasks, indexing, forgone>>

------------------------------------------------------------------------------
(* The workers.                                                              *)

Taken(w, type) == indexing[w] = NoTask /\ tasks # <<>> /\ Head(tasks).type = type

\* A plausible slip: the entry is added to those of the path.
DeleteOldNothing(p) == UNCHANGED index

\* A plausible slip: the statement has no WHERE.
DeleteOldAll(p) == index' = [q \in DocPaths |-> <<>>]

DeleteOld(p) == index' = [index EXCEPT ![p] = <<>>]

Remove(w) ==
    /\ Taken(w, "deindex") /\ tasks' = Tail(tasks)
    /\ index' = [index EXCEPT ![Head(tasks).path] = <<>>]
    /\ UNCHANGED <<docRows, docs, submitting, indexing, forgone>>

\* indexFile: the row is read and the text taken from the bytes, then Index
\* begins; a row that is gone, or bytes that are not there, end it before.
IndexDelete(w) ==
    /\ Taken(w, "index") /\ tasks' = Tail(tasks)
    /\ IF Head(tasks).id \in DOMAIN docRows
         THEN /\ DeleteOld(Head(tasks).path)
              /\ indexing' = [indexing EXCEPT ![w] = Head(tasks)]
         ELSE UNCHANGED <<index, indexing>>
    /\ UNCHANGED <<docRows, docs, submitting, forgone>>

IndexInsert(w) ==
    /\ indexing[w] # NoTask
    /\ index' = [index EXCEPT ![indexing[w].path] = Append(@, indexing[w].id)]
    /\ indexing' = [indexing EXCEPT ![w] = NoTask]
    /\ UNCHANGED <<docRows, docs, tasks, submitting, forgone>>

\* The error is logged and the task done with.
TaskFails(w) ==
    /\ Faults
    /\ \/ indexing[w] = NoTask /\ tasks # <<>> /\ tasks' = Tail(tasks) /\ UNCHANGED indexing
       \/ indexing[w] # NoTask /\ indexing' = [indexing EXCEPT ![w] = NoTask] /\ UNCHANGED tasks
    /\ UNCHANGED <<docRows, docs, index, submitting, forgone>>

\* The channel is lost, and nothing calls RebuildIndex.
SearchRestarts ==
    /\ Faults /\ tasks' = <<>>
    /\ submitting' = [u \in Uploaders |-> NoTask] /\ indexing' = [w \in Indexers |-> NoTask]
    /\ UNCHANGED <<docRows, docs, index, forgone>>

handleTask(w) == Remove(w) \/ IndexDelete(w) \/ IndexInsert(w)

SearchNext ==
    \/ \E u \in Uploaders :
         \/ SubmitAsync(u) \/ ChargeFails(u)
         \/ \E p \in DocPaths : UploadDoc(u, p)
         \/ \E id \in DOMAIN docRows : DeleteDoc(u, id)
    \/ \E w \in Indexers : handleTask(w) \/ TaskFails(w)
    \/ SearchRestarts

SearchSpec == SearchInit /\ [][SearchNext]_searchVars

------------------------------------------------------------------------------
\* The workers between the two statements of Index for a path.
Inserting(p) == {w \in Indexers : indexing[w] # NoTask /\ indexing[w].path = p}

\* Two tasks of one path may both delete before either inserts; the path never
\* has more entries in the index than there are workers.
EntriesBounded ==
    \A p \in DocPaths : Len(index[p]) + Cardinality(Inserting(p)) <= Cardinality(Indexers)

\* The path has an entry of a file that is there.
Indexed(p) == \E id \in DOMAIN docRows : \E i \in 1..Len(index[p]) : index[p][i] = id

\* A path with a file is in the index in the end, and stays so but while a worker is
\* replacing its entry, unless a file of the path was deleted (whose task may be
\* handled after that of a later upload) or the full queue dropped its task.
UploadIsIndexed ==
    \A p \in DocPaths :
        []((\E id \in DOMAIN docRows : docRows[id] = p)
             => <>[](Indexed(p) \/ Inserting(p) # {} \/ p \in forgone))
===============================================================================
