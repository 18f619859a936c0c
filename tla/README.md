# A TLA+ model of PureFS

PureFS (`src/PureFS-App`) is a self-hosted file server written in Go: HTTP handlers call
services, services call repositories (SQL statements on SQLite) and a storage driver
(a directory, an S3 bucket, or either behind encryption). This project models the parts of
it whose correctness depends on what runs at the same time, what fails half-way and what
order things happen in; checks them with TLC on small instances; and proves with
TLAPS, for instances of any size, the safety properties of the task queue, of uploads,
deletions and the quota, of SFTP sessions, encrypted storage, accounts, shares, search, the
rate limiter and permissions.

## Inventory

| component | state | operations | interacts with | what is hard |
|---|---|---|---|---|
| task queue (`internal/task/queue.go`) | channel of 1024, `started`, `stopped` under a mutex, wait group | `Start`, `Submit`, `Stop`, worker loop | file service (submits), search (handles), `main` (stops) | submit against stop, drain on shutdown, full buffer |
| file service (`service/file_service.go`) | `files`, `users.storage_used`, bytes under `/users` | upload, delete, rename, move, copy, create directory, pins, permission checks | versions (snapshot), bin (trash), search (queue), audit | no transactions: every statement may fail or be the last before a crash; check-then-act on the quota |
| recycle bin (`service/recycle_service.go`) | `recycle_bin`, bytes under `/.trash` | trash, restore, purge one, empty, periodic cleanup | file service, storage, the ticker in `main.go` | bytes and rows change in separate steps, undo paths, the clamp of the list |
| versions (`service/version_service.go`) | `file_versions`, bytes under `/.versions` | save, prune, restore, delete | file service | pruning while restoring, concurrent pruning, numbering |
| repositories, database | tables of the above | one SQL statement each | services | a pragma that reaches one connection, clamped pages, cascades |
| storage drivers | bytes by path | create, delete, rename, copy, exists | services | rename replaces; the S3 rename is two calls |
| key manager, encrypted storage | key versions (in memory only), headers of files | rotate, create, open | storage, rotation ticker | rotation during a create, restart |
| search | FTS table, a channel of tasks | index, deindex, search, rebuild | queue, files | order of index and deindex with two workers, two statements per entry, tasks dropped or lost |
| shares | `shares` | create, validate, record access, deactivate | file service | count tested before and charged after |
| accounts | the rows of `users`, tokens the clients hold | login, refresh, TOTP, password reset, E2EE keys, activation | handlers, SFTP login | read-modify-write of whole rows over columns that have statements of their own |
| rate limiter | per-IP windows under a mutex | allow, cleanup | every handler | fixed windows next to each other, cleanup of an open one |
| SFTP | handle tables, handle counter, packets in flight | open, read, write, close, list, rename, remove, ... | storage, past the services | handle lifetime, tests of existence that grow stale, answers under the right id, sessions that end half-way |
| permissions | `file_permissions` | grant, revoke, `checkPerm` | file service | which of several rows decides |
| WebDAV | a lock table in a library | the methods of WebDAV | storage and `files` rows, past the services | no versions, quota or bin |
| audit, integrity check, configuration, monitoring, TLS | none shared, or append-only | | | I/O |

The properties that make each component correct are the subject of the sections below for
the modelled ones. For WebDAV there is none to state beyond those of its library: it calls
the storage and the rows one after the other and promises nothing of what runs beside it.

## The modules

    AsyncTasks      what submitters may rely on: refused at once, or completed once
    TaskQueue       the queue; ImplementsAsyncTasks is its refinement of AsyncTasks
    TaskQueueProofs its theorems
    MCTaskQueue     the instance TLC checks

    FileStore       tables, storage, counters, goroutines: shared by the services
    RecycleService  Trash, Restore and the purges          (EXTENDS FileStore)
    VersionService  snapshots, pruning, restore of one     (EXTENDS FileStore)
    FileService     Upload, Delete, the composition, its fairness and properties
    MCFileService   the instances TLC checks
    FileServiceProofs  theorems: shapes, and the number of versions
    FileServiceBytes   theorems: where the bytes of uploads and rows are
    FileServiceQuota   theorems: storage_used against the rows and the quota
    FileServiceVersions  theorems: versions and the bin of one request at a time

    Maps            tables and maps as functions
    SftpFileSystem  the handles of SFTP sessions and the storage calls behind a request
    SftpServer      the request loop of the sessions       (EXTENDS SftpFileSystem)
    SftpProofs              its theorems
    KeyManager      key versions, rotation, restart
    EncryptedStorage   creation and opening of files       (EXTENDS KeyManager)
    EncryptedStorageProofs  its theorems
    UserService     one account, its requests and its tokens
    ShareService    one share and the requests that use it
    SearchService   the index, its queue and its workers
    RateLimiter     the windows of each address
    Permissions     rows of grants and checkPerm
    ServicesProofs  the theorems of the last five, a part for each, and of Services
    Services        the seven above under one specification, with their fairness
    MCServices      the instances TLC checks

### TaskQueue

`jobs` is the channel's buffer, `mu` the goroutine that holds `q.mu`, `worker`/`job` the state
of the workers, `call[t]` the progress of the one `Submit` call of task `t` and then of the task
itself, `stop[s]` the progress of goroutine `s` in `Stop`. A step is what no other goroutine can
interrupt: the acquisition of the mutex, the test of `stopped`, the non-blocking send with
the deferred unlock, the close, the end of the wait. `close(q.jobs)` is outside the
critical section, as in the code. A send on, or a close of, a closed channel sets `panicked`.
`Submit` is called after `Start`, as its comment demands and `main.go` does. The constructor
turns fewer than one worker into one, hence `Workers # {}`.

Fairness: `CallerFairness` says that a goroutine inside `Submit` or `Stop` is scheduled;
taking the mutex is strongly fair because `sync.Mutex` hands itself to a starving waiter.
Nobody is obliged to call anything. `WorkerFairness`, that handlers return, is not part of
`Spec`: it is a hypothesis of the two properties that need it (`AcceptedIsHandled`,
`StopCallReturns`), while `SubmitReturns` holds without it, which is the point of the
non-blocking send ("rather than blocking the upload handler").

### FileStore, RecycleService, VersionService, FileService

A goroutine `p` is at step `pc[p]` with locals `loc[p]`. One SQL statement or one call of the
storage driver is one step, because the services use no transaction and no lock; names of the
steps are the function's initials and what the step does (`tr_rename`, `sv_copy`, `rv_row`).
Every step takes place or, while `MaxFaults` allows, fails (`OrFault`) with what the error path
does: undo, ignore, or return. `Crash` resets all goroutines between two steps; a call cut
short by a crash leaves what a failing call leaves. `Expire` lets the retention of an item
end at any time. The ghosts `acked` and `erased` record which uploads were answered with
success and which bytes a purge or a pruning deleted.

`files`, `bin` and `vers` are tables by AUTOINCREMENT id. A path is a record of one of the four
shapes the services build; as in the code, an upload's path has no trace of the parent
directory. The bytes at a path (`store`) are the id of the upload that wrote them, their size
and whether the client had encrypted them. `PRAGMA foreign_keys=ON` reaches one connection of the
pool, so `CascadeVersions` and the check in `SvRow` may or may not happen.

Abstracted: MIME types, timestamps other than the second in a snapshot's path, pins (which
reorder a listing), audit entries, index tasks (`SearchService`), permissions (`Permissions`;
moving a file to the bin demands its owner in any case). Folders exist throughout and are not
themselves deleted.

A restriction that the code does not have: two uploads of one user and name at the same time write
one temporary path (`file_service.go:179-217`). The second truncates what the first has
written, one of them renames the other's bytes into place, and its row carries the size and
checksum of its own. The model does not let the second begin while the first is on its way to its
rename (`Uploading`), so everything said below of files is said of uploads that do not meet there.
With `FreshNames` the restriction follows from that one: a name is uploaded once.

Fairness: a request in progress runs on (`WF_vars(Steps(p))`, the Go scheduler), and the ticker
starts a cleanup (`WF_vars(CleanupExpired(j))`, `for range ticker.C` in `main.go`). No request is
obliged to arrive.

### SftpFileSystem, SftpServer

`handles[s]` is the table of session `s`, `store` the paths of the one user, `content` the bytes behind
them, `reqID` the handle counter all sessions share. `driver` is fixed at the start: with
`LocalStorage` a path names an inode that outlives its name, so that writing through a handle
goes on after a rename or a removal; with `S3Storage` a writer keeps its bytes until `Close` puts the
object. A session serves one packet at a time (`dispatch`, one action per handler), but the client
may have sent others before it reads its answers (`inbox`, `outbox`). `OPEN` and `OPENDIR` are two
steps, because other sessions run between `store.Exists` and what is done with the answer;
the others make one storage call. `EndSession` drops the table with readers and writers still
open, as `serveSFTP` does. The ghost `hist` records how many writes were tried through each handle and
which of them were answered OK, `due` the request ids a client is owed an answer to.

What the code does and the model keeps:

- Every write mode creates, and so truncates; a file opened for writing without `CREAT` is created and
  then refused, with its writer left open (`filesystem.go:161`).
- Over a directory a `WRITE` may fail and leave none or a part of its bytes in the file
  (`filesystem.go:244`). It is answered FAILURE, the part stays, and the next write goes behind
  it, since the offset a client names is not used.
- `Close` of an S3 writer may fail to put the object (`s3.go:98`); `CloseFile` drops the error (`:181`) and
  the client is answered OK. Nothing in the model or in the code says that what was closed is there.
- `READ` opens the path of its row anew and answers with what is there by then, never with `EOF`.
- Types the server does not serve are answered under id 0.
- Of a packet longer than the buffer the length is passed over and not the body (`server.go:312`). What
  is read next is out of step (`Adrift`): no packet that is served (`drift`), or bytes that make one
  the client has never sent, with any type, operands and id (`misread`); and the reading may
  come back to the beginning of a packet, at any one or never.

Abstracted: `handleOpen` reads its flags at the second word after the path (`server.go:483`), where
a client of the version 3 it announces has put the attributes; the model takes the flags as the
server understands them. `Create` and `Open` within one OPEN are one step.

Left out: packets that do not parse (some of them make the session's goroutine panic, which ends the
process); errors of the storage calls other than `Write` and `Close`; the user's root (taken to exist)
and path cleaning; directories and renames over S3; either driver behind encryption, which
`main.go:79` may put under the SFTP server it starts (`main.go:320`): a writer of `EncryptedStorage` buffers as
an S3 writer does and empties its file as a local one does. And the SFTP server keeps its files in the
users' directories that uploads over HTTP use, without looking at their rows: the model has the
two apart, so that nothing is said of a file that both write.

### KeyManager, EncryptedStorage

`currentVersion` and `keks` are the key manager's fields; `HKDF` gives each version its key for ever,
which is why a restart, which counts from 1 again, may still open every file. Creating a
file takes three steps under no common lock: the version is read (`CreateVersion`), the key
fetched and the file emptied (`CreateInner`), the header written (`WriteHeader`); closing seals
the body behind it. Reading takes three as well. Between any two of them the ticker rotates
(`RotateTick`), another writer empties or overwrites the same inode, a path is deleted or
renamed, a write fails half-way or the process restarts. A body is known by the write that sealed
it and by the data key it opens under, `Torn` when there is none (a longer body under a shorter one,
a write cut short). `sealed` is a ghost: the writes made and closed on each inode.

Left out: `Stat`, which subtracts the header and not the 28 bytes of nonce and tag
(`encrypted.go:153`), `List`, `Mkdir`, `Copy`, `Exists` and `ReadHeader`, which change no state of this layer.

### UserService

One account. A request reads the row in one statement and writes it back in another (`Reads`,
`Writes`); `Update` writes every column as it was read but for those that have a statement of their own
(reset token, its expiry, E2EE columns), which is what keeps those columns safe from stale
rows. `call[c]` is a request between its two statements with the row it read; `jwt[k]` the time
left to the newest token of client `k`. `GetByID` does not select the reset token's columns.
`ResetPassword` is three steps: the reading, `Update`, and the clearing of the token.

Codes are tested against the secret of the row, whatever it is: `EnableTOTP` and `Login` do not ask
whether there is one (`user_service.go:159`, `auth/totp.go:19`), and the empty secret has its codes like
any other. So the model lets an account ask for codes of the empty secret, and `proven`, a ghost, records
the secrets `EnableTOTP` has accepted a code of, the empty one among them. It also records what
`SetupTOTP` puts in a row that it read as asking for codes: there the new secret takes the place of
the old one before any code of it has been seen (`user_service.go:143`).

What the model keeps and no property forbids: a stale row written back reverts another request's
deactivation or change of password (`user_service.go:216`, `:297`); two resets with one token that run at the same time
both change the password, since the token is cleared after. Passwords, hashing, the password policy and the
listing of users are left out.

### ShareService, SearchService, RateLimiter, Permissions

`ShareService`: a request tests the row (`Begins`) and counts the access in a later statement
(`RecordAccess`); the owner deactivates, the file goes, the time passes, a statement fails in
between. `ServeContent` drops an error of the count and serves; `GetShare` counts before the
password is compared, so that the password changes nothing here. The public page of a share
(`GetPublicShare`, `public_share.go:26`) makes the same test and answers the file's row without
counting: its views are not among `served`.

`SearchService`: uploads and deletions write their row, then submit a task; a full queue drops it; the
workers run the two statements of `Index` one after the other. The queue itself is `TaskQueue`; its `Stop` is not repeated. After a restart the
channel's tasks are lost, and nothing calls `RebuildIndex`; files restored, copied or moved
are not indexed by any task. What a search answers is not modelled: it compares `user_id`,
inserted as an integer (`fts5.go:57`) into a column without a type, with a parameter that is text
(`search_service.go:145`, `fts5.go:82-85`), and in SQLite the two are never equal. The properties are
about the entries in the index. `forgone` is a ghost of the paths a file was deleted at or a task dropped for: for these
nothing is promised.

`RateLimiter`: every operation holds `mu`, so that `allow` and `cleanup` are one action each; the
clock is an action. `Permissions`: rows in the order the database returns them, granted, changed and
revoked by the administrator, and `checkPerm` as the loop over them; `Allowed` is its reference
definition, the row of the nearest directory. A row whose path has a slash at its end covers
nothing, and the empty path covers every file but is never the longest.

### Services

The seven components above share, as they are modelled, neither a variable nor a lock with
each other or with the file services. Each property reads the variables of one of them.
A behaviour of all seven at once, looked at through the variables of one, is a behaviour of that
one with stuttering; so `Services` lets one component move (`moving`, chosen initially) while
the others rest, and one run checks each of them in turn instead of their product.
For properties of one component this loses nothing.

Fairness (`Progress`): a session's goroutine reads on while there are packets (`serveSFTP`'s loop) and
its client takes the answers; tokens run out with time; a request that has written its row
submits its task; a worker takes tasks while there are any (`for job := range`). Nobody has to send a request, to log
in, to upload or to rotate.

## The runs

Each row names a question. The last four state what a document or a comment
says and the code does not do; TLC's counterexample is the explanation.

| run | instance | shows |
|---|---|---|
| `queue` | 3 tasks, 2 workers, 2 stoppers, buffer 1 | `NoPanic`, `TaskInOnePlace`, `ReturnMeansDrained`, `SubmitReturns`, `AcceptedIsHandled`, `StopCallReturns`, `ImplementsAsyncTasks`, `TypeOK` |
| `files_crash` | 2 requesters, ticker, 2 fresh names, 4 calls, 1 failure, 1 crash | `NoSilentLoss`: an acknowledged upload is somewhere in storage until something purges it |
| `files_cleanup` | 1 requester, ticker, 1 name, 4 calls, 1 failure, 1 crash | `ExpiredIsPurged` (liveness) |
| `files_quota` | 2 requesters, 3 names, sizes 1 and 2, quota 3, 4 calls | `UsedMatchesRows`, `QuotaOvershootBounded`, `RowBacked` |
| `files_prune` | 2 requesters, 1 name in 1 folder or the root, 1 version kept, 5 calls | `VersionsBounded`, `TypeOK` |
| `files_versions` | 1 requester, 2 versions kept, sizes 1 and 2, quota 3, 5 calls of every kind but cleanup | `BinBacked`, `VersionsBacked`, `VersionsDistinct`, `NoTmpLeft`, `RestoreCanBeUndone`, `PrunesOldestFirst` |
| `services` | 2 sessions, 1 path, both drivers, packets `OPEN`, `CLOSE`, `WRITE`, `REMOVE`, `READLINK` and too long; 2 concurrent account requests; 2 writers, 1 reader, 2 paths, 2 key versions, 1 restart; 2 visitors, limits 0 to 2; rate 2 over 7 ticks; 2 uploaders, 2 workers, queue of 1, 3 documents, failures; 3 grant paths | `OpenRowKept`, `AckedIsStored`, `WholeUploads`; `TargetedColumnsKept`, `ResetTokenSpent`, `AskedSecretProven`; `ClosedFileOpens`, `ReaderGetsOneWrite`; `ServedWithinLimit`; `UnderTwiceTheRate`; `EntriesBounded`; `NearestRowDecides` |
| `services_live` | 1 session, 2 requests in flight, the 15 packet types that are served; 2 clients; 2 uploaders, 2 workers, 2 paths | `AnsweredInOrder`, `EveryRequestAnswered`; `DisabledLosesAccess`; `UploadIsIndexed` |
| `e2ee_restored` | 1 requester, 1 upload | a restored file loses its `is_e2ee` flag |
| `restore_pruned` | 1 requester, 1 version kept | restoring the oldest of a full set of versions prunes it first |
| `trash_emptied` | 1 requester, page of 1 | `EmptyTrash` deletes a page of files and all rows |
| `overwrite_kept` | 1 requester, 1 folder | an upload to another folder overwrites with no version |

Bounds. In the queue a buffer of one fills while two workers are busy with two of three tasks,
which is every case of `Submit`; two stoppers are enough for the second call of `Stop`. In
the file runs two requesters and the ticker are every pair of racing operations, four calls
are upload, delete, restore and one that races with them, and the limits (quota 3 against
two uploads of 2, one or two versions kept, a page of one or two) are all reached.
`MaxCalls`, `MaxUploads`, `MaxFaults` and `MaxCrashes` bound the behaviours and nothing else.
`FreshNames` restricts `files_crash` and `files_quota` to names uploaded once: an overwriting
upload replaces bytes by design, which the version runs treat. Symmetry is used in runs with
safety properties only, on `Requesters` and, in `services`, on the sessions and the account
requests, which the definitions treat alike.

In `services` two sessions with two opens and two writes, through one handle or two, reach every order of an
open, a removal and a write of one file, a write that fails half-way before or after one that does
not, and a session that ends between them; two account requests and two reset tokens make
every stale row; two writes of two writers meet on one inode, before and after a rotation and
a restart; two requests pass a limit of 0, 1 or 2; the clock covers three windows and two ticks;
two workers meet on one path, with three documents and a full queue. `MaxOpens`, `MaxWrites` (the
writes tried through all handles together), `MaxTokens`, `MaxWritesOfFiles`, `MaxVersion`,
`MaxRestarts`, `MaxServed`, `MaxTime` and `MaxDocs` bound the behaviours; `Window` bounds the requests that a client
has no answer of and the packets in the two queues of its session.

The two sets of packet types differ so that each run stays within minutes. `services` has those
that can take a file from under a handle, but for `RENAME`, and those that put a session out of step;
`services_live` has every type that is served, and leaves out those that are not answered under their
id: `READLINK`, `SYMLINK`, `EXTENDED`, `FSETSTAT` and packets that are too long. Two constraints of
`services` (module `MCServices`) bound it further: a session whose answers are out of step is explored with one
open at most and the other sessions at rest (`AstrayAlone`), and a second reset token only where no TOTP
secret is in use (`ResetsApart`). The theorems have none of these bounds. `services` has some 960 000 distinct states,
`services_live` some 108 000. `CHECK_DEADLOCK FALSE` is set everywhere, since
a server with no more requests, or a stopped queue, rightly stops.

What holds only under a restriction, and why:

- `AckedIsStored` is of handles that alone write their file, over `LocalStorage`: two handles on one
  file overwrite each other, and S3 holds nothing before `Close`, of which `WholeUploads` speaks. It says
  that the acknowledged writes are whole and in order. Parts of writes answered FAILURE may stand
  between them; a client that sends such a write again gets its bytes behind the part.
- `WholeUploads` says that what is at a path is whole, not that what was closed is there.
- `OpenRowKept` is of the rows of the tables: a handle keeps its path, its reader and its writer. It does
  not say that a handle which reads goes on reading one file, for `READ` opens the path anew.
- `AnsweredInOrder` and `EveryRequestAnswered` are of the types that are served.
- `AskedSecretProven` says of a secret that a code of it was accepted, or that it replaced one that
  was asked for; not that it is not empty.
- `ClosedFileOpens` is of files one writer has created: two writers of one inode leave the header of
  one before the body of the other, which no key opens. `ReaderGetsOneWrite` holds for all.
- `ServedWithinLimit` is not `served <= max_accesses`: requests at once each pass the test.
- `UnderTwiceTheRate` is not "at most `rate`", the words of the middleware's comment, which
  hold of its windows and not of every interval of that length.
- `UploadIsIndexed` excludes paths a file was ever deleted at (the old task may be handled last),
  dropped tasks, and the time between the two statements of a worker that replaces an entry. It is
  checked without failures and restarts, which lose tasks for good, and supposes that uploads
  submit their task and workers take them (`Progress`).
- `DisabledLosesAccess` supposes that the account stays disabled, since a stale row written back may
  enable it again.
- `VersionsDistinct`, `NoTmpLeft`, `VersionsBacked`, `BinBacked` and `RestoreCanBeUndone` are checked of
  one request at a time and without failures. Two snapshots of one file in the same
  second share a number and a path; a failed reading of the user leaves the temporary
  file; after a failed second statement of a purge the item is still listed.
- `UsedMatchesRows`, `QuotaOvershootBounded` and `RowBacked` are checked of concurrent uploads,
  deletions and purges, without failures (a failed charge is never made up for) and without
  restores: a restore charges without looking at the quota, and a deletion that read its row
  before another deletion and a restore of the same file takes the restored bytes away
  under the old id.
- `PrunesOldestFirst` is checked of one request at a time. Between a pruning's
  choice of the oldest version and its deletion, a snapshot whose number was computed before other
  prunings may add its row below the chosen one (six calls of two requesters reach it).

## The proofs

`TaskQueueProofs` proves, from `QueueAssumption` alone (a positive capacity, at least one worker,
distinct names), for any number of tasks, workers and stoppers:

| theorem | statement |
|---|---|
| `TypeCorrect` | `Spec => []TypeOK` |
| `NeverPanics` | `Spec => []NoPanic` |
| `OnePlace` | `Spec => []TaskInOnePlace` |
| `StopDrains` | `Spec => []ReturnMeansDrained` |
| `QueueRefines` | `Spec => ImplementsAsyncTasks` |
| `QueueInvariant` | `Spec => []IInv`, on which the others rest |

None of the four safety properties is inductive. `NoPanic` needs to know that `stopped` was set
by exactly one goroutine, that only this one closes the channel, and that a goroutine past its
test of `stopped` still holds the mutex and so precedes the setting of `stopped`: these are
`StopInv` and `MutexInv`. `ReturnMeansDrained` needs `WorkerInv` (workers that have left found the
channel closed and empty, and an empty closed channel stays empty). `IInv` is their conjunction
with `TypeOK`, `TaskInOnePlace` and `NoPanic`; one lemma per conjunct shows that each action
preserves it (`TypeStep`, `MutexStep`, `StopStep`, `WorkerStep`, `PlaceStep`, `PanicStep`). For the
refinement, `Mapping` says what the abstract status of a task is in each of its states, and
`StepRefines` takes the actions one by one: the send is `Accept` or `Refuse`, `Handle` is `Complete`,
`StopMark` is `Close`, the return of the closing `Stop` is `Drain`, and everything else stutters.

`FileServiceProofs` proves, from `FileStoreAssumption` alone, for any number of requesters,
cleanups, names, folders, calls, failures and crashes:

| theorem | statement |
|---|---|
| `StorageTypeCorrect` | `Spec => []TypeOK` |
| `VersionsStayBounded` | `MaxFaults = 0` and `MaxCrashes = 0` imply `Spec => []VersionsBounded` |
| `StorageInvariant` | `Spec => []Inv`, on which the others rest |

`TypeOK` is not inductive, for two reasons. A goroutine keeps rows and paths in its locals across
steps and writes them to the tables later, so the invariant (`TypeInv`) says what
each local holds at each step that uses it. And an upload's rename reads the bytes at its
temporary path and its later steps use their id, so the shapes depend on nobody having touched
that path: `UpInv` adds that two uploads in progress never share a path (`Exclusive`) and that the
bytes are still the upload's own (`TmpHeld`: every other step that writes or deletes acts on a path of
another kind). `Exclusive` is the guard `Uploading`, a restriction of the model and not of the code (see
above), and neither is a result; where names are fresh the guard is implied. Each step has a
lemma for the shapes and one for `UpInv`.

For `VersionsBounded` the invariant (`PruneInv`) adds that whenever a file has more versions
than `MaxVersions` some goroutine is in `pruneOldest` for that file (`SomeonePrunes`; it leaves
only on counting few enough), and that a goroutine about to insert a snapshot inserts one of the
file it was called for, which is the file it prunes next (`SnapOfFile`). A failed deletion or a
crash in the middle of a pruning leaves the surplus to the next snapshot, hence the two
assumptions, which are those of the run.

`FileServiceBytes` and `FileServiceQuota` add, from the assumptions named:

| theorem | assumed | statement |
|---|---|---|
| `AnsweredUploadsStay` | `FreshNames` | `Spec => []NoSilentLoss` |
| `TemporaryFilesGo` | no failure, no crash | `Spec => []NoTmpLeft` |
| `RowsKeepTheirBytes` | `FreshNames`, no failure, no crash, no restore | `Spec => []RowBacked` |
| `OvershootStaysBounded` | no restore; finitely many requesters and sizes; a quota | `Spec => []QuotaOvershootBounded` |
| `UsedStaysExact` | `FreshNames`, no failure, no crash, no restore; finitely many goroutines | `Spec => []UsedMatchesRows` |

"No failure" is `MaxFaults = 0`, "no crash" `MaxCrashes = 0`, "no restore" `"restore" \notin Ops`:
restrictions of the runs that check the same properties, less some. `files_crash` has failures and a
crash, and so has `AnsweredUploadsStay`; `OvershootStaysBounded` allows both, and requests for
versions, which `files_quota` has not; `TemporaryFilesGo` allows any number of requests at once.

- `NoSilentLoss` (`LossInv`, with `Inv`). A name is uploaded once, so whatever has to do with it
  comes in an order: an upload on its way to a row, then a row, then items of the bin and rows restored
  from them. `NamesInv` says that rows, items and the locals of goroutines that hold one are of names
  whose upload is over (`Settled`), with paths built from that name, and that uploads on their way have
  names of their own. Then `BytesInv`: the bytes of one name are at one path at most (`OnePath`), hence
  a rename, whose two paths are of one name, lands on nothing; no two paths hold one upload's bytes; and
  what is due to be kept (`Due`: the answered, and those past their rename, which are answered next)
  is in storage, or erased, and never at a temporary path, which error paths delete.
- `NoTmpLeft` (`TmpOwned`). A temporary file is that of an upload at its test of the quota or at its
  rename: without failures both leave none.
- `RowBacked` (`BackedInv`, with `LossInv`). Without restores a name has at most one row (`RowsUnique`),
  and only a deletion moves its bytes, knowing which row it is (`Takes`). What a purge deletes are
  slots of rows that are gone, or whose deletion is past its item (`Doomed`), so that a purge between two
  steps of a deletion is harmless.
- `QuotaOvershootBounded` (`QuotaInv`). An upload passes the test when the sum with its own size is within
  the quota, and everything that may be charged meanwhile is of the other requesters, one
  upload each. The bound counts those in flight, which makes it inductive once it is known that a
  goroutine in an upload is a requester and holds the upload's user and size (`UploadsKnown`). A failed
  charge, a crash or a refund only lower the sum.
- `UsedMatchesRows` (`BalanceInv`, with `LossInv` and `BackedInv`). The row a deletion drops has the
  size that was read two steps before, in another statement (`Knows`); of several deletions of one row only the one
  that moved the bytes gets as far as dropping it (`Carries`), because bytes in a user's directory
  always have a row, or an upload about to insert it (`HomesClaimed`).

The two theorems of `FileServiceQuota` are about sums over sets of goroutines and rows. What a sum over a finite set
is, is shown from the definition of the fold, by taking the smallest set for which the
claim fails (`SmallestOf`): the induction of the library has an operator as a parameter, this
has none. The loop of `checkPerm`, a recursive function, is treated in the same way below.

`FileServiceVersions` is about requests that are served one at a time (`OneAtATime`: there is one
requester, if any), by any number of users, beside any number of cleanups. With two requests at once TLC
finds each of the five violated, and the code has no lock that would exclude this: two snapshots may be
given one number and one path, a number may be inserted below a version that is being pruned, and two
deletions of one row may list one slot twice.

| theorem | assumed besides | statement |
|---|---|---|
| `VersionsStayDistinct` | no failure | `Spec => []VersionsDistinct` |
| `OldestArePruned` | nothing | `Spec => PrunesOldestFirst` |
| `RestoresCanBeUndone` | no failure | `Spec => RestoreCanBeUndone` |
| `VersionsKeepTheirBytes` | no failure, no crash | `Spec => []VersionsBacked` |
| `ListedItemsAreThere` | no failure, no crash | `Spec => []BinBacked` |

The first three go beyond their run in that the process may die, and all five in the cleanups. Failures
are excluded where one breaks the property: `NextVersionNum` answers 1 when its query fails, so that two
versions get one number, or the bytes of one are written over; and a pruning, a purge or a
`DeleteVersion` whose second statement fails, or is never reached, leaves a row without its bytes.

- All of them rest on `RequestersWork`: what is in the middle of a request is a requester, so that while
  one request is under way the only other steps are those of cleanups, and they touch the trash only
  (`CleanupTouches`).
- `VersionsDistinct` (`NumberInv`). A snapshot on its way to its row has a number above all of its file's
  (`Saves`), since versions only go meanwhile. Numbers of one file are apart, and paths tell the number.
- `PrunesOldestFirst` (`ChosenInv`). The version a pruning has chosen is still there, with no older one of
  its file.
- `RestoreCanBeUndone` (`SavedInv`, with both). From its snapshot to its overwriting a restore has
  a newest version that holds what the file holds, which is not the one a pruning has chosen (`Saved`):
  a pruning has more than `MaxVersions >= 1` versions before it (`Crowded`), so the oldest is not the newest.
- `VersionsBacked` (`BackingInv`, with `SavedInv`). A version has its bytes, unless a pruning or a deletion
  is between them and the row (`Going`); no two versions share a path, so none loses bytes to another.
- `BinBacked` (`BinInv`). An item's row is gone or about to go (`Doomed`), and its slot has the row's id,
  which is never used again: no two items share a slot (`ItemsApart`). A purge therefore deletes slots of the
  items it has listed, and the rows it drops in the end include them (`Purges`): what expired stays
  expired, and a deletion that lists an item meanwhile lists one of another row. An item without its
  bytes is one that a purge or a restore is about to drop (`Leaving`).

`SftpProofs` proves, for any number of sessions, paths, opens and writes, either driver and any
window of requests:

| theorem | statement |
|---|---|
| `AckedWritesAreStored` | `SftpSpec => []AckedIsStored`, with writes that fail, in part or as a whole |
| `ObjectsAreWholeUploads` | `SftpSpec => []WholeUploads`, with objects that cannot be put |
| `OpenRowsAreKept` | `SftpSpec => OpenRowKept` |
| `AnswersComeInOrder` | `Types \cap Astray = {}` implies `SftpSpec => []AnsweredInOrder` |

The invariant (`SftpInv`) says that a handle is one session's and that one just taken is in no table
and has no history (`Apart`), from the counter all sessions share; that a handle which writes knows its
bytes (`WritersKnown`), and that a buffer has taken every write (`AllAcked`); and, for each driver, what is
behind a handle or a path. With `LocalStorage`, while a handle is the only writer of its inode,
whatever becomes of the path, the inode holds chunks of that handle only, with growing numbers, and the
whole ones are the acknowledged (`InodesHold`, `Ordered`); the writer stands at their end (`AtTheEnd`),
so that a write overwrites nothing, and a part moves the end as a whole write does. With
`S3Storage` an object is the writes of one closed handle (`ObjectsWhole`). All three theorems hold of
sessions out of step as well, which may be read any packet at all.
`OrderInv` says that what a client is owed is what is answered and not yet received, followed by
what is not yet served. It fails with the five types of `Astray`: four are answered under
id 0, one leaves the stream out of step. The run of `AnsweredInOrder` has none of these for the same
reason.

The other proofs state, each from the assumptions of its component's module:

| module | theorem | statement |
|---|---|---|
| `EncryptedStorageProofs` | `ClosedFilesOpen` | `EncSpec => []ClosedFileOpens` |
| `EncryptedStorageProofs` | `ReadersGetOneWrite` | `EncSpec => []ReaderGetsOneWrite` |
| `ServicesProofs` | `WrappedKeyKept` | `UserSpec => []TargetedColumnsKept` |
| `ServicesProofs` | `SpentTokenIsGone` | `UserSpec => []ResetTokenSpent` |
| `ServicesProofs` | `AskedSecretsAreProven` | `UserSpec => []AskedSecretProven` |
| `ServicesProofs` | `LimitPassedByFew` | `ShareSpec => []ServedWithinLimit` |
| `ServicesProofs` | `EntriesAtMostWorkers` | `SearchSpec => []EntriesBounded` |
| `ServicesProofs` | `FewerThanTwiceTheRate` | `RateSpec => []UnderTwiceTheRate` |
| `ServicesProofs` | `NearestRowAnswers` | `PermSpec => NearestRowDecides` |

- Encrypted storage (`EncInv`). The keys cached are those derived, so that a header names the key
  that opens it whatever has been rotated since. Writes are numbered: no two writers have one number,
  a number is on no inode until its file is created and is never used again (`Numbers`). An inode
  that one write was made on (`Alone`) is therefore touched by that writer only, and goes from
  empty to its header to its body; one more creation on it makes it no longer alone. A reader
  keeps a header whose data key is that of one write (`ReadsOne`), and a body opens under the data
  key of its own write or under none (`Body`).
- Accounts (`UserInv`). Reset tokens in the row and in the requests that met one are among those
  made up, so that a new one is not spent (`TokensMade`); rows that requests hold, to be written
  back, ask for codes of proven secrets only (`HeldProven`): secret and flag are written together.
- Shares (`ShareInv`). The accesses counted and the requests between test and count are together
  less than the limit and the number of requests (`CountBounded`): who passes the test finds the count
  below the limit, and there is room for the others.
- Search. `EntriesBounded` counts the workers between the two statements, which makes it inductive with
  the types.
- Rate limiter (`RateInv`). For an address with an open window, the requests before those counted
  in it are no later than its start, and those `rate` further back a window's length earlier
  (`Open`); for a forgotten address all are a window ago (`Forgotten`).
- Permissions (`PermInv`). No two rows have one path, so that the row of a directory is one row. Then
  the loop's best after `n` rows is, for the least `n` at which it were not, still the longest of those that
  cover the file among the first `n`; and of two rows that cover one file the longer is the nearer.

Each is of its component alone. `EachKeepsItsOwn` shows that `ServicesSpec`, which the runs check,
implies the specification of each of the seven, so that the theorems hold of the composition.

Checked by TLC only:

- The liveness properties `SubmitReturns`, `AcceptedIsHandled`, `StopCallReturns`, `ExpiredIsPurged`,
  `EveryRequestAnswered`, `DisabledLosesAccess` and `UploadIsIndexed`: they need fairness and
  `ENABLED`, which the prover does not handle.
- The four properties the code does not have, whose counterexamples are the result.

## Plan

In this order, the most important first:

1. Rename, Move, Copy and CreateDir in `FileService`, with the stale write-back of
   `RestoreVersion`; the S3 rename of two calls under the recycle bin.
2. `NoTmpLeft` and `RowBacked` with failures, as far as they hold: which error paths leave what.

## Not modelled

- Uploads of one user and name that overlap, SFTP over an encrypted driver, files that SFTP and HTTP both
  write, and what a search answers: see the sections of the modules.
- File service: Rename, Move, Copy and CreateDir. They write rows and bytes of paths without
  asking what is there; nothing is promised of the result of two at once.
- WebDAV: calls of the storage and of `files` rows in sequence, without lock, version, quota or
  bin; its locks are a library's.
- S3: the rename of a copy and a deletion.
- Audit log and integrity check (append-only, read-only); ciphers, hashing, text extraction and
  ranking (pure data); HTTP decoding, configuration, monitoring and TLS (I/O); the web client.
