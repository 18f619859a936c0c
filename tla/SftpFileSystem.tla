--------------------------- MODULE SftpFileSystem ---------------------------
(***************************************************************************)
(* pkg/sftp/filesystem.go: the handles of the SFTP sessions of one user    *)
(* and the storage calls behind each request.  Every session has a handle  *)
(* table of its own; the storage is shared, and an OPEN asks whether the   *)
(* file exists before the step that creates it.  Paths are members of a    *)
(* small set: the user's root and the cleaning of the path are left out.   *)
(*                                                                         *)
(* Data.  A WRITE carries one chunk, whole in the file, or in part when it *)
(* failed half-way; it is known by its handle and its number there.  A     *)
(* blob is named after the handle whose OPEN created it.  With             *)
(* LocalStorage ("local") a blob is an inode, which keeps its bytes when   *)
(* its name goes; with S3Storage ("object") a writer keeps its bytes until *)
(* Close puts the object.  Of the calls that may fail for no reason of     *)
(* theirs, the writer's Write and Close are modelled.                      *)
(***************************************************************************)
EXTENDS Maps

CONSTANTS Sessions,   \* connections of the one user
          Names,      \* the paths in use
          Drivers     \* the storage drivers it may run on

ASSUME DriversAssumption == Drivers \subseteq {"local", "object"}

VARIABLES driver,     \* the driver configured, for good
          store,      \* path -> blob, or Dir
          content,    \* blob -> the chunks in it
          handles,    \* session -> handle -> openHandle
          hist        \* ghost: writer's handle -> its blob, the WRITEs tried, those
                      \* answered OK, and whether it is closed

fs == <<store, content, handles, hist>>

Dir      == 0
Root     == "/"
Buffered == driver = "object"

IsDir(p)       == p = Root \/ (p \in DOMAIN store /\ store[p] = Dir)
IsFile(p)      == p \in DOMAIN store /\ store[p] # Dir
Exists(p)      == p = Root \/ p \in DOMAIN store

Chunk(h, k, whole) == [of |-> h, k |-> k, whole |-> whole]
NoChunk            == Chunk(None, 0, FALSE)
Chunks(h, n)       == [k \in 1..n |-> Chunk(h, k, TRUE)]

\* Bytes written at a descriptor's own position, over whatever is there.
Overlay(c, pos, chunk) ==
    [i \in 1..(IF pos + 1 > Len(c) THEN pos + 1 ELSE Len(c)) |->
        IF i = pos + 1 THEN chunk ELSE IF i <= Len(c) THEN c[i] ELSE NoChunk]

\* `written` is the position the writer has reached.
openHandle(path, reader, blob) ==
    [path |-> path, reader |-> reader, writer |-> blob, written |-> 0,
     isDir |-> FALSE, dirList |-> {}]

------------------------------------------------------------------------------
(* The storage driver's Create and Close.                                    *)

Created(h, path) == IF Buffered \/ path \notin DOMAIN store THEN h ELSE store[path]

Create(h, path) ==
    IF Buffered
      THEN UNCHANGED <<store, content>>
      ELSE /\ store' = Put(store, path, Created(h, path))
           /\ content' = Put(content, Created(h, path), <<>>)

\* PutObject puts all of the buffer, or fails and puts nothing.
WriterClose(h, path, n) ==
    \/ /\ Buffered
       /\ store' = Put(store, path, h)
       /\ content' = Put(content, h, Chunks(h, n))
    \/ UNCHANGED <<store, content>>

------------------------------------------------------------------------------
(* OPEN, after store.Exists has answered `exists`.  Every write mode creates *)
(* (and so truncates); a file asked to be written without CREAT is created   *)
(* and then refused, its writer left open.                                   *)

OpenFile(s, h, path, flags, exists, Ok, Missing, Denied) ==
    LET creates    == "WRITE" \in flags \/ ("CREAT" \in flags /\ ~exists)
        uncreated  == creates /\ IsDir(path)
        made       == creates /\ ~uncreated
        unreadable == /\ "READ" \in flags
                      /\ ~Exists(path) /\ ~(made /\ ~Buffered)
        missing    == flags # {} /\ ~exists /\ "CREAT" \notin flags
        blob       == IF made THEN Created(h, path) ELSE None
    IN /\ CASE made /\ unreadable /\ Buffered -> WriterClose(h, path, 0)
            [] made /\ ~(unreadable /\ Buffered) -> Create(h, path)
            [] OTHER -> UNCHANGED <<store, content>>
       /\ hist' = IF made
                    THEN Put(hist, h, [blob |-> blob, n |-> 0, acked |-> {}, closed |-> unreadable])
                    ELSE hist
       /\ IF uncreated \/ unreadable \/ missing
            THEN /\ UNCHANGED handles
                 /\ IF uncreated \/ unreadable THEN Denied ELSE Missing
            ELSE /\ handles' = [handles EXCEPT ![s] =
                       Put(@, h, openHandle(path, "READ" \in flags, blob))]
                 /\ Ok

\* CLOSE: the errors of the reader's and the writer's Close are dropped, so that
\* it is answered OK when the object could not be put.
CloseFile(s, h, Ok, Failed) ==
    IF h \in DOMAIN handles[s]
      THEN LET o == handles[s][h] IN
           /\ IF o.writer # None THEN WriterClose(h, o.path, o.written)
                                 ELSE UNCHANGED <<store, content>>
           /\ handles' = [handles EXCEPT ![s] = Without(@, {h})]
           /\ hist' = IF h \in DOMAIN hist THEN [hist EXCEPT ![h].closed = TRUE] ELSE hist
           /\ Ok
      ELSE UNCHANGED fs /\ Failed

Bytes(path) == content[store[path]]

\* What a READ at `off` returns, when it does: none past the end.
DataAt(s, h, off) ==
    LET c == Bytes(handles[s][h].path) IN IF off < Len(c) THEN c[off + 1] ELSE NoChunk

\* READ opens the path anew: the bytes are those of whatever is there now.
\* The flag that says the end was reached is not used by the caller.
ReadFile(s, h, off, Data, Failed) ==
    /\ UNCHANGED fs
    /\ IF /\ h \in DOMAIN handles[s]
          /\ handles[s][h].reader
          /\ IsFile(handles[s][h].path)
          /\ Buffered => off <= Len(Bytes(handles[s][h].path))
         THEN Data ELSE Failed

HasWriter(s, h) == h \in DOMAIN handles[s] /\ handles[s][h].writer # None

\* A WRITE is tried; `stored` is how much of its chunk gets to the file.
Tried(s, h, stored) ==
    LET k == hist[h].n + 1 IN
    /\ hist' = [hist EXCEPT ![h].n = k,
                            ![h].acked = IF stored = "all" THEN @ \cup {k} ELSE @]
    /\ handles' = IF stored = "none" THEN handles
                    ELSE [handles EXCEPT ![s][h].written = @ + 1]

\* A plausible slip: the write finds its file by path, as READ does.
WriteFileByPath(s, h, Ok, Failed) ==
    IF HasWriter(s, h)
      THEN LET o == handles[s][h] IN
           /\ Tried(s, h, "all")
           /\ content' = IF IsFile(o.path)
                           THEN [content EXCEPT ![store[o.path]] =
                                    Overlay(@, o.written, Chunk(h, hist'[h].n, TRUE))]
                           ELSE content
           /\ UNCHANGED store
           /\ Ok
      ELSE UNCHANGED fs /\ Failed

\* A plausible slip: each write is put at once, so that a session that ends
\* before its CLOSE leaves the part it had sent.
WriteFileThrough(s, h, Ok, Failed) ==
    IF HasWriter(s, h)
      THEN /\ Tried(s, h, "all")
           /\ WriterClose(h, handles[s][h].path, hist'[h].n)
           /\ Ok
      ELSE UNCHANGED fs /\ Failed

\* WRITE appends at the writer's position whatever offset the packet names.  A
\* buffer takes all it is given; a file may take a part, or none, and the WRITE is
\* then answered FAILURE, the part staying where it is.
WriteFile(s, h, Ok, Failed) ==
    IF HasWriter(s, h)
      THEN LET o == handles[s][h] IN
           /\ UNCHANGED store
           /\ \E stored \in {"all", "part", "none"} :
                /\ Buffered => stored = "all"
                /\ Tried(s, h, stored)
                /\ content' =
                     IF Buffered \/ stored = "none" THEN content
                     ELSE [content EXCEPT ![o.writer] =
                             Overlay(@, o.written, Chunk(h, hist[h].n + 1, stored = "all"))]
                /\ IF stored = "all" THEN Ok ELSE Failed
      ELSE UNCHANGED fs /\ Failed

Stat(path, Attrs, Failed)  == UNCHANGED fs /\ IF Exists(path) THEN Attrs ELSE Failed

FStat(s, h, Attrs, Failed) ==
    UNCHANGED fs /\ IF h \in DOMAIN handles[s] /\ Exists(handles[s][h].path)
                      THEN Attrs ELSE Failed

SetStat(Ok) == UNCHANGED fs /\ Ok

\* The listing is taken when the directory is opened; `exists` was asked before.
OpenDir(s, h, path, exists, Ok, Failed) ==
    IF exists /\ IsDir(path)
      THEN /\ handles' = [handles EXCEPT ![s] = Put(@, h,
                 [path |-> path, reader |-> FALSE, writer |-> None, written |-> 0,
                  isDir |-> TRUE,
                  dirList |-> IF path = Root THEN DOMAIN store ELSE {}])]
           /\ UNCHANGED <<store, content, hist>>
           /\ Ok
      ELSE UNCHANGED fs /\ Failed

\* All that is left goes in one answer.
ReadDir(s, h, Some, End, Failed) ==
    IF h \in DOMAIN handles[s] /\ handles[s][h].isDir
      THEN /\ handles' = [handles EXCEPT ![s][h].dirList = {}]
           /\ UNCHANGED <<store, content, hist>>
           /\ IF handles[s][h].dirList = {} THEN End ELSE Some
      ELSE UNCHANGED fs /\ Failed

\* Delete is os.RemoveAll, or DeleteObject: a missing path is no error.
Delete(path, Ok) ==
    /\ store' = Without(store, {path})
    /\ UNCHANGED <<content, handles, hist>>
    /\ Ok

Mkdir(path, Ok, Failed) ==
    IF IsFile(path) THEN UNCHANGED fs /\ Failed
      ELSE /\ store' = Put(store, path, Dir)
           /\ UNCHANGED <<content, handles, hist>>
           /\ Ok

\* os.Rename replaces a file by a file, and no directory, not even by itself.
Rename(old, new, Ok, Failed) ==
    IF old \in DOMAIN store /\ ~IsDir(new) /\ (IsFile(new) => IsFile(old))
      THEN /\ store' = IF old = new THEN store ELSE Put(Without(store, {old}), new, store[old])
           /\ UNCHANGED <<content, handles, hist>>
           /\ Ok
      ELSE UNCHANGED fs /\ Failed
==============================================================================
