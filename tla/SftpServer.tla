----------------------------- MODULE SftpServer -----------------------------
(***************************************************************************)
(* pkg/sftp/server.go: the request loop of a session.  A session reads one *)
(* packet, dispatches it, answers it and reads the next; the sessions run  *)
(* in goroutines of their own over one storage and one counter of handles. *)
(* The client may send several packets before it reads the answers.  OPEN  *)
(* and OPENDIR take two steps, the test of existence and the rest.         *)
(***************************************************************************)
EXTENDS SftpFileSystem

CONSTANTS Types,     \* the packet types the clients send
          FlagSets,  \* the flags of their OPENs
          Offsets,   \* the offsets of their READs
          Window,    \* bound on the requests a client has in flight
          MaxOpens,  \* bound on the handle counter
          MaxWrites  \* bound on the writes through all the handles

\* Requests that the model leaves out when the driver is S3Storage, which has
\* no directories and renames in two calls.
DirTypes == {"OPENDIR", "READDIR", "MKDIR", "RMDIR", "RENAME"}

VARIABLES reqID,     \* the handle counter, shared by every session
          inbox,     \* session -> packets sent and not served
          outbox,    \* session -> answers sent and not received
          cur,       \* session -> Idle, what a two-step handler holds, or Adrift
          due        \* ghost: session -> ids the client is owed an answer to

sftpVars == <<driver, store, content, handles, hist, reqID, inbox, outbox, cur, due>>

Idle   == [h |-> None, exists |-> FALSE]
Adrift == [h |-> None, exists |-> TRUE]
Handles == 1..MaxOpens
Paths  == Names \cup {Root}

PacketsOf(t) ==
    CASE t = "OPEN"    -> [type : {t}, path : Names, flags : FlagSets]
      [] t = "OPENDIR" -> [type : {t}, path : Paths]
      [] t \in {"STAT", "SETSTAT", "REALPATH", "REMOVE", "MKDIR", "RMDIR"} ->
             [type : {t}, path : Names]
      [] t = "RENAME"  -> [type : {t}, path : Names, to : Names]
      [] t = "READ"    -> [type : {t}, h : 1..reqID, off : Offsets]
      [] t \in {"CLOSE", "WRITE", "FSTAT", "READDIR"} -> [type : {t}, h : 1..reqID]
      [] OTHER         -> [type : {t}]

SftpInit ==
    /\ driver \in Drivers
    /\ store = << >> /\ content = << >> /\ hist = << >> /\ reqID = 0
    /\ handles = [s \in Sessions |-> << >>]
    /\ inbox   = [s \in Sessions |-> <<>>]
    /\ outbox  = [s \in Sessions |-> <<>>]
    /\ cur     = [s \in Sessions |-> Idle]
    /\ due     = [s \in Sessions |-> <<>>]

------------------------------------------------------------------------------
(* The client.  Bounds: opens and writes in all, requests that no answer has *)
(* been received of, packets in the two queues.                              *)

Openings == {"OPEN", "OPENDIR"}

\* Requests on their way that will take a handle.
Promised == Cardinality({w \in Sessions \X (1..(Window + 1)) :
    /\ w[2] <= Len(inbox[w[1]]) /\ inbox[w[1]][w[2]].pkt.type \in Openings
    /\ ~(w[2] = 1 /\ cur[w[1]].h # None)})

UnderWay(s)  == Len(inbox[s]) + Len(outbox[s])
Sent         == IF Buffered THEN Types \ DirTypes ELSE Types
WritesTried  == Cardinality({w \in (DOMAIN hist) \X (1..MaxWrites) : w[2] <= hist[w[1]].n})
Bounded(pkt) ==
    /\ pkt.type \in Openings => reqID + Promised < MaxOpens
    /\ pkt.type = "WRITE" => WritesTried < MaxWrites

\* An answer stays owed until it is received; ids in flight are distinct.
Send(s, pkt) ==
    /\ Len(due[s]) < Window /\ UnderWay(s) < Window /\ Bounded(pkt)
    /\ \E id \in 1..Window :
         /\ \A i \in 1..Len(due[s]) : due[s][i] # id
         /\ \A j \in 1..(id - 1) : \E i \in 1..Len(due[s]) : due[s][i] = j
         /\ due'   = [due EXCEPT ![s] = Append(@, id)]
         /\ inbox' = [inbox EXCEPT ![s] = Append(@, [id |-> id, pkt |-> pkt])]
    /\ UNCHANGED <<store, content, handles, hist, reqID, outbox, cur>>

Receive(s) ==
    /\ outbox[s] # <<>>
    /\ outbox' = [outbox EXCEPT ![s] = Tail(@)]
    /\ LET answered == {i \in 1..Len(due[s]) : due[s][i] = Head(outbox[s]).id}
       IN \/ answered = {} /\ UNCHANGED due
          \/ \E i \in answered : due' = [due EXCEPT ![s] = DropAt(@, i)]
    /\ UNCHANGED <<store, content, handles, hist, reqID, inbox, cur>>

\* The channel closes: serveSFTP returns, its table is dropped with the
\* readers and writers still open, and the client may connect again.
EndSession(s) ==
    /\ handles' = [handles EXCEPT ![s] = << >>]
    /\ inbox' = [inbox EXCEPT ![s] = <<>>] /\ outbox' = [outbox EXCEPT ![s] = <<>>]
    /\ cur' = [cur EXCEPT ![s] = Idle] /\ due' = [due EXCEPT ![s] = <<>>]
    /\ UNCHANGED <<store, content, hist, reqID>>

------------------------------------------------------------------------------
(* serveSFTP and dispatch: the packet at the head goes to its handler.       *)

Pkt(s)        == Head(inbox[s]).pkt
Id(s)         == Head(inbox[s]).id
Served(s, ts) == cur[s] = Idle /\ inbox[s] # <<>> /\ Pkt(s).type \in ts

Reply(s, id, code, val) ==
    /\ inbox'  = [inbox EXCEPT ![s] = Tail(@)]
    /\ outbox' = [outbox EXCEPT ![s] = Append(@, [id |-> id, code |-> code, val |-> val])]
    /\ cur'    = [cur EXCEPT ![s] = Idle]
    /\ UNCHANGED due

sendStatus(s, code)   == Reply(s, Id(s), code, None)
sendHandle(s, h)      == Reply(s, Id(s), "HANDLE", h)
sendData(s, chunk)    == Reply(s, Id(s), "DATA", chunk)
sendName(s, entries)  == Reply(s, Id(s), "NAME", entries)
sendAttrs(s)          == Reply(s, Id(s), "ATTRS", None)
Failure(s)            == sendStatus(s, "FAILURE")
OK(s)                 == sendStatus(s, "OK")

\* INIT carries no request id: the version stands for the answer.
handleInit(s) == Served(s, {"INIT"}) /\ Reply(s, Id(s), "VERSION", 3) /\ UNCHANGED <<fs, reqID>>

\* A plausible slip: the counter is read and not advanced.
nextHandleStuck(s) == /\ reqID' = (IF reqID = 0 THEN 1 ELSE reqID)
                      /\ cur' = [cur EXCEPT ![s] = [h |-> reqID', exists |-> Exists(Pkt(s).path)]]

\* The handle is taken, then the storage is asked, before the table is locked.
nextHandle(s) == /\ reqID' = reqID + 1
                 /\ cur' = [cur EXCEPT ![s] = [h |-> reqID', exists |-> Exists(Pkt(s).path)]]

AskExists(s) ==
    /\ Served(s, Openings)
    /\ nextHandle(s)
    /\ UNCHANGED <<fs, inbox, outbox, due>>

Holds(s, t) == cur[s].h # None /\ Pkt(s).type = t

handleOpen(s) ==
    /\ Holds(s, "OPEN")
    /\ OpenFile(s, cur[s].h, Pkt(s).path, Pkt(s).flags, cur[s].exists,
                sendHandle(s, cur[s].h),
                sendStatus(s, "NO_SUCH_FILE"), sendStatus(s, "PERMISSION_DENIED"))
    /\ UNCHANGED reqID

handleOpenDir(s) ==
    /\ Holds(s, "OPENDIR")
    /\ OpenDir(s, cur[s].h, Pkt(s).path, cur[s].exists,
               sendHandle(s, cur[s].h), sendStatus(s, "NO_SUCH_FILE"))
    /\ UNCHANGED reqID

handleClose(s) == Served(s, {"CLOSE"}) /\ CloseFile(s, Pkt(s).h, OK(s), Failure(s)) /\ UNCHANGED reqID

SendRead(s) == sendData(s, DataAt(s, Pkt(s).h, Pkt(s).off))

\* A plausible slip: an error ends the handler before it has answered.
handleReadSilent(s) ==
    /\ Served(s, {"READ"})
    /\ ReadFile(s, Pkt(s).h, Pkt(s).off, SendRead(s),
                inbox' = [inbox EXCEPT ![s] = Tail(@)] /\ UNCHANGED <<outbox, cur, due>>)
    /\ UNCHANGED reqID

handleRead(s) ==
    /\ Served(s, {"READ"})
    /\ ReadFile(s, Pkt(s).h, Pkt(s).off, SendRead(s), Failure(s))
    /\ UNCHANGED reqID

handleWrite(s) ==
    /\ Served(s, {"WRITE"})
    /\ WriteFile(s, Pkt(s).h, OK(s), Failure(s))
    /\ UNCHANGED reqID

handleFStat(s)   == Served(s, {"FSTAT"}) /\ FStat(s, Pkt(s).h, sendAttrs(s), Failure(s)) /\ UNCHANGED reqID
handleSetStat(s) == Served(s, {"SETSTAT"}) /\ SetStat(OK(s)) /\ UNCHANGED reqID

handleReadDir(s) ==
    /\ Served(s, {"READDIR"})
    /\ ReadDir(s, Pkt(s).h, sendName(s, handles[s][Pkt(s).h].dirList),
               sendStatus(s, "EOF"), Failure(s))
    /\ UNCHANGED reqID

handleRemove(s) == Served(s, {"REMOVE"}) /\ Delete(Pkt(s).path, OK(s)) /\ UNCHANGED reqID
handleRmdir(s)  == Served(s, {"RMDIR"}) /\ Delete(Pkt(s).path, OK(s)) /\ UNCHANGED reqID
handleMkdir(s)  == Served(s, {"MKDIR"}) /\ Mkdir(Pkt(s).path, OK(s), Failure(s)) /\ UNCHANGED reqID
handleRealPath(s) == Served(s, {"REALPATH"}) /\ sendName(s, {Pkt(s).path}) /\ UNCHANGED <<fs, reqID>>
handleStat(s)   ==
    Served(s, {"STAT"}) /\ Stat(Pkt(s).path, sendAttrs(s), sendStatus(s, "NO_SUCH_FILE")) /\ UNCHANGED reqID
handleRename(s) ==
    Served(s, {"RENAME"}) /\ Rename(Pkt(s).path, Pkt(s).to, OK(s), Failure(s)) /\ UNCHANGED reqID

\* The types dispatch does not serve are answered under request id 0.
unserved(s) ==
    /\ Served(s, {"READLINK", "SYMLINK", "EXTENDED", "FSETSTAT"})
    /\ Reply(s, 0, IF Pkt(s).type = "FSETSTAT" THEN "BAD_MESSAGE" ELSE "OP_UNSUPPORTED", None)
    /\ UNCHANGED <<fs, reqID>>

\* Of a packet longer than the buffer only the length is passed over: its body is
\* read as packets.
tooLarge(s) ==
    /\ Served(s, {"LARGE"})
    /\ cur' = [cur EXCEPT ![s] = Adrift]
    /\ UNCHANGED <<fs, reqID, inbox, outbox, due>>

\* The rest of a packet is no packet that is served; the next one is read from
\* its beginning, or from somewhere in it.
drift(s) ==
    /\ cur[s] = Adrift /\ inbox[s] # <<>>
    /\ inbox' = [inbox EXCEPT ![s] = Tail(@)]
    /\ \/ \E id \in 0..Window :
            outbox' = [outbox EXCEPT ![s] =
                Append(@, [id |-> id, code |-> "BAD_MESSAGE", val |-> None])]
       \/ UNCHANGED outbox
    /\ \E c \in {Idle, Adrift} : cur' = [cur EXCEPT ![s] = c]
    /\ UNCHANGED <<fs, reqID, due>>

\* Bytes in the middle of a packet are taken for a packet that is served, with
\* any id; what is behind them is read on as if it were one.
misread(s) ==
    /\ cur[s] = Adrift /\ inbox[s] # <<>> /\ UnderWay(s) <= Window
    /\ \E t \in Sent \ {"LARGE"} : \E pkt \in PacketsOf(t), id \in 0..Window :
         /\ Bounded(pkt)
         /\ inbox' = [inbox EXCEPT ![s] =
                <<[id |-> id, pkt |-> pkt],
                  [id |-> Id(s), pkt |-> [type |-> "LARGE"]]>> \o Tail(@)]
    /\ cur' = [cur EXCEPT ![s] = Idle]
    /\ UNCHANGED <<fs, reqID, outbox, due>>

dispatch(s) ==
    \/ handleInit(s) \/ AskExists(s) \/ handleOpen(s) \/ handleOpenDir(s)
    \/ handleClose(s) \/ handleRead(s) \/ handleWrite(s) \/ handleFStat(s)
    \/ handleSetStat(s) \/ handleReadDir(s) \/ handleRemove(s) \/ handleRmdir(s)
    \/ handleMkdir(s) \/ handleRealPath(s) \/ handleStat(s) \/ handleRename(s)
    \/ unserved(s) \/ tooLarge(s) \/ drift(s) \/ misread(s)

Request(s) == \E t \in Sent : \E pkt \in PacketsOf(t) : Send(s, pkt)

SftpNext ==
    /\ \E s \in Sessions : Request(s) \/ Receive(s) \/ EndSession(s) \/ dispatch(s)
    /\ UNCHANGED driver

SftpSpec == SftpInit /\ [][SftpNext]_sftpVars

------------------------------------------------------------------------------
Ids(q) == [i \in 1..Len(q) |-> q[i].id]

\* Each request is answered once, under its own id and in the order of the
\* requests: what the client is owed is what waits in the two queues.
AnsweredInOrder == \A s \in Sessions : due[s] = Ids(outbox[s]) \o Ids(inbox[s])

\* A client that keeps its session is answered every request it has sent.
EveryRequestAnswered ==
    \A s \in Sessions : \A id \in 1..Window :
        (\E i \in 1..Len(due[s]) : due[s][i] = id) ~> (\A i \in 1..Len(due[s]) : due[s][i] # id)

\* No OPEN is given the number of a handle that is open, in whatever session: the
\* row it made keeps its path and its writer, and the position of the writer only
\* advances, until the CLOSE or the session's end.  It is the row that is kept: a
\* READ opens the path of the row anew and answers with what is there by then.
OpenRowKept ==
    [][\A s \in Sessions : \A h \in DOMAIN handles[s] \cap DOMAIN handles'[s] :
           /\ handles'[s][h].path = handles[s][h].path
           /\ handles'[s][h].reader = handles[s][h].reader
           /\ handles'[s][h].writer = handles[s][h].writer
           /\ handles'[s][h].written >= handles[s][h].written]_sftpVars

SoleWriter(h) == \A g \in DOMAIN hist \ {h} : hist[g].blob # hist[h].blob
WholeIn(c)    == {c[i].k : i \in {j \in 1..Len(c) : c[j].whole}}

\* The WRITEs answered OK through a handle are whole in the file it opened, in
\* their order, if no other OPEN took the same file for writing; besides there are
\* only parts of its WRITEs answered FAILURE, each in its place in that order.  With
\* LocalStorage at once, and after a rename, a removal or the session's end.
AckedIsStored ==
    \A h \in DOMAIN hist :
        ~Buffered /\ SoleWriter(h) =>
            LET c == content[hist[h].blob] IN
            /\ WholeIn(c) = hist[h].acked
            /\ \A i \in 1..Len(c) : c[i].of = h
            /\ \A i, j \in 1..Len(c) : i < j => c[i].k < c[j].k

\* With S3Storage, what is at a path is the whole of one handle's acknowledged
\* writes, never a part and never a mixture of two sessions' uploads.
WholeUploads ==
    Buffered => \A p \in DOMAIN store :
        LET h == store[p]
            n == hist[h].n
        IN hist[h].closed /\ hist[h].acked = 1..n /\ content[h] = Chunks(h, n)
==============================================================================
