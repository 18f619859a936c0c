----------------------------- MODULE SftpProofs -----------------------------
(***************************************************************************)
(* What the SFTP sessions promise, for every set of sessions and paths,    *)
(* any window, and both storage drivers: open handles keep their rows,     *)
(* acknowledged writes are stored, also beside writes that fail, and       *)
(* requests are answered in their order.                                   *)
(***************************************************************************)
EXTENDS SftpServer, SequenceTheorems, TLAPS

------------------------------------------------------------------------------
(* The invariant: whose a handle is, and what it has written.               *)

\* A sequence, of anything.
IsSeq(q) == Len(q) \in Nat /\ q = [i \in 1..Len(q) |-> q[i]]

\* A row of a handle table, and the history of a writer.
IsHandle(o) ==
    /\ o = [path |-> o.path, reader |-> o.reader, writer |-> o.writer, written |-> o.written,
            isDir |-> o.isDir, dirList |-> o.dirList]
    /\ o.written \in Nat
IsHistory(r) ==
    r = [blob |-> r.blob, n |-> r.n, acked |-> r.acked, closed |-> r.closed] /\ r.n \in Nat

QueueShapes ==
    /\ DOMAIN inbox = Sessions /\ DOMAIN outbox = Sessions
    /\ DOMAIN cur = Sessions /\ DOMAIN due = Sessions
    /\ \A s \in Sessions : IsSeq(inbox[s]) /\ IsSeq(outbox[s]) /\ IsSeq(due[s])
TableShapes ==
    /\ reqID \in Nat /\ DOMAIN handles = Sessions
    /\ \A s \in Sessions : \A h \in DOMAIN handles[s] : IsHandle(handles[s][h])
    /\ \A h \in DOMAIN hist : IsHistory(hist[h])

\* A session that has taken a handle is still to answer the OPEN it took it for.
Taken ==
    \A s \in Sessions : cur[s].h # None =>
        inbox[s] # <<>> /\ Pkt(s).type \in Openings

\* A handle is one session's, and is taken before it has a history.
Apart ==
    /\ DOMAIN hist \subseteq 1..reqID
    /\ \A s \in Sessions : DOMAIN handles[s] \subseteq 1..reqID /\ cur[s].h \in 0..reqID
    /\ \A s, t \in Sessions : s # t => DOMAIN handles[s] \cap DOMAIN handles[t] = {}
    /\ \A s \in Sessions : cur[s].h # None =>
           /\ cur[s].h \notin DOMAIN hist
           /\ \A t \in Sessions : /\ cur[s].h \notin DOMAIN handles[t]
                                  /\ t # s => cur[t].h # cur[s].h

\* A handle that writes knows its blob, and only such a handle has a history; a buffer
\* takes every write.
WritersKnown ==
    \A s \in Sessions : \A h \in DOMAIN handles[s] :
        /\ h \in DOMAIN hist <=> handles[s][h].writer # None
        /\ h \in DOMAIN hist =>
               /\ hist[h].blob = handles[s][h].writer /\ ~ hist[h].closed
               /\ Buffered => hist[h].n = handles[s][h].written
AllAcked == Buffered => \A h \in DOMAIN hist : hist[h].acked = 1..hist[h].n

\* The chunks c are those of the writes of h, with history r, that got to the file.
Ordered(c, h, r) ==
    /\ IsSeq(c)
    /\ \A i \in 1..Len(c) : c[i].of = h /\ c[i].k \in 1..r.n
    /\ \A i, j \in 1..Len(c) : i < j => c[i].k < c[j].k
    /\ WholeIn(c) = r.acked

\* With LocalStorage: the blob of a handle exists, and a sole writer's is its writes
\* and ends where its writer stands.
InodesHold ==
    ~ Buffered => \A h \in DOMAIN hist :
        /\ hist[h].blob \in DOMAIN content
        /\ SoleWriter(h) => Ordered(content[hist[h].blob], h, hist[h])
AtTheEnd ==
    ~ Buffered => \A s \in Sessions : \A h \in DOMAIN handles[s] :
        h \in DOMAIN hist /\ SoleWriter(h) =>
            handles[s][h].written = Len(content[hist[h].blob])

\* With S3Storage: an object is what a closed handle has written.
ObjectsWhole ==
    Buffered => \A p \in DOMAIN store :
        LET h == store[p] IN
        /\ h \in DOMAIN hist /\ hist[h].closed
        /\ h \in DOMAIN content /\ content[h] = Chunks(h, hist[h].n)
NoDirectories ==
    Buffered => \A s \in Sessions : \A i \in 1..Len(inbox[s]) :
                    inbox[s][i].pkt.type \notin DirTypes

QueueInv == QueueShapes /\ Taken /\ NoDirectories
TableInv ==
    /\ TableShapes /\ Apart /\ WritersKnown /\ AllAcked
    /\ InodesHold /\ AtTheEnd /\ ObjectsWhole
SftpInv == QueueInv /\ TableInv

------------------------------------------------------------------------------
(* The two queues of a session.                                             *)

\* Sequences are sequences of something.
LEMMA SeqIs ==
    ASSUME NEW q
    PROVE  /\ \A S : IsSeq(q) /\ (\A i \in 1..Len(q) : q[i] \in S) => q \in Seq(S)
           /\ \A S : q \in Seq(S) => IsSeq(q)
<1>1. ASSUME IsSeq(q), NEW S, \A i \in 1..Len(q) : q[i] \in S PROVE q \in Seq(S)
  <2>1. q \in [1..Len(q) -> S]
    BY <1>1 DEF IsSeq
  <2> QED BY <1>1, <2>1, SeqDef DEF IsSeq
<1>2. ASSUME NEW S, q \in Seq(S) PROVE IsSeq(q)
  BY <1>2 DEF IsSeq
<1> QED BY <1>1, <1>2

LEMMA AppendIs ==
    ASSUME NEW q, IsSeq(q), NEW m
    PROVE  /\ IsSeq(Append(q, m)) /\ Len(Append(q, m)) = Len(q) + 1
           /\ \A i \in 1..Len(q) : Append(q, m)[i] = q[i]
           /\ Append(q, m)[Len(q) + 1] = m
<1> DEFINE S == {q[i] : i \in 1..Len(q)} \cup {m}
<1>1. m \in S /\ \A i \in 1..Len(q) : q[i] \in S
  OBVIOUS
<1> HIDE DEF S
<1>2. q \in Seq(S)
  BY <1>1, SeqIs
<1>3. /\ Append(q, m) \in Seq(S) /\ Len(Append(q, m)) = Len(q) + 1
      /\ \A i \in 1..Len(q) : Append(q, m)[i] = q[i]
      /\ Append(q, m)[Len(q) + 1] = m
  BY <1>1, <1>2, AppendProperties
<1>4. IsSeq(Append(q, m))
  BY <1>3, SeqIs
<1> QED BY <1>3, <1>4

LEMMA TailIs ==
    ASSUME NEW q, IsSeq(q), q # <<>>
    PROVE  /\ Len(q) \in Nat \ {0} /\ Head(q) = q[1]
           /\ IsSeq(Tail(q)) /\ Len(Tail(q)) = Len(q) - 1
           /\ \A i \in 1..(Len(q) - 1) : Tail(q)[i] = q[i + 1]
<1> DEFINE S == {q[i] : i \in 1..Len(q)}
<1>1. q \in Seq(S)
  <2>1. \A i \in 1..Len(q) : q[i] \in S
    OBVIOUS
  <2> HIDE DEF S
  <2> QED BY <2>1, SeqIs
<1> HIDE DEF S
<1>2. Tail(q) \in Seq(S) /\ Len(q) \in Nat \ {0}
  BY <1>1, HeadTailProperties, EmptySeq
<1>3. Head(q) = q[1]
  BY <1>1
<1> QED BY <1>1, <1>2, <1>3, HeadTailProperties, SeqIs

\* Two put in front of a sequence.
LEMMA PrependIs ==
    ASSUME NEW q, IsSeq(q), NEW a, NEW b, NEW c, c = <<a, b>> \o q
    PROVE  /\ IsSeq(c) /\ c # <<>> /\ Len(c) = Len(q) + 2 /\ Len(q) \in Nat
           /\ c[1] = a /\ c[2] = b
           /\ \A i \in 1..Len(q) : c[i + 2] = q[i]
<1> DEFINE S == {q[i] : i \in 1..Len(q)} \cup {a, b}
<1>1. a \in S /\ b \in S /\ \A i \in 1..Len(q) : q[i] \in S
  OBVIOUS
<1> HIDE DEF S
<1>2. q \in Seq(S) /\ Len(q) \in Nat
  BY <1>1, SeqIs DEF IsSeq
<1> DEFINE p == <<a, b>>
<1>3. p \in Seq(S) /\ Len(p) = 2 /\ p[1] = a /\ p[2] = b
  BY <1>1
<1>4. c = p \o q
  OBVIOUS
<1> HIDE DEF p
<1>5. /\ c \in Seq(S) /\ Len(c) = Len(p) + Len(q)
      /\ \A i \in 1..(Len(p) + Len(q)) : c[i] = IF i <= Len(p) THEN p[i] ELSE q[i - Len(p)]
  BY <1>2, <1>3, <1>4, ConcatProperties
<1>6. Len(c) = Len(q) + 2 /\ 1 \in 1..(2 + Len(q)) /\ 2 \in 1..(2 + Len(q))
  BY <1>2, <1>3, <1>5
<1>7. c[1] = a /\ c[2] = b
  BY <1>3, <1>5, <1>6
<1>8. \A i \in 1..Len(q) : c[i + 2] = q[i]
  <2> SUFFICES ASSUME NEW i \in 1..Len(q) PROVE c[i + 2] = q[i]
    OBVIOUS
  <2>1. i + 2 \in 1..(2 + Len(q)) /\ ~ (i + 2 <= 2) /\ (i + 2) - 2 = i
    BY <1>2
  <2> QED BY <1>3, <1>5, <2>1
<1>9. IsSeq(c) /\ c # <<>>
  <2>1. IsSeq(c)
    BY <1>5, SeqIs
  <2>2. Len(c) # 0
    BY <1>2, <1>6
  <2> QED BY <2>1, <2>2
<1> QED BY <1>2, <1>6, <1>7, <1>8, <1>9

\* A packet is of the type it was made for.
LEMMA PacketType == ASSUME NEW t, NEW pkt \in PacketsOf(t) PROVE pkt.type = t
<1>1. CASE t = "OPEN"
  BY <1>1 DEF PacketsOf
<1>2. CASE t = "OPENDIR"
  BY <1>2 DEF PacketsOf
<1>3. CASE t \in {"STAT", "SETSTAT", "REALPATH", "REMOVE", "MKDIR", "RMDIR"}
  BY <1>3 DEF PacketsOf
<1>4. CASE t = "RENAME"
  BY <1>4 DEF PacketsOf
<1>5. CASE t = "READ"
  BY <1>5 DEF PacketsOf
<1>6. CASE t \in {"CLOSE", "WRITE", "FSTAT", "READDIR"}
  BY <1>6 DEF PacketsOf
<1>7. CASE t \notin {"OPEN", "OPENDIR", "STAT", "SETSTAT", "REALPATH", "REMOVE", "MKDIR", "RMDIR",
                    "RENAME", "READ", "CLOSE", "WRITE", "FSTAT", "READDIR"}
  BY <1>7 DEF PacketsOf
<1> QED BY <1>1, <1>2, <1>3, <1>4, <1>5, <1>6, <1>7

\* The packet at the head is answered under its own id, with whatever it may be.
Answers(s) == inbox[s] # <<>> /\ \E code, val : Reply(s, Id(s), code, val)

\* dispatch answers a packet, takes a handle for it, turns it down or is adrift.
LEMMA Dispatched ==
    ASSUME QueueInv, NEW s \in Sessions, dispatch(s)
    PROVE  Answers(s) \/ unserved(s) \/ AskExists(s) \/ tooLarge(s) \/ drift(s) \/ misread(s)
<1> USE DEF Answers
<1>1. \A ts : Served(s, ts) => inbox[s] # <<>>
  BY DEF Served
<1>2. ASSUME handleOpen(s) \/ handleOpenDir(s) PROVE Answers(s)
  <2>1. inbox[s] # <<>>
    BY <1>2 DEF handleOpen, handleOpenDir, Holds, QueueInv, Taken
  <2>2. CASE handleOpen(s)
    BY <2>1, <2>2 DEF handleOpen, OpenFile, sendHandle, sendStatus
  <2>3. CASE handleOpenDir(s)
    BY <2>1, <2>3 DEF handleOpenDir, OpenDir, sendHandle, sendStatus
  <2> QED BY <1>2, <2>2, <2>3
<1>3. ASSUME handleClose(s) \/ handleRead(s) \/ handleWrite(s) PROVE Answers(s)
  BY <1>1, <1>3 DEF handleClose, handleRead, handleWrite, CloseFile, ReadFile, WriteFile,
                    HasWriter, OK, Failure, SendRead, sendData, sendStatus
<1>4. ASSUME handleFStat(s) \/ handleSetStat(s) \/ handleReadDir(s) PROVE Answers(s)
  BY <1>1, <1>4 DEF handleFStat, handleSetStat, handleReadDir, FStat, SetStat, ReadDir,
                    OK, Failure, sendAttrs, sendName, sendStatus
<1>5. ASSUME handleRemove(s) \/ handleRmdir(s) \/ handleMkdir(s) \/ handleRealPath(s)
             \/ handleStat(s) \/ handleRename(s) \/ handleInit(s)
      PROVE  Answers(s)
  BY <1>1, <1>5 DEF handleRemove, handleRmdir, handleMkdir, handleRealPath, handleStat,
                    handleRename, handleInit, Delete, Mkdir, Stat, Rename,
                    OK, Failure, sendAttrs, sendName, sendStatus
<1> QED BY <1>2, <1>3, <1>4, <1>5 DEF dispatch

\* The queues of the session that moves, and of no other, change.
LEMMA QueueStep ==
    ASSUME QueueInv, NEW s \in Sessions, UNCHANGED driver,
           Request(s) \/ Receive(s) \/ EndSession(s) \/ dispatch(s)
    PROVE  QueueInv'
<1> USE DEF QueueInv, QueueShapes
<1>1. ASSUME DOMAIN inbox' = Sessions, DOMAIN outbox' = Sessions, DOMAIN cur' = Sessions,
             DOMAIN due' = Sessions,
             \A t \in Sessions \ {s} : /\ inbox'[t] = inbox[t] /\ outbox'[t] = outbox[t]
                                       /\ cur'[t] = cur[t] /\ due'[t] = due[t],
             IsSeq(inbox'[s]), IsSeq(outbox'[s]), IsSeq(due'[s]),
             cur'[s].h # None => inbox'[s] # <<>> /\ Pkt(s)'.type \in Openings,
             \A i \in 1..Len(inbox'[s]) :
                 \/ \E j \in 1..Len(inbox[s]) : inbox'[s][i] = inbox[s][j]
                 \/ Buffered => inbox'[s][i].pkt.type \notin DirTypes
      PROVE  QueueInv'
  <2>1. QueueShapes'
    BY <1>1
  <2>2. Taken'
    BY <1>1 DEF Taken, Pkt
  <2>3. NoDirectories'
    BY <1>1 DEF NoDirectories, Buffered
  <2> QED BY <2>1, <2>2, <2>3
<1>i. Idle.h = None /\ Adrift.h = None
  BY DEF Idle, Adrift
<1>2. CASE Request(s)
  <2>1. PICK t, pkt, id :
          /\ Buffered => t \notin DirTypes
          /\ pkt \in PacketsOf(t)
          /\ due' = [due EXCEPT ![s] = Append(@, id)]
          /\ inbox' = [inbox EXCEPT ![s] = Append(@, [id |-> id, pkt |-> pkt])]
          /\ UNCHANGED <<outbox, cur>>
    BY <1>2 DEF Request, Send, Sent
  <2> DEFINE m == [id |-> id, pkt |-> pkt]
  <2>2. pkt.type = t /\ m.pkt = pkt
    BY <2>1, PacketType
  <2>3. inbox'[s] = Append(inbox[s], m) /\ due'[s] = Append(due[s], id)
    BY <2>1
  <2> HIDE DEF m
  <2>4. /\ IsSeq(inbox'[s]) /\ IsSeq(due'[s]) /\ Len(inbox'[s]) = Len(inbox[s]) + 1
        /\ \A i \in 1..Len(inbox[s]) : inbox'[s][i] = inbox[s][i]
        /\ inbox'[s][Len(inbox[s]) + 1] = m /\ Len(inbox[s]) \in Nat
    BY <2>3, AppendIs DEF IsSeq
  <2>5. \A i \in 1..Len(inbox'[s]) :
            \/ \E j \in 1..Len(inbox[s]) : inbox'[s][i] = inbox[s][j]
            \/ Buffered => inbox'[s][i].pkt.type \notin DirTypes
    <3>1. \A i \in 1..Len(inbox'[s]) : i \in 1..Len(inbox[s]) \/ i = Len(inbox[s]) + 1
      BY <2>4
    <3> QED BY <2>1, <2>2, <2>4, <3>1
  <2>6. inbox[s] # <<>> => inbox'[s] # <<>> /\ Pkt(s)' = Pkt(s)
    <3> SUFFICES ASSUME inbox[s] # <<>> PROVE inbox'[s] # <<>> /\ Pkt(s)' = Pkt(s)
      OBVIOUS
    <3>1. Len(inbox[s]) \in Nat \ {0} /\ Head(inbox[s]) = inbox[s][1]
      BY TailIs
    <3>2. inbox'[s] # <<>>
      BY <2>4
    <3>3. Head(inbox'[s]) = inbox'[s][1]
      BY <2>4, <3>2, TailIs
    <3> QED BY <2>4, <3>1, <3>2, <3>3 DEF Pkt
  <2> QED BY <1>1, <2>1, <2>4, <2>5, <2>6 DEF Taken
<1>3. ASSUME inbox[s] # <<>>, inbox' = [inbox EXCEPT ![s] = Tail(@)], UNCHANGED due,
             \E c \in {Idle, Adrift} : cur' = [cur EXCEPT ![s] = c],
             UNCHANGED outbox \/ \E m : outbox' = [outbox EXCEPT ![s] = Append(@, m)]
      PROVE  QueueInv'
  <2>1. /\ inbox'[s] = Tail(inbox[s]) /\ cur'[s].h = None
        /\ outbox'[s] = outbox[s] \/ \E m : outbox'[s] = Append(outbox[s], m)
    BY <1>3, <1>i
  <2>2. /\ IsSeq(inbox'[s]) /\ IsSeq(outbox'[s])
        /\ \A i \in 1..Len(inbox'[s]) : \E j \in 1..Len(inbox[s]) : inbox'[s][i] = inbox[s][j]
    <3>1. /\ IsSeq(inbox'[s]) /\ Len(inbox[s]) \in Nat /\ Len(inbox'[s]) = Len(inbox[s]) - 1
          /\ \A i \in 1..(Len(inbox[s]) - 1) : inbox'[s][i] = inbox[s][i + 1]
      BY <1>3, <2>1, TailIs
    <3>2. \A i \in 1..Len(inbox'[s]) : i \in 1..(Len(inbox[s]) - 1) /\ i + 1 \in 1..Len(inbox[s])
      <4> DEFINE k == Len(inbox[s])
      <4>1. k \in Nat /\ Len(inbox'[s]) = k - 1
        BY <3>1
      <4> HIDE DEF k
      <4>2. \A i \in 1..(k - 1) : i + 1 \in 1..k
        BY <4>1
      <4> QED BY <4>1, <4>2 DEF k
    <3>3. IsSeq(outbox'[s])
      <4>1. IsSeq(outbox[s])
        OBVIOUS
      <4>2. ASSUME NEW m, outbox'[s] = Append(outbox[s], m) PROVE IsSeq(outbox'[s])
        BY <4>1, <4>2, AppendIs
      <4> QED BY <2>1, <4>1, <4>2
    <3>4. \A i \in 1..Len(inbox'[s]) : inbox'[s][i] = inbox[s][i + 1]
      BY <3>1, <3>2
    <3> QED BY <3>1, <3>2, <3>3, <3>4
  <2> QED BY <1>1, <1>3, <2>1, <2>2
<1>4. CASE Answers(s) \/ unserved(s) \/ drift(s)
  BY <1>3, <1>4 DEF Answers, unserved, Served, Reply, drift
<1>5. CASE AskExists(s) \/ tooLarge(s)
  <2>1. /\ inbox[s] # <<>> /\ UNCHANGED <<inbox, outbox, due>>
        /\ \E c : cur' = [cur EXCEPT ![s] = c] /\ (c.h # None => Pkt(s).type \in Openings)
    BY <1>5, <1>i DEF AskExists, tooLarge, Served, nextHandle
  <2>2. Pkt(s)' = Pkt(s)
    BY <2>1 DEF Pkt
  <2> QED BY <1>1, <2>1, <2>2
<1>6. CASE EndSession(s)
  <2>1. /\ inbox'[s] = <<>> /\ outbox'[s] = <<>> /\ due'[s] = <<>> /\ cur'[s] = Idle
    BY <1>6 DEF EndSession
  <2>2. IsSeq(<<>>) /\ Len(<<>>) = 0
    BY DEF IsSeq
  <2> QED BY <1>1, <1>i, <1>6, <2>1, <2>2 DEF EndSession
<1>7. CASE Receive(s)
  <2>1. /\ UNCHANGED <<inbox, cur>> /\ outbox[s] # <<>>
        /\ outbox' = [outbox EXCEPT ![s] = Tail(@)]
        /\ \/ UNCHANGED due
           \/ \E i \in 1..Len(due[s]) : due' = [due EXCEPT ![s] = DropAt(@, i)]
    BY <1>7 DEF Receive
  <2>2. IsSeq(due'[s])
    <3>1. CASE UNCHANGED due
      BY <3>1
    <3>2. ASSUME NEW i \in 1..Len(due[s]), due' = [due EXCEPT ![s] = DropAt(@, i)]
          PROVE  IsSeq(due'[s])
      <4> DEFINE k == Len(due[s]) - 1
                 v(j) == IF j < i THEN due[s][j] ELSE due[s][j + 1]
      <4>1. due'[s] = [j \in 1..k |-> v(j)]
        BY <3>2 DEF DropAt
      <4>2. k \in Nat
        <5>1. Len(due[s]) \in Nat
          BY DEF IsSeq
        <5> QED BY <5>1
      <4> HIDE DEF k, v
      <4>3. Len(due'[s]) = k
        BY <4>1, <4>2
      <4> QED BY <4>1, <4>2, <4>3 DEF IsSeq
    <3> QED BY <2>1, <3>1, <3>2
  <2>3. IsSeq(outbox'[s])
    BY <2>1, TailIs
  <2>4. Pkt(s)' = Pkt(s)
    BY <2>1 DEF Pkt
  <2> QED BY <1>1, <2>1, <2>2, <2>3, <2>4 DEF Taken
<1>8. CASE misread(s)
  <2>1. PICK t, pkt, id :
          /\ t \in Sent /\ pkt \in PacketsOf(t)
          /\ inbox' = [inbox EXCEPT ![s] =
                 <<[id |-> id, pkt |-> pkt],
                   [id |-> Id(s), pkt |-> [type |-> "LARGE"]]>> \o Tail(@)]
    BY <1>8 DEF misread
  <2> DEFINE m == [id |-> id, pkt |-> pkt]
             n == [id |-> Id(s), pkt |-> [type |-> "LARGE"]]
             rest == Tail(inbox[s])
  <2>2. /\ inbox[s] # <<>> /\ UNCHANGED <<outbox, due>> /\ cur' = [cur EXCEPT ![s] = Idle]
    BY <1>8 DEF misread
  <2>3. /\ Buffered => m.pkt.type \notin DirTypes
        /\ n.pkt.type \notin DirTypes
    <3>1. m.pkt = pkt /\ pkt.type = t /\ n.pkt.type = "LARGE"
      BY <2>1, PacketType
    <3>2. Buffered => t \notin DirTypes
      BY <2>1 DEF Sent
    <3> QED BY <3>1, <3>2 DEF DirTypes
  <2>4. inbox'[s] = <<m, n>> \o rest /\ \A u \in Sessions \ {s} : inbox'[u] = inbox[u]
    BY <2>1
  <2> HIDE DEF m, n
  <2>5. /\ IsSeq(rest) /\ Len(inbox[s]) \in Nat /\ Len(rest) = Len(inbox[s]) - 1
        /\ \A i \in 1..(Len(inbox[s]) - 1) : rest[i] = inbox[s][i + 1]
    BY <2>2, TailIs
  <2> HIDE DEF rest
  <2>6. /\ IsSeq(inbox'[s]) /\ inbox'[s] # <<>> /\ Len(inbox'[s]) = Len(rest) + 2
        /\ inbox'[s][1] = m /\ inbox'[s][2] = n
        /\ \A i \in 1..Len(rest) : inbox'[s][i + 2] = rest[i]
    <3> DEFINE c == inbox'[s]
    <3>1. c = <<m, n>> \o rest
      BY <2>4
    <3> HIDE DEF c
    <3>2. IsSeq(rest)
      BY <2>5
    <3>3. IsSeq(c) /\ c # <<>>
      BY <3>1, <3>2, PrependIs
    <3>4. Len(c) = Len(rest) + 2
      BY <3>1, <3>2, PrependIs
    <3>5. c[1] = m
      BY <3>1, <3>2, PrependIs
    <3>6. c[2] = n
      BY <3>1, <3>2, PrependIs
    <3>7. \A i \in 1..Len(rest) : c[i + 2] = rest[i]
      BY <3>1, <3>2, PrependIs
    <3> QED BY <3>3, <3>4, <3>5, <3>6, <3>7 DEF c
  <2>7. \A i \in 1..Len(inbox'[s]) :
            \/ \E j \in 1..Len(inbox[s]) : inbox'[s][i] = inbox[s][j]
            \/ Buffered => inbox'[s][i].pkt.type \notin DirTypes
    <3> SUFFICES ASSUME NEW i \in 1..Len(inbox'[s])
                 PROVE  \/ \E j \in 1..Len(inbox[s]) : inbox'[s][i] = inbox[s][j]
                        \/ Buffered => inbox'[s][i].pkt.type \notin DirTypes
      OBVIOUS
    <3>1. CASE i = 1 \/ i = 2
      BY <2>3, <2>6, <3>1
    <3>2. CASE i # 1 /\ i # 2
      <4>1. /\ i - 2 \in 1..Len(rest) /\ (i - 2) + 2 = i
            /\ i - 2 \in 1..(Len(inbox[s]) - 1) /\ (i - 2) + 1 \in 1..Len(inbox[s])
        BY <2>5, <2>6, <3>2
      <4>2. inbox'[s][i] = inbox[s][(i - 2) + 1]
        BY <2>5, <2>6, <4>1
      <4> QED BY <4>1, <4>2
    <3> QED BY <3>1, <3>2
  <2>8. cur'[s].h = None
    BY <1>i, <2>2
  <2>9. /\ DOMAIN inbox' = Sessions /\ DOMAIN outbox' = Sessions
        /\ DOMAIN cur' = Sessions /\ DOMAIN due' = Sessions
    BY <2>1, <2>2
  <2>10. \A u \in Sessions \ {s} : /\ inbox'[u] = inbox[u] /\ outbox'[u] = outbox[u]
                                   /\ cur'[u] = cur[u] /\ due'[u] = due[u]
    BY <2>2, <2>4
  <2>11. IsSeq(inbox'[s]) /\ IsSeq(outbox'[s]) /\ IsSeq(due'[s])
    BY <2>2, <2>6
  <2> QED BY <1>1, <2>7, <2>8, <2>9, <2>10, <2>11
<1> QED BY <1>2, <1>4, <1>5, <1>6, <1>7, <1>8, Dispatched

------------------------------------------------------------------------------
(* The handle tables and the storage.                                       *)

\* An EXCEPT of one field leaves the others.
LEMMA WrittenField ==
    ASSUME NEW o, IsHandle(o), NEW x \in Nat, NEW q, q = [o EXCEPT !.written = x]
    PROVE  /\ IsHandle(q) /\ q.written = x
           /\ q.writer = o.writer /\ q.path = o.path /\ q.reader = o.reader
<1> DEFINE p == o.path
           r == o.reader
           w == o.writer
           n == o.written
           d == o.isDir
           l == o.dirList
<1>1. o = [path |-> p, reader |-> r, writer |-> w, written |-> n, isDir |-> d, dirList |-> l]
      /\ n \in Nat
  BY DEF IsHandle
<1> HIDE DEF p, r, w, n, d, l
<1> QED BY <1>1 DEF IsHandle

LEMMA ListField ==
    ASSUME NEW o, IsHandle(o), NEW x, NEW q, q = [o EXCEPT !.dirList = x]
    PROVE  /\ IsHandle(q) /\ q.dirList = x
           /\ q.writer = o.writer /\ q.path = o.path /\ q.reader = o.reader
           /\ q.written = o.written
<1> DEFINE p == o.path
           r == o.reader
           w == o.writer
           n == o.written
           d == o.isDir
           l == o.dirList
<1>1. o = [path |-> p, reader |-> r, writer |-> w, written |-> n, isDir |-> d, dirList |-> l]
      /\ n \in Nat
  BY DEF IsHandle
<1> HIDE DEF p, r, w, n, d, l
<1> QED BY <1>1 DEF IsHandle

LEMMA ClosedField ==
    ASSUME NEW r, IsHistory(r), NEW x, NEW q, q = [r EXCEPT !.closed = x]
    PROVE  IsHistory(q) /\ q.n = r.n /\ q.acked = r.acked /\ q.blob = r.blob /\ q.closed = x
<1> DEFINE b == r.blob
           n == r.n
           a == r.acked
           c == r.closed
<1>1. r = [blob |-> b, n |-> n, acked |-> a, closed |-> c] /\ n \in Nat
  BY DEF IsHistory
<1> HIDE DEF b, n, a, c
<1> QED BY <1>1 DEF IsHistory

\* Bytes written where a file ends are put behind it.
LEMMA OverlayAtEnd ==
    ASSUME NEW c, IsSeq(c), NEW m, NEW d, d = Overlay(c, Len(c), m)
    PROVE  /\ IsSeq(d) /\ Len(c) \in Nat /\ Len(d) = Len(c) + 1
           /\ \A i \in 1..Len(c) : d[i] = c[i]
           /\ d[Len(c) + 1] = m
<1> DEFINE n == Len(c)
           v(i) == IF i = n + 1 THEN m ELSE IF i <= n THEN c[i] ELSE NoChunk
<1>1. n \in Nat /\ (IF n + 1 > n THEN n + 1 ELSE n) = n + 1
  BY DEF IsSeq
<1>2. d = [i \in 1..(n + 1) |-> v(i)]
  BY <1>1 DEF Overlay
<1>3. v(n + 1) = m /\ \A i \in 1..n : v(i) = c[i] /\ i \in 1..(n + 1)
  BY <1>1
<1> HIDE DEF v, n
<1>4. Len(d) = n + 1 /\ n + 1 \in 1..(n + 1)
  BY <1>1, <1>2
<1>5. d[n + 1] = m /\ \A i \in 1..n : d[i] = c[i]
  BY <1>2, <1>3, <1>4
<1>6. IsSeq(d)
  BY <1>1, <1>2, <1>4 DEF IsSeq
<1> QED BY <1>1, <1>4, <1>5, <1>6 DEF n

\* A chunk put behind those of earlier writes is in its place.
LEMMA OneMore ==
    ASSUME NEW c, NEW h, NEW r, IsHistory(r), Ordered(c, h, r),
           NEW m, m.of = h, m.k = r.n + 1, m.whole \in BOOLEAN,
           NEW d, d = Overlay(c, Len(c), m),
           NEW q, q.n = r.n + 1,
           m.whole => q.acked = r.acked \cup {r.n + 1}, ~ m.whole => q.acked = r.acked
    PROVE  Ordered(d, h, q) /\ Len(d) = Len(c) + 1
<1> DEFINE w == m.whole
<1>1. m.of = h /\ m.k = r.n + 1 /\ m.whole = w /\ r.n \in Nat
  BY DEF IsHistory
<1>2. /\ IsSeq(d) /\ Len(c) \in Nat /\ Len(d) = Len(c) + 1
      /\ \A i \in 1..Len(c) : d[i] = c[i]
      /\ d[Len(c) + 1] = m
  BY OverlayAtEnd DEF Ordered
<1>3. \A i \in 1..Len(d) : i \in 1..Len(c) \/ i = Len(c) + 1
  BY <1>2
<1>4. \A i \in 1..Len(c) : c[i].of = h /\ c[i].k \in 1..r.n
  BY DEF Ordered
<1>5. \A i \in 1..Len(d) : d[i].of = h /\ d[i].k \in 1..q.n
  <2>1. 1..r.n \subseteq 1..(r.n + 1) /\ r.n + 1 \in 1..(r.n + 1)
    BY <1>1
  <2> QED BY <1>1, <1>2, <1>3, <1>4, <2>1
<1>6. \A i, j \in 1..Len(d) : i < j => d[i].k < d[j].k
  <2> SUFFICES ASSUME NEW i \in 1..Len(d), NEW j \in 1..Len(d), i < j PROVE d[i].k < d[j].k
    OBVIOUS
  <2>1. i \in 1..Len(c)
    BY <1>2
  <2>2. CASE j \in 1..Len(c)
    BY <1>2, <2>1, <2>2 DEF Ordered
  <2>3. CASE j = Len(c) + 1
    <3>1. d[i].k \in 1..r.n /\ d[j].k = r.n + 1
      BY <1>1, <1>2, <1>4, <2>1, <2>3
    <3> QED BY <1>1, <3>1
  <2> QED BY <1>3, <2>2, <2>3
<1>7. WholeIn(d) = q.acked
  <2>1. \A x : x \in WholeIn(c) <=> \E i \in 1..Len(c) : c[i].whole /\ x = c[i].k
    BY DEF WholeIn
  <2>2. \A x : x \in WholeIn(d) <=> \E i \in 1..Len(d) : d[i].whole /\ x = d[i].k
    BY DEF WholeIn
  <2>3. Len(c) + 1 \in 1..Len(d) /\ 1..Len(c) \subseteq 1..Len(d)
    BY <1>2
  <2>4. ASSUME NEW x \in WholeIn(d) PROVE x \in WholeIn(c) \/ (w /\ x = r.n + 1)
    <3>1. PICK i \in 1..Len(d) : d[i].whole /\ x = d[i].k
      BY <2>2
    <3>2. CASE i \in 1..Len(c)
      BY <1>2, <2>1, <3>1, <3>2
    <3>3. CASE i = Len(c) + 1
      BY <1>1, <1>2, <3>1, <3>3
    <3> QED BY <1>3, <3>2, <3>3
  <2>6. ASSUME NEW x \in WholeIn(c) PROVE x \in WholeIn(d)
    <3>1. PICK i \in 1..Len(c) : c[i].whole /\ x = c[i].k
      BY <2>1
    <3>2. i \in 1..Len(d) /\ d[i] = c[i]
      BY <1>2, <2>3
    <3> QED BY <2>2, <3>1, <3>2
  <2>7. w => r.n + 1 \in WholeIn(d)
    <3>1. d[Len(c) + 1].whole = w /\ d[Len(c) + 1].k = r.n + 1
      BY <1>1, <1>2
    <3> QED BY <2>2, <2>3, <3>1
  <2>5. WholeIn(c) = r.acked
    BY DEF Ordered
  <2>8. CASE w
    BY <2>4, <2>5, <2>6, <2>7, <2>8
  <2>9. CASE ~ w
    BY <2>4, <2>5, <2>6, <2>9
  <2> QED BY <2>8, <2>9
<1> QED BY <1>2, <1>5, <1>6, <1>7 DEF Ordered

\* A write of which nothing gets to the file leaves what is there in its place.
LEMMA NoMore ==
    ASSUME NEW c, NEW h, NEW r, IsHistory(r), Ordered(c, h, r),
           NEW q, q.n = r.n + 1, q.acked = r.acked
    PROVE  Ordered(c, h, q)
<1>1. 1..r.n \subseteq 1..q.n
  BY DEF IsHistory
<1> QED BY <1>1 DEF Ordered

LEMMA NothingYet == ASSUME NEW h, NEW r, r.acked = {} PROVE Ordered(<<>>, h, r)
<1>1. Len(<<>>) = 0 /\ 1..0 = {} /\ IsSeq(<<>>)
  BY DEF IsSeq
<1> DEFINE c == <<>>
<1>2. \A i \in 1..Len(c) : FALSE
  BY <1>1
<1> HIDE DEF c
<1>3. WholeIn(c) = {}
  BY <1>2 DEF WholeIn
<1> QED BY <1>1, <1>2, <1>3 DEF Ordered, c

\* A step that ends at most what a session holds.
Releases ==
    /\ DOMAIN cur' = Sessions /\ UNCHANGED <<reqID, driver>>
    /\ \A t \in Sessions : cur'[t].h = None \/ cur'[t].h = cur[t].h

\* A step that leaves the tables and the storage alone.
LEMMA TablesStay ==
    ASSUME TableInv, Releases, UNCHANGED fs
    PROVE  TableInv'
<1> USE DEF TableInv, Releases, fs
<1>1. TableShapes'
  BY DEF TableShapes
<1>2. Apart'
  <2>1. reqID \in Nat
    BY DEF TableShapes
  <2>2. \A t \in Sessions : cur'[t].h \in 0..reqID
    BY <2>1 DEF Apart, None
  <2> QED BY <2>2 DEF Apart
<1>3. WritersKnown' /\ AllAcked' /\ ObjectsWhole'
  BY DEF WritersKnown, AllAcked, ObjectsWhole, Buffered
<1>4. InodesHold' /\ AtTheEnd'
  BY DEF InodesHold, AtTheEnd, SoleWriter, Buffered
<1> QED BY <1>1, <1>2, <1>3, <1>4

\* One that only removes or moves names.
LEMMA NamesMove ==
    ASSUME TableInv, Releases, UNCHANGED <<content, handles, hist>>,
           Buffered => \A p \in DOMAIN store' : \E q \in DOMAIN store : store'[p] = store[q]
    PROVE  TableInv'
<1> USE DEF TableInv, Releases
<1>1. TableShapes'
  BY DEF TableShapes
<1>2. Apart'
  <2>1. reqID \in Nat
    BY DEF TableShapes
  <2>2. \A t \in Sessions : cur'[t].h \in 0..reqID
    BY <2>1 DEF Apart, None
  <2> QED BY <2>2 DEF Apart
<1>3. WritersKnown' /\ AllAcked' /\ ObjectsWhole'
  BY DEF WritersKnown, AllAcked, ObjectsWhole, Buffered
<1>4. InodesHold' /\ AtTheEnd'
  BY DEF InodesHold, AtTheEnd, SoleWriter, Buffered
<1> QED BY <1>1, <1>2, <1>3, <1>4

\* A handler that answers lets go of what its session holds.
LEMMA ReplyReleases ==
    ASSUME QueueInv, NEW s \in Sessions, NEW id, NEW code, NEW val, Reply(s, id, code, val),
           UNCHANGED <<reqID, driver>>
    PROVE  Releases /\ cur' = [cur EXCEPT ![s] = Idle] /\ cur'[s].h = None
  BY DEF QueueInv, QueueShapes, Reply, Releases, Idle

\* A step that adds no handle keeps the handles apart.
LEMMA ApartKept ==
    ASSUME TableInv, Releases, DOMAIN hist' = DOMAIN hist,
           \A t \in Sessions : DOMAIN handles'[t] \subseteq DOMAIN handles[t]
    PROVE  Apart'
<1> USE DEF TableInv, Releases
<1>1. reqID \in Nat
  BY DEF TableShapes
<1>2. \A t \in Sessions : cur'[t].h \in 0..reqID
  BY <1>1 DEF Apart, None
<1> QED BY <1>2 DEF Apart

\* WRITE: whatever gets to the file, one write more has been tried.
LEMMA WriteKeeps ==
    ASSUME SftpInv, NEW s \in Sessions, handleWrite(s), UNCHANGED driver
    PROVE  TableInv'
<1> USE DEF SftpInv, TableInv
<1> DEFINE h == Pkt(s).h
           o == handles[s][h]
           r == hist[h]
<1>1. Releases
  <2>1. \E id, code, val : Reply(s, id, code, val)
    BY DEF handleWrite, WriteFile, OK, Failure, sendStatus
  <2> QED BY <2>1, ReplyReleases DEF handleWrite
<1>2. CASE ~ HasWriter(s, h)
  <2>1. UNCHANGED fs
    BY <1>2 DEF handleWrite, WriteFile
  <2> QED BY <1>1, <2>1, TablesStay
<1>3. CASE HasWriter(s, h)
  <2>1. h \in DOMAIN handles[s] /\ o.writer # None /\ UNCHANGED store
    BY <1>3 DEF handleWrite, WriteFile, HasWriter
  <2>2. PICK stored \in {"all", "part", "none"} :
          /\ Buffered => stored = "all"
          /\ Tried(s, h, stored)
          /\ content' = IF Buffered \/ stored = "none" THEN content
                          ELSE [content EXCEPT ![o.writer] =
                                  Overlay(@, o.written, Chunk(h, r.n + 1, stored = "all"))]
    BY <1>3 DEF handleWrite, WriteFile
  <2> DEFINE y == IF stored = "all" THEN r.acked \cup {r.n + 1} ELSE r.acked
             w == IF stored = "none" THEN o.written ELSE o.written + 1
  <2>3. /\ hist' = [hist EXCEPT ![h].n = r.n + 1, ![h].acked = y]
        /\ handles' = IF stored = "none" THEN handles
                         ELSE [handles EXCEPT ![s][h].written = @ + 1]
    BY <2>2 DEF Tried
  <2>4. /\ h \in DOMAIN hist /\ r.blob = o.writer /\ ~ r.closed
        /\ o.written \in Nat /\ IsHandle(o) /\ IsHistory(r) /\ r.n \in Nat
        /\ Buffered => r.n = o.written
    BY <2>1 DEF WritersKnown, TableShapes, IsHandle, IsHistory
  <2>5. \A t \in Sessions \ {s} : h \notin DOMAIN handles[t]
    BY <2>1 DEF Apart
  <2> HIDE DEF h
  <2>6. /\ DOMAIN hist' = DOMAIN hist /\ \A g \in DOMAIN hist \ {h} : hist'[g] = hist[g]
        /\ hist'[h] = [r EXCEPT !.n = r.n + 1, !.acked = y]
    <3> HIDE DEF y
    <3> QED BY <2>3, <2>4
  <2>7. /\ DOMAIN handles' = Sessions /\ \A t \in Sessions \ {s} : handles'[t] = handles[t]
        /\ DOMAIN handles'[s] = DOMAIN handles[s]
        /\ \A g \in DOMAIN handles[s] \ {h} : handles'[s][g] = handles[s][g]
        /\ \/ stored = "none" /\ handles'[s][h] = o
           \/ stored # "none" /\ handles'[s][h] = [o EXCEPT !.written = o.written + 1]
    BY <2>1, <2>3 DEF TableShapes
  <2>8. /\ IsHistory(hist'[h]) /\ hist'[h].n = r.n + 1 /\ hist'[h].acked = y
        /\ hist'[h].blob = r.blob /\ hist'[h].closed = r.closed
    <3> DEFINE x == r.n + 1
               q == hist'[h]
               b == r.blob
               m == r.n
               a == r.acked
               k == r.closed
    <3>1. x \in Nat /\ q = [r EXCEPT !.n = x, !.acked = y] /\ IsHistory(r)
      BY <2>4, <2>6
    <3>2. r = [blob |-> b, n |-> m, acked |-> a, closed |-> k]
      BY <3>1 DEF IsHistory
    <3> HIDE DEF r, x, y, q, b, m, a, k
    <3>3. q = [blob |-> b, n |-> x, acked |-> y, closed |-> k]
      BY <3>1, <3>2
    <3>4. q.n = x /\ q.acked = y /\ q.blob = b /\ q.closed = k
      BY <3>3
    <3>5. IsHistory(q)
      BY <3>1, <3>3, <3>4 DEF IsHistory
    <3>6. IsHistory(hist'[h]) /\ hist'[h].n = x /\ hist'[h].acked = y
      BY <3>4, <3>5 DEF q
    <3>7. hist'[h].blob = b /\ hist'[h].closed = k
      BY <3>4 DEF q
    <3> QED BY <3>6, <3>7 DEF x, b, k
  <2>9. /\ IsHandle(handles'[s][h]) /\ handles'[s][h].written = w
        /\ handles'[s][h].writer = o.writer
    <3> DEFINE x == o.written + 1
    <3>1. IsHandle(o) /\ x \in Nat
      BY <2>4
    <3>2. CASE stored = "none"
      BY <2>7, <3>1, <3>2
    <3>3. CASE stored # "none"
      <4>1. handles'[s][h] = [o EXCEPT !.written = x] /\ w = x
        BY <2>7, <3>3
      <4> HIDE DEF o, x, w
      <4>2. /\ IsHandle(handles'[s][h]) /\ handles'[s][h].written = x
            /\ handles'[s][h].writer = o.writer
        BY <3>1, <4>1, WrittenField
      <4> QED BY <4>1, <4>2
    <3> QED BY <3>2, <3>3
  <2>10. Buffered => stored = "all" /\ UNCHANGED content
    BY <2>2
  <2>11. ~ Buffered =>
            /\ DOMAIN content' = DOMAIN content
            /\ \A b \in DOMAIN content \ {o.writer} : content'[b] = content[b]
            /\ stored = "none" => content'[o.writer] = content[o.writer]
            /\ stored # "none" /\ o.writer \in DOMAIN content =>
                  content'[o.writer] =
                      Overlay(content[o.writer], o.written, Chunk(h, r.n + 1, stored = "all"))
    BY <2>2
  <2> HIDE DEF o, r
  <2>12. TableShapes'
    <3>1. reqID' \in Nat
      BY <1>1 DEF TableShapes, Releases
    <3>2. \A t \in Sessions : \A g \in DOMAIN handles'[t] : IsHandle(handles'[t][g])
      BY <2>7, <2>9 DEF TableShapes
    <3>3. \A g \in DOMAIN hist' : IsHistory(hist'[g])
      BY <2>6, <2>8 DEF TableShapes
    <3> QED BY <2>7, <3>1, <3>2, <3>3 DEF TableShapes
  <2>13. Apart'
    BY <1>1, <2>6, <2>7, ApartKept
  <2>14. WritersKnown'
    <3> SUFFICES ASSUME NEW t \in Sessions, NEW g \in DOMAIN handles[t]
                 PROVE  /\ g \in DOMAIN hist' <=> handles'[t][g].writer # None
                        /\ g \in DOMAIN hist' =>
                               /\ hist'[g].blob = handles'[t][g].writer /\ ~ hist'[g].closed
                               /\ Buffered => hist'[g].n = handles'[t][g].written
      BY <2>7 DEF WritersKnown, Buffered
    <3>1. CASE g = h
      <4>1. t = s
        BY <2>5, <3>1
      <4>2. Buffered => w = o.written + 1
        BY <2>10
      <4> HIDE DEF w
      <4> QED BY <2>1, <2>4, <2>6, <2>8, <2>9, <3>1, <4>1, <4>2
    <3>2. CASE g # h
      <4>1. handles'[t][g] = handles[t][g] /\ (g \in DOMAIN hist => hist'[g] = hist[g])
        BY <2>6, <2>7, <3>2
      <4> QED BY <2>6, <4>1 DEF WritersKnown
    <3> QED BY <3>1, <3>2
  <2>15. AllAcked'
    <3> SUFFICES ASSUME Buffered, NEW g \in DOMAIN hist PROVE hist'[g].acked = 1..hist'[g].n
      BY <2>6 DEF AllAcked, Buffered
    <3>1. CASE g = h
      <4>1. r.acked = 1..r.n /\ y = r.acked \cup {r.n + 1}
        BY <2>4, <2>10 DEF AllAcked, r
      <4>2. (1..r.n) \cup {r.n + 1} = 1..(r.n + 1)
        BY <2>4
      <4> QED BY <2>8, <3>1, <4>1, <4>2
    <3>2. CASE g # h
      BY <2>6, <3>2 DEF AllAcked
    <3> QED BY <3>1, <3>2
  <2>16. ASSUME ~ Buffered, SoleWriter(h)
         PROVE  Ordered(content'[o.writer], h, hist'[h]) /\ w = Len(content'[o.writer])
    <3> DEFINE c == content[o.writer]
    <3>1. Ordered(c, h, r) /\ o.written = Len(c) /\ o.writer \in DOMAIN content
      BY <2>1, <2>4, <2>16 DEF InodesHold, AtTheEnd, o, r
    <3>2. hist'[h].n = r.n + 1 /\ hist'[h].acked = y
      BY <2>8
    <3>3. CASE stored = "none"
      <4>1. content'[o.writer] = c /\ y = r.acked /\ w = o.written
        BY <2>11, <2>16, <3>3
      <4> HIDE DEF c, y, w
      <4>2. Ordered(c, h, hist'[h])
        BY <2>4, <3>1, <3>2, <4>1, NoMore
      <4> QED BY <3>1, <4>1, <4>2
    <3>4. CASE stored # "none"
      <4> DEFINE d == content'[o.writer]
                 v == stored = "all"
                 q == hist'[h]
                 m == Chunk(h, r.n + 1, v)
      <4>1. d = Overlay(c, Len(c), m) /\ w = o.written + 1
        BY <2>11, <2>16, <3>1, <3>4
      <4>2. m.of = h /\ m.k = r.n + 1 /\ m.whole \in BOOLEAN /\ m.whole = v
        BY DEF Chunk
      <4>3. /\ q.n = r.n + 1
            /\ v => q.acked = r.acked \cup {r.n + 1}
            /\ ~ v => q.acked = r.acked
        BY <3>2
      <4>4. IsHistory(r) /\ Ordered(c, h, r) /\ o.written = Len(c)
        BY <2>4, <3>1
      <4> HIDE DEF c, d, v, w, y, q, m
      <4>5. Ordered(d, h, q)
        BY <4>1, <4>2, <4>3, <4>4, OneMore
      <4>6. Len(d) = Len(c) + 1
        BY <4>1, <4>2, <4>3, <4>4, OneMore
      <4>7. w = Len(d)
        BY <4>1, <4>4, <4>6
      <4> QED BY <4>5, <4>7 DEF d, q
    <3> QED BY <3>3, <3>4
  <2>17. ASSUME ~ Buffered, NEW g \in DOMAIN hist
         PROVE  /\ hist[g].blob \in DOMAIN content' /\ hist'[g].blob = hist[g].blob
                /\ SoleWriter(g)' => SoleWriter(g)
                /\ g # h => /\ hist'[g] = hist[g]
                            /\ SoleWriter(g) => content'[hist[g].blob] = content[hist[g].blob]
    <3>1. \A f \in DOMAIN hist : hist'[f].blob = hist[f].blob
      BY <2>6, <2>8 DEF r
    <3>2. SoleWriter(g)' => SoleWriter(g)
      BY <2>6, <3>1 DEF SoleWriter
    <3>3. ASSUME g # h, SoleWriter(g) PROVE hist[g].blob # o.writer
      BY <2>4, <3>3 DEF SoleWriter, r
    <3>4. hist[g].blob \in DOMAIN content
      BY <2>17 DEF InodesHold
    <3> QED BY <2>6, <2>11, <2>17, <3>1, <3>2, <3>3, <3>4
  <2>18. InodesHold'
    <3> SUFFICES ASSUME ~ Buffered, NEW g \in DOMAIN hist
                 PROVE  /\ hist'[g].blob \in DOMAIN content'
                        /\ SoleWriter(g)' => Ordered(content'[hist'[g].blob], g, hist'[g])
      BY <2>6 DEF InodesHold, Buffered
    <3>1. CASE g = h
      BY <2>4, <2>16, <2>17, <3>1 DEF r
    <3>2. CASE g # h
      BY <2>17, <3>2 DEF InodesHold
    <3> QED BY <3>1, <3>2
  <2>19. AtTheEnd'
    <3> SUFFICES ASSUME ~ Buffered, NEW t \in Sessions, NEW g \in DOMAIN handles[t],
                        g \in DOMAIN hist, SoleWriter(g)'
                 PROVE  handles'[t][g].written = Len(content'[hist'[g].blob])
      BY <2>6, <2>7 DEF AtTheEnd, Buffered
    <3>1. CASE g = h
      <4>1. t = s
        BY <2>5, <3>1
      <4>2. hist'[g].blob = o.writer /\ SoleWriter(h)
        BY <2>4, <2>17, <3>1 DEF r
      <4> HIDE DEF w
      <4> QED BY <2>9, <2>16, <3>1, <4>1, <4>2
    <3>2. CASE g # h
      <4>1. handles'[t][g] = handles[t][g]
        BY <2>7, <3>2
      <4> QED BY <2>17, <3>2, <4>1 DEF AtTheEnd
    <3> QED BY <3>1, <3>2
  <2>20. ObjectsWhole'
    <3> SUFFICES ASSUME Buffered, NEW p \in DOMAIN store
                 PROVE  /\ store[p] \in DOMAIN hist' /\ hist'[store[p]].closed
                        /\ store[p] \in DOMAIN content'
                        /\ content'[store[p]] = Chunks(store[p], hist'[store[p]].n)
      BY <2>1 DEF ObjectsWhole, Buffered
    <3>1. /\ store[p] \in DOMAIN hist /\ hist[store[p]].closed /\ store[p] \in DOMAIN content
          /\ content[store[p]] = Chunks(store[p], hist[store[p]].n)
      BY DEF ObjectsWhole
    <3>2. store[p] # h
      BY <2>4, <3>1 DEF r
    <3> QED BY <2>6, <2>10, <3>1, <3>2
  <2> QED BY <2>12, <2>13, <2>14, <2>15, <2>18, <2>19, <2>20
<1> QED BY <1>2, <1>3

\* READDIR.
LEMMA ReadDirKeeps ==
    ASSUME SftpInv, NEW s \in Sessions, handleReadDir(s), UNCHANGED driver
    PROVE  TableInv'
<1> USE DEF SftpInv, TableInv
<1> DEFINE h == Pkt(s).h
           o == handles[s][h]
<1>1. Releases
  <2>1. \E id, code, val : Reply(s, id, code, val)
    BY DEF handleReadDir, ReadDir, Failure, sendStatus, sendName
  <2> QED BY <2>1, ReplyReleases DEF handleReadDir
<1>2. CASE UNCHANGED fs
  BY <1>1, <1>2, TablesStay
<1>3. CASE ~ UNCHANGED fs
  <2>1. /\ h \in DOMAIN handles[s]
        /\ handles' = [handles EXCEPT ![s][h].dirList = {}]
        /\ UNCHANGED <<store, content, hist>>
    BY <1>3 DEF handleReadDir, ReadDir
  <2>2. IsHandle(o)
    BY <2>1 DEF TableShapes
  <2> HIDE DEF h
  <2>5. /\ DOMAIN handles' = Sessions /\ \A t \in Sessions \ {s} : handles'[t] = handles[t]
        /\ DOMAIN handles'[s] = DOMAIN handles[s]
        /\ \A g \in DOMAIN handles[s] \ {h} : handles'[s][g] = handles[s][g]
        /\ handles'[s][h] = [o EXCEPT !.dirList = {}]
    BY <2>1 DEF TableShapes
  <2>7. /\ IsHandle(handles'[s][h]) /\ handles'[s][h].written = o.written
        /\ handles'[s][h].writer = o.writer
    <3>1. IsHandle(o) /\ handles'[s][h] = [o EXCEPT !.dirList = {}]
      BY <2>2, <2>5
    <3> HIDE DEF o
    <3> QED BY <3>1, ListField
  <2>8. TableShapes'
    <3>1. reqID' \in Nat
      BY <1>1 DEF TableShapes, Releases
    <3>2. \A t \in Sessions : \A g \in DOMAIN handles'[t] : IsHandle(handles'[t][g])
      <4> HIDE DEF o
      <4> QED BY <2>5, <2>7 DEF TableShapes
    <3> QED BY <2>1, <2>5, <3>1, <3>2 DEF TableShapes
  <2>9. Apart'
    BY <1>1, <2>1, <2>5, ApartKept
  <2>10. WritersKnown' /\ AllAcked'
    BY <1>1, <2>1, <2>5, <2>7 DEF WritersKnown, AllAcked, Buffered, Releases
  <2>11. InodesHold' /\ ObjectsWhole'
    BY <2>1 DEF InodesHold, ObjectsWhole, SoleWriter, Buffered
  <2>12. AtTheEnd'
    <3>1. \A t \in Sessions : \A g \in DOMAIN handles'[t] :
              g \in DOMAIN handles[t] /\ handles'[t][g].written = handles[t][g].written
      BY <2>5, <2>7
    <3> QED BY <2>1, <3>1 DEF AtTheEnd, SoleWriter, Buffered
  <2> QED BY <2>8, <2>9, <2>10, <2>11, <2>12
<1> QED BY <1>2, <1>3

\* CLOSE: the row goes, and with S3Storage what was written becomes the object.
LEMMA CloseKeeps ==
    ASSUME SftpInv, NEW s \in Sessions, handleClose(s), UNCHANGED driver
    PROVE  TableInv'
<1> USE DEF SftpInv, TableInv
<1> DEFINE h == Pkt(s).h
           o == handles[s][h]
<1>1. Releases
  <2>1. \E id, code, val : Reply(s, id, code, val)
    BY DEF handleClose, CloseFile, Failure, OK, sendStatus
  <2> QED BY <2>1, ReplyReleases DEF handleClose
<1>2. CASE UNCHANGED fs
  BY <1>1, <1>2, TablesStay
<1>3. CASE ~ UNCHANGED fs
  <2>1. /\ h \in DOMAIN handles[s]
        /\ IF o.writer # None THEN WriterClose(h, o.path, o.written)
                              ELSE UNCHANGED <<store, content>>
        /\ handles' = [handles EXCEPT ![s] = Without(@, {h})]
        /\ hist' = IF h \in DOMAIN hist THEN [hist EXCEPT ![h].closed = TRUE] ELSE hist
    BY <1>3 DEF handleClose, CloseFile
  <2>2. /\ h \in DOMAIN hist <=> o.writer # None
        /\ h \in DOMAIN hist => /\ IsHistory(hist[h]) /\ ~ hist[h].closed
                                /\ Buffered => hist[h].n = o.written
    BY <2>1 DEF WritersKnown, TableShapes
  <2>3. \A t \in Sessions \ {s} : h \notin DOMAIN handles[t]
    BY <2>1 DEF Apart
  <2> HIDE DEF h, o
  <2>4. /\ DOMAIN hist' = DOMAIN hist /\ \A g \in DOMAIN hist \ {h} : hist'[g] = hist[g]
        /\ h \in DOMAIN hist => hist'[h] = [hist[h] EXCEPT !.closed = TRUE]
    BY <2>1
  <2>5. /\ DOMAIN handles' = Sessions /\ \A t \in Sessions \ {s} : handles'[t] = handles[t]
        /\ DOMAIN handles'[s] = DOMAIN handles[s] \ {h}
        /\ \A g \in DOMAIN handles'[s] : handles'[s][g] = handles[s][g]
    BY <2>1 DEF TableShapes, Without
  <2>6. h \in DOMAIN hist => /\ IsHistory(hist'[h]) /\ hist'[h].n = hist[h].n
                             /\ hist'[h].acked = hist[h].acked
                             /\ hist'[h].blob = hist[h].blob /\ hist'[h].closed
    <3> SUFFICES ASSUME h \in DOMAIN hist
                 PROVE  /\ IsHistory(hist'[h]) /\ hist'[h].n = hist[h].n
                        /\ hist'[h].acked = hist[h].acked
                        /\ hist'[h].blob = hist[h].blob /\ hist'[h].closed
      OBVIOUS
    <3> DEFINE r == hist[h]
    <3>1. IsHistory(r) /\ hist'[h] = [r EXCEPT !.closed = TRUE]
      BY <2>2, <2>4
    <3> HIDE DEF r
    <3>2. /\ IsHistory(hist'[h]) /\ hist'[h].n = r.n /\ hist'[h].acked = r.acked
          /\ hist'[h].blob = r.blob /\ hist'[h].closed = TRUE
      BY <3>1, ClosedField
    <3> QED BY <3>2 DEF r
  <2>7. TableShapes'
    <3>1. reqID' \in Nat
      BY <1>1 DEF TableShapes, Releases
    <3>2. \A t \in Sessions : \A g \in DOMAIN handles'[t] : IsHandle(handles'[t][g])
      BY <2>5 DEF TableShapes
    <3>3. \A g \in DOMAIN hist' : IsHistory(hist'[g])
      BY <2>4, <2>6 DEF TableShapes
    <3> QED BY <2>5, <3>1, <3>2, <3>3 DEF TableShapes
  <2>8. Apart'
    BY <1>1, <2>4, <2>5, ApartKept
  <2>9. WritersKnown'
    BY <2>3, <2>4, <2>5 DEF WritersKnown, Buffered
  <2>a. \A f \in DOMAIN hist : /\ hist'[f].blob = hist[f].blob /\ hist'[f].n = hist[f].n
                              /\ hist'[f].acked = hist[f].acked
    BY <2>4, <2>6
  <2>b. AllAcked'
    BY <2>4, <2>a DEF AllAcked, Buffered
  <2>c. \A g \in DOMAIN hist : SoleWriter(g)' => SoleWriter(g)
    BY <2>4, <2>a DEF SoleWriter
  <2>d. ~ Buffered => UNCHANGED content
    BY <2>1 DEF WriterClose
  <2>10. InodesHold'
    <3> SUFFICES ASSUME ~ Buffered, NEW g \in DOMAIN hist
                 PROVE  /\ hist'[g].blob \in DOMAIN content'
                        /\ SoleWriter(g)' => Ordered(content'[hist'[g].blob], g, hist'[g])
      BY <2>4 DEF InodesHold, Buffered
    <3>1. /\ hist[g].blob \in DOMAIN content
          /\ SoleWriter(g) => Ordered(content[hist[g].blob], g, hist[g])
      BY DEF InodesHold
    <3>2. \A c : Ordered(c, g, hist[g]) => Ordered(c, g, hist'[g])
      BY <2>a DEF Ordered
    <3> QED BY <2>a, <2>c, <2>d, <3>1, <3>2
  <2>e. AtTheEnd'
    <3>1. \A t \in Sessions : \A g \in DOMAIN handles'[t] :
              g \in DOMAIN handles[t] /\ handles'[t][g] = handles[t][g]
      BY <2>5
    <3> SUFFICES ASSUME ~ Buffered, NEW t \in Sessions, NEW g \in DOMAIN handles'[t],
                        g \in DOMAIN hist, SoleWriter(g)'
                 PROVE  handles'[t][g].written = Len(content'[hist'[g].blob])
      BY <2>4 DEF AtTheEnd, Buffered
    <3> QED BY <2>a, <2>c, <2>d, <3>1 DEF AtTheEnd
  <2>11. ObjectsWhole'
    <3> SUFFICES ASSUME Buffered, NEW p \in DOMAIN store'
                 PROVE  LET g == store'[p] IN
                        /\ g \in DOMAIN hist' /\ hist'[g].closed
                        /\ g \in DOMAIN content' /\ content'[g] = Chunks(g, hist'[g].n)
      BY DEF ObjectsWhole, Buffered
    <3>1. \A g : g \in DOMAIN hist /\ hist[g].closed =>
              g # h /\ g \in DOMAIN hist' /\ hist'[g] = hist[g]
      BY <2>2, <2>4
    <3>2. CASE UNCHANGED <<store, content>>
      BY <3>1, <3>2 DEF ObjectsWhole
    <3>3. CASE /\ o.writer # None
               /\ store' = Put(store, o.path, h) /\ content' = Put(content, h, Chunks(h, o.written))
      <4>1. /\ store' = Put(store, o.path, h) /\ content' = Put(content, h, Chunks(h, o.written))
        BY <3>3
      <4>2. CASE p = o.path
        <5>1. store'[p] = h /\ content'[h] = Chunks(h, o.written) /\ h \in DOMAIN content'
          BY <4>1, <4>2 DEF Put
        <5>2. h \in DOMAIN hist' /\ hist'[h].closed /\ hist'[h].n = o.written
          BY <2>2, <2>4, <2>6, <3>3
        <5> QED BY <5>1, <5>2
      <4>3. CASE p # o.path
        <5>1. p \in DOMAIN store /\ store'[p] = store[p]
          BY <4>1, <4>3 DEF Put
        <5> DEFINE g == store[p]
        <5>2. /\ g \in DOMAIN hist /\ hist[g].closed
              /\ g \in DOMAIN content /\ content[g] = Chunks(g, hist[g].n)
          BY <5>1 DEF ObjectsWhole
        <5>3. g # h /\ g \in DOMAIN hist' /\ hist'[g] = hist[g]
          BY <3>1, <5>2
        <5> HIDE DEF g
        <5>4. content'[g] = content[g] /\ g \in DOMAIN content'
          BY <4>1, <5>2, <5>3 DEF Put
        <5> QED BY <5>1, <5>2, <5>3, <5>4 DEF g
      <4> QED BY <4>2, <4>3
    <3> QED BY <2>1, <3>2, <3>3 DEF WriterClose
  <2> QED BY <2>7, <2>8, <2>9, <2>10, <2>11, <2>b, <2>e
<1> QED BY <1>2, <1>3

\* What a session takes for an OPEN is no other's.
LEMMA TakenIsNew ==
    ASSUME Apart, NEW s \in Sessions, cur[s].h # None
    PROVE  /\ cur[s].h \notin DOMAIN hist
           /\ reqID \in Nat => cur[s].h \in 1..reqID
           /\ \A t \in Sessions : cur[s].h \notin DOMAIN handles[t]
           /\ \A t \in Sessions : t # s => cur[t].h # cur[s].h
<1>1. cur[s].h \in 0..reqID /\ cur[s].h # 0
  BY DEF Apart, None
<1>2. /\ cur[s].h \notin DOMAIN hist
      /\ \A t \in Sessions : /\ cur[s].h \notin DOMAIN handles[t]
                             /\ t # s => cur[t].h # cur[s].h
  BY DEF Apart
<1>3. \A t \in Sessions : cur[s].h \notin DOMAIN handles[t]
  BY <1>2
<1>4. \A t \in Sessions : t # s => cur[t].h # cur[s].h
  BY <1>2
<1>5. reqID \in Nat => cur[s].h \in 1..reqID
  BY <1>1
<1>6. cur[s].h \notin DOMAIN hist
  BY <1>2
<1> QED BY <1>3, <1>4, <1>5, <1>6, Zenon

\* A step that answers an OPEN gives the handle it took a row, a history, or neither.
LEMMA ApartGiven ==
    ASSUME TableInv, Releases, NEW s \in Sessions, cur[s].h # None, cur'[s].h = None,
           DOMAIN hist' \subseteq DOMAIN hist \cup {cur[s].h},
           DOMAIN handles'[s] \subseteq DOMAIN handles[s] \cup {cur[s].h},
           \A t \in Sessions \ {s} : handles'[t] = handles[t]
    PROVE  Apart'
<1> USE DEF TableInv, Releases
<1> DEFINE h == cur[s].h
<1>1. reqID \in Nat /\ UNCHANGED reqID
  BY DEF TableShapes
<1>2. h \in 1..reqID
  BY <1>1 DEF Apart, None
<1>3. \A t \in Sessions : DOMAIN handles'[t] \subseteq DOMAIN handles[t] \cup {h}
  OBVIOUS
<1>4. \A t \in Sessions \ {s} : h \notin DOMAIN handles'[t] /\ cur'[t].h # h
  <2>1. h # None /\ \A t \in Sessions : h \notin DOMAIN handles[t] /\ (t # s => cur[t].h # h)
    BY TakenIsNew
  <2> HIDE DEF h
  <2> QED BY <2>1
<1>5. \A t \in Sessions : cur'[t].h \in 0..reqID
  BY <1>1 DEF Apart, None
<1> HIDE DEF h
<1>6. DOMAIN hist' \subseteq DOMAIN hist \cup {h}
      /\ DOMAIN handles'[s] \subseteq DOMAIN handles[s] \cup {h}
  BY DEF h
<1>7. /\ DOMAIN hist' \subseteq 1..reqID'
      /\ \A t \in Sessions : DOMAIN handles'[t] \subseteq 1..reqID' /\ cur'[t].h \in 0..reqID'
  BY <1>1, <1>2, <1>3, <1>5, <1>6 DEF Apart
<1>8. \A t, u \in Sessions : t # u => DOMAIN handles'[t] \cap DOMAIN handles'[u] = {}
  <2>1. \A t, u \in Sessions \ {s} : t # u => DOMAIN handles'[t] \cap DOMAIN handles'[u] = {}
    BY DEF Apart
  <2>2. \A t \in Sessions \ {s} : DOMAIN handles'[t] \cap DOMAIN handles'[s] = {}
    BY <1>4, <1>6 DEF Apart
  <2> QED BY <2>1, <2>2
<1>9. ASSUME NEW t \in Sessions, cur'[t].h # None
      PROVE  /\ cur'[t].h \notin DOMAIN hist'
             /\ \A u \in Sessions : /\ cur'[t].h \notin DOMAIN handles'[u]
                                    /\ u # t => cur'[u].h # cur'[t].h
  <2>1. t # s /\ cur'[t].h = cur[t].h /\ cur[t].h # h
    BY <1>4, <1>9
  <2>2. /\ cur[t].h \notin DOMAIN hist
        /\ \A u \in Sessions : /\ cur[t].h \notin DOMAIN handles[u]
                               /\ u # t => cur[u].h # cur[t].h
    BY <1>9, <2>1 DEF Apart
  <2>3. \A u \in Sessions : cur'[u].h = None \/ cur'[u].h = cur[u].h
    OBVIOUS
  <2> QED BY <1>3, <1>6, <1>9, <2>1, <2>2, <2>3
<1> QED BY <1>7, <1>8, <1>9 DEF Apart

\* OPENDIR.
LEMMA OpenDirKeeps ==
    ASSUME SftpInv, NEW s \in Sessions, handleOpenDir(s), UNCHANGED driver
    PROVE  TableInv'
<1> USE DEF SftpInv, TableInv
<1> DEFINE h == cur[s].h
<1>1. Releases /\ cur'[s].h = None
  <2>1. \E id, code, val : Reply(s, id, code, val)
    BY DEF handleOpenDir, OpenDir, sendHandle, sendStatus
  <2> QED BY <2>1, ReplyReleases DEF handleOpenDir
<1>2. CASE UNCHANGED fs
  BY <1>1, <1>2, TablesStay
<1>3. CASE ~ UNCHANGED fs
  <2>1. PICK path, list :
          /\ handles' = [handles EXCEPT ![s] = Put(@, h,
                 [path |-> path, reader |-> FALSE, writer |-> None, written |-> 0,
                  isDir |-> TRUE, dirList |-> list])]
          /\ UNCHANGED <<store, content, hist>>
    BY <1>3 DEF handleOpenDir, OpenDir
  <2> DEFINE o == [path |-> path, reader |-> FALSE, writer |-> None, written |-> 0,
                   isDir |-> TRUE, dirList |-> list]
  <2>2. IsHandle(o) /\ o.writer = None
    BY DEF IsHandle
  <2>3. /\ h # None /\ h \notin DOMAIN hist
        /\ \A t \in Sessions : h \notin DOMAIN handles[t]
    BY TakenIsNew DEF handleOpenDir, Holds
  <2>4. handles' = [handles EXCEPT ![s] = Put(@, h, o)]
    BY <2>1
  <2> HIDE DEF o
  <2>5. /\ DOMAIN handles' = Sessions /\ \A t \in Sessions \ {s} : handles'[t] = handles[t]
        /\ DOMAIN handles'[s] = DOMAIN handles[s] \cup {h}
        /\ \A g \in DOMAIN handles[s] \ {h} : handles'[s][g] = handles[s][g]
        /\ handles'[s][h] = o
    <3> HIDE DEF h
    <3>1. DOMAIN handles = Sessions
      BY DEF TableShapes
    <3>2. handles'[s] = Put(handles[s], h, o)
      BY <2>4, <3>1
    <3>3. DOMAIN handles' = Sessions /\ \A t \in Sessions \ {s} : handles'[t] = handles[t]
      BY <2>4, <3>1
    <3> QED BY <3>2, <3>3 DEF Put
  <2>6. Apart'
    BY <1>1, <2>1, <2>3, <2>5, ApartGiven
  <2> HIDE DEF h
  <2>7. TableShapes'
    <3>1. reqID' \in Nat
      BY <1>1 DEF TableShapes, Releases
    <3>2. \A t \in Sessions : \A g \in DOMAIN handles'[t] : IsHandle(handles'[t][g])
      BY <2>2, <2>5 DEF TableShapes
    <3> QED BY <2>1, <2>5, <3>1, <3>2 DEF TableShapes
  <2>8. WritersKnown'
    <3>1. \A t \in Sessions : \A g \in DOMAIN handles'[t] :
              \/ g \in DOMAIN handles[t] /\ handles'[t][g] = handles[t][g]
              \/ g = h /\ handles'[t][g].writer = None
      BY <2>2, <2>5
    <3> SUFFICES ASSUME NEW t \in Sessions, NEW g \in DOMAIN handles'[t]
                 PROVE  /\ g \in DOMAIN hist <=> handles'[t][g].writer # None
                        /\ g \in DOMAIN hist =>
                               /\ hist[g].blob = handles'[t][g].writer /\ ~ hist[g].closed
                               /\ Buffered => hist[g].n = handles'[t][g].written
      BY <2>1 DEF WritersKnown, Buffered
    <3>2. CASE g = h
      BY <2>3, <3>1, <3>2
    <3>3. CASE g # h
      BY <3>1, <3>3 DEF WritersKnown
    <3> QED BY <3>2, <3>3
  <2>9. InodesHold' /\ ObjectsWhole' /\ AllAcked'
    BY <2>1 DEF InodesHold, ObjectsWhole, AllAcked, SoleWriter, Buffered
  <2>10. AtTheEnd'
    <3>1. ASSUME NEW t \in Sessions, NEW g \in DOMAIN handles'[t], g \in DOMAIN hist
          PROVE  g \in DOMAIN handles[t] /\ handles'[t][g] = handles[t][g]
      <4>1. g # h
        BY <2>3, <3>1
      <4>2. CASE t = s
        BY <2>5, <4>1, <4>2
      <4>3. CASE t # s
        BY <2>5, <4>3
      <4> QED BY <4>2, <4>3
    <3> SUFFICES ASSUME ~ Buffered', NEW t \in Sessions, NEW g \in DOMAIN handles'[t],
                        g \in DOMAIN hist', SoleWriter(g)'
                 PROVE  handles'[t][g].written = Len(content'[hist'[g].blob])
      BY DEF AtTheEnd
    <3>2. /\ ~ Buffered /\ g \in DOMAIN hist /\ SoleWriter(g)
          /\ content' = content /\ hist' = hist
      BY <2>1 DEF SoleWriter, Buffered
    <3>3. g \in DOMAIN handles[t] /\ handles'[t][g] = handles[t][g]
      BY <3>1, <3>2
    <3>4. handles[t][g].written = Len(content[hist[g].blob])
      BY <3>2, <3>3 DEF AtTheEnd
    <3> QED BY <3>2, <3>3, <3>4
  <2> QED BY <2>6, <2>7, <2>8, <2>9, <2>10
<1> QED BY <1>2, <1>3

\* OPEN: the handle has a row, and, where it creates, a history and a blob.
LEMMA OpenKeeps ==
    ASSUME SftpInv, NEW s \in Sessions, handleOpen(s), UNCHANGED driver
    PROVE  TableInv'
<1> USE DEF SftpInv, TableInv
<1> DEFINE h == cur[s].h
           path == Pkt(s).path
           flags == Pkt(s).flags
           creates == "WRITE" \in flags \/ ("CREAT" \in flags /\ ~ cur[s].exists)
           made == creates /\ ~ (creates /\ IsDir(path))
           unreadable == "READ" \in flags /\ ~ Exists(path) /\ ~ (made /\ ~ Buffered)
           blob == IF made THEN Created(h, path) ELSE None
           o == openHandle(path, "READ" \in flags, blob)
           r == [blob |-> blob, n |-> 0, acked |-> {}, closed |-> unreadable]
<1>1. Releases /\ cur'[s].h = None
  <2>1. \E id, code, val : Reply(s, id, code, val)
    BY DEF handleOpen, OpenFile, sendHandle, sendStatus
  <2> QED BY <2>1, ReplyReleases DEF handleOpen
<1>2. /\ h # None /\ h \notin DOMAIN hist
      /\ \A t \in Sessions : h \notin DOMAIN handles[t]
  BY TakenIsNew DEF handleOpen, Holds
<1>3. /\ hist' = IF made THEN Put(hist, h, r) ELSE hist
      /\ \/ UNCHANGED handles
         \/ ~ unreadable /\ handles' = [handles EXCEPT ![s] = Put(@, h, o)]
      /\ CASE made /\ unreadable /\ Buffered -> WriterClose(h, path, 0)
           [] made /\ ~(unreadable /\ Buffered) -> Create(h, path)
           [] OTHER -> UNCHANGED <<store, content>>
  BY DEF handleOpen, OpenFile
<1>4. /\ made => blob = Created(h, path) /\ ~ IsDir(path)
      /\ ~ made => blob = None
      /\ made /\ ~ Buffered => ~ unreadable
  OBVIOUS
<1>5. made => blob # None
  BY <1>2, <1>4 DEF Created, IsDir, Dir, None
<1>6. IsHandle(o) /\ o.writer = blob /\ o.written = 0
  BY DEF IsHandle, openHandle
<1>7. IsHistory(r) /\ r.blob = blob /\ r.n = 0 /\ r.acked = {} /\ r.closed = unreadable
  BY DEF IsHistory
<1> HIDE DEF h, path, made, unreadable, blob, o, r
<1>8. \/ UNCHANGED handles
      \/ /\ ~ unreadable /\ DOMAIN handles' = Sessions
         /\ \A t \in Sessions \ {s} : handles'[t] = handles[t]
         /\ DOMAIN handles'[s] = DOMAIN handles[s] \cup {h}
         /\ \A g \in DOMAIN handles[s] \ {h} : handles'[s][g] = handles[s][g]
         /\ handles'[s][h] = o
  <2>1. DOMAIN handles = Sessions
    BY DEF TableShapes
  <2>2. ASSUME handles' = [handles EXCEPT ![s] = Put(@, h, o)]
        PROVE  handles'[s] = Put(handles[s], h, o) /\ DOMAIN handles' = Sessions
               /\ \A t \in Sessions \ {s} : handles'[t] = handles[t]
    BY <2>1, <2>2
  <2> QED BY <1>3, <2>2 DEF Put
<1>9. /\ DOMAIN hist' = IF made THEN DOMAIN hist \cup {h} ELSE DOMAIN hist
      /\ \A g \in DOMAIN hist : hist'[g] = hist[g]
      /\ made => hist'[h] = r
  BY <1>2, <1>3 DEF Put
<1>10. Apart'
  <2>1. DOMAIN hist' \subseteq DOMAIN hist \cup {cur[s].h}
    BY <1>9 DEF h
  <2>2. /\ DOMAIN handles'[s] \subseteq DOMAIN handles[s] \cup {cur[s].h}
        /\ \A t \in Sessions \ {s} : handles'[t] = handles[t]
    BY <1>8 DEF h
  <2>3. cur[s].h # None
    BY <1>2 DEF h
  <2> QED BY <1>1, <2>1, <2>2, <2>3, ApartGiven
<1>11. \A t \in Sessions : \A g \in DOMAIN handles'[t] :
           \/ g \in DOMAIN handles[t] /\ handles'[t][g] = handles[t][g]
           \/ g = h /\ handles'[t][g] = o /\ ~ unreadable
  BY <1>8
<1>12. TableShapes'
  <2>1. reqID' \in Nat
    BY <1>1 DEF TableShapes, Releases
  <2>2. \A t \in Sessions : \A g \in DOMAIN handles'[t] : IsHandle(handles'[t][g])
    BY <1>6, <1>11 DEF TableShapes
  <2>3. \A g \in DOMAIN hist' : IsHistory(hist'[g])
    BY <1>7, <1>9 DEF TableShapes
  <2>4. DOMAIN handles' = Sessions
    BY <1>8 DEF TableShapes
  <2> QED BY <2>1, <2>2, <2>3, <2>4 DEF TableShapes
<1>13. WritersKnown'
  <2> SUFFICES ASSUME NEW t \in Sessions, NEW g \in DOMAIN handles'[t]
               PROVE  /\ g \in DOMAIN hist' <=> handles'[t][g].writer # None
                      /\ g \in DOMAIN hist' =>
                             /\ hist'[g].blob = handles'[t][g].writer /\ ~ hist'[g].closed
                             /\ Buffered => hist'[g].n = handles'[t][g].written
    BY DEF WritersKnown, Buffered
  <2>1. CASE g \in DOMAIN handles[t] /\ handles'[t][g] = handles[t][g]
    <3>1. g # h
      BY <1>2, <2>1
    <3>2. (g \in DOMAIN hist' <=> g \in DOMAIN hist) /\ (g \in DOMAIN hist => hist'[g] = hist[g])
      BY <1>9, <3>1
    <3> QED BY <2>1, <3>2 DEF WritersKnown
  <2>2. CASE g = h /\ handles'[t][g] = o /\ ~ unreadable
    <3>1. CASE made
      BY <1>5, <1>6, <1>7, <1>9, <2>2, <3>1
    <3>2. CASE ~ made
      BY <1>2, <1>4, <1>6, <1>9, <2>2, <3>2
    <3> QED BY <3>1, <3>2
  <2> QED BY <1>11, <2>1, <2>2
<1>14. InodesHold'
  <2> SUFFICES ASSUME ~ Buffered, NEW g \in DOMAIN hist'
               PROVE  /\ hist'[g].blob \in DOMAIN content'
                      /\ SoleWriter(g)' => Ordered(content'[hist'[g].blob], g, hist'[g])
    BY DEF InodesHold, Buffered
  <2>1. CASE made
    <3>1. content' = Put(content, blob, <<>>)
      BY <1>3, <1>4, <2>1 DEF Create
    <3>2. CASE g = h
      <4>1. hist'[g].blob = blob /\ hist'[g].acked = {}
        BY <1>7, <1>9, <2>1, <3>2
      <4>2. blob \in DOMAIN content' /\ content'[blob] = <<>>
        BY <3>1 DEF Put
      <4> QED BY <4>1, <4>2, NothingYet
    <3>3. CASE g # h
      <4>1. g \in DOMAIN hist /\ hist'[g] = hist[g]
        BY <1>9, <3>3
      <4>2. /\ hist[g].blob \in DOMAIN content
            /\ SoleWriter(g) => Ordered(content[hist[g].blob], g, hist[g])
        BY <4>1 DEF InodesHold
      <4>3. SoleWriter(g)' => SoleWriter(g) /\ hist[g].blob # blob
        <5>1. h \in DOMAIN hist' /\ hist'[h].blob = blob
          BY <1>7, <1>9, <2>1
        <5>2. DOMAIN hist \subseteq DOMAIN hist' /\ \A f \in DOMAIN hist : hist'[f] = hist[f]
          BY <1>9
        <5> QED BY <3>3, <4>1, <5>1, <5>2 DEF SoleWriter
      <4>4. /\ DOMAIN content \subseteq DOMAIN content'
            /\ \A b \in DOMAIN content \ {blob} : content'[b] = content[b]
        BY <3>1 DEF Put
      <4> QED BY <4>1, <4>2, <4>3, <4>4
    <3> QED BY <3>2, <3>3
  <2>2. CASE ~ made
    <3>1. UNCHANGED <<content, hist>>
      BY <1>3, <2>2
    <3> QED BY <3>1 DEF InodesHold, SoleWriter
  <2> QED BY <2>1, <2>2
<1>15. ObjectsWhole'
  <2> SUFFICES ASSUME Buffered, NEW p \in DOMAIN store'
               PROVE  LET g == store'[p] IN
                      /\ g \in DOMAIN hist' /\ hist'[g].closed
                      /\ g \in DOMAIN content' /\ content'[g] = Chunks(g, hist'[g].n)
    BY DEF ObjectsWhole, Buffered
  <2>1. \A q \in DOMAIN store :
            /\ store[q] \in DOMAIN hist /\ hist[store[q]].closed
            /\ store[q] \in DOMAIN content
            /\ content[store[q]] = Chunks(store[q], hist[store[q]].n)
            /\ store[q] # h /\ store[q] \in DOMAIN hist' /\ hist'[store[q]] = hist[store[q]]
    BY <1>2, <1>9 DEF ObjectsWhole
  <2>2. CASE /\ made /\ unreadable
             /\ store' = Put(store, path, h) /\ content' = Put(content, h, Chunks(h, 0))
    <3>1. store' = Put(store, path, h) /\ content' = Put(content, h, Chunks(h, 0))
      BY <2>2
    <3>2. CASE p = path
      <4>1. store'[p] = h /\ h \in DOMAIN content' /\ content'[h] = Chunks(h, 0)
        BY <3>1, <3>2 DEF Put
      <4>2. h \in DOMAIN hist' /\ hist'[h].closed /\ hist'[h].n = 0
        BY <1>7, <1>9, <2>2
      <4> QED BY <4>1, <4>2
    <3>3. CASE p # path
      <4>1. p \in DOMAIN store /\ store'[p] = store[p]
        BY <3>1, <3>3 DEF Put
      <4> DEFINE g == store[p]
      <4>2. /\ g # h /\ g \in DOMAIN hist' /\ hist'[g] = hist[g] /\ hist[g].closed
            /\ g \in DOMAIN content /\ content[g] = Chunks(g, hist[g].n)
        BY <2>1, <4>1
      <4> HIDE DEF g
      <4>3. content'[g] = content[g] /\ g \in DOMAIN content'
        BY <3>1, <4>2 DEF Put
      <4> QED BY <4>1, <4>2, <4>3 DEF g
    <3> QED BY <3>2, <3>3
  <2>3. CASE UNCHANGED <<store, content>>
    BY <2>1, <2>3
  <2>4. CASE made /\ unreadable
    BY <1>3, <2>2, <2>3, <2>4 DEF WriterClose
  <2>5. CASE ~ (made /\ unreadable)
    BY <1>3, <2>3, <2>5 DEF Create
  <2> QED BY <2>4, <2>5
<1>16. AllAcked'
  <2> SUFFICES ASSUME Buffered, NEW g \in DOMAIN hist' PROVE hist'[g].acked = 1..hist'[g].n
    BY DEF AllAcked, Buffered
  <2>1. CASE g \in DOMAIN hist
    BY <1>9, <2>1 DEF AllAcked
  <2>2. CASE g \notin DOMAIN hist
    <3>1. hist'[g] = r /\ 1..0 = {}
      BY <1>9, <2>2
    <3> QED BY <1>7, <3>1
  <2> QED BY <2>1, <2>2
<1>17. AtTheEnd'
  <2> SUFFICES ASSUME ~ Buffered, NEW t \in Sessions, NEW g \in DOMAIN handles'[t],
                      g \in DOMAIN hist', SoleWriter(g)'
               PROVE  handles'[t][g].written = Len(content'[hist'[g].blob])
    BY DEF AtTheEnd, Buffered
  <2>1. CASE g = h
    <3>1. made /\ hist'[g].blob = blob
      BY <1>2, <1>7, <1>9, <2>1
    <3>2. content' = Put(content, blob, <<>>)
      BY <1>3, <1>4, <3>1 DEF Create
    <3>3. content'[blob] = <<>> /\ Len(<<>>) = 0
      BY <3>2 DEF Put
    <3>4. handles'[t][g] = o
      BY <1>2, <1>11, <2>1
    <3> QED BY <1>6, <3>1, <3>3, <3>4
  <2>2. CASE g # h
    <3>1. /\ g \in DOMAIN handles[t] /\ handles'[t][g] = handles[t][g]
          /\ g \in DOMAIN hist /\ hist'[g] = hist[g]
      BY <1>9, <1>11, <2>2
    <3>2. SoleWriter(g)
      BY <1>9, <3>1 DEF SoleWriter
    <3>3. hist[g].blob \in DOMAIN content /\ handles[t][g].written = Len(content[hist[g].blob])
      BY <3>1, <3>2 DEF InodesHold, AtTheEnd
    <3>4. content'[hist[g].blob] = content[hist[g].blob]
      <4>1. CASE made
        <5>1. content' = Put(content, blob, <<>>)
          BY <1>3, <1>4, <4>1 DEF Create
        <5>2. h \in DOMAIN hist' /\ hist'[h].blob = blob
          BY <1>7, <1>9, <4>1
        <5>3. hist[g].blob # blob
          BY <2>2, <3>1, <5>2 DEF SoleWriter
        <5> QED BY <3>3, <5>1, <5>3 DEF Put
      <4>2. CASE ~ made
        BY <1>3, <4>2
      <4> QED BY <4>1, <4>2
    <3> QED BY <3>1, <3>3, <3>4
  <2> QED BY <2>1, <2>2
<1> QED BY <1>10, <1>12, <1>13, <1>14, <1>15, <1>16, <1>17

\* The end of a session drops its table.
LEMMA EndKeeps ==
    ASSUME SftpInv, NEW s \in Sessions, EndSession(s), UNCHANGED driver
    PROVE  TableInv'
<1> USE DEF SftpInv, TableInv
<1>1. Releases
  BY DEF EndSession, QueueInv, QueueShapes, Idle, Releases
<1>2. /\ DOMAIN handles' = Sessions /\ handles'[s] = << >>
      /\ \A t \in Sessions \ {s} : handles'[t] = handles[t]
      /\ UNCHANGED <<store, content, hist, reqID>>
  BY DEF EndSession, TableShapes
<1>3. DOMAIN handles'[s] = {}
  <2>1. DOMAIN << >> = {}
    OBVIOUS
  <2> QED BY <1>2, <2>1
<1>4. Apart'
  BY <1>1, <1>2, <1>3, ApartKept
<1>5. TableShapes' /\ WritersKnown' /\ AllAcked'
  BY <1>2, <1>3 DEF TableShapes, WritersKnown, AllAcked, Buffered
<1>6. InodesHold' /\ AtTheEnd' /\ ObjectsWhole'
  BY <1>2, <1>3 DEF InodesHold, AtTheEnd, ObjectsWhole, SoleWriter, Buffered
<1> QED BY <1>4, <1>5, <1>6

\* The handle taken for an OPEN has not been given out before.
LEMMA AskKeeps ==
    ASSUME SftpInv, NEW s \in Sessions, AskExists(s), UNCHANGED driver
    PROVE  TableInv'
<1> USE DEF SftpInv, TableInv
<1> DEFINE h == reqID + 1
<1>1. /\ reqID \in Nat /\ UNCHANGED fs /\ reqID' = h
      /\ DOMAIN cur' = Sessions /\ cur'[s].h = h
      /\ \A t \in Sessions \ {s} : cur'[t] = cur[t]
  BY DEF AskExists, nextHandle, TableShapes, QueueInv, QueueShapes
<1>2. h \in Nat /\ h \notin 0..reqID /\ 0..reqID \subseteq 0..h /\ 1..reqID \subseteq 1..h /\ h \in 0..h
      /\ 1..reqID \subseteq 0..reqID
  BY <1>1
<1> HIDE DEF h
<1>3. /\ h \notin DOMAIN hist
      /\ \A t \in Sessions : h \notin DOMAIN handles[t] /\ cur[t].h # h
  BY <1>2 DEF Apart
<1>4. /\ DOMAIN hist' \subseteq 1..reqID'
      /\ \A t \in Sessions : DOMAIN handles'[t] \subseteq 1..reqID' /\ cur'[t].h \in 0..reqID'
      /\ \A t, u \in Sessions : t # u => DOMAIN handles'[t] \cap DOMAIN handles'[u] = {}
  BY <1>1, <1>2 DEF Apart, fs
<1>5. ASSUME NEW t \in Sessions, cur'[t].h # None
      PROVE  /\ cur'[t].h \notin DOMAIN hist'
             /\ \A u \in Sessions : /\ cur'[t].h \notin DOMAIN handles'[u]
                                    /\ u # t => cur'[u].h # cur'[t].h
  <2>1. UNCHANGED <<hist, handles>>
    BY <1>1 DEF fs
  <2>2. CASE t = s
    BY <1>1, <1>3, <2>1, <2>2
  <2>3. CASE t # s
    <3>1. /\ cur[t].h \notin DOMAIN hist
          /\ \A u \in Sessions : cur[t].h \notin DOMAIN handles[u]
          /\ \A u \in Sessions : u # t => cur[u].h # cur[t].h
      BY <1>1, <1>5, <2>3, TakenIsNew
    <3>2. cur'[t] = cur[t] /\ cur'[s].h # cur'[t].h
      BY <1>1, <1>3, <2>3
    <3> QED BY <1>1, <2>1, <3>1, <3>2
  <2> QED BY <2>2, <2>3
<1>6. Apart'
  BY <1>4, <1>5 DEF Apart
<1>7. TableShapes' /\ WritersKnown' /\ AllAcked' /\ ObjectsWhole'
  BY <1>1, <1>2 DEF TableShapes, WritersKnown, AllAcked, ObjectsWhole, Buffered, fs
<1>8. InodesHold' /\ AtTheEnd'
  BY <1>1 DEF InodesHold, AtTheEnd, SoleWriter, Buffered, fs
<1> QED BY <1>6, <1>7, <1>8

\* REMOVE, RMDIR, MKDIR and RENAME move names; with S3Storage the clients send no
\* request about directories.
LEMMA NamesKeep ==
    ASSUME SftpInv, NEW s \in Sessions, UNCHANGED driver,
           handleRemove(s) \/ handleRmdir(s) \/ handleMkdir(s) \/ handleRename(s)
    PROVE  TableInv'
<1> USE DEF SftpInv, TableInv
<1>1. Releases /\ inbox[s] # <<>>
  <2>1. inbox[s] # <<>> /\ UNCHANGED reqID /\ \E id, code, val : Reply(s, id, code, val)
    BY DEF handleRemove, handleRmdir, handleMkdir, handleRename, Delete, Mkdir, Rename,
           OK, Failure, sendStatus, Served
  <2> QED BY <2>1, ReplyReleases
<1>2. CASE UNCHANGED fs
  BY <1>1, <1>2, TablesStay
<1>3. CASE handleRemove(s) \/ handleRmdir(s)
  <2>1. PICK path : store' = Without(store, {path}) /\ UNCHANGED <<content, handles, hist>>
    BY <1>3 DEF handleRemove, handleRmdir, Delete
  <2>2. \A p \in DOMAIN store' : p \in DOMAIN store /\ store'[p] = store[p]
    BY <2>1 DEF Without
  <2> QED BY <1>1, <2>1, <2>2, NamesMove
<1>4. ASSUME handleMkdir(s) \/ handleRename(s), ~ UNCHANGED fs PROVE TableInv'
  <2>1. UNCHANGED <<content, handles, hist>>
    BY <1>4 DEF handleMkdir, handleRename, Mkdir, Rename
  <2>2. ~ Buffered
    <3>1. Len(inbox[s]) \in Nat \ {0} /\ Head(inbox[s]) = inbox[s][1]
      <4>1. IsSeq(inbox[s])
        BY DEF QueueInv, QueueShapes
      <4> QED BY <1>1, <4>1, TailIs
    <3>2. inbox[s][1].pkt.type \in DirTypes
      BY <1>4, <3>1 DEF handleMkdir, handleRename, Served, Pkt, DirTypes
    <3> QED BY <3>1, <3>2 DEF NoDirectories, QueueInv
  <2> QED BY <1>1, <2>1, <2>2, NamesMove
<1> QED BY <1>2, <1>3, <1>4

\* Every step keeps the tables.
LEMMA TableStep ==
    ASSUME SftpInv, NEW s \in Sessions, UNCHANGED driver,
           Request(s) \/ Receive(s) \/ EndSession(s) \/ dispatch(s)
    PROVE  TableInv'
<1>a. DOMAIN cur = Sessions /\ TableInv
  BY DEF SftpInv, QueueInv, QueueShapes
<1>1. CASE Request(s) \/ Receive(s)
  <2>1. UNCHANGED <<store, content, handles, hist, reqID, cur>>
    BY <1>1 DEF Request, Send, Receive
  <2>2. Releases /\ UNCHANGED fs
    BY <1>a, <2>1 DEF Releases, fs
  <2> QED BY <1>a, <2>2, TablesStay
<1>2. CASE handleRead(s) \/ handleFStat(s) \/ handleSetStat(s) \/ handleRealPath(s)
           \/ handleStat(s) \/ handleInit(s) \/ unserved(s)
  <2>1. UNCHANGED <<fs, reqID>> /\ \E id, code, val : Reply(s, id, code, val)
    BY <1>2 DEF handleRead, handleFStat, handleSetStat, handleRealPath, handleStat, handleInit,
                unserved, ReadFile, FStat, SetStat, Stat, OK, Failure, SendRead, sendData,
                sendAttrs, sendName, sendStatus
  <2>2. Releases
    BY <2>1, ReplyReleases DEF SftpInv
  <2> QED BY <1>a, <2>1, <2>2, TablesStay
<1>3. CASE tooLarge(s) \/ drift(s) \/ misread(s)
  <2>1. UNCHANGED <<fs, reqID>> /\ \E c \in {Idle, Adrift} : cur' = [cur EXCEPT ![s] = c]
    BY <1>3 DEF tooLarge, drift, misread
  <2>2. Releases
    BY <1>a, <2>1 DEF Releases, Idle, Adrift
  <2> QED BY <1>a, <2>1, <2>2, TablesStay
<1> QED BY <1>1, <1>2, <1>3, AskKeeps, OpenKeeps, OpenDirKeeps, CloseKeeps, WriteKeeps,
           ReadDirKeeps, NamesKeep, EndKeeps DEF dispatch

LEMMA SftpInitially == SftpInit => SftpInv
<1> SUFFICES ASSUME SftpInit PROVE SftpInv
  OBVIOUS
<1>1. IsSeq(<<>>) /\ DOMAIN << >> = {} /\ Idle.h = None
  BY DEF IsSeq, Idle
<1>2. \A s \in Sessions : /\ inbox[s] = <<>> /\ outbox[s] = <<>> /\ due[s] = <<>>
                          /\ cur[s] = Idle /\ handles[s] = << >>
  BY DEF SftpInit
<1>3. QueueInv
  <2>1. Len(<<>>) = 0
    OBVIOUS
  <2> QED BY <1>1, <1>2, <2>1 DEF SftpInit, QueueInv, QueueShapes, Taken, NoDirectories
<1>4. TableInv
  <2>1. /\ hist = << >> /\ store = << >> /\ reqID = 0 /\ DOMAIN handles = Sessions
        /\ DOMAIN hist = {} /\ DOMAIN store = {}
        /\ \A s \in Sessions : DOMAIN handles[s] = {} /\ cur[s].h = 0
    BY <1>1, <1>2 DEF SftpInit, None
  <2> QED BY <2>1 DEF TableInv, TableShapes, Apart, WritersKnown, AllAcked, InodesHold, AtTheEnd,
                     ObjectsWhole, None
<1> QED BY <1>3, <1>4 DEF SftpInv

LEMMA SftpStep == SftpInv /\ [SftpNext]_sftpVars => SftpInv'
<1>1. ASSUME SftpInv, SftpNext PROVE SftpInv'
  <2>1. PICK s \in Sessions : Request(s) \/ Receive(s) \/ EndSession(s) \/ dispatch(s)
    BY <1>1 DEF SftpNext
  <2>2. UNCHANGED driver
    BY <1>1 DEF SftpNext
  <2> QED BY <1>1, <2>1, <2>2, QueueStep, TableStep DEF SftpInv
<1>2. ASSUME SftpInv, UNCHANGED sftpVars PROVE SftpInv'
  BY <1>2 DEF SftpInv, sftpVars, QueueInv, QueueShapes, Taken, NoDirectories, Pkt, TableInv,
              TableShapes, Apart, WritersKnown, AllAcked, InodesHold, AtTheEnd, ObjectsWhole,
              SoleWriter, Buffered
<1> QED BY <1>1, <1>2

\* AckedIsStored: for every set of sessions and paths, and any number of requests, the
\* writes answered OK through a handle are whole in the file that was opened for it, in
\* their order, if no other OPEN took the same file; besides there are only parts of its
\* writes answered FAILURE, each in its place.
THEOREM AckedWritesAreStored == SftpSpec => []AckedIsStored
<1>1. SftpInv => AckedIsStored
  BY DEF SftpInv, TableInv, InodesHold, AckedIsStored, Ordered
<1> QED BY <1>1, SftpInitially, SftpStep, PTL DEF SftpSpec

\* WholeUploads: with S3Storage an object is the whole of one handle's acknowledged
\* writes, whatever the sessions do, whichever puts fail and wherever sessions end.
THEOREM ObjectsAreWholeUploads == SftpSpec => []WholeUploads
<1>1. SftpInv => WholeUploads
  BY DEF SftpInv, TableInv, AllAcked, ObjectsWhole, WholeUploads
<1> QED BY <1>1, SftpInitially, SftpStep, PTL DEF SftpSpec

------------------------------------------------------------------------------
(* The rows of open handles.                                                *)

\* No step gives a handle's row another path, reader or writer, or sets its position back.
LEMMA RowsStay ==
    ASSUME SftpInv, NEW s \in Sessions,
           Request(s) \/ Receive(s) \/ EndSession(s) \/ dispatch(s),
           NEW t \in Sessions, NEW g \in DOMAIN handles[t] \cap DOMAIN handles'[t]
    PROVE  /\ handles'[t][g].path = handles[t][g].path
           /\ handles'[t][g].reader = handles[t][g].reader
           /\ handles'[t][g].writer = handles[t][g].writer
           /\ handles'[t][g].written >= handles[t][g].written
<1> DEFINE Kept == /\ handles'[t][g].path = handles[t][g].path
                   /\ handles'[t][g].reader = handles[t][g].reader
                   /\ handles'[t][g].writer = handles[t][g].writer
                   /\ handles'[t][g].written >= handles[t][g].written
<1>1. handles[t][g].written \in Nat /\ IsHandle(handles[t][g]) /\ DOMAIN handles = Sessions
  BY DEF SftpInv, TableInv, TableShapes, IsHandle
<1>2. ASSUME handles'[t][g] = handles[t][g] PROVE Kept
  BY <1>1, <1>2
<1>3. CASE handleOpen(s) \/ handleOpenDir(s)
  <2>1. g # cur[s].h
    BY <1>3, TakenIsNew DEF SftpInv, TableInv, handleOpen, handleOpenDir, Holds
  <2>2. UNCHANGED handles \/ \E o : handles' = [handles EXCEPT ![s] = Put(@, cur[s].h, o)]
    BY <1>3 DEF handleOpen, handleOpenDir, OpenFile, OpenDir, fs
  <2>3. handles'[t][g] = handles[t][g]
    BY <1>1, <2>1, <2>2 DEF Put
  <2> QED BY <1>2, <2>3
<1>4. CASE handleClose(s) \/ EndSession(s)
  <2>1. UNCHANGED handles \/ \E T : handles' = [handles EXCEPT ![s] = T] /\ (T = << >> \/ \E h : T = Without(handles[s], {h}))
    BY <1>4 DEF handleClose, CloseFile, EndSession, fs
  <2>2. handles'[t][g] = handles[t][g]
    <3>1. g \in DOMAIN handles'[t] /\ DOMAIN << >> = {}
      OBVIOUS
    <3> QED BY <1>1, <2>1, <3>1 DEF Without
  <2> QED BY <1>2, <2>2
<1>5. CASE handleWrite(s) \/ handleReadDir(s)
  <2>1. \/ UNCHANGED handles
        \/ \E h : h \in DOMAIN handles[s] /\ handles' = [handles EXCEPT ![s][h].written = @ + 1]
        \/ \E h : h \in DOMAIN handles[s] /\ handles' = [handles EXCEPT ![s][h].dirList = {}]
    BY <1>5 DEF handleWrite, handleReadDir, WriteFile, HasWriter, Tried, ReadDir, fs
  <2> DEFINE o == handles[t][g]
  <2>2. \/ handles'[t][g] = o
        \/ handles'[t][g] = [o EXCEPT !.written = o.written + 1]
        \/ handles'[t][g] = [o EXCEPT !.dirList = {}]
    <3>1. CASE t # s
      BY <1>1, <2>1, <3>1
    <3>2. ASSUME t = s, NEW h \in DOMAIN handles[s],
                 \/ handles' = [handles EXCEPT ![s][h].written = @ + 1]
                 \/ handles' = [handles EXCEPT ![s][h].dirList = {}]
          PROVE  \/ handles'[t][g] = o
                 \/ handles'[t][g] = [o EXCEPT !.written = o.written + 1]
                 \/ handles'[t][g] = [o EXCEPT !.dirList = {}]
      <4>1. CASE h = g
        BY <1>1, <3>2, <4>1
      <4>2. CASE h # g
        BY <1>1, <3>2, <4>2
      <4> QED BY <4>1, <4>2
    <3> QED BY <2>1, <3>1, <3>2
  <2>3. IsHandle(o) /\ o.written \in Nat
    BY <1>1
  <2> HIDE DEF o
  <2>4. CASE handles'[t][g] = o
    BY <1>2, <2>4 DEF o
  <2>5. CASE handles'[t][g] = [o EXCEPT !.written = o.written + 1]
    <3> DEFINE x == o.written + 1
    <3>1. x \in Nat /\ x >= o.written /\ handles'[t][g] = [o EXCEPT !.written = x]
      BY <2>3, <2>5
    <3> HIDE DEF x
    <3>2. /\ handles'[t][g].path = o.path /\ handles'[t][g].reader = o.reader
          /\ handles'[t][g].writer = o.writer /\ handles'[t][g].written = x
      BY <2>3, <3>1, WrittenField
    <3> QED BY <3>1, <3>2 DEF o
  <2>6. CASE handles'[t][g] = [o EXCEPT !.dirList = {}]
    <3>1. /\ handles'[t][g].path = o.path /\ handles'[t][g].reader = o.reader
          /\ handles'[t][g].writer = o.writer /\ handles'[t][g].written = o.written
      BY <2>3, <2>6, ListField
    <3> QED BY <2>3, <3>1 DEF o
  <2> QED BY <2>2, <2>4, <2>5, <2>6
<1>6. CASE Request(s) \/ Receive(s) \/ AskExists(s) \/ tooLarge(s) \/ drift(s) \/ misread(s)
           \/ unserved(s) \/ handleRead(s) \/ handleFStat(s) \/ handleSetStat(s) \/ handleRealPath(s)
           \/ handleStat(s) \/ handleInit(s) \/ handleRemove(s) \/ handleRmdir(s)
           \/ handleMkdir(s) \/ handleRename(s)
  <2>1. UNCHANGED handles
    BY <1>6 DEF Request, Send, Receive, AskExists, tooLarge, drift, misread, unserved, handleRead,
                handleFStat, handleSetStat, handleRealPath, handleStat, handleInit,
                handleRemove, handleRmdir, handleMkdir, handleRename, ReadFile, FStat, SetStat,
                Stat, Delete, Mkdir, Rename, fs
  <2> QED BY <1>2, <2>1
<1> QED BY <1>3, <1>4, <1>5, <1>6 DEF dispatch

\* OpenRowKept: for every set of sessions and any packets, no OPEN is given the number of
\* an open handle, whose row keeps its path, reader and writer until its CLOSE or the
\* session's end.
THEOREM OpenRowsAreKept == SftpSpec => OpenRowKept
<1>1. SftpInv /\ [SftpNext]_sftpVars =>
          [\A s \in Sessions : \A h \in DOMAIN handles[s] \cap DOMAIN handles'[s] :
               /\ handles'[s][h].path = handles[s][h].path
               /\ handles'[s][h].reader = handles[s][h].reader
               /\ handles'[s][h].writer = handles[s][h].writer
               /\ handles'[s][h].written >= handles[s][h].written]_sftpVars
  <2>1. ASSUME SftpInv, SftpNext, NEW s \in Sessions,
               NEW h \in DOMAIN handles[s] \cap DOMAIN handles'[s]
        PROVE  /\ handles'[s][h].path = handles[s][h].path
               /\ handles'[s][h].reader = handles[s][h].reader
               /\ handles'[s][h].writer = handles[s][h].writer
               /\ handles'[s][h].written >= handles[s][h].written
    <3>1. PICK t \in Sessions : Request(t) \/ Receive(t) \/ EndSession(t) \/ dispatch(t)
      BY <2>1 DEF SftpNext
    <3> QED BY <2>1, <3>1, RowsStay
  <2> QED BY <2>1
<1> QED BY <1>1, SftpInitially, SftpStep, PTL DEF SftpSpec, OpenRowKept

------------------------------------------------------------------------------
(* The order of the answers.                                                *)

\* The packets that are turned down under request id 0, or passed over.
Astray == {"READLINK", "SYMLINK", "EXTENDED", "FSETSTAT", "LARGE"}

\* What is owed is what is answered and not received, then what is not served; ids
\* in flight are distinct, and no session goes adrift.
OrderInv ==
    \A s \in Sessions :
        /\ Len(due[s]) = Len(outbox[s]) + Len(inbox[s])
        /\ \A i \in 1..Len(outbox[s]) : due[s][i] = outbox[s][i].id
        /\ \A i \in 1..Len(inbox[s]) : due[s][Len(outbox[s]) + i] = inbox[s][i].id
        /\ \A i, j \in 1..Len(due[s]) : due[s][i] = due[s][j] => i = j
        /\ \A i \in 1..Len(inbox[s]) : inbox[s][i].pkt.type \notin Astray
        /\ cur[s] # Adrift

\* A step of one session leaves the order of the others.
LEMMA OrderOf ==
    ASSUME OrderInv, NEW s \in Sessions,
           \A t \in Sessions \ {s} : /\ inbox'[t] = inbox[t] /\ outbox'[t] = outbox[t]
                                     /\ cur'[t] = cur[t] /\ due'[t] = due[t],
           Len(due'[s]) = Len(outbox'[s]) + Len(inbox'[s]),
           \A i \in 1..Len(outbox'[s]) : due'[s][i] = outbox'[s][i].id,
           \A i \in 1..Len(inbox'[s]) : due'[s][Len(outbox'[s]) + i] = inbox'[s][i].id,
           \A i, j \in 1..Len(due'[s]) : due'[s][i] = due'[s][j] => i = j,
           \A i \in 1..Len(inbox'[s]) : inbox'[s][i].pkt.type \notin Astray,
           cur'[s] # Adrift
    PROVE  OrderInv'
<1> SUFFICES ASSUME NEW t \in Sessions
             PROVE  /\ Len(due'[t]) = Len(outbox'[t]) + Len(inbox'[t])
                    /\ \A i \in 1..Len(outbox'[t]) : due'[t][i] = outbox'[t][i].id
                    /\ \A i \in 1..Len(inbox'[t]) : due'[t][Len(outbox'[t]) + i] = inbox'[t][i].id
                    /\ \A i, j \in 1..Len(due'[t]) : due'[t][i] = due'[t][j] => i = j
                    /\ \A i \in 1..Len(inbox'[t]) : inbox'[t][i].pkt.type \notin Astray
                    /\ cur'[t] # Adrift
  BY DEF OrderInv
<1>1. CASE t = s
  BY <1>1
<1>2. CASE t # s
  <2>1. /\ inbox'[t] = inbox[t] /\ outbox'[t] = outbox[t]
        /\ cur'[t] = cur[t] /\ due'[t] = due[t]
    BY <1>2
  <2>2. /\ Len(due[t]) = Len(outbox[t]) + Len(inbox[t])
        /\ \A i \in 1..Len(outbox[t]) : due[t][i] = outbox[t][i].id
        /\ \A i \in 1..Len(inbox[t]) : due[t][Len(outbox[t]) + i] = inbox[t][i].id
        /\ \A i, j \in 1..Len(due[t]) : due[t][i] = due[t][j] => i = j
        /\ \A i \in 1..Len(inbox[t]) : inbox[t][i].pkt.type \notin Astray
        /\ cur[t] # Adrift
    BY DEF OrderInv
  <2> QED BY <2>1, <2>2
<1> QED BY <1>1, <1>2

\* A request is owed last.
LEMMA RequestOrder ==
    ASSUME QueueInv, OrderInv, Types \cap Astray = {}, NEW s \in Sessions, Request(s)
    PROVE  OrderInv'
<1>1. PICK t, pkt, id :
        /\ t \in Types /\ pkt \in PacketsOf(t)
        /\ \A i \in 1..Len(due[s]) : due[s][i] # id
        /\ due'   = [due EXCEPT ![s] = Append(@, id)]
        /\ inbox' = [inbox EXCEPT ![s] = Append(@, [id |-> id, pkt |-> pkt])]
        /\ UNCHANGED <<outbox, cur>>
  BY DEF Request, Send, Sent
<1> DEFINE m == [id |-> id, pkt |-> pkt]
           d == due[s]
           q == inbox[s]
           k == Len(outbox[s])
<1>2. m.id = id /\ m.pkt.type \notin Astray
  BY <1>1, PacketType
<1>3. /\ IsSeq(d) /\ IsSeq(q) /\ k \in Nat /\ Len(d) \in Nat /\ Len(q) \in Nat
      /\ due'[s] = Append(d, id) /\ inbox'[s] = Append(q, m)
      /\ outbox' = outbox /\ cur' = cur
      /\ \A u \in Sessions \ {s} : due'[u] = due[u] /\ inbox'[u] = inbox[u]
  BY <1>1 DEF QueueInv, QueueShapes, IsSeq
<1>4. /\ Len(d) = k + Len(q)
      /\ \A i \in 1..k : d[i] = outbox[s][i].id
      /\ \A i \in 1..Len(q) : d[k + i] = q[i].id
      /\ \A i, j \in 1..Len(d) : d[i] = d[j] => i = j
      /\ \A i \in 1..Len(q) : q[i].pkt.type \notin Astray
      /\ cur[s] # Adrift /\ \A i \in 1..Len(d) : d[i] # id
  BY <1>1 DEF OrderInv
<1> HIDE DEF m, d, q, k
<1>5. /\ Len(due'[s]) = Len(d) + 1 /\ due'[s][Len(d) + 1] = id
      /\ \A i \in 1..Len(d) : due'[s][i] = d[i]
  BY <1>3, AppendIs
<1>6. /\ Len(inbox'[s]) = Len(q) + 1 /\ inbox'[s][Len(q) + 1] = m
      /\ \A i \in 1..Len(q) : inbox'[s][i] = q[i]
  BY <1>3, AppendIs
<1>7. \A i \in 1..k : due'[s][i] = outbox[s][i].id
  BY <1>3, <1>4, <1>5
<1>8. \A i \in 1..(Len(q) + 1) : due'[s][k + i] = inbox'[s][i].id
  <2> SUFFICES ASSUME NEW i \in 1..(Len(q) + 1) PROVE due'[s][k + i] = inbox'[s][i].id
    OBVIOUS
  <2>1. CASE i = Len(q) + 1
    <3>1. k + i = Len(d) + 1
      BY <1>3, <1>4, <2>1
    <3> QED BY <1>2, <1>5, <1>6, <2>1, <3>1
  <2>2. CASE i # Len(q) + 1
    <3>1. i \in 1..Len(q) /\ k + i \in 1..Len(d)
      BY <1>3, <1>4, <2>2
    <3> QED BY <1>4, <1>5, <1>6, <3>1
  <2> QED BY <2>1, <2>2
<1>9. \A i, j \in 1..(Len(d) + 1) : due'[s][i] = due'[s][j] => i = j
  <2>1. \A i \in 1..(Len(d) + 1) : i \in 1..Len(d) \/ i = Len(d) + 1
    BY <1>3
  <2> QED BY <1>4, <1>5, <2>1
<1>10. \A i \in 1..(Len(q) + 1) : inbox'[s][i].pkt.type \notin Astray
  <2>1. \A i \in 1..(Len(q) + 1) : i \in 1..Len(q) \/ i = Len(q) + 1
    BY <1>3
  <2> QED BY <1>2, <1>4, <1>6, <2>1
<1>11. Len(due'[s]) = Len(outbox'[s]) + Len(inbox'[s])
  <2>1. Len(outbox'[s]) = k
    BY <1>3 DEF k
  <2> QED BY <1>3, <1>4, <1>5, <1>6, <2>1
<1>12. /\ \A i \in 1..Len(outbox'[s]) : due'[s][i] = outbox'[s][i].id
       /\ \A i \in 1..Len(inbox'[s]) : due'[s][Len(outbox'[s]) + i] = inbox'[s][i].id
       /\ \A i, j \in 1..Len(due'[s]) : due'[s][i] = due'[s][j] => i = j
       /\ \A i \in 1..Len(inbox'[s]) : inbox'[s][i].pkt.type \notin Astray
  BY <1>3, <1>5, <1>6, <1>7, <1>8, <1>9, <1>10 DEF k
<1> QED BY <1>3, <1>4, <1>11, <1>12, OrderOf

\* An answer is owed as the request was.
LEMMA AnswerOrder ==
    ASSUME QueueInv, OrderInv, NEW s \in Sessions, Answers(s)
    PROVE  OrderInv'
<1> DEFINE d == due[s]
           q == inbox[s]
           o == outbox[s]
<1>1. PICK code, val : Reply(s, Id(s), code, val)
  BY DEF Answers
<1> DEFINE m == [id |-> Id(s), code |-> code, val |-> val]
<1>2. /\ IsSeq(o) /\ IsSeq(q) /\ Len(o) \in Nat /\ Len(d) \in Nat /\ q # <<>>
      /\ inbox'[s] = Tail(q) /\ outbox'[s] = Append(o, m) /\ due' = due
      /\ cur'[s] = Idle /\ m.id = Head(q).id
      /\ \A t \in Sessions \ {s} : /\ inbox'[t] = inbox[t] /\ outbox'[t] = outbox[t]
                                   /\ cur'[t] = cur[t]
  BY <1>1 DEF QueueInv, QueueShapes, IsSeq, Answers, Reply, Id
<1>3. /\ Len(d) = Len(o) + Len(q)
      /\ \A i \in 1..Len(o) : d[i] = o[i].id
      /\ \A i \in 1..Len(q) : d[Len(o) + i] = q[i].id
      /\ \A i, j \in 1..Len(d) : d[i] = d[j] => i = j
      /\ \A i \in 1..Len(q) : q[i].pkt.type \notin Astray
  BY DEF OrderInv
<1>4. Idle # Adrift
  BY DEF Idle, Adrift
<1> HIDE DEF m, d, q, o
<1>5. /\ Len(outbox'[s]) = Len(o) + 1 /\ outbox'[s][Len(o) + 1] = m
      /\ \A i \in 1..Len(o) : outbox'[s][i] = o[i]
  BY <1>2, AppendIs
<1>6. /\ Len(q) \in Nat \ {0} /\ Head(q) = q[1] /\ Len(inbox'[s]) = Len(q) - 1
      /\ \A i \in 1..(Len(q) - 1) : inbox'[s][i] = q[i + 1]
  BY <1>2, TailIs
<1>7. \A i \in 1..(Len(o) + 1) : d[i] = outbox'[s][i].id
  <2>1. \A i \in 1..(Len(o) + 1) : i \in 1..Len(o) \/ i = Len(o) + 1
    BY <1>2
  <2>2. d[Len(o) + 1] = m.id
    <3>1. 1 \in 1..Len(q)
      BY <1>6
    <3> QED BY <1>2, <1>3, <1>6, <3>1
  <2> QED BY <1>3, <1>5, <2>1, <2>2
<1>8. \A i \in 1..(Len(q) - 1) : /\ i + 1 \in 1..Len(q)
                                 /\ Len(o) + (i + 1) = (Len(o) + 1) + i
  BY <1>2, <1>6
<1>9. \A i \in 1..(Len(q) - 1) : d[(Len(o) + 1) + i] = inbox'[s][i].id
  BY <1>3, <1>6, <1>8
<1>10. \A i \in 1..(Len(q) - 1) : inbox'[s][i].pkt.type \notin Astray
  BY <1>3, <1>6, <1>8
<1>11. /\ due'[s] = d /\ Len(outbox'[s]) + Len(inbox'[s]) = Len(d)
  BY <1>2, <1>3, <1>5, <1>6 DEF d
<1>12. /\ \A i \in 1..Len(outbox'[s]) : due'[s][i] = outbox'[s][i].id
       /\ \A i \in 1..Len(inbox'[s]) : due'[s][Len(outbox'[s]) + i] = inbox'[s][i].id
       /\ \A i, j \in 1..Len(due'[s]) : due'[s][i] = due'[s][j] => i = j
       /\ \A i \in 1..Len(inbox'[s]) : inbox'[s][i].pkt.type \notin Astray
  BY <1>3, <1>5, <1>6, <1>7, <1>9, <1>10, <1>11
<1>13. cur'[s] # Adrift
  BY <1>2, <1>4
<1> QED BY <1>2, <1>11, <1>12, <1>13, OrderOf

\* What is received is what was owed first.
LEMMA ReceiveOrder ==
    ASSUME QueueInv, OrderInv, NEW s \in Sessions, Receive(s)
    PROVE  OrderInv'
<1> DEFINE d == due[s]
           q == inbox[s]
           o == outbox[s]
           answered == {i \in 1..Len(d) : d[i] = Head(o).id}
<1>1. /\ IsSeq(o) /\ IsSeq(d) /\ Len(q) \in Nat /\ Len(d) \in Nat /\ o # <<>>
      /\ outbox'[s] = Tail(o) /\ inbox' = inbox /\ cur' = cur
      /\ DOMAIN due = Sessions
      /\ \A t \in Sessions \ {s} : outbox'[t] = outbox[t]
  BY DEF QueueInv, QueueShapes, IsSeq, Receive
<1>2. /\ Len(d) = Len(o) + Len(q)
      /\ \A i \in 1..Len(o) : d[i] = o[i].id
      /\ \A i \in 1..Len(q) : d[Len(o) + i] = q[i].id
      /\ \A i, j \in 1..Len(d) : d[i] = d[j] => i = j
      /\ \A i \in 1..Len(q) : q[i].pkt.type \notin Astray
      /\ cur[s] # Adrift
  BY DEF OrderInv
<1>3. \/ answered = {} /\ UNCHANGED due
      \/ \E i \in answered : due' = [due EXCEPT ![s] = DropAt(@, i)]
  BY DEF Receive
<1> HIDE DEF q, o
<1>4. /\ Len(o) \in Nat \ {0} /\ Head(o) = o[1] /\ Len(outbox'[s]) = Len(o) - 1
      /\ \A i \in 1..(Len(o) - 1) : outbox'[s][i] = o[i + 1]
  BY <1>1, TailIs
<1>5. answered = {1}
  <2> HIDE DEF d
  <2>1. 1 \in 1..Len(o) /\ 1 \in 1..Len(d)
    BY <1>1, <1>2, <1>4
  <2>2. d[1] = Head(o).id
    BY <1>2, <1>4, <2>1
  <2> QED BY <1>2, <2>1, <2>2
<1> HIDE DEF answered
<1>6. due'[s] = DropAt(d, 1) /\ \A t \in Sessions \ {s} : due'[t] = due[t]
  BY <1>1, <1>3, <1>5
<1> HIDE DEF d
<1>7. Len(d) - 1 \in Nat
  BY <1>1, <1>2, <1>4
<1>8. Len(due'[s]) = Len(d) - 1 /\ \A i \in 1..(Len(d) - 1) : due'[s][i] = d[i + 1]
  BY <1>6, <1>7 DEF DropAt
<1>9. /\ \A i \in 1..(Len(d) - 1) : i + 1 \in 1..Len(d)
      /\ \A i \in 1..(Len(o) - 1) : i + 1 \in 1..Len(o) /\ i \in 1..(Len(d) - 1)
      /\ \A i \in 1..Len(q) : /\ (Len(o) - 1) + i \in 1..(Len(d) - 1)
                              /\ ((Len(o) - 1) + i) + 1 = Len(o) + i
      /\ Len(d) - 1 = (Len(o) - 1) + Len(q)
  BY <1>1, <1>2, <1>4
<1>10. \A i \in 1..(Len(o) - 1) : due'[s][i] = outbox'[s][i].id
  BY <1>2, <1>4, <1>8, <1>9
<1>11. \A i \in 1..Len(q) : due'[s][(Len(o) - 1) + i] = q[i].id
  BY <1>2, <1>8, <1>9
<1>12. \A i, j \in 1..(Len(d) - 1) : due'[s][i] = due'[s][j] => i = j
  <2> SUFFICES ASSUME NEW i \in 1..(Len(d) - 1), NEW j \in 1..(Len(d) - 1),
                      due'[s][i] = due'[s][j]
               PROVE  i = j
    OBVIOUS
  <2>1. d[i + 1] = d[j + 1] /\ i + 1 \in 1..Len(d) /\ j + 1 \in 1..Len(d)
    BY <1>8, <1>9
  <2>2. i + 1 = j + 1
    BY <1>2, <2>1
  <2> QED BY <2>2
<1>13. inbox'[s] = q /\ cur'[s] # Adrift
  BY <1>1, <1>2 DEF q
<1>14. /\ Len(due'[s]) = Len(outbox'[s]) + Len(inbox'[s])
       /\ \A i \in 1..Len(outbox'[s]) : due'[s][i] = outbox'[s][i].id
       /\ \A i \in 1..Len(inbox'[s]) : due'[s][Len(outbox'[s]) + i] = inbox'[s][i].id
       /\ \A i, j \in 1..Len(due'[s]) : due'[s][i] = due'[s][j] => i = j
       /\ \A i \in 1..Len(inbox'[s]) : inbox'[s][i].pkt.type \notin Astray
  BY <1>2, <1>4, <1>8, <1>9, <1>10, <1>11, <1>12, <1>13
<1>15. \A t \in Sessions \ {s} : /\ inbox'[t] = inbox[t] /\ outbox'[t] = outbox[t]
                                 /\ cur'[t] = cur[t] /\ due'[t] = due[t]
  BY <1>1, <1>6
<1> QED BY <1>13, <1>14, <1>15, OrderOf

\* Every step keeps the order, where no packet is turned down.
LEMMA OrderStep ==
    ASSUME Types \cap Astray = {}, SftpInv, OrderInv, [SftpNext]_sftpVars
    PROVE  OrderInv'
<1>1. CASE UNCHANGED sftpVars
  BY <1>1 DEF OrderInv, sftpVars
<1>2. CASE SftpNext
  <2>1. PICK s \in Sessions : Request(s) \/ Receive(s) \/ EndSession(s) \/ dispatch(s)
    BY <1>2 DEF SftpNext
  <2>2. QueueInv
    BY DEF SftpInv
  <2>3. CASE EndSession(s)
    <3>1. /\ inbox'[s] = <<>> /\ outbox'[s] = <<>> /\ due'[s] = <<>> /\ cur'[s] = Idle
          /\ \A t \in Sessions \ {s} : /\ inbox'[t] = inbox[t] /\ outbox'[t] = outbox[t]
                                       /\ cur'[t] = cur[t] /\ due'[t] = due[t]
      BY <2>2, <2>3 DEF EndSession, QueueInv, QueueShapes
    <3>2. Len(<<>>) = 0 /\ 1..0 = {} /\ Idle # Adrift /\ 0 + 0 = 0
      BY DEF Idle, Adrift
    <3> QED BY <3>1, <3>2, OrderOf
  <2>4. CASE AskExists(s)
    <3>1. /\ UNCHANGED <<inbox, outbox, due>> /\ cur'[s].h = reqID + 1 /\ reqID \in Nat
          /\ \A t \in Sessions \ {s} : cur'[t] = cur[t]
      BY <2>2, <2>4 DEF AskExists, nextHandle, QueueInv, QueueShapes, SftpInv, TableInv, TableShapes
    <3>2. Adrift.h = 0 /\ cur'[s] # Adrift
      BY <3>1 DEF Adrift, None
    <3>3. \A t \in Sessions : cur[t] # Adrift
      BY DEF OrderInv
    <3>4. \A t \in Sessions : cur'[t] # Adrift
      BY <3>1, <3>2, <3>3
    <3> QED BY <3>1, <3>4 DEF OrderInv
  <2>5. ~ drift(s) /\ ~ misread(s) /\ (inbox[s] # <<>> => Pkt(s).type \notin Astray)
    <3>1. ~ drift(s) /\ ~ misread(s)
      BY DEF drift, misread, OrderInv
    <3>2. ASSUME inbox[s] # <<>> PROVE Pkt(s).type \notin Astray
      <4>1. IsSeq(inbox[s])
        BY <2>2 DEF QueueInv, QueueShapes
      <4>2. Head(inbox[s]) = inbox[s][1] /\ 1 \in 1..Len(inbox[s])
        BY <3>2, <4>1, TailIs
      <4> QED BY <4>2 DEF OrderInv, Pkt
    <3> QED BY <3>1, <3>2
  <2>6. ~ unserved(s) /\ ~ tooLarge(s)
    BY <2>5 DEF unserved, tooLarge, Served, Astray
  <2> QED BY <2>1, <2>2, <2>3, <2>4, <2>5, <2>6, Dispatched, RequestOrder, ReceiveOrder,
             AnswerOrder
<1> QED BY <1>1, <1>2

\* What is owed is the two queues, one after the other.
LEMMA OrderMeans == SftpInv /\ OrderInv => AnsweredInOrder
<1> SUFFICES ASSUME SftpInv, OrderInv, NEW s \in Sessions
             PROVE  due[s] = Ids(outbox[s]) \o Ids(inbox[s])
  BY DEF AnsweredInOrder
<1> DEFINE d == due[s]
           q == inbox[s]
           o == outbox[s]
           S == {q[i].id : i \in 1..Len(q)} \cup {o[i].id : i \in 1..Len(o)}
<1>1. IsSeq(d) /\ Len(d) \in Nat /\ Len(o) \in Nat /\ Len(q) \in Nat
  BY DEF SftpInv, QueueInv, QueueShapes, IsSeq
<1>2. /\ Len(d) = Len(o) + Len(q)
      /\ \A i \in 1..Len(o) : d[i] = o[i].id
      /\ \A i \in 1..Len(q) : d[Len(o) + i] = q[i].id
  BY DEF OrderInv
<1>3. /\ \A i \in 1..Len(q) : q[i].id \in S
      /\ \A i \in 1..Len(o) : o[i].id \in S
  OBVIOUS
<1> HIDE DEF d, q, o, S
<1>4. /\ Ids(o) \in Seq(S) /\ Len(Ids(o)) = Len(o) /\ \A i \in 1..Len(o) : Ids(o)[i] = o[i].id
      /\ Ids(q) \in Seq(S) /\ Len(Ids(q)) = Len(q) /\ \A i \in 1..Len(q) : Ids(q)[i] = q[i].id
  BY <1>1, <1>3 DEF Ids
<1> DEFINE c == Ids(o) \o Ids(q)
<1>5. /\ c \in Seq(S) /\ Len(c) = Len(o) + Len(q)
      /\ \A i \in 1..(Len(o) + Len(q)) :
             c[i] = IF i <= Len(o) THEN Ids(o)[i] ELSE Ids(q)[i - Len(o)]
  <2> DEFINE a == Ids(o)
             b == Ids(q)
  <2>1. a \in Seq(S) /\ b \in Seq(S) /\ Len(a) = Len(o) /\ Len(b) = Len(q)
    BY <1>4
  <2> HIDE DEF a, b
  <2>2. /\ a \o b \in Seq(S) /\ Len(a \o b) = Len(a) + Len(b)
        /\ \A i \in 1..(Len(a) + Len(b)) : (a \o b)[i] = IF i <= Len(a) THEN a[i] ELSE b[i - Len(a)]
    BY <2>1, ConcatProperties
  <2>3. /\ a \o b \in Seq(S) /\ Len(a \o b) = Len(o) + Len(q)
        /\ \A i \in 1..(Len(o) + Len(q)) : (a \o b)[i] = IF i <= Len(o) THEN a[i] ELSE b[i - Len(o)]
    BY <2>1, <2>2
  <2> QED BY <2>3 DEF a, b
<1> HIDE DEF c
<1>6. \A i \in 1..Len(d) : d[i] = c[i]
  <2> SUFFICES ASSUME NEW i \in 1..Len(d) PROVE d[i] = c[i]
    OBVIOUS
  <2>1. CASE i <= Len(o)
    <3>1. i \in 1..Len(o)
      BY <1>1, <1>2, <2>1
    <3> QED BY <1>2, <1>4, <1>5, <2>1, <3>1
  <2>2. CASE ~ (i <= Len(o))
    <3> DEFINE j == i - Len(o)
    <3>1. j \in 1..Len(q) /\ Len(o) + j = i
      BY <1>1, <1>2, <2>2
    <3>2. c[i] = Ids(q)[j]
      BY <1>2, <1>5, <2>2
    <3> HIDE DEF j
    <3> QED BY <1>2, <1>4, <3>1, <3>2
  <2> QED BY <2>1, <2>2
<1>7. IsSeq(c) /\ Len(c) = Len(d)
  BY <1>2, <1>5, SeqIs
<1>8. d = [i \in 1..Len(d) |-> d[i]] /\ c = [i \in 1..Len(d) |-> c[i]]
  BY <1>1, <1>7 DEF IsSeq
<1>9. d = c
  BY <1>6, <1>8
<1> QED BY <1>9 DEF c, d, o, q

\* AnsweredInOrder: where the clients send none of the packets that dispatch turns
\* down, any number of sessions, with any window, are answered each request once,
\* under its own id and in the order of the requests.
THEOREM AnswersComeInOrder ==
    ASSUME Types \cap Astray = {}
    PROVE  SftpSpec => []AnsweredInOrder
<1>1. SftpInit => SftpInv /\ OrderInv
  <2> SUFFICES ASSUME SftpInit PROVE OrderInv
    BY SftpInitially
  <2>1. Len(<<>>) = 0 /\ 1..0 = {} /\ Idle # Adrift /\ 0 + 0 = 0
    BY DEF Idle, Adrift
  <2>2. \A s \in Sessions : /\ inbox[s] = <<>> /\ outbox[s] = <<>> /\ due[s] = <<>>
                            /\ cur[s] = Idle
    BY DEF SftpInit
  <2> QED BY <2>1, <2>2 DEF OrderInv
<1>2. SftpInv /\ OrderInv /\ [SftpNext]_sftpVars => SftpInv' /\ OrderInv'
  BY SftpStep, OrderStep
<1>3. SftpInv /\ OrderInv => AnsweredInOrder
  BY OrderMeans
<1> QED BY <1>1, <1>2, <1>3, PTL DEF SftpSpec
==============================================================================
