----------------------- MODULE EncryptedStorageProofs -----------------------
(***************************************************************************)
(* What a file that one writer has created and closed holds, and what a    *)
(* reader gets, for any writers, readers and paths, however often the keys *)
(* are rotated and the server restarted.                                   *)
(***************************************************************************)
EXTENDS EncryptedStorage, TLAPS

\* A header holds the data key of its write under the key it names.
Header ==
    {h \in [write : Nat \ {0}, version : Nat, dek : Nat,
            kek : [secret : {"master"}, info : Nat]] :
        h.dek = h.write /\ h.kek = HKDF(h.version)}

\* A body opens with the data key of its write, or with none.
Body == {b \in [write : Nat, dek : Nat, len : Nat] : b.dek \in {0, b.write}}

Inode  == [header : Header \cup {NoHeader}, body : Body]
Seal   == [made : SUBSET Nat, closed : SUBSET Nat]
Writer == [at : {"idle", "version", "header", "open"}, version : Nat, write : Nat, on : Nat]
Reader == [at : {"idle", "open", "header", "read"}, on : Nat,
           header : Header \cup {NoHeader}, got : Nat]

KeysOK == currentVersion \in Nat /\ \A v \in DOMAIN keks : keks[v] = HKDF(v)

EncTypeOK ==
    /\ KeysOK /\ writes \in Nat
    /\ \A p \in DOMAIN inodeOf : inodeOf[p] \in DOMAIN inode
    /\ inode \in [DOMAIN inode -> Inode]
    /\ sealed \in [DOMAIN inode -> Seal]
    /\ writer \in [Writers -> Writer]
    /\ reader \in [Readers -> Reader]

\* A write is of one writer, is new until its file is created, and is on the
\* inode it was created on until it is closed.
WriterNumbered(w) ==
    /\ writer[w].at # "idle" =>
         /\ writer[w].write \in 1..writes
         /\ \A i \in DOMAIN inode : writer[w].write \notin sealed[i].closed
         /\ \A v \in Writers \ {w} :
              writer[v].at # "idle" => writer[v].write # writer[w].write
    /\ writer[w].at = "version" => \A i \in DOMAIN inode : writer[w].write \notin sealed[i].made
    /\ writer[w].at \in {"header", "open"} =>
         writer[w].on \in DOMAIN inode /\ writer[w].write \in sealed[writer[w].on].made

InodeNumbered(i) ==
    i \in sealed[i].made /\ sealed[i].closed \subseteq sealed[i].made /\ sealed[i].made \subseteq 1..writes

Numbers ==
    /\ \A w \in Writers : WriterNumbered(w)
    /\ \A i \in DOMAIN inode : InodeNumbered(i)

\* An inode with one write goes from empty through its header to its body.
Whole(i) ==
    /\ inode[i].header \in Header /\ inode[i].header.write = i
    /\ inode[i].body.write = i /\ inode[i].body.dek = i

Alone(i) ==
    sealed[i].made = {i} =>
        /\ sealed[i].closed = {i} => Whole(i)
        /\ \A w \in Writers : writer[w].on = i =>
             /\ writer[w].at \in {"header", "open"} => inode[i].body = NoBody
             /\ writer[w].at = "open" => inode[i].header \in Header /\ inode[i].header.write = i

\* A reader past the header has one, and what it got is of the write named there.
ReadsOne(r) ==
    /\ reader[r].at # "idle" => reader[r].on \in DOMAIN inode
    /\ reader[r].at \in {"header", "read"} => reader[r].header \in Header
    /\ reader[r].at = "read" => reader[r].got = reader[r].header.write

EncInv ==
    /\ EncTypeOK
    /\ Numbers
    /\ \A i \in DOMAIN inode : Alone(i)
    /\ \A r \in Readers : ReadsOne(r)

------------------------------------------------------------------------------
\* The key of a version is derived from it, whatever is cached.
LEMMA KeyOfVersion ==
    ASSUME KeysOK, NEW v
    PROVE  GetKEK(v) = HKDF(v)
BY DEF KeysOK, GetKEK

\* What the cache gains is derived too, now and after a rotation or a restart.
LEMMA KeysStayOK ==
    ASSUME KeysOK
    PROVE  /\ \A v : Cached(v) => KeysOK'
           /\ Rotate => KeysOK'
           /\ Restarted => KeysOK'
           /\ UNCHANGED keyVars => KeysOK'
<1>1. ASSUME NEW v, Cached(v) PROVE KeysOK'
    BY <1>1, KeyOfVersion DEF KeysOK, Cached, Put
<1>2. ASSUME Rotate PROVE KeysOK'
    BY <1>2 DEF KeysOK, Rotate, Put
<1>3. ASSUME Restarted PROVE KeysOK'
    BY <1>3 DEF KeysOK, Restarted, Put
<1>4. ASSUME UNCHANGED keyVars PROVE KeysOK'
    BY <1>4 DEF KeysOK, keyVars
<1> QED
    BY <1>1, <1>2, <1>3, <1>4

\* The data key of a header opens it, and only the body of its write.
LEMMA HeaderOpens ==
    ASSUME KeysOK, NEW h \in Header, NEW b \in Body
    PROVE  /\ h # NoHeader /\ h.write # 0
           /\ b.write = h.write /\ b.dek = h.write => Decrypts(h, b)
           /\ Decrypts(h, b) => b.write = h.write
<1>1. h.write \in Nat \ {0} /\ h.dek = h.write /\ h.kek = HKDF(h.version)
    BY DEF Header
<1>2. NoHeader.write = 0 /\ NoBody.write = 0
    BY DEF NoHeader, NoBody, None
<1>3. DecryptDEK(h)
    BY <1>1, KeyOfVersion DEF DecryptDEK
<1>4. b.dek \in {0, b.write}
    BY DEF Body
<1> QED
    BY <1>1, <1>2, <1>3, <1>4 DEF Decrypts

\* The first key, and nothing written.
LEMMA EncInitially == EncInit => EncInv
<1> SUFFICES ASSUME EncInit PROVE EncInv
    OBVIOUS
<1>1. KeysOK
    BY DEF EncInit, NewKeyManager, KeysOK, Put, HKDF
<1>2. DOMAIN inode = {} /\ DOMAIN inodeOf = {} /\ DOMAIN sealed = {}
    BY DEF EncInit
<1>3. writer \in [Writers -> Writer] /\ reader \in [Readers -> Reader]
    BY DEF EncInit, NoWriter, NoReader, Writer, Reader, None
<1>4. inode \in [DOMAIN inode -> Inode] /\ sealed \in [DOMAIN inode -> Seal]
    BY <1>2 DEF EncInit
<1>5. EncTypeOK
    BY <1>1, <1>2, <1>3, <1>4 DEF EncInit, EncTypeOK
<1>6. Numbers
    BY <1>2 DEF EncInit, Numbers, WriterNumbered, NoWriter
<1>7. \A r \in Readers : ReadsOne(r)
    BY DEF EncInit, ReadsOne, NoReader
<1> QED
    BY <1>2, <1>5, <1>6, <1>7 DEF EncInv

------------------------------------------------------------------------------
\* Readers leave alone what is written: only their own place changes.
LEMMA ReaderKeeps ==
    ASSUME EncInv, NEW r \in Readers, NEW s \in Reader, KeysOK',
           UNCHANGED <<inodeOf, inode, writer, writes, sealed>>,
           reader' = [reader EXCEPT ![r] = s],
           s.at # "idle" => s.on \in DOMAIN inode,
           s.at \in {"header", "read"} => s.header \in Header,
           s.at = "read" => s.got = s.header.write
    PROVE  EncInv'
<1>1. EncTypeOK'
    BY DEF EncInv, EncTypeOK
<1>2. Numbers'
    BY DEF EncInv, Numbers, WriterNumbered, InodeNumbered
<1>3. \A i \in DOMAIN inode' : Alone(i)'
    BY DEF EncInv, Alone, Whole
<1>4. \A q \in Readers : reader'[q] = IF q = r THEN s ELSE reader[q]
    BY DEF EncInv, EncTypeOK
<1>5. \A q \in Readers : ReadsOne(q)'
    BY <1>4 DEF EncInv, ReadsOne
<1> QED
    BY <1>1, <1>2, <1>3, <1>5 DEF EncInv

\* Steps of the keys, and those of paths whose inodes are there.
LEMMA PathsKeep ==
    ASSUME EncInv, KeysOK', UNCHANGED <<inode, writer, reader, writes, sealed>>,
           \A p \in DOMAIN inodeOf' : inodeOf'[p] \in DOMAIN inode
    PROVE  EncInv'
<1>1. EncTypeOK'
    BY DEF EncInv, EncTypeOK
<1> QED
    BY <1>1 DEF EncInv, Numbers, WriterNumbered, InodeNumbered, Alone, Whole, ReadsOne

\* The step of a reader.
LEMMA ReaderStep ==
    ASSUME EncInv, NEW r \in Readers,
           \/ ParseHeader(r) \/ ReadBody(r) \/ CloseReader(r)
           \/ \E p \in Files : OpenInner(r, p)
    PROVE  EncInv'
<1>t. KeysOK /\ reader[r] \in Reader /\ ReadsOne(r) /\ inode \in [DOMAIN inode -> Inode]
    BY DEF EncInv, EncTypeOK
<1>i. NoReader \in Reader /\ NoReader.at = "idle"
    BY DEF NoReader, Reader, None
<1>d. \A i \in DOMAIN inode : i \in Nat
    BY DEF EncInv, EncTypeOK, Numbers, InodeNumbered
<1>1. ASSUME NEW p \in Files, OpenInner(r, p) PROVE EncInv'
  <2> DEFINE s == [at |-> "open", on |-> inodeOf[p], header |-> NoHeader, got |-> None]
  <2>1. inodeOf[p] \in DOMAIN inode
      BY <1>1 DEF OpenInner, EncInv, EncTypeOK
  <2>2. s \in Reader
      BY <1>d, <2>1 DEF Reader, None
  <2>3. UNCHANGED <<inodeOf, inode, writer, writes, sealed>> /\ KeysOK'
        /\ reader' = [reader EXCEPT ![r] = s]
      BY <1>1, <1>t, KeysStayOK DEF OpenInner
  <2> QED
      BY <2>1, <2>2, <2>3, ReaderKeeps
<1>2. CASE ParseHeader(r)
  <2> DEFINE header == inode[reader[r].on].header
  <2>1. UNCHANGED <<inodeOf, inode, writer, writes, sealed>> /\ reader[r].at = "open"
      BY <1>2 DEF ParseHeader
  <2>2. reader[r].on \in DOMAIN inode /\ header \in Header \cup {NoHeader}
      BY <1>t, <2>1 DEF ReadsOne, Inode
  <2>3. CASE header = NoHeader
    <3>1. reader' = [reader EXCEPT ![r] = NoReader] /\ KeysOK'
        BY <1>2, <1>t, <2>3, KeysStayOK DEF ParseHeader
    <3> QED
        BY <1>i, <2>1, <3>1, ReaderKeeps
  <2>4. CASE header # NoHeader
    <3> DEFINE s == [reader[r] EXCEPT !.at = "header", !.header = header]
    <3>1. reader' = [reader EXCEPT ![r].at = "header", ![r].header = header] /\ KeysOK'
        BY <1>2, <1>t, <2>4, KeysStayOK DEF ParseHeader
    <3>2. reader' = [reader EXCEPT ![r] = s]
        BY <3>1 DEF EncInv, EncTypeOK
    <3>3. s = [at |-> "header", on |-> reader[r].on, header |-> header, got |-> reader[r].got]
      <4>1. ASSUME NEW t, t = [reader[r] EXCEPT !.at = "header", !.header = header]
            PROVE  t = [at |-> "header", on |-> reader[r].on, header |-> header,
                        got |-> reader[r].got]
        <5> HIDE DEF header
        <5>1. reader[r] \in Reader
            BY <1>t
        <5> QED
            BY <4>1, <5>1 DEF Reader
      <4> QED
          BY <4>1
    <3>4. s \in Reader /\ s.at = "header" /\ s.on \in DOMAIN inode /\ s.header \in Header
      <4>1. reader[r].on \in Nat /\ reader[r].got \in Nat /\ header \in Header
          BY <1>t, <2>2, <2>4 DEF Reader
      <4> HIDE DEF header, s
      <4> QED
          BY <2>2, <3>3, <4>1 DEF Reader
    <3> HIDE DEF s
    <3> QED
        BY <2>1, <3>1, <3>2, <3>4, ReaderKeeps
  <2> QED
      BY <2>3, <2>4
<1>3. CASE ReadBody(r)
  <2> DEFINE body == inode[reader[r].on].body
             h == reader[r].header
  <2>1. /\ UNCHANGED <<inodeOf, inode, writer, writes, sealed>> /\ KeysOK'
        /\ reader[r].at = "header"
      BY <1>3, <1>t, KeysStayOK DEF ReadBody
  <2>2. reader[r].on \in DOMAIN inode /\ h \in Header /\ body \in Body
      BY <1>t, <2>1 DEF ReadsOne, Inode
  <2>3. CASE Decrypts(h, body)
    <3> DEFINE s == [reader[r] EXCEPT !.at = "read", !.got = body.write]
    <3>1. reader' = [reader EXCEPT ![r] = s]
        BY <1>3, <2>3 DEF ReadBody, EncInv, EncTypeOK
    <3>2. s = [at |-> "read", on |-> reader[r].on, header |-> h, got |-> body.write]
      <4>1. ASSUME NEW t, t = [reader[r] EXCEPT !.at = "read", !.got = body.write]
            PROVE  t = [at |-> "read", on |-> reader[r].on, header |-> h, got |-> body.write]
        <5> HIDE DEF body
        <5>1. reader[r] \in Reader
            BY <1>t
        <5> QED
            BY <4>1, <5>1 DEF Reader
      <4> QED
          BY <4>1
    <3>3. body.write = h.write /\ body.write \in Nat
        BY <1>t, <2>2, <2>3, HeaderOpens DEF Body
    <3>4. s \in Reader /\ s.at = "read" /\ s.on \in DOMAIN inode /\ s.header \in Header
          /\ s.got = s.header.write
      <4>1. reader[r].on \in Nat
          BY <1>t DEF Reader
      <4> HIDE DEF body, h, s
      <4> QED
          BY <2>2, <3>2, <3>3, <4>1 DEF Reader
    <3> HIDE DEF s
    <3> QED
        BY <2>1, <3>1, <3>4, ReaderKeeps
  <2>4. CASE ~Decrypts(h, body)
    <3>1. reader' = [reader EXCEPT ![r] = NoReader]
        BY <1>3, <2>4 DEF ReadBody, EncInv, EncTypeOK
    <3> QED
        BY <1>i, <2>1, <3>1, ReaderKeeps
  <2> QED
      BY <2>3, <2>4
<1>4. CASE CloseReader(r)
  <2>1. UNCHANGED <<inodeOf, inode, writer, writes, sealed>> /\ KeysOK'
        /\ reader' = [reader EXCEPT ![r] = NoReader]
      BY <1>4, <1>t, KeysStayOK DEF CloseReader
  <2> QED
      BY <1>i, <2>1, ReaderKeeps
<1> QED
    BY <1>1, <1>2, <1>3, <1>4

------------------------------------------------------------------------------
\* Readers are kept by a step that takes no inode away.
LEMMA ReadersStay ==
    ASSUME EncInv, UNCHANGED reader, DOMAIN inode \subseteq DOMAIN inode'
    PROVE  \A r \in Readers : ReadsOne(r)'
BY DEF EncInv, ReadsOne

\* The numbers of inodes and writes are positive.
LEMMA InodesPositive ==
    ASSUME EncInv
    PROVE  \A i \in DOMAIN inode : i \in Nat /\ i # 0
BY DEF EncInv, EncTypeOK, Numbers, InodeNumbered

\* A new write has the next number, which is no other's.
LEMMA CreateVersionKeeps ==
    ASSUME EncInv, NEW w \in Writers, CreateVersion(w)
    PROVE  EncInv'
<1> DEFINE s == [at |-> "version", version |-> currentVersion, write |-> writes + 1, on |-> None]
<1>1. /\ writes' = writes + 1 /\ writer' = [writer EXCEPT ![w] = s]
      /\ UNCHANGED <<currentVersion, keks, inodeOf, inode, reader, sealed>>
    BY DEF CreateVersion, keyVars
<1>2. writes \in Nat /\ currentVersion \in Nat /\ writer \in [Writers -> Writer] /\ KeysOK
    BY DEF EncInv, EncTypeOK, KeysOK
<1>3. s \in Writer
    BY <1>2 DEF Writer, None
<1>4. KeysOK'
    BY <1>1, <1>2 DEF KeysOK
<1>5. EncTypeOK'
    BY <1>1, <1>2, <1>3, <1>4 DEF EncInv, EncTypeOK
<1>6. \A v \in Writers : writer'[v] = IF v = w THEN s ELSE writer[v]
    BY <1>1, <1>2
<1>7. \A i \in DOMAIN inode : InodeNumbered(i) /\ InodeNumbered(i)'
    BY <1>1, <1>2 DEF EncInv, Numbers, InodeNumbered
<1>8. \A i \in DOMAIN inode : writes + 1 \notin sealed[i].made /\ writes + 1 \notin sealed[i].closed
    BY <1>2, <1>7 DEF InodeNumbered
<1>9. \A v \in Writers : writer[v].at # "idle" =>
          writer[v].write \in 1..(writes + 1) /\ writer[v].write # writes + 1
    BY <1>2 DEF EncInv, Numbers, WriterNumbered
<1>10. ASSUME NEW v \in Writers PROVE WriterNumbered(v)'
  <2>1. CASE v = w
      BY <1>1, <1>2, <1>6, <1>8, <1>9, <2>1 DEF WriterNumbered
  <2>2. CASE v # w
    <3>1. WriterNumbered(v)
        BY DEF EncInv, Numbers
    <3>2. writer'[v] = writer[v]
        BY <1>6, <2>2
    <3> QED
        BY <1>1, <1>6, <1>9, <2>2, <3>1, <3>2 DEF WriterNumbered
  <2> QED
      BY <2>1, <2>2
<1>11. \A i \in DOMAIN inode' : Alone(i)'
    BY <1>1, <1>6, InodesPositive DEF EncInv, Alone, Whole, None
<1>12. \A r \in Readers : ReadsOne(r)'
    BY <1>1, ReadersStay
<1> QED
    BY <1>1, <1>5, <1>7, <1>10, <1>11, <1>12 DEF EncInv, Numbers

\* A writer that ends, or loses its place, with no change to its inode but that
\* nobody can tell, keeps what the others rest on.
LEMMA WritersEnd ==
    ASSUME EncInv, KeysOK', UNCHANGED <<inodeOf, inode, writes, sealed>>,
           writer' \in [Writers -> Writer], reader' \in [Readers -> Reader],
           \A v \in Writers : writer'[v] = writer[v] \/ writer'[v].at = "idle",
           \A r \in Readers : reader'[r] = reader[r] \/ reader'[r].at = "idle"
    PROVE  EncInv'
<1>1. EncTypeOK'
    BY DEF EncInv, EncTypeOK
<1>2. Numbers'
    BY DEF EncInv, Numbers, WriterNumbered, InodeNumbered
<1>3. \A i \in DOMAIN inode' : Alone(i)'
    BY DEF EncInv, Alone, Whole
<1>4. \A r \in Readers : ReadsOne(r)'
    BY DEF EncInv, ReadsOne
<1> QED
    BY <1>1, <1>2, <1>3, <1>4 DEF EncInv

\* A file created: an inode of its own, or one more write on that of the path.
LEMMA CreateInnerKeeps ==
    ASSUME EncInv, NEW w \in Writers, NEW p \in Files, CreateInner(w, p)
    PROVE  EncInv'
<1> DEFINE i == IF p \in DOMAIN inodeOf THEN inodeOf[p] ELSE writer[w].write
           n == writer[w].write
           D == DOMAIN inode \cup {i}
           e == IF i \in DOMAIN sealed THEN [sealed[i] EXCEPT !.made = @ \cup {n}]
                                       ELSE [made |-> {n}, closed |-> {}]
<1>1. /\ writer[w].at = "version" /\ Cached(writer[w].version)
      /\ inodeOf' = Put(inodeOf, p, i) /\ inode' = Put(inode, i, Empty)
      /\ sealed' = Put(sealed, i, e) /\ UNCHANGED <<reader, writes>>
      /\ writer' = [writer EXCEPT ![w].at = "header", ![w].on = i]
    BY DEF CreateInner
<1>t. /\ KeysOK /\ writes \in Nat /\ writer \in [Writers -> Writer]
      /\ inode \in [DOMAIN inode -> Inode] /\ sealed \in [DOMAIN inode -> Seal]
      /\ \A q \in DOMAIN inodeOf : inodeOf[q] \in DOMAIN inode
    BY DEF EncInv, EncTypeOK
<1>n. /\ WriterNumbered(w) /\ n \in 1..writes
      /\ \A j \in DOMAIN inode : n \notin sealed[j].made /\ n \notin sealed[j].closed
    BY <1>1 DEF EncInv, Numbers, WriterNumbered
<1>j. \A j \in DOMAIN inode : InodeNumbered(j)
    BY DEF EncInv, Numbers
<1>2. /\ i \in DOMAIN inode => e = [made |-> sealed[i].made \cup {n}, closed |-> sealed[i].closed]
      /\ i \notin DOMAIN inode => e = [made |-> {n}, closed |-> {}] /\ i = n
  <2>1. DOMAIN sealed = DOMAIN inode
      BY <1>t
  <2>2. CASE i \in DOMAIN inode
    <3>1. sealed[i] \in Seal /\ e = [sealed[i] EXCEPT !.made = @ \cup {n}]
        BY <1>t, <2>1, <2>2
    <3> HIDE DEF e, i, n
    <3>2. e = [made |-> sealed[i].made \cup {n}, closed |-> sealed[i].closed]
        BY <3>1 DEF Seal
    <3> QED
        BY <2>2, <3>2
  <2>3. CASE i \notin DOMAIN inode
      BY <1>t, <2>1, <2>3
  <2> QED
      BY <2>2, <2>3
<1>3. i \in Nat /\ i # 0 /\ e \in Seal
  <2>1. CASE i \in DOMAIN inode
    <3>1. sealed[i] \in Seal /\ n \in Nat /\ i \in Nat /\ i # 0
        BY <1>t, <1>n, <2>1, InodesPositive
    <3> HIDE DEF e, i, n
    <3> QED
        BY <1>2, <2>1, <3>1 DEF Seal
  <2>2. CASE i \notin DOMAIN inode
    <3> HIDE DEF e, i, n
    <3> QED
        BY <1>2, <1>n, <1>t, <2>2 DEF Seal
  <2> QED
      BY <2>1, <2>2
<1> HIDE DEF i, e
<1>4. /\ DOMAIN inode' = D /\ DOMAIN sealed' = D
      /\ \A j \in D : inode'[j] = IF j = i THEN Empty ELSE inode[j]
      /\ \A j \in D : sealed'[j] = IF j = i THEN e ELSE sealed[j]
    BY <1>1, <1>t DEF Put
<1>5. Empty \in Inode
    BY DEF Empty, Inode, NoBody, Body, None
<1>6. /\ inode' \in [D -> Inode] /\ sealed' \in [D -> Seal]
  <2>1. inode' = [j \in D |-> inode'[j]] /\ sealed' = [j \in D |-> sealed'[j]]
      BY <1>1, <1>t DEF Put
  <2>2. \A j \in D : inode'[j] \in Inode /\ sealed'[j] \in Seal
      BY <1>3, <1>4, <1>5, <1>t
  <2> QED
      BY <2>1, <2>2
<1>7. writer' \in [Writers -> Writer]
  <2>1. writer' = [v \in Writers |-> IF v = w THEN [writer[w] EXCEPT !.at = "header", !.on = i]
                                               ELSE writer[v]]
      BY <1>1, <1>t
  <2>2. ASSUME NEW s \in Writer, NEW t, t = [s EXCEPT !.at = "header", !.on = i]
        PROVE  t \in Writer
    <3>1. t = [at |-> "header", version |-> s.version, write |-> s.write, on |-> i]
        BY <2>2 DEF Writer
    <3> QED
        BY <1>3, <3>1 DEF Writer
  <2>3. writer'[w] \in Writer
    <3>1. writer'[w] = [writer[w] EXCEPT !.at = "header", !.on = i] /\ writer[w] \in Writer
        BY <1>t, <2>1
    <3> QED
        BY <2>2, <3>1, Zenon
  <2>4. \A v \in Writers : writer'[v] \in Writer
      BY <1>t, <2>1, <2>3
  <2> QED
      BY <2>1, <2>4
<1>8. /\ \A v \in Writers : v # w => writer'[v] = writer[v]
      /\ writer'[w].at = "header" /\ writer'[w].on = i /\ writer'[w].write = n
    BY <1>1, <1>t DEF Writer
<1>9. EncTypeOK'
  <2>1. KeysOK'
      BY <1>1, <1>t, KeysStayOK
  <2>2. \A q \in DOMAIN inodeOf' : inodeOf'[q] \in DOMAIN inode'
      BY <1>1, <1>4, <1>t DEF Put
  <2> QED
      BY <1>1, <1>4, <1>6, <1>7, <2>1, <2>2 DEF EncInv, EncTypeOK
<1>10. ASSUME NEW j \in D PROVE InodeNumbered(j)'
  <2>1. CASE j # i
      BY <1>1, <1>4, <1>j, <2>1 DEF InodeNumbered
  <2>2. CASE j = i /\ i \in DOMAIN inode
    <3>1. sealed'[i].made = sealed[i].made \cup {n} /\ sealed'[i].closed = sealed[i].closed
        BY <1>2, <1>4, <2>2
    <3> QED
        BY <1>1, <1>j, <1>n, <2>2, <3>1 DEF InodeNumbered
  <2>3. CASE j = i /\ i \notin DOMAIN inode
    <3>1. sealed'[i].made = {n} /\ sealed'[i].closed = {} /\ i = n
        BY <1>2, <1>4, <2>3
    <3> QED
        BY <1>1, <1>n, <2>3, <3>1 DEF InodeNumbered
  <2> QED
      BY <2>1, <2>2, <2>3
<1>11. \A j \in D : sealed'[j].closed \subseteq (IF j \in DOMAIN inode THEN sealed[j].closed ELSE {})
  <2>1. ASSUME NEW j \in D, j # i PROVE j \in DOMAIN inode /\ sealed'[j] = sealed[j]
      BY <1>4, <2>1
  <2>2. sealed'[i] = e
      BY <1>4
  <2> QED
      BY <1>2, <2>1, <2>2
<1>12. \A j \in D : sealed'[j].made \subseteq
                       (IF j \in DOMAIN inode THEN sealed[j].made ELSE {}) \cup {n}
  <2>1. ASSUME NEW j \in D, j # i PROVE j \in DOMAIN inode /\ sealed'[j] = sealed[j]
      BY <1>4, <2>1
  <2>2. sealed'[i] = e
      BY <1>4
  <2> QED
      BY <1>2, <2>1, <2>2
<1>13. \A j \in DOMAIN inode : sealed[j].made \subseteq sealed'[j].made
    BY <1>2, <1>4
<1>14. n \in sealed'[i].made
    BY <1>2, <1>4
<1>15. ASSUME NEW v \in Writers PROVE WriterNumbered(v)'
  <2>1. CASE v = w
    <3>1. \A j \in D : n \notin sealed'[j].closed
        BY <1>11, <1>n
    <3>2. \A u \in Writers \ {w} : writer'[u].at # "idle" => writer'[u].write # n
        BY <1>1, <1>8, <1>n DEF WriterNumbered
    <3>3. n \in 1..writes' /\ i \in DOMAIN inode'
        BY <1>1, <1>4, <1>n
    <3> HIDE DEF n, D
    <3> QED
        BY <1>4, <1>8, <1>14, <2>1, <3>1, <3>2, <3>3 DEF WriterNumbered
  <2>2. CASE v # w
    <3>1. WriterNumbered(v) /\ writer'[v] = writer[v]
        BY <1>8, <2>2 DEF EncInv, Numbers
    <3>2. writer[v].at # "idle" => writer[v].write # n
        BY <1>1, <1>n, <2>2 DEF WriterNumbered
    <3>3. writer[v].at # "idle" => \A j \in D : writer[v].write \notin sealed'[j].closed
        BY <1>11, <3>1 DEF WriterNumbered
    <3>4. writer[v].at = "version" => \A j \in D : writer[v].write \notin sealed'[j].made
        BY <1>12, <3>1, <3>2 DEF WriterNumbered
    <3>5. writer[v].at \in {"header", "open"} =>
              writer[v].on \in D /\ writer[v].write \in sealed'[writer[v].on].made
        BY <1>13, <3>1 DEF WriterNumbered
    <3>6. writer[v].at # "idle" => writer[v].write \in 1..writes'
        BY <1>1, <3>1 DEF WriterNumbered
    <3>7. \A u \in Writers \ {v} : writer[v].at # "idle" /\ writer'[u].at # "idle" =>
              writer'[u].write # writer[v].write
      <4>1. ASSUME NEW u \in Writers \ {v}, writer[v].at # "idle", writer'[u].at # "idle"
            PROVE  writer'[u].write # writer[v].write
        <5>1. CASE u = w
            BY <1>8, <3>2, <4>1, <5>1
        <5>2. CASE u # w
            BY <1>8, <3>1, <4>1, <5>2 DEF WriterNumbered
        <5> QED
            BY <5>1, <5>2
      <4> QED
          BY <4>1
    <3> HIDE DEF n, D
    <3> QED
        BY <1>4, <3>1, <3>3, <3>4, <3>5, <3>6, <3>7 DEF WriterNumbered
  <2> QED
      BY <2>1, <2>2
<1>16. ASSUME NEW j \in D PROVE Alone(j)'
  <2>1. CASE j # i
    <3>1. j \in DOMAIN inode /\ inode'[j] = inode[j] /\ sealed'[j] = sealed[j] /\ Alone(j)
        BY <1>4, <2>1 DEF EncInv
    <3>2. \A v \in Writers : writer'[v].on = j => writer'[v] = writer[v]
        BY <1>8, <2>1
    <3> QED
        BY <3>1, <3>2 DEF Alone, Whole
  <2>2. CASE j = i /\ i \in DOMAIN inode
    <3>1. i \in sealed'[i].made /\ n \in sealed'[i].made /\ i # n
        BY <1>13, <1>14, <1>j, <1>n, <2>2 DEF InodeNumbered
    <3>2. sealed'[i].made # {i}
        BY <3>1
    <3> QED
        BY <2>2, <3>2 DEF Alone
  <2>3. CASE j = i /\ i \notin DOMAIN inode
    <3>1. sealed'[i].closed = {} /\ inode'[i].body = NoBody
        BY <1>2, <1>4, <2>3 DEF Empty
    <3>2. \A v \in Writers : writer'[v].on = i /\ writer'[v].at \in {"header", "open"} => v = w
        BY <1>8, <2>3 DEF EncInv, Numbers, WriterNumbered
    <3> QED
        BY <1>8, <2>3, <3>1, <3>2 DEF Alone
  <2> QED
      BY <2>1, <2>2, <2>3
<1>17. \A r \in Readers : ReadsOne(r)'
    BY <1>1, <1>4, ReadersStay
<1> QED
    BY <1>4, <1>9, <1>10, <1>15, <1>16, <1>17 DEF EncInv, Numbers

\* Nobody else writes on the inode of a writer that is its only one, and it is
\* not yet closed.
LEMMA OnlyWriter ==
    ASSUME EncInv, NEW w \in Writers, writer[w].at \in {"header", "open"}
    PROVE  /\ writer[w].on \in DOMAIN inode
           /\ sealed[writer[w].on].made = {writer[w].on} =>
                /\ writer[w].write = writer[w].on
                /\ sealed[writer[w].on].closed # {writer[w].on}
                /\ inode[writer[w].on].body = NoBody
                /\ \A v \in Writers \ {w} :
                     writer[v].on = writer[w].on => writer[v].at \notin {"header", "open"}
<1> DEFINE i == writer[w].on
           n == writer[w].write
<1>1. /\ i \in DOMAIN inode /\ n \in sealed[i].made /\ n \notin sealed[i].closed
      /\ \A v \in Writers \ {w} : writer[v].at # "idle" => writer[v].write # n
    BY DEF EncInv, Numbers, WriterNumbered
<1>2. \A v \in Writers : writer[v].on = i /\ writer[v].at \in {"header", "open"} =>
          writer[v].write \in sealed[i].made
    BY DEF EncInv, Numbers, WriterNumbered
<1>3. ASSUME sealed[i].made = {i}
      PROVE  /\ n = i /\ sealed[i].closed # {i} /\ inode[i].body = NoBody
             /\ \A v \in Writers \ {w} : writer[v].on = i => writer[v].at \notin {"header", "open"}
  <2>1. n = i /\ sealed[i].closed # {i}
      BY <1>1, <1>3
  <2>2. inode[i].body = NoBody
      BY <1>1, <1>3 DEF EncInv, Alone
  <2>3. ASSUME NEW v \in Writers \ {w}, writer[v].on = i, writer[v].at \in {"header", "open"}
        PROVE  FALSE
    <3>1. writer[v].write = i
        BY <1>2, <1>3, <2>3
    <3> QED
        BY <1>1, <2>1, <2>3, <3>1
  <2> QED
      BY <2>1, <2>2, <2>3
<1> QED
    BY <1>1, <1>3

\* A statement on the inode of a writer: its header, its body, or a part of it.
LEMMA WriteKeeps ==
    ASSUME EncInv, NEW w \in Writers, writer[w].at \in {"header", "open"},
           KeysOK', UNCHANGED <<inodeOf, reader, writes>>,
           inode' \in [DOMAIN inode -> Inode], sealed' \in [DOMAIN inode -> Seal],
           writer' \in [Writers -> Writer],
           \A j \in DOMAIN inode :
               j # writer[w].on => inode'[j] = inode[j] /\ sealed'[j] = sealed[j],
           \A v \in Writers : v # w => writer'[v] = writer[v],
           sealed'[writer[w].on].made = sealed[writer[w].on].made,
           \/ /\ sealed'[writer[w].on].closed = sealed[writer[w].on].closed
              /\ writer'[w].at = "idle"
           \/ /\ sealed'[writer[w].on].closed = sealed[writer[w].on].closed
              /\ writer'[w].at = "open" /\ writer'[w].on = writer[w].on
              /\ writer'[w].write = writer[w].write
              /\ inode'[writer[w].on].header \in Header
              /\ inode'[writer[w].on].header.write = writer[w].write
              /\ inode'[writer[w].on].body = inode[writer[w].on].body
           \/ /\ sealed'[writer[w].on].closed = sealed[writer[w].on].closed \cup {writer[w].write}
              /\ writer[w].at = "open" /\ writer'[w].at = "idle"
              /\ inode'[writer[w].on].header = inode[writer[w].on].header
              /\ inode[writer[w].on].body = NoBody =>
                     /\ inode'[writer[w].on].body.write = writer[w].write
                     /\ inode'[writer[w].on].body.dek = writer[w].write
    PROVE  EncInv'
<1> DEFINE i == writer[w].on
           n == writer[w].write
           x == inode'[i]
           S == sealed'[i]
           s == writer'[w]
<1>t. /\ inode \in [DOMAIN inode -> Inode] /\ sealed \in [DOMAIN inode -> Seal]
      /\ writer \in [Writers -> Writer]
    BY DEF EncInv, EncTypeOK
<1>i. i \in DOMAIN inode
    BY OnlyWriter
<1>1. /\ DOMAIN inode' = DOMAIN inode
      /\ \A j \in DOMAIN inode : inode'[j] = IF j = i THEN x ELSE inode[j]
      /\ \A j \in DOMAIN inode : sealed'[j] = IF j = i THEN S ELSE sealed[j]
      /\ \A v \in Writers : writer'[v] = IF v = w THEN s ELSE writer[v]
    OBVIOUS
<1>c. /\ S.made = sealed[i].made
      /\ \/ S.closed = sealed[i].closed /\ s.at = "idle"
         \/ /\ S.closed = sealed[i].closed
            /\ s.at = "open" /\ s.on = i /\ s.write = n
            /\ x.header \in Header /\ x.header.write = n /\ x.body = inode[i].body
         \/ /\ S.closed = sealed[i].closed \cup {n} /\ writer[w].at = "open" /\ s.at = "idle"
            /\ x.header = inode[i].header
            /\ inode[i].body = NoBody => x.body.write = n /\ x.body.dek = n
    OBVIOUS
<1> HIDE DEF x, S, s
<1>2. EncTypeOK'
    BY <1>t, <1>1 DEF EncInv, EncTypeOK
<1>3. \A j \in DOMAIN inode :
          sealed'[j].made = sealed[j].made /\ sealed'[j].closed \subseteq sealed[j].closed \cup {n}
          /\ (j # i => sealed'[j].closed = sealed[j].closed)
    BY <1>1, <1>c
<1>n. /\ WriterNumbered(w) /\ n \in sealed[i].made
    BY DEF EncInv, Numbers, WriterNumbered
<1>4. ASSUME NEW j \in DOMAIN inode PROVE InodeNumbered(j)'
  <2>1. InodeNumbered(j)
      BY DEF EncInv, Numbers
  <2> QED
      BY <1>3, <1>n, <2>1 DEF InodeNumbered
<1>5. ASSUME NEW v \in Writers PROVE WriterNumbered(v)'
  <2>0. \A u \in Writers : writer'[u].at # "idle" =>
            writer[u].at # "idle" /\ writer'[u].write = writer[u].write
      BY <1>1, <1>c
  <2>1. CASE v # w
    <3>1. WriterNumbered(v) /\ writer'[v] = writer[v]
        BY <1>1, <2>1 DEF EncInv, Numbers
    <3>2. writer[v].at # "idle" => writer[v].write # n
        BY <1>n, <2>1 DEF WriterNumbered
    <3>3. writer[v].at # "idle" => \A j \in DOMAIN inode : writer[v].write \notin sealed'[j].closed
        BY <1>3, <3>1, <3>2 DEF WriterNumbered
    <3>4. writer[v].at # "idle" => \A u \in Writers \ {v} :
              writer'[u].at # "idle" => writer'[u].write # writer[v].write
        BY <2>0, <3>1 DEF WriterNumbered
    <3>5. DOMAIN inode' = DOMAIN inode /\ writes' = writes
        BY <1>1
    <3>6. \A j \in DOMAIN inode : sealed'[j].made = sealed[j].made
        BY <1>3
    <3> HIDE DEF i, n
    <3>7. CASE writer[v].at = "idle"
        BY <3>1, <3>7 DEF WriterNumbered
    <3>8. CASE writer[v].at # "idle"
        BY <3>1, <3>3, <3>4, <3>5, <3>6, <3>8 DEF WriterNumbered
    <3> QED
        BY <3>7, <3>8
  <2>2. CASE v = w /\ s.at = "idle"
      BY <1>1, <2>2 DEF WriterNumbered
  <2>3. CASE v = w /\ s.at = "open"
    <3>1. writer'[w] = s /\ s.on = i /\ s.write = n
        BY <1>1, <1>c, <2>3
    <3>2. \A j \in DOMAIN inode : sealed'[j].closed = sealed[j].closed
        BY <1>1, <1>c, <2>3
    <3>n. /\ n \in 1..writes /\ \A j \in DOMAIN inode : n \notin sealed[j].closed
          /\ \A u \in Writers \ {w} : writer[u].at # "idle" => writer[u].write # n
        BY <1>n DEF WriterNumbered
    <3>3. /\ n \in 1..writes /\ \A j \in DOMAIN inode : n \notin sealed'[j].closed
          /\ \A u \in Writers \ {w} : writer'[u].at # "idle" => writer'[u].write # n
        BY <2>0, <3>n, <3>2
    <3>4. n \in sealed'[i].made /\ writes' = writes
        BY <1>3, <1>i, <1>n
    <3>5. DOMAIN inode' = DOMAIN inode
        BY <1>1
    <3> HIDE DEF i, n
    <3>6. /\ writer'[w].write \in 1..writes'
          /\ \A j \in DOMAIN inode' : writer'[w].write \notin sealed'[j].closed
          /\ \A u \in Writers \ {w} : writer'[u].at # "idle" => writer'[u].write # writer'[w].write
        BY <3>1, <3>3, <3>4, <3>5
    <3>7. /\ writer'[w].at = "open" /\ writer'[w].on \in DOMAIN inode'
          /\ writer'[w].write \in sealed'[writer'[w].on].made
        BY <1>i, <2>3, <3>1, <3>4, <3>5
    <3> QED
        BY <2>3, <3>6, <3>7 DEF WriterNumbered
  <2> QED
      BY <1>c, <2>1, <2>2, <2>3
<1>6. ASSUME NEW j \in DOMAIN inode PROVE Alone(j)'
  <2>1. CASE j # i
    <3>1. inode'[j] = inode[j] /\ sealed'[j] = sealed[j] /\ Alone(j)
        BY <1>1, <2>1 DEF EncInv
    <3>2. \A v \in Writers : writer'[v].on = j => writer'[v] = writer[v] \/ writer'[v].at = "idle"
        BY <1>1, <1>c, <2>1
    <3> HIDE DEF i, n
    <3> QED
        BY <3>1, <3>2 DEF Alone, Whole
  <2>2. CASE j = i
    <3>0. sealed'[j] = S /\ inode'[j] = x
        BY <1>1, <2>2
    <3>1. S.made = {i} =>
             /\ n = i /\ sealed[i].closed # {i} /\ inode[i].body = NoBody
             /\ \A v \in Writers \ {w} : writer[v].on = i => writer[v].at \notin {"header", "open"}
        BY <1>c, OnlyWriter
    <3> HIDE DEF i, n
    <3> SUFFICES ASSUME S.made = {i}
                 PROVE  /\ S.closed = {i} => Whole(j)'
                        /\ \A v \in Writers : writer'[v].on = i =>
                             /\ writer'[v].at \in {"header", "open"} => x.body = NoBody
                             /\ writer'[v].at = "open" =>
                                  x.header \in Header /\ x.header.write = i
        BY <2>2, <3>0 DEF Alone
    <3>2. \A v \in Writers : writer'[v].on = i =>
             /\ writer'[v].at \in {"header", "open"} => x.body = NoBody
             /\ writer'[v].at = "open" => x.header \in Header /\ x.header.write = i
      <4> SUFFICES ASSUME NEW v \in Writers, writer'[v].on = i,
                          writer'[v].at \in {"header", "open"}
                   PROVE  x.body = NoBody /\ x.header \in Header /\ x.header.write = i
          OBVIOUS
      <4>1. v = w
          BY <1>1, <3>1
      <4>2. s.at = "open"
          BY <1>1, <1>c, <4>1
      <4> QED
          BY <1>c, <3>1, <4>2
    <3>3. ASSUME S.closed = {i} PROVE Whole(j)'
      <4>1. /\ writer[w].at = "open" /\ x.header = inode[i].header
            /\ x.body.write = n /\ x.body.dek = n
          BY <1>c, <3>1, <3>3
      <4>2. inode[i].header \in Header /\ inode[i].header.write = i
        <5>1. Alone(i) /\ writer[w].on = i /\ sealed[i].made = {i}
            BY <1>c, <1>i DEF EncInv, i
        <5> QED
            BY <4>1, <5>1 DEF Alone
      <4> QED
          BY <2>2, <3>0, <3>1, <4>1, <4>2 DEF Whole
    <3> QED
        BY <3>2, <3>3
  <2> QED
      BY <2>1, <2>2
<1>7. \A r \in Readers : ReadsOne(r)'
    BY <1>1, ReadersStay
<1> QED
    BY <1>1, <1>2, <1>4, <1>5, <1>6, <1>7 DEF EncInv, Numbers

\* One column of an inode or of a seal.
LEMMA InodeExcept ==
    /\ \A r \in Inode, h \in Header \cup {NoHeader} :
          /\ [r EXCEPT !.header = h] \in Inode
          /\ [r EXCEPT !.header = h].header = h /\ [r EXCEPT !.header = h].body = r.body
    /\ \A r \in Inode, b \in Body :
          /\ [r EXCEPT !.body = b] \in Inode
          /\ [r EXCEPT !.body = b].body = b /\ [r EXCEPT !.body = b].header = r.header
BY DEF Inode

LEMMA SealExcept ==
    \A r \in Seal, C \in SUBSET Nat :
        /\ [r EXCEPT !.closed = C] \in Seal
        /\ [r EXCEPT !.closed = C].closed = C /\ [r EXCEPT !.closed = C].made = r.made
BY DEF Seal

\* What the step of a writer may use of its place.
LEMMA WriterPlace ==
    ASSUME EncInv, NEW w \in Writers, writer[w].at \in {"header", "open"}
    PROVE  /\ writer[w] \in Writer /\ writer[w].on \in DOMAIN inode
           /\ inode[writer[w].on] \in Inode /\ sealed[writer[w].on] \in Seal
           /\ inode \in [DOMAIN inode -> Inode] /\ sealed \in [DOMAIN inode -> Seal]
           /\ writer \in [Writers -> Writer] /\ reader \in [Readers -> Reader] /\ KeysOK
           /\ writer[w].write \in Nat \ {0} /\ writer[w].version \in Nat
<1>1. writer[w].on \in DOMAIN inode
    BY OnlyWriter
<1>2. writer[w] \in Writer /\ writes \in Nat /\ writer[w].write \in 1..writes
    BY DEF EncInv, EncTypeOK, Numbers, WriterNumbered
<1>3. writer[w].version \in Nat
    BY <1>2 DEF Writer
<1> QED
    BY <1>1, <1>2, <1>3 DEF EncInv, EncTypeOK

\* The header is written.
LEMMA WriteHeaderKeeps ==
    ASSUME EncInv, NEW w \in Writers, WriteHeader(w)
    PROVE  EncInv'
<1> DEFINE i == writer[w].on
           n == writer[w].write
           h == buildHeader(n, writer[w].version)
<1>1. /\ writer[w].at = "header" /\ inode' = [inode EXCEPT ![i] = [inode[i] EXCEPT !.header = h]]
      /\ writer' = [writer EXCEPT ![w] = [writer[w] EXCEPT !.at = "open"]]
      /\ UNCHANGED <<inodeOf, reader, writes, sealed>> /\ UNCHANGED keyVars
    BY DEF WriteHeader
<1>k. KeysOK'
    BY <1>1, KeysStayOK DEF EncInv, EncTypeOK
<1>2. /\ writer[w] \in Writer /\ i \in DOMAIN inode /\ inode[i] \in Inode
      /\ inode \in [DOMAIN inode -> Inode] /\ sealed \in [DOMAIN inode -> Seal]
      /\ writer \in [Writers -> Writer] /\ KeysOK
      /\ n \in Nat \ {0} /\ writer[w].version \in Nat
    BY <1>1, WriterPlace
<1>4. h = [write |-> n, version |-> writer[w].version, dek |-> n,
           kek |-> [secret |-> "master", info |-> writer[w].version]]
    BY <1>2, KeyOfVersion DEF buildHeader, generateDEK, HKDF
<1>5. h \in Header /\ h.write = n
    BY <1>2, <1>4 DEF Header, HKDF
<1> HIDE DEF h
<1>6. /\ inode' \in [DOMAIN inode -> Inode] /\ inode'[i].header = h
      /\ inode'[i].body = inode[i].body
      /\ \A j \in DOMAIN inode : j # i => inode'[j] = inode[j]
  <2> DEFINE x == [inode[i] EXCEPT !.header = h]
  <2>1. x \in Inode /\ x.header = h /\ x.body = inode[i].body
      BY <1>2, <1>5, InodeExcept
  <2> HIDE DEF x, i
  <2>2. inode' = [inode EXCEPT ![i] = x]
      BY <1>1 DEF x
  <2> QED
      BY <1>2, <2>1, <2>2
<1>7. /\ writer' \in [Writers -> Writer] /\ writer'[w].at = "open" /\ writer'[w].on = i
      /\ writer'[w].write = n /\ \A v \in Writers : v # w => writer'[v] = writer[v]
    BY <1>1, <1>2 DEF Writer
<1> HIDE DEF i, n
<1> QED
    BY <1>1, <1>k, <1>2, <1>5, <1>6, <1>7, WriteKeeps DEF i, n

\* The body is sealed, over what is there.
LEMMA CloseWriterKeeps ==
    ASSUME EncInv, NEW w \in Writers, CloseWriter(w)
    PROVE  EncInv'
<1> DEFINE i == writer[w].on
           n == writer[w].write
           C == sealed[i].closed \cup {n}
<1>1. PICK len \in {1, 2} :
          inode' = [inode EXCEPT ![i] = [inode[i] EXCEPT !.body = Overwrite(inode[i].body, n, len)]]
    BY DEF CloseWriter
<1>2. /\ writer[w].at = "open" /\ sealed' = [sealed EXCEPT ![i] = [sealed[i] EXCEPT !.closed = C]]
      /\ writer' = [writer EXCEPT ![w] = NoWriter]
      /\ UNCHANGED <<inodeOf, reader, writes>> /\ UNCHANGED keyVars
    BY DEF CloseWriter
<1>k. KeysOK'
    BY <1>2, KeysStayOK DEF EncInv, EncTypeOK
<1>3. /\ writer[w] \in Writer /\ i \in DOMAIN inode /\ inode[i] \in Inode /\ sealed[i] \in Seal
      /\ inode \in [DOMAIN inode -> Inode] /\ sealed \in [DOMAIN inode -> Seal]
      /\ writer \in [Writers -> Writer] /\ n \in Nat
    BY <1>2, WriterPlace
<1> DEFINE b == Overwrite(inode[i].body, n, len)
<1>4. inode[i].body.len \in Nat
    BY <1>3 DEF Inode, Body
<1>5. b \in Body
    BY <1>3, <1>4 DEF Overwrite, Body, generateDEK, Torn, None
<1>6. inode[i].body = NoBody => b.write = n /\ b.dek = n
    BY DEF Overwrite, NoBody, generateDEK
<1> HIDE DEF b
<1>7. /\ inode' \in [DOMAIN inode -> Inode] /\ inode'[i].header = inode[i].header
      /\ inode'[i].body = b
      /\ \A j \in DOMAIN inode : j # i => inode'[j] = inode[j]
  <2> DEFINE x == [inode[i] EXCEPT !.body = b]
  <2>1. x \in Inode /\ x.body = b /\ x.header = inode[i].header
      BY <1>3, <1>5, InodeExcept
  <2> HIDE DEF x, i
  <2>2. inode' = [inode EXCEPT ![i] = x]
      BY <1>1 DEF x, b
  <2> QED
      BY <1>3, <2>1, <2>2
<1>8. /\ sealed' \in [DOMAIN inode -> Seal] /\ sealed'[i].closed = C
      /\ sealed'[i].made = sealed[i].made
      /\ \A j \in DOMAIN inode : j # i => sealed'[j] = sealed[j]
  <2> DEFINE x == [sealed[i] EXCEPT !.closed = C]
  <2>1. C \in SUBSET Nat
      BY <1>3 DEF Seal
  <2>2. x \in Seal /\ x.closed = C /\ x.made = sealed[i].made
      BY <1>3, <2>1, SealExcept
  <2> HIDE DEF x, i, C
  <2>3. sealed' = [sealed EXCEPT ![i] = x]
      BY <1>2 DEF x
  <2> QED
      BY <1>3, <2>2, <2>3
<1>9. /\ writer' \in [Writers -> Writer] /\ writer'[w].at = "idle"
      /\ \A v \in Writers : v # w => writer'[v] = writer[v]
    BY <1>2, <1>3 DEF NoWriter, Writer, None
<1>10. /\ sealed'[i].closed = sealed[i].closed \cup {n}
       /\ inode[i].body = NoBody => inode'[i].body.write = n /\ inode'[i].body.dek = n
    BY <1>6, <1>7, <1>8
<1>11. /\ writer[w].at \in {"header", "open"} /\ UNCHANGED <<inodeOf, reader, writes>>
       /\ \A j \in DOMAIN inode : j # i => inode'[j] = inode[j] /\ sealed'[j] = sealed[j]
    BY <1>2, <1>7, <1>8
<1>12. /\ sealed'[i].closed = sealed[i].closed \cup {n}
       /\ writer[w].at = "open" /\ writer'[w].at = "idle"
       /\ inode'[i].header = inode[i].header
       /\ inode[i].body = NoBody => inode'[i].body.write = n /\ inode'[i].body.dek = n
    BY <1>2, <1>7, <1>9, <1>10
<1>13. /\ inode' \in [DOMAIN inode -> Inode] /\ sealed' \in [DOMAIN inode -> Seal]
       /\ sealed'[i].made = sealed[i].made
       /\ writer' \in [Writers -> Writer]
       /\ \A v \in Writers : v # w => writer'[v] = writer[v]
    BY <1>7, <1>8, <1>9
<1> HIDE DEF C
<1> QED
    BY <1>k, <1>11, <1>12, <1>13, WriteKeeps

\* A write that fails leaves what was there, or a body nothing opens.
LEMMA WriteFailsKeeps ==
    ASSUME EncInv, NEW w \in Writers, WriteFails(w)
    PROVE  EncInv'
<1> DEFINE i == writer[w].on
           b == [write |-> writer[w].write, len |-> 1, dek |-> Torn]
<1>1. /\ writer[w].at \in {"header", "open"} /\ writer' = [writer EXCEPT ![w] = NoWriter]
      /\ inode' = inode \/ inode' = [inode EXCEPT ![i] = [inode[i] EXCEPT !.body = b]]
      /\ UNCHANGED <<inodeOf, reader, writes, sealed>> /\ UNCHANGED keyVars
    BY DEF WriteFails
<1>k. KeysOK'
    BY <1>1, KeysStayOK DEF EncInv, EncTypeOK
<1>2. /\ writer[w].write \in Nat /\ i \in DOMAIN inode /\ inode[i] \in Inode
      /\ inode \in [DOMAIN inode -> Inode] /\ sealed \in [DOMAIN inode -> Seal]
      /\ writer \in [Writers -> Writer] /\ reader \in [Readers -> Reader]
    BY <1>1, WriterPlace
<1>3. /\ writer' \in [Writers -> Writer] /\ writer'[w].at = "idle"
      /\ \A v \in Writers : v # w => writer'[v] = writer[v]
    BY <1>1, <1>2 DEF NoWriter, Writer, None
<1>4. CASE inode' = inode
  <2>1. \A v \in Writers : writer'[v] = writer[v] \/ writer'[v].at = "idle"
      BY <1>3
  <2> QED
      BY <1>1, <1>k, <1>2, <1>3, <1>4, <2>1, WritersEnd
<1>5. CASE inode' = [inode EXCEPT ![i] = [inode[i] EXCEPT !.body = b]]
  <2>1. b \in Body
      BY <1>2 DEF Body, Torn, None
  <2> HIDE DEF b
  <2>2. /\ inode' \in [DOMAIN inode -> Inode]
        /\ \A j \in DOMAIN inode : j # i => inode'[j] = inode[j]
    <3> DEFINE x == [inode[i] EXCEPT !.body = b]
    <3>1. x \in Inode
        BY <1>2, <2>1, InodeExcept
    <3> HIDE DEF x, i
    <3>2. inode' = [inode EXCEPT ![i] = x]
        BY <1>5 DEF x
    <3> QED
        BY <1>2, <3>1, <3>2
  <2> HIDE DEF i
  <2> QED
      BY <1>1, <1>k, <1>2, <1>3, <2>2, WriteKeeps DEF i
<1> QED
    BY <1>1, <1>4, <1>5

\* Every step keeps what was written and what is read.
LEMMA EncStep == EncInv /\ [EncNext]_encVars => EncInv'
<1> SUFFICES ASSUME EncInv, [EncNext]_encVars PROVE EncInv'
    OBVIOUS
<1>t. KeysOK /\ \A p \in DOMAIN inodeOf : inodeOf[p] \in DOMAIN inode
    BY DEF EncInv, EncTypeOK
<1>1. ASSUME NEW w \in Writers,
             \/ CreateVersion(w) \/ WriteHeader(w) \/ CloseWriter(w) \/ WriteFails(w)
             \/ \E p \in Files : CreateInner(w, p)
      PROVE  EncInv'
    BY <1>1, CreateVersionKeeps, WriteHeaderKeeps, CloseWriterKeeps, WriteFailsKeeps,
       CreateInnerKeeps
<1>2. ASSUME NEW r \in Readers,
             \/ ParseHeader(r) \/ ReadBody(r) \/ CloseReader(r)
             \/ \E p \in Files : OpenInner(r, p)
      PROVE  EncInv'
    BY <1>2, ReaderStep
<1>3. ASSUME NEW p \in Files, DeleteInner(p) PROVE EncInv'
  <2>1. UNCHANGED <<inode, writer, reader, writes, sealed>> /\ KeysOK'
      BY <1>3, <1>t, KeysStayOK DEF DeleteInner
  <2>2. \A q \in DOMAIN inodeOf' : inodeOf'[q] \in DOMAIN inode
      BY <1>3, <1>t DEF DeleteInner, Without
  <2> QED
      BY <2>1, <2>2, PathsKeep
<1>4. ASSUME NEW p \in Files, NEW q \in Files, RenameInner(p, q) PROVE EncInv'
  <2>1. UNCHANGED <<inode, writer, reader, writes, sealed>> /\ KeysOK'
      BY <1>4, <1>t, KeysStayOK DEF RenameInner
  <2>2. \A f \in DOMAIN inodeOf' : inodeOf'[f] \in DOMAIN inode
      BY <1>4, <1>t DEF RenameInner, Put, Without
  <2> QED
      BY <2>1, <2>2, PathsKeep
<1>5. CASE RotateTick
    BY <1>5, <1>t, KeysStayOK, PathsKeep DEF RotateTick
<1>6. CASE Restart
  <2>1. UNCHANGED <<inodeOf, inode, writes, sealed>> /\ KeysOK'
      BY <1>6, <1>t, KeysStayOK DEF Restart
  <2>2. /\ writer' \in [Writers -> Writer] /\ reader' \in [Readers -> Reader]
        /\ \A v \in Writers : writer'[v].at = "idle"
        /\ \A r \in Readers : reader'[r].at = "idle"
      BY <1>6 DEF Restart, NoWriter, NoReader, Writer, Reader, None
  <2> QED
      BY <2>1, <2>2, WritersEnd
<1>7. CASE UNCHANGED encVars
    BY <1>7, <1>t, KeysStayOK, PathsKeep DEF encVars, keyVars
<1> QED
    BY <1>1, <1>2, <1>3, <1>4, <1>5, <1>6, <1>7 DEF EncNext

------------------------------------------------------------------------------
\* A file that one writer created and closed opens and holds what was written,
\* through any number of rotations and restarts.
THEOREM ClosedFilesOpen == EncSpec => []ClosedFileOpens
<1>1. ASSUME EncInv PROVE ClosedFileOpens
  <2> SUFFICES ASSUME NEW i \in DOMAIN sealed, sealed[i].made = {i}, sealed[i].closed = {i}
               PROVE  Decrypts(inode[i].header, inode[i].body) /\ inode[i].body.write = i
      BY DEF ClosedFileOpens
  <2>1. i \in DOMAIN inode /\ inode[i] \in Inode /\ KeysOK
      BY <1>1 DEF EncInv, EncTypeOK
  <2>2. Whole(i)
      BY <1>1, <2>1 DEF EncInv, Alone
  <2>3. inode[i].header \in Header /\ inode[i].body \in Body
      BY <2>1, <2>2 DEF Whole, Inode
  <2> QED
      BY <2>1, <2>2, <2>3, HeaderOpens DEF Whole
<1> QED
    BY EncInitially, EncStep, <1>1, PTL DEF EncSpec

\* What a reader gets is the write its header is of, whoever creates the path
\* anew meanwhile.
THEOREM ReadersGetOneWrite == EncSpec => []ReaderGetsOneWrite
<1>1. EncInv => ReaderGetsOneWrite
    BY DEF EncInv, ReadsOne, ReaderGetsOneWrite
<1> QED
    BY EncInitially, EncStep, <1>1, PTL DEF EncSpec
==============================================================================
