--------------------------- MODULE EncryptedStorage ---------------------------
(***************************************************************************)
(* internal/storage/encrypted.go and internal/crypto/stream.go over        *)
(* LocalStorage: a file is a header, written when it is created, that      *)
(* holds its data key wrapped by the current key encryption key, and a     *)
(* body, sealed under the data key and written when the writer closes.     *)
(* Writers and readers of one path share its inode and no lock; the ticker *)
(* of main.go rotates the keys meanwhile, and the server may restart.      *)
(*                                                                         *)
(* A write is known by its number.  The plaintext is abstracted to the     *)
(* number of the write and its length.                                     *)
(***************************************************************************)
EXTENDS KeyManager

CONSTANTS Writers, Readers, Files,
          MaxWritesOfFiles, MaxVersion, MaxRestarts   \* bounds

ASSUME EncryptedAssumption ==
    MaxWritesOfFiles \in Nat /\ MaxVersion \in Nat /\ MaxRestarts \in Nat

VARIABLES inodeOf,    \* path -> the inode it names (the write that made it)
          inode,      \* inode -> its header and its body
          writer,     \* writer -> where createEncrypted or the write stands
          reader,     \* reader -> where openEncrypted stands
          writes,     \* how many writes have begun
          sealed,     \* ghost: inode -> the writes created on it, and those closed
          restarts

encVars == <<currentVersion, keks, inodeOf, inode, writer, reader, writes, sealed, restarts>>

NoHeader == [write |-> None, version |-> None, dek |-> None, kek |-> None]
NoBody   == [write |-> None, dek |-> None, len |-> 0]
Empty    == [header |-> NoHeader, body |-> NoBody]
Torn     == None     \* the data key of a body that no key opens

NoWriter == [at |-> "idle", version |-> None, write |-> None, on |-> None]
NoReader == [at |-> "idle", on |-> None, header |-> NoHeader, got |-> None]

EncInit ==
    /\ NewKeyManager
    /\ inodeOf = <<>> /\ inode = <<>> /\ writes = 0 /\ sealed = <<>> /\ restarts = 0
    /\ writer = [w \in Writers |-> NoWriter]
    /\ reader = [r \in Readers |-> NoReader]

------------------------------------------------------------------------------
(* createEncrypted: the version, its key, then the file and its header.      *)

\* A plausible slip: one data key for all the files of a key version.
generateDEKOfVersion(write) == 1

\* 32 random bytes, for this write alone.
generateDEK(write) == write

\* A plausible slip: the header names the version current when it is built.
buildHeaderNow(write, version) ==
    [write |-> write, version |-> currentVersion, dek |-> generateDEK(write), kek |-> GetKEK(version)]

\* The data key, sealed under the key of the version the header names.
buildHeader(write, version) ==
    [write |-> write, version |-> version, dek |-> generateDEK(write), kek |-> GetKEK(version)]

CreateVersion(w) ==
    /\ writer[w].at = "idle" /\ writes < MaxWritesOfFiles
    /\ writes' = writes + 1
    /\ writer' = [writer EXCEPT ![w] = [at |-> "version", version |-> currentVersion,
                                        write |-> writes', on |-> None]]
    /\ UNCHANGED <<keyVars, inodeOf, inode, reader, sealed, restarts>>

\* os.Create empties the file that is there and keeps its inode.
CreateInner(w, p) ==
    LET i == IF p \in DOMAIN inodeOf THEN inodeOf[p] ELSE writer[w].write
    IN /\ writer[w].at = "version"
       /\ Cached(writer[w].version)
       /\ inodeOf' = Put(inodeOf, p, i)
       /\ inode' = Put(inode, i, Empty)
       /\ sealed' = Put(sealed, i,
              IF i \in DOMAIN sealed
                THEN [sealed[i] EXCEPT !.made = @ \cup {writer[w].write}]
                ELSE [made |-> {writer[w].write}, closed |-> {}])
       /\ writer' = [writer EXCEPT ![w].at = "header", ![w].on = i]
       /\ UNCHANGED <<reader, writes, restarts>>

WriteHeader(w) ==
    /\ writer[w].at = "header"
    /\ inode' = [inode EXCEPT ![writer[w].on].header =
                                   buildHeader(writer[w].write, writer[w].version)]
    /\ writer' = [writer EXCEPT ![w].at = "open"]
    /\ UNCHANGED <<keyVars, inodeOf, reader, writes, sealed, restarts>>

\* EncryptedWriter.Close: the plaintext gathered so far is sealed and written
\* behind the header, over what is there; a longer body keeps its tail.
Overwrite(body, write, len) ==
    [write |-> write, len |-> IF body.len > len THEN body.len ELSE len,
     dek |-> IF body.len > len THEN Torn ELSE generateDEK(write)]

CloseWriter(w) ==
    /\ writer[w].at = "open"
    /\ \E len \in {1, 2} :
         inode' = [inode EXCEPT ![writer[w].on].body = Overwrite(@, writer[w].write, len)]
    /\ sealed' = [sealed EXCEPT ![writer[w].on].closed = @ \cup {writer[w].write}]
    /\ writer' = [writer EXCEPT ![w] = NoWriter]
    /\ UNCHANGED <<keyVars, inodeOf, reader, writes, restarts>>

\* A Write of the header or of the body fails, part of it written.
WriteFails(w) ==
    /\ writer[w].at \in {"header", "open"}
    /\ \/ UNCHANGED inode
       \/ /\ writer[w].at = "open"
          /\ inode' = [inode EXCEPT ![writer[w].on].body =
                           [write |-> writer[w].write, len |-> 1, dek |-> Torn]]
    /\ writer' = [writer EXCEPT ![w] = NoWriter]
    /\ UNCHANGED <<keyVars, inodeOf, reader, writes, sealed, restarts>>

------------------------------------------------------------------------------
(* openEncrypted: the header, then the key it names, then all of the body.   *)

OpenInner(r, p) ==
    /\ reader[r].at = "idle" /\ p \in DOMAIN inodeOf
    /\ reader' = [reader EXCEPT ![r] = [at |-> "open", on |-> inodeOf[p],
                                        header |-> NoHeader, got |-> None]]
    /\ UNCHANGED <<keyVars, inodeOf, inode, writer, writes, sealed, restarts>>

\* A header that is not there, or is zeroes, is no header.
ParseHeader(r) ==
    LET header == inode[reader[r].on].header
    IN /\ reader[r].at = "open"
       /\ IF header = NoHeader
            THEN reader' = [reader EXCEPT ![r] = NoReader] /\ UNCHANGED keyVars
            ELSE /\ reader' = [reader EXCEPT ![r].at = "header", ![r].header = header]
                 /\ Cached(header.version)
       /\ UNCHANGED <<inodeOf, inode, writer, writes, sealed, restarts>>

DecryptDEK(header) == header.kek = GetKEK(header.version)
Decrypts(header, body) ==
    header # NoHeader /\ DecryptDEK(header) /\ body # NoBody /\ body.dek = header.dek

ReadBody(r) ==
    LET body == inode[reader[r].on].body
    IN /\ reader[r].at = "header"
       /\ reader' = [reader EXCEPT ![r] =
              IF Decrypts(@.header, body) THEN [@ EXCEPT !.at = "read", !.got = body.write]
                                          ELSE NoReader]
       /\ UNCHANGED <<keyVars, inodeOf, inode, writer, writes, sealed, restarts>>

CloseReader(r) ==
    /\ reader[r].at = "read" /\ reader' = [reader EXCEPT ![r] = NoReader]
    /\ UNCHANGED <<keyVars, inodeOf, inode, writer, writes, sealed, restarts>>

------------------------------------------------------------------------------
(* Calls that go to the inner storage as they are, the ticker and a restart. *)

DeleteInner(p) ==
    /\ p \in DOMAIN inodeOf /\ inodeOf' = Without(inodeOf, {p})
    /\ UNCHANGED <<keyVars, inode, writer, reader, writes, sealed, restarts>>

RenameInner(p, q) ==
    /\ p \in DOMAIN inodeOf /\ p # q
    /\ inodeOf' = Put(Without(inodeOf, {p}), q, inodeOf[p])
    /\ UNCHANGED <<keyVars, inode, writer, reader, writes, sealed, restarts>>

RotateTick ==
    /\ currentVersion < MaxVersion /\ Rotate
    /\ UNCHANGED <<inodeOf, inode, writer, reader, writes, sealed, restarts>>

\* What a writer has not closed is gone with its buffer.
Restart ==
    /\ restarts < MaxRestarts /\ restarts' = restarts + 1
    /\ Restarted
    /\ writer' = [w \in Writers |-> NoWriter] /\ reader' = [r \in Readers |-> NoReader]
    /\ UNCHANGED <<inodeOf, inode, writes, sealed>>

EncNext ==
    \/ \E w \in Writers :
         \/ CreateVersion(w) \/ WriteHeader(w) \/ CloseWriter(w) \/ WriteFails(w)
         \/ \E p \in Files : CreateInner(w, p)
    \/ \E r \in Readers :
         \/ ParseHeader(r) \/ ReadBody(r) \/ CloseReader(r)
         \/ \E p \in Files : OpenInner(r, p)
    \/ \E p \in Files : DeleteInner(p) \/ \E q \in Files : RenameInner(p, q)
    \/ RotateTick \/ Restart

EncSpec == EncInit /\ [][EncNext]_encVars

------------------------------------------------------------------------------
\* A file that one writer has created and closed is read back as it was written,
\* however often the keys were rotated while it was written and since, and though
\* the server has restarted and counts its versions from 1 again.
ClosedFileOpens ==
    \A i \in DOMAIN sealed :
        sealed[i].made = {i} /\ sealed[i].closed = {i}
            => Decrypts(inode[i].header, inode[i].body) /\ inode[i].body.write = i

\* What a reader gets while others create the same path anew is the write whose
\* header it read: never the body of one write under the header of another.
ReaderGetsOneWrite ==
    \A r \in Readers : reader[r].at = "read" => reader[r].got = reader[r].header.write
===============================================================================
