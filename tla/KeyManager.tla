------------------------------ MODULE KeyManager ------------------------------
(***************************************************************************)
(* internal/crypto/key_manager.go: the key encryption keys, derived from   *)
(* the master key and cached by version.  The version is kept in memory    *)
(* only: a restart begins at 1 again, whatever versions the files name.    *)
(***************************************************************************)
EXTENDS Maps

VARIABLES currentVersion, keks

keyVars == <<currentVersion, keks>>

\* Two versions have different keys; a version has the same key for ever.
HKDF(version) == [secret |-> "master", info |-> version]

NewKeyManager == currentVersion = 1 /\ keks = Put(<<>>, 1, [secret |-> "master", info |-> 1])
Restarted     == currentVersion' = 1 /\ keks' = Put(<<>>, 1, HKDF(1))

\* The cached key, or the one derived under the write lock; Cached keeps it.
GetKEK(version) == IF version \in DOMAIN keks THEN keks[version] ELSE HKDF(version)
Cached(version) == keks' = Put(keks, version, GetKEK(version)) /\ UNCHANGED currentVersion

Rotate ==
    /\ currentVersion' = currentVersion + 1
    /\ keks' = Put(keks, currentVersion', HKDF(currentVersion'))
===============================================================================
