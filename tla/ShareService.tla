----------------------------- MODULE ShareService -----------------------------
(***************************************************************************)
(* internal/service/share_service.go, its repository and its two handlers: *)
(* one share of one file.  A request reads the share's row, decides, and   *)
(* counts the access in a later statement; requests run concurrently, and  *)
(* the owner may deactivate the share or delete the file meanwhile.        *)
(***************************************************************************)
EXTENDS Maps

CONSTANTS Visitors,   \* requests with the share's token, one at a time each
          Limits,     \* the values max_accesses may be given
          MaxServed   \* bound on the answers given

ASSUME ShareAssumption == Limits \subseteq Nat /\ MaxServed \in Nat
ASSUME VisitorsAssumption == IsFiniteSet(Visitors) /\ Visitors # {}

VARIABLES share,      \* the row, and whether there is one
          sharedFile, \* whether the file's row is there
          visit,      \* visitor -> its request, and the count in the row it read
          served,     \* ghost: requests let through, of those that are to be counted
          uncounted   \* ghost: of these, those whose statement failed

shareVars == <<share, sharedFile, visit, served, uncounted>>

NoShare == [made |-> FALSE, limited |-> FALSE, max_accesses |-> 0, access_count |-> 0,
            can_download |-> FALSE, is_active |-> FALSE, expired |-> FALSE]

NoVisit == [kind |-> "none", count |-> 0]

ShareInit ==
    /\ share = NoShare /\ sharedFile = TRUE /\ served = 0 /\ uncounted = 0
    /\ visit = [v \in Visitors |-> NoVisit]

------------------------------------------------------------------------------
CreateShare ==
    /\ ~share.made /\ sharedFile
    /\ \E max \in Limits, limited, can \in BOOLEAN :
          share' = [made |-> TRUE, limited |-> limited, max_accesses |-> max,
                    access_count |-> 0, can_download |-> can, is_active |-> TRUE,
                    expired |-> FALSE]
    /\ UNCHANGED <<sharedFile, visit, served, uncounted>>

\* validateShare: one reading of the row and one of the file's.
ValidateShare ==
    /\ share.made /\ share.is_active /\ ~share.expired
    /\ share.limited => share.access_count < share.max_accesses
    /\ sharedFile

\* A plausible slip: the count written is the one read, plus one.
IncrementAccessStale(v) ==
    share' = [share EXCEPT !.access_count = visit[v].count + 1]

IncrementAccess(v) == share' = [share EXCEPT !.access_count = @ + 1]

\* PublicShareHandler.ServeContent and ShareHandler.GetShare, up to the count.
Begins(v, kind) ==
    /\ visit[v] = NoVisit /\ served + uncounted < MaxServed
    /\ ValidateShare
    /\ visit' = [visit EXCEPT ![v] = [kind |-> kind, count |-> share.access_count]]
    /\ UNCHANGED <<share, sharedFile, served, uncounted>>

ServeContent(v) == share.can_download /\ Begins(v, "content")
GetShare(v)     == Begins(v, "view")

\* PublicShareHandler.GetShare asks the same, and answers the row uncounted.
GetPublicShare(v) == Begins(v, "look")

Counted(v) == visit[v].kind \in {"content", "view"}

\* RecordAccess finds the row again by its token: rows of shares are not deleted.
RecordAccess(v) ==
    /\ Counted(v)
    /\ IncrementAccess(v)
    /\ served' = served + 1
    /\ visit' = [visit EXCEPT ![v] = NoVisit]
    /\ UNCHANGED <<sharedFile, uncounted>>

\* ServeContent drops the error of RecordAccess and serves; GetShare does not.
RecordFails(v) ==
    /\ Counted(v)
    /\ IF visit[v].kind = "content" THEN served' = served + 1 /\ uncounted' = uncounted + 1
                               ELSE UNCHANGED <<served, uncounted>>
    /\ visit' = [visit EXCEPT ![v] = NoVisit]
    /\ UNCHANGED <<share, sharedFile>>

\* DownloadPublic fails: the file's row is gone, or its bytes cannot be opened.  Or
\* the row is answered and nothing counted.
DownloadFails(v) ==
    /\ visit[v].kind \in {"content", "look"}
    /\ visit' = [visit EXCEPT ![v] = NoVisit]
    /\ UNCHANGED <<share, sharedFile, served, uncounted>>

DeactivateShare ==
    /\ share.made /\ share' = [share EXCEPT !.is_active = FALSE]
    /\ UNCHANGED <<sharedFile, visit, served, uncounted>>

ShareExpires ==
    /\ share.made /\ share' = [share EXCEPT !.expired = TRUE]
    /\ UNCHANGED <<sharedFile, visit, served, uncounted>>

SharedFileGoes ==
    /\ sharedFile /\ sharedFile' = FALSE
    /\ UNCHANGED <<share, visit, served, uncounted>>

ShareNext ==
    \/ CreateShare \/ DeactivateShare \/ ShareExpires \/ SharedFileGoes
    \/ \E v \in Visitors :
         \/ ServeContent(v) \/ GetShare(v) \/ GetPublicShare(v)
         \/ RecordAccess(v) \/ RecordFails(v) \/ DownloadFails(v)

ShareSpec == ShareInit /\ [][ShareNext]_shareVars

------------------------------------------------------------------------------
\* The test of max_accesses and the count are two statements, so that requests
\* at the same time pass the limit; they pass it by fewer than there are of them,
\* but for accesses whose count failed.  The views of PublicShareHandler.GetShare
\* are not counted, and are not among those served.
ServedWithinLimit ==
    share.limited
        => served < share.max_accesses + Cardinality(Visitors) + uncounted
===============================================================================
