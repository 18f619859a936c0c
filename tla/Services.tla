------------------------------- MODULE Services -------------------------------
(***************************************************************************)
(* The services of cmd/purefsd that share neither a variable nor a lock    *)
(* with the files' services (FileService) or with each other, as they are  *)
(* modelled.  Each property is about the variables of one of them, and so  *)
(* is checked with that one moving and the others at rest: what they might *)
(* do meanwhile leaves its variables as they are.                          *)
(***************************************************************************)
EXTENDS SftpServer, UserService, EncryptedStorage, ShareService, RateLimiter,
        SearchService, Permissions

VARIABLE moving    \* the component whose steps are looked at

servicesVars == <<moving, sftpVars, userVars, encVars, shareVars, rateVars, searchVars, permVars>>

ServicesInit ==
    /\ moving \in {"sftp", "accounts", "encryption", "shares", "limiter", "search", "permissions"}
    /\ moving # "sftp" => driver = CHOOSE d \in Drivers : TRUE
    /\ SftpInit /\ UserInit /\ EncInit /\ ShareInit /\ RateInit /\ SearchInit /\ PermInit

Sftp(A)   == /\ moving = "sftp" /\ A
             /\ UNCHANGED <<moving, userVars, encVars, shareVars, rateVars, searchVars, permVars>>
User(A)   == /\ moving = "accounts" /\ A
             /\ UNCHANGED <<moving, sftpVars, encVars, shareVars, rateVars, searchVars, permVars>>
Enc(A)    == /\ moving = "encryption" /\ A
             /\ UNCHANGED <<moving, sftpVars, userVars, shareVars, rateVars, searchVars, permVars>>
Share(A)  == /\ moving = "shares" /\ A
             /\ UNCHANGED <<moving, sftpVars, userVars, encVars, rateVars, searchVars, permVars>>
Limit(A)  == /\ moving = "limiter" /\ A
             /\ UNCHANGED <<moving, sftpVars, userVars, encVars, shareVars, searchVars, permVars>>
Index(A)  == /\ moving = "search" /\ A
             /\ UNCHANGED <<moving, sftpVars, userVars, encVars, shareVars, rateVars, permVars>>
Permit(A) == /\ moving = "permissions" /\ A
             /\ UNCHANGED <<moving, sftpVars, userVars, encVars, shareVars, rateVars, searchVars>>

ServicesNext ==
    \/ Sftp(SftpNext) \/ User(UserNext) \/ Enc(EncNext) \/ Share(ShareNext)
    \/ Limit(RateNext) \/ Index(SearchNext) \/ Permit(PermNext)

ServicesSpec == ServicesInit /\ [][ServicesNext]_servicesVars

\* A session's goroutine reads on while there are packets, and its client takes
\* the answers; a token runs out with time; a worker takes tasks while there are
\* any, and a request that has written its row submits its task.  Nobody has to
\* send a request, nor to log in.
Progress ==
    /\ \A s \in Sessions :
         /\ WF_servicesVars(Sftp(dispatch(s) /\ UNCHANGED driver))
         /\ WF_servicesVars(Sftp(Receive(s) /\ UNCHANGED driver))
    /\ \A k \in Clients : WF_servicesVars(User(JWTExpires(k)))
    /\ \A u \in Uploaders : WF_servicesVars(Index(SubmitAsync(u)))
    /\ \A w \in Indexers : WF_servicesVars(Index(handleTask(w)))

FairServices == ServicesSpec /\ Progress
===============================================================================
