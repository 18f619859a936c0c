----------------------------- MODULE UserService -----------------------------
(***************************************************************************)
(* internal/service/user_service.go over repository/user.go: one account,  *)
(* the requests that change it and the tokens its clients hold.  A request *)
(* reads the row in one statement and writes it back in another; Update    *)
(* writes every column it was read with, except those that have statements *)
(* of their own.  Requests run concurrently, each in a goroutine of its    *)
(* own, and any statement may fail.                                        *)
(***************************************************************************)
EXTENDS Maps

CONSTANTS Calls,      \* the requests that may be under way at once
          Clients,    \* holders of tokens
          WrappedKeys, \* the E2EE keys clients store
          Secrets,    \* the TOTP secrets that may be made up
          TokenLife,  \* JWTExpiry
          MaxTokens   \* bound on the reset tokens made up

ASSUME UserAssumption ==
    /\ MaxTokens \in Nat /\ WrappedKeys \subseteq Nat /\ TokenLife \in Nat \ {0}
    /\ Secrets \subseteq Nat \ {None}

VARIABLES user,     \* the row; password, quota, usage and profile are left out
          made,     \* how many reset tokens have been made up
          call,     \* request -> Quiet, or what it does next and the row it read
          jwt,      \* client -> the time left to its newest token
          spent,    \* ghost: reset tokens a ResetPassword has returned OK for
          acked,    \* ghost: the wrapped E2EE key last acknowledged
          proven    \* ghost: secrets a code was accepted of by EnableTOTP, and those
                    \* SetupTOTP has put in a row it read as asking for codes

userVars == <<user, made, call, jwt, spent, acked, proven>>

\* A secret or a wrapped key is a number, None when the column is empty.
NewRow == [totp_secret |-> None, totp_enabled |-> FALSE, is_active |-> TRUE,
           reset_token |-> None, expired |-> FALSE, e2ee |-> None]
Quiet == [op |-> "quiet", u |-> NewRow]

\* Register has made the account (AdminCreateUser makes the same row).
UserInit ==
    /\ user = NewRow /\ made = 0 /\ spent = {}
    /\ jwt = [k \in Clients |-> 0]
    /\ call = [c \in Calls |-> Quiet]
    /\ acked = None /\ proven = {}

------------------------------------------------------------------------------
(* repository/user.go.                                                       *)

\* A plausible slip: the statement writes all the columns of the row.
UpdateAll(u) == user' = u

\* Columns of the row as it was read, but for those with other statements.
Update(u) == user' = [u EXCEPT !.reset_token = user.reset_token, !.expired = user.expired,
                               !.e2ee = user.e2ee]

SetResetToken(t)  == user' = [user EXCEPT !.reset_token = t, !.expired = FALSE]
SetE2EEKeys(k)    == user' = [user EXCEPT !.e2ee = k]
ClearE2EE         == user' = [user EXCEPT !.e2ee = None]

\* The empty token of an account that has none is given an expiry in the past.
GetByResetToken(t) == t # None /\ user.reset_token = t /\ ~user.expired

------------------------------------------------------------------------------
(* Requests that read the row and write it back.  The JSON is decoded and    *)
(* the token tested before the row is read.                                  *)

\* middleware.Auth asks for a token that has not expired and reads no row.
Auth == \E k \in Clients : jwt[k] > 0

Reads(c, op, row) ==
    /\ call[c] = Quiet
    /\ call' = [call EXCEPT ![c] = [op |-> op, u |-> row]]
    /\ UNCHANGED <<user, made, jwt, spent, acked, proven>>

\* It does not select the columns of the reset token.
GetByID(c, op) == Reads(c, op, [user EXCEPT !.reset_token = None, !.expired = FALSE])

Writes(c, op, row) ==
    /\ call[c].op = op
    /\ Update(row)
    /\ call' = [call EXCEPT ![c] = Quiet]
    /\ UNCHANGED <<made, jwt, spent, acked>>

HandleTOTP(c)   == Auth /\ \E op \in {"setup", "enable", "disable"} : GetByID(c, op)
HandleToggle(c) == \E op \in {"activate", "deactivate"} : GetByID(c, op)

\* The new secret takes the place of the old one at once, asked for or not.
SetupTOTP(c) ==
    \E x \in Secrets :
        /\ Writes(c, "setup", [call[c].u EXCEPT !.totp_secret = x])
        /\ proven' = IF call[c].u.totp_enabled THEN proven \cup {x} ELSE proven

DisableTOTP(c) ==
    /\ Writes(c, "disable", [call[c].u EXCEPT !.totp_enabled = FALSE, !.totp_secret = None])
    /\ UNCHANGED proven
ToggleUserActive(c) ==
    /\ \/ Writes(c, "activate", [call[c].u EXCEPT !.is_active = TRUE])
       \/ Writes(c, "deactivate", [call[c].u EXCEPT !.is_active = FALSE])
    /\ UNCHANGED proven

\* A plausible slip: enabling is a statement on its own column.
EnableTOTPColumn(c) ==
    /\ call[c].op = "enable"
    /\ user' = [user EXCEPT !.totp_enabled = TRUE]
    /\ call' = [call EXCEPT ![c] = Quiet]
    /\ proven' = proven \cup {call[c].u.totp_secret}
    /\ UNCHANGED <<made, jwt, spent, acked>>

\* The code is one of the secret in the row that was read, which may be the empty
\* one: whether there is a secret is not asked.
EnableTOTP(c) ==
    /\ Writes(c, "enable", [call[c].u EXCEPT !.totp_enabled = TRUE])
    /\ proven' = proven \cup {call[c].u.totp_secret}

\* Of the user GetByUsername reads, only the id is used.
ForgotPassword ==
    /\ made < MaxTokens /\ made' = made + 1
    /\ SetResetToken(made')
    /\ UNCHANGED <<call, jwt, spent, acked, proven>>

HandleReset(c) == (\E t \in 1..made : GetByResetToken(t)) /\ Reads(c, "reset", user)

\* Update leaves the token in place; a statement of its own takes it away.
ResetPassword(c) ==
    /\ call[c].op = "reset" /\ Update(call[c].u)
    /\ call' = [call EXCEPT ![c].op = "clear"]
    /\ UNCHANGED <<made, jwt, spent, acked, proven>>

\* A plausible slip: Update is believed to have cleared the token.
ClearResetTokenSkipped(c) ==
    /\ call[c].op = "clear"
    /\ spent' = spent \cup {call[c].u.reset_token}
    /\ call' = [call EXCEPT ![c] = Quiet]
    /\ UNCHANGED <<user, made, jwt, acked, proven>>

ClearResetToken(c) ==
    /\ call[c].op = "clear"
    /\ SetResetToken(None)
    /\ spent' = spent \cup {call[c].u.reset_token}
    /\ call' = [call EXCEPT ![c] = Quiet]
    /\ UNCHANGED <<made, jwt, acked, proven>>

\* A statement fails, or the code or the new password is refused.
CallFails(c) ==
    /\ call[c] # Quiet
    /\ call' = [call EXCEPT ![c] = Quiet]
    /\ UNCHANGED <<user, made, jwt, spent, acked, proven>>

------------------------------------------------------------------------------
(* Requests of one statement, logins and the passing of time.                *)

SetE2EE ==
    /\ Auth /\ \E k \in WrappedKeys : SetE2EEKeys(k) /\ acked' = k
    /\ UNCHANGED <<made, call, jwt, spent, proven>>
DisableE2EE ==
    /\ Auth /\ ClearE2EE /\ acked' = None
    /\ UNCHANGED <<made, call, jwt, spent, proven>>

GenerateToken(k) == jwt' = [jwt EXCEPT ![k] = TokenLife] /\ UNCHANGED <<user, made, call, spent, acked, proven>>

\* The password is right, and so is the code, one of the secret in the row, when
\* the account asks for one.
Login(k) == user.is_active /\ GenerateToken(k)

\* A plausible slip: the token is taken as proof enough.
RefreshTokenUnchecked(k) == jwt[k] > 0 /\ GenerateToken(k)

RefreshToken(k) == jwt[k] > 0 /\ user.is_active /\ GenerateToken(k)

ResetTokenExpires ==
    /\ user.reset_token # None /\ user' = [user EXCEPT !.expired = TRUE]
    /\ UNCHANGED <<made, call, jwt, spent, acked, proven>>

\* Time passes; at 0 ParseToken refuses the token.
JWTExpires(k) ==
    /\ jwt[k] > 0 /\ jwt' = [jwt EXCEPT ![k] = @ - 1]
    /\ UNCHANGED <<user, made, call, spent, acked, proven>>

UserNext ==
    \/ \E c \in Calls :
         \/ HandleTOTP(c) \/ HandleToggle(c) \/ HandleReset(c)
         \/ SetupTOTP(c) \/ EnableTOTP(c) \/ DisableTOTP(c) \/ ToggleUserActive(c)
         \/ ResetPassword(c) \/ ClearResetToken(c) \/ CallFails(c)
    \/ ForgotPassword
    \/ \E k \in Clients : Login(k) \/ RefreshToken(k) \/ JWTExpires(k)
    \/ SetE2EE \/ DisableE2EE \/ ResetTokenExpires

UserSpec == UserInit /\ [][UserNext]_userVars

------------------------------------------------------------------------------
\* A request that writes back a row it read long ago does not lose the
\* wrapped E2EE key another request has been told is stored, nor bring back the
\* one it has been told is gone: without it no file of the account can be read.
TargetedColumnsKept == user.e2ee = acked

\* A reset token a password was changed with is not in the row again, whatever
\* requests read the row before it was cleared: it opens no further reset.
ResetTokenSpent == user.reset_token \notin spent

\* The secret and the flag that asks for its codes stay together, whatever set-ups,
\* enablings and disablings read the row at once: an account that asks for codes
\* asks for those of a secret that EnableTOTP has accepted a code of, the empty one
\* included, or that SetupTOTP has put in the place of one already asked for.
AskedSecretProven == user.totp_enabled => user.totp_secret \in proven

\* When an account stays disabled its clients run out of tokens: a token is not
\* taken back, but it is not renewed either.
DisabledLosesAccess == (<>[](~user.is_active)) => (<>[](\A k \in Clients : jwt[k] = 0))
=============================================================================
