------------------------------ MODULE RateLimiter ------------------------------
(***************************************************************************)
(* internal/middleware/ratelimit.go: requests counted by address in fixed  *)
(* windows, each begun by the first request after the last has passed, and *)
(* a ticker that forgets old entries.  Every operation holds mu.           *)
(***************************************************************************)
EXTENDS Maps

CONSTANTS Addresses,
          Rate, WindowLength,   \* RateLimit(rate, window)
          CleanupInterval,      \* between two ticks
          MaxTime               \* bound on the clock

ASSUME RateAssumption ==
    /\ Rate \in Nat \ {0} /\ WindowLength \in Nat \ {0}
    /\ CleanupInterval \in Nat \ {0} /\ MaxTime \in Nat

VARIABLES now, entries, cleaned,
          allowed    \* ghost: address -> the times of the requests let through

rateVars == <<now, entries, cleaned, allowed>>

RateInit ==
    /\ now = 0 /\ entries = <<>> /\ cleaned = 0
    /\ allowed = [ip \in Addresses |-> <<>>]

Passed(ip, n) == now - entries[ip].windowStart >= n * WindowLength

allow(ip) ==
    IF ip \notin DOMAIN entries \/ Passed(ip, 1)
      THEN entries' = Put(entries, ip, [count |-> 1, windowStart |-> now])
      ELSE /\ entries[ip].count < Rate
           /\ entries' = [entries EXCEPT ![ip].count = @ + 1]

\* The middleware: a request that is not allowed is answered 429 and changes nothing.
RateLimit(ip) ==
    /\ allow(ip)
    /\ allowed' = [allowed EXCEPT ![ip] = Append(@, now)]
    /\ UNCHANGED <<now, cleaned>>

\* A plausible slip: every entry is forgotten, open windows too.
ExpiredAlways(ip) == TRUE

Expired(ip) == Passed(ip, 2)

cleanup ==
    /\ now - cleaned >= CleanupInterval
    /\ cleaned' = now
    /\ entries' = Without(entries, {ip \in DOMAIN entries : Expired(ip)})
    /\ UNCHANGED <<now, allowed>>

Pass == now < MaxTime /\ now' = now + 1 /\ UNCHANGED <<entries, cleaned, allowed>>

RateNext == (\E ip \in Addresses : RateLimit(ip)) \/ cleanup \/ Pass

RateSpec == RateInit /\ [][RateNext]_rateVars

------------------------------------------------------------------------------
\* In no interval of one window's length are twice `rate` requests of an address
\* let through, wherever the windows and the cleaning fall.  (It is more than the
\* `rate` of the comment: a window's last requests and the next one's first.)
UnderTwiceTheRate ==
    \A ip \in Addresses : \A i \in 1..Len(allowed[ip]) :
        i + 2 * Rate - 1 <= Len(allowed[ip])
            => allowed[ip][i + 2 * Rate - 1] - allowed[ip][i] >= WindowLength
===============================================================================
