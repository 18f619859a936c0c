------------------------------ MODULE MCServices ------------------------------
(* Services for TLC: paths, and the sets whose members are alike.            *)
EXTENDS Services, TLC

Granting == {<<>>, <<"d">>, <<"d", "e">>}
Filed    == {<<"d", "e", "f">>, <<"d", "ef">>}

\* Bound: a session whose answers are out of step with its requests is looked at
\* while the others are at rest.
Astray(s) ==
    \/ due[s] # Ids(outbox[s]) \o Ids(inbox[s])
    \/ cur[s] = Adrift
    \/ \E i \in 1..Len(inbox[s]) : inbox[s][i].pkt.type = "LARGE"
AtRest(s)   == handles[s] = << >> /\ inbox[s] = <<>> /\ outbox[s] = <<>> /\ due[s] = <<>>
AstrayAlone ==
    \A s \in Sessions : Astray(s) => reqID <= 1 /\ \A r \in Sessions \ {s} : AtRest(r)

\* Bound: a second reset token is made up only where no TOTP secret is in use.
ResetsApart == made <= 1 \/ proven = {}

Alike == Permutations(Sessions) \cup Permutations(Calls)
===============================================================================
