------------------------------- MODULE MCAuth -------------------------------
EXTENDS Auth, TLC

CONSTANTS alice, bob, carol, t1, t2, t3, t4

OneClient == {alice}
ThreeClients == {alice, bob, carol}
LastUnresolved == {carol}
Nobody == {}

FourTokens == {t1, t2, t3, t4}
OneToken == {t1}

ThreeTokens == {t1, t2, t3}
Symmetry == Permutations(Token) \cup Permutations({alice, bob})
TokenSymmetry == Permutations(Token)
ClientSymmetry == Permutations({alice, bob})

\* Sessions and limiter meet in auth_login only.  One run explores each to its
\* own depth: one client comes and goes for long, or several contend for the
\* limiter while one session is issued.
Involved == {limits[i].ip : i \in {j \in Limit : limits[j].used}}
              \cup (IF login = Idle THEN {} ELSE {limit_key(login.client)})
OneKey == Cardinality(Involved) <= 1 /\ Unknown \notin Involved
EarlyDays == uptime <= 3 /\ Cardinality(issued) <= 1
Slices == OneKey \/ EarlyDays

=============================================================================
