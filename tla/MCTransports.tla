---------------------------- MODULE MCTransports -----------------------------
(***************************************************************************)
(* Instances of Transports for TLC.                                        *)
(***************************************************************************)
EXTENDS Transports, FiniteSets

CONSTANTS g1, g2, t1, t2

OnOne == [c \in Caller |-> t1]
OnTwo == [c \in Caller |-> IF c = g1 THEN t1 ELSE t2]

\* The two instances of an App Engine application share only memcache.
All == {[kind |-> k, of |-> OnOne] : k \in {"oauth", "compute", "appengine", "jwt"}}
       \cup {[kind |-> "appengine", of |-> OnTwo]}

\* Enough grants for each race: without a mutex two goroutines refresh at once.
Grants == [k \in Kind |-> IF k \in {"oauth", "compute"} THEN 2 ELSE 3]

JwtOnly == {[kind |-> "jwt", of |-> OnOne]}
====
