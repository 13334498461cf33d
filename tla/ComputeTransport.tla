-------------------------- MODULE ComputeTransport ---------------------------
(***************************************************************************)
(* goauth2/compute/serviceaccount: the token comes from the metadata       *)
(* server.  fetchToken holds t.mu, a refresh replaces the token object,    *)
(* and neither the status nor an empty access token is checked.            *)
(***************************************************************************)
EXTENDS Credentials

\* NewClient: the initial token, before there is a client to share.
ComputeNewClient(c) ==
    /\ kind = "compute"
    /\ of[c] \notin made
    /\ StartAlone(c, "new", "begin")
    /\ UNCHANGED <<fixed, server, token, made, lock, disk, jwtVars>>

\* The exported Refresh of the transport.
ComputeRenew(c) ==
    /\ kind = "compute"
    /\ StartShared(c, "renew")
    /\ UNCHANGED <<fixed, server, token, made, lock, disk, jwtVars>>

\* fetchToken and Refresh take t.mu.
ComputeLock(c) ==
    /\ kind = "compute"
    /\ pc[c] = "begin"
    /\ lock[of[c]] = Free
    /\ lock' = [lock EXCEPT ![of[c]] = c]
    /\ Goto(c, "locked")
    /\ UNCHANGED <<fixed, server, token, made, disk, op, begin, held, jwtVars>>

ComputeHas(c) ==
    op[c] # "renew" /\ token[of[c]] # NoToken /\ ~Expired(token[of[c]])

\* The token is good: fetchToken returns it and RoundTrip sends its text.
ComputeUse(c) ==
    /\ kind = "compute"
    /\ pc[c] = "locked"
    /\ ComputeHas(c)
    /\ Unlock(c)
    /\ Return(c, token[of[c]].access)
    /\ UNCHANGED <<fixed, server, token, disk, jwtVars>>

\* refresh asks the metadata server.
ComputeRefresh(c) ==
    /\ kind = "compute"
    /\ pc[c] = "locked"
    /\ ~ComputeHas(c)
    /\ Goto(c, "asking")
    /\ UNCHANGED <<fixed, server, token, made, lock, disk, op, begin, held, jwtVars>>

\* Any JSON object is an answer; what it lacks is empty and zero.
ComputeAnswer(c) ==
    /\ kind = "compute"
    /\ \/ Answer(c, now + Lifetime, FALSE)
       \/ Answer(c, now, TRUE)

\* No answer, or not JSON.
ComputeRefused(c) ==
    /\ kind = "compute"
    /\ pc[c] = "asking"
    /\ Unlock(c)
    /\ Fail(c)
    /\ UNCHANGED <<fixed, server, token, disk, jwtVars>>

\* A new token object takes the place of the old one.
ComputeStore(c) ==
    /\ kind = "compute"
    /\ pc[c] = "answered"
    /\ token' = [token EXCEPT ![of[c]] = [access |-> held[c], refresh |-> FALSE]]
    /\ Unlock(c)
    /\ Return(c, held[c])
    /\ UNCHANGED <<fixed, server, disk, jwtVars>>

ComputeStep(c) ==
    \/ ComputeUse(c) \/ ComputeRefresh(c)
    \/ ComputeAnswer(c) \/ ComputeRefused(c) \/ ComputeStore(c)

ComputeCall(c) == ComputeNewClient(c) \/ ComputeRenew(c)
=============================================================================
