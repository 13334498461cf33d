------------------------- MODULE AppEngineTransport --------------------------
(***************************************************************************)
(* goauth2/appengine/serviceaccount: a token per client, memcache shared   *)
(* by the instances of the application, and no mutex.                      *)
(***************************************************************************)
EXTENDS Credentials

\* Mutant of AppEngineNewClient: the client is returned without a first token.
AppEngineNewClientEmpty(c) ==
    /\ kind = "appengine"
    /\ of[c] \notin made
    /\ StartAlone(c, "new", "done")
    /\ made' = made \cup {of[c]}
    /\ token' = [token EXCEPT ![of[c]] = NoToken]
    /\ UNCHANGED <<fixed, server, lock, disk, jwtVars>>

\* NewClient: a new transport, without what an earlier NewClient that failed left
\* in its own, and the initial token, before there is a client to share.
AppEngineNewClient(c) ==
    /\ kind = "appengine"
    /\ of[c] \notin made
    /\ StartAlone(c, "new", "begin")
    /\ token' = [token EXCEPT ![of[c]] = NoToken]
    /\ UNCHANGED <<fixed, server, made, lock, disk, jwtVars>>

\* FetchToken finds t.Token nil and calls memcache, or goes on.
AppEngineFetch(c) ==
    /\ kind = "appengine"
    /\ pc[c] = "begin"
    /\ Goto(c, IF token[of[c]] = NoToken THEN "loading" ELSE "check")
    /\ UNCHANGED <<fixed, server, token, made, lock, disk, op, begin, held, jwtVars>>

\* t.Token, _ = t.TokenCache.Token(): nil when memcache has no token.
AppEngineLoad(c) ==
    /\ kind = "appengine"
    /\ pc[c] = "loading"
    /\ token' = [token EXCEPT ![of[c]] = IF cache = Unreadable THEN NoToken ELSE cache]
    /\ Goto(c, "check")
    /\ UNCHANGED <<fixed, server, made, lock, disk, op, begin, held, jwtVars>>

\* Mutant of AppEngineCheck: a token from memcache is taken as it is.
AppEngineCheckNil(c) ==
    /\ kind = "appengine"
    /\ pc[c] = "check"
    /\ Goto(c, IF token[of[c]] = NoToken THEN "asking" ELSE "read")
    /\ UNCHANGED <<fixed, server, token, made, lock, disk, op, begin, held, jwtVars>>

\* FetchToken: a nil or expired token is refreshed.
AppEngineCheck(c) ==
    /\ kind = "appengine"
    /\ pc[c] = "check"
    /\ Goto(c, IF token[of[c]] = NoToken \/ Expired(token[of[c]]) THEN "asking" ELSE "read")
    /\ UNCHANGED <<fixed, server, token, made, lock, disk, op, begin, held, jwtVars>>

\* appengine.AccessToken gives a token and its expiry.
AppEngineAnswer(c) ==
    /\ kind = "appengine"
    /\ Answer(c, now + Lifetime, FALSE)

AppEngineRefused(c) ==
    /\ kind = "appengine"
    /\ pc[c] = "asking"
    /\ Fail(c)
    /\ UNCHANGED <<fixed, server, token, lock, disk, jwtVars>>

\* Refresh stores a new token object.
AppEngineStore(c) ==
    /\ kind = "appengine"
    /\ pc[c] = "answered"
    /\ token' = [token EXCEPT ![of[c]] = [access |-> held[c], refresh |-> FALSE]]
    /\ Goto(c, "put")
    /\ UNCHANGED <<fixed, server, made, lock, disk, op, begin, held, jwtVars>>

\* PutToken(t.Token) stores what t.Token is by then; its error is ignored.
AppEnginePut(c) ==
    /\ kind = "appengine"
    /\ pc[c] = "put"
    /\ cache' \in {cache, token[of[c]]}
    /\ Goto(c, "read")
    /\ UNCHANGED <<fixed, server, token, made, lock, saved, op, begin, held, jwtVars>>

\* RoundTrip reads t.AccessToken, which panics when t.Token is nil; NewClient
\* returns the client.
AppEngineRead(c) ==
    /\ kind = "appengine"
    /\ pc[c] = "read"
    /\ Return(c, token[of[c]].access)
    /\ UNCHANGED <<fixed, server, token, lock, disk, jwtVars>>

\* memcache drops an entry, because it is past its expiration or for room.
Evict ==
    /\ kind = "appengine"
    /\ cache # Unreadable
    /\ cache' = Unreadable
    /\ UNCHANGED <<fixed, server, token, made, lock, saved, pc, op, begin, held, jwtVars>>

AppEngineStep(c) ==
    \/ AppEngineFetch(c) \/ AppEngineLoad(c) \/ AppEngineCheck(c)
    \/ AppEngineAnswer(c) \/ AppEngineRefused(c)
    \/ AppEngineStore(c) \/ AppEnginePut(c) \/ AppEngineRead(c)
=============================================================================
