--------------------------- MODULE OauthTransport ----------------------------
(***************************************************************************)
(* goauth2/oauth: Transport with its Config, its Token, the mutex mu and a *)
(* CacheFile.  getAccessToken holds mu; Exchange, AuthenticateClient and   *)
(* Refresh do not take it, and are made here before the client is shared,  *)
(* as the example in the package comment does.                             *)
(***************************************************************************)
EXTENDS Credentials

\* Mutant of OauthLock: getAccessToken does not wait for the mutex.
OauthLockAnyway(c) ==
    /\ kind = "oauth"
    /\ pc[c] = "begin"
    /\ lock' = [lock EXCEPT ![of[c]] = c]
    /\ Goto(c, "locked")
    /\ UNCHANGED <<fixed, server, token, made, disk, op, begin, held, jwtVars>>

\* Transport.getAccessToken takes t.mu.
OauthLock(c) ==
    /\ kind = "oauth"
    /\ pc[c] = "begin"
    /\ lock[of[c]] = Free
    /\ lock' = [lock EXCEPT ![of[c]] = c]
    /\ Goto(c, "locked")
    /\ UNCHANGED <<fixed, server, token, made, disk, op, begin, held, jwtVars>>

\* Mutant of OauthLoad: the error of TokenCache.Token() is not looked at.
OauthLoadAnyway(c) ==
    /\ kind = "oauth"
    /\ pc[c] = "locked"
    /\ token[of[c]] = NoToken
    /\ token' = [token EXCEPT ![of[c]] = cache]
    /\ UNCHANGED <<fixed, server, made, lock, disk, pc, op, begin, held, jwtVars>>

\* No token yet: it is read from the cache.
OauthLoad(c) ==
    /\ kind = "oauth"
    /\ pc[c] = "locked"
    /\ token[of[c]] = NoToken
    /\ cache \notin {NoCache, Unreadable}
    /\ token' = [token EXCEPT ![of[c]] = cache]
    /\ UNCHANGED <<fixed, server, made, lock, disk, pc, op, begin, held, jwtVars>>

OauthLoadFails(c) ==
    /\ kind = "oauth"
    /\ pc[c] = "locked"
    /\ token[of[c]] = NoToken
    /\ cache \in {NoCache, Unreadable}
    /\ Unlock(c)
    /\ Fail(c)
    /\ UNCHANGED <<fixed, server, token, disk, jwtVars>>

\* The token is good: its text is returned and mu released.
OauthUse(c) ==
    /\ kind = "oauth"
    /\ pc[c] = "locked"
    /\ token[of[c]] # NoToken
    /\ ~Expired(token[of[c]])
    /\ Unlock(c)
    /\ Return(c, token[of[c]].access)
    /\ UNCHANGED <<fixed, server, token, disk, jwtVars>>

\* Refresh: without a refresh token an error, with one a request to TokenURL.
OauthRefresh(c) ==
    /\ kind = "oauth"
    /\ pc[c] = "locked"
    /\ token[of[c]] # NoToken
    /\ Expired(token[of[c]])
    /\ token[of[c]].refresh
    /\ Goto(c, "asking")
    /\ UNCHANGED <<fixed, server, token, made, lock, disk, op, begin, held, jwtVars>>

\* Mutant of OauthCannotRefresh: this return leaves the mutex locked.
OauthCannotRefreshLocked(c) ==
    /\ kind = "oauth"
    /\ pc[c] = "locked"
    /\ token[of[c]] # NoToken
    /\ Expired(token[of[c]])
    /\ ~token[of[c]].refresh
    /\ Fail(c)
    /\ UNCHANGED <<fixed, server, token, lock, disk, jwtVars>>

OauthCannotRefresh(c) ==
    /\ kind = "oauth"
    /\ pc[c] = "locked"
    /\ token[of[c]] # NoToken
    /\ Expired(token[of[c]])
    /\ ~token[of[c]].refresh
    /\ Unlock(c)
    /\ Fail(c)
    /\ UNCHANGED <<fixed, server, token, disk, jwtVars>>

\* Exchange: the user has granted a code.
Exchange(c) ==
    /\ kind = "oauth"
    /\ StartAlone(c, "exchange", "asking")
    /\ UNCHANGED <<fixed, server, token, made, lock, disk, jwtVars>>

\* AuthenticateClient: an empty token is put in place of none.  The cache is not
\* read for it, so that a refresh token that is only there is forgotten: Exchange
\* looks into the cache for a transport without a token only.
AuthenticateClient(c) ==
    /\ kind = "oauth"
    /\ StartAlone(c, "authenticate", "asking")
    /\ token' = IF token[of[c]] = NoToken
                THEN [token EXCEPT ![of[c]] = [access |-> 0, refresh |-> FALSE]]
                ELSE token
    /\ saved' = (saved /\ token[of[c]] # NoToken)
    /\ UNCHANGED <<fixed, server, made, lock, cache, jwtVars>>

\* Refresh called by the program itself; without a refresh token it is an
\* error that changes nothing.
Refresh(c) ==
    /\ kind = "oauth"
    /\ token[of[c]] # NoToken
    /\ token[of[c]].refresh
    /\ StartAlone(c, "refresh", "asking")
    /\ UNCHANGED <<fixed, server, token, made, lock, disk, jwtVars>>

\* getAccessToken's deferred unlock; the other calls do not hold mu.
Release(c) == IF op[c] = "request" THEN Unlock(c) ELSE UNCHANGED lock

\* updateToken: the answer is a token; without expires_in it never expires.
OauthAnswer(c) ==
    /\ kind = "oauth"
    /\ \E expiry \in {now + Lifetime, Forever} : Answer(c, expiry, FALSE)

\* updateToken: no answer, another status, a bad body, or no access token.
OauthRefused(c) ==
    /\ kind = "oauth"
    /\ pc[c] = "asking"
    /\ Release(c)
    /\ Fail(c)
    /\ UNCHANGED <<fixed, server, token, disk, jwtVars>>

\* The token updateToken changes: the transport's own; for Exchange on a
\* transport without one the cached one, or a new one.
Existing(c) ==
    IF token[of[c]] # NoToken THEN token[of[c]]
    ELSE IF cache \notin {NoCache, Unreadable} THEN cache
    ELSE [access |-> 0, refresh |-> FALSE]

\* Mutant of Updated: what the answer does not say is forgotten.
UpdatedAsAnswered(tok, access, refresh) == [access |-> access, refresh |-> refresh]

\* updateToken: an answer without a refresh token does not overwrite one.
Updated(tok, access, refresh) ==
    [access |-> access, refresh |-> refresh \/ tok.refresh]

\* updateToken changes the token, and CacheFile.PutToken, which Exchange and
\* Refresh call, opens the file: it is empty from now on.
OauthStore(c) ==
    /\ kind = "oauth"
    /\ pc[c] = "answered"
    /\ op[c] # "authenticate"
    /\ \E refresh \in BOOLEAN :
         token' = [token EXCEPT ![of[c]] = Updated(Existing(c), held[c], refresh)]
    /\ cache # NoCache
    /\ cache' = Unreadable
    /\ Goto(c, "put")
    /\ UNCHANGED <<fixed, server, made, lock, saved, op, begin, held, jwtVars>>

\* AuthenticateClient never writes a file, and there may be none; one that cannot
\* be opened is an error of the call, with the token changed nevertheless.
OauthStoreUnsaved(c) ==
    /\ kind = "oauth"
    /\ pc[c] = "answered"
    /\ \E refresh \in BOOLEAN :
         token' = [token EXCEPT ![of[c]] = Updated(Existing(c), held[c], refresh)]
    /\ Release(c)
    /\ \/ cache # NoCache /\ op[c] # "authenticate" /\ Fail(c)
       \/ (cache = NoCache \/ op[c] = "authenticate") /\ Return(c, held[c])
    /\ UNCHANGED <<fixed, server, disk, jwtVars>>

\* CacheFile.PutToken writes the token and closes the file.
OauthPut(c) ==
    /\ kind = "oauth"
    /\ pc[c] = "put"
    /\ cache' = token[of[c]]
    /\ saved' = (saved \/ token[of[c]].refresh)
    /\ Release(c)
    /\ Return(c, token[of[c]].access)
    /\ UNCHANGED <<fixed, server, token, jwtVars>>

\* Writing fails: the file stays cut short, and the call is an error.
OauthPutFails(c) ==
    /\ kind = "oauth"
    /\ pc[c] = "put"
    /\ saved' = FALSE
    /\ Release(c)
    /\ Fail(c)
    /\ UNCHANGED <<fixed, server, token, cache, jwtVars>>

\* The program ends and is started again; only the file remains.
OauthRestart(t) ==
    LET Mine == {c \in Caller : of[c] = t}
    IN  /\ kind = "oauth"
        /\ Mine # {}
        /\ cache # NoCache
        /\ saved' = (saved /\ \A c \in Mine : pc[c] # "put")
        /\ token' = [token EXCEPT ![t] = NoToken]
        /\ lock' = [lock EXCEPT ![t] = Free]
        /\ pc' = [c \in Caller |-> IF c \in Mine THEN "idle" ELSE pc[c]]
        /\ op' = [c \in Caller |-> IF c \in Mine THEN "none" ELSE op[c]]
        /\ begin' = [c \in Caller |-> IF c \in Mine THEN 0 ELSE begin[c]]
        /\ held' = [c \in Caller |-> IF c \in Mine THEN 0 ELSE held[c]]
        /\ UNCHANGED <<fixed, server, made, cache, jwtVars>>

OauthStep(c) ==
    \/ OauthLoad(c) \/ OauthLoadFails(c) \/ OauthUse(c)
    \/ OauthRefresh(c) \/ OauthCannotRefresh(c)
    \/ OauthAnswer(c) \/ OauthRefused(c)
    \/ OauthStore(c) \/ OauthStoreUnsaved(c) \/ OauthPut(c) \/ OauthPutFails(c)

OauthCall(c) == Exchange(c) \/ AuthenticateClient(c) \/ Refresh(c)
=============================================================================
