----------------------------- MODULE Transports ------------------------------
(***************************************************************************)
(* The transports of goauth2 shared by several goroutines, one package in  *)
(* each behaviour, and what they promise: Bearer.                          *)
(***************************************************************************)
EXTENDS OauthTransport, ComputeTransport, AppEngineTransport, JwtTransport

CONSTANTS Sharing    \* the packages, each with the transport of each goroutine

ASSUME SharingAssumption ==
    Sharing \subseteq [kind: Kind, of: [Caller -> Transport]]

\* A cache file is the file of one transport.
ASSUME OneFileAssumption ==
    \A s \in Sharing : s.kind = "oauth" => \A c, d \in Caller : s.of[c] = s.of[d]

\* Before anything was granted: a refresh token from an earlier run at most.
OldToken == [access |-> 0, refresh |-> TRUE]

Init ==
    /\ \E s \in Sharing : kind = s.kind /\ of = s.of
    /\ now = 0
    /\ granted = <<>>
    /\ \E tok \in {NoToken, OldToken} :
         /\ kind # "oauth" => tok = NoToken
         /\ token = [t \in Transport |->
                        IF \E c \in Caller : of[c] = t THEN tok ELSE NoToken]
    /\ made = IF kind = "oauth" THEN Transport ELSE {}
    /\ lock = [t \in Transport |-> Free]
    /\ CASE kind = "oauth" -> cache \in {NoCache, Unreadable, OldToken}
         [] kind = "appengine" -> cache = Unreadable
         [] OTHER -> cache = NoCache
    /\ saved = (cache = OldToken)
    /\ pc = [c \in Caller |-> "idle"]
    /\ op = [c \in Caller |-> "none"]
    /\ begin = [c \in Caller |-> 0]
    /\ held = [c \in Caller |-> 0]
    /\ signer = [t \in Transport |-> [iat |-> 0, claim |-> 0, sig |-> 0]]
    /\ jwt = [c \in Caller |-> NoJwt]

Lock(c) == OauthLock(c) \/ ComputeLock(c)

Step(c) == OauthStep(c) \/ ComputeStep(c) \/ AppEngineStep(c) \/ JwtStep(c)

Call(c) ==
    \/ Begin(c) \/ OauthCall(c) \/ ComputeCall(c)
    \/ AppEngineNewClient(c) \/ JwtNewTransport(c)

Next ==
    \/ \E c \in Caller : Call(c) \/ Lock(c) \/ Step(c) \/ Rest(c)
    \/ \E t \in Transport : OauthRestart(t)
    \/ Evict
    \/ Tick

Spec == Init /\ [][Next]_vars

\* Goroutines run, a request to the authorization server ends with an answer
\* or an error, and sync.Mutex is not granted past a waiter for ever.
Fairness ==
    \A c \in Caller : WF_vars(Step(c)) /\ SF_vars(Lock(c))

FairSpec == Spec /\ Fairness

-----------------------------------------------------------------------------
Label == {"idle", "begin", "locked", "asking", "answered", "put", "loading",
          "check", "read", "times", "encode", "digest", "sign", "join", "done"}

\* The shape of the state.
TypeOK ==
    /\ kind \in Kind
    /\ of \in [Caller -> Transport]
    /\ now \in Time
    /\ granted \in Seq(Grant)
    /\ token \in [Transport -> Token \cup {NoToken}]
    /\ made \subseteq Transport
    /\ lock \in [Transport -> Caller \cup {Free}]
    /\ cache \in Token \cup {NoToken, NoCache, Unreadable}
    /\ pc \in [Caller -> Label]
    /\ op \in [Caller -> Op]
    /\ begin \in [Caller -> Time]
    /\ held \in [Caller -> 0..Len(granted)]
    /\ signer \in [Transport -> [iat: Time, claim: Time, sig: Time]]
    /\ jwt \in [Caller -> [claim: Time, sig: Time]]
    /\ saved \in BOOLEAN

\* The transports with a mutex ask the server for a token on behalf of a
\* request only while the token they have is of no use: goroutines that find it
\* expired at the same time make one refresh, not one each.
NoNeedlessRefresh ==
    \A c \in Caller :
        (/\ kind \in {"oauth", "compute"}
         /\ op[c] \in {"new", "request"}
         /\ pc[c] \in {"asking", "answered"})
        => token[of[c]] = NoToken \/ Expired(token[of[c]])

\* A refresh token that was written to the cache file is still there whenever
\* nobody is writing the file, across refreshes, new codes and restarts: a server
\* that gives it once is enough (oauth.go:251, "to preserve existing refresh
\* token").  Two things lose it, and `saved' no longer counts it then: a write
\* that fails or that a restart cuts short, and AuthenticateClient on a transport
\* that has not read the file, whose empty token the next Exchange saves.
RefreshTokenSaved ==
    (saved /\ \A c \in Caller : pc[c] # "put")
    => cache \notin {NoCache, Unreadable, NoToken} /\ cache.refresh

\* A client that NewClient returned always has a token to read, though
\* FetchToken may set it to nil and no mutex guards it: RoundTrip does not
\* dereference nil.
NeverPanics == \A c \in Caller : pc[c] = "read" => token[of[c]] # NoToken

\* A call returns, whatever the server answers: no path keeps the mutex.
CallsReturn == \A c \in Caller : ~Resting(c) ~> Resting(c)

\* What the callers see of the transports is what Bearer promises.
Asked(c) == op[c] = "request" /\ pc[c] # "done"
Done(c)  == op[c] = "request" /\ pc[c] = "done"

Promise == INSTANCE Bearer WITH
    issued   <- DOMAIN granted,
    live     <- {a \in DOMAIN granted : granted[a].expiry >= now},
    status   <- [c \in Caller |->
                   IF Asked(c) THEN "asked" ELSE IF Done(c) THEN "done" ELSE "idle"],
    eligible <- [c \in Caller |->
                   IF Asked(c) THEN {a \in DOMAIN granted : granted[a].expiry >= begin[c]}
                   ELSE {}],
    answer   <- [c \in Caller |-> IF Done(c) THEN held[c] ELSE 0]

\* Every request is sent with a token that was good since the request was made,
\* or fails.
BearerSpec == Promise!Spec

\* jwt.go, Encode: "returning a JWT ready to use for requesting an access
\* token".  What a goroutine posts is a claim with the signature of that claim.
JwtReady == \A c \in Caller : pc[c] = "asking" => ReadyToUse(c)
=============================================================================
