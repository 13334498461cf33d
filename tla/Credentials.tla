----------------------------- MODULE Credentials -----------------------------
(***************************************************************************)
(* What the four HTTP transports of goauth2 have in common: goroutines     *)
(* that share a transport and make requests through it, the token the      *)
(* transport holds, the authorization server that grants tokens, and time. *)
(*                                                                         *)
(* A token's text is its number in `granted'; 0 is the empty string.  Time *)
(* is counted in ticks long enough that a goroutine never spends one       *)
(* between the answer of the server and the assignment that stores it.     *)
(***************************************************************************)
EXTENDS Naturals, Sequences

CONSTANTS
    Caller,      \* goroutines
    Transport,   \* transports: one per client, or one per instance of a program
    NoToken,     \* a nil *oauth.Token
    Free,        \* a mutex nobody holds
    NoCache,     \* a nil oauth.Cache
    Unreadable,  \* a cache that has no token: file absent or cut short, memcache miss
    Lifetime,    \* expires_in of a token that expires
    MaxTime,     \* bound on time
    MaxGranted   \* per package: bound on the tokens the server grants

Kind == {"oauth", "compute", "appengine", "jwt"}

ASSUME CredentialsAssumption ==
    /\ Lifetime \in Nat
    /\ MaxTime \in Nat
    /\ MaxGranted \in [Kind -> Nat]
    /\ \A none \in {NoToken, NoCache, Unreadable} : none \notin [access: Nat, refresh: BOOLEAN]
    /\ Free \notin Caller

VARIABLES
    kind,     \* the package in use; never changes
    of,       \* the transport of each goroutine; never changes
    now,
    granted,  \* the tokens granted so far, as the client understood them
    token,    \* per transport: t.Token, or t.OAuthToken
    made,     \* transports the program has got from NewClient, NewTransport or a literal
    lock,     \* per transport: the holder of t.mu
    cache,    \* what Cache.Token() would return
    pc,       \* per goroutine: where in its call it is
    op,       \* per goroutine: the call it makes
    begin,    \* per goroutine: when its request began, 0 for the other calls
    held,     \* per goroutine: the text just granted, and in the end the text sent
    signer,   \* per transport: the fields of jwt.Token that Encode writes
    jwt,      \* per goroutine: the parts of its assertion
    saved     \* history: a refresh token was written to the cache file, and since
              \* then no write of the file was cut short and AuthenticateClient
              \* did not set up a transport that had not read it

fixed   == <<kind, of>>
jwtVars == <<signer, jwt>>
disk    == <<cache, saved>>
server  == <<now, granted>>
vars    == <<fixed, server, token, made, lock, disk, pc, op, begin, held, jwtVars>>

Time    == 0..MaxTime
Forever == MaxTime + Lifetime + 1
Token   == [access: Nat, refresh: BOOLEAN]
Grant   == [expiry: Nat, empty: BOOLEAN]

\* The operations, and those a program makes before others share the client.
Setup == {"new", "exchange", "authenticate", "refresh"}
Op    == Setup \cup {"request", "renew", "none"}

\* Token.Expired.
Expired(tok) ==
    ~ /\ tok.access # 0
      /\ ~granted[tok.access].empty
      /\ granted[tok.access].expiry >= now

Resting(c) == pc[c] \in {"idle", "done"}
Peers(c)   == {d \in Caller \ {c} : of[d] = of[c]}

NoJwt == [claim |-> 0, sig |-> 0]

Goto(c, label) == pc' = [pc EXCEPT ![c] = label]

Start(c, what, label) ==
    /\ pc[c] = "idle"
    /\ Goto(c, label)
    /\ op' = [op EXCEPT ![c] = what]
    /\ begin' = [begin EXCEPT ![c] = IF what = "request" THEN now ELSE 0]
    /\ UNCHANGED held

\* A call that only one goroutine makes, before the client is shared.
StartAlone(c, what, label) ==
    /\ \A d \in Peers(c) : Resting(d)
    /\ Start(c, what, label)

\* A call any number of goroutines make at once, on a client that exists.
StartShared(c, what) ==
    /\ of[c] \in made
    /\ \A d \in Peers(c) : op[d] \in Setup => Resting(d)
    /\ Start(c, what, "begin")

\* RoundTrip is called.
Begin(c) ==
    /\ StartShared(c, "request")
    /\ UNCHANGED <<fixed, server, token, made, lock, disk, jwtVars>>

\* The call returns: with the text a, which a request sends, or with an error.
Return(c, a) ==
    /\ Goto(c, "done")
    /\ held' = [held EXCEPT ![c] = a]
    /\ made' = IF op[c] = "new" THEN made \cup {of[c]} ELSE made
    /\ UNCHANGED <<op, begin>>

Fail(c) ==
    /\ Goto(c, "done")
    /\ held' = [held EXCEPT ![c] = 0]
    /\ UNCHANGED <<made, op, begin>>

\* The goroutine is ready for its next call.
Rest(c) ==
    /\ pc[c] = "done"
    /\ Goto(c, "idle")
    /\ op' = [op EXCEPT ![c] = "none"]
    /\ begin' = [begin EXCEPT ![c] = 0]
    /\ held' = [held EXCEPT ![c] = 0]
    /\ jwt' = [jwt EXCEPT ![c] = NoJwt]
    /\ UNCHANGED <<fixed, server, token, made, lock, disk, signer>>

\* The server grants a token and the client has read the answer.
Answer(c, expiry, empty) ==
    /\ pc[c] = "asking"
    /\ Len(granted) < MaxGranted[kind]
    /\ granted' = Append(granted, [expiry |-> expiry, empty |-> empty])
    /\ held' = [held EXCEPT ![c] = Len(granted) + 1]
    /\ Goto(c, "answered")
    /\ UNCHANGED <<fixed, now, token, made, lock, disk, op, begin, jwtVars>>

\* Unlock of the mutex of c's transport (a deferred call).
Unlock(c) == lock' = [lock EXCEPT ![of[c]] = Free]

\* Nobody is between an answer and the assignment that stores it.
Prompt == \A c \in Caller : pc[c] # "answered"

Tick ==
    /\ now < MaxTime
    /\ Prompt
    /\ now' = now + 1
    /\ UNCHANGED <<fixed, granted, token, made, lock, disk, pc, op, begin, held, jwtVars>>
=============================================================================
