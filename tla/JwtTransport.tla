---------------------------- MODULE JwtTransport -----------------------------
(***************************************************************************)
(* goauth2/oauth/jwt: a new access token is asked for with a signed        *)
(* assertion.  Transport has no mutex, and Encode keeps the parts of the   *)
(* assertion in the fields of the one jwt.Token of the transport.          *)
(*                                                                         *)
(* A claim stands for the second it was made in, a signature for the claim *)
(* it signs.                                                               *)
(***************************************************************************)
EXTENDS Credentials

\* NewTransport: the initial token, before there is a transport to share.
JwtNewTransport(c) ==
    /\ kind = "jwt"
    /\ of[c] \notin made
    /\ StartAlone(c, "new", "times")
    /\ UNCHANGED <<fixed, server, token, made, lock, disk, jwtVars>>

\* RoundTrip: an expired token is renewed with Assert.
JwtCheck(c) ==
    /\ kind = "jwt"
    /\ pc[c] = "begin"
    /\ Goto(c, IF Expired(token[of[c]]) THEN "times" ELSE "read")
    /\ UNCHANGED <<fixed, server, token, made, lock, disk, op, begin, held, jwtVars>>

\* Assert: ClaimSet.setTimes(time.Now()).
SetTimes(c) ==
    /\ kind = "jwt"
    /\ pc[c] = "times"
    /\ signer' = [signer EXCEPT ![of[c]].iat = now]
    /\ Goto(c, "encode")
    /\ UNCHANGED <<fixed, server, token, made, lock, disk, op, begin, held, jwt>>

\* Encode: t.claim = t.ClaimSet.encode().
Encode(c) ==
    /\ kind = "jwt"
    /\ pc[c] = "encode"
    /\ signer' = [signer EXCEPT ![of[c]].claim = signer[of[c]].iat]
    /\ Goto(c, "digest")
    /\ UNCHANGED <<fixed, server, token, made, lock, disk, op, begin, held, jwt>>

\* sign: ss is made of t.header and t.claim.
Digest(c) ==
    /\ kind = "jwt"
    /\ pc[c] = "digest"
    /\ jwt' = [jwt EXCEPT ![c].sig = signer[of[c]].claim]
    /\ Goto(c, "sign")
    /\ UNCHANGED <<fixed, server, token, made, lock, disk, op, begin, held, signer>>

\* sign: t.sig is the signature of ss.
Sign(c) ==
    /\ kind = "jwt"
    /\ pc[c] = "sign"
    /\ signer' = [signer EXCEPT ![of[c]].sig = jwt[c].sig]
    /\ Goto(c, "join")
    /\ UNCHANGED <<fixed, server, token, made, lock, disk, op, begin, held, jwt>>

\* Encode: the assertion is put together from the fields, and Assert posts it.
Join(c) ==
    /\ kind = "jwt"
    /\ pc[c] = "join"
    /\ jwt' = [jwt EXCEPT ![c] = [claim |-> signer[of[c]].claim, sig |-> signer[of[c]].sig]]
    /\ Goto(c, "asking")
    /\ UNCHANGED <<fixed, server, token, made, lock, disk, op, begin, held, signer>>

ReadyToUse(c) == jwt[c].claim = jwt[c].sig

\* handleResponse: the server accepts a well-formed assertion; with a status of
\* 200 any JSON object is a token, one without an access token an empty one.
JwtAnswer(c) ==
    /\ kind = "jwt"
    /\ ReadyToUse(c)
    /\ \/ Answer(c, now + Lifetime, FALSE)
       \/ Answer(c, now, TRUE)

\* No answer, another status, or a body that cannot be decoded.
JwtRefused(c) ==
    /\ kind = "jwt"
    /\ pc[c] = "asking"
    /\ Fail(c)
    /\ UNCHANGED <<fixed, server, token, lock, disk, jwtVars>>

\* t.OAuthToken = oa.
JwtStore(c) ==
    /\ kind = "jwt"
    /\ pc[c] = "answered"
    /\ token' = [token EXCEPT ![of[c]] = [access |-> held[c], refresh |-> FALSE]]
    /\ Goto(c, "read")
    /\ UNCHANGED <<fixed, server, made, lock, disk, op, begin, held, jwtVars>>

\* RoundTrip reads t.OAuthToken.AccessToken.
JwtRead(c) ==
    /\ kind = "jwt"
    /\ pc[c] = "read"
    /\ Return(c, token[of[c]].access)
    /\ UNCHANGED <<fixed, server, token, lock, disk, jwtVars>>

JwtStep(c) ==
    \/ JwtCheck(c) \/ SetTimes(c) \/ Encode(c) \/ Digest(c) \/ Sign(c) \/ Join(c)
    \/ JwtAnswer(c) \/ JwtRefused(c) \/ JwtStore(c) \/ JwtRead(c)
=============================================================================
