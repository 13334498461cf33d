--------------------------- MODULE TransportsProofs ---------------------------
(***************************************************************************)
(* The transports of goauth2 keep their promise for any number of          *)
(* goroutines, transports, grants and ticks.                               *)
(*                                                                         *)
(* A step of a goroutine has one of seven effects, whatever the package;   *)
(* first every action is shown to have its effect, then every effect to    *)
(* keep the invariant and to be a step of Bearer.                          *)
(***************************************************************************)
EXTENDS Transports, TLAPS

\* The calls that do not take the mutex of oauth.Transport.
Bare == {"exchange", "authenticate", "refresh"}

\* Texts are numbers of grants.
Texts ==
    /\ \A t \in Transport : token[t] # NoToken => token[t].access \in 0..Len(granted)
    /\ cache \in Token => cache.access \in 0..Len(granted)
    /\ kind = "appengine" => cache \in Token \cup {NoToken, Unreadable}

\* What is about to be read or written is there.
Has == \A c \in Caller : pc[c] \in {"put", "read"} => token[of[c]] # NoToken

Idle == \A c \in Caller : pc[c] = "idle" => op[c] = "none"

Begun == \A c \in Caller : begin[c] <= now

Ops == \A c \in Caller :
    /\ kind # "oauth" => op[c] \notin Bare
    /\ kind = "oauth" => op[c] \notin {"new", "renew"}
    /\ pc[c] \in {"begin", "locked"} => op[c] \notin Bare

\* Who sets a transport up is alone with it.
Alone == \A c, d \in Caller :
    (c # d /\ of[c] = of[d] /\ op[c] \in Setup /\ ~Resting(c)) => Resting(d)

\* Transports that are shared have a token; before, there is only NewClient.
AllMade   == kind = "oauth" => made = Transport
Furnished == kind # "oauth" => \A t \in made : token[t] # NoToken
Unmade    == \A c \in Caller :
    /\ ~Resting(c) /\ of[c] \notin made => op[c] = "new"
    /\ pc[c] = "loading" => of[c] \notin made
    /\ kind = "jwt" /\ pc[c] = "begin" => of[c] \in made

Made == AllMade /\ Furnished /\ Unmade

Holds(c) == pc[c] \in {"locked", "asking", "answered", "put"} /\ op[c] \notin Bare

Locks == kind \in {"oauth", "compute"} => \A c \in Caller : Holds(c) => lock[of[c]] = c

\* No time passes between an answer and the assignment that stores it.
Fresh == \A c \in Caller :
    pc[c] = "answered" => held[c] \in DOMAIN granted /\ granted[held[c]].expiry >= now

\* Good since the call began.
GoodFor(c, a) == a \in DOMAIN granted /\ granted[a].expiry >= begin[c]

Good == \A c \in Caller :
    op[c] = "request" /\ pc[c] \in {"put", "read"} => GoodFor(c, token[of[c]].access)

IInv ==
    /\ TypeOK /\ Texts /\ Has /\ Idle /\ Begun /\ Ops /\ Alone /\ Made
    /\ Locks /\ Fresh /\ Good /\ NoNeedlessRefresh

-----------------------------------------------------------------------------
(* The effects.                                                            *)

Useless(t) == token[t] = NoToken \/ Expired(token[t])

\* Only c and its transport change.
Changes(c) ==
    /\ UNCHANGED <<kind, of, now>>
    /\ \A d \in Caller : d # c =>
         pc'[d] = pc[d] /\ op'[d] = op[d] /\ begin'[d] = begin[d] /\ held'[d] = held[d]
    /\ \A t \in Transport : t # of[c] => token'[t] = token[t] /\ lock'[t] = lock[t]

Keeps(c) ==
    /\ Changes(c)
    /\ ~Resting(c)
    /\ op'[c] = op[c]
    /\ begin'[c] = begin[c]

Starts(c) ==
    /\ Changes(c)
    /\ pc[c] = "idle"
    /\ UNCHANGED <<granted, made, lock>>
    /\ begin'[c] \in {0, now}
    /\ op'[c] = "request" => begin'[c] = now
    /\ held'[c] = held[c]
    /\ op'[c] \in IF kind = "oauth" THEN Bare \cup {"request"} ELSE {"new", "renew", "request"}
    /\ op'[c] \in Bare => pc'[c] = "asking"
    /\ op'[c] \notin Bare => pc'[c] \in {"begin", "times"}
    /\ kind = "jwt" /\ op'[c] = "new" => pc'[c] = "times"
    /\ op'[c] = "new" <=> of[c] \notin made
    /\ op'[c] \in Setup => \A d \in Peers(c) : Resting(d)
    /\ \A d \in Peers(c) : op[d] \in Setup => Resting(d)
    /\ \/ token'[of[c]] = token[of[c]]
       \/ /\ token'[of[c]] # NoToken
          /\ \A d \in Peers(c) : Resting(d)
       \/ /\ kind = "appengine" /\ op'[c] = "new"
          /\ \A d \in Peers(c) : Resting(d)

Goes(c) ==
    /\ Keeps(c)
    /\ UNCHANGED <<granted, made, held, token>>
    /\ pc'[c] \in {"locked", "asking", "loading", "check", "read",
                   "times", "encode", "digest", "sign", "join"}
    /\ IF pc'[c] = "locked"
       THEN pc[c] = "begin" /\ lock[of[c]] = Free /\ lock'[of[c]] = c
       ELSE lock' = lock
    /\ pc'[c] = "asking" /\ kind \in {"oauth", "compute"} =>
         pc[c] = "locked" /\ (op[c] # "renew" => Useless(of[c]))
    /\ pc'[c] = "loading" => kind = "appengine" /\ token[of[c]] = NoToken
    /\ pc'[c] = "read" =>
         /\ token[of[c]] # NoToken
         /\ op[c] = "request" => GoodFor(c, token[of[c]].access)

Loads(c) ==
    /\ Keeps(c)
    /\ UNCHANGED <<granted, made, held, lock>>
    /\ \/ /\ kind = "oauth" /\ token[of[c]] = NoToken
          /\ pc[c] = "locked" /\ pc'[c] = "locked"
       \/ /\ kind = "appengine"
          /\ pc[c] = "loading" /\ pc'[c] = "check"

Answers(c) ==
    /\ Keeps(c)
    /\ UNCHANGED <<made, token, lock>>
    /\ pc[c] = "asking" /\ pc'[c] = "answered"
    /\ DOMAIN granted' = DOMAIN granted \cup {held'[c]}
    /\ held'[c] = Len(granted) + 1
    /\ \A a \in DOMAIN granted : granted'[a] = granted[a]
    /\ granted'[held'[c]].expiry >= now

Stores(c) ==
    /\ Keeps(c)
    /\ UNCHANGED <<granted, made, held, lock>>
    /\ pc[c] = "answered" /\ pc'[c] \in {"put", "read"}
    /\ token'[of[c]] # NoToken /\ token'[of[c]].access = held[c]

Ends(c) ==
    /\ Keeps(c)
    /\ UNCHANGED granted
    /\ pc'[c] = "done"
    /\ \/ made' = made
       \/ made' = made \cup {of[c]} /\ op[c] = "new" /\ token'[of[c]] # NoToken
    /\ \/ token'[of[c]] = token[of[c]]
       \/ /\ pc[c] = "answered"
          /\ token'[of[c]] # NoToken /\ token'[of[c]].access = held[c]
    /\ \/ lock' = lock
       \/ kind \in {"oauth", "compute"} /\ Holds(c)
    /\ op[c] = "request" => held'[c] = 0 \/ GoodFor(c, held'[c])

Rests(c) ==
    /\ Changes(c)
    /\ UNCHANGED <<granted, made, token, lock>>
    /\ pc[c] = "done" /\ pc'[c] = "idle"
    /\ op'[c] = "none" /\ begin'[c] = 0 /\ held'[c] = 0

Effect(c) ==
    Starts(c) \/ Goes(c) \/ Loads(c) \/ Answers(c) \/ Stores(c) \/ Ends(c) \/ Rests(c)

-----------------------------------------------------------------------------
LEMMA NotNil ==
    ASSUME NEW a \in Nat, NEW r \in BOOLEAN
    PROVE  [access |-> a, refresh |-> r] # NoToken
  BY CredentialsAssumption

\* A token that is not expired is good for whoever asks now.
LEMMA GoodNow ==
    ASSUME IInv, NEW c \in Caller, token[of[c]] # NoToken, ~Expired(token[of[c]])
    PROVE  GoodFor(c, token[of[c]].access)
  <1>1. /\ token[of[c]].access \in DOMAIN granted
        /\ granted[token[of[c]].access].expiry >= now
    BY DEF Expired, IInv, TypeOK, Texts
  <1>2. granted[token[of[c]].access] \in Grant
    BY <1>1 DEF IInv, TypeOK
  <1>3. begin[c] \in Nat /\ now \in Nat /\ begin[c] <= now
        /\ granted[token[of[c]].access].expiry \in Nat
    BY <1>2, CredentialsAssumption DEF IInv, TypeOK, Begun, Time, Grant
  <1> QED
    BY <1>1, <1>3 DEF GoodFor

LEMMA HeldGood ==
    ASSUME IInv, NEW c \in Caller, pc[c] = "answered"
    PROVE  GoodFor(c, held[c]) /\ held[c] \in Nat
  <1>1. held[c] \in DOMAIN granted /\ granted[held[c]].expiry >= now /\ held[c] \in Nat
    BY DEF IInv, TypeOK, Fresh
  <1>2. granted[held[c]] \in Grant
    BY <1>1 DEF IInv, TypeOK
  <1>3. begin[c] \in Nat /\ now \in Nat /\ begin[c] <= now /\ granted[held[c]].expiry \in Nat
    BY <1>2, CredentialsAssumption DEF IInv, TypeOK, Begun, Time, Grant
  <1> QED
    BY <1>1, <1>3 DEF GoodFor

LEMMA AnswerLemma ==
    ASSUME IInv, NEW c \in Caller,
           NEW expiry \in Nat, NEW empty \in BOOLEAN, Answer(c, expiry, empty),
           expiry >= now, UNCHANGED <<fixed, now>>
    PROVE  Answers(c)
  <1>1. granted' = Append(granted, [expiry |-> expiry, empty |-> empty])
    BY DEF Answer
  <1>2. granted \in Seq(Grant) /\ [expiry |-> expiry, empty |-> empty] \in Grant
    BY DEF IInv, TypeOK, Grant
  <1>3. /\ DOMAIN granted' = DOMAIN granted \cup {Len(granted) + 1}
        /\ \A a \in DOMAIN granted : granted'[a] = granted[a]
        /\ granted'[Len(granted) + 1].expiry >= now
    BY <1>1, <1>2
  <1> QED
    BY <1>3 DEF Answer, Answers, Keeps, Changes, Resting, Goto, IInv, TypeOK, fixed, jwtVars, disk

\* A call begins.
LEMMA StartsLemma ==
    ASSUME IInv, NEW c \in Caller,
           Begin(c) \/ Exchange(c) \/ AuthenticateClient(c) \/ Refresh(c) \/
           ComputeNewClient(c) \/ ComputeRenew(c) \/
           AppEngineNewClient(c) \/ JwtNewTransport(c)
    PROVE  Starts(c)
  <1>1. CASE AuthenticateClient(c)
    <2>1. [access |-> 0, refresh |-> FALSE] # NoToken
      BY NotNil
    <2> QED
      BY <1>1, <2>1, CredentialsAssumption, SMTT(30)
      DEF AuthenticateClient, Starts, Changes, Peers, Resting, IInv, TypeOK, Ops, Made, AllMade,
          StartAlone, Start, Goto, Setup, Bare, Op, fixed, server, disk, jwtVars
  <1> USE CredentialsAssumption
      DEF Starts, Changes, Peers, Resting, IInv, TypeOK, Texts, Has, Begun,
          Ops, Made, AllMade, Furnished, Unmade, Fresh, Good, Goto, Start,
          StartAlone, StartShared, Return, Fail, Answer, Unlock, Release,
          Existing, Updated, ComputeHas, Expired, Time, Token, Grant, Setup,
          Op, Kind, Bare, Forever, Label, fixed, server, disk, jwtVars
  <1>2. CASE Begin(c)
    BY <1>2, SMTT(30) DEF Begin
  <1>3. CASE Exchange(c)
    BY <1>3, SMTT(30) DEF Exchange
  <1>4. CASE Refresh(c)
    BY <1>4, SMTT(30) DEF Refresh
  <1>5. CASE ComputeNewClient(c)
    BY <1>5, SMTT(30) DEF ComputeNewClient
  <1>6. CASE ComputeRenew(c)
    BY <1>6, SMTT(30) DEF ComputeRenew
  <1>7. CASE AppEngineNewClient(c)
    BY <1>7, SMTT(30) DEF AppEngineNewClient
  <1>8. CASE JwtNewTransport(c)
    BY <1>8, SMTT(30) DEF JwtNewTransport
  <1> QED
    BY <1>1, <1>2, <1>3, <1>4, <1>5, <1>6, <1>7, <1>8

\* Steps that change no token.
LEMMA GoesLemma ==
    ASSUME IInv, NEW c \in Caller,
           OauthLock(c) \/ OauthRefresh(c) \/ ComputeLock(c) \/
           ComputeRefresh(c) \/ AppEngineFetch(c) \/ AppEngineCheck(c) \/
           AppEnginePut(c) \/ JwtCheck(c) \/ SetTimes(c) \/ Encode(c) \/
           Digest(c) \/ Sign(c) \/ Join(c)
    PROVE  Goes(c)
  <1>1. CASE AppEngineCheck(c)
    <2>1. CASE pc'[c] = "read"
      <3>1. token[of[c]] # NoToken /\ ~Expired(token[of[c]])
        BY <1>1, <2>1 DEF AppEngineCheck, Goto, IInv, TypeOK, Made, Furnished, Unmade
      <3> QED
        BY <1>1, <2>1, <3>1, GoodNow
        DEF AppEngineCheck, Goes, Keeps, Changes, Resting, IInv, TypeOK, Goto, fixed, server, disk, jwtVars
    <2>2. CASE pc'[c] # "read"
      BY <1>1, <2>2
      DEF AppEngineCheck, Goes, Keeps, Changes, Resting, IInv, TypeOK, Goto, fixed, server, disk, jwtVars
    <2> QED
      BY <2>1, <2>2
  <1>2. CASE JwtCheck(c)
    <2>1. CASE pc'[c] = "read"
      <3>1. token[of[c]] # NoToken /\ ~Expired(token[of[c]])
        BY <1>2, <2>1 DEF JwtCheck, Goto, IInv, TypeOK, Made, Furnished, Unmade
      <3> QED
        BY <1>2, <2>1, <3>1, GoodNow
        DEF JwtCheck, Goes, Keeps, Changes, Resting, IInv, TypeOK, Goto, fixed, server, disk, jwtVars
    <2>2. CASE pc'[c] # "read"
      BY <1>2, <2>2
      DEF JwtCheck, Goes, Keeps, Changes, Resting, IInv, TypeOK, Goto, fixed, server, disk, jwtVars
    <2> QED
      BY <2>1, <2>2
  <1> USE CredentialsAssumption
      DEF Goes, Changes, Keeps, Useless, GoodFor, Resting, IInv, TypeOK,
          Texts, Has, Begun, Ops, Made, AllMade, Furnished, Unmade, Fresh,
          Good, Goto, Start, StartAlone, StartShared, Return, Fail, Answer,
          Unlock, Release, Existing, Updated, ComputeHas, Expired, Time,
          Token, Grant, Setup, Op, Kind, Bare, Forever, Label, fixed, server,
          disk, jwtVars
  <1>3. CASE OauthLock(c)
    BY <1>3, SMTT(30) DEF OauthLock
  <1>4. CASE OauthRefresh(c)
    BY <1>4, SMTT(30) DEF OauthRefresh
  <1>5. CASE ComputeLock(c)
    BY <1>5, SMTT(30) DEF ComputeLock
  <1>6. CASE ComputeRefresh(c)
    BY <1>6, SMTT(30) DEF ComputeRefresh
  <1>7. CASE AppEngineFetch(c)
    BY <1>7, SMTT(30) DEF AppEngineFetch
  <1>8. CASE AppEnginePut(c)
    BY <1>8, SMTT(30) DEF AppEnginePut
  <1>9. CASE SetTimes(c)
    BY <1>9, SMTT(30) DEF SetTimes
  <1>10. CASE Encode(c)
    BY <1>10, SMTT(30) DEF Encode
  <1>11. CASE Digest(c)
    BY <1>11, SMTT(30) DEF Digest
  <1>12. CASE Sign(c)
    BY <1>12, SMTT(30) DEF Sign
  <1>13. CASE Join(c)
    BY <1>13, SMTT(30) DEF Join
  <1> QED
    BY <1>1, <1>2, <1>3, <1>4, <1>5, <1>6, <1>7, <1>8, <1>9, <1>10, <1>11,
        <1>12, <1>13

\* A token comes from the cache.
LEMMA LoadsLemma ==
    ASSUME IInv, NEW c \in Caller,
           OauthLoad(c) \/ AppEngineLoad(c)
    PROVE  Loads(c)
  <1> USE CredentialsAssumption
      DEF Loads, Changes, Keeps, Resting, IInv, TypeOK, Texts, Has, Begun,
          Ops, Made, AllMade, Furnished, Unmade, Fresh, Good, Goto, Start,
          StartAlone, StartShared, Return, Fail, Answer, Unlock, Release,
          Existing, Updated, ComputeHas, Expired, Time, Token, Grant, Setup,
          Op, Kind, Bare, Forever, Label, fixed, server, disk, jwtVars
  <1>1. CASE OauthLoad(c)
    BY <1>1, SMTT(30) DEF OauthLoad
  <1>2. CASE AppEngineLoad(c)
    BY <1>2, SMTT(30) DEF AppEngineLoad
  <1> QED
    BY <1>1, <1>2

\* The server grants a token.
LEMMA AnswersLemma ==
    ASSUME IInv, NEW c \in Caller,
           OauthAnswer(c) \/ ComputeAnswer(c) \/ AppEngineAnswer(c) \/
           JwtAnswer(c)
    PROVE  Answers(c)
  <1>1. CASE OauthAnswer(c)
    <2>1. now \in Nat /\ Lifetime \in Nat /\ MaxTime \in Nat /\ now <= MaxTime
      BY CredentialsAssumption DEF IInv, TypeOK, Time
    <2>2. now + Lifetime \in Nat /\ now + Lifetime >= now /\ Forever \in Nat /\ Forever >= now
      BY <2>1 DEF Forever
    <2>3. UNCHANGED <<fixed, now>>
      BY <1>1 DEF OauthAnswer, Answer
    <2>4. PICK expiry \in Nat, empty \in BOOLEAN : Answer(c, expiry, empty) /\ expiry >= now
      BY <1>1, <2>1, <2>2 DEF OauthAnswer
    <2> QED
      BY <2>3, <2>4, AnswerLemma
  <1>2. CASE ComputeAnswer(c)
    <2>1. now \in Nat /\ Lifetime \in Nat /\ now + Lifetime \in Nat
          /\ now + Lifetime >= now /\ now >= now
      BY CredentialsAssumption DEF IInv, TypeOK, Time
    <2>2. UNCHANGED <<fixed, now>>
      BY <1>2 DEF ComputeAnswer, Answer
    <2>3. Answer(c, now + Lifetime, FALSE) \/ Answer(c, now, TRUE)
      BY <1>2 DEF ComputeAnswer
    <2>4. CASE Answer(c, now + Lifetime, FALSE)
      BY <2>1, <2>2, <2>4, AnswerLemma
    <2>5. CASE Answer(c, now, TRUE)
      BY <2>1, <2>2, <2>5, AnswerLemma
    <2> QED
      BY <2>3, <2>4, <2>5
  <1>3. CASE AppEngineAnswer(c)
    <2>1. now \in Nat /\ Lifetime \in Nat /\ MaxTime \in Nat /\ now <= MaxTime
      BY CredentialsAssumption DEF IInv, TypeOK, Time
    <2>2. now + Lifetime \in Nat /\ now + Lifetime >= now /\ Forever \in Nat /\ Forever >= now
      BY <2>1 DEF Forever
    <2>3. UNCHANGED <<fixed, now>>
      BY <1>3 DEF AppEngineAnswer, Answer
    <2>4. PICK expiry \in Nat, empty \in BOOLEAN : Answer(c, expiry, empty) /\ expiry >= now
      BY <1>3, <2>1, <2>2 DEF AppEngineAnswer
    <2> QED
      BY <2>3, <2>4, AnswerLemma
  <1>4. CASE JwtAnswer(c)
    <2>1. now \in Nat /\ Lifetime \in Nat /\ now + Lifetime \in Nat
          /\ now + Lifetime >= now /\ now >= now
      BY CredentialsAssumption DEF IInv, TypeOK, Time
    <2>2. UNCHANGED <<fixed, now>>
      BY <1>4 DEF JwtAnswer, Answer
    <2>3. Answer(c, now + Lifetime, FALSE) \/ Answer(c, now, TRUE)
      BY <1>4 DEF JwtAnswer
    <2>4. CASE Answer(c, now + Lifetime, FALSE)
      BY <2>1, <2>2, <2>4, AnswerLemma
    <2>5. CASE Answer(c, now, TRUE)
      BY <2>1, <2>2, <2>5, AnswerLemma
    <2> QED
      BY <2>3, <2>4, <2>5
  <1> QED
    BY <1>1, <1>2, <1>3, <1>4

\* The grant becomes the token of the transport.
LEMMA StoresLemma ==
    ASSUME IInv, NEW c \in Caller,
           OauthStore(c) \/ AppEngineStore(c) \/ JwtStore(c)
    PROVE  Stores(c)
  <1>1. CASE OauthStore(c)
    <2>1. PICK refresh \in BOOLEAN :
            token' = [token EXCEPT ![of[c]] = Updated(Existing(c), held[c], refresh)]
      BY <1>1 DEF OauthStore
    <2>2. pc[c] = "answered" /\ of[c] \in Transport /\ token'[of[c]] = Updated(Existing(c), held[c], refresh)
      BY <1>1, <2>1 DEF OauthStore, IInv, TypeOK
    <2>3. token'[of[c]] # NoToken /\ token'[of[c]].access = held[c]
      <3>1. held[c] \in Nat /\ (refresh \/ Existing(c).refresh) \in BOOLEAN
        BY <2>2, HeldGood
      <3>2. [access |-> held[c], refresh |-> (refresh \/ Existing(c).refresh)] # NoToken
        BY <3>1, NotNil
      <3> QED
        BY <2>2, <3>2 DEF Updated
    <2>4. \A t \in Transport : t # of[c] => token'[t] = token[t]
      BY <2>1 DEF IInv, TypeOK
    <2> QED
      BY <1>1, <2>2, <2>3, <2>4
      DEF OauthStore, Stores, Keeps, Changes, Resting, Goto, IInv, TypeOK,
          fixed, server, disk, jwtVars
  <1>2. CASE AppEngineStore(c)
    <2>1. [access |-> held[c], refresh |-> FALSE] # NoToken
      BY <1>2, HeldGood, NotNil DEF AppEngineStore
    <2> QED
      BY <1>2, <2>1
      DEF AppEngineStore, Stores, Keeps, Changes, Resting, Goto, IInv, TypeOK, fixed, server, disk, jwtVars
  <1>3. CASE JwtStore(c)
    <2>1. [access |-> held[c], refresh |-> FALSE] # NoToken
      BY <1>3, HeldGood, NotNil DEF JwtStore
    <2> QED
      BY <1>3, <2>1
      DEF JwtStore, Stores, Keeps, Changes, Resting, Goto, IInv, TypeOK, fixed, server, disk, jwtVars
  <1> QED
    BY <1>1, <1>2, <1>3

\* The call returns.
LEMMA EndsLemma ==
    ASSUME IInv, NEW c \in Caller,
           OauthLoadFails(c) \/ OauthUse(c) \/ OauthCannotRefresh(c) \/
           OauthRefused(c) \/ OauthStoreUnsaved(c) \/ OauthPut(c) \/
           OauthPutFails(c) \/ ComputeUse(c) \/ ComputeRefused(c) \/
           ComputeStore(c) \/ AppEngineRefused(c) \/ AppEngineRead(c) \/
           JwtRefused(c) \/ JwtRead(c)
    PROVE  Ends(c)
  <1>1. CASE OauthUse(c)
    <2>1. token[of[c]] # NoToken /\ ~Expired(token[of[c]])
      BY <1>1 DEF OauthUse
    <2>2. GoodFor(c, token[of[c]].access)
      BY <2>1, GoodNow
    <2> QED
      BY <1>1, <2>1, <2>2
      DEF OauthUse, Ends, Keeps, Changes, Holds, Resting, Return, Goto, Unlock, IInv, TypeOK, Ops,
          fixed, server, disk, jwtVars
  <1>2. CASE OauthStoreUnsaved(c)
    <2>1. PICK refresh \in BOOLEAN :
            token' = [token EXCEPT ![of[c]] = Updated(Existing(c), held[c], refresh)]
      BY <1>2 DEF OauthStoreUnsaved
    <2>2. pc[c] = "answered" /\ of[c] \in Transport /\ token'[of[c]] = Updated(Existing(c), held[c], refresh)
      BY <1>2, <2>1 DEF OauthStoreUnsaved, IInv, TypeOK
    <2>3. token'[of[c]] # NoToken /\ token'[of[c]].access = held[c]
      <3>1. held[c] \in Nat /\ (refresh \/ Existing(c).refresh) \in BOOLEAN
        BY <2>2, HeldGood
      <3>2. [access |-> held[c], refresh |-> (refresh \/ Existing(c).refresh)] # NoToken
        BY <3>1, NotNil
      <3> QED
        BY <2>2, <3>2 DEF Updated
    <2>4. \A t \in Transport : t # of[c] => token'[t] = token[t]
      BY <2>1 DEF IInv, TypeOK
    <2>5. GoodFor(c, held[c])
      BY <2>2, HeldGood
    <2> QED
      BY <1>2, <2>2, <2>3, <2>4, <2>5
      DEF OauthStoreUnsaved, Ends, Keeps, Changes, Holds, Resting, Return, Fail, Release, Goto,
          Unlock, IInv, TypeOK, Ops, Bare, Op, Setup, fixed, server, disk, jwtVars
  <1>3. CASE ComputeUse(c)
    <2>1. token[of[c]] # NoToken /\ ~Expired(token[of[c]])
      BY <1>3 DEF ComputeUse, ComputeHas
    <2>2. GoodFor(c, token[of[c]].access)
      BY <2>1, GoodNow
    <2> QED
      BY <1>3, <2>1, <2>2
      DEF ComputeUse, Ends, Keeps, Changes, Holds, Resting, Return, Goto, Unlock, IInv, TypeOK, Ops,
          fixed, server, disk, jwtVars
  <1>4. CASE ComputeStore(c)
    <2>1. [access |-> held[c], refresh |-> FALSE] # NoToken /\ GoodFor(c, held[c])
      BY <1>4, HeldGood, NotNil DEF ComputeStore
    <2> QED
      BY <1>4, <2>1
      DEF ComputeStore, Ends, Keeps, Changes, Holds, Resting, Return, Goto, Unlock, IInv, TypeOK,
          Ops, fixed, server, disk, jwtVars
  <1>5. ASSUME OauthPut(c) \/ OauthPutFails(c) PROVE Ends(c)
    <2>1. pc[c] = "put" /\ kind = "oauth" /\ UNCHANGED <<kind, of, now, granted, token, op, begin>>
      BY <1>5 DEF OauthPut, OauthPutFails, Return, Fail, fixed, server
    <2>2. Release(c)
      BY <1>5 DEF OauthPut, OauthPutFails
    <2>3. /\ \A t \in Transport : t # of[c] => lock'[t] = lock[t]
          /\ \/ lock' = lock
             \/ Holds(c)
      <3>1. CASE op[c] = "request"
        BY <2>1, <2>2, <3>1 DEF Release, Unlock, Holds, Bare, IInv, TypeOK
      <3>2. CASE op[c] # "request"
        BY <2>2, <3>2 DEF Release
      <3> QED
        BY <3>1, <3>2
    <2>4. made' = made
      BY <1>5, <2>1 DEF OauthPut, OauthPutFails, Return, Fail, IInv, Ops
    <2>5. \/ held' = [held EXCEPT ![c] = token[of[c]].access]
          \/ held' = [held EXCEPT ![c] = 0]
      BY <1>5 DEF OauthPut, OauthPutFails, Return, Fail
    <2>6. pc' = [pc EXCEPT ![c] = "done"]
      BY <1>5 DEF OauthPut, OauthPutFails, Return, Fail, Goto
    <2>7. op[c] = "request" => held'[c] = 0 \/ GoodFor(c, held'[c])
      <3>1. op[c] = "request" => GoodFor(c, token[of[c]].access)
        BY <2>1 DEF IInv, Good
      <3>2. held'[c] \in {0, token[of[c]].access}
        BY <2>5 DEF IInv, TypeOK
      <3> QED
        BY <3>1, <3>2
    <2> QED
      BY <2>1, <2>3, <2>4, <2>5, <2>6, <2>7 DEF Ends, Keeps, Changes, Resting, IInv, TypeOK
  <1> USE CredentialsAssumption
      DEF Ends, Changes, Keeps, GoodFor, Holds, Resting, IInv, TypeOK, Texts,
          Has, Begun, Ops, Made, AllMade, Furnished, Unmade, Fresh, Good,
          Goto, Start, StartAlone, StartShared, Return, Fail, Answer, Unlock,
          Release, Existing, Updated, ComputeHas, Expired, Time, Token,
          Grant, Setup, Op, Kind, Bare, Forever, Label, fixed, server, disk,
          jwtVars
  <1>6. CASE OauthLoadFails(c)
    BY <1>6, SMTT(30) DEF OauthLoadFails
  <1>7. CASE OauthCannotRefresh(c)
    BY <1>7, SMTT(30) DEF OauthCannotRefresh
  <1>8. CASE OauthRefused(c)
    BY <1>8, SMTT(30) DEF OauthRefused
  <1>9. CASE ComputeRefused(c)
    BY <1>9, SMTT(30) DEF ComputeRefused
  <1>10. CASE AppEngineRefused(c)
    BY <1>10, SMTT(30) DEF AppEngineRefused
  <1>11. CASE AppEngineRead(c)
    BY <1>11, SMTT(30) DEF AppEngineRead
  <1>12. CASE JwtRefused(c)
    BY <1>12, SMTT(30) DEF JwtRefused
  <1>13. CASE JwtRead(c)
    BY <1>13, SMTT(30) DEF JwtRead
  <1> QED
    BY <1>1, <1>2, <1>3, <1>4, <1>5, <1>6, <1>7, <1>8, <1>9, <1>10, <1>11,
        <1>12, <1>13

\* The goroutine is ready again.
LEMMA RestsLemma ==
    ASSUME IInv, NEW c \in Caller,
           Rest(c)
    PROVE  Rests(c)
  <1> USE CredentialsAssumption
      DEF Rests, Changes, Resting, IInv, TypeOK, Texts, Has, Begun, Ops,
          Made, AllMade, Furnished, Unmade, Fresh, Good, Goto, Start,
          StartAlone, StartShared, Return, Fail, Answer, Unlock, Release,
          Existing, Updated, ComputeHas, Expired, Time, Token, Grant, Setup,
          Op, Kind, Bare, Forever, Label, fixed, server, disk, jwtVars
  <1>1. CASE Rest(c)
    BY <1>1, SMTT(30) DEF Rest
  <1> QED
    BY <1>1

-----------------------------------------------------------------------------
(* Types.                                                                  *)

LEMMA ReleaseTyped ==
    ASSUME IInv, NEW c \in Caller, Release(c)
    PROVE  lock' \in [Transport -> Caller \cup {Free}]
  BY DEF Release, Unlock, IInv, TypeOK

LEMMA GotoTyped ==
    ASSUME IInv, NEW c \in Caller, NEW label \in Label, Goto(c, label)
    PROVE  pc' \in [Caller -> Label]
  BY DEF Goto, IInv, TypeOK

LEMMA FailTyped ==
    ASSUME IInv, NEW c \in Caller, Fail(c)
    PROVE  /\ pc' \in [Caller -> Label]
           /\ held' \in [Caller -> 0..Len(granted)]
           /\ made' = made /\ op' = op /\ begin' = begin
  <1>1. pc' \in [Caller -> Label]
    BY GotoTyped DEF Fail, Label
  <1>2. 0 \in 0..Len(granted) /\ held' = [held EXCEPT ![c] = 0]
    BY DEF Fail, IInv, TypeOK
  <1> QED
    BY <1>1, <1>2 DEF Fail, IInv, TypeOK

LEMMA SignerTyped ==
    ASSUME IInv, NEW c \in Caller
    PROVE  /\ of[c] \in Transport /\ now \in Time
           /\ signer[of[c]] \in [iat: Time, claim: Time, sig: Time]
           /\ jwt[c] \in [claim: Time, sig: Time]
  BY DEF IInv, TypeOK

LEMMA AnswerTyped ==
    ASSUME IInv, NEW c \in Caller,
           NEW expiry \in Nat, NEW empty \in BOOLEAN, Answer(c, expiry, empty)
    PROVE  TypeOK' /\ Texts'
  <1>1. UNCHANGED <<kind, of, now, token, made, lock, cache, saved, op, begin, signer, jwt>>
    BY DEF Answer, fixed, disk, jwtVars
  <1>2. pc' \in [Caller -> Label]
    BY GotoTyped DEF Answer, Label
  <1>3. granted \in Seq(Grant) /\ [expiry |-> expiry, empty |-> empty] \in Grant
    BY DEF IInv, TypeOK, Grant
  <1>4. granted' \in Seq(Grant) /\ Len(granted') = Len(granted) + 1 /\ Len(granted) \in Nat
    BY <1>3 DEF Answer
  <1>5. held' \in [Caller -> 0..Len(granted')]
    BY <1>4 DEF Answer, IInv, TypeOK
  <1> QED
    BY <1>1, <1>2, <1>4, <1>5 DEF IInv, TypeOK, Texts

\* updateToken makes a token of a token.
LEMMA UpdatedTyped ==
    ASSUME IInv, NEW c \in Caller, kind = "oauth", pc[c] = "answered", NEW refresh \in BOOLEAN,
           token' = [token EXCEPT ![of[c]] = Updated(Existing(c), held[c], refresh)]
    PROVE  /\ token' \in [Transport -> Token \cup {NoToken}]
           /\ \A t \in Transport : token'[t] # NoToken => token'[t].access \in 0..Len(granted)
  <1>1. held[c] \in Nat /\ held[c] \in 0..Len(granted)
    BY DEF IInv, TypeOK
  <1>2. (refresh \/ Existing(c).refresh) \in BOOLEAN
    OBVIOUS
  <1>3. Updated(Existing(c), held[c], refresh) \in Token
    BY <1>1, <1>2 DEF Updated, Token
  <1>4. Updated(Existing(c), held[c], refresh).access = held[c]
    BY DEF Updated
  <1> QED
    BY <1>1, <1>3, <1>4 DEF IInv, TypeOK, Texts

LEMMA StartTyped ==
    ASSUME IInv, NEW c \in Caller, NEW what \in Op, NEW label \in Label,
           Start(c, what, label)
    PROVE  /\ pc' \in [Caller -> Label] /\ op' \in [Caller -> Op]
           /\ begin' \in [Caller -> Time] /\ held' \in [Caller -> 0..Len(granted)]
  <1>1. pc' \in [Caller -> Label]
    BY GotoTyped DEF Start
  <1>2. 0 \in Time /\ now \in Time
    BY CredentialsAssumption DEF Time, IInv, TypeOK
  <1>3. begin' \in [Caller -> Time]
    BY <1>2 DEF Start, IInv, TypeOK
  <1> QED
    BY <1>1, <1>3 DEF Start, IInv, TypeOK

LEMMA ReturnTyped ==
    ASSUME IInv, NEW c \in Caller, NEW a \in 0..Len(granted), Return(c, a)
    PROVE  /\ pc' \in [Caller -> Label]
           /\ held' \in [Caller -> 0..Len(granted)]
           /\ made' \subseteq Transport /\ op' = op /\ begin' = begin
  <1>1. pc' \in [Caller -> Label]
    BY GotoTyped DEF Return, Label
  <1>2. of[c] \in Transport /\ made \subseteq Transport
    BY DEF IInv, TypeOK
  <1>3. made' \subseteq Transport
    BY <1>2 DEF Return
  <1> QED
    BY <1>1, <1>3 DEF Return, IInv, TypeOK

\* A token that is there has a text that was granted.
LEMMA TextTyped ==
    ASSUME IInv, NEW c \in Caller, token[of[c]] # NoToken
    PROVE  token[of[c]] \in Token /\ token[of[c]].access \in 0..Len(granted)
  BY DEF IInv, TypeOK, Texts

\* A grant becomes the token of a transport.
LEMMA PlainTyped ==
    ASSUME IInv, NEW c \in Caller, NEW a \in 0..Len(granted),
           token' = [token EXCEPT ![of[c]] = [access |-> a, refresh |-> FALSE]]
    PROVE  /\ token' \in [Transport -> Token \cup {NoToken}]
           /\ \A t \in Transport : token'[t] # NoToken => token'[t].access \in 0..Len(granted)
  <1>1. [access |-> a, refresh |-> FALSE] \in Token
    BY DEF Token, IInv, TypeOK
  <1> QED
    BY <1>1 DEF IInv, TypeOK, Texts

LEMMA TypesKept ==
    ASSUME IInv, NEW c \in Caller, Call(c) \/ Lock(c) \/ Step(c) \/ Rest(c)
    PROVE  TypeOK' /\ Texts'
  <1>1. CASE OauthRefresh(c)
    <2>1. UNCHANGED <<kind, of, now, granted, token, made, lock, cache, saved, op, begin, held, signer, jwt>>
      BY <1>1 DEF OauthRefresh, fixed, server, disk, jwtVars
    <2>2. pc' \in [Caller -> Label]
      BY <1>1, GotoTyped DEF OauthRefresh, Label
    <2> QED
      BY <2>1, <2>2 DEF IInv, TypeOK, Texts
  <1>2. CASE ComputeRefresh(c)
    <2>1. UNCHANGED <<kind, of, now, granted, token, made, lock, cache, saved, op, begin, held, signer, jwt>>
      BY <1>2 DEF ComputeRefresh, fixed, server, disk, jwtVars
    <2>2. pc' \in [Caller -> Label]
      BY <1>2, GotoTyped DEF ComputeRefresh, Label
    <2> QED
      BY <2>1, <2>2 DEF IInv, TypeOK, Texts
  <1>3. CASE AppEngineFetch(c)
    <2>1. UNCHANGED <<kind, of, now, granted, token, made, lock, cache, saved, op, begin, held, signer, jwt>>
      BY <1>3 DEF AppEngineFetch, fixed, server, disk, jwtVars
    <2>2. pc' \in [Caller -> Label]
      BY <1>3, GotoTyped DEF AppEngineFetch, Label
    <2> QED
      BY <2>1, <2>2 DEF IInv, TypeOK, Texts
  <1>4. CASE AppEngineCheck(c)
    <2>1. UNCHANGED <<kind, of, now, granted, token, made, lock, cache, saved, op, begin, held, signer, jwt>>
      BY <1>4 DEF AppEngineCheck, fixed, server, disk, jwtVars
    <2>2. pc' \in [Caller -> Label]
      BY <1>4, GotoTyped DEF AppEngineCheck, Label
    <2> QED
      BY <2>1, <2>2 DEF IInv, TypeOK, Texts
  <1>5. CASE JwtCheck(c)
    <2>1. UNCHANGED <<kind, of, now, granted, token, made, lock, cache, saved, op, begin, held, signer, jwt>>
      BY <1>5 DEF JwtCheck, fixed, server, disk, jwtVars
    <2>2. pc' \in [Caller -> Label]
      BY <1>5, GotoTyped DEF JwtCheck, Label
    <2> QED
      BY <2>1, <2>2 DEF IInv, TypeOK, Texts
  <1>6. CASE SetTimes(c)
    <2>1. UNCHANGED <<kind, of, now, granted, token, made, lock, cache, saved, op, begin, held, jwt>>
      BY <1>6 DEF SetTimes, fixed, server, disk, jwtVars
    <2>2. pc' \in [Caller -> Label]
      BY <1>6, GotoTyped DEF SetTimes, Label
    <2>3. signer' \in [Transport -> [iat: Time, claim: Time, sig: Time]]
      BY <1>6, SignerTyped DEF SetTimes, IInv, TypeOK
    <2> QED
      BY <2>1, <2>2, <2>3 DEF IInv, TypeOK, Texts
  <1>7. CASE Encode(c)
    <2>1. UNCHANGED <<kind, of, now, granted, token, made, lock, cache, saved, op, begin, held, jwt>>
      BY <1>7 DEF Encode, fixed, server, disk, jwtVars
    <2>2. pc' \in [Caller -> Label]
      BY <1>7, GotoTyped DEF Encode, Label
    <2>3. signer' \in [Transport -> [iat: Time, claim: Time, sig: Time]]
      BY <1>7, SignerTyped DEF Encode, IInv, TypeOK
    <2> QED
      BY <2>1, <2>2, <2>3 DEF IInv, TypeOK, Texts
  <1>8. CASE Digest(c)
    <2>1. UNCHANGED <<kind, of, now, granted, token, made, lock, cache, saved, op, begin, held, signer>>
      BY <1>8 DEF Digest, fixed, server, disk, jwtVars
    <2>2. pc' \in [Caller -> Label]
      BY <1>8, GotoTyped DEF Digest, Label
    <2>3. jwt' \in [Caller -> [claim: Time, sig: Time]]
      BY <1>8, SignerTyped DEF Digest, IInv, TypeOK
    <2> QED
      BY <2>1, <2>2, <2>3 DEF IInv, TypeOK, Texts
  <1>9. CASE Sign(c)
    <2>1. UNCHANGED <<kind, of, now, granted, token, made, lock, cache, saved, op, begin, held, jwt>>
      BY <1>9 DEF Sign, fixed, server, disk, jwtVars
    <2>2. pc' \in [Caller -> Label]
      BY <1>9, GotoTyped DEF Sign, Label
    <2>3. signer' \in [Transport -> [iat: Time, claim: Time, sig: Time]]
      BY <1>9, SignerTyped DEF Sign, IInv, TypeOK
    <2> QED
      BY <2>1, <2>2, <2>3 DEF IInv, TypeOK, Texts
  <1>10. CASE Join(c)
    <2>1. UNCHANGED <<kind, of, now, granted, token, made, lock, cache, saved, op, begin, held, signer>>
      BY <1>10 DEF Join, fixed, server, disk, jwtVars
    <2>2. pc' \in [Caller -> Label]
      BY <1>10, GotoTyped DEF Join, Label
    <2>3. jwt' \in [Caller -> [claim: Time, sig: Time]]
      BY <1>10, SignerTyped DEF Join, IInv, TypeOK
    <2> QED
      BY <2>1, <2>2, <2>3 DEF IInv, TypeOK, Texts
  <1>11. CASE OauthAnswer(c)
    <2>1. now + Lifetime \in Nat /\ Forever \in Nat
      BY CredentialsAssumption DEF IInv, TypeOK, Time, Forever
    <2> QED
      BY <1>11, <2>1, AnswerTyped DEF OauthAnswer
  <1>12. CASE ComputeAnswer(c)
    <2>1. now \in Nat /\ now + Lifetime \in Nat
      BY CredentialsAssumption DEF IInv, TypeOK, Time
    <2>2. CASE Answer(c, now + Lifetime, FALSE)
      BY <2>1, <2>2, AnswerTyped
    <2>3. CASE Answer(c, now, TRUE)
      BY <2>1, <2>3, AnswerTyped
    <2> QED
      BY <1>12, <2>2, <2>3 DEF ComputeAnswer
  <1>13. CASE AppEngineAnswer(c)
    <2>1. now + Lifetime \in Nat /\ Forever \in Nat
      BY CredentialsAssumption DEF IInv, TypeOK, Time, Forever
    <2> QED
      BY <1>13, <2>1, AnswerTyped DEF AppEngineAnswer
  <1>14. CASE JwtAnswer(c)
    <2>1. now \in Nat /\ now + Lifetime \in Nat
      BY CredentialsAssumption DEF IInv, TypeOK, Time
    <2>2. CASE Answer(c, now + Lifetime, FALSE)
      BY <2>1, <2>2, AnswerTyped
    <2>3. CASE Answer(c, now, TRUE)
      BY <2>1, <2>3, AnswerTyped
    <2> QED
      BY <1>14, <2>2, <2>3 DEF JwtAnswer
  <1>15. CASE OauthStore(c)
    <2>1. UNCHANGED <<kind, of, now, granted, made, lock, saved, op, begin, held, signer, jwt>>
      BY <1>15 DEF OauthStore, fixed, server, jwtVars
    <2>2. pc' \in [Caller -> Label]
      BY <1>15, GotoTyped DEF OauthStore, Label
    <2>3. /\ token' \in [Transport -> Token \cup {NoToken}]
          /\ \A t \in Transport : token'[t] # NoToken => token'[t].access \in 0..Len(granted)
      BY <1>15, UpdatedTyped DEF OauthStore
    <2>4. kind = "oauth" /\ cache' = Unreadable /\ Unreadable \notin Token
      BY <1>15, CredentialsAssumption DEF OauthStore, Token
    <2> QED
      BY <2>1, <2>2, <2>3, <2>4 DEF IInv, TypeOK, Texts
  <1>16. CASE OauthLoadFails(c)
    <2>1. UNCHANGED <<kind, of, now, granted, token, cache, signer, jwt>> /\ saved' \in BOOLEAN
      BY <1>16 DEF OauthLoadFails, fixed, server, disk, jwtVars, IInv, TypeOK
    <2>2. lock' \in [Transport -> Caller \cup {Free}]
      BY <1>16, ReleaseTyped DEF OauthLoadFails, Unlock, IInv, TypeOK
    <2> QED
      BY <1>16, <2>1, <2>2, FailTyped DEF OauthLoadFails, IInv, TypeOK, Texts
  <1>17. CASE OauthCannotRefresh(c)
    <2>1. UNCHANGED <<kind, of, now, granted, token, cache, signer, jwt>> /\ saved' \in BOOLEAN
      BY <1>17 DEF OauthCannotRefresh, fixed, server, disk, jwtVars, IInv, TypeOK
    <2>2. lock' \in [Transport -> Caller \cup {Free}]
      BY <1>17, ReleaseTyped DEF OauthCannotRefresh, Unlock, IInv, TypeOK
    <2> QED
      BY <1>17, <2>1, <2>2, FailTyped DEF OauthCannotRefresh, IInv, TypeOK, Texts
  <1>18. CASE OauthRefused(c)
    <2>1. UNCHANGED <<kind, of, now, granted, token, cache, signer, jwt>> /\ saved' \in BOOLEAN
      BY <1>18 DEF OauthRefused, fixed, server, disk, jwtVars, IInv, TypeOK
    <2>2. lock' \in [Transport -> Caller \cup {Free}]
      BY <1>18, ReleaseTyped DEF OauthRefused, Unlock, IInv, TypeOK
    <2> QED
      BY <1>18, <2>1, <2>2, FailTyped DEF OauthRefused, IInv, TypeOK, Texts
  <1>19. CASE OauthStoreUnsaved(c)
    <2>1. UNCHANGED <<kind, of, now, granted, cache, saved, op, begin, signer, jwt>>
      BY <1>19 DEF OauthStoreUnsaved, Return, Fail, fixed, server, disk, jwtVars
    <2>2. pc' \in [Caller -> Label]
      BY <1>19, GotoTyped DEF OauthStoreUnsaved, Return, Fail, Label
    <2>3. /\ token' \in [Transport -> Token \cup {NoToken}]
          /\ \A t \in Transport : token'[t] # NoToken => token'[t].access \in 0..Len(granted)
      BY <1>19, UpdatedTyped DEF OauthStoreUnsaved
    <2>4. held' \in [Caller -> 0..Len(granted)] /\ made' \subseteq Transport
      <3>1. Len(granted) \in Nat /\ held[c] \in 0..Len(granted)
        BY DEF IInv, TypeOK
      <3>2. \/ held' = [held EXCEPT ![c] = 0] /\ made' = made
            \/ held' = [held EXCEPT ![c] = held[c]]
               /\ made' \in {made, made \cup {of[c]}}
        BY <1>19 DEF OauthStoreUnsaved, Return, Fail
      <3>3. of[c] \in Transport /\ made \subseteq Transport /\ held \in [Caller -> 0..Len(granted)]
        BY DEF IInv, TypeOK
      <3>4. held' \in [Caller -> 0..Len(granted)]
        BY <3>1, <3>2, <3>3
      <3> QED
        BY <3>2, <3>3, <3>4
    <2>5. lock' \in [Transport -> Caller \cup {Free}]
      BY <1>19, ReleaseTyped DEF OauthStoreUnsaved
    <2> QED
      BY <2>1, <2>2, <2>3, <2>4, <2>5 DEF IInv, TypeOK, Texts
  <1>20. CASE OauthPutFails(c)
    <2>1. UNCHANGED <<kind, of, now, granted, token, cache, signer, jwt>> /\ saved' \in BOOLEAN
      BY <1>20 DEF OauthPutFails, fixed, server, disk, jwtVars, IInv, TypeOK
    <2>2. lock' \in [Transport -> Caller \cup {Free}]
      BY <1>20, ReleaseTyped DEF OauthPutFails, Unlock, IInv, TypeOK
    <2> QED
      BY <1>20, <2>1, <2>2, FailTyped DEF OauthPutFails, IInv, TypeOK, Texts
  <1>21. CASE ComputeRefused(c)
    <2>1. UNCHANGED <<kind, of, now, granted, token, cache, signer, jwt>> /\ saved' \in BOOLEAN
      BY <1>21 DEF ComputeRefused, fixed, server, disk, jwtVars, IInv, TypeOK
    <2>2. lock' \in [Transport -> Caller \cup {Free}]
      BY <1>21, ReleaseTyped DEF ComputeRefused, Unlock, IInv, TypeOK
    <2> QED
      BY <1>21, <2>1, <2>2, FailTyped DEF ComputeRefused, IInv, TypeOK, Texts
  <1>22. CASE AppEngineRefused(c)
    <2>1. UNCHANGED <<kind, of, now, granted, token, cache, signer, jwt>> /\ saved' \in BOOLEAN
      BY <1>22 DEF AppEngineRefused, fixed, server, disk, jwtVars, IInv, TypeOK
    <2>2. lock' \in [Transport -> Caller \cup {Free}]
      BY <1>22, ReleaseTyped DEF AppEngineRefused, Unlock, IInv, TypeOK
    <2> QED
      BY <1>22, <2>1, <2>2, FailTyped DEF AppEngineRefused, IInv, TypeOK, Texts
  <1>23. CASE JwtRefused(c)
    <2>1. UNCHANGED <<kind, of, now, granted, token, cache, signer, jwt>> /\ saved' \in BOOLEAN
      BY <1>23 DEF JwtRefused, fixed, server, disk, jwtVars, IInv, TypeOK
    <2>2. lock' \in [Transport -> Caller \cup {Free}]
      BY <1>23, ReleaseTyped DEF JwtRefused, Unlock, IInv, TypeOK
    <2> QED
      BY <1>23, <2>1, <2>2, FailTyped DEF JwtRefused, IInv, TypeOK, Texts
  <1>24. CASE Begin(c)
    <2>1. UNCHANGED <<kind, of, now, granted, token, made, lock, cache, saved, signer, jwt>>
      BY <1>24 DEF Begin, StartAlone, StartShared, fixed, server, disk, jwtVars
    <2>2. Start(c, "request", "begin")
      BY <1>24 DEF Begin, StartAlone, StartShared
    <2>3. /\ pc' \in [Caller -> Label] /\ op' \in [Caller -> Op]
          /\ begin' \in [Caller -> Time] /\ held' \in [Caller -> 0..Len(granted)]
      BY <2>2, StartTyped DEF Op, Setup, Label
    <2> QED
      BY <2>1, <2>3 DEF IInv, TypeOK, Texts
  <1>25. CASE Exchange(c)
    <2>1. UNCHANGED <<kind, of, now, granted, token, made, lock, cache, saved, signer, jwt>>
      BY <1>25 DEF Exchange, StartAlone, StartShared, fixed, server, disk, jwtVars
    <2>2. Start(c, "exchange", "asking")
      BY <1>25 DEF Exchange, StartAlone, StartShared
    <2>3. /\ pc' \in [Caller -> Label] /\ op' \in [Caller -> Op]
          /\ begin' \in [Caller -> Time] /\ held' \in [Caller -> 0..Len(granted)]
      BY <2>2, StartTyped DEF Op, Setup, Label
    <2> QED
      BY <2>1, <2>3 DEF IInv, TypeOK, Texts
  <1>26. CASE AuthenticateClient(c)
    <2>1. UNCHANGED <<kind, of, now, granted, made, lock, cache, signer, jwt>> /\ saved' \in BOOLEAN
      BY <1>26 DEF AuthenticateClient, fixed, server, jwtVars, IInv, TypeOK
    <2>2. Start(c, "authenticate", "asking")
      BY <1>26 DEF AuthenticateClient, StartAlone
    <2>3. /\ pc' \in [Caller -> Label] /\ op' \in [Caller -> Op]
          /\ begin' \in [Caller -> Time] /\ held' \in [Caller -> 0..Len(granted)]
      BY <2>2, StartTyped DEF Op, Setup, Label
    <2>4. \/ token' = token
          \/ token' = [token EXCEPT ![of[c]] = [access |-> 0, refresh |-> FALSE]]
      BY <1>26 DEF AuthenticateClient
    <2>5. CASE token' = token
      BY <2>1, <2>3, <2>5 DEF IInv, TypeOK, Texts
    <2>6. CASE token' = [token EXCEPT ![of[c]] = [access |-> 0, refresh |-> FALSE]]
      <3>1. 0 \in Nat /\ 0 \in 0..Len(granted)
        BY DEF IInv, TypeOK
      <3>2. /\ token' \in [Transport -> Token \cup {NoToken}]
            /\ \A t \in Transport : token'[t] # NoToken => token'[t].access \in 0..Len(granted)
        BY <2>6, <3>1, PlainTyped
      <3> QED
        BY <2>1, <2>3, <3>2 DEF IInv, TypeOK, Texts
    <2> QED
      BY <2>4, <2>5, <2>6
  <1>27. CASE Refresh(c)
    <2>1. UNCHANGED <<kind, of, now, granted, token, made, lock, cache, saved, signer, jwt>>
      BY <1>27 DEF Refresh, StartAlone, StartShared, fixed, server, disk, jwtVars
    <2>2. Start(c, "refresh", "asking")
      BY <1>27 DEF Refresh, StartAlone, StartShared
    <2>3. /\ pc' \in [Caller -> Label] /\ op' \in [Caller -> Op]
          /\ begin' \in [Caller -> Time] /\ held' \in [Caller -> 0..Len(granted)]
      BY <2>2, StartTyped DEF Op, Setup, Label
    <2> QED
      BY <2>1, <2>3 DEF IInv, TypeOK, Texts
  <1>28. CASE ComputeNewClient(c)
    <2>1. UNCHANGED <<kind, of, now, granted, token, made, lock, cache, saved, signer, jwt>>
      BY <1>28 DEF ComputeNewClient, StartAlone, StartShared, fixed, server, disk, jwtVars
    <2>2. Start(c, "new", "begin")
      BY <1>28 DEF ComputeNewClient, StartAlone, StartShared
    <2>3. /\ pc' \in [Caller -> Label] /\ op' \in [Caller -> Op]
          /\ begin' \in [Caller -> Time] /\ held' \in [Caller -> 0..Len(granted)]
      BY <2>2, StartTyped DEF Op, Setup, Label
    <2> QED
      BY <2>1, <2>3 DEF IInv, TypeOK, Texts
  <1>29. CASE ComputeRenew(c)
    <2>1. UNCHANGED <<kind, of, now, granted, token, made, lock, cache, saved, signer, jwt>>
      BY <1>29 DEF ComputeRenew, StartAlone, StartShared, fixed, server, disk, jwtVars
    <2>2. Start(c, "renew", "begin")
      BY <1>29 DEF ComputeRenew, StartAlone, StartShared
    <2>3. /\ pc' \in [Caller -> Label] /\ op' \in [Caller -> Op]
          /\ begin' \in [Caller -> Time] /\ held' \in [Caller -> 0..Len(granted)]
      BY <2>2, StartTyped DEF Op, Setup, Label
    <2> QED
      BY <2>1, <2>3 DEF IInv, TypeOK, Texts
  <1>30. CASE AppEngineNewClient(c)
    <2>1. UNCHANGED <<kind, of, now, granted, made, lock, cache, saved, signer, jwt>>
      BY <1>30 DEF AppEngineNewClient, StartAlone, StartShared, fixed, server, disk, jwtVars
    <2>2. Start(c, "new", "begin")
      BY <1>30 DEF AppEngineNewClient, StartAlone, StartShared
    <2>3. /\ pc' \in [Caller -> Label] /\ op' \in [Caller -> Op]
          /\ begin' \in [Caller -> Time] /\ held' \in [Caller -> 0..Len(granted)]
      BY <2>2, StartTyped DEF Op, Setup, Label
    <2>4. /\ token' \in [Transport -> Token \cup {NoToken}]
          /\ \A t \in Transport : token'[t] # NoToken => token'[t].access \in 0..Len(granted)
      BY <1>30 DEF AppEngineNewClient, IInv, TypeOK, Texts
    <2> QED
      BY <2>1, <2>3, <2>4 DEF IInv, TypeOK, Texts
  <1>31. CASE JwtNewTransport(c)
    <2>1. UNCHANGED <<kind, of, now, granted, token, made, lock, cache, saved, signer, jwt>>
      BY <1>31 DEF JwtNewTransport, StartAlone, StartShared, fixed, server, disk, jwtVars
    <2>2. Start(c, "new", "times")
      BY <1>31 DEF JwtNewTransport, StartAlone, StartShared
    <2>3. /\ pc' \in [Caller -> Label] /\ op' \in [Caller -> Op]
          /\ begin' \in [Caller -> Time] /\ held' \in [Caller -> 0..Len(granted)]
      BY <2>2, StartTyped DEF Op, Setup, Label
    <2> QED
      BY <2>1, <2>3 DEF IInv, TypeOK, Texts
  <1>32. CASE OauthLock(c)
    <2>1. UNCHANGED <<kind, of, now, granted, token, made, cache, saved, op, begin, held, signer, jwt>>
      BY <1>32 DEF OauthLock, fixed, server, disk, jwtVars
    <2>2. pc' \in [Caller -> Label]
      BY <1>32, GotoTyped DEF OauthLock, Label
    <2>3. lock' \in [Transport -> Caller \cup {Free}]
      BY <1>32 DEF OauthLock, IInv, TypeOK
    <2> QED
      BY <2>1, <2>2, <2>3 DEF IInv, TypeOK, Texts
  <1>33. CASE ComputeLock(c)
    <2>1. UNCHANGED <<kind, of, now, granted, token, made, cache, saved, op, begin, held, signer, jwt>>
      BY <1>33 DEF ComputeLock, fixed, server, disk, jwtVars
    <2>2. pc' \in [Caller -> Label]
      BY <1>33, GotoTyped DEF ComputeLock, Label
    <2>3. lock' \in [Transport -> Caller \cup {Free}]
      BY <1>33 DEF ComputeLock, IInv, TypeOK
    <2> QED
      BY <2>1, <2>2, <2>3 DEF IInv, TypeOK, Texts
  <1>34. CASE AppEnginePut(c)
    <2>1. UNCHANGED <<kind, of, now, granted, token, made, lock, saved, op, begin, held, signer, jwt>>
      BY <1>34 DEF AppEnginePut, fixed, server, jwtVars
    <2>2. pc' \in [Caller -> Label]
      BY <1>34, GotoTyped DEF AppEnginePut, Label
    <2>3. token[of[c]] # NoToken /\ kind = "appengine" /\ cache' \in {cache, token[of[c]]}
      BY <1>34 DEF AppEnginePut, IInv, Has
    <2>4. token[of[c]] \in Token /\ token[of[c]].access \in 0..Len(granted)
      BY <2>3, TextTyped
    <2> QED
      BY <2>1, <2>2, <2>3, <2>4 DEF IInv, TypeOK, Texts
  <1>35. CASE OauthLoad(c)
    <2>1. UNCHANGED <<kind, of, now, granted, made, lock, cache, saved, pc, op, begin, held, signer, jwt>>
      BY <1>35 DEF OauthLoad, fixed, server, disk, jwtVars
    <2>2. token' = [token EXCEPT ![of[c]] = cache] /\ cache \in Token \cup {NoToken}
      BY <1>35 DEF OauthLoad, IInv, TypeOK
    <2> QED
      BY <2>1, <2>2 DEF IInv, TypeOK, Texts
  <1>36. CASE AppEngineLoad(c)
    <2>1. UNCHANGED <<kind, of, now, granted, made, lock, cache, saved, op, begin, held, signer, jwt>>
      BY <1>36 DEF AppEngineLoad, fixed, server, disk, jwtVars
    <2>2. pc' \in [Caller -> Label]
      BY <1>36, GotoTyped DEF AppEngineLoad, Label
    <2>3. /\ token' = [token EXCEPT ![of[c]] = IF cache = Unreadable THEN NoToken ELSE cache]
          /\ cache \in Token \cup {NoToken, Unreadable}
      BY <1>36 DEF AppEngineLoad, IInv, Texts
    <2> QED
      BY <2>1, <2>2, <2>3 DEF IInv, TypeOK, Texts
  <1>37. CASE AppEngineStore(c)
    <2>1. UNCHANGED <<kind, of, now, granted, made, lock, cache, saved, op, begin, held, signer, jwt>>
      BY <1>37 DEF AppEngineStore, fixed, server, disk, jwtVars
    <2>2. pc' \in [Caller -> Label]
      BY <1>37, GotoTyped DEF AppEngineStore, Label
    <2>3. /\ token' \in [Transport -> Token \cup {NoToken}]
          /\ \A t \in Transport : token'[t] # NoToken => token'[t].access \in 0..Len(granted)
      BY <1>37, PlainTyped DEF AppEngineStore, IInv, TypeOK
    <2> QED
      BY <2>1, <2>2, <2>3 DEF IInv, TypeOK, Texts
  <1>38. CASE JwtStore(c)
    <2>1. UNCHANGED <<kind, of, now, granted, made, lock, cache, saved, op, begin, held, signer, jwt>>
      BY <1>38 DEF JwtStore, fixed, server, disk, jwtVars
    <2>2. pc' \in [Caller -> Label]
      BY <1>38, GotoTyped DEF JwtStore, Label
    <2>3. /\ token' \in [Transport -> Token \cup {NoToken}]
          /\ \A t \in Transport : token'[t] # NoToken => token'[t].access \in 0..Len(granted)
      BY <1>38, PlainTyped DEF JwtStore, IInv, TypeOK
    <2> QED
      BY <2>1, <2>2, <2>3 DEF IInv, TypeOK, Texts
  <1>39. CASE OauthUse(c)
    <2>1. UNCHANGED <<kind, of, now, granted, token, cache, saved, signer, jwt>>
      BY <1>39 DEF OauthUse, fixed, server, disk, jwtVars
    <2>2. token[of[c]].access \in 0..Len(granted)
      BY <1>39, TextTyped DEF OauthUse
    <2>3. Return(c, token[of[c]].access)
      BY <1>39 DEF OauthUse
    <2>4. /\ pc' \in [Caller -> Label] /\ held' \in [Caller -> 0..Len(granted)]
          /\ made' \subseteq Transport /\ op' = op /\ begin' = begin
      BY <2>2, <2>3, ReturnTyped
    <2>5. lock' \in [Transport -> Caller \cup {Free}]
      BY <1>39 DEF OauthUse, Unlock, IInv, TypeOK
    <2> QED
      BY <2>1, <2>4, <2>5 DEF IInv, TypeOK, Texts
  <1>40. CASE OauthPut(c)
    <2>1. UNCHANGED <<kind, of, now, granted, token, signer, jwt>>
      BY <1>40 DEF OauthPut, fixed, server, jwtVars
    <2>2. token[of[c]] \in Token /\ token[of[c]].access \in 0..Len(granted)
      BY <1>40, TextTyped DEF OauthPut, IInv, Has
    <2>3. Return(c, token[of[c]].access)
      BY <1>40 DEF OauthPut
    <2>4. /\ pc' \in [Caller -> Label] /\ held' \in [Caller -> 0..Len(granted)]
          /\ made' \subseteq Transport /\ op' = op /\ begin' = begin
      BY <2>2, <2>3, ReturnTyped
    <2>5. lock' \in [Transport -> Caller \cup {Free}]
      BY <1>40, ReleaseTyped DEF OauthPut
    <2>6. kind = "oauth" /\ cache' = token[of[c]] /\ saved' \in BOOLEAN
      BY <1>40 DEF OauthPut
    <2> QED
      BY <2>1, <2>2, <2>4, <2>5, <2>6 DEF IInv, TypeOK, Texts
  <1>41. CASE ComputeUse(c)
    <2>1. UNCHANGED <<kind, of, now, granted, token, cache, saved, signer, jwt>>
      BY <1>41 DEF ComputeUse, fixed, server, disk, jwtVars
    <2>2. token[of[c]].access \in 0..Len(granted)
      BY <1>41, TextTyped DEF ComputeUse, ComputeHas
    <2>3. Return(c, token[of[c]].access)
      BY <1>41 DEF ComputeUse
    <2>4. /\ pc' \in [Caller -> Label] /\ held' \in [Caller -> 0..Len(granted)]
          /\ made' \subseteq Transport /\ op' = op /\ begin' = begin
      BY <2>2, <2>3, ReturnTyped
    <2>5. lock' \in [Transport -> Caller \cup {Free}]
      BY <1>41 DEF ComputeUse, Unlock, IInv, TypeOK
    <2> QED
      BY <2>1, <2>4, <2>5 DEF IInv, TypeOK, Texts
  <1>42. CASE ComputeStore(c)
    <2>1. UNCHANGED <<kind, of, now, granted, cache, saved, signer, jwt>>
      BY <1>42 DEF ComputeStore, fixed, server, disk, jwtVars
    <2>2. held[c] \in 0..Len(granted) /\ Return(c, held[c])
      BY <1>42 DEF ComputeStore, IInv, TypeOK
    <2>3. /\ pc' \in [Caller -> Label] /\ held' \in [Caller -> 0..Len(granted)]
          /\ made' \subseteq Transport /\ op' = op /\ begin' = begin
      BY <2>2, ReturnTyped
    <2>4. lock' \in [Transport -> Caller \cup {Free}]
      BY <1>42 DEF ComputeStore, Unlock, IInv, TypeOK
    <2>5. /\ token' \in [Transport -> Token \cup {NoToken}]
          /\ \A t \in Transport : token'[t] # NoToken => token'[t].access \in 0..Len(granted)
      BY <1>42, PlainTyped DEF ComputeStore, IInv, TypeOK
    <2> QED
      BY <2>1, <2>3, <2>4, <2>5 DEF IInv, TypeOK, Texts
  <1>43. CASE AppEngineRead(c)
    <2>1. UNCHANGED <<kind, of, now, granted, token, cache, saved, signer, jwt>>
      BY <1>43 DEF AppEngineRead, fixed, server, disk, jwtVars
    <2>2. token[of[c]].access \in 0..Len(granted)
      BY <1>43, TextTyped DEF AppEngineRead, IInv, Has
    <2>3. Return(c, token[of[c]].access)
      BY <1>43 DEF AppEngineRead
    <2>4. /\ pc' \in [Caller -> Label] /\ held' \in [Caller -> 0..Len(granted)]
          /\ made' \subseteq Transport /\ op' = op /\ begin' = begin
      BY <2>2, <2>3, ReturnTyped
    <2>5. lock' \in [Transport -> Caller \cup {Free}]
      BY <1>43 DEF AppEngineRead, IInv, TypeOK
    <2> QED
      BY <2>1, <2>4, <2>5 DEF IInv, TypeOK, Texts
  <1>44. CASE JwtRead(c)
    <2>1. UNCHANGED <<kind, of, now, granted, token, cache, saved, signer, jwt>>
      BY <1>44 DEF JwtRead, fixed, server, disk, jwtVars
    <2>2. token[of[c]].access \in 0..Len(granted)
      BY <1>44, TextTyped DEF JwtRead, IInv, Has
    <2>3. Return(c, token[of[c]].access)
      BY <1>44 DEF JwtRead
    <2>4. /\ pc' \in [Caller -> Label] /\ held' \in [Caller -> 0..Len(granted)]
          /\ made' \subseteq Transport /\ op' = op /\ begin' = begin
      BY <2>2, <2>3, ReturnTyped
    <2>5. lock' \in [Transport -> Caller \cup {Free}]
      BY <1>44 DEF JwtRead, IInv, TypeOK
    <2> QED
      BY <2>1, <2>4, <2>5 DEF IInv, TypeOK, Texts
  <1>45. CASE Rest(c)
    <2>1. UNCHANGED <<kind, of, now, granted, token, made, lock, cache, saved, signer>>
      BY <1>45 DEF Rest, fixed, server, disk
    <2>2. pc' \in [Caller -> Label]
      BY <1>45, GotoTyped DEF Rest, Label
    <2>3. 0 \in Time /\ 0 \in 0..Len(granted) /\ "none" \in Op
      BY CredentialsAssumption DEF Time, Op, IInv, TypeOK
    <2>4. /\ op' = [op EXCEPT ![c] = "none"] /\ begin' = [begin EXCEPT ![c] = 0]
          /\ held' = [held EXCEPT ![c] = 0] /\ jwt' = [jwt EXCEPT ![c] = NoJwt]
      BY <1>45 DEF Rest
    <2> QED
      BY <2>1, <2>2, <2>3, <2>4 DEF IInv, TypeOK, Texts, NoJwt
  <1> QED
    BY <1>1, <1>2, <1>3, <1>4, <1>5, <1>6, <1>7, <1>8, <1>9, <1>10, <1>11,
        <1>12, <1>13, <1>14, <1>15, <1>16, <1>17, <1>18, <1>19, <1>20, <1>21,
        <1>22, <1>23, <1>24, <1>25, <1>26, <1>27, <1>28, <1>29, <1>30, <1>31,
        <1>32, <1>33, <1>34, <1>35, <1>36, <1>37, <1>38, <1>39, <1>40, <1>41,
        <1>42, <1>43, <1>44, <1>45
    DEF Call, Lock, Step, OauthCall, OauthStep, ComputeCall, ComputeStep,
        AppEngineStep, JwtStep

-----------------------------------------------------------------------------
(* Every effect keeps the invariant.                                       *)

\* What the lemmas of this part need of the types.
Typed ==
    /\ of \in [Caller -> Transport]
    /\ made \subseteq Transport
    /\ now \in Nat
    /\ begin \in [Caller -> Nat]
    /\ DOMAIN granted = 1..Len(granted) /\ Len(granted) \in Nat
    /\ \A a \in DOMAIN granted : granted[a].expiry \in Nat

LEMMA TypedLemma ==
    ASSUME TypeOK
    PROVE  Typed
  <1>1. granted \in Seq(Grant) /\ Time \subseteq Nat
    BY CredentialsAssumption DEF TypeOK, Time
  <1>2. DOMAIN granted = 1..Len(granted) /\ Len(granted) \in Nat
        /\ \A a \in DOMAIN granted : granted[a] \in Grant
    BY <1>1
  <1>3. now \in Nat /\ begin \in [Caller -> Nat] /\ of \in [Caller -> Transport]
        /\ made \subseteq Transport
    BY <1>1 DEF TypeOK
  <1> QED
    BY <1>2, <1>3 DEF Typed, Grant

LEMMA TypedPrime ==
    ASSUME TypeOK'
    PROVE  Typed'
  <1>1. granted' \in Seq(Grant) /\ Time \subseteq Nat
    BY CredentialsAssumption DEF TypeOK, Time
  <1>2. DOMAIN granted' = 1..Len(granted') /\ Len(granted') \in Nat
        /\ \A a \in DOMAIN granted' : granted'[a] \in Grant
    BY <1>1
  <1>3. now' \in Nat /\ begin' \in [Caller -> Nat] /\ of' \in [Caller -> Transport]
        /\ made' \subseteq Transport
    BY <1>1 DEF TypeOK
  <1> QED
    BY <1>2, <1>3 DEF Typed, Grant

LEMMA HasKept ==
    ASSUME Typed, Typed', Has, Alone, Unmade, NEW c \in Caller, Effect(c)
    PROVE  Has'
  <1> SUFFICES ASSUME NEW d \in Caller, pc'[d] \in {"put", "read"}
               PROVE  token'[of'[d]] # NoToken
    BY DEF Has
  <1> USE DEF Keeps, Changes, Resting, Has, Alone, Unmade, Setup, Peers, Typed
  <1>1. CASE Starts(c)
    BY <1>1, SMTT(30) DEF Starts
  <1>2. CASE Goes(c)
    BY <1>2, SMTT(30) DEF Goes
  <1>3. CASE Loads(c)
    BY <1>3, SMTT(30) DEF Loads
  <1>4. CASE Answers(c)
    BY <1>4, SMTT(30) DEF Answers
  <1>5. CASE Stores(c)
    BY <1>5, SMTT(30) DEF Stores
  <1>6. CASE Ends(c)
    BY <1>6, SMTT(30) DEF Ends
  <1>7. CASE Rests(c)
    BY <1>7, SMTT(30) DEF Rests
  <1> QED
    BY <1>1, <1>2, <1>3, <1>4, <1>5, <1>6, <1>7 DEF Effect

LEMMA IdleKept ==
    ASSUME Typed, Typed', Idle, NEW c \in Caller, Effect(c)
    PROVE  Idle'
  <1> SUFFICES ASSUME NEW d \in Caller, pc'[d] = "idle"
               PROVE  op'[d] = "none"
    BY DEF Idle
  <1> USE DEF Keeps, Changes, Resting, Idle, Typed
  <1>1. CASE Starts(c)
    BY <1>1, SMTT(30) DEF Starts
  <1>2. CASE Goes(c)
    BY <1>2, SMTT(30) DEF Goes
  <1>3. CASE Loads(c)
    BY <1>3, SMTT(30) DEF Loads
  <1>4. CASE Answers(c)
    BY <1>4, SMTT(30) DEF Answers
  <1>5. CASE Stores(c)
    BY <1>5, SMTT(30) DEF Stores
  <1>6. CASE Ends(c)
    BY <1>6, SMTT(30) DEF Ends
  <1>7. CASE Rests(c)
    BY <1>7, SMTT(30) DEF Rests
  <1> QED
    BY <1>1, <1>2, <1>3, <1>4, <1>5, <1>6, <1>7 DEF Effect

LEMMA BegunKept ==
    ASSUME Typed, Typed', Begun, NEW c \in Caller, Effect(c)
    PROVE  Begun'
  <1> SUFFICES ASSUME NEW d \in Caller
               PROVE  begin'[d] <= now'
    BY DEF Begun
  <1> USE DEF Keeps, Changes, Resting, Begun, Typed
  <1>1. CASE Starts(c)
    BY <1>1, SMTT(30) DEF Starts
  <1>2. CASE Goes(c)
    BY <1>2, SMTT(30) DEF Goes
  <1>3. CASE Loads(c)
    BY <1>3, SMTT(30) DEF Loads
  <1>4. CASE Answers(c)
    BY <1>4, SMTT(30) DEF Answers
  <1>5. CASE Stores(c)
    BY <1>5, SMTT(30) DEF Stores
  <1>6. CASE Ends(c)
    BY <1>6, SMTT(30) DEF Ends
  <1>7. CASE Rests(c)
    BY <1>7, SMTT(30) DEF Rests
  <1> QED
    BY <1>1, <1>2, <1>3, <1>4, <1>5, <1>6, <1>7 DEF Effect

LEMMA OpsKept ==
    ASSUME Typed, Typed', Ops, NEW c \in Caller, Effect(c)
    PROVE  Ops'
  <1> SUFFICES ASSUME NEW d \in Caller
               PROVE  (/\ kind # "oauth" => op[d] \notin Bare
                       /\ kind = "oauth" => op[d] \notin {"new", "renew"}
                       /\ pc[d] \in {"begin", "locked"} => op[d] \notin Bare)'
    BY DEF Ops
  <1> USE DEF Keeps, Changes, Resting, Ops, Bare, Typed
  <1>1. CASE Starts(c)
    BY <1>1, SMTT(30) DEF Starts
  <1>2. CASE Goes(c)
    BY <1>2, SMTT(30) DEF Goes
  <1>3. CASE Loads(c)
    BY <1>3, SMTT(30) DEF Loads
  <1>4. CASE Answers(c)
    BY <1>4, SMTT(30) DEF Answers
  <1>5. CASE Stores(c)
    BY <1>5, SMTT(30) DEF Stores
  <1>6. CASE Ends(c)
    BY <1>6, SMTT(30) DEF Ends
  <1>7. CASE Rests(c)
    BY <1>7, SMTT(30) DEF Rests
  <1> QED
    BY <1>1, <1>2, <1>3, <1>4, <1>5, <1>6, <1>7 DEF Effect

LEMMA AloneKept ==
    ASSUME Typed, Typed', Alone, NEW c \in Caller, Effect(c)
    PROVE  Alone'
  <1> SUFFICES ASSUME NEW d \in Caller, NEW e \in Caller, d # e, of'[d] = of'[e],
                   op'[d] \in Setup, ~Resting(d)'
               PROVE  Resting(e)'
    BY DEF Alone
  <1> USE DEF Keeps, Changes, Resting, Alone, Setup, Peers, Typed
  <1>1. CASE Starts(c)
    BY <1>1, SMTT(30) DEF Starts
  <1>2. CASE Goes(c)
    BY <1>2, SMTT(30) DEF Goes
  <1>3. CASE Loads(c)
    BY <1>3, SMTT(30) DEF Loads
  <1>4. CASE Answers(c)
    BY <1>4, SMTT(30) DEF Answers
  <1>5. CASE Stores(c)
    BY <1>5, SMTT(30) DEF Stores
  <1>6. CASE Ends(c)
    BY <1>6, SMTT(30) DEF Ends
  <1>7. CASE Rests(c)
    BY <1>7, SMTT(30) DEF Rests
  <1> QED
    BY <1>1, <1>2, <1>3, <1>4, <1>5, <1>6, <1>7 DEF Effect

LEMMA AllMadeKept ==
    ASSUME Typed, Typed', AllMade, NEW c \in Caller, Effect(c)
    PROVE  AllMade'
  <1> SUFFICES ASSUME kind' = "oauth"
               PROVE  made' = Transport
    BY DEF AllMade
  <1>1. CASE Ends(c)
    <2>1. made = Transport /\ of[c] \in Transport
      BY <1>1 DEF Ends, Keeps, Changes, AllMade, Typed
    <2>2. made' = made \/ made' = made \cup {of[c]}
      BY <1>1 DEF Ends
    <2> QED
      BY <2>1, <2>2
  <1> USE DEF Keeps, Changes, Resting, AllMade, Typed
  <1>2. CASE Starts(c)
    BY <1>2, SMTT(30) DEF Starts
  <1>3. CASE Goes(c)
    BY <1>3, SMTT(30) DEF Goes
  <1>4. CASE Loads(c)
    BY <1>4, SMTT(30) DEF Loads
  <1>5. CASE Answers(c)
    BY <1>5, SMTT(30) DEF Answers
  <1>6. CASE Stores(c)
    BY <1>6, SMTT(30) DEF Stores
  <1>7. CASE Rests(c)
    BY <1>7, SMTT(30) DEF Rests
  <1> QED
    BY <1>1, <1>2, <1>3, <1>4, <1>5, <1>6, <1>7 DEF Effect

LEMMA FurnishedKept ==
    ASSUME Typed, Typed', AllMade, Furnished, Unmade, NEW c \in Caller, Effect(c)
    PROVE  Furnished'
  <1> SUFFICES ASSUME kind' # "oauth", NEW t \in made'
               PROVE  token'[t] # NoToken
    BY DEF Furnished
  <1> USE DEF Keeps, Changes, Resting, AllMade, Furnished, Unmade, Typed
  <1>1. CASE Starts(c)
    BY <1>1, SMTT(30) DEF Starts
  <1>2. CASE Goes(c)
    BY <1>2, SMTT(30) DEF Goes
  <1>3. CASE Loads(c)
    BY <1>3, SMTT(30) DEF Loads
  <1>4. CASE Answers(c)
    BY <1>4, SMTT(30) DEF Answers
  <1>5. CASE Stores(c)
    BY <1>5, SMTT(30) DEF Stores
  <1>6. CASE Ends(c)
    BY <1>6, SMTT(30) DEF Ends
  <1>7. CASE Rests(c)
    BY <1>7, SMTT(30) DEF Rests
  <1> QED
    BY <1>1, <1>2, <1>3, <1>4, <1>5, <1>6, <1>7 DEF Effect

LEMMA UnmadeKept ==
    ASSUME Typed, Typed', AllMade, Furnished, Unmade, Has, Alone, NEW c \in Caller, Effect(c)
    PROVE  Unmade'
  <1> SUFFICES ASSUME NEW d \in Caller
               PROVE  (/\ ~Resting(d) /\ of[d] \notin made => op[d] = "new"
                       /\ pc[d] = "loading" => of[d] \notin made
                       /\ kind = "jwt" /\ pc[d] = "begin" => of[d] \in made)'
    BY DEF Unmade
  <1> USE DEF Keeps, Changes, Resting, AllMade, Furnished, Unmade, Has, Alone, Setup, Bare, Typed
  <1>1. CASE Starts(c)
    BY <1>1, SMTT(30) DEF Starts
  <1>2. CASE Goes(c)
    BY <1>2, SMTT(30) DEF Goes
  <1>3. CASE Loads(c)
    BY <1>3, SMTT(30) DEF Loads
  <1>4. CASE Answers(c)
    BY <1>4, SMTT(30) DEF Answers
  <1>5. CASE Stores(c)
    BY <1>5, SMTT(30) DEF Stores
  <1>6. CASE Ends(c)
    BY <1>6, SMTT(30) DEF Ends
  <1>7. CASE Rests(c)
    BY <1>7, SMTT(30) DEF Rests
  <1> QED
    BY <1>1, <1>2, <1>3, <1>4, <1>5, <1>6, <1>7 DEF Effect

LEMMA LocksKept ==
    ASSUME Typed, Typed', Locks, Ops, NEW c \in Caller, Effect(c)
    PROVE  Locks'
  <1> SUFFICES ASSUME kind \in {"oauth", "compute"}, NEW d \in Caller, Holds(d)'
               PROVE  lock'[of'[d]] = d
    BY DEF Effect, Locks, Starts, Goes, Loads, Answers, Stores, Ends, Rests, Keeps, Changes
  <1> USE CredentialsAssumption DEF Keeps, Changes, Resting, Locks, Ops, Holds, Bare, Typed
  <1>1. CASE Starts(c)
    BY <1>1, SMTT(30) DEF Starts
  <1>2. CASE Goes(c)
    BY <1>2, SMTT(30) DEF Goes
  <1>3. CASE Loads(c)
    BY <1>3, SMTT(30) DEF Loads
  <1>4. CASE Answers(c)
    BY <1>4, SMTT(30) DEF Answers
  <1>5. CASE Stores(c)
    BY <1>5, SMTT(30) DEF Stores
  <1>6. CASE Ends(c)
    BY <1>6, SMTT(30) DEF Ends
  <1>7. CASE Rests(c)
    BY <1>7, SMTT(30) DEF Rests
  <1> QED
    BY <1>1, <1>2, <1>3, <1>4, <1>5, <1>6, <1>7 DEF Effect

LEMMA FreshKept ==
    ASSUME Typed, Typed', Fresh, NEW c \in Caller, Effect(c)
    PROVE  Fresh'
  <1> SUFFICES ASSUME NEW d \in Caller, pc'[d] = "answered"
               PROVE  held'[d] \in DOMAIN granted' /\ granted'[held'[d]].expiry >= now'
    BY DEF Fresh
  <1>1. CASE Answers(c)
    <2>1. CASE d = c
      BY <1>1, <2>1 DEF Answers, Keeps, Changes
    <2>2. CASE d # c
      <3>1. held'[d] = held[d] /\ held[d] \in DOMAIN granted /\ granted[held[d]].expiry >= now
        BY <1>1, <2>2 DEF Answers, Keeps, Changes, Fresh
      <3> QED
        BY <1>1, <3>1 DEF Answers, Keeps, Changes
    <2> QED
      BY <2>1, <2>2
  <1> USE DEF Keeps, Changes, Resting, Fresh, Typed
  <1>2. CASE Starts(c)
    BY <1>2, SMTT(30) DEF Starts
  <1>3. CASE Goes(c)
    BY <1>3, SMTT(30) DEF Goes
  <1>4. CASE Loads(c)
    BY <1>4, SMTT(30) DEF Loads
  <1>5. CASE Stores(c)
    BY <1>5, SMTT(30) DEF Stores
  <1>6. CASE Ends(c)
    BY <1>6, SMTT(30) DEF Ends
  <1>7. CASE Rests(c)
    BY <1>7, SMTT(30) DEF Rests
  <1> QED
    BY <1>1, <1>2, <1>3, <1>4, <1>5, <1>6, <1>7 DEF Effect

LEMMA GoodKept ==
    ASSUME Typed, Typed', Good, Has, Fresh, Begun, Alone, Unmade, NEW c \in Caller, Effect(c)
    PROVE  Good'
  <1> SUFFICES ASSUME NEW d \in Caller, op'[d] = "request", pc'[d] \in {"put", "read"}
               PROVE  GoodFor(d, token[of[d]].access)'
    BY DEF Good
  <1>1. CASE Starts(c)
    <2>1. d # c
      BY <1>1 DEF Starts
    <2>2. /\ op[d] = "request" /\ pc[d] \in {"put", "read"} /\ begin'[d] = begin[d]
          /\ of' = of /\ granted' = granted
      BY <1>1, <2>1 DEF Starts, Changes
    <2>3. token'[of[d]] = token[of[d]]
      <3>1. CASE of[d] # of[c]
        BY <1>1, <3>1 DEF Starts, Changes, Typed
      <3>2. CASE of[d] = of[c]
        BY <1>1, <2>1, <2>2, <3>2 DEF Starts, Peers, Resting
      <3> QED
        BY <3>1, <3>2
    <2>4. GoodFor(d, token[of[d]].access)
      BY <2>2 DEF Good
    <2> QED
      BY <2>2, <2>3, <2>4 DEF GoodFor
  <1>2. CASE Answers(c)
    <2>1. /\ op[d] = "request" /\ pc[d] \in {"put", "read"}
          /\ of' = of /\ token' = token /\ begin'[d] = begin[d]
      BY <1>2 DEF Answers, Keeps, Changes
    <2>2. GoodFor(d, token[of[d]].access)
      BY <2>1 DEF Good
    <2> QED
      BY <1>2, <2>1, <2>2 DEF Answers, GoodFor
  <1> USE DEF Keeps, Changes, Resting, Good, Has, Fresh, Begun, Alone, Unmade, GoodFor, Setup, Peers, Typed
  <1>3. CASE Goes(c)
    BY <1>3, SMTT(30) DEF Goes
  <1>4. CASE Loads(c)
    BY <1>4, SMTT(30) DEF Loads
  <1>5. CASE Stores(c)
    BY <1>5, SMTT(30) DEF Stores
  <1>6. CASE Ends(c)
    BY <1>6, SMTT(30) DEF Ends
  <1>7. CASE Rests(c)
    BY <1>7, SMTT(30) DEF Rests
  <1> QED
    BY <1>1, <1>2, <1>3, <1>4, <1>5, <1>6, <1>7 DEF Effect

LEMMA NoNeedlessRefreshKept ==
    ASSUME Typed, Typed', NoNeedlessRefresh, Texts, Alone, Locks, Ops, NEW c \in Caller, Effect(c)
    PROVE  NoNeedlessRefresh'
  <1> SUFFICES ASSUME NEW d \in Caller, kind \in {"oauth", "compute"},
                   op'[d] \in {"new", "request"}, pc'[d] \in {"asking", "answered"}
               PROVE  Useless(of[d])'
    BY DEF Effect, NoNeedlessRefresh, Starts, Goes, Loads, Answers, Stores, Ends, Rests, Keeps, Changes, Useless
  <1>1. CASE Starts(c)
    <2>1. d # c
      BY <1>1 DEF Starts, Changes, Bare
    <2>2. /\ op[d] \in {"new", "request"} /\ pc[d] \in {"asking", "answered"}
          /\ UNCHANGED <<kind, of, now, granted>>
      BY <1>1, <2>1 DEF Starts, Changes
    <2>3. token'[of[d]] = token[of[d]]
      <3>1. CASE of[d] # of[c]
        BY <1>1, <3>1 DEF Starts, Changes, Typed
      <3>2. CASE of[d] = of[c]
        BY <1>1, <2>1, <2>2, <3>2 DEF Starts, Peers, Resting
      <3> QED
        BY <3>1, <3>2
    <2>4. Useless(of[d])
      BY <2>2 DEF NoNeedlessRefresh, Useless
    <2> QED
      BY <2>2, <2>3, <2>4 DEF Useless, Expired
  <1>2. CASE Goes(c)
    <2>1. UNCHANGED <<kind, of, now, granted, token>> /\ op'[d] = op[d]
      BY <1>2 DEF Goes, Keeps, Changes
    <2>2. CASE d = c /\ pc'[c] = "asking"
      BY <1>2, <2>1, <2>2 DEF Goes, Useless, Expired
    <2>3. CASE d # c
      <3>1. pc[d] \in {"asking", "answered"}
        BY <1>2, <2>3 DEF Goes, Keeps, Changes
      <3>2. Useless(of[d])
        BY <2>1, <3>1 DEF NoNeedlessRefresh, Useless
      <3> QED
        BY <2>1, <3>2 DEF Useless, Expired
    <2> QED
      BY <1>2, <2>2, <2>3 DEF Goes
  <1>4. CASE Answers(c)
    <2>1. /\ UNCHANGED <<kind, of, now, token>> /\ op'[d] = op[d]
          /\ pc[d] \in {"asking", "answered"}
      BY <1>4 DEF Answers, Keeps, Changes
    <2>2. Useless(of[d])
      BY <2>1 DEF NoNeedlessRefresh, Useless
    <2>3. token[of[d]] # NoToken => token[of[d]].access \in 0..Len(granted)
      BY DEF Texts, Typed
    <2>4. \A a \in DOMAIN granted : a \in DOMAIN granted' /\ granted'[a] = granted[a]
      BY <1>4 DEF Answers
    <2>5. DOMAIN granted = 1..Len(granted) /\ Len(granted) \in Nat
      BY DEF Typed
    <2> QED
      BY <2>1, <2>2, <2>3, <2>4, <2>5 DEF Useless, Expired
  <1>7. CASE Rests(c)
    <2>1. /\ UNCHANGED <<kind, of, now, granted, token>> /\ op'[d] = op[d]
          /\ pc[d] \in {"asking", "answered"}
      BY <1>7 DEF Rests, Changes
    <2>2. Useless(of[d])
      BY <2>1 DEF NoNeedlessRefresh, Useless
    <2> QED
      BY <2>1, <2>2 DEF Useless, Expired
  <1> USE DEF Keeps, Changes, Resting, NoNeedlessRefresh, Texts, Alone, Locks, Ops, Useless, Expired, Holds, Setup, Bare, Peers, Typed
  <1>3. CASE Loads(c)
    BY <1>3, SMTT(30) DEF Loads
  <1>5. CASE Stores(c)
    BY <1>5, SMTT(30) DEF Stores
  <1>6. CASE Ends(c)
    BY <1>6, SMTT(30) DEF Ends
  <1> QED
    BY <1>1, <1>2, <1>3, <1>4, <1>5, <1>6, <1>7 DEF Effect

-----------------------------------------------------------------------------
(* Steps of no goroutine.                                                  *)

LEMMA EvictKept ==
    ASSUME IInv, Evict
    PROVE  IInv'
  <1>1. /\ cache' = Unreadable /\ kind = "appengine"
        /\ UNCHANGED <<kind, of, now, granted, token, made, lock, saved, pc, op, begin, held, signer, jwt>>
    BY DEF Evict, fixed, server, jwtVars
  <1>2. TypeOK' /\ Texts'
    BY <1>1, CredentialsAssumption DEF IInv, TypeOK, Texts, Token
  <1>3. Has' /\ Idle' /\ Begun' /\ Ops' /\ Alone' /\ AllMade' /\ Furnished' /\ Unmade'
    BY <1>1 DEF IInv, Has, Idle, Begun, Ops, Alone, Made, AllMade, Furnished, Unmade, Resting
  <1>4. Locks' /\ Fresh' /\ Good' /\ NoNeedlessRefresh'
    BY <1>1 DEF IInv, Locks, Holds, Fresh, Good, GoodFor, NoNeedlessRefresh, Expired
  <1> QED
    BY <1>2, <1>3, <1>4 DEF IInv, Made

LEMMA TickKept ==
    ASSUME IInv, Tick
    PROVE  IInv'
  <1>1. /\ now' = now + 1 /\ now < MaxTime
        /\ \A c \in Caller : pc[c] # "answered"
        /\ UNCHANGED <<kind, of, granted, token, made, lock, cache, saved, pc, op, begin, held, signer, jwt>>
    BY DEF Tick, Prompt, fixed, disk, jwtVars
  <1>2. now \in Nat /\ MaxTime \in Nat
    BY CredentialsAssumption DEF IInv, TypeOK, Time
  <1>3. TypeOK' /\ Texts'
    BY <1>1, <1>2 DEF IInv, TypeOK, Texts, Time
  <1>4. Begun'
    BY <1>1, <1>2, TypedLemma DEF IInv, Typed, Begun
  <1>5. Has' /\ Idle' /\ Ops' /\ Alone' /\ AllMade' /\ Furnished' /\ Unmade'
    BY <1>1 DEF IInv, Has, Idle, Ops, Alone, Made, AllMade, Furnished, Unmade, Resting
  <1>6. Locks' /\ Fresh' /\ Good'
    BY <1>1 DEF IInv, Locks, Holds, Fresh, Good, GoodFor
  <1>7. NoNeedlessRefresh'
    <2>1. SUFFICES ASSUME NEW c \in Caller, kind \in {"oauth", "compute"},
                          op[c] \in {"new", "request"}, pc[c] \in {"asking", "answered"},
                          token[of[c]] # NoToken
                   PROVE  Expired(token[of[c]])'
      BY <1>1 DEF NoNeedlessRefresh
    <2>2. Expired(token[of[c]])
      BY <2>1 DEF IInv, NoNeedlessRefresh
    <2>3. token[of[c]].access \in 0..Len(granted) /\ Typed
      BY <2>1, TypedLemma DEF IInv, TypeOK, Texts
    <2> QED
      BY <1>1, <1>2, <2>2, <2>3 DEF Expired, Typed
  <1> QED
    BY <1>3, <1>4, <1>5, <1>6, <1>7 DEF IInv, Made

LEMMA RestartKept ==
    ASSUME IInv, NEW t \in Transport, OauthRestart(t)
    PROVE  IInv'
  <1>1. /\ kind = "oauth"
        /\ UNCHANGED <<kind, of, now, granted, made, cache, signer, jwt>>
        /\ saved' \in BOOLEAN
        /\ token' = [token EXCEPT ![t] = NoToken]
        /\ lock' = [lock EXCEPT ![t] = Free]
        /\ pc' \in [Caller -> Label] /\ op' \in [Caller -> Op]
        /\ begin' \in [Caller -> Time] /\ held' \in [Caller -> 0..Len(granted)]
    <2>1. Len(granted) \in Nat /\ 0 \in Time /\ saved \in BOOLEAN
      BY CredentialsAssumption DEF IInv, TypeOK, Time
    <2> QED
      BY <2>1 DEF OauthRestart, fixed, server, jwtVars, IInv, TypeOK, Label, Op
  <1>2. \A c \in Caller : of[c] = t =>
          pc'[c] = "idle" /\ op'[c] = "none" /\ begin'[c] = 0 /\ held'[c] = 0
    BY DEF OauthRestart
  <1>3. \A c \in Caller : of[c] # t =>
          /\ pc'[c] = pc[c] /\ op'[c] = op[c] /\ begin'[c] = begin[c] /\ held'[c] = held[c]
          /\ token'[of[c]] = token[of[c]] /\ lock'[of[c]] = lock[of[c]]
    BY <1>1 DEF OauthRestart, IInv, TypeOK
  <1>4. TypeOK'
    BY <1>1 DEF IInv, TypeOK
  <1>5. Texts'
    BY <1>1 DEF IInv, TypeOK, Texts
  <1>6. Has' /\ Idle' /\ Ops' /\ Unmade'
    <2>1. Has'
      BY <1>1, <1>2, <1>3 DEF IInv, Has
    <2>4. Idle'
      BY <1>1, <1>2, <1>3 DEF IInv, Idle
    <2>2. Ops'
      BY <1>1, <1>2, <1>3 DEF IInv, Ops, Bare
    <2>3. Unmade'
      BY <1>1, <1>2, <1>3 DEF IInv, Made, Unmade, Resting
    <2> QED
      BY <2>1, <2>2, <2>3, <2>4
  <1>7. AllMade' /\ Furnished'
    BY <1>1 DEF IInv, Made, AllMade, Furnished
  <1>8. Alone'
    BY <1>1, <1>2, <1>3 DEF IInv, Alone, Resting, Setup
  <1>9. Begun'
    BY <1>1, <1>2, <1>3, TypedLemma DEF IInv, Begun, Typed
  <1>10. Locks'
    BY <1>1, <1>2, <1>3 DEF IInv, Locks, Holds
  <1>11. Fresh' /\ Good'
    <2>1. Fresh'
      BY <1>1, <1>2, <1>3 DEF IInv, Fresh
    <2>2. Good'
      <3>1. SUFFICES ASSUME NEW c \in Caller, op'[c] = "request", pc'[c] \in {"put", "read"}
                     PROVE  GoodFor(c, token[of[c]].access)'
        BY DEF Good
      <3>2. of[c] # t
        BY <1>2, <3>1
      <3>3. /\ op[c] = "request" /\ pc[c] \in {"put", "read"} /\ begin'[c] = begin[c]
            /\ token'[of[c]] = token[of[c]] /\ of' = of /\ granted' = granted
        BY <1>1, <1>3, <3>1, <3>2
      <3>4. GoodFor(c, token[of[c]].access)
        BY <3>3 DEF IInv, Good
      <3> QED
        BY <3>3, <3>4 DEF GoodFor
    <2> QED
      BY <2>1, <2>2
  <1>12. NoNeedlessRefresh'
    <2>1. SUFFICES ASSUME NEW c \in Caller, kind \in {"oauth", "compute"},
                       op'[c] \in {"new", "request"}, pc'[c] \in {"asking", "answered"}
                   PROVE  Useless(of[c])'
      BY <1>1 DEF NoNeedlessRefresh, Useless
    <2>2. of[c] # t
      BY <1>2, <2>1
    <2>3. /\ op[c] \in {"new", "request"} /\ pc[c] \in {"asking", "answered"}
          /\ token'[of[c]] = token[of[c]] /\ UNCHANGED <<of, now, granted>>
      BY <1>1, <1>3, <2>1, <2>2
    <2>4. Useless(of[c])
      BY <2>1, <2>3 DEF IInv, NoNeedlessRefresh, Useless
    <2> QED
      BY <2>3, <2>4 DEF Useless, Expired
  <1> QED
    BY <1>4, <1>5, <1>6, <1>7, <1>8, <1>9, <1>10, <1>11, <1>12 DEF IInv, Made

-----------------------------------------------------------------------------
(* The invariant.                                                          *)

LEMMA EffectLemma ==
    ASSUME IInv, NEW c \in Caller, Call(c) \/ Lock(c) \/ Step(c) \/ Rest(c)
    PROVE  Effect(c)
  BY StartsLemma, GoesLemma, LoadsLemma, AnswersLemma, StoresLemma, EndsLemma, RestsLemma
  DEF Effect, Call, Lock, Step, OauthCall, OauthStep, ComputeCall, ComputeStep,
      AppEngineStep, JwtStep

LEMMA EffectKept ==
    ASSUME IInv, NEW c \in Caller, Call(c) \/ Lock(c) \/ Step(c) \/ Rest(c)
    PROVE  IInv'
  <1>1. TypeOK' /\ Texts'
    BY TypesKept
  <1>2. Typed /\ Typed'
    BY <1>1, TypedLemma, TypedPrime DEF IInv
  <1>3. Effect(c)
    BY EffectLemma
  <1>4. Has' /\ Idle' /\ Begun' /\ Ops' /\ Alone'
    BY <1>2, <1>3, HasKept, IdleKept, BegunKept, OpsKept, AloneKept DEF IInv, Made
  <1>5. Made'
    BY <1>2, <1>3, AllMadeKept, FurnishedKept, UnmadeKept DEF IInv, Made
  <1>6. Locks' /\ Fresh' /\ Good' /\ NoNeedlessRefresh'
    BY <1>2, <1>3, LocksKept, FreshKept, GoodKept, NoNeedlessRefreshKept
    DEF IInv, Made
  <1> QED
    BY <1>1, <1>4, <1>5, <1>6 DEF IInv

LEMMA InitInv == Init => IInv
  <1> SUFFICES ASSUME Init
               PROVE  IInv
    OBVIOUS
  <1>1. /\ kind \in Kind /\ of \in [Caller -> Transport]
        /\ \A c \in Caller : pc[c] = "idle" /\ op[c] = "none" /\ begin[c] = 0 /\ held[c] = 0
        /\ now = 0 /\ granted = <<>> /\ MaxTime \in Nat
    BY SharingAssumption, CredentialsAssumption DEF Init
  <1>2. OldToken \in Token /\ OldToken.access = 0
    BY DEF OldToken, Token
  <1>3. \E tok \in {NoToken, OldToken} :
          token = [t \in Transport |-> IF \E c \in Caller : of[c] = t THEN tok ELSE NoToken]
    BY DEF Init
  <1>4. token \in [Transport -> {NoToken, OldToken}]
    BY <1>3
  <1>5. /\ cache \in {NoCache, Unreadable, OldToken}
        /\ kind = "appengine" => cache = Unreadable
    BY DEF Init
  <1>6. TypeOK
    <2>1. granted \in Seq(Grant) /\ Len(granted) = 0 /\ 0 \in Time
      BY <1>1 DEF Time
    <2>2. /\ signer \in [Transport -> [iat: Time, claim: Time, sig: Time]]
          /\ jwt \in [Caller -> [claim: Time, sig: Time]]
          /\ lock \in [Transport -> Caller \cup {Free}]
          /\ pc \in [Caller -> Label] /\ op \in [Caller -> Op]
      BY <2>1 DEF Init, NoJwt, Label, Op
    <2>3. begin \in [Caller -> Time] /\ held \in [Caller -> 0..Len(granted)]
      BY <2>1 DEF Init
    <2>4. made \subseteq Transport /\ saved \in BOOLEAN
      BY DEF Init
    <2> QED
      BY <1>1, <1>2, <1>4, <1>5, <2>1, <2>2, <2>3, <2>4 DEF TypeOK
  <1>7. Texts
    <2>1. Len(granted) = 0 /\ \A none \in {NoCache, Unreadable} : none \notin Token
      BY <1>1, CredentialsAssumption DEF Token
    <2> QED
      BY <1>2, <1>4, <1>5, <2>1 DEF Texts
  <1>8. Has /\ Idle /\ Begun /\ Ops /\ Alone
    BY <1>1 DEF Has, Idle, Begun, Ops, Bare, Alone, Setup
  <1>9. Made
    BY <1>1 DEF Init, Made, AllMade, Furnished, Unmade, Resting
  <1>10. Locks /\ Fresh /\ Good /\ NoNeedlessRefresh
    BY <1>1 DEF Locks, Holds, Fresh, Good, NoNeedlessRefresh
  <1> QED
    BY <1>6, <1>7, <1>8, <1>9, <1>10 DEF IInv

LEMMA NextInv == IInv /\ [Next]_vars => IInv'
  <1> SUFFICES ASSUME IInv, [Next]_vars
               PROVE  IInv'
    OBVIOUS
  <1>1. ASSUME NEW c \in Caller, Call(c) \/ Lock(c) \/ Step(c) \/ Rest(c)
        PROVE  IInv'
    BY <1>1, EffectKept
  <1>2. ASSUME NEW t \in Transport, OauthRestart(t)
        PROVE  IInv'
    BY <1>2, RestartKept
  <1>3. CASE Evict
    BY <1>3, EvictKept
  <1>4. CASE Tick
    BY <1>4, TickKept
  <1>5. CASE UNCHANGED vars
    <2>1. UNCHANGED <<kind, of, now, granted, token, made, lock, cache, saved, pc, op, begin, held, signer, jwt>>
      BY <1>5 DEF vars, fixed, server, disk, jwtVars
    <2>2. TypeOK' /\ Texts' /\ Has' /\ Idle' /\ Begun' /\ Ops' /\ Alone' /\ Made'
      BY <2>1 DEF IInv, TypeOK, Texts, Has, Idle, Begun, Ops, Alone, Made, AllMade, Furnished, Unmade, Resting
    <2>3. Locks' /\ Fresh' /\ Good' /\ NoNeedlessRefresh'
      BY <2>1 DEF IInv, Locks, Holds, Fresh, Good, GoodFor, NoNeedlessRefresh, Expired
    <2> QED
      BY <2>2, <2>3 DEF IInv
  <1> QED
    BY <1>1, <1>2, <1>3, <1>4, <1>5 DEF Next

\* The inductive invariant holds of every reachable state, for any goroutines,
\* transports, sharing, lifetimes and bounds.
THEOREM Invariance == Spec => []IInv
  BY InitInv, NextInv, PTL DEF Spec


-----------------------------------------------------------------------------
(* The promise: every step is a step of Bearer, or of no concern to it.    *)

StatusOf(c)   == IF Asked(c) THEN "asked" ELSE IF Done(c) THEN "done" ELSE "idle"
EligibleOf(c) ==
    IF Asked(c) THEN {a \in DOMAIN granted : granted[a].expiry >= begin[c]} ELSE {}
AnswerOf(c)   == IF Done(c) THEN held[c] ELSE 0
Live          == {a \in DOMAIN granted : granted[a].expiry >= now}

Same(c) ==
    /\ StatusOf(c)' = StatusOf(c)
    /\ EligibleOf(c)' = EligibleOf(c)
    /\ AnswerOf(c)' = AnswerOf(c)

SameTokens == (DOMAIN granted)' = DOMAIN granted /\ Live' = Live

LEMMA StutterView ==
    ASSUME SameTokens, \A d \in Caller : Same(d)
    PROVE  UNCHANGED Promise!vars
  BY DEF SameTokens, Same, StatusOf, EligibleOf, AnswerOf, Live, Asked, Done, Promise!vars

LEMMA AskView ==
    ASSUME NEW c \in Caller, SameTokens, \A d \in Caller : d # c => Same(d),
           StatusOf(c) = "idle", StatusOf(c)' = "asked", EligibleOf(c)' = Live,
           AnswerOf(c)' = AnswerOf(c)
    PROVE  Promise!Ask(c)
  BY DEF SameTokens, Same, StatusOf, EligibleOf, AnswerOf, Live, Asked, Done, Promise!Ask

LEMMA AnswerView ==
    ASSUME NEW c \in Caller, SameTokens, \A d \in Caller : d # c => Same(d),
           StatusOf(c) = "asked", StatusOf(c)' = "done", EligibleOf(c)' = {},
           AnswerOf(c)' \in EligibleOf(c) \cup {0}
    PROVE  Promise!Answer(c)
  BY DEF SameTokens, Same, StatusOf, EligibleOf, AnswerOf, Live, Asked, Done, Promise!Answer

LEMMA RestView ==
    ASSUME NEW c \in Caller, SameTokens, \A d \in Caller : d # c => Same(d),
           StatusOf(c) = "done", StatusOf(c)' = "idle", EligibleOf(c)' = EligibleOf(c),
           AnswerOf(c)' = 0
    PROVE  Promise!Rest(c)
  BY DEF SameTokens, Same, StatusOf, EligibleOf, AnswerOf, Live, Asked, Done, Promise!Rest

\* Goroutines that do not move see no change, whatever others do to the tokens
\* they hold, while nothing is granted and no time passes.
LEMMA OthersSame ==
    ASSUME NEW c \in Caller, Changes(c), granted' = granted
    PROVE  /\ SameTokens
           /\ \A d \in Caller : d # c => Same(d)
  BY DEF Changes, SameTokens, Same, StatusOf, EligibleOf, AnswerOf, Live, Asked, Done

LEMMA KeepsSame ==
    ASSUME NEW c \in Caller, Keeps(c), granted' = granted, pc'[c] # "done"
    PROVE  UNCHANGED Promise!vars
  <1>1. SameTokens /\ \A d \in Caller : d # c => Same(d)
    BY OthersSame DEF Keeps
  <1>2. Same(c)
    BY DEF Keeps, Resting, Same, StatusOf, EligibleOf, AnswerOf, Asked, Done
  <1> QED
    BY <1>1, <1>2, StutterView

LEMMA StartsPromised ==
    ASSUME IInv, NEW c \in Caller, Starts(c)
    PROVE  Promise!Ask(c) \/ UNCHANGED Promise!vars
  <1>1. SameTokens /\ \A d \in Caller : d # c => Same(d)
    BY OthersSame DEF Starts
  <1>2. op[c] = "none" /\ pc[c] = "idle"
    BY DEF Starts, IInv, Idle
  <1>3. StatusOf(c) = "idle" /\ EligibleOf(c) = {} /\ AnswerOf(c) = 0
    BY <1>2 DEF StatusOf, EligibleOf, AnswerOf, Asked, Done
  <1>4. pc'[c] # "done"
    BY DEF Starts
  <1>5. CASE op'[c] = "request"
    <2>1. begin'[c] = now /\ granted' = granted /\ now' = now
      BY <1>5 DEF Starts, Changes
    <2>2. StatusOf(c)' = "asked" /\ EligibleOf(c)' = Live /\ AnswerOf(c)' = 0
      BY <1>4, <1>5, <2>1 DEF StatusOf, EligibleOf, AnswerOf, Live, Asked, Done
    <2> QED
      BY <1>1, <1>3, <2>2, AskView
  <1>6. CASE op'[c] # "request"
    <2>1. Same(c)
      BY <1>3, <1>6 DEF Same, StatusOf, EligibleOf, AnswerOf, Asked, Done
    <2> QED
      BY <1>1, <2>1, StutterView
  <1> QED
    BY <1>5, <1>6

LEMMA AnswersPromised ==
    ASSUME IInv, TypeOK', NEW c \in Caller, Answers(c)
    PROVE  Promise!Issue
  <1> DEFINE new == held'[c]
  <1>1. /\ DOMAIN granted' = DOMAIN granted \cup {new} /\ new \notin DOMAIN granted
        /\ \A a \in DOMAIN granted : granted'[a] = granted[a]
        /\ granted'[new].expiry >= now /\ now' = now
    <2>1. DOMAIN granted = 1..Len(granted) /\ Len(granted) \in Nat
      BY DEF IInv, TypeOK
    <2> QED
      BY <2>1 DEF Answers, Keeps, Changes
  <1>2. \A d \in Caller : begin'[d] = begin[d] /\ Asked(d)' = Asked(d) /\ Done(d)' = Done(d)
    BY DEF Answers, Keeps, Changes, Asked, Done
  <1>3. \A d \in Caller : Done(d) => held'[d] = held[d]
    BY DEF Answers, Keeps, Changes, Done
  <1>4. \A d \in Caller : begin[d] <= now /\ begin[d] \in Nat /\ now \in Nat
    BY TypedLemma DEF IInv, Begun, Typed
  <1>5. granted'[new].expiry \in Nat
    BY <1>1, TypedPrime DEF Typed
  <1> HIDE DEF new
  <1>6. \A d \in Caller : Asked(d) =>
          EligibleOf(d)' = EligibleOf(d) \cup {new}
    BY <1>1, <1>2, <1>4, <1>5 DEF EligibleOf
  <1>7. Live' = Live \cup {new}
    BY <1>1 DEF Live
  <1>8. \A d \in Caller : StatusOf(d)' = StatusOf(d) /\ AnswerOf(d)' = AnswerOf(d)
    BY <1>2, <1>3 DEF StatusOf, AnswerOf
  <1>9. \A d \in Caller : ~Asked(d) => EligibleOf(d)' = {}
    BY <1>2 DEF EligibleOf
  <1> QED
    BY <1>1, <1>6, <1>7, <1>8, <1>9
    DEF StatusOf, EligibleOf, AnswerOf, Live, Asked, Done, Promise!Issue

LEMMA EndsPromised ==
    ASSUME IInv, NEW c \in Caller, Ends(c)
    PROVE  Promise!Answer(c) \/ UNCHANGED Promise!vars
  <1>1. SameTokens /\ \A d \in Caller : d # c => Same(d)
    BY OthersSame DEF Ends, Keeps
  <1>2. op'[c] = op[c] /\ pc'[c] = "done" /\ pc[c] # "done"
    BY DEF Ends, Keeps, Resting
  <1>3. CASE op[c] = "request"
    <2>1. StatusOf(c) = "asked" /\ StatusOf(c)' = "done" /\ EligibleOf(c)' = {}
      BY <1>2, <1>3 DEF StatusOf, EligibleOf, Asked, Done
    <2>2. AnswerOf(c)' = held'[c] /\ (held'[c] = 0 \/ GoodFor(c, held'[c]))
      BY <1>2, <1>3 DEF Ends, AnswerOf, Done
    <2>3. AnswerOf(c)' \in EligibleOf(c) \cup {0}
      BY <1>2, <1>3, <2>2 DEF EligibleOf, Asked, GoodFor
    <2> QED
      BY <1>1, <2>1, <2>3, AnswerView
  <1>4. CASE op[c] # "request"
    <2>1. Same(c)
      BY <1>2, <1>4 DEF Same, StatusOf, EligibleOf, AnswerOf, Asked, Done
    <2> QED
      BY <1>1, <2>1, StutterView
  <1> QED
    BY <1>3, <1>4

LEMMA RestsPromised ==
    ASSUME IInv, NEW c \in Caller, Rests(c)
    PROVE  Promise!Rest(c) \/ UNCHANGED Promise!vars
  <1>1. SameTokens /\ \A d \in Caller : d # c => Same(d)
    BY OthersSame DEF Rests
  <1>2. pc[c] = "done" /\ pc'[c] = "idle" /\ op'[c] = "none"
    BY DEF Rests
  <1>3. StatusOf(c)' = "idle" /\ EligibleOf(c)' = EligibleOf(c) /\ AnswerOf(c)' = 0
    BY <1>2 DEF StatusOf, EligibleOf, AnswerOf, Asked, Done
  <1>4. CASE op[c] = "request"
    BY <1>1, <1>2, <1>3, <1>4, RestView DEF StatusOf, Asked, Done
  <1>5. CASE op[c] # "request"
    <2>1. Same(c)
      BY <1>3, <1>5 DEF Same, StatusOf, AnswerOf, Asked, Done
    <2> QED
      BY <1>1, <2>1, StutterView
  <1> QED
    BY <1>4, <1>5

LEMMA EffectPromised ==
    ASSUME IInv, TypeOK', NEW c \in Caller, Effect(c)
    PROVE  [Promise!Next]_Promise!vars
  <1>1. CASE Starts(c)
    BY <1>1, StartsPromised DEF Promise!Next
  <1>2. CASE Goes(c) \/ Loads(c) \/ Stores(c)
    BY <1>2, KeepsSame DEF Goes, Loads, Stores
  <1>3. CASE Answers(c)
    BY <1>3, AnswersPromised DEF Promise!Next
  <1>4. CASE Ends(c)
    BY <1>4, EndsPromised DEF Promise!Next
  <1>5. CASE Rests(c)
    BY <1>5, RestsPromised DEF Promise!Next
  <1> QED
    BY <1>1, <1>2, <1>3, <1>4, <1>5 DEF Effect

LEMMA RestartPromised ==
    ASSUME IInv, NEW t \in Transport, OauthRestart(t)
    PROVE  Promise!Next
  <1> DEFINE Mine == {c \in Caller : of[c] = t}
  <1>1. /\ granted' = granted /\ now' = now
        /\ \A c \in Mine : pc'[c] = "idle" /\ op'[c] = "none"
        /\ \A c \in Caller \ Mine :
             pc'[c] = pc[c] /\ op'[c] = op[c] /\ begin'[c] = begin[c] /\ held'[c] = held[c]
    BY DEF OauthRestart, server
  <1>2. SameTokens
    BY <1>1 DEF SameTokens, Live
  <1>3. \A c \in Mine : StatusOf(c)' = "idle" /\ EligibleOf(c)' = {} /\ AnswerOf(c)' = 0
    BY <1>1 DEF StatusOf, EligibleOf, AnswerOf, Asked, Done
  <1>4. \A c \in Caller \ Mine : Same(c)
    BY <1>1 DEF Same, StatusOf, EligibleOf, AnswerOf, Asked, Done
  <1> HIDE DEF Mine
  <1>5. Promise!Abandon(Mine)
    BY <1>2, <1>3, <1>4
    DEF SameTokens, Same, StatusOf, EligibleOf, AnswerOf, Live, Asked, Done, Promise!Abandon
  <1>6. Mine \in SUBSET Caller
    BY DEF Mine
  <1>7. \E S \in SUBSET Caller : Promise!Abandon(S)
    BY <1>5, <1>6, Zenon DEF Promise!Abandon
  <1> QED
    BY <1>7 DEF Promise!Next

LEMMA TickPromised ==
    ASSUME IInv, Tick
    PROVE  Promise!Next
  <1>1. /\ UNCHANGED <<granted, pc, op, begin, held>>
        /\ now' = now + 1
    BY DEF Tick
  <1>2. /\ now \in Nat
        /\ \A a \in DOMAIN granted : granted[a].expiry \in Nat
    BY TypedLemma, CredentialsAssumption DEF IInv, TypeOK, Typed, Time
  <1>3. Live' \subseteq Live
    BY <1>1, <1>2 DEF Live
  <1>4. Promise!Expire
    BY <1>1, <1>3 DEF Live, Asked, Done, Promise!Expire
  <1> QED
    BY <1>4 DEF Promise!Next

LEMMA InitPromised == Init => Promise!Init
  <1> SUFFICES ASSUME Init
               PROVE  Promise!Init
    OBVIOUS
  <1>1. /\ DOMAIN granted = {}
        /\ \A c \in Caller : ~Asked(c) /\ ~Done(c)
    BY DEF Init, Asked, Done
  <1> QED
    BY <1>1 DEF Promise!Init

LEMMA NextPromised == IInv /\ [Next]_vars => [Promise!Next]_Promise!vars
  <1> SUFFICES ASSUME IInv, [Next]_vars
               PROVE  [Promise!Next]_Promise!vars
    OBVIOUS
  <1>1. ASSUME NEW c \in Caller, Call(c) \/ Lock(c) \/ Step(c) \/ Rest(c)
        PROVE  [Promise!Next]_Promise!vars
    BY <1>1, EffectLemma, EffectPromised, TypesKept
  <1>2. ASSUME NEW t \in Transport, OauthRestart(t)
        PROVE  Promise!Next
    BY <1>2, RestartPromised
  <1>3. CASE Evict \/ UNCHANGED vars
    <2>1. UNCHANGED <<now, granted, pc, op, begin, held>>
      BY <1>3 DEF Evict, vars, server
    <2>2. SameTokens /\ \A c \in Caller : Same(c)
      BY <2>1 DEF SameTokens, Same, StatusOf, EligibleOf, AnswerOf, Live, Asked, Done
    <2> QED
      BY <2>2, StutterView
  <1>4. CASE Tick
    BY <1>4, TickPromised
  <1> QED
    BY <1>1, <1>2, <1>3, <1>4 DEF Next

\* A transport keeps the promise of Bearer: a request is sent with a token that
\* was good at some moment since the request was made, or ends with an error
\* (Transport.RoundTrip of the four packages).
THEOREM Promised == Spec => BearerSpec
  BY InitPromised, NextPromised, Invariance, PTL DEF Spec, BearerSpec, Promise!Spec

\* The state keeps its shape.
THEOREM TypeCorrect == Spec => []TypeOK
  BY Invariance, PTL DEF IInv

\* No goroutine asks for a token on behalf of a request while its transport has
\* one that is good (getAccessToken of oauth, refresh of compute).
THEOREM OneRefresh == Spec => []NoNeedlessRefresh
  BY Invariance, PTL DEF IInv

LEMMA IInvPanicFree == IInv => NeverPanics
  BY DEF IInv, Has, NeverPanics

\* RoundTrip of the App Engine transport never reads a nil token, though no
\* mutex guards it and FetchToken may set it to nil.
THEOREM PanicFree == Spec => []NeverPanics
  BY Invariance, IInvPanicFree, PTL
-----------------------------------------------------------------------------
(***************************************************************************)
(* A refresh token in the cache file of an oauth.Transport stays there.    *)
(*                                                                         *)
(* The file is as good as the token in memory when that is written to it;  *)
(* so both are looked at, and the moments in which the file is cut short   *)
(* are those of one goroutine, which nobody else can come between.         *)
(***************************************************************************)

OneFile == kind = "oauth" => \A c, d \in Caller : of[c] = of[d]

NobodyPuts == \A c \in Caller : pc[c] # "put"

FileKeeps == saved /\ NobodyPuts => cache \in Token /\ cache.refresh

MemoryKeeps == saved => \A c \in Caller : token[of[c]] # NoToken => token[of[c]].refresh

Keeping ==
    /\ OneFile
    /\ kind # "oauth" => ~saved
    /\ FileKeeps
    /\ MemoryKeeps

Critical == {"locked", "asking", "answered", "put"}

\* One goroutine at a time is between the lock, or the start of a call that sets
\* the transport up, and the return.
LEMMA OneAtATime ==
    ASSUME IInv, OneFile, kind = "oauth",
           NEW c \in Caller, pc[c] \in Critical, NEW d \in Caller, pc[d] \in Critical
    PROVE  c = d
  <1>1. SUFFICES ASSUME c # d PROVE FALSE
    OBVIOUS
  <1>2. of[c] = of[d]
    BY DEF OneFile
  <1>3. ~Resting(c) /\ ~Resting(d)
    BY DEF Critical, Resting
  <1>4. op[c] \notin Setup /\ op[d] \notin Setup
    BY <1>1, <1>2, <1>3 DEF IInv, Alone
  <1>5. Holds(c) /\ Holds(d)
    BY <1>4 DEF Holds, Critical, Bare, Setup
  <1> QED
    BY <1>1, <1>2, <1>5 DEF IInv, Locks

\* While c is there and does not write, the file is whole.
LEMMA NobodyElsePuts ==
    ASSUME IInv, OneFile, kind = "oauth",
           NEW c \in Caller, pc[c] \in {"locked", "asking", "answered"}
    PROVE  NobodyPuts
  <1>1. SUFFICES ASSUME NEW d \in Caller, pc[d] = "put" PROVE FALSE
    BY DEF NobodyPuts
  <1> QED
    BY <1>1, OneAtATime DEF Critical

\* What is not oauth never counts as saved.
LEMMA OthersKeep ==
    ASSUME Keeping, kind # "oauth", UNCHANGED <<kind, saved>>
    PROVE  Keeping'
  BY DEF Keeping, OneFile, FileKeeps, MemoryKeeps

\* A step that leaves the file and the tokens as they are.
LEMMA QuietKeeps ==
    ASSUME Keeping, UNCHANGED <<kind, of, saved, cache, token>>,
           NobodyPuts' => NobodyPuts
    PROVE  Keeping'
  BY DEF Keeping, OneFile, FileKeeps, MemoryKeeps

\* What updateToken starts from has a refresh token if the file had one.
LEMMA ExistingKeeps ==
    ASSUME IInv, Keeping, kind = "oauth", saved,
           NEW c \in Caller, pc[c] = "answered"
    PROVE  Existing(c).refresh
  <1>1. NobodyPuts
    BY NobodyElsePuts DEF Keeping
  <1>2. cache \in Token /\ cache.refresh
    BY <1>1 DEF Keeping, FileKeeps
  <1>3. cache \notin {NoCache, Unreadable}
    BY <1>2, CredentialsAssumption DEF Token
  <1>4. token[of[c]] # NoToken => token[of[c]].refresh
    BY DEF Keeping, MemoryKeeps
  <1> QED
    BY <1>2, <1>3, <1>4 DEF Existing

\* A goroutine that does not write moves on.
LEMMA Moves ==
    ASSUME IInv, NEW c \in Caller, NEW label,
           pc[c] # "put", pc' = [pc EXCEPT ![c] = label]
    PROVE  NobodyPuts' => NobodyPuts
  BY DEF IInv, TypeOK, NobodyPuts

-----------------------------------------------------------------------------
(* The actions of oauth, from the shortest to the restart.                 *)

LEMMA QuietActions ==
    ASSUME IInv, Keeping, NEW c \in Caller,
           \/ Begin(c) \/ Rest(c) \/ Exchange(c) \/ Refresh(c)
           \/ OauthLock(c) \/ OauthLoadFails(c) \/ OauthUse(c) \/ OauthRefresh(c)
           \/ OauthCannotRefresh(c) \/ OauthAnswer(c) \/ OauthRefused(c)
    PROVE  Keeping'
  <1>1. UNCHANGED <<kind, of, saved, cache, token>>
    BY DEF Begin, Rest, Exchange, Refresh, OauthLock, OauthLoadFails, OauthUse,
           OauthRefresh, OauthCannotRefresh, OauthAnswer, OauthRefused, Answer,
           fixed, disk
  <1>2. pc[c] # "put" /\ \E label : pc' = [pc EXCEPT ![c] = label]
    BY DEF Begin, Rest, Exchange, Refresh, OauthLock, OauthLoadFails, OauthUse,
           OauthRefresh, OauthCannotRefresh, OauthAnswer, OauthRefused, Answer,
           StartShared, StartAlone, Start, Goto, Return, Fail
  <1> QED
    BY <1>1, <1>2, Moves, QuietKeeps

LEMMA LoadKeeps ==
    ASSUME IInv, Keeping, NEW c \in Caller, OauthLoad(c)
    PROVE  Keeping'
  <1>1. NobodyPuts
    BY NobodyElsePuts DEF OauthLoad, Keeping
  <1>2. UNCHANGED <<kind, of, saved, cache, pc>>
    BY DEF OauthLoad, fixed, disk
  <1>3. saved => cache.refresh
    BY <1>1 DEF Keeping, FileKeeps
  <1>4. saved => \A d \in Caller : token'[of[d]] # NoToken => token'[of[d]].refresh
    BY <1>3 DEF OauthLoad, Keeping, MemoryKeeps, IInv, TypeOK
  <1> QED
    BY <1>2, <1>4 DEF Keeping, OneFile, FileKeeps, MemoryKeeps, NobodyPuts

\* A transport without a token forgets what the file has, and it no longer counts;
\* one with a token keeps it.
LEMMA AuthenticateKeeps ==
    ASSUME IInv, Keeping, NEW c \in Caller, AuthenticateClient(c)
    PROVE  Keeping'
  <1>1. kind = "oauth" /\ pc[c] # "put" /\ UNCHANGED <<kind, of, cache>>
    BY DEF AuthenticateClient, StartAlone, Start, fixed
  <1>2. pc' = [pc EXCEPT ![c] = "asking"]
    BY DEF AuthenticateClient, StartAlone, Start, Goto
  <1>3. NobodyPuts' => NobodyPuts
    BY <1>1, <1>2, Moves
  <1>4. saved' => saved /\ token[of[c]] # NoToken
    BY DEF AuthenticateClient
  <1>5. saved' => token' = token
    BY <1>4 DEF AuthenticateClient
  <1>6. FileKeeps'
    BY <1>1, <1>3, <1>4 DEF Keeping, FileKeeps
  <1>7. MemoryKeeps'
    BY <1>1, <1>4, <1>5 DEF Keeping, MemoryKeeps
  <1> QED
    BY <1>1, <1>6, <1>7 DEF Keeping, OneFile

\* The new token has the refresh token of the old one, or a newer.
LEMMA StoreMemory ==
    ASSUME IInv, Keeping, kind = "oauth", NEW c \in Caller, pc[c] = "answered",
           UNCHANGED <<of, saved>>,
           NEW refresh \in BOOLEAN,
           token' = [token EXCEPT ![of[c]] = Updated(Existing(c), held[c], refresh)]
    PROVE  MemoryKeeps'
  <1>1. SUFFICES ASSUME saved, NEW d \in Caller PROVE token'[of[d]].refresh
    BY DEF MemoryKeeps
  <1>2. of[d] = of[c] /\ of[c] \in Transport
    BY DEF Keeping, OneFile, IInv, TypeOK
  <1>3. token'[of[d]] = Updated(Existing(c), held[c], refresh)
    BY <1>2 DEF IInv, TypeOK
  <1>4. Existing(c).refresh
    BY <1>1, ExistingKeeps
  <1>5. Updated(Existing(c), held[c], refresh).refresh = (refresh \/ Existing(c).refresh)
    BY Zenon DEF Updated
  <1> QED
    BY <1>3, <1>4, <1>5

LEMMA StoreKeeps ==
    ASSUME IInv, Keeping, NEW c \in Caller, OauthStore(c)
    PROVE  Keeping'
  <1>1. kind = "oauth" /\ pc[c] = "answered" /\ UNCHANGED <<kind, of, saved>>
    BY DEF OauthStore, fixed
  <1>2. MemoryKeeps'
    BY <1>1, StoreMemory DEF OauthStore
  <1>3. ~NobodyPuts'
    BY DEF OauthStore, Goto, NobodyPuts, IInv, TypeOK
  <1> QED
    BY <1>1, <1>2, <1>3 DEF Keeping, OneFile, FileKeeps

LEMMA StoreUnsavedKeeps ==
    ASSUME IInv, Keeping, NEW c \in Caller, OauthStoreUnsaved(c)
    PROVE  Keeping'
  <1>1. kind = "oauth" /\ pc[c] = "answered" /\ UNCHANGED <<kind, of, saved, cache>>
    BY DEF OauthStoreUnsaved, fixed, disk
  <1>2. MemoryKeeps'
    BY <1>1, StoreMemory DEF OauthStoreUnsaved
  <1>3. \E label : pc' = [pc EXCEPT ![c] = label]
    BY DEF OauthStoreUnsaved, Fail, Return, Goto
  <1>4. NobodyPuts' => NobodyPuts
    BY <1>1, <1>3, Moves
  <1> QED
    BY <1>1, <1>2, <1>4 DEF Keeping, OneFile, FileKeeps

\* The file is as good as the token in memory.
LEMMA PutKeeps ==
    ASSUME IInv, Keeping, NEW c \in Caller, OauthPut(c)
    PROVE  Keeping'
  <1>1. kind = "oauth" /\ pc[c] = "put" /\ UNCHANGED <<kind, of, token>>
    BY DEF OauthPut, fixed
  <1>2. token[of[c]] \in Token
    BY <1>1 DEF IInv, TypeOK, Has
  <1>3. cache' = token[of[c]] /\ saved' = (saved \/ token[of[c]].refresh)
    BY DEF OauthPut
  <1>4. saved' => token[of[c]].refresh
    BY <1>2, <1>3, CredentialsAssumption DEF Keeping, MemoryKeeps, Token
  <1>5. \A d \in Caller : of[d] = of[c]
    BY <1>1 DEF Keeping, OneFile
  <1> QED
    BY <1>1, <1>2, <1>3, <1>4, <1>5 DEF Keeping, OneFile, FileKeeps, MemoryKeeps

LEMMA PutFailsKeeps ==
    ASSUME IInv, Keeping, NEW c \in Caller, OauthPutFails(c)
    PROVE  Keeping'
  BY DEF OauthPutFails, Keeping, OneFile, FileKeeps, MemoryKeeps, fixed

\* All goroutines are the program's.
LEMMA RestartKeeps ==
    ASSUME IInv, Keeping, NEW t \in Transport, OauthRestart(t)
    PROVE  Keeping'
  <1>1. kind = "oauth" /\ UNCHANGED <<kind, of, cache>>
    BY DEF OauthRestart, fixed
  <1>2. \A d \in Caller : of[d] = t
    BY <1>1 DEF OauthRestart, Keeping, OneFile
  <1>3. saved' => saved /\ NobodyPuts
    BY <1>2 DEF OauthRestart, NobodyPuts
  <1>4. \A d \in Caller : token'[of[d]] = NoToken
    BY <1>2 DEF OauthRestart, IInv, TypeOK
  <1> QED
    BY <1>1, <1>3, <1>4 DEF Keeping, OneFile, FileKeeps, MemoryKeeps

-----------------------------------------------------------------------------
(* The other packages, and the whole.                                      *)

LEMMA OauthKeeps ==
    ASSUME IInv, Keeping, NEW c \in Caller,
           OauthCall(c) \/ OauthLock(c) \/ OauthStep(c)
    PROVE  Keeping'
  BY QuietActions, LoadKeeps, AuthenticateKeeps, StoreKeeps, StoreUnsavedKeeps,
     PutKeeps, PutFailsKeeps
  DEF OauthCall, OauthStep

LEMMA ComputeKeeps ==
    ASSUME Keeping, NEW c \in Caller, ComputeCall(c) \/ ComputeLock(c) \/ ComputeStep(c)
    PROVE  Keeping'
  <1>1. kind # "oauth" /\ UNCHANGED <<kind, saved>>
    BY DEF ComputeCall, ComputeNewClient, ComputeRenew, ComputeLock, ComputeStep,
           ComputeUse, ComputeRefresh, ComputeAnswer, ComputeRefused, ComputeStore,
           Answer, fixed, disk
  <1> QED
    BY <1>1, OthersKeep

LEMMA AppEngineKeeps ==
    ASSUME Keeping, NEW c \in Caller, AppEngineNewClient(c) \/ AppEngineStep(c)
    PROVE  Keeping'
  <1>1. kind # "oauth" /\ UNCHANGED <<kind, saved>>
    BY DEF AppEngineNewClient, AppEngineStep, AppEngineFetch, AppEngineLoad,
           AppEngineCheck, AppEngineAnswer, AppEngineRefused, AppEngineStore,
           AppEnginePut, AppEngineRead, Answer, fixed, disk
  <1> QED
    BY <1>1, OthersKeep

LEMMA JwtKeeps ==
    ASSUME Keeping, NEW c \in Caller, JwtNewTransport(c) \/ JwtStep(c)
    PROVE  Keeping'
  <1>1. kind # "oauth" /\ UNCHANGED <<kind, saved>>
    BY DEF JwtNewTransport, JwtStep, JwtCheck, SetTimes, Encode, Digest, Sign, Join,
           JwtAnswer, JwtRefused, JwtStore, JwtRead, Answer, fixed, disk
  <1> QED
    BY <1>1, OthersKeep

LEMMA InitKeeps == Init => Keeping
  <1> SUFFICES ASSUME Init PROVE Keeping
    OBVIOUS
  <1>1. OneFile
    <2>1. PICK s \in Sharing : kind = s.kind /\ of = s.of
      BY DEF Init
    <2> QED
      BY <2>1, OneFileAssumption DEF OneFile
  <1>2. kind # "oauth" => ~saved
    <2>1. OldToken \in [access: Nat, refresh: BOOLEAN]
      BY DEF OldToken
    <2>2. OldToken \notin {NoCache, Unreadable}
      BY <2>1, CredentialsAssumption
    <2>3. kind # "oauth" => cache \in {NoCache, Unreadable}
      BY DEF Init
    <2> QED
      BY <2>2, <2>3 DEF Init
  <1>3. saved => cache = OldToken
    BY DEF Init
  <1>4. OldToken \in Token /\ OldToken.refresh
    BY DEF OldToken, Token
  <1>5. \A c \in Caller : token[of[c]] \in {NoToken, OldToken}
    BY SharingAssumption DEF Init
  <1> QED
    BY <1>1, <1>2, <1>3, <1>4, <1>5 DEF Keeping, FileKeeps, MemoryKeeps

LEMMA NextKeeps == IInv /\ Keeping /\ [Next]_vars => Keeping'
  <1> SUFFICES ASSUME IInv, Keeping, [Next]_vars PROVE Keeping'
    OBVIOUS
  <1>1. ASSUME NEW c \in Caller, Call(c) \/ Lock(c) \/ Step(c) \/ Rest(c)
        PROVE  Keeping'
    BY <1>1, QuietActions, OauthKeeps, ComputeKeeps, AppEngineKeeps, JwtKeeps
    DEF Call, Lock, Step, ComputeCall
  <1>2. ASSUME NEW t \in Transport, OauthRestart(t) PROVE Keeping'
    BY <1>2, RestartKeeps
  <1>3. CASE Evict
    BY <1>3, OthersKeep DEF Evict, fixed
  <1>4. CASE Tick
    BY <1>4, QuietKeeps DEF Tick, fixed, disk, NobodyPuts
  <1>5. CASE UNCHANGED vars
    BY <1>5, QuietKeeps DEF vars, fixed, disk, server, NobodyPuts
  <1> QED
    BY <1>1, <1>2, <1>3, <1>4, <1>5 DEF Next

\* A refresh token that was written to the file is there whenever nobody writes,
\* through any number of refreshes, codes and restarts, of which only the first
\* has to bring one; unless a write was cut short, or AuthenticateClient put an
\* empty token into a transport that had not read the file.
THEOREM RefreshTokenKept == Spec => []RefreshTokenSaved
  <1>1. Keeping => RefreshTokenSaved
    BY CredentialsAssumption DEF Keeping, FileKeeps, NobodyPuts, RefreshTokenSaved, Token
  <1> QED
    BY <1>1, InitKeeps, NextKeeps, Invariance, PTL DEF Spec
=============================================================================
