# TLA+ models of the programs in this repository

The repository is a collection: a few programs of its author's, scripts, and
third-party trees that are built or patched here. This directory models the
parts that have a protocol or a concurrency of their own:

- **udptunnel** (`src/udptunnel`, C), which tunnels TCP connections through UDP;
- **goauth2** (`src/src/code.google.com/p/goauth2`, Go), four HTTP transports
  that obtain, cache and renew OAuth tokens for the goroutines that share them;
- the hand-written part of the **Google API client**
  (`src/src/code.google.com/p/google-api-go-client`, Go): URI templates, media
  upload, the call every generated method makes, the login of the examples.

The models are checked with TLC, and theorems about them are proved with TLAPS.

    tlc -workers 2 -config slow.cfg MCUdpTunnel         # also lossy, isolation, copied,
                                                        # wraparound, handshake, no_resend
    tlc -workers 2 -config keepalive.cfg Keepalive
    tlc -workers 2 -config transports.cfg MCTransports  # also jwt_race
    tlc -workers 2 -config example.cfg MCExample        # also truncated
    tlapm TransportsProofs.tla                          # and the other *Proofs modules

## Inventory

| component | source | state | operations | what is hard |
|---|---|---|---|---|
| client_t | `udptunnel/client.c`, `client.h` | per connection: id, sockets, two protocol states, queue of chunks, resend count, keepalive clock | read a chunk, send the head of the queue, handle DATA / ACK / HELLOACK, the check for a resend | loss, duplication and reordering against a one-bit number; timeouts that race late answers |
| udpclient | `udptunnel/udpclient.c` | the lists `clients` and `conn_clients`, `next_req_id` | accept, the handshake, relay, close | what each pass of the select loop leaves for the next; ids of two origins in one header field |
| udpserver | `udptunnel/udpserver.c` | the list `clients`, `next_client_id`, the access control list | HELLO, HELLOACK, relay, close, the keepalive check | dispatch on the id alone; 16-bit ids that wrap; clients whose other end is gone |
| messages | `udptunnel/message.c`, `message.h` | none | encode and send, receive and decode | |
| list | `udptunnel/list.c`, `list.h` | an array of elements | add (unless an equal one is there), get, delete | `list_add` deduplicates |
| access control list | `udptunnel/acl.c`, `acl.h` | the entries of the command line | does an entry match; the first one decides | the entry that allows everything is always there and matches everything |
| sockets | `udptunnel/socket.c`, `socket.h` | a descriptor and an address | wrappers of the socket calls | blocking calls inside a select loop |
| main | `udptunnel/udptunnel.c`, `common.h`, `helpers` | options | start-up | |
| oauth | `goauth2/oauth/oauth.go` | per transport: a token, a mutex; a cache file | Exchange, AuthenticateClient, Refresh, RoundTrip, CacheFile | one goroutine renews for all; a file truncated before it is written; nine ways out of a critical section |
| compute service account | `goauth2/compute/serviceaccount` | per transport: a token, a mutex | NewClient, Refresh, RoundTrip | the same, and answers that are taken unchecked |
| App Engine service account | `goauth2/appengine/serviceaccount` | per instance: a token; memcache for all | NewClient, FetchToken, RoundTrip, PutToken | no mutex: check, load, store and read interleave, and memcache forgets |
| jwt | `goauth2/oauth/jwt/jwt.go` | per transport: a token, the parts of an assertion | NewTransport, RoundTrip, Assert, Encode, sign | no mutex: an assertion is put together from shared fields |
| googleapi | `googleapi/googleapi.go` | per call: a media reader, a pipe, a goroutine | Expand, getReaderSize, getMediaType, ConditionallyIncludeMedia, CheckResponse | the length is announced before the file is read; the goroutine must end when the connection does |
| uritemplates | `googleapi/internal/uritemplates` | none | expand a template | where a separator goes, for every operator, modifier and kind of value |
| generator | `google-api-go-generator/gen.go` | tables of names | writes a package per API; the Do method of each call | |
| examples | `examples/main.go`, `drive.go` | a token file, a local web server | get a client, make a call | a handler that hands a code over an unbuffered channel, and a server that waits for its handlers |
| generated services | 104 `*-gen.go` files | none | one Do per API call | nothing that `gen.go` does not say once |
| chownat | `my_script/chownat.pl` | buffers, confirmed, missing and to-do tables by a 16-bit number | the same job as udptunnel between two NATs | numbers that wrap, tables that are never cleared, a handshake without a timeout |
| gnuProload | `gnuProload-2.0/src/programmer.c`, `callbacks.c` | the serial port, the image, a progress bar | erase, burn, verify | a GTK main loop pumped inside the burn; replies that never come |
| the rest | see PROJECT.json | | | third-party trees (XMMS, spectrum3d, ApiDemos), an Android image editor, scripts that call `ip` and `iptables`, trials of one library call |

How the parts of udptunnel interact. `udpclient` listens on a TCP port. For
each connection it opens a UDP socket, sends a HELLO and puts a client_t in
`conn_clients`. `udpserver` creates a client_t of its own with a client id and
answers HELLOACK; `udpclient` moves its client_t to `clients`, takes over the
id and answers HELLOACK too, upon which `udpserver` connects to the TCP server.
From then on each side reads chunks from its TCP socket into the queue
`tcp2udp_q`, sends the head in DATA0 or DATA1, and deletes it when ACK0 or ACK1
comes; and writes the DATA it receives to its TCP socket. GOODBYE, sent once,
ends the connection. Both programs are single threads around `select()`.

How the Go packages interact. A program gets an `*http.Client` whose transport
is one of goauth2's: the examples with `getOAuthClient`, which reads a token file
or asks the user. Goroutines share it. Each API call expands its path, starts
the goroutine that writes its body, and goes to the transport's RoundTrip, which
has to find a token that is good: in memory, in the cache (a file, memcache), or
from the authorization server. Then the HTTP transport reads the body from the
pipe. The packages of goauth2 have no state in common, and a program uses one.

What makes each part correct:

- client_t: an ACK deletes the chunk it is for; one chunk at a time is in
  flight; what is written is what was read, once and in order; a chunk that is
  acknowledged was written; a chunk in flight is resent or given up.
- udpclient: no accepted connection is forgotten, and none is closed for
  another; a pending connection is opened or closed.
- udpserver: a message reaches the client_t of the connection it comes from; a
  denied connection is never connected; a client_t whose other end is gone is
  removed.
- access control list: the first entry that matches decides, as the README of
  udptunnel says, and it is asked about the connection that is in the list.
- keepalive: as many KEEPALIVEs may be lost as the timeout is made for; a
  client_t that is not open at the other end is dropped in time.
- every transport of goauth2: a request is sent with a token that was good at
  some moment since it was made, or fails; a call returns, and gives the mutex
  back on every path.
- oauth, compute: goroutines that find the token expired at the same time make
  one refresh. oauth: a refresh token in the cache file stays there.
- App Engine: the shared token is never nil when it is read.
- jwt: what is posted is a claim with its own signature.
- googleapi: what a successful call has uploaded is the whole file; the length
  announced is right; the goroutine ends with the call.
- uritemplates: the expansion is that of RFC 6570, but for the cases listed below.
- examples: the login ends once the user has come back with a code.
- udptunnel as a whole: bytes of one connection never come out of another; both ends go when
  one does.

## Modules

| module | models | |
|---|---|---|
| `TunnelNetwork` | UDP between the programs, and the messages (`message.h`) | packets in flight as two sets; what may be lost, late, overtaken or copied is a constant |
| `Client` | `client.c`, and `list.c` as far as the queue needs it | an operator from record to record for each routine |
| `UdpClient` | `udpclient.c` | an action per event of the select loop |
| `AccessList` | `acl.c` and the loop over the list in `udpserver.c` | operators: which entry decides; and what the user is told, `Denies` |
| `UdpServer` | `udpserver.c` | as `UdpClient` |
| `Pipe` | what a connection of the tunnel promises | the abstract specification |
| `UdpTunnel` | the two programs and the network | the next-state relation, the fairness, the properties, the refinement |
| `Keepalive` | the keepalive timers of both programs | one connection, with a clock that ticks every half second |
| `Credentials` | what the transports of goauth2 share: goroutines, tokens, the authorization server, time | the state, and the parts of a call: start, answer, return |
| `OauthTransport` | `oauth.go` | an action per step between two points where another goroutine or a crash may come in |
| `ComputeTransport`, `AppEngineTransport`, `JwtTransport` | the other three | as `OauthTransport` |
| `Bearer` | what a transport promises | the abstract specification |
| `Transports` | the four, one of them per behaviour | the next-state relation, the fairness, the properties, the refinement |
| `UriTemplate` | `uritemplates.go`, and RFC 6570 beside it | operators |
| `Upload` | `googleapi.go`, the Do of `gen.go` | one call: the caller, the goroutine that writes the body, the transport that reads it |
| `Login` | `examples/main.go` | the main goroutine and the handlers of the web server |
| `Example` | an example program: a login, then a call | the next-state relation, the fairness, the properties |
| `MCUdpTunnel`, `MCTransports`, `MCExample` | | values of the constants for TLC |
| `UdpTunnelProofs` | | lemmas about the routines of `Client`; `TypeOK` |
| `IsolationProofs` | | `Isolation`; first match of the access list, `DeniedNeverConnected` |
| `IdsProofs` | | `NoneLeaked`, `ClosesItsOwn`, `Quiescent` |
| `StreamProofs` | | `OnlyOwnMessages`, `LocalStream`, `RemoteStream`, `InFlightHead`, `AckedIsWritten` |
| `PipeProofs` | | `PipeSpec` |
| `KeepaliveProofs` | | `LossesTolerated`, `OrphansEnd` |
| `TransportsProofs` | | `BearerSpec`, `TypeOK`, `NoNeedlessRefresh`, `NeverPanics`, `RefreshTokenSaved` |
| `ExampleProofs` | | `TypeOK` of `Example`, `WholeMedia`, `LengthsAgree` |

`UdpTunnel` EXTENDS `UdpClient` and `UdpServer`, they `Client`, and that
`TunnelNetwork`; `UdpServer` EXTENDS `AccessList` too. `UdpTunnel` has
`Tunnel == INSTANCE Pipe WITH` its refinement mapping. `Transports` EXTENDS the
four transports, and they `Credentials`; it has `Promise == INSTANCE Bearer WITH`
the refinement mapping. `Example` EXTENDS `Login` and `Upload`, and that
`UriTemplate`. Of the proof modules `UdpTunnelProofs` EXTENDS `UdpTunnel`, and
`IsolationProofs`, `IdsProofs`, `StreamProofs` and `PipeProofs` each EXTEND the one
before; `KeepaliveProofs`, `TransportsProofs` and `ExampleProofs` stand on
`Keepalive`, `Transports` and `Example` alone.

## udptunnel

### State

`local[c]` is the client_t of `udpclient` for the TCP connection `c`, and
`stage[c]` the list it is in: `pending` is `conn_clients`, `open` is `clients`.
`remote[i]` is the client_t of `udpserver` with client id `i`. A record of
`ClientT` has the fields of `client_t` that decide anything; `serial`, `nread`
and `written` are not in the code and record what the properties speak of.
A chunk is what one `recv()` returned. It is known by where it was read and as
the how-manieth; what it holds is `Content`, and only `list_add` looks at that.

The header's id field is `id`. The request id that HELLO and HELLOACK carry as
a body is left out, as nobody reads it.

### One action, one iteration

An action of `UdpClient` or `UdpServer` is one iteration of the select loop
in which one descriptor was ready: the handler, and then the passes over the
list that send what is queued and remove who is done. Several ready descriptors
are several iterations: the passes find nothing to do for a client that no
event concerned, which is the property `Quiescent`, proved as `PassesSuffice`.
An iteration in which none was ready skips the passes, and the same property
says that nothing waits for them. `disconnect_and_remove_client` finds the
client to close by its id (`Found`), so after a wrap of the ids it may find
another one; the one that was meant, finished but still listed, is then removed
at its own next event, while in the code the pass after the next event of any
client would do. No run and no theorem gets there. The half-second check is an action per
client (`LocalCheck`, `RemoteCheck`, `KeepaliveRunsOut`).

| code | action |
|---|---|
| `udpclient.c:173-213` accept | `Accept` |
| `udpclient.c:378-408` handle_message | `LocalRecvGoodbye`, `LocalRecvHelloAck`, `LocalRecvData`, `LocalRecvAck` |
| `udpclient.c:271-290` TCP socket ready | `LocalTcpData`, `LocalTcpEof`, `LocalTcpError` |
| `udpclient.c:139-168` check | `LocalCheck` |
| `udpclient.c:292-314` passes | `LocalPass`, in every action above |
| `udpserver.c:378-498` handle_message | `RemoteRecvHello`, `RemoteRecvHelloAck`, `RemoteRecvGoodbye`, `RemoteRecvData`, `RemoteRecvAck`, `RemoteIgnore` |
| `udpserver.c:245-268` TCP socket ready | `RemoteTcpData`, `RemoteTcpEof`, `RemoteTcpError` |
| `udpserver.c:197-225` check | `RemoteCheck`, `KeepaliveRunsOut` |
| `client.c:443-458` check and send a keepalive | `Keepalive!client_check_and_send_keepalive` |
| `udpserver.c:480-482` KEEPALIVE | `Keepalive!RecvKeepalive` |
| `udpserver.c:205-211` timed out | `Keepalive!GiveUp` |
| `udpserver.c:414-466` HELLO and the time of its client | `Keepalive!RecvHello` |

### What it promises

`Pipe` knows no messages, ids or numbers: a connection has two ends, which open,
take pieces in, let pieces out and go. What comes out (`out`) at one end is the
next piece that went in at the other, and one piece more is `due` for each that
went in. When an end goes (`Leave`) some of what is due at the other is lost,
all of it beyond some piece; the rest may still come out, or be lost later
(`Cut`). `PipeSpec` is this specification, with the ends computed from the
client_t of a connection and the messages in flight (`Pipes`):

| of `Pipe` | in `UdpTunnel` |
|---|---|
| end `local` is open | `local[c]` is in `clients`; before that it is idle, also while it is in `conn_clients` |
| end `remote` is open | `udpserver` has a client_t for `c`; idle until the HELLO arrives, gone when it is lost or names a host that has no address |
| `out` | what has been written to the TCP socket |
| `due` | what the other end has read, while it is there; then what has been written here and the one chunk that may be on its way |
| `Open` | the HELLO arrives; the HELLOACK moves the client to `clients` |
| `PutIn`, `ComeOut` | a chunk is read from a TCP socket; a new chunk is written to one |
| `Leave` | a client_t is removed; the HELLO comes to nothing |
| `Cut` | the chunk that was on its way to an end left alone is lost or thrown away |

The rest is stuttering: sending, acknowledging, the resend check. A
client_t of `udpserver` that can no longer get its HELLOACK (`Hears`) will write
nothing, so nothing is due to it when `udpclient` has closed. A pipe does not
promise that anything comes out; that is `ChunksArrive`.

### Abstractions and bounds

- The network is two sets, so two equal packets in flight are one. With
  `"reorder"` absent, `Rank` keeps the handshake before the data and GOODBYE
  last; DATA and ACK are never ordered against each other, since no handler
  tells the orders apart. `MaxCopies` bounds how often a packet is delivered
  and kept; with copies, order is not kept either.
- `"delay"`: a resend timeout may be up while the packet or its answer is in
  flight. Without it a timeout means that the packet is lost.
- KEEPALIVEs are not packets. `KeptAlive` says when the server cannot time a
  client out: nothing is lost, and the connection is open or has packets in
  flight. A KEEPALIVE with id 0 is refused, and a denied client has the
  keepalive time 0 from the start: both are in `KeptAlive`. The module
  `Keepalive` has the clock and justifies it: without loss the server never
  times out a client that is open.
- `Keepalive` counts time in ticks of half a second, the interval of the
  checks, down from when something is due. `Late` is how long after its time a
  check may come, `Delay` how long a message may take, `MaxLost` how many
  KEEPALIVEs in a row are lost. `Tick` does not go past the moment at which a
  check or a message has to come. A client that `udpserver` lists and `udpclient`
  does not have open is `alone` for so many ticks: because it is denied, because
  its HELLOACK has not come or was lost, or because the connection is closed and
  the GOODBYE was lost (`Close` keeps it or not). It is the order of `timercmp` that is kept,
  not the microseconds.
- An address is four fields that `acl_action` compares; names are resolved
  before, and a connection in `NoSocket` is one whose HELLO names a host that
  `sock_create` cannot resolve.
- `MaxChunks` bounds the chunks of one TCP stream, `MaxLocalChunks` those of
  the streams that `udpclient` reads (fewer in `isolation`), `MaxHello` the counter
  `next_client_id`, `IdMod` is 65536 in the code.
- An open client that gets a second HELLOACK takes its id over without a look
  at the others, as in the code. It can get the id of another open one only by
  a duplicated HELLO and a whole turn of the ids, and then the wrong client may
  be closed: see the faults under Runs.
- At most `FD_SETSIZE` descriptors are open, so that two pending clients never
  have the same request id.
- Not modelled: allocation failures, failures to send a datagram, `recvfrom`
  failing, SIGINT and SIGPIPE, a restart of either program, TCP writes and
  connects that block, descriptor numbers reused inside one iteration.

## The transports of goauth2

### State

`kind` says which package the behaviour is about and `of` which transport each
goroutine uses; neither changes. `token[t]` is `t.Token` (`t.OAuthToken` in
jwt), a record of the text and of whether there is a refresh token. A text is a
number in `granted`, the tokens the server has granted, each with the expiry
the client computed for it. `lock[t]` is `t.mu`. `cache` is what
`TokenCache.Token()` would return: for oauth the content of the file, for App
Engine memcache. `pc`, `op`, `begin` and `held` are where each goroutine is,
which call it makes, when it began, and the text it was granted or sends.
`signer[t]` are the fields of `jwt.Token` that `Encode` writes, `jwt[c]` the
parts that are in local variables. `begin` is kept for requests only. `saved`
is a history variable: a refresh token was written to the file, and since then
no write was cut short and nobody called AuthenticateClient on a transport
without a token.

### One action, one access

With a mutex, an action is what happens between two moments at which the
program may stop or the server answers: locking, looking at the token, asking,
the answer, the change of the token with the truncation of the file, the write
of the file, the return with its deferred unlock. Without one (App Engine, jwt)
each read or write of a field that goroutines share is an action.

| code | action |
|---|---|
| `oauth.go:284-326` RoundTrip, getAccessToken | `Begin`, `OauthLock`, `OauthLoad`, `OauthLoadFails`, `OauthUse`, `OauthRefresh`, `OauthCannotRefresh` |
| `oauth.go:246-273` Exchange, `oauth.go:370-384` AuthenticateClient, `oauth.go:344-366` Refresh | `Exchange`, `AuthenticateClient`, `Refresh` |
| `oauth.go:404-474` updateToken | `OauthAnswer`, `OauthRefused`, `OauthStore`, `OauthStoreUnsaved` |
| `oauth.go:77-103` CacheFile.PutToken | `OauthStore`, `OauthPut`, `OauthPutFails` |
| the program ends and starts again | `OauthRestart` |
| `compute/serviceaccount` NewClient, Refresh, RoundTrip, fetchToken | `ComputeNewClient`, `ComputeRenew`, `ComputeLock` ... `ComputeStore` |
| `appengine/serviceaccount` NewClient, FetchToken, RoundTrip, `cache.go` | `AppEngineNewClient`, `AppEngineFetch` ... `AppEngineRead`, `Evict` |
| `jwt.go` NewTransport, RoundTrip, Assert, Encode, sign | `JwtNewTransport`, `JwtCheck`, `SetTimes`, `Encode`, `Digest`, `Sign`, `Join`, `JwtAnswer` ... `JwtRead` |

### What it promises

`Bearer` knows no mutexes, caches or steps: tokens are issued and expire; a
caller asks and becomes eligible for the tokens that are good now and for those
issued while it waits; it is answered with one of them, or with none. `BearerSpec` is
this specification with `issued`, `live`, `status`, `eligible` and `answer`
computed from the state of `Transports`. An answer of none stands for an error
and for a request sent with an empty text. It is not promised that the token is
good when the request is sent: FetchToken checks it, and time passes before
the text is read, and before the API sees it.

### Abstractions and bounds

- The calls that set a transport up (NewClient, NewTransport, Exchange,
  AuthenticateClient, oauth's Refresh) are made by one goroutine while no other
  uses the transport: `StartAlone`. That is how the package comment and the
  examples use them. Made later they are data races, since Exchange, AuthenticateClient and
  Refresh write the token without `mu`; what the Go memory model lets happen
  then is not modelled. The unguarded reads and writes of App Engine and jwt
  are taken to be atomic, one field at a time.
- AuthenticateClient puts an empty token in place when there is none, without a
  look at the cache file, and saves nothing (`OauthStoreUnsaved`). The next
  Exchange finds that token and does not look either, and writes the file anew:
  with a server that sends no second refresh token, the one in the file is gone.
  That is what the code does, against the comment in Exchange about preserving
  a refresh token; `RefreshTokenSaved` names it as an exception, with the write
  that is cut short.
- NewClient of App Engine makes a transport of its own each time: a failed one
  leaves nothing to the next. `Config` is not nil. One program uses one cache file, and one
  transport of it.
- Time is in ticks so long that none passes between the answer of the server
  and the assignment that stores it (`Prompt`). An expiry is an absolute time
  the client computes when it has the answer; jwt's, which comes from the
  `id_token` of the answer, is taken to be a `Lifetime` from then, too. An answer without
  `expires_in` never expires (`Forever`, oauth).
- Compute and jwt store an answer whose access token is empty (a number in
  `granted` with `empty`); it is expired at once.
- The server answers a request for a token or refuses it; refusals include
  lost connections, other statuses and bodies that cannot be decoded. An
  assertion of which the signature is of another claim is refused.
- Two goroutines, two tokens for the packages with a mutex and three for those
  without (`Grants`), a lifetime of one tick and three moments: enough for a token
  to expire while a request holds it, for both goroutines to find it expired, and for
  one of them to be late by a whole renewal of the other. Two App Engine
  instances with memcache between them are a value of `Sharing`.
- Only oauth's program is restarted: the others keep nothing. A restarted
  instance of App Engine is one that has not made its client yet.

## The Google API client

`Upload` is the life of one call. `do` is where the caller is in `Do`, `writer`
where the goroutine of `ConditionallyIncludeMedia` is, `sent` what has gone
through the pipe and within the announced length, `media` the reader as
`getReaderSize` and `getMediaType` have left it: the bytes put back in front, and
whether the file follows them.

| code | action |
|---|---|
| `gen.go:1237-1325` Do | `StartDo`, `ExpandPath`, `Send`, `SendRefused`, `GetAnswer` |
| `googleapi.go:162-192` getReaderSize | `Measure`, `MeasureStuck`, `MeasureByCopy` |
| `googleapi.go:128-160` getMediaType | `Sniff` |
| `googleapi.go:222-276` ConditionallyIncludeMedia | `WriteFraming`, `WriteFront`, `WriteDirect`, `MediaEnds`, `ClosePipe`, `WriteFails` |
| `net/http`, which reads the pipe | `ReadEof`, `Break` |
| somebody else writes to the file | `Resize` |
| `uritemplates.go` expand | `Expand`, in `ExpandPath` |
| `main.go:109-197` getOAuthClient, tokenFromWeb, tokenFromFile, saveToken | `TokenFromFile`, `Listen`, `Serve`, `Receive`, `Exchange`, `Close`, `SaveToken` |

Bytes are numbered, at most `MaxSize` of them, and `SniffLen` (1024 in the
code) is 2, so that a file may be shorter than the buffer, as long, or longer. A
header, the JSON and the boundary are one token each. A source is a reader that knows its length (as
`strings.Reader`), one that seeks (a file), whose seeking may fail on the way
there or on the way back, or one that does neither; it may begin in the middle,
and fail at a byte. A file is resized once at most.

When the connection breaks, `Do` returns (`ReturnBroken`) and the goroutine
goes on by itself: every write into the pipe fails from then on, the one after
which it returns, and then that of the boundary in its deferred `mpw.Close()`;
`pw.Close()` is the last of its steps (`WriteFails` and `ClosePipe`). Only that
`WriterEnds` counts as its end.

A text is a sequence of bytes: unreserved, reserved, the percent sign, a
hexadecimal digit, the two bytes of a character that is not ASCII, or none of
these. Templates are an expression of one or two terms between two raw parts,
with all eight operators, both modifiers, and texts, lists and maps; a map is a
sequence, as `range` takes its pairs in some order. Generated code passes only
texts; the lists and maps are those of the package's own tests. The side of the
RFC (`RfcExpand`) is written from its grammar and its table and shares nothing
with the code's side but the code of an encoded byte: it copies triplets under
`+` and `#`, a prefix of it counts characters, and it joins the texts of the
defined variables where the code looks at its buffer.

`uritemplates.go:5` calls the package "a level 4 implementation of RFC 6570".
It is one outside `UriTemplate!Departs`, which names five kinds of cases: values
of length zero and lists of one empty text (separators and names), an exploded
map under `;` with an empty value, a triplet under `+` or `#` (encoded once
more), a prefix of a text with a character of several bytes (the package
counts bytes and may keep a part of it), and a prefix of a list (applied to
each member). `ExpandsAsRfc` says that there are no others among the templates
of the run. The templates of the APIs have one term per expression, so that
those about a separator do not reach them.

`Login` leaves out what the pages say. A request that reaches the server has a
code or has not; `Serve` chooses.

## Runs

Each cfg names one question. Deadlock is not checked: the programs stop when
every connection has come and gone, every call was made, or the tokens and ticks
of the instance are used up, and nobody need open a connection or make a call.

| run | instance | shows |
|---|---|---|
| `slow` | 1 connection, 3 chunks each way, delay | types; chunks arrive (`ChunksArrive`) and both ends go (`BothEndsGo`), which are liveness |
| `lossy` | the same, with loss | stop and wait: what is in flight is the head of the queue, and an ACK is for it (`InFlightHead`); an ACK means the chunk was written (`AckedIsWritten`); `Quiescent`; the TCP server gets a prefix of the client's stream (`RemoteStream`); a connection is a pipe (`PipeSpec`); no chunk is in flight for ever (`InFlightEnds`) |
| `isolation` | 2 connections, each with 3 chunks from the TCP server and 1 to it, reordering | `Isolation`; the TCP client gets a prefix of the server's stream (`LocalStream`) |
| `copied` | 2 connections, one copy | `OnlyOwnMessages`, `NoneLeaked` |
| `wraparound` | 3 connections, 2 ids, loss | `ClosesItsOwn`: closing a client by its id closes no other connection; the run reaches the leak of `Promote` and the endless loop of `RemoteTimeout` |
| `handshake` | 3 connections: allowed, denied, no such host; delay, reordering | `DeniedNeverConnected`, `HandshakeEnds` (liveness) |
| `keepalive` | the intervals of `message.h` (120 and 842 ticks), checks up to a second late, messages up to ten, 5 losses in a row | `LossesTolerated`: an open client is never timed out; `OrphansEnd`: one that is not open is dropped in time |
| `transports` | 2 goroutines on one transport, each package in its turn; 2 App Engine instances with one memcache; expiry, refusals, restarts, failing writes | types; `BearerSpec`: a request is sent with a token that was good since it was made; one refresh serves all (`NoNeedlessRefresh`); a refresh token in the file stays there (`RefreshTokenSaved`); App Engine never reads a nil token (`NeverPanics`); every call returns (`CallsReturn`, liveness) |
| `example` | a login with 2 requests, then one call: every template of two terms with every value, or every media reader of 3 bytes | types; `ExpandsAsRfc`; `WholeMedia`; `LengthsAgree`; `LoginEnds` and `WriterEnds`, which are liveness |

Why the bounds are enough. Two chunks use both values of the one-bit number,
the third one comes back to the first. `MaxResend = 2` tells "counted" from
"exhausted". Two connections are enough for one to get the other's message,
and three for a wrapped id to meet one in use. The access list of `handshake`
has an entry that allows before the one that denies, and one that would allow
after it, and a connection for each. `MaxHello` leaves room for one
HELLO more than `IdMod` in `wraparound`, and for a duplicate in `copied`.

Two goroutines are enough to find a token expired at the same time, and three
ticks for a request that began while a token was good to end when its successor
has expired too. A media file of three bytes is longer than what `Sniff` reads and
has a byte before the reader's offset. Two requests to the login are enough for
one to be left over.

Three runs show where the programs do not do what their comments say; the
findings in PROJECT.json quote them.

| run | |
|---|---|
| `no_resend` | a lost DATA or ACK is never sent again: the check counts the attempt and the routine it calls refuses to send while an ACK is outstanding |
| `jwt_race` | two goroutines renew an expired token through one jwt.Transport while the clock moves on: an assertion is posted that is the claim of one with the signature of the other |
| `truncated` | reading the media fails while it is copied to learn its size: the body is ended properly and the upload of what was read before succeeds |

The faults a property of udptunnel is checked under are the ones it holds
under. Each of the following is one line of a cfg away.

- `AckedIsWritten` (`lossy`) leaves out one case: when the HELLOACK of
  `udpclient` was lost, the data that follows is acknowledged and thrown away
  (`Hears`). It fails when packets overtake each other, since DATA that is
  earlier than the HELLOACK is thrown away as well; so does `InFlightHead`. It
  fails with `Content <- Alike`: a chunk equal to one in the queue is dropped,
  since the queue is a list without duplicates.
- `OnlyOwnMessages` (`copied`) fails with `Acl <- FirstDenied`: a pending client
  says GOODBYE with its request id, which the server takes for a client id.
- `ClosesItsOwn` (`wraparound`) fails when a HELLO is delivered twice as well
  (`MaxCopies = 1`, `IdMod = 3`, `MaxHello = 5`, reordering and loss): an open
  client takes over the id of another one from the second HELLOACK, and the
  wrong one is closed. That the list of open clients holds an id twice is
  therefore not excluded for good.
- The id 0, given out when the ids wrap, cannot be removed: the loop of the
  keepalive check over such a client never ends. `RemoteTimeout` has that as a
  step (`spinning`), and the server takes none after it. No property says that
  it does not happen, since it does.
- `NoneLeaked` (`copied`) fails with loss when the ids wrap: the server forgets
  an id that `udpclient` still has, and gives it out again.
- `OnlyOwnMessages` fails with loss too: the keepalive timeout disconnects a
  client before it has its HELLOACK, and the answer is the same GOODBYE.
- `LocalStream` (`isolation`) fails with `Content <- Alike`.
- With packets copied and reordered, a one-bit number cannot keep the streams
  (`LocalStream`, `RemoteStream`), and DATA that overtakes the HELLOACK is
  acknowledged and dropped, which breaks `RemoteStream` with reordering alone.

Three comments say something else than the code, without a run of their own.
`message.h:35` says of the timeout "has 7 tries to send a keep alive": seven
tries fit only if no check is ever late. Every KEEPALIVE is sent at a check
after its time is up, and the next one counts from there, so that after seven
intervals the delays have used up the one second that is left; `keepalive` with
`MaxLost = 6` violates `LossesTolerated` as soon as `Late` is 1. `client.c:474`
says that a client times out when it "didn't get any data or keep alive
messages", but data does not reset the time. `acl.c:39` says "Currently src
port is ignored", but `sp=` is parsed and compared; the README of udptunnel
agrees with the code.

### Fairness

udptunnel: `Fairness` is weak fairness on receiving, per connection and per side, and on
the checks. Each program is a loop without an exit that looks at every ready
descriptor and, every half second, at every client, so an event that stays
enabled is handled; the network delivers what it does not lose. It is assumed
that a TCP write or connect returns. Nothing is assumed about the users:
`Accept` and the TCP events need never happen. A system that spins
(`RemoteTimeout` for id 0) takes no more steps of the server, and the guard
`~ spinning` keeps the fairness conditions from asking for one.

goauth2: weak fairness on `Step(c)`, what a goroutine that runs does next, and
strong fairness on `Lock(c)`, since `sync.Mutex` hands itself to a goroutine that
has waited for long. A request to the authorization server ends, with an answer or an error: the
answers of a behaviour are bounded, its refusals are not. Making a call,
`Evict`, `Tick` and `OauthRestart` are not fair.

Example: weak fairness on `LoginStep` and on `CallStep`, the steps of the two
goroutines of each, of the transport, and of an API that answers. Opening the
page (`Serve`), making the call (`StartDo`), breaking the connection (`Break`)
and writing to the file (`Resize`) need never happen.

## Proofs

`UdpTunnelProofs` proves, for all values of the constants that satisfy the
assumptions (`IdMod` at least 2, `MaxResend` at least 1, `MaxChunks` and
`MaxCopies` natural, `MaxLocalChunks` at most `MaxChunks`, `Acl` a list of entries, `Address` defined for every
connection, `NoClient` not itself a client_t), for any set of connections and any set of faults:

| theorem | |
|---|---|
| `TypeCorrect` | `Spec => []TypeOK` |

The inductive invariant `IInv` is the conjunction of `NetOK`, `LocalOK`,
`RemoteOK` and `CountersOK`. It is stronger than the type invariant because a
client_t stays in its type when an ACK arrives only if its queue is not empty
(`Tail` of the queue), which is what `Steady` says while an ACK is outstanding;
and a pending client, which no pass looks at, joins the list without disturbing
it because it is `Fresh`: it has read nothing from its TCP socket.
`UdpTunnelProofs` begins with a lemma for every routine of `client.c`;
`LocalPassOK` and `RemotePassOK` turn them into facts about an iteration, and
`LocalNextOK` and `RemoteNextOK` go over the actions. The lemma behind
`Quiescent` is here too (`LocalSettled`), under the condition that a client is
found by its id; `IdsProofs` supplies it.

`IsolationProofs` and `IdsProofs` go on from there, still for any set of
connections and any faults, copies included, under one more assumption:
`MaxHello =< IdMod`, that is, `next_client_id` has not wrapped. What happens
when it has is among the faults listed under Runs.

| theorem | |
|---|---|
| `KeptApart` | `Spec => []Isolation` |
| `DeniesAsDocumented` | `acl_verdict(acl, addr) = "deny" <=> Denies(acl, addr)`, for every list |
| `DeniedStaysOut` | `Spec => []DeniedNeverConnected` |
| `NoneForgotten` | `Spec => []NoneLeaked` |
| `EachClosesItsOwn` | `Spec => ClosesItsOwn` |
| `PassesSuffice` | `Spec => []Quiescent` |

`Isolation` is about bytes that have been written; to prove it one has to know
where every message in flight and every chunk in a queue comes from. `OwnInv`
says so: an id below `next_client_id` has been given out to one connection, and
what carries it belongs to that connection, on the way up (`OwnUp`) and down
(`OwnDown`), in the records of `udpclient` (`OwnLocal`) and of `udpserver`
(`OwnRemote`); `IdsLeft` says that the next id is free, and not 0. What makes
it hold is narrow: a GOODBYE or an ACK may carry an id that belongs to another
connection (the request id of a client that has no other yet), but neither
brings data. DATA and the HELLOACK of a client have an id that came with a
HELLOACK of the server, which was sent to the connection the id is for. `DeniedStaysOut` adds `OutInv`: neither a record of a denied
connection nor a HELLOACK for one is anywhere past the pending list, so that
nothing on the way up can make the server connect. `DeniesAsDocumented` rests
on `FirstMatch`: the list has a first match since the entry at its end matches
everything, by well-founded induction on the finite sets `1 .. i`.

The theorems about ids need that an id has one holder: `Owned` allows two
connections to own an id whose client_t the server has removed. `OneHolder` looks
at the three places an id can be held in, a HELLOACK on its way down,
an open client of `udpclient` and a client_t of `udpserver`: each gets it from
another of the same connection, or new from the counter. The exception would
be a pending client that joins the list with its request id, at DATA or an ACK
(as it does in `udpclient.c`, where any message moves it). `Calm` rules it
out: until `udpclient` has answered a HELLOACK, the server has nothing to send
but HELLOACKs and GOODBYEs, as none of its client_t for that connection is
connected, has a chunk or waits for an ACK; an ACK with a foreign id changes
none of that. HELLOs that were copied, for which
the server creates several client_t, and a GOODBYE that carries a request id
are covered. From `OneHolder` it follows that `Found` is the client that was
meant (`HeldDisconnects`, `HeldEof`), hence `ClosesItsOwn` and `Quiescent`.

`StreamProofs` proves what a tunnel connection is for, with `MaxHello =< IdMod`
again, for any set of connections, any resend limit, and streams of any bounded length:

| theorem | | on a network that |
|---|---|---|
| `LocalGetsAPrefix` | `Spec => []LocalStream` | loses, delays and reorders |
| `RemoteGetsAPrefix` | `Spec => []RemoteStream` | loses and delays |
| `StopAndWait` | `Spec => []InFlightHead` | loses and delays |
| `AckMeansWritten` | `Spec => []AckedIsWritten` | loses and delays |
| `SpeaksForItself` | `Spec => []OnlyOwnMessages` | delays, reorders and copies, and nobody is denied |

None of the hypotheses about the network can be dropped: TLC shows what happens
without each of them. A bit is all that tells a new message from an old one, so
a copy that comes late is taken for the next chunk (`MaxCopies = 0` for the
first four). The server acknowledges and discards DATA that arrives before the
HELLOACK of `udpclient`, or after that was lost. Order rules out the first;
in the second case the way up is dead, which `InFlightHead` and `AckedIsWritten`
say by `Hears`: they promise nothing for a client_t of `udpserver` that is not
past its handshake and has nothing on its way that would take it there. The
server itself sends no DATA before it has got that HELLOACK, so the other
direction stands both. A client that is told GOODBYE before its HELLOACK,
because it is denied or the keepalive time ran out, answers with its request id
(`SpeaksForItself`). The first four also assume `AllDiffer`, that no two chunks
of a stream hold the same: `list_add` drops a chunk equal to one in the queue,
and what is left is not the stream that was read. With `Content <- Alike` even
`LocalStream` fails.

`SpeaksForItself` rests on `GuestInv`: a message on its way up other than a
HELLO carries an id of its own connection, because a connection that has not
answered its HELLOACK (`Silent`) gets nothing but HELLOACKs, and because a
client_t the server holds for it is still being offered to it (`OfferComes`).
Loss and denial break the last of these.

The others share one invariant of two parts. `HandInv` is the handshake:
without copies a connection has one HELLO, at most one id (`OneId`) and one
HELLOACK each way (`OnUp`, `OnDown`), and neither end relays a chunk before the
handshake is over (`BlankInv`). `LinkInv` is the two directions. `Backlog` says
that the queue of a client_t is the end of what it has read. `Reads` is about a
receiver alone: what it wrote is a stream from its beginning, and every DATA
message on its way to it is the next chunk of that stream with the type it waits
for; this survives the removal of the sender. `Matched` ties the two ends
together while both are there (`Joined`): the receiver is at the head of the
sender's queue, or one chunk beyond it while the ACK is outstanding, and DATA
and ACK of a chunk are never in flight at the same time (`InStep`). The last of
these would be false of a client that resends; this one never does
(`no_resend`). `Hears` says that the server is past its handshake or will be;
only then is the way up in step. `StopAndWait` needs a third part, `HalfInv`:
of one client_t alone, whether there is another end or not, what is in flight is
its head or the ACK it waits for, never both. Lemmas for the routines of `client.c` say what each does to one direction;
`LocalShape` and `RemoteShape` reduce the actions to what an iteration may do to
the ids and the messages in flight.

`PipeProofs` proves that `UdpTunnel` implements `Pipe`:

| theorem | |
|---|---|
| `TunnelIsAPipe` | `Spec => PipeSpec`, on a network that loses and delays |

under the hypotheses of `RemoteGetsAPrefix`: ids left, order kept, no copies, and
chunks that all differ. It says more than the two prefix theorems together. They
are about what was written by a client_t that is still there; `PipeSpec` is
about steps, and it says that a chunk comes out only if the other end has
put it in, that an end opens once and does not come back, and that what is due
only shrinks once the other end has gone.

The invariant is `Reached`, what the modules before have proved: the types and
the ids (`Known`), nothing of a connection that was not accepted (`IdleInv`), the handshake (`HandInv`)
and the two directions (`LinkInv`). No other strengthening was needed, so the
work is the mapping. `Shown` says what each end shows, by the stage of the
connection and whether the server has a client_t for it (`Theirs`, of which
`HandInv` allows one at most). `Steps` is `Next` of `Pipe` for the two ends of one
connection, and `StepsOfPipe` turns such a change into a step of
`Tunnel!Next` when all other connections look the same (`LooksSame`), which they do
because nothing of theirs was touched (`Untouched`). Lemmas for what an
iteration does to the list (`LocalKeeps`, `LocalReads`, `LocalWrites`, `LocalCloses`,
`LocalOpens`, and the same for `Remote`) are then put together for each action.
The steps that take thought are removals: `due` drops from all that
was read to what is on its way, which lies between what was written and
what was due (`MatchedCounts`, `BothCount`) because `Matched` puts the receiver at the head of
the sender's queue or one chunk beyond it.

`KeepaliveProofs` proves two theorems:

| theorem | |
|---|---|
| `TriesSuffice` | `Spec => []LossesTolerated`, whenever `(MaxLost + 1) * (KEEP_ALIVE_SECS + Late) + Delay < KEEP_ALIVE_TIMEOUT_SECS` |
| `OrphansDropped` | `Spec => []OrphansEnd`, for any intervals and however much is lost |

`OInv` adds what is left of the time of the server to how long the client has
been alone; it starts from 0 for a denied client and from the timeout for one
that is offered, and a KEEPALIVE that arrives after the end sets the time once
more, by at most `Delay`. `KInv` is `OInv` and a bound on the time the server
has waited for an open client, `Behind`: an interval for each KEEPALIVE sent
since the last that arrived, and the time since the last was sent.

`TransportsProofs` proves, for any sets of goroutines and transports, any way of
sharing them, any lifetime and any bounds on time and grants:

| theorem | |
|---|---|
| `Promised` | `Spec => BearerSpec`: the four transports implement `Bearer` |
| `TypeCorrect` | `Spec => []TypeOK` |
| `OneRefresh` | `Spec => []NoNeedlessRefresh` |
| `PanicFree` | `Spec => []NeverPanics` |
| `RefreshTokenKept` | `Spec => []RefreshTokenSaved` |

It assumes `CredentialsAssumption` (the bounds are natural numbers, and nil, no
cache and an unreadable cache are not tokens, nor is a free mutex a goroutine) and
`SharingAssumption` (each goroutine has a transport); `RefreshTokenKept` needs
`OneFileAssumption` as well: a cache file belongs to one oauth transport.

There are 45 actions and four packages, but a step of a goroutine can only have one of
seven effects: it starts a call (`Starts`), goes on (`Goes`), loads a token from
the cache (`Loads`), gets an answer (`Answers`), stores it (`Stores`), returns
(`Ends`) or rests (`Rests`). Each effect says only what matters to the invariant: who may
have changed what, and under which condition. `EffectLemma` shows, with a lemma for
each effect, that every action has its effect; from there on the actions are not
looked at again, except for the shape of the state (`TypesKept`). Ticks, evictions and restarts, which no
goroutine makes, have lemmas of their own.

The invariant `IInv` is `TypeOK`, `NoNeedlessRefresh` and what they and `Bearer`
lean on. `Alone` says that whoever sets a transport up has it for itself, `Made`
that a transport others can reach has been set up, and (`Furnished`) has a token
unless it is oauth's; with `Unmade`, that only a NewClient loads from memcache,
they are why FetchToken's nil is never seen: it is assigned only
before the client is returned. `Locks` says that a goroutine of oauth or compute between the lock and
the return is the holder, so that no other can change the token it looked at. `Fresh` says
that an answer is stored while its token is good, and `Good` that the token about to be read or
written for a request was good since the request began. That one is what
`Bearer` needs at `Ends`, and what makes it inductive is that tokens are only replaced: another
goroutine that stores into the same transport stores a token that is good now,
so also since the earlier moment this request began.

`RefreshTokenKept` adds `Keeping`: while a refresh token is `saved`, the file has one
whenever nobody writes it (`FileKeeps`), and so has any token in memory
(`MemoryKeeps`), which is what the file is written from. The file is cut short
during `PutToken`, and nobody reads it meanwhile: one goroutine at a time
is between the lock, or the start of a call that sets the transport up, and
the return (`OneAtATime`, from `Locks` and `Alone`). `MemoryKeeps` is what
AuthenticateClient breaks on a transport without a token, and why that ends
`saved`; every other way to a token in memory goes through the file or through
an answer that keeps the refresh token there was.

`ExampleProofs` proves, for any set of calls, files of any size, any buffer of
`getMediaType`, and readers that fail or change at any byte:

| theorem | |
|---|---|
| `ExampleTypes` | `Spec => []TypeOK` |
| `UploadIsWhole` | `Spec => []WholeMedia` |
| `UploadIsMeasured` | `Spec => []LengthsAgree` |

It assumes `CallsAssumption`: a reader stands somewhere inside what it reads. (A
file positioned beyond its end, for which `getReaderSize` would announce less
than nothing, is not among the calls the runs make either.)
The invariant follows the bytes through the three places they can be in.
`InLine` says that the body sent so far is the frames and the bytes from where
the reader stood (`Body`), that what was put back in front is what comes next,
and that the file is positioned behind it (`Ahead`); it holds until the first
byte is thrown away for being beyond the length. `Announced` ties the length to
the size at the time of the call, unless the reader is one that must end with an
error, and `Complete` that a server that answers has got as many tokens. These
give `WholeMedia`. `LengthsAgree` needs a second count, which does not survive a
change of the file: `Exact` says that what was sent and what is left, in the
buffer, in the file and of the framing, is what was announced (`Undisturbed`).
Both lean on `getReaderSize` putting the position back, and on `getMediaType`
putting the bytes back.

Only model-checked: `ExpandsAsRfc`, as what the recursion over a template
computes is out of the prover's reach; and everything that is live, as liveness
under fairness is out of it too. The properties of the runs that expect a
violation are false of the code, so there is nothing to prove.

## Not modelled

The Go sources are 263,714 lines without tests, of which 257,558 are 104 files
`*-gen.go` that the generator wrote, one per API: types without behaviour,
setters of options, and for each API method a copy of the same `Do` with other
names. `Upload` models that `Do` once, from the template in `gen.go`. Mapping its
definitions to the copies would add lines and no behaviour, so the share of
lines that definitions are mapped to stays small; it is of the
6,156 lines written by hand that they cover a part worth speaking of.

- The generator: it reads a description and writes Go, in one pass, with a table of
  the names in use; the compiler checks what it writes.
- Parsing of templates, encodings of requests and answers, `AuthCodeURL`,
  `ConvertVariant`, `CombineFields`, `JSONReader`, `ResolveRelative`: functions
  without state, of a text or a tree.
- jwt: an external signer, `EncodeWithoutSignature`, keys, and two transports
  made from one `jwt.Token`, which would share its fields just as two goroutines do.
- oauth's setup calls made after the transport is shared: data races.
- The demos of `examples` other than the upload to Drive, the debugging transport and the
  programs in `goauth2/*/example`: a sequence of calls without state.
- udptunnel: descriptor numbers reused inside one iteration, a `recvfrom` that
  fails, a restart of either program, and writes that block.
- chownat and gnuProload: small programs with a protocol, in Perl and in C with
  GTK, that have hazards in PROJECT.json and no module yet.
- The rest: user interfaces, third-party trees, scripts that are only calls of
  other programs.

## Plan

1. Done: udptunnel and its theorems about single records, the access list, the
   keepalive, and isolation and single ids while the ids have not wrapped.
2. Done: the transports of goauth2, `Bearer` and the proof that they implement
   it; the API call, its templates and uploads, and the login.
3. Done: `WholeMedia` and `LengthsAgree` for files of any size; the streams of a
   tunnel connection on a network that makes no copies.
4. Done: `Pipe`, and `UdpTunnel` shown to implement it when packets are lost
   and late.
5. `UdpServer` restarted with its ids starting again; the select loop of
   `udpclient` with descriptor numbers, for the stale `read_fds`; the id that
   `recvfrom` leaves behind when it fails.
6. `Chownat`: data, confirmations and requests with wrapping numbers between
   two peers. `Programmer`: the erase, burn and verify dialogue of gnuProload
   with the GTK callbacks that may come in between.
