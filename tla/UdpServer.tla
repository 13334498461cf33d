----------------------------- MODULE UdpServer -----------------------------
(***************************************************************************)
(* udpserver.c: creates a client_t for every HELLO, connects to the TCP    *)
(* server the HELLO names once the client has answered the HELLOACK, and   *)
(* relays data both ways.  Messages are dispatched on the id in their      *)
(* header alone; the address they come from is read for a HELLO only.      *)
(*                                                                         *)
(* One action is one iteration of the select loop, as in UdpClient.        *)
(***************************************************************************)
EXTENDS Client, AccessList

CONSTANTS
    Acl,        \* the access control entries of the command line
    Address,    \* Address[c]: where c comes from, and where its HELLO wants to
    NoSocket,   \* connections for which no TCP socket can be created
    MaxHello    \* bound: next_client_id stays below it

ASSUME AddressAssumption ==
    /\ DOMAIN Address = Conn
    /\ NoSocket \subseteq Conn
    /\ Acl \in Seq(AclEntry)

VARIABLES
    remote,          \* remote[i]: the client_t with id i, or NoClient
    next_client_id,  \* an int; client_create gets it as a uint16_t
    spinning         \* udpserver no longer leaves its keepalive check

remoteVars == <<remote, next_client_id, spinning>>

RemoteTypeOK ==
    /\ remote \in [Id -> ClientT \union {NoClient}]
    /\ \A i \in Id : remote[i] # NoClient => remote[i] \in ClientT /\ remote[i].id = i
    /\ next_client_id \in Nat
    /\ spinning \in BOOLEAN

RemoteInit ==
    /\ remote = [i \in Id |-> NoClient]
    /\ next_client_id = 1
    /\ spinning = FALSE

-----------------------------------------------------------------------------
\* Mutant of RemoteDisconnect: no GOODBYE is sent.
RemoteDisconnectSilently(i, k, sent) ==
    /\ remote' = [remote EXCEPT ![i] = NoClient]
    /\ down' = down \union sent

\* disconnect_and_remove_client(i, ..., 1) for a client whose record is now k.
\* What it does for id 0 is in RemoteTimeout: no other event gets that far.
RemoteDisconnect(i, k, sent) ==
    /\ remote' = [remote EXCEPT ![i] = NoClient]
    /\ down' = down \union sent \union {Goodbye(k)}

\* The rest of an iteration after a handler that changed the client to k.
RemotePass(i, k, sent) ==
    \/ /\ MustGo(k)
       /\ RemoteDisconnect(i, k, sent)
    \/ /\ ~ MustGo(k)
       /\ remote' = [remote EXCEPT ![i] = AfterSend(k)]
       /\ down' = down \union sent \union DataSent(k)

RemoteRecv(p) ==
    /\ ~ spinning
    /\ UNCHANGED spinning
    /\ Deliver(up, p, up')

\* handle_message finds the client the message is for.
RemoteRecvFor(p) ==
    /\ RemoteRecv(p)
    /\ p.id # 0
    /\ remote[p.id] # NoClient
    /\ UNCHANGED next_client_id

-----------------------------------------------------------------------------
(* Events on the sockets.                                                  *)

\* Mutant of NewId: the counter is never used.
SameNewId == 1

(***************************************************************************)
(* HELLO.  The TCP socket for the host and port may be impossible to       *)
(* create (NoSocket); otherwise a client is created and added, unless      *)
(* list_add finds one with the same id, which then takes its place.  The   *)
(* access control list is asked about the client that is in the list now.  *)
(* Whoever sent the HELLO gets the GOODBYE if it denies, with an id that   *)
(* is not its own, and the client stays in the list.                       *)
(***************************************************************************)
NewId == next_client_id % IdMod

\* Mutant of Entry: the counter is incremented before it is used, not after.
EntryNextId(c) ==
    IF remote[NewId] = NoClient
    THEN client_create((next_client_id + 1) % IdMod, c, FALSE, next_client_id)
    ELSE remote[NewId]

Entry(c) ==
    IF remote[NewId] = NoClient
    THEN client_create(NewId, c, FALSE, next_client_id)
    ELSE remote[NewId]

Verdict(c) == acl_verdict(Acl, Address[c])

HelloReply(c) ==
    IF Verdict(Entry(c).udp_sock) = "allow"
    THEN Packet(Entry(c).udp_sock, Entry(c).id, "HELLOACK")
    ELSE Packet(c, (next_client_id + 1) % IdMod, "GOODBYE")

RemoteRecvHello(p) ==
    /\ p.type = "HELLO"
    /\ RemoteRecv(p)
    /\ \/ /\ p.conn \in NoSocket
          /\ UNCHANGED <<remote, next_client_id, down>>
       \/ /\ p.conn \notin NoSocket
          /\ next_client_id < MaxHello
          /\ next_client_id' = next_client_id + 1
          /\ remote' = [remote EXCEPT ![NewId] = Entry(p.conn)]
          /\ down' = down \union {HelloReply(p.conn)}

\* HELLOACK: connects, unless connected; sock_connect may fail.
RemoteRecvHelloAck(p) ==
    LET k == [client_got_helloack(remote[p.id]) EXCEPT !.connected = TRUE]
    IN  /\ p.type = "HELLOACK"
        /\ RemoteRecvFor(p)
        /\ \/ RemoteDisconnect(p.id, remote[p.id], {})
           \/ /\ ~ remote[p.id].connected
              /\ RemotePass(p.id, k, {})

RemoteRecvGoodbye(p) ==
    /\ p.type = "GOODBYE"
    /\ RemoteRecvFor(p)
    /\ RemoteDisconnect(p.id, remote[p.id], {})

\* As in udpclient: acknowledged first, written then.
RemoteRecvData(p) ==
    LET k == remote[p.id]
        ack == {AckFor(k, p.type)}
    IN  /\ p.type \in Data
        /\ RemoteRecvFor(p)
        /\ \/ /\ ~ IsNewData(k, p.type)
              /\ RemotePass(p.id, k, ack)
           \/ /\ IsNewData(k, p.type)
              /\ k.connected
              /\ RemotePass(p.id, AfterWrite(k, p.chunk), ack)
           \/ /\ IsNewData(k, p.type)
              /\ RemoteDisconnect(p.id, k, ack)

\* An ACK that was not waited for is ignored, unlike in udpclient.
RemoteRecvAck(p) ==
    /\ p.type \in Ack
    /\ RemoteRecvFor(p)
    /\ RemotePass(p.id, client_got_ack(remote[p.id], p.type), {})

\* No client has the id, or the id is 0 and the message no HELLO.
RemoteIgnore(p) ==
    /\ RemoteRecv(p)
    /\ p.type # "HELLO"
    /\ p.id = 0 \/ remote[p.id] = NoClient
    /\ UNCHANGED <<remote, next_client_id, down>>

RemoteTcpData(i) ==
    /\ ~ spinning
    /\ remote[i] # NoClient
    /\ remote[i].connected
    /\ remote[i].nread < MaxChunks
    /\ \E k \in client_recv_tcp_data(remote[i]) : RemotePass(i, k, {})
    /\ UNCHANGED <<up, copies, next_client_id, spinning>>

RemoteTcpEof(i) ==
    /\ ~ spinning
    /\ remote[i] # NoClient
    /\ remote[i].connected
    /\ RemotePass(i, AtEof(remote[i]), {})
    /\ UNCHANGED <<up, copies, next_client_id, spinning>>

RemoteTcpError(i) ==
    /\ ~ spinning
    /\ remote[i] # NoClient
    /\ remote[i].connected
    /\ RemoteDisconnect(i, remote[i], {})
    /\ UNCHANGED <<up, copies, next_client_id, spinning>>

\* The check every half second: the resend timeout ...
RemoteCheck(i) ==
    LET k == client_check_and_resend(remote[i])
    IN  /\ ~ spinning
        /\ remote[i] # NoClient
        /\ TimeoutIsUp(remote[i])
        /\ \/ /\ Exhausted(k)
              /\ RemoteDisconnect(i, k, {})
           \/ /\ ~ Exhausted(k)
              /\ remote' = [remote EXCEPT ![i] = k]
              /\ UNCHANGED down
        /\ UNCHANGED <<up, copies, next_client_id, spinning>>

(***************************************************************************)
(* ... and the keepalive timeout; UdpTunnel says when it may be up.  The   *)
(* loop over the clients steps back by one to account for the removed one, *)
(* and disconnect_and_remove_client removes nothing when the id is 0: the  *)
(* loop then looks at the same client for ever.                            *)
(***************************************************************************)
RemoteTimeout(i) ==
    /\ ~ spinning
    /\ remote[i] # NoClient
    /\ \/ /\ i # 0
          /\ RemoteDisconnect(i, remote[i], {})
          /\ UNCHANGED spinning
       \/ /\ i = 0
          /\ spinning' = TRUE
          /\ UNCHANGED <<remote, down>>
    /\ UNCHANGED <<up, copies, next_client_id>>

RemoteReceive(c) ==
    \E p \in up :
        /\ p.conn = c
        /\ \/ RemoteRecvHello(p)
           \/ RemoteRecvHelloAck(p)
           \/ RemoteRecvGoodbye(p)
           \/ RemoteRecvData(p)
           \/ RemoteRecvAck(p)
           \/ RemoteIgnore(p)

RemoteTcp(i) == RemoteTcpData(i) \/ RemoteTcpEof(i) \/ RemoteTcpError(i)
=============================================================================
