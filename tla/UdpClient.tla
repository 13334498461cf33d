----------------------------- MODULE UdpClient -----------------------------
(***************************************************************************)
(* udpclient.c: accepts TCP connections, opens a tunnel connection for     *)
(* each with a HELLO, and relays data both ways once it is open.           *)
(*                                                                         *)
(* One action is one iteration of the select loop in which one descriptor  *)
(* was ready: the handler of the event, then the passes that send what is  *)
(* queued and remove the clients that are done.  An iteration that finds   *)
(* several descriptors ready equals several such iterations, because the   *)
(* passes have nothing to do for a client no event concerned (Quiescent in *)
(* UdpTunnel).                                                             *)
(***************************************************************************)
EXTENDS Client

CONSTANT
    MaxLocalChunks   \* bound: how many of the MaxChunks udpclient reads

ASSUME LocalChunksAssumption == MaxLocalChunks \in 0 .. MaxChunks

VARIABLES
    stage,        \* where the TCP connection stands
    local,        \* local[c]: its client_t, NoClient when there is none
    next_req_id   \* the id of the next HELLO

localVars == <<stage, local, next_req_id>>

(***************************************************************************)
(* idle     not accepted yet                                               *)
(* pending  in the list conn_clients, waiting for the HELLOACK             *)
(* open     in the list clients                                            *)
(* closed   removed from its list, both sockets closed                     *)
(* leaked   in no list, both sockets open: see Promote                     *)
(***************************************************************************)
Stage == {"idle", "pending", "open", "closed", "leaked"}

Listed(c) == stage[c] \in {"pending", "open"}

LocalTypeOK ==
    /\ stage \in [Conn -> Stage]
    /\ local \in [Conn -> ClientT \union {NoClient}]
    /\ \A c \in Conn : Listed(c) => local[c] \in ClientT /\ local[c].udp_sock = c
    /\ next_req_id \in Id

\* next_req_id = rand() % 0xffff
LocalInit ==
    /\ stage = [c \in Conn |-> "idle"]
    /\ local = [c \in Conn |-> NoClient]
    /\ next_req_id \in 0 .. (IdMod - 2)

-----------------------------------------------------------------------------
(***************************************************************************)
(* disconnect_and_remove_client looks the client c, whose record is now k, *)
(* up by its id and takes the first that list_get finds.  Pending clients  *)
(* have request ids of their own, as there are more ids than descriptors,  *)
(* but an open client can have the id of another one: then any of them may *)
(* be the first.                                                           *)
(***************************************************************************)
Found(c, k) ==
    IF stage[c] = "pending"
    THEN {c}
    ELSE {d \in Conn : d = c \/ (stage[d] = "open" /\ local[d].id = k.id)}

\* The client that was found, d, is removed: if it is not c, then c stays.
Remove(c, d, k, sent) ==
    /\ stage' = [stage EXCEPT ![d] = "closed"]
    /\ local' = [local EXCEPT ![c] = k, ![d] = NoClient]
    /\ up' = up \union sent \union {Goodbye(IF d = c THEN k ELSE local[d])}

\* disconnect_and_remove_client(..., 1)
LocalDisconnect(c, k, sent) == \E d \in Found(c, k) : Remove(c, d, k, sent)

\* The rest of an iteration after a handler that changed the client to k.
LocalPass(c, k, sent) ==
    \/ /\ MustGo(k)
       /\ LocalDisconnect(c, k, sent)
    \/ /\ ~ MustGo(k)
       /\ local' = [local EXCEPT ![c] = AfterSend(k)]
       /\ up' = up \union sent \union DataSent(k)
       /\ UNCHANGED stage

(***************************************************************************)
(* A pending client moves to the list clients with list_add, which does    *)
(* not add an element whose id is there already; its entry in conn_clients *)
(* is then freed all the same, and nothing closes its sockets.             *)
(***************************************************************************)
IdInUse(c, id) == \E d \in Conn \ {c} : stage[d] = "open" /\ local[d].id = id

\* Mutant of Promote: the client is added whether its id is there or not.
PromoteAnyway(c, k, sent) ==
    /\ up' = up \union sent
    /\ stage' = [stage EXCEPT ![c] = "open"]
    /\ local' = [local EXCEPT ![c] = k]

Promote(c, k, sent) ==
    /\ up' = up \union sent
    /\ \/ /\ IdInUse(c, k.id)
          /\ stage' = [stage EXCEPT ![c] = "leaked"]
          /\ local' = [local EXCEPT ![c] = NoClient]
       \/ /\ ~ IdInUse(c, k.id)
          /\ stage' = [stage EXCEPT ![c] = "open"]
          /\ local' = [local EXCEPT ![c] = k]

\* handle_message returned 0 or more.
LocalGoOn(c, k, sent) ==
    \/ stage[c] = "pending" /\ Promote(c, k, sent)
    \/ stage[c] = "open" /\ LocalPass(c, k, sent)

\* Mutant of LocalRecv: the sockets of pending clients are not polled.
LocalRecvOpenOnly(c, p) ==
    /\ p.conn = c
    /\ stage[c] = "open"
    /\ Deliver(down, p, down')
    /\ UNCHANGED next_req_id

LocalRecv(c, p) ==
    /\ p.conn = c
    /\ Listed(c)
    /\ Deliver(down, p, down')
    /\ UNCHANGED next_req_id

-----------------------------------------------------------------------------
(* Events on the sockets.                                                  *)

Accept(c) ==
    LET k == client_create(next_req_id, c, TRUE, 0)
    IN  /\ stage[c] = "idle"
        /\ stage' = [stage EXCEPT ![c] = "pending"]
        /\ local' = [local EXCEPT ![c] = k]
        /\ next_req_id' = (next_req_id + 1) % IdMod
        /\ up' = up \union {Packet(c, 0, "HELLO")}
        /\ UNCHANGED <<down, copies>>

LocalRecvGoodbye(c, p) ==
    /\ p.type = "GOODBYE"
    /\ LocalRecv(c, p)
    /\ LocalDisconnect(c, local[c], {})

\* Mutant of LocalRecvHelloAck: the client keeps its request id.
LocalRecvHelloAckKeepsId(c, p) ==
    LET k == client_got_helloack(local[c])
    IN  /\ p.type = "HELLOACK"
        /\ LocalRecv(c, p)
        /\ LocalGoOn(c, k, {Packet(c, k.id, "HELLOACK")})

\* A client that is open already takes the new id all the same.
LocalRecvHelloAck(c, p) ==
    LET k == [client_got_helloack(local[c]) EXCEPT !.id = p.id]
    IN  /\ p.type = "HELLOACK"
        /\ LocalRecv(c, p)
        /\ LocalGoOn(c, k, {Packet(c, p.id, "HELLOACK")})

\* New data is acknowledged before it is written, and the write may fail.
LocalRecvData(c, p) ==
    LET k == local[c]
        ack == {AckFor(k, p.type)}
    IN  /\ p.type \in Data
        /\ LocalRecv(c, p)
        /\ \/ /\ ~ IsNewData(k, p.type)
              /\ LocalGoOn(c, k, ack)
           \/ /\ IsNewData(k, p.type)
              /\ k.connected
              /\ LocalGoOn(c, AfterWrite(k, p.chunk), ack)
           \/ /\ IsNewData(k, p.type)
              /\ LocalDisconnect(c, AfterFailedWrite(k), ack)

LocalRecvAck(c, p) ==
    /\ p.type \in Ack
    /\ LocalRecv(c, p)
    /\ \/ /\ IsExpectedAck(local[c], p.type)
          /\ LocalGoOn(c, client_got_ack(local[c], p.type), {})
       \/ /\ ~ IsExpectedAck(local[c], p.type)
          /\ LocalDisconnect(c, local[c], {})

\* Only clients in the list clients have their TCP socket read.
LocalTcpData(c) ==
    /\ stage[c] = "open"
    /\ local[c].connected
    /\ local[c].nread < MaxLocalChunks
    /\ \E k \in client_recv_tcp_data(local[c]) : LocalGoOn(c, k, {})
    /\ UNCHANGED <<down, copies, next_req_id>>

(***************************************************************************)
(* The end of the stream: disconnect_and_remove_client(..., 0) looks the   *)
(* client up by its id, too.  If it finds another one, d, it closes the    *)
(* TCP socket of that; c is only marked, and is told of the end again.     *)
(***************************************************************************)
EofElsewhere(c, d) ==
    LET k == Marked(local[c])
    IN  \/ /\ MustGo(k)
           /\ Remove(c, d, k, {})
        \/ /\ ~ MustGo(k)
           /\ local' = [local EXCEPT ![c] = AfterSend(k), ![d].connected = FALSE]
           /\ up' = up \union DataSent(k)
           /\ UNCHANGED stage

LocalTcpEof(c) ==
    /\ stage[c] = "open"
    /\ local[c].connected
    /\ \E d \in Found(c, local[c]) :
          \/ d = c /\ LocalGoOn(c, AtEof(local[c]), {})
          \/ d # c /\ EofElsewhere(c, d)
    /\ UNCHANGED <<down, copies, next_req_id>>

LocalTcpError(c) ==
    /\ stage[c] = "open"
    /\ local[c].connected
    /\ LocalDisconnect(c, local[c], {})
    /\ UNCHANGED <<down, copies, next_req_id>>

(***************************************************************************)
(* The check every half second.  It also sends the KEEPALIVEs, of which    *)
(* only the effect on the server is modelled (KeptAlive in UdpTunnel).     *)
(***************************************************************************)
LocalCheck(c) ==
    LET k == client_check_and_resend(local[c])
    IN  /\ stage[c] = "open"
        /\ TimeoutIsUp(local[c])
        /\ \/ /\ Exhausted(k)
              /\ LocalDisconnect(c, k, {})
           \/ /\ ~ Exhausted(k)
              /\ local' = [local EXCEPT ![c] = k]
              /\ UNCHANGED <<stage, up>>
        /\ UNCHANGED <<down, copies, next_req_id>>

\* A packet for a socket that is closed, or that no list refers to any more.
DropStray(p) ==
    /\ p \in down
    /\ ~ Listed(p.conn)
    /\ down' = down \ {p}
    /\ UNCHANGED <<up, copies, localVars>>

LocalReceive(c) ==
    \E p \in down :
        \/ LocalRecvGoodbye(c, p)
        \/ LocalRecvHelloAck(c, p)
        \/ LocalRecvData(c, p)
        \/ LocalRecvAck(c, p)

LocalTcp(c) == LocalTcpData(c) \/ LocalTcpEof(c) \/ LocalTcpError(c)
=============================================================================
