-------------------------- MODULE UdpTunnelProofs --------------------------
(***************************************************************************)
(* Theorems about UdpTunnel, for any number of connections, any resend     *)
(* limit, any bounds and any behaviour of the network.                     *)
(***************************************************************************)
EXTENDS UdpTunnel, TLAPS

-----------------------------------------------------------------------------
(* What the routines of client.c do to a client_t: lemmas about the        *)
(* operators of Client.                                                    *)

\* A client_t that has not relayed anything yet.
Fresh(k) ==
    /\ k.tcp2udp_q = <<>>
    /\ k.tcp2udp_state = "WAIT_DATA0"
    /\ k.resend_count = 0
    /\ ~ k.to_disconnect

SameName(k, l) == k.id = l.id /\ k.udp_sock = l.udp_sock

\* client_create returns a well-typed client that has relayed nothing.
LEMMA Create ==
    ASSUME NEW id \in Id, NEW c \in Conn, NEW b \in BOOLEAN, NEW s \in Nat
    PROVE  LET k == client_create(id, c, b, s)
           IN  k \in ClientT /\ Fresh(k) /\ k.id = id /\ k.udp_sock = c
  BY ChunksAssumption DEF client_create, ClientT, Fresh, Udp2TcpState, Tcp2UdpState

\* A fresh client is steady, and no pass has anything to do for it.
LEMMA FreshIsGood ==
    ASSUME NEW k, Fresh(k)
    PROVE  Steady(k) /\ Settled(k)
  BY DEF Fresh, Steady, Settled, WaitsForAck, MustGo, Exhausted, ReadyToDisconnect, CanSend

\* client_disconnect_tcp after client_mark_to_disconnect.
LEMMA Eof ==
    ASSUME NEW k \in ClientT
    PROVE  /\ AtEof(k) \in ClientT
           /\ SameName(AtEof(k), k)
           /\ Steady(k) => Steady(AtEof(k))
  BY DEF AtEof, ClientT, SameName, Steady, WaitsForAck

\* client_recv_tcp_data, whether it queues the chunk or not.
LEMMA RecvTcp ==
    ASSUME NEW k \in ClientT, k.nread < MaxChunks, NEW l \in client_recv_tcp_data(k)
    PROVE  /\ l \in ClientT
           /\ SameName(l, k)
           /\ Steady(k) => Steady(l)
  <1>1. NextChunk(k) \in Chunk
    BY ChunksAssumption DEF NextChunk, Chunk, ClientT
  <1>2. k.nread + 1 \in 0 .. MaxChunks
    BY ChunksAssumption DEF ClientT
  <1>3. CASE l = Queued(k)
    <2>1. Append(k.tcp2udp_q, NextChunk(k)) \in Seq(Chunk)
      BY <1>1 DEF ClientT
    <2>2. Append(k.tcp2udp_q, NextChunk(k)) # <<>>
      BY <1>1 DEF ClientT
    <2> QED
      BY <1>2, <1>3, <2>1, <2>2 DEF Queued, ClientT, SameName, Steady, WaitsForAck
  <1>4. CASE l = Dropped(k)
    BY <1>2, <1>4 DEF Dropped, ClientT, SameName, Steady, WaitsForAck
  <1> QED
    BY <1>3, <1>4 DEF client_recv_tcp_data

\* client_send_udp_data leaves a client that is kept with nothing to do.
LEMMA Send ==
    ASSUME NEW k \in ClientT, Steady(k), ~ MustGo(k)
    PROVE  /\ AfterSend(k) \in ClientT
           /\ SameName(AfterSend(k), k)
           /\ Steady(AfterSend(k))
           /\ Settled(AfterSend(k))
  <1>1. CASE CanSend(k)
    BY <1>1 DEF AfterSend, CanSend, ClientT, Tcp2UdpState, SameName, Steady, Settled,
                MustGo, Exhausted, ReadyToDisconnect, WaitsForAck
  <1>2. CASE ~ CanSend(k)
    BY <1>2 DEF AfterSend, SameName, Settled
  <1> QED
    BY <1>1, <1>2

\* client_got_ack, for an ACK that is waited for and for any other.
LEMMA GotAck ==
    ASSUME NEW k \in ClientT, Steady(k), NEW type
    PROVE  /\ client_got_ack(k, type) \in ClientT
           /\ SameName(client_got_ack(k, type), k)
           /\ Steady(client_got_ack(k, type))
  <1>1. CASE IsExpectedAck(k, type)
    <2>1. WaitsForAck(k)
      BY <1>1 DEF IsExpectedAck, WaitsForAck
    <2>2. k.tcp2udp_q # <<>>
      BY <2>1 DEF Steady
    <2>3. Tail(k.tcp2udp_q) \in Seq(Chunk)
      BY <2>2 DEF ClientT
    <2> QED
      BY <1>1, <2>3 DEF client_got_ack, ClientT, Tcp2UdpState, SameName, Steady, WaitsForAck
  <1>2. CASE ~ IsExpectedAck(k, type)
    BY <1>2 DEF client_got_ack, SameName
  <1> QED
    BY <1>1, <1>2

\* client_got_helloack.
LEMMA GotHelloAck ==
    ASSUME NEW k \in ClientT
    PROVE  /\ client_got_helloack(k) \in ClientT
           /\ SameName(client_got_helloack(k), k)
           /\ Steady(k) => Steady(client_got_helloack(k))
           /\ Fresh(k) => Fresh(client_got_helloack(k))
  BY DEF client_got_helloack, ClientT, Udp2TcpState, SameName, Steady, WaitsForAck, Fresh

\* client_got_udp_data and client_send_tcp_data, for new data.
LEMMA Write ==
    ASSUME NEW k \in ClientT, NEW chunk \in Chunk
    PROVE  /\ AfterWrite(k, chunk) \in ClientT
           /\ SameName(AfterWrite(k, chunk), k)
           /\ Steady(k) => Steady(AfterWrite(k, chunk))
           /\ Fresh(k) => Fresh(AfterWrite(k, chunk))
  <1>1. Append(k.written, chunk) \in Seq(Chunk)
    BY DEF ClientT
  <1> QED
    BY <1>1 DEF AfterWrite, ClientT, Udp2TcpState, SameName, Steady, WaitsForAck, Fresh

\* client_got_udp_data and a client_send_tcp_data that fails.
LEMMA FailedWrite ==
    ASSUME NEW k \in ClientT
    PROVE  /\ AfterFailedWrite(k) \in ClientT
           /\ SameName(AfterFailedWrite(k), k)
           /\ Steady(k) => Steady(AfterFailedWrite(k))
  BY DEF AfterFailedWrite, ClientT, Udp2TcpState, SameName, Steady, WaitsForAck

\* client_check_and_resend on a client that is kept.
LEMMA Check ==
    ASSUME NEW k \in ClientT, Steady(k), WaitsForAck(k)
    PROVE  LET l == client_check_and_resend(k)
           IN  /\ l \in ClientT
               /\ SameName(l, k)
               /\ Steady(l)
               /\ ~ Exhausted(l) => Settled(l)
  BY ResendAssumption DEF client_check_and_resend, ClientT, SameName, Steady, Settled,
        WaitsForAck, Exhausted, MustGo, ReadyToDisconnect, CanSend

\* The messages the routines send are well-typed.
LEMMA Sends ==
    ASSUME NEW k \in ClientT, NEW type \in Data
    PROVE  /\ DataSent(k) \subseteq Message
           /\ Goodbye(k) \in Message
           /\ AckFor(k, type) \in Message
  <1>1. CanSend(k) => Head(k.tcp2udp_q) \in Chunk
    BY DEF CanSend, ClientT
  <1>2. DataSent(k) \subseteq Message
    BY <1>1 DEF DataSent, DataPacket, Message, Data, ClientT
  <1>3. Goodbye(k) \in Message
    BY DEF Goodbye, Packet, Message, MsgType, Data, Ack, ClientT
  <1>4. AckFor(k, type) \in Message
    BY DEF AckFor, Packet, Message, MsgType, Data, Ack, ClientT
  <1> QED
    BY <1>2, <1>3, <1>4

-----------------------------------------------------------------------------
(***************************************************************************)
(* The inductive invariant: the types; a pending client has not relayed    *)
(* anything; every other client is steady, and one of udpserver settled.   *)
(***************************************************************************)
Good(k) == Steady(k) /\ Settled(k)

NetOK ==
    /\ up \subseteq Message
    /\ down \subseteq Message
    /\ copies \in Nat

LocalOK ==
    /\ stage \in [Conn -> Stage]
    /\ local \in [Conn -> ClientT \union {NoClient}]
    /\ \A c \in Conn : Listed(c) => local[c] \in ClientT /\ local[c].udp_sock = c
    /\ \A c \in Conn : stage[c] = "pending" => Fresh(local[c])
    /\ \A c \in Conn : stage[c] = "open" => Steady(local[c])

RemoteOK ==
    /\ remote \in [Id -> ClientT \union {NoClient}]
    /\ \A i \in Id : remote[i] # NoClient =>
           remote[i] \in ClientT /\ remote[i].id = i /\ Good(remote[i])

CountersOK ==
    /\ next_req_id \in Id
    /\ next_client_id \in Nat
    /\ spinning \in BOOLEAN

IInv == NetOK /\ LocalOK /\ RemoteOK /\ CountersOK

(***************************************************************************)
(* The clients of udpclient are settled, too, as long as the lookup by id  *)
(* finds the right one: no open client has the id of another, and none is  *)
(* about to get it.                                                        *)
(***************************************************************************)
LocalSettled == \A c \in Conn : stage[c] = "open" => Settled(local[c])

Named(c, i) ==
    \/ stage[c] = "open" /\ local[c].id = i
    \/ \E p \in down : p.type = "HELLOACK" /\ p.conn = c /\ p.id = i

Apart == \A c \in Conn : \A i \in Id : Named(c, i) => ~ IdInUse(c, i)

\* The invariant implies the type invariant.
LEMMA IInvImplies == IInv => TypeOK
  BY DEF IInv, NetOK, LocalOK, RemoteOK, CountersOK, TypeOK, LocalTypeOK, RemoteTypeOK

\* With the other two, the passes leave nothing to do.
LEMMA SettledImplies == IInv /\ LocalSettled => Quiescent
  BY DEF IInv, LocalSettled, RemoteOK, Good, LocalClients, RemoteClients, Quiescent

\* Under Apart, disconnect_and_remove_client finds the client it is called for.
LEMMA FindsItsOwn ==
    ASSUME NEW c \in Conn, Listed(c), NEW k \in ClientT,
           Apart, stage[c] = "open" => Named(c, k.id)
    PROVE  Found(c, k) = {c}
  <1>1. k.id \in Id
    BY DEF ClientT
  <1> QED
    BY <1>1 DEF Apart, Found, IdInUse, Listed

\* What it does then.
LEMMA DisconnectsItsOwn ==
    ASSUME LocalOK, NEW c \in Conn, NEW k, NEW sent, Found(c, k) = {c},
           LocalDisconnect(c, k, sent)
    PROVE  /\ stage' = [stage EXCEPT ![c] = "closed"]
           /\ local' = [local EXCEPT ![c] = NoClient]
           /\ up' = up \union sent \union {Goodbye(k)}
  <1>1. Remove(c, c, k, sent)
    BY DEF LocalDisconnect
  <1> QED
    BY <1>1 DEF Remove, LocalOK

\* The messages udpclient sends at the end of an iteration.
LEMMA LocalSent ==
    ASSUME NEW c, NEW k, NEW sent, LocalGoOn(c, k, sent) \/ LocalDisconnect(c, k, sent)
    PROVE  \A p \in up' : p \in up \union sent \union DataSent(k) \/ p.type = "GOODBYE"
  <1>1. \A l : Goodbye(l).type = "GOODBYE"
    BY DEF Goodbye, Packet
  <1>2. LocalDisconnect(c, k, sent)
           => \E d : up' = up \union sent \union {Goodbye(IF d = c THEN k ELSE local[d])}
    BY DEF LocalDisconnect, Remove
  <1> QED
    BY <1>1, <1>2 DEF LocalGoOn, LocalPass, Promote

\* The outcomes of the end of a TCP stream: the last two are a wrong lookup.
LEMMA EofGives ==
    ASSUME NEW c \in Conn, local[c] \in ClientT, LocalTcpEof(c)
    PROVE  \/ LocalGoOn(c, AtEof(local[c]), {})
           \/ /\ Found(c, local[c]) # {c}
              /\ \/ LocalDisconnect(c, Marked(local[c]), {})
                 \/ \E d \in Conn \ {c} :
                       /\ stage[d] = "open"
                       /\ local' = [local EXCEPT ![c] = AfterSend(Marked(local[c])),
                                                 ![d].connected = FALSE]
                       /\ up' = up \union DataSent(Marked(local[c]))
                       /\ UNCHANGED stage
  <1>1. CASE LocalGoOn(c, AtEof(local[c]), {})
    BY <1>1
  <1>2. ASSUME NEW d \in Found(c, local[c]), d # c, EofElsewhere(c, d)
        PROVE  /\ Found(c, local[c]) # {c}
               /\ \/ LocalDisconnect(c, Marked(local[c]), {})
                  \/ /\ d \in Conn \ {c}
                     /\ stage[d] = "open"
                     /\ local' = [local EXCEPT ![c] = AfterSend(Marked(local[c])),
                                               ![d].connected = FALSE]
                     /\ up' = up \union DataSent(Marked(local[c]))
                     /\ UNCHANGED stage
    <2>1. d \in Conn \ {c} /\ stage[d] = "open" /\ stage[c] # "pending"
      BY <1>2 DEF Found
    <2>2. MustGo(Marked(local[c])) => d \in Found(c, Marked(local[c]))
      <3>1. local[d].id = local[c].id
        BY <1>2, <2>1 DEF Found
      <3>2. Marked(local[c]).id = local[c].id
        BY DEF Marked, ClientT
      <3> QED
        BY <2>1, <3>1, <3>2 DEF Found
    <2> QED
      BY <1>2, <2>1, <2>2 DEF EofElsewhere, LocalDisconnect
  <1> QED
    BY <1>1, <1>2 DEF LocalTcpEof

\* The initial states satisfy the invariant.
LEMMA InitIInv == Init => IInv
  <1> SUFFICES ASSUME Init PROVE IInv
    OBVIOUS
  <1>1. NetOK
    BY DEF Init, NetInit, NetOK
  <1>2. LocalOK
    BY DEF Init, LocalInit, LocalOK, Stage, Listed
  <1>3. RemoteOK
    BY DEF Init, RemoteInit, RemoteOK
  <1>4. CountersOK
    <2>1. next_req_id \in 0 .. (IdMod - 2)
      BY DEF Init, LocalInit
    <2>2. next_req_id \in Id
      BY <2>1, IdModAssumption DEF Id
    <2>3. next_client_id = 1 /\ spinning = FALSE
      BY DEF Init, RemoteInit
    <2> QED
      BY <2>2, <2>3 DEF CountersOK
  <1> QED
    BY <1>1, <1>2, <1>3, <1>4 DEF IInv

-----------------------------------------------------------------------------
(* What the network does.                                                  *)

\* The fields of a message have the types the handlers rely on.
LEMMA MessageFields ==
    ASSUME NEW p \in Message
    PROVE  /\ p.conn \in Conn
           /\ p.id \in Id
           /\ p.type \in Data => p.chunk \in Chunk
  BY DEF Message

\* The messages of the handshake are well-typed.
LEMMA HandshakeMessages ==
    ASSUME NEW c \in Conn, NEW i \in Id, NEW type \in {"HELLO", "HELLOACK", "GOODBYE"}
    PROVE  Packet(c, i, type) \in Message
  BY DEF Packet, Message, MsgType, Data, Ack

\* Delivering a packet leaves the network well-typed.
LEMMA Delivery ==
    ASSUME NEW net, net \subseteq Message, NEW p, NEW rest, copies \in Nat, Deliver(net, p, rest)
    PROVE  p \in Message /\ rest \subseteq Message /\ copies' \in Nat
  BY DEF Deliver, Deliverable

-----------------------------------------------------------------------------
(* udpclient: what its list of clients looks like after each outcome of a  *)
(* handler.                                                                *)

\* What the lemmas say of an outcome; found says that the lookup is right.
LocalKept(found) ==
    /\ LocalOK'
    /\ up' \subseteq Message
    /\ found /\ LocalSettled => LocalSettled'

LEMMA RemoveOK ==
    ASSUME LocalOK, up \subseteq Message, NEW c \in Conn, Listed(c),
           NEW k \in ClientT, k.udp_sock = c, stage[c] = "open" => Steady(k),
           NEW sent \in SUBSET Message, NEW d \in Found(c, k), Remove(c, d, k, sent)
    PROVE  LocalKept(Found(c, k) = {c})
  <1>1. d \in Conn /\ (d # c => stage[d] = "open" /\ stage[c] = "open")
    BY DEF Found, Listed
  <1>2. Goodbye(IF d = c THEN k ELSE local[d]) \in Message
    BY <1>1, Sends DEF Data, LocalOK, Listed
  <1>3. up' \subseteq Message
    BY <1>2 DEF Remove
  <1>4. /\ stage' = [stage EXCEPT ![d] = "closed"]
        /\ local' = [[local EXCEPT ![c] = k] EXCEPT ![d] = NoClient]
    BY DEF Remove
  <1>5. LocalOK'
    BY <1>1, <1>4 DEF LocalOK, Stage, Listed
  <1>6. Found(c, k) = {c} /\ LocalSettled => LocalSettled'
    BY <1>1, <1>4 DEF LocalSettled, LocalOK
  <1> QED
    BY <1>3, <1>5, <1>6 DEF LocalKept

LEMMA LocalDisconnectOK ==
    ASSUME LocalOK, up \subseteq Message, NEW c \in Conn, Listed(c),
           NEW k \in ClientT, k.udp_sock = c, stage[c] = "open" => Steady(k),
           NEW sent \in SUBSET Message, LocalDisconnect(c, k, sent)
    PROVE  LocalKept(Found(c, k) = {c})
  BY RemoveOK DEF LocalDisconnect

LEMMA LocalPassOK ==
    ASSUME LocalOK, up \subseteq Message, NEW c \in Conn, NEW k \in ClientT,
           NEW sent \in SUBSET Message, stage[c] = "open", k.udp_sock = c, Steady(k),
           LocalPass(c, k, sent)
    PROVE  LocalKept(Found(c, k) = {c})
  <1>1. CASE MustGo(k)
    BY <1>1, LocalDisconnectOK DEF LocalPass, Listed
  <1>2. CASE ~ MustGo(k)
    <2>1. /\ AfterSend(k) \in ClientT
          /\ AfterSend(k).udp_sock = c
          /\ Steady(AfterSend(k))
          /\ Settled(AfterSend(k))
      BY <1>2, Send DEF SameName
    <2>2. DataSent(k) \subseteq Message
      BY Sends DEF Data
    <2>3. /\ local' = [local EXCEPT ![c] = AfterSend(k)]
          /\ up' = up \union sent \union DataSent(k)
          /\ stage' = stage
      BY <1>2 DEF LocalPass
    <2>4. LocalOK' /\ (LocalSettled => LocalSettled')
      BY <2>1, <2>3 DEF LocalOK, LocalSettled, Listed
    <2> QED
      BY <2>2, <2>3, <2>4 DEF LocalKept
  <1> QED
    BY <1>1, <1>2

LEMMA PromoteOK ==
    ASSUME LocalOK, up \subseteq Message, NEW c \in Conn, NEW k \in ClientT,
           NEW sent \in SUBSET Message, k.udp_sock = c, Fresh(k), Promote(c, k, sent)
    PROVE  LocalKept(TRUE)
  <1>1. Steady(k) /\ Settled(k)
    BY FreshIsGood
  <1>2. up' \subseteq Message
    BY DEF Promote
  <1>3. LocalOK' /\ (LocalSettled => LocalSettled')
    BY <1>1 DEF LocalOK, LocalSettled, Promote, Stage, Listed
  <1> QED
    BY <1>2, <1>3 DEF LocalKept

LEMMA LocalGoOnOK ==
    ASSUME LocalOK, up \subseteq Message, NEW c \in Conn, NEW k \in ClientT,
           NEW sent \in SUBSET Message, k.udp_sock = c,
           stage[c] = "pending" => Fresh(k), stage[c] = "open" => Steady(k),
           LocalGoOn(c, k, sent)
    PROVE  LocalKept(Found(c, k) = {c})
  BY LocalPassOK, PromoteOK DEF LocalGoOn, LocalKept

\* A client whose socket is read is well-typed, and fresh while it is pending.
LEMMA ListedClient ==
    ASSUME LocalOK, NEW c \in Conn, Listed(c)
    PROVE  /\ local[c] \in ClientT
           /\ local[c].udp_sock = c
           /\ stage[c] = "pending" => Fresh(local[c])
           /\ Steady(local[c])
  BY FreshIsGood DEF LocalOK, Listed

\* Giving a client the id of a HELLOACK, or marking it connected.
LEMMA Updates ==
    ASSUME NEW k \in ClientT, NEW i \in Id
    PROVE  /\ [k EXCEPT !.id = i] \in ClientT
           /\ [k EXCEPT !.id = i].udp_sock = k.udp_sock
           /\ Steady(k) => Steady([k EXCEPT !.id = i])
           /\ Fresh(k) => Fresh([k EXCEPT !.id = i])
           /\ [k EXCEPT !.connected = TRUE] \in ClientT
           /\ SameName([k EXCEPT !.connected = TRUE], k)
           /\ Steady(k) => Steady([k EXCEPT !.connected = TRUE])
  BY DEF ClientT, Steady, WaitsForAck, Fresh, SameName

\* What a handler of udpclient finds when it was given a packet.
LEMMA LocalRecvGives ==
    ASSUME NetOK, LocalOK, NEW c \in Conn, NEW p, LocalRecv(c, p)
    PROVE  /\ p \in Message
           /\ down' \subseteq Message /\ copies' \in Nat
           /\ Listed(c)
           /\ next_req_id' = next_req_id
  <1>1. Deliver(down, p, down')
    BY DEF LocalRecv
  <1>2. p \in Message /\ down' \subseteq Message /\ copies' \in Nat
    BY <1>1, Delivery DEF NetOK
  <1> QED
    BY <1>2 DEF LocalRecv

-----------------------------------------------------------------------------
(* Every iteration of udpclient preserves what concerns udpclient and the  *)
(* network.                                                                *)

LocalSide == NetOK /\ LocalOK /\ next_req_id \in Id

LEMMA AcceptOK ==
    ASSUME LocalSide, NEW c \in Conn, Accept(c)
    PROVE  LocalSide' /\ (LocalSettled => LocalSettled')
  <1> DEFINE k == client_create(next_req_id, c, TRUE, 0)
  <1>1. k \in ClientT /\ Fresh(k) /\ k.udp_sock = c
    <2>1. next_req_id \in Id /\ TRUE \in BOOLEAN /\ 0 \in Nat
      BY DEF LocalSide
    <2> QED
      BY <2>1, Create
  <1>2. 0 \in Id /\ next_req_id' \in Id
    BY IdModAssumption DEF Accept, Id, LocalSide
  <1>3. Packet(c, 0, "HELLO") \in Message
    BY <1>2, HandshakeMessages
  <1>4. NetOK'
    BY <1>3 DEF Accept, NetOK, LocalSide
  <1>5. /\ stage' = [stage EXCEPT ![c] = "pending"]
        /\ local' = [local EXCEPT ![c] = k]
    BY DEF Accept
  <1> HIDE DEF k
  <1>6. LocalOK' /\ (LocalSettled => LocalSettled')
    BY <1>1, <1>5 DEF LocalOK, LocalSide, LocalSettled, Stage, Listed
  <1> QED
    BY <1>2, <1>4, <1>6 DEF LocalSide

LEMMA LocalReceiveOK ==
    ASSUME LocalSide, NEW c \in Conn, LocalReceive(c)
    PROVE  LocalSide' /\ (Apart /\ LocalSettled => LocalSettled')
  <1>1. PICK p \in down :
            \/ LocalRecvGoodbye(c, p)
            \/ LocalRecvHelloAck(c, p)
            \/ LocalRecvData(c, p)
            \/ LocalRecvAck(c, p)
    BY DEF LocalReceive
  <1>2. LocalRecv(c, p)
    BY <1>1 DEF LocalRecvGoodbye, LocalRecvHelloAck, LocalRecvData, LocalRecvAck
  <1>3. /\ p \in Message
        /\ down' \subseteq Message /\ copies' \in Nat
        /\ next_req_id' \in Id
        /\ Listed(c)
    BY <1>2, LocalRecvGives DEF LocalSide
  <1>4. /\ local[c] \in ClientT
        /\ local[c].udp_sock = c
        /\ stage[c] = "pending" => Fresh(local[c])
        /\ Steady(local[c])
        /\ stage[c] = "open" => Named(c, local[c].id)
    BY <1>3, ListedClient DEF LocalSide, Named
  <1>5. p.id \in Id /\ (p.type \in Data => p.chunk \in Chunk)
    BY <1>3, MessageFields
  <1>6. LocalOK /\ up \subseteq Message /\ {} \in SUBSET Message
    BY DEF LocalSide, NetOK
  <1> SUFFICES LocalKept(Apart)
    BY <1>3 DEF LocalKept, LocalSide, NetOK
  <1>7. ASSUME NEW k \in ClientT, k.udp_sock = c, stage[c] = "open" => Steady(k),
                stage[c] = "open" => Named(c, k.id),
                NEW sent \in SUBSET Message,
                \/ LocalDisconnect(c, k, sent)
                \/ (stage[c] = "pending" => Fresh(k)) /\ LocalGoOn(c, k, sent)
         PROVE  LocalKept(Apart)
    <2>1. LocalKept(Found(c, k) = {c})
      BY <1>3, <1>6, <1>7, LocalDisconnectOK, LocalGoOnOK
    <2>2. Apart => Found(c, k) = {c}
      BY <1>3, <1>7, FindsItsOwn
    <2> QED
      BY <2>1, <2>2 DEF LocalKept
  <1>8. CASE LocalRecvGoodbye(c, p)
    BY <1>4, <1>6, <1>8, <1>7 DEF LocalRecvGoodbye
  <1>9. CASE LocalRecvHelloAck(c, p)
    <2> DEFINE k == [client_got_helloack(local[c]) EXCEPT !.id = p.id]
    <2>1. /\ k \in ClientT
          /\ k.udp_sock = c
          /\ stage[c] = "pending" => Fresh(k)
          /\ Steady(k)
      BY <1>4, <1>5, GotHelloAck, Updates DEF SameName
    <2>2. {Packet(c, p.id, "HELLOACK")} \in SUBSET Message
      BY <1>5, HandshakeMessages
    <2>3. LocalGoOn(c, k, {Packet(c, p.id, "HELLOACK")})
      BY <1>9 DEF LocalRecvHelloAck
    <2>4. Named(c, k.id)
      <3>1. k.id = p.id
        BY <1>4, GotHelloAck DEF ClientT
      <3>2. p \in down /\ p.type = "HELLOACK" /\ p.conn = c
        BY <1>9 DEF LocalRecvHelloAck, LocalRecv
      <3> QED
        BY <3>1, <3>2 DEF Named
    <2> HIDE DEF k
    <2> QED
      BY <2>1, <2>2, <2>3, <2>4, <1>7
  <1>10. CASE LocalRecvData(c, p)
    <2> DEFINE k == local[c]
               ack == {AckFor(k, p.type)}
    <2>1. p.type \in Data /\ p.chunk \in Chunk
      BY <1>5, <1>10 DEF LocalRecvData
    <2>2. ack \in SUBSET Message
      BY <1>4, <2>1, Sends
    <2>3. LocalGoOn(c, k, ack) => LocalKept(Apart)
      BY <1>4, <2>2, <1>7
    <2>4. LocalGoOn(c, AfterWrite(k, p.chunk), ack) => LocalKept(Apart)
      <3>1. /\ AfterWrite(k, p.chunk) \in ClientT
            /\ SameName(AfterWrite(k, p.chunk), k)
            /\ stage[c] = "pending" => Fresh(AfterWrite(k, p.chunk))
            /\ Steady(AfterWrite(k, p.chunk))
        BY <1>4, <2>1, Write
      <3> QED
        BY <1>4, <2>2, <3>1, <1>7 DEF SameName
    <2>5. LocalDisconnect(c, AfterFailedWrite(k), ack) => LocalKept(Apart)
      <3>1. /\ AfterFailedWrite(k) \in ClientT
            /\ SameName(AfterFailedWrite(k), k)
            /\ Steady(AfterFailedWrite(k))
        BY <1>4, FailedWrite
      <3> QED
        BY <1>4, <2>2, <3>1, <1>7 DEF SameName
    <2> QED
      BY <1>10, <2>3, <2>4, <2>5 DEF LocalRecvData
  <1>11. CASE LocalRecvAck(c, p)
    <2> DEFINE k == client_got_ack(local[c], p.type)
    <2>1. IsExpectedAck(local[c], p.type) /\ LocalGoOn(c, k, {})
             => LocalKept(Apart)
      <3>1. IsExpectedAck(local[c], p.type) => ~ Fresh(local[c])
        BY DEF IsExpectedAck, Fresh
      <3>2. k \in ClientT /\ SameName(k, local[c]) /\ Steady(k)
        BY <1>4, GotAck
      <3> HIDE DEF k
      <3> QED
        BY <1>4, <1>6, <3>1, <3>2, <1>7 DEF SameName
    <2>2. LocalDisconnect(c, local[c], {}) => LocalKept(Apart)
      BY <1>4, <1>6, <1>7
    <2> QED
      BY <1>11, <2>1, <2>2 DEF LocalRecvAck
  <1> QED
    BY <1>1, <1>8, <1>9, <1>10, <1>11

\* The bound on what udpclient reads keeps a client_t in its type.
LEMMA LocalMayRead ==
    ASSUME NEW c \in Conn, local[c] \in ClientT, LocalTcpData(c)
    PROVE  local[c].nread < MaxChunks
  BY ChunksAssumption, LocalChunksAssumption DEF LocalTcpData, ClientT

LEMMA EofElsewhereOK ==
    ASSUME LocalOK, up \subseteq Message, NEW c \in Conn, stage[c] = "open",
           NEW d \in Found(c, local[c]), d # c, EofElsewhere(c, d)
    PROVE  LocalOK' /\ up' \subseteq Message
  <1> DEFINE k == Marked(local[c])
  <1>1. d \in Conn /\ stage[d] = "open"
    BY DEF Found
  <1>2. /\ local[c] \in ClientT /\ local[c].udp_sock = c /\ Steady(local[c])
        /\ local[d] \in ClientT /\ local[d].udp_sock = d /\ Steady(local[d])
    BY <1>1 DEF LocalOK, Listed
  <1>3. /\ k \in ClientT /\ k.udp_sock = c /\ k.id = local[c].id
        /\ Steady(k)
    BY <1>2 DEF Marked, ClientT, Steady, WaitsForAck
  <1>4. CASE MustGo(k)
    <2>1. Remove(c, d, k, {})
      BY <1>4 DEF EofElsewhere
    <2>2. d \in Found(c, k) /\ {} \in SUBSET Message /\ Listed(c)
      BY <1>3 DEF Found, Listed
    <2> HIDE DEF k
    <2>3. LocalKept(Found(c, k) = {c})
      BY <1>3, <2>1, <2>2, RemoveOK
    <2> QED
      BY <2>3 DEF LocalKept
  <1>5. CASE ~ MustGo(k)
    <2> DEFINE m == [local[d] EXCEPT !.connected = FALSE]
    <2>1. m \in ClientT /\ m.udp_sock = d /\ Steady(m)
      BY <1>2 DEF ClientT, Steady, WaitsForAck
    <2>2. /\ AfterSend(k) \in ClientT
          /\ AfterSend(k).udp_sock = c
          /\ Steady(AfterSend(k))
          /\ DataSent(k) \subseteq Message
      <3> HIDE DEF k
      <3> QED
        BY <1>3, <1>5, Send, Sends DEF SameName, Data
    <2>3. /\ local' = [local EXCEPT ![c] = AfterSend(k), ![d].connected = FALSE]
          /\ up' = up \union DataSent(k)
          /\ stage' = stage
      BY <1>5 DEF EofElsewhere
    <2>4. local' = [local EXCEPT ![c] = AfterSend(k), ![d] = m]
      BY <1>1, <2>3 DEF LocalOK
    <2> HIDE DEF k, m
    <2>5. /\ local' \in [Conn -> ClientT \union {NoClient}]
          /\ local'[c] = AfterSend(k) /\ local'[d] = m
          /\ \A e \in Conn \ {c, d} : local'[e] = local[e]
      BY <1>1, <2>1, <2>2, <2>4 DEF LocalOK
    <2>6. LocalOK'
      BY <1>1, <2>1, <2>2, <2>3, <2>5 DEF LocalOK, Listed
    <2> QED
      BY <2>2, <2>3, <2>6
  <1> QED
    BY <1>4, <1>5

LEMMA LocalTcpOK ==
    ASSUME LocalSide, NEW c \in Conn, LocalTcp(c)
    PROVE  LocalSide' /\ (Apart /\ LocalSettled => LocalSettled')
  <1>1. /\ stage[c] = "open"
        /\ down' = down /\ copies' = copies /\ next_req_id' = next_req_id
    BY DEF LocalTcp, LocalTcpData, LocalTcpEof, LocalTcpError
  <1>2. LocalOK /\ up \subseteq Message /\ {} \in SUBSET Message
    BY DEF LocalSide, NetOK
  <1>3. /\ local[c] \in ClientT
        /\ local[c].udp_sock = c
        /\ Steady(local[c])
        /\ Named(c, local[c].id)
    BY <1>1, <1>2, ListedClient DEF Listed, Named
  <1>4. ASSUME NEW k \in ClientT, SameName(k, local[c]), Steady(k),
               LocalGoOn(c, k, {}) \/ LocalDisconnect(c, k, {})
        PROVE  LocalKept(Apart)
    <2>1. LocalKept(Found(c, k) = {c})
      BY <1>1, <1>2, <1>3, <1>4, LocalGoOnOK, LocalDisconnectOK DEF SameName, Listed
    <2>2. Apart => Found(c, k) = {c}
      BY <1>1, <1>3, <1>4, FindsItsOwn DEF SameName, Listed
    <2> QED
      BY <2>1, <2>2 DEF LocalKept
  <1>5. LocalTcpData(c) => LocalKept(Apart)
    BY <1>3, <1>4, RecvTcp, LocalMayRead DEF LocalTcpData
  <1>6. LocalTcpEof(c) => LocalKept(Apart)
    <2>1. ASSUME NEW d \in Found(c, local[c]), d # c, EofElsewhere(c, d)
          PROVE  LocalKept(Apart)
      <3>1. ~ Apart
        BY <1>1, <1>3, <2>1, FindsItsOwn DEF Listed
      <3> QED
        BY <1>1, <1>2, <2>1, <3>1, EofElsewhereOK DEF LocalKept
    <2>2. LocalGoOn(c, AtEof(local[c]), {}) => LocalKept(Apart)
      BY <1>3, <1>4, Eof
    <2> QED
      BY <2>1, <2>2 DEF LocalTcpEof
  <1>7. LocalTcpError(c) => LocalKept(Apart)
    BY <1>3, <1>4 DEF LocalTcpError, SameName
  <1>8. LocalKept(Apart)
    BY <1>5, <1>6, <1>7 DEF LocalTcp
  <1> QED
    BY <1>1, <1>8 DEF LocalKept, LocalSide, NetOK

LEMMA LocalCheckOK ==
    ASSUME LocalSide, NEW c \in Conn, LocalCheck(c)
    PROVE  LocalSide' /\ (Apart /\ LocalSettled => LocalSettled')
  <1> DEFINE k == client_check_and_resend(local[c])
  <1>1. /\ stage[c] = "open"
        /\ WaitsForAck(local[c])
        /\ down' = down /\ copies' = copies /\ next_req_id' = next_req_id
    BY DEF LocalCheck, TimeoutIsUp
  <1>2. LocalOK /\ up \subseteq Message /\ {} \in SUBSET Message
    BY DEF LocalSide, NetOK
  <1>3. /\ local[c] \in ClientT
        /\ local[c].udp_sock = c
        /\ Steady(local[c])
    BY <1>1, <1>2, ListedClient DEF Listed
  <1>4. /\ k \in ClientT /\ k.udp_sock = c /\ k.id = local[c].id
        /\ Steady(k) /\ (~ Exhausted(k) => Settled(k))
    BY <1>1, <1>3, Check DEF SameName
  <1>5. \/ LocalDisconnect(c, k, {})
        \/ /\ ~ Exhausted(k)
           /\ local' = [local EXCEPT ![c] = k]
           /\ stage' = stage /\ up' = up
    BY DEF LocalCheck
  <1> HIDE DEF k
  <1>6. CASE LocalDisconnect(c, k, {})
    <2>1. LocalKept(Found(c, k) = {c})
      BY <1>1, <1>2, <1>4, <1>6, LocalDisconnectOK DEF Listed
    <2>2. Apart => Found(c, k) = {c}
      BY <1>1, <1>4, FindsItsOwn DEF Named, Listed
    <2> QED
      BY <1>1, <2>1, <2>2 DEF LocalKept, LocalSide, NetOK
  <1>7. CASE /\ ~ Exhausted(k)
             /\ local' = [local EXCEPT ![c] = k]
             /\ stage' = stage /\ up' = up
    <2>1. LocalOK' /\ (LocalSettled => LocalSettled')
      BY <1>1, <1>2, <1>4, <1>7 DEF LocalOK, LocalSettled, Listed
    <2> QED
      BY <1>1, <1>7, <2>1 DEF LocalSide, NetOK
  <1> QED
    BY <1>5, <1>6, <1>7

LEMMA LocalNextOK ==
    ASSUME LocalSide, LocalNext
    PROVE  LocalSide' /\ (Apart /\ LocalSettled => LocalSettled')
  <1>1. ASSUME NEW p \in down, DropStray(p)
        PROVE  LocalSide' /\ (LocalSettled => LocalSettled')
    BY <1>1 DEF DropStray, localVars, LocalSide, LocalOK, LocalSettled, NetOK, Listed
  <1> QED
    BY <1>1, AcceptOK, LocalReceiveOK, LocalTcpOK, LocalCheckOK DEF LocalNext

-----------------------------------------------------------------------------
(* udpserver, in the same way.                                             *)

RemoteSide ==
    /\ NetOK
    /\ RemoteOK
    /\ next_client_id \in Nat
    /\ spinning \in BOOLEAN

LEMMA RemoteDisconnectOK ==
    ASSUME RemoteOK, down \subseteq Message, NEW i \in Id, NEW k \in ClientT,
           NEW sent \in SUBSET Message, RemoteDisconnect(i, k, sent)
    PROVE  RemoteOK' /\ down' \subseteq Message
  <1>1. Goodbye(k) \in Message
    BY Sends DEF Data
  <1>2. down' \subseteq Message
    BY <1>1 DEF RemoteDisconnect
  <1>3. RemoteOK'
    BY DEF RemoteOK, RemoteDisconnect
  <1> QED
    BY <1>2, <1>3

LEMMA RemotePassOK ==
    ASSUME RemoteOK, down \subseteq Message, NEW i \in Id, NEW k \in ClientT,
           NEW sent \in SUBSET Message, k.id = i, Steady(k), RemotePass(i, k, sent)
    PROVE  RemoteOK' /\ down' \subseteq Message
  <1>1. CASE MustGo(k)
    BY <1>1, RemoteDisconnectOK DEF RemotePass
  <1>2. CASE ~ MustGo(k)
    <2>1. /\ AfterSend(k) \in ClientT
          /\ AfterSend(k).id = i
          /\ Good(AfterSend(k))
      BY <1>2, Send DEF SameName, Good
    <2>2. DataSent(k) \subseteq Message
      BY Sends DEF Data
    <2>3. /\ remote' = [remote EXCEPT ![i] = AfterSend(k)]
          /\ down' = down \union sent \union DataSent(k)
      BY <1>2 DEF RemotePass
    <2>4. RemoteOK'
      BY <2>1, <2>3 DEF RemoteOK
    <2> QED
      BY <2>2, <2>3, <2>4
  <1> QED
    BY <1>1, <1>2

\* A client the server finds in its list.
LEMMA RemoteClient ==
    ASSUME RemoteOK, NEW i \in Id, remote[i] # NoClient
    PROVE  /\ remote[i] \in ClientT
           /\ remote[i].id = i
           /\ Good(remote[i])
           /\ Steady(remote[i])
  BY DEF RemoteOK, Good

\* The id of the next client is a 16-bit one, whatever the counter is.
LEMMA ModInId ==
    ASSUME NEW n \in Nat
    PROVE  n % IdMod \in Id
  BY IdModAssumption DEF Id

LEMMA RemoteRecvGives ==
    ASSUME RemoteSide, NEW p, RemoteRecv(p)
    PROVE  /\ p \in Message
           /\ up' \subseteq Message /\ copies' \in Nat
           /\ spinning' = spinning
  <1>1. Deliver(up, p, up')
    BY DEF RemoteRecv
  <1>2. p \in Message /\ up' \subseteq Message /\ copies' \in Nat
    BY <1>1, Delivery DEF RemoteSide, NetOK
  <1> QED
    BY <1>2 DEF RemoteRecv

LEMMA RemoteRecvHelloOK ==
    ASSUME RemoteSide, NEW p, RemoteRecvHello(p)
    PROVE  RemoteSide'
  <1>1. /\ p \in Message
        /\ up' \subseteq Message /\ copies' \in Nat
        /\ spinning' \in BOOLEAN
    BY RemoteRecvGives DEF RemoteRecvHello, RemoteSide
  <1>2. p.conn \in Conn
    BY <1>1, MessageFields
  <1> DEFINE c == p.conn
             k == Entry(c)
  <1>3. NewId \in Id /\ (next_client_id + 1) % IdMod \in Id
    BY ModInId DEF NewId, RemoteSide
  <1>4. k \in ClientT /\ k.id = NewId /\ Good(k)
    <2>1. CASE remote[NewId] = NoClient
      <3>1. k = client_create(NewId, c, FALSE, next_client_id)
        BY <2>1 DEF Entry
      <3>2. FALSE \in BOOLEAN /\ next_client_id \in Nat
        BY DEF RemoteSide
      <3> DEFINE new == client_create(NewId, c, FALSE, next_client_id)
      <3>3. new \in ClientT /\ Fresh(new) /\ new.id = NewId
        BY <1>2, <1>3, <3>2, Create
      <3> HIDE DEF new
      <3> QED
        BY <3>1, <3>3, FreshIsGood DEF Good, new
    <2>2. CASE remote[NewId] # NoClient
      BY <1>3, <2>2, RemoteClient DEF Entry, RemoteSide
    <2> QED
      BY <2>1, <2>2
  <1>5. HelloReply(c) \in Message
    BY <1>2, <1>3, <1>4, HandshakeMessages DEF HelloReply, ClientT
  <1>6. \/ UNCHANGED <<remote, next_client_id, down>>
        \/ /\ next_client_id' = next_client_id + 1
           /\ remote' = [remote EXCEPT ![NewId] = k]
           /\ down' = down \union {HelloReply(c)}
    BY DEF RemoteRecvHello
  <1> HIDE DEF k, c
  <1>7. RemoteOK' /\ down' \subseteq Message /\ next_client_id' \in Nat
    BY <1>3, <1>4, <1>5, <1>6 DEF RemoteSide, RemoteOK, NetOK
  <1> QED
    BY <1>1, <1>7 DEF RemoteSide, NetOK

\* A message that handle_message finds a client for.
LEMMA RemoteRecvForOK ==
    ASSUME RemoteSide, NEW p,
           \/ RemoteRecvHelloAck(p)
           \/ RemoteRecvGoodbye(p)
           \/ RemoteRecvData(p)
           \/ RemoteRecvAck(p)
    PROVE  RemoteSide'
  <1>1. RemoteRecvFor(p)
    BY DEF RemoteRecvHelloAck, RemoteRecvGoodbye, RemoteRecvData, RemoteRecvAck
  <1>2. /\ p \in Message
        /\ up' \subseteq Message /\ copies' \in Nat
        /\ spinning' \in BOOLEAN
        /\ next_client_id' = next_client_id
    BY <1>1, RemoteRecvGives DEF RemoteRecvFor, RemoteSide
  <1>3. p.id \in Id /\ (p.type \in Data => p.chunk \in Chunk)
    BY <1>2, MessageFields
  <1>4. /\ remote[p.id] \in ClientT
        /\ remote[p.id].id = p.id
        /\ Steady(remote[p.id])
    BY <1>1, <1>3, RemoteClient DEF RemoteRecvFor, RemoteSide
  <1>5. RemoteOK /\ down \subseteq Message
    BY DEF RemoteSide, NetOK
  <1>6. {} \in SUBSET Message
    OBVIOUS
  <1>7. RemoteDisconnect(p.id, remote[p.id], {}) => RemoteOK' /\ down' \subseteq Message
    BY <1>3, <1>4, <1>5, <1>6, RemoteDisconnectOK
  <1>8. RemoteRecvHelloAck(p) => RemoteOK' /\ down' \subseteq Message
    <2> DEFINE k == [client_got_helloack(remote[p.id]) EXCEPT !.connected = TRUE]
    <2>1. k \in ClientT /\ k.id = p.id /\ Steady(k)
      BY <1>3, <1>4, GotHelloAck, Updates DEF SameName
    <2>2. RemoteRecvHelloAck(p)
             => RemoteDisconnect(p.id, remote[p.id], {}) \/ RemotePass(p.id, k, {})
      BY DEF RemoteRecvHelloAck
    <2> HIDE DEF k
    <2>3. RemotePass(p.id, k, {}) => RemoteOK' /\ down' \subseteq Message
      BY <1>3, <1>5, <1>6, <2>1, RemotePassOK
    <2> QED
      BY <1>7, <2>2, <2>3
  <1>9. RemoteRecvGoodbye(p) => RemoteOK' /\ down' \subseteq Message
    BY <1>7 DEF RemoteRecvGoodbye
  <1>10. RemoteRecvData(p) => RemoteOK' /\ down' \subseteq Message
    <2> SUFFICES ASSUME RemoteRecvData(p)
                 PROVE  RemoteOK' /\ down' \subseteq Message
      OBVIOUS
    <2> DEFINE k == remote[p.id]
               ack == {AckFor(k, p.type)}
    <2>1. p.type \in Data /\ p.chunk \in Chunk
      BY <1>3 DEF RemoteRecvData
    <2>2. ack \in SUBSET Message
      BY <1>4, <2>1, Sends
    <2>3. CASE RemotePass(p.id, k, ack)
      BY <1>3, <1>4, <1>5, <2>2, <2>3, RemotePassOK
    <2>4. CASE RemotePass(p.id, AfterWrite(k, p.chunk), ack)
      <3>1. /\ AfterWrite(k, p.chunk) \in ClientT
            /\ AfterWrite(k, p.chunk).id = p.id
            /\ Steady(AfterWrite(k, p.chunk))
        BY <1>4, <2>1, Write DEF SameName
      <3> QED
        BY <1>3, <1>5, <2>2, <2>4, <3>1, RemotePassOK
    <2>5. CASE RemoteDisconnect(p.id, k, ack)
      BY <1>3, <1>4, <1>5, <2>2, <2>5, RemoteDisconnectOK
    <2> QED
      BY <2>3, <2>4, <2>5 DEF RemoteRecvData
  <1>11. RemoteRecvAck(p) => RemoteOK' /\ down' \subseteq Message
    <2> DEFINE k == client_got_ack(remote[p.id], p.type)
    <2>1. k \in ClientT /\ k.id = p.id /\ Steady(k)
      BY <1>4, GotAck DEF SameName
    <2>2. RemoteRecvAck(p) => RemotePass(p.id, k, {})
      BY DEF RemoteRecvAck
    <2> HIDE DEF k
    <2>3. RemotePass(p.id, k, {}) => RemoteOK' /\ down' \subseteq Message
      BY <1>3, <1>5, <1>6, <2>1, RemotePassOK
    <2> QED
      BY <2>2, <2>3
  <1>12. RemoteOK' /\ down' \subseteq Message
    BY <1>8, <1>9, <1>10, <1>11
  <1> QED
    BY <1>2, <1>12 DEF RemoteSide, NetOK

LEMMA RemoteIgnoreOK ==
    ASSUME RemoteSide, NEW p, RemoteIgnore(p)
    PROVE  RemoteSide'
  <1>1. /\ up' \subseteq Message /\ copies' \in Nat
        /\ spinning' \in BOOLEAN
    BY RemoteRecvGives DEF RemoteIgnore, RemoteSide
  <1>2. remote' = remote /\ next_client_id' = next_client_id /\ down' = down
    BY DEF RemoteIgnore
  <1> QED
    BY <1>1, <1>2 DEF RemoteSide, RemoteOK, NetOK

LEMMA RemoteTcpOK ==
    ASSUME RemoteSide, NEW i \in Id, RemoteTcp(i)
    PROVE  RemoteSide'
  <1>1. /\ remote[i] # NoClient
        /\ UNCHANGED <<up, copies, next_client_id, spinning>>
    BY DEF RemoteTcp, RemoteTcpData, RemoteTcpEof, RemoteTcpError
  <1>2. RemoteOK /\ down \subseteq Message
    BY DEF RemoteSide, NetOK
  <1>3. /\ remote[i] \in ClientT
        /\ remote[i].id = i
        /\ Steady(remote[i])
    BY <1>1, <1>2, RemoteClient
  <1>4. {} \in SUBSET Message
    OBVIOUS
  <1>5. ASSUME NEW k \in ClientT, SameName(k, remote[i]), Steady(k), RemotePass(i, k, {})
        PROVE  RemoteOK' /\ down' \subseteq Message
    BY <1>2, <1>3, <1>4, <1>5, RemotePassOK DEF SameName
  <1>6. RemoteTcpData(i) => RemoteOK' /\ down' \subseteq Message
    BY <1>3, <1>5, RecvTcp DEF RemoteTcpData
  <1>7. RemoteTcpEof(i) => RemoteOK' /\ down' \subseteq Message
    BY <1>3, <1>5, Eof DEF RemoteTcpEof
  <1>8. RemoteTcpError(i) => RemoteOK' /\ down' \subseteq Message
    BY <1>2, <1>3, <1>4, RemoteDisconnectOK DEF RemoteTcpError
  <1>9. RemoteOK' /\ down' \subseteq Message
    BY <1>6, <1>7, <1>8 DEF RemoteTcp
  <1> QED
    BY <1>1, <1>9 DEF RemoteSide, NetOK

LEMMA RemoteCheckOK ==
    ASSUME RemoteSide, NEW i \in Id, RemoteCheck(i)
    PROVE  RemoteSide'
  <1> DEFINE k == client_check_and_resend(remote[i])
  <1>1. /\ remote[i] # NoClient
        /\ WaitsForAck(remote[i])
        /\ UNCHANGED <<up, copies, next_client_id, spinning>>
    BY DEF RemoteCheck, TimeoutIsUp
  <1>2. RemoteOK /\ down \subseteq Message
    BY DEF RemoteSide, NetOK
  <1>3. /\ remote[i] \in ClientT
        /\ remote[i].id = i
        /\ Steady(remote[i])
    BY <1>1, <1>2, RemoteClient
  <1>4. k \in ClientT /\ k.id = i /\ (~ Exhausted(k) => Good(k))
    BY <1>1, <1>3, Check DEF SameName, Good
  <1>5. \/ RemoteDisconnect(i, k, {})
        \/ /\ ~ Exhausted(k)
           /\ remote' = [remote EXCEPT ![i] = k]
           /\ down' = down
    BY DEF RemoteCheck
  <1> HIDE DEF k
  <1>6. {} \in SUBSET Message
    OBVIOUS
  <1>7. RemoteOK' /\ down' \subseteq Message
    <2>1. RemoteDisconnect(i, k, {}) => RemoteOK' /\ down' \subseteq Message
      BY <1>2, <1>4, <1>6, RemoteDisconnectOK
    <2>2. ASSUME ~ Exhausted(k), remote' = [remote EXCEPT ![i] = k], down' = down
          PROVE  RemoteOK' /\ down' \subseteq Message
      BY <1>2, <1>4, <2>2 DEF RemoteOK
    <2> QED
      BY <1>5, <2>1, <2>2
  <1> QED
    BY <1>1, <1>7 DEF RemoteSide, NetOK

LEMMA RemoteTimeoutOK ==
    ASSUME RemoteSide, NEW i \in Id, RemoteTimeout(i)
    PROVE  RemoteSide'
  <1>1. RemoteDisconnect(i, remote[i], {}) => RemoteOK' /\ down' \subseteq Message
    <2>1. {} \in SUBSET Message
      OBVIOUS
    <2>2. remote[i] \in ClientT
      BY RemoteClient DEF RemoteTimeout, RemoteSide
    <2> QED
      BY <2>1, <2>2, RemoteDisconnectOK DEF RemoteSide, NetOK
  <1>2. UNCHANGED <<remote, down>> => RemoteOK' /\ down' \subseteq Message
    BY DEF RemoteSide, RemoteOK, NetOK
  <1>3. RemoteOK' /\ down' \subseteq Message /\ spinning' \in BOOLEAN
    BY <1>1, <1>2 DEF RemoteTimeout, RemoteSide
  <1>4. UNCHANGED <<up, copies, next_client_id>>
    BY DEF RemoteTimeout
  <1> QED
    BY <1>3, <1>4 DEF RemoteSide, NetOK

LEMMA RemoteNextOK ==
    ASSUME RemoteSide, RemoteNext
    PROVE  RemoteSide'
  <1>1. ASSUME NEW c \in Conn, RemoteReceive(c)
        PROVE  RemoteSide'
    BY <1>1, RemoteRecvHelloOK, RemoteRecvForOK, RemoteIgnoreOK DEF RemoteReceive
  <1>2. ASSUME NEW i \in Id, KeepaliveRunsOut(i)
        PROVE  RemoteSide'
    BY <1>2, RemoteTimeoutOK DEF KeepaliveRunsOut
  <1> QED
    BY <1>1, <1>2, RemoteTcpOK, RemoteCheckOK DEF RemoteNext

-----------------------------------------------------------------------------
\* Every step of the tunnel preserves the invariant.
LEMMA StepIInv == IInv /\ [Next]_vars => IInv'
  <1> SUFFICES ASSUME IInv, [Next]_vars PROVE IInv'
    OBVIOUS
  <1>1. LocalSide /\ RemoteSide
    BY DEF IInv, LocalSide, RemoteSide, CountersOK
  <1>2. CASE LocalNext /\ UNCHANGED remoteVars
    <2>1. LocalSide'
      BY <1>1, <1>2, LocalNextOK
    <2>2. RemoteOK' /\ next_client_id' \in Nat /\ spinning' \in BOOLEAN
      BY <1>1, <1>2 DEF remoteVars, RemoteSide, RemoteOK
    <2> QED
      BY <2>1, <2>2 DEF IInv, LocalSide, CountersOK
  <1>3. CASE RemoteNext /\ UNCHANGED localVars
    <2>1. RemoteSide'
      BY <1>1, <1>3, RemoteNextOK
    <2>2. LocalOK' /\ next_req_id' \in Id
      BY <1>1, <1>3 DEF localVars, LocalSide, LocalOK, Listed
    <2> QED
      BY <2>1, <2>2 DEF IInv, RemoteSide, CountersOK
  <1>4. CASE (LoseUp \/ LoseDown) /\ UNCHANGED <<localVars, remoteVars>>
    <2>1. NetOK'
      BY <1>1, <1>4 DEF LoseUp, LoseDown, LocalSide, NetOK
    <2>2. LocalOK' /\ RemoteOK' /\ CountersOK'
      BY <1>4 DEF localVars, remoteVars, IInv, LocalOK, RemoteOK, CountersOK, Listed
    <2> QED
      BY <2>1, <2>2 DEF IInv
  <1>5. CASE UNCHANGED vars
    BY <1>5 DEF vars, netVars, localVars, remoteVars, IInv, NetOK, LocalOK, RemoteOK,
                CountersOK, Listed
  <1> QED
    BY <1>2, <1>3, <1>4, <1>5 DEF Next

\* While the clients of udpclient are apart, the passes settle them, too.
LEMMA StepSettled == IInv /\ Apart /\ LocalSettled /\ [Next]_vars => LocalSettled'
  <1> SUFFICES ASSUME IInv, Apart, LocalSettled, [Next]_vars PROVE LocalSettled'
    OBVIOUS
  <1>1. CASE LocalNext /\ UNCHANGED remoteVars
    BY <1>1, LocalNextOK DEF IInv, LocalSide, CountersOK
  <1>2. CASE UNCHANGED localVars
    BY <1>2 DEF localVars, LocalSettled
  <1> QED
    BY <1>1, <1>2 DEF Next, vars

LEMMA Invariance == Spec => []IInv
  <1> QED
    BY InitIInv, StepIInv, PTL DEF Spec

(***************************************************************************)
(* The variables have their types in every reachable state.  In particular *)
(* a client_t of the server always carries the id it is listed under, and  *)
(* one of udpclient the socket it was accepted with.                       *)
(***************************************************************************)
THEOREM TypeCorrect == Spec => []TypeOK
  <1> QED
    BY Invariance, IInvImplies, PTL
=============================================================================
