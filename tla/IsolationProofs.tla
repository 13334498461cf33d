-------------------------- MODULE IsolationProofs --------------------------
(***************************************************************************)
(* Isolation, and that the access control list keeps out whom it denies,   *)
(* proved for any number of connections and for a network that loses,      *)
(* delays, reorders and duplicates at will, as long as the server has not  *)
(* run out of client ids.                                                  *)
(***************************************************************************)
EXTENDS UdpTunnelProofs, FiniteSetTheorems, WellFoundedInduction

(***************************************************************************)
(* Id i was given out, and if its client_t is still there it was created   *)
(* for connection c.                                                       *)
(***************************************************************************)
Owned(i, c) ==
    /\ 0 < i /\ i < next_client_id
    /\ remote[i] # NoClient => remote[i].udp_sock = c

OwnChunks(s, c) == \A j \in DOMAIN s : s[j].conn = c

OwnClient(k) == OwnChunks(k.tcp2udp_q, k.udp_sock) /\ OwnChunks(k.written, k.udp_sock)

OwnUp ==
    \A p \in up :
        /\ p.type \in Data => p.chunk.conn = p.conn
        /\ p.type \in Data \union {"HELLOACK"} => Owned(p.id, p.conn)

OwnDown ==
    \A p \in down :
        /\ p.type \in Data => p.chunk.conn = p.conn
        /\ p.type = "HELLOACK" => Owned(p.id, p.conn)

(***************************************************************************)
(* A pending client joins the open ones at any message that is not a       *)
(* GOODBYE, with its request id if that was no HELLOACK.  It could not     *)
(* send data then: it gets a client id when it leaves WAIT_HELLO.          *)
(***************************************************************************)
Mine(k, c) ==
    /\ OwnClient(k)
    /\ k.udp2tcp_state # "WAIT_HELLO" => Owned(k.id, c)

OwnLocal == \A c \in Conn : Listed(c) => Mine(local[c], c)

OwnRemote ==
    \A i \in Id : remote[i] # NoClient => OwnClient(remote[i]) /\ 0 < i /\ i < next_client_id

IdsLeft == next_client_id \in 1 .. IdMod

OwnInv == OwnUp /\ OwnDown /\ OwnLocal /\ OwnRemote /\ IdsLeft

-----------------------------------------------------------------------------
(* The routines of client.c keep the chunks of a client_t its own.         *)

\* Taking a chunk off the head of a queue, or putting one at its end.
LEMMA OwnSequences ==
    ASSUME NEW c, NEW s \in Seq(Chunk), OwnChunks(s, c)
    PROVE  /\ s # <<>> => Head(s).conn = c /\ OwnChunks(Tail(s), c)
           /\ \A chunk \in Chunk : chunk.conn = c => OwnChunks(Append(s, chunk), c)
  <1>1. s # <<>> => Head(s).conn = c
    BY DEF OwnChunks
  <1>2. s # <<>> => OwnChunks(Tail(s), c)
    <2> SUFFICES ASSUME s # <<>>, NEW j \in DOMAIN Tail(s)
                 PROVE  Tail(s)[j].conn = c
      BY DEF OwnChunks
    <2>1. j + 1 \in DOMAIN s /\ Tail(s)[j] = s[j + 1]
      OBVIOUS
    <2> QED
      BY <2>1 DEF OwnChunks
  <1>3. ASSUME NEW chunk \in Chunk, chunk.conn = c
        PROVE  OwnChunks(Append(s, chunk), c)
    <2> SUFFICES ASSUME NEW j \in DOMAIN Append(s, chunk)
                 PROVE  Append(s, chunk)[j].conn = c
      BY DEF OwnChunks
    <2>1. CASE j = Len(s) + 1
      BY <1>3, <2>1
    <2>2. CASE j # Len(s) + 1
      <3>1. j \in DOMAIN s /\ Append(s, chunk)[j] = s[j]
        BY <2>2
      <3> QED
        BY <3>1 DEF OwnChunks
    <2> QED
      BY <2>1, <2>2
  <1> QED
    BY <1>1, <1>2, <1>3

\* Two records with the same socket and the same chunks.
SameRelay(l, k) ==
    /\ l.udp_sock = k.udp_sock
    /\ l.tcp2udp_q = k.tcp2udp_q
    /\ l.written = k.written

\* The routines that touch neither the queue nor what was written.
LEMMA NothingRelayed ==
    ASSUME NEW k \in ClientT, NEW i \in Id
    PROVE  /\ SameRelay(AtEof(k), k)
           /\ SameRelay(AfterSend(k), k)
           /\ SameRelay(client_check_and_resend(k), k)
           /\ SameRelay(client_got_helloack(k), k)
           /\ SameRelay([client_got_helloack(k) EXCEPT !.id = i], k)
           /\ SameRelay([client_got_helloack(k) EXCEPT !.connected = TRUE], k)
           /\ AtEof(k).udp2tcp_state = k.udp2tcp_state
           /\ AfterSend(k).udp2tcp_state = k.udp2tcp_state
           /\ client_check_and_resend(k).udp2tcp_state = k.udp2tcp_state
  BY DEF SameRelay, AtEof, AfterSend, client_check_and_resend, client_got_helloack, ClientT

LEMMA SameRelayOwn ==
    ASSUME NEW k, NEW l, SameRelay(l, k), OwnClient(k)
    PROVE  OwnClient(l)
  BY DEF SameRelay, OwnClient

\* What is read from a TCP socket belongs to the connection it was read on.
LEMMA RecvTcpOwn ==
    ASSUME NEW k \in ClientT, k.nread < MaxChunks, OwnClient(k),
           NEW l \in client_recv_tcp_data(k)
    PROVE  OwnClient(l) /\ l.udp2tcp_state = k.udp2tcp_state
  <1>1. NextChunk(k) \in Chunk /\ NextChunk(k).conn = k.udp_sock
    BY ChunksAssumption DEF NextChunk, Chunk, ClientT
  <1>2. CASE l = Queued(k)
    <2>1. k.tcp2udp_q \in Seq(Chunk) /\ OwnChunks(k.tcp2udp_q, k.udp_sock)
      BY DEF ClientT, OwnClient
    <2>2. OwnChunks(Append(k.tcp2udp_q, NextChunk(k)), k.udp_sock)
      BY <1>1, <2>1, OwnSequences
    <2>3. /\ l.tcp2udp_q = Append(k.tcp2udp_q, NextChunk(k))
          /\ l.udp_sock = k.udp_sock
          /\ l.written = k.written
          /\ l.udp2tcp_state = k.udp2tcp_state
      BY <1>2 DEF Queued, ClientT
    <2> QED
      BY <2>2, <2>3 DEF OwnClient
  <1>3. CASE l = Dropped(k)
    BY <1>3 DEF Dropped, ClientT, OwnClient
  <1> QED
    BY <1>2, <1>3 DEF client_recv_tcp_data

LEMMA GotAckOwn ==
    ASSUME NEW k \in ClientT, Steady(k), OwnClient(k), NEW type
    PROVE  /\ OwnClient(client_got_ack(k, type))
           /\ client_got_ack(k, type).udp2tcp_state = k.udp2tcp_state
  <1>1. CASE IsExpectedAck(k, type)
    <2>1. k.tcp2udp_q # <<>>
      BY <1>1 DEF IsExpectedAck, Steady, WaitsForAck
    <2>2. OwnChunks(Tail(k.tcp2udp_q), k.udp_sock)
      BY <2>1, OwnSequences DEF ClientT, OwnClient
    <2> QED
      BY <1>1, <2>2 DEF client_got_ack, ClientT, OwnClient
  <1>2. CASE ~ IsExpectedAck(k, type)
    BY <1>2 DEF client_got_ack
  <1> QED
    BY <1>1, <1>2

LEMMA WriteOwn ==
    ASSUME NEW k \in ClientT, OwnClient(k), NEW chunk \in Chunk, chunk.conn = k.udp_sock
    PROVE  OwnClient(AfterWrite(k, chunk))
  <1>1. OwnChunks(Append(k.written, chunk), k.udp_sock)
    BY OwnSequences DEF ClientT, OwnClient
  <1> QED
    BY <1>1 DEF AfterWrite, ClientT, OwnClient

\* A client_t sends its own chunks under its own id, and none before it is
\* out of the state WAIT_HELLO.
LEMMA SendOwn ==
    ASSUME NEW k \in ClientT, OwnClient(k), NEW p \in DataSent(k)
    PROVE  /\ p.type # "HELLOACK"
           /\ p.conn = k.udp_sock
           /\ p.chunk.conn = p.conn
           /\ p.id = k.id
           /\ k.udp2tcp_state # "WAIT_HELLO"
  <1>1. CanSend(k)
    BY DEF DataSent
  <1>2. Head(k.tcp2udp_q).conn = k.udp_sock
    BY <1>1, OwnSequences DEF CanSend, ClientT, OwnClient
  <1> QED
    BY <1>1, <1>2 DEF DataSent, DataPacket, CanSend

-----------------------------------------------------------------------------
(* udpclient.                                                              *)

\* While udpserver does nothing, an id stays whose it is.
LEMMA OwnedByAll ==
    ASSUME UNCHANGED remoteVars, NEW i, NEW c
    PROVE  Owned(i, c)' <=> Owned(i, c)
  BY DEF remoteVars, Owned

\* The end of every iteration of udpclient.
LEMMA LocalOutcome ==
    ASSUME UNCHANGED remoteVars, OwnUp, OwnLocal, LocalOK,
           NEW c \in Conn, NEW k \in ClientT, k.udp_sock = c, Mine(k, c),
           NEW sent,
           \A p \in sent : p.type \notin Data
                          /\ (p.type = "HELLOACK" => Owned(p.id, p.conn)),
           \/ LocalGoOn(c, k, sent)
           \/ LocalDisconnect(c, k, sent)
           \/ local' = [local EXCEPT ![c] = k] /\ UNCHANGED <<stage, up>>
    PROVE  OwnUp' /\ OwnLocal'
  <1>1. "GOODBYE" \notin Data \union {"HELLOACK"}
    BY DEF Data
  <1>2. \A p \in DataSent(k) : p.chunk.conn = p.conn /\ Owned(p.id, p.conn)
    BY SendOwn DEF Mine
  <1>3. \A p \in up' : p \in up \union sent \union DataSent(k) \/ p.type = "GOODBYE"
    BY LocalSent
  <1>4. ASSUME NEW p \in up', p.type \in Data \union {"HELLOACK"}
        PROVE  (p.type \in Data => p.chunk.conn = p.conn) /\ Owned(p.id, p.conn)
    BY <1>1, <1>2, <1>3, <1>4 DEF OwnUp
  <1>5. OwnUp'
    BY <1>4, OwnedByAll DEF OwnUp
  <1>6. Mine(AfterSend(k), c)
    <2>1. AfterSend(k).id = k.id
      BY DEF AfterSend, ClientT
    <2>2. 0 \in Id
      BY IdModAssumption DEF Id
    <2> QED
      BY <2>1, <2>2, NothingRelayed, SameRelayOwn DEF Mine
  <1>7. ASSUME NEW d \in Conn, Listed(d)'
        PROVE  Mine(local'[d], d)
    <2>1. CASE d = c
      <3>1. local'[c] = k \/ local'[c] = AfterSend(k)
        BY <1>7, <2>1 DEF LocalGoOn, LocalPass, LocalDisconnect, Remove, Found, Promote,
                          Listed, LocalOK
      <3> QED
        BY <1>6, <2>1, <3>1
    <2>2. CASE d # c
      <3>1. \/ local'[d] = local[d] /\ stage'[d] = stage[d]
            \/ stage'[d] = "closed"
        BY <2>2 DEF LocalGoOn, LocalPass, LocalDisconnect, Remove, Found, Promote, LocalOK
      <3> QED
        BY <1>7, <3>1 DEF OwnLocal, Listed
    <2> QED
      BY <2>1, <2>2
  <1>8. OwnLocal'
    BY <1>7, OwnedByAll DEF OwnLocal, Mine, OwnClient
  <1> QED
    BY <1>5, <1>8

LEMMA AcceptOwn ==
    ASSUME UNCHANGED remoteVars, LocalSide, OwnInv, NEW c \in Conn, Accept(c)
    PROVE  OwnInv'
  <1> DEFINE k == client_create(next_req_id, c, TRUE, 0)
  <1>1. Mine(k, c)
    BY DEF client_create, Mine, OwnClient, OwnChunks
  <1>2. /\ stage' = [stage EXCEPT ![c] = "pending"]
        /\ local' = [local EXCEPT ![c] = k]
        /\ up' = up \union {Packet(c, 0, "HELLO")}
        /\ down' = down
    BY DEF Accept
  <1> HIDE DEF k
  <1>3. ASSUME NEW d \in Conn, Listed(d)'
        PROVE  Mine(local'[d], d)
    BY <1>1, <1>2, <1>3 DEF OwnInv, OwnLocal, Listed, LocalSide, LocalOK
  <1>4. OwnLocal'
    BY <1>3, OwnedByAll DEF OwnLocal, Mine, OwnClient
  <1>5. OwnUp'
    BY <1>2, OwnedByAll DEF OwnInv, OwnUp, Packet, Data
  <1>6. OwnDown' /\ OwnRemote' /\ IdsLeft'
    BY <1>2, OwnedByAll DEF OwnInv, OwnDown, OwnRemote, IdsLeft, remoteVars, OwnClient
  <1> QED
    BY <1>4, <1>5, <1>6 DEF OwnInv

LEMMA LocalReceiveOwn ==
    ASSUME UNCHANGED remoteVars, LocalSide, OwnInv, NEW c \in Conn, LocalReceive(c)
    PROVE  OwnInv'
  <1>1. PICK p \in down :
            \/ LocalRecvGoodbye(c, p)
            \/ LocalRecvHelloAck(c, p)
            \/ LocalRecvData(c, p)
            \/ LocalRecvAck(c, p)
    BY DEF LocalReceive
  <1>2. LocalRecv(c, p)
    BY <1>1 DEF LocalRecvGoodbye, LocalRecvHelloAck, LocalRecvData, LocalRecvAck
  <1>3. p \in Message /\ Listed(c)
    BY <1>2, LocalRecvGives DEF LocalSide
  <1>4. p.conn = c /\ down' \subseteq down
    BY <1>2 DEF LocalRecv, Deliver
  <1>5. /\ local[c] \in ClientT
        /\ local[c].udp_sock = c
        /\ Steady(local[c])
        /\ Mine(local[c], c)
    BY <1>3, ListedClient DEF LocalSide, OwnInv, OwnLocal
  <1>6. p.id \in Id /\ (p.type \in Data => p.chunk \in Chunk)
    BY <1>3, MessageFields
  <1>7. OwnUp /\ OwnLocal /\ LocalOK
    BY DEF OwnInv, LocalSide
  <1>8. LocalRecvGoodbye(c, p) => OwnUp' /\ OwnLocal'
    BY <1>5, <1>7, LocalOutcome DEF LocalRecvGoodbye
  <1>9. LocalRecvHelloAck(c, p) => OwnUp' /\ OwnLocal'
    <2> SUFFICES ASSUME LocalRecvHelloAck(c, p)
                 PROVE  OwnUp' /\ OwnLocal'
      OBVIOUS
    <2> DEFINE k == [client_got_helloack(local[c]) EXCEPT !.id = p.id]
    <2>1. k \in ClientT /\ k.udp_sock = c /\ k.id = p.id
      BY <1>5, <1>6, GotHelloAck, Updates DEF SameName, ClientT
    <2>2. Owned(p.id, c)
      BY <1>1, <1>4 DEF LocalRecvHelloAck, OwnInv, OwnDown
    <2>3. Mine(k, c)
      BY <1>5, <1>6, <2>1, <2>2, NothingRelayed, SameRelayOwn DEF Mine
    <2>4. LocalGoOn(c, k, {Packet(c, p.id, "HELLOACK")})
      BY DEF LocalRecvHelloAck
    <2>5. \A q \in {Packet(c, p.id, "HELLOACK")} :
              q.type \notin Data /\ Owned(q.id, q.conn)
      BY <2>2 DEF Packet, Data
    <2> HIDE DEF k
    <2> QED
      BY <1>7, <2>1, <2>3, <2>4, <2>5, LocalOutcome
  <1>10. LocalRecvData(c, p) => OwnUp' /\ OwnLocal'
    <2> SUFFICES ASSUME LocalRecvData(c, p)
                 PROVE  OwnUp' /\ OwnLocal'
      OBVIOUS
    <2> DEFINE k == local[c]
               l == AfterWrite(k, p.chunk)
               ack == {AckFor(k, p.type)}
    <2>1. p.type \in Data /\ p.chunk \in Chunk /\ p.chunk.conn = c
      BY <1>1, <1>4, <1>6 DEF LocalRecvData, OwnInv, OwnDown
    <2>2. \A q \in ack : q.type \notin Data \union {"HELLOACK"}
      BY DEF AckFor, Packet, Data
    <2>3. IsNewData(k, p.type) => l \in ClientT /\ l.udp_sock = c /\ Mine(l, c)
      <3>1. l \in ClientT /\ l.udp_sock = c /\ l.id = k.id
        BY <1>5, <2>1, Write DEF SameName
      <3>2. OwnClient(l)
        BY <1>5, <2>1, WriteOwn DEF Mine
      <3>3. IsNewData(k, p.type) => Owned(k.id, c)
        BY <1>5 DEF IsNewData, Mine
      <3> QED
        BY <3>1, <3>2, <3>3 DEF Mine
    <2>4. \/ LocalGoOn(c, k, ack)
          \/ IsNewData(k, p.type) /\ LocalGoOn(c, l, ack)
          \/ IsNewData(k, p.type) /\ LocalDisconnect(c, AfterFailedWrite(k), ack)
      BY DEF LocalRecvData
    <2>5. IsNewData(k, p.type)
             => /\ AfterFailedWrite(k) \in ClientT /\ AfterFailedWrite(k).udp_sock = c
                /\ Mine(AfterFailedWrite(k), c)
      <3>1. /\ AfterFailedWrite(k) \in ClientT
            /\ AfterFailedWrite(k).udp_sock = c /\ AfterFailedWrite(k).id = k.id
        BY <1>5, FailedWrite DEF SameName
      <3>2. OwnClient(AfterFailedWrite(k))
        BY <1>5 DEF Mine, OwnClient, AfterFailedWrite, ClientT
      <3>3. IsNewData(k, p.type) => Owned(k.id, c)
        BY <1>5 DEF IsNewData, Mine
      <3> QED
        BY <3>1, <3>2, <3>3 DEF Mine
    <2> HIDE DEF k, l, ack
    <2>6. k \in ClientT /\ k.udp_sock = c /\ Mine(k, c)
      BY <1>5 DEF k
    <2>7. IsNewData(k, p.type) /\ LocalGoOn(c, l, ack) => OwnUp' /\ OwnLocal'
      BY <1>7, <2>2, <2>3, LocalOutcome
    <2>8. LocalGoOn(c, k, ack) => OwnUp' /\ OwnLocal'
      BY <1>7, <2>2, <2>6, LocalOutcome
    <2>9. IsNewData(k, p.type) /\ LocalDisconnect(c, AfterFailedWrite(k), ack)
             => OwnUp' /\ OwnLocal'
      BY <1>7, <2>2, <2>5, LocalOutcome
    <2> QED
      BY <2>4, <2>7, <2>8, <2>9
  <1>11. LocalRecvAck(c, p) => OwnUp' /\ OwnLocal'
    <2> DEFINE k == client_got_ack(local[c], p.type)
    <2>1. k \in ClientT /\ k.udp_sock = c /\ k.id = local[c].id
      BY <1>5, GotAck DEF SameName
    <2>2. Mine(k, c)
      BY <1>5, <2>1, GotAckOwn DEF Mine
    <2>3. LocalRecvAck(c, p) => LocalGoOn(c, k, {}) \/ LocalDisconnect(c, local[c], {})
      BY DEF LocalRecvAck
    <2> HIDE DEF k
    <2>4. LocalGoOn(c, k, {}) => OwnUp' /\ OwnLocal'
      BY <1>7, <2>1, <2>2, LocalOutcome
    <2>5. LocalDisconnect(c, local[c], {}) => OwnUp' /\ OwnLocal'
      BY <1>5, <1>7, LocalOutcome
    <2> QED
      BY <2>3, <2>4, <2>5
  <1>12. OwnUp' /\ OwnLocal'
    BY <1>1, <1>8, <1>9, <1>10, <1>11
  <1>13. OwnDown'
    BY <1>4, OwnedByAll DEF OwnInv, OwnDown
  <1>14. OwnRemote' /\ IdsLeft'
    BY DEF OwnInv, OwnRemote, IdsLeft, remoteVars, OwnClient
  <1> QED
    BY <1>12, <1>13, <1>14 DEF OwnInv

LEMMA LocalTcpOwn ==
    ASSUME UNCHANGED remoteVars, LocalSide, OwnInv, NEW c \in Conn,
           LocalTcp(c) \/ LocalCheck(c)
    PROVE  OwnInv'
  <1>1. stage[c] = "open" /\ down' = down
    BY DEF LocalTcp, LocalTcpData, LocalTcpEof, LocalTcpError, LocalCheck
  <1>2. /\ local[c] \in ClientT
        /\ local[c].udp_sock = c
        /\ Steady(local[c])
        /\ Mine(local[c], c)
    BY <1>1, ListedClient DEF LocalSide, OwnInv, OwnLocal, Listed
  <1>3. OwnUp /\ OwnLocal /\ LocalOK
    BY DEF OwnInv, LocalSide
  <1>4. ASSUME NEW k \in ClientT, SameName(k, local[c]), OwnClient(k),
               k.udp2tcp_state = local[c].udp2tcp_state,
               \/ LocalGoOn(c, k, {})
               \/ LocalDisconnect(c, k, {})
               \/ local' = [local EXCEPT ![c] = k] /\ UNCHANGED <<stage, up>>
        PROVE  OwnUp' /\ OwnLocal'
    <2>1. k.udp_sock = c /\ Mine(k, c)
      BY <1>2, <1>4 DEF SameName, Mine
    <2> QED
      BY <1>3, <1>4, <2>1, LocalOutcome
  <1>5. LocalTcpData(c) => OwnUp' /\ OwnLocal'
    <2> SUFFICES ASSUME LocalTcpData(c)
                 PROVE  OwnUp' /\ OwnLocal'
      OBVIOUS
    <2>1. PICK k \in client_recv_tcp_data(local[c]) : LocalGoOn(c, k, {})
      BY DEF LocalTcpData
    <2>2. local[c].nread < MaxChunks
      BY <1>2, LocalMayRead
    <2>3. k \in ClientT /\ SameName(k, local[c])
      BY <1>2, <2>2, RecvTcp
    <2>4. OwnClient(k) /\ k.udp2tcp_state = local[c].udp2tcp_state
      BY <1>2, <2>2, RecvTcpOwn DEF Mine
    <2> QED
      BY <1>4, <2>1, <2>3, <2>4
  <1>6. 0 \in Id
    BY IdModAssumption DEF Id
  <1>7. LocalTcpEof(c) => OwnUp' /\ OwnLocal'
    <2> DEFINE k == Marked(local[c])
    <2>1. LocalGoOn(c, AtEof(local[c]), {}) => OwnUp' /\ OwnLocal'
      BY <1>2, <1>4, <1>6, Eof, NothingRelayed, SameRelayOwn DEF Mine
    <2>2. /\ k \in ClientT /\ SameName(k, local[c]) /\ OwnClient(k)
          /\ k.udp2tcp_state = local[c].udp2tcp_state
      BY <1>2 DEF Marked, ClientT, SameName, OwnClient, Mine
    <2>3. LocalDisconnect(c, k, {}) => OwnUp' /\ OwnLocal'
      BY <1>4, <2>2
    <2>4. ASSUME NEW d \in Conn \ {c}, stage[d] = "open",
                 local' = [local EXCEPT ![c] = AfterSend(k), ![d].connected = FALSE],
                 up' = up \union DataSent(k),
                 UNCHANGED stage
          PROVE  OwnUp' /\ OwnLocal'
      <3>1. OwnUp'
        <4>1. \A p \in DataSent(k) : p.chunk.conn = p.conn /\ Owned(p.id, p.conn)
          BY <1>2, <2>2, SendOwn DEF Mine, SameName
        <4> QED
          BY <1>3, <2>4, <4>1, OwnedByAll DEF OwnUp
      <3>2. Mine(AfterSend(k), c)
        <4>1. AfterSend(k).id = k.id
          BY <2>2 DEF AfterSend, ClientT
        <4> QED
          BY <1>2, <1>6, <2>2, <4>1, NothingRelayed, SameRelayOwn DEF Mine, SameName
      <3>3. Mine(local[d], d) => Mine([local[d] EXCEPT !.connected = FALSE], d)
        <4>1. local[d] \in ClientT
          BY <1>3, <2>4 DEF LocalOK, Listed
        <4> QED
          BY <4>1 DEF Mine, OwnClient, ClientT
      <3>4. /\ local'[c] = AfterSend(k)
            /\ local'[d] = [local[d] EXCEPT !.connected = FALSE]
            /\ \A e \in Conn \ {c, d} : local'[e] = local[e]
        BY <1>3, <2>4 DEF LocalOK
      <3>5. \A e \in Conn : Listed(e)' => Mine(local'[e], e)
        BY <1>3, <2>4, <3>2, <3>3, <3>4 DEF OwnLocal, Listed
      <3> QED
        BY <3>1, <3>5, OwnedByAll DEF OwnLocal, Mine, OwnClient
    <2> HIDE DEF k
    <2> QED
      BY <1>2, <2>1, <2>3, <2>4, EofGives DEF k
  <1>8. LocalTcpError(c) => OwnUp' /\ OwnLocal'
    BY <1>2, <1>3, LocalOutcome DEF LocalTcpError
  <1>9. LocalCheck(c) => OwnUp' /\ OwnLocal'
    <2> SUFFICES ASSUME LocalCheck(c)
                 PROVE  OwnUp' /\ OwnLocal'
      OBVIOUS
    <2> DEFINE k == client_check_and_resend(local[c])
    <2>1. WaitsForAck(local[c])
      BY DEF LocalCheck, TimeoutIsUp
    <2>2. k \in ClientT /\ SameName(k, local[c])
      BY <1>2, <2>1, Check
    <2>3. OwnClient(k) /\ k.udp2tcp_state = local[c].udp2tcp_state
      BY <1>2, <1>6, NothingRelayed, SameRelayOwn DEF Mine
    <2>4. \/ LocalDisconnect(c, k, {})
          \/ local' = [local EXCEPT ![c] = k] /\ UNCHANGED <<stage, up>>
      BY DEF LocalCheck
    <2> HIDE DEF k
    <2> QED
      BY <1>4, <2>2, <2>3, <2>4
  <1>10. OwnUp' /\ OwnLocal'
    BY <1>5, <1>7, <1>8, <1>9 DEF LocalTcp
  <1>11. OwnDown' /\ OwnRemote' /\ IdsLeft'
    BY <1>1, OwnedByAll DEF OwnInv, OwnDown, OwnRemote, IdsLeft, remoteVars, OwnClient
  <1> QED
    BY <1>10, <1>11 DEF OwnInv

LEMMA LocalNextOwn ==
    ASSUME UNCHANGED remoteVars, LocalSide, OwnInv, LocalNext
    PROVE  OwnInv'
  <1>1. ASSUME NEW p \in down, DropStray(p)
        PROVE  OwnInv'
    <2>1. down' \subseteq down /\ up' = up /\ stage' = stage /\ local' = local
      BY <1>1 DEF DropStray, localVars
    <2> QED
      BY <2>1, OwnedByAll DEF OwnInv, OwnUp, OwnDown, OwnLocal, OwnRemote, IdsLeft,
                              remoteVars, Listed, Mine, OwnClient
  <1> QED
    BY <1>1, AcceptOwn, LocalReceiveOwn, LocalTcpOwn DEF LocalNext

-----------------------------------------------------------------------------
(* udpserver.                                                              *)

\* The end of every iteration of udpserver that is not about a HELLO.
LEMMA RemoteOutcome ==
    ASSUME RemoteSide, LocalSide, OwnInv, UNCHANGED localVars,
           up' \subseteq up, next_client_id' = next_client_id,
           NEW i \in Id, remote[i] # NoClient,
           NEW k \in ClientT, k.udp_sock = remote[i].udp_sock, OwnClient(k),
           NEW sent, \A p \in sent : p.type \notin Data \union {"HELLOACK"},
           \/ RemotePass(i, k, sent)
           \/ RemoteDisconnect(i, k, sent)
           \/ remote' = [remote EXCEPT ![i] = k] /\ UNCHANGED down
    PROVE  OwnInv'
  <1>1. remote' = [remote EXCEPT ![i] = NoClient]
        \/ remote' = [remote EXCEPT ![i] = k]
        \/ remote' = [remote EXCEPT ![i] = AfterSend(k)]
    BY DEF RemotePass, RemoteDisconnect
  <1>2. /\ AfterSend(k).udp_sock = k.udp_sock
        /\ OwnClient(AfterSend(k))
    <2>1. SameRelay(AfterSend(k), k)
      <3>1. 0 \in Id
        BY IdModAssumption DEF Id
      <3> QED
        BY <3>1, NothingRelayed
    <2> QED
      BY <2>1, SameRelayOwn DEF SameRelay
  <1>3. ASSUME NEW j \in Id, remote'[j] # NoClient
        PROVE  /\ remote[j] # NoClient
               /\ remote'[j].udp_sock = remote[j].udp_sock
               /\ OwnClient(remote[j]) => OwnClient(remote'[j])
    <2>1. CASE j = i
      BY <1>1, <1>2, <1>3, <2>1 DEF RemoteSide, RemoteOK
    <2>2. CASE j # i
      BY <1>1, <1>3, <2>2 DEF RemoteSide, RemoteOK
    <2> QED
      BY <2>1, <2>2
  <1>4. ASSUME NEW j \in Id, NEW c, Owned(j, c)
        PROVE  Owned(j, c)'
    BY <1>3, <1>4 DEF Owned
  <1>5. OwnUp'
    BY <1>4, MessageFields DEF OwnInv, OwnUp, RemoteSide, NetOK
  <1>6. OwnDown'
    <2>1. down' \subseteq down \union sent \union {Goodbye(k)} \union DataSent(k)
      BY DEF RemotePass, RemoteDisconnect
    <2>2. Goodbye(k).type = "GOODBYE"
      BY DEF Goodbye, Packet
    <2>3. \A p \in DataSent(k) : p.chunk.conn = p.conn /\ p.type # "HELLOACK"
      BY SendOwn
    <2>4. ASSUME NEW p \in down', p.type \in Data
          PROVE  p.chunk.conn = p.conn
      BY <2>1, <2>2, <2>3, <2>4 DEF OwnInv, OwnDown, Data
    <2>5. ASSUME NEW p \in down', p.type = "HELLOACK"
          PROVE  Owned(p.id, p.conn)'
      <3>1. p \in down
        BY <2>1, <2>2, <2>3, <2>5
      <3> QED
        BY <1>4, <2>5, <3>1, MessageFields DEF OwnInv, OwnDown, RemoteSide, NetOK
    <2> QED
      BY <2>4, <2>5 DEF OwnDown
  <1>7. OwnLocal'
    <2> SUFFICES ASSUME NEW c \in Conn, Listed(c)'
                 PROVE  Mine(local[c], c)'
      BY DEF OwnLocal
    <2>1. Listed(c) /\ local' = local
      BY DEF localVars, Listed
    <2>2. local[c].id \in Id
      BY <2>1 DEF LocalSide, LocalOK, ClientT
    <2> QED
      BY <1>4, <2>1, <2>2 DEF OwnInv, OwnLocal, Mine, OwnClient
  <1>8. OwnRemote' /\ IdsLeft'
    BY <1>3 DEF OwnInv, OwnRemote, IdsLeft, OwnClient
  <1> QED
    BY <1>5, <1>6, <1>7, <1>8 DEF OwnInv

\* A message for a client_t of the server.
LEMMA RemoteRecvForOwn ==
    ASSUME RemoteSide, LocalSide, OwnInv, UNCHANGED localVars, NEW p,
           \/ RemoteRecvHelloAck(p)
           \/ RemoteRecvGoodbye(p)
           \/ RemoteRecvData(p)
           \/ RemoteRecvAck(p)
    PROVE  OwnInv'
  <1>1. RemoteRecvFor(p)
    BY DEF RemoteRecvHelloAck, RemoteRecvGoodbye, RemoteRecvData, RemoteRecvAck
  <1>2. p \in up /\ p \in Message
    BY <1>1, RemoteRecvGives DEF RemoteRecvFor, RemoteRecv, Deliver, Deliverable
  <1>3. /\ up' \subseteq up
        /\ next_client_id' = next_client_id
        /\ remote[p.id] # NoClient
    BY <1>1 DEF RemoteRecvFor, RemoteRecv, Deliver
  <1>4. p.id \in Id /\ (p.type \in Data => p.chunk \in Chunk)
    BY <1>2, MessageFields
  <1> DEFINE k == remote[p.id]
  <1>5. k \in ClientT /\ Steady(k) /\ OwnClient(k)
    BY <1>3, <1>4, RemoteClient DEF RemoteSide, OwnInv, OwnRemote
  <1>6. ASSUME NEW l \in ClientT, l.udp_sock = k.udp_sock, OwnClient(l),
               NEW sent, \A q \in sent : q.type \notin Data \union {"HELLOACK"},
               RemotePass(p.id, l, sent) \/ RemoteDisconnect(p.id, l, sent)
        PROVE  OwnInv'
    BY <1>3, <1>4, <1>6, RemoteOutcome
  <1>7. RemoteDisconnect(p.id, k, {}) => OwnInv'
    BY <1>5, <1>6
  <1>8. RemoteRecvHelloAck(p) => OwnInv'
    <2> DEFINE l == [client_got_helloack(k) EXCEPT !.connected = TRUE]
    <2>1. l \in ClientT /\ l.udp_sock = k.udp_sock
      BY <1>4, <1>5, GotHelloAck, Updates DEF SameName
    <2>2. OwnClient(l)
      BY <1>4, <1>5, NothingRelayed, SameRelayOwn
    <2>3. RemoteRecvHelloAck(p)
             => RemoteDisconnect(p.id, k, {}) \/ RemotePass(p.id, l, {})
      BY DEF RemoteRecvHelloAck
    <2> HIDE DEF l
    <2> QED
      BY <1>6, <1>7, <2>1, <2>2, <2>3
  <1>9. RemoteRecvGoodbye(p) => OwnInv'
    BY <1>7 DEF RemoteRecvGoodbye
  <1>10. RemoteRecvData(p) => OwnInv'
    <2> SUFFICES ASSUME RemoteRecvData(p)
                 PROVE  OwnInv'
      OBVIOUS
    <2> DEFINE l == AfterWrite(k, p.chunk)
               ack == {AckFor(k, p.type)}
    <2>1. p.type \in Data /\ p.chunk \in Chunk
      BY <1>4 DEF RemoteRecvData
    <2>2. p.chunk.conn = k.udp_sock
      BY <1>2, <1>3, <2>1 DEF OwnInv, OwnUp, Owned
    <2>3. l \in ClientT /\ l.udp_sock = k.udp_sock /\ OwnClient(l)
      BY <1>5, <2>1, <2>2, Write, WriteOwn DEF SameName
    <2>4. \A q \in ack : q.type \notin Data \union {"HELLOACK"}
      BY DEF AckFor, Packet, Data
    <2>5. \/ RemotePass(p.id, k, ack)
          \/ RemotePass(p.id, l, ack)
          \/ RemoteDisconnect(p.id, k, ack)
      BY DEF RemoteRecvData
    <2> HIDE DEF l, ack
    <2> QED
      BY <1>5, <1>6, <2>3, <2>4, <2>5
  <1>11. RemoteRecvAck(p) => OwnInv'
    <2> DEFINE l == client_got_ack(k, p.type)
    <2>1. l \in ClientT /\ l.udp_sock = k.udp_sock /\ OwnClient(l)
      BY <1>5, GotAck, GotAckOwn DEF SameName
    <2>2. RemoteRecvAck(p) => RemotePass(p.id, l, {})
      BY DEF RemoteRecvAck
    <2> HIDE DEF l
    <2> QED
      BY <1>6, <2>1, <2>2
  <1> QED
    BY <1>8, <1>9, <1>10, <1>11

\* Steps of the server, or of the network, that change no client_t.
LEMMA NothingOwn ==
    ASSUME OwnInv, UNCHANGED localVars, UNCHANGED <<remote, next_client_id>>,
           up' \subseteq up, down' \subseteq down
    PROVE  OwnInv'
  <1>1. \A i, c : Owned(i, c)' <=> Owned(i, c)
    BY DEF Owned
  <1> QED
    BY <1>1 DEF OwnInv, OwnUp, OwnDown, OwnLocal, OwnRemote, IdsLeft, localVars, Listed,
                Mine, OwnClient

(***************************************************************************)
(* A HELLO.  As the counter has not wrapped, the id is a new one, and what *)
(* is owned stays owned.                                                   *)
(***************************************************************************)
LEMMA RemoteRecvHelloOwn ==
    ASSUME MaxHello \in Nat, MaxHello =< IdMod,
           RemoteSide, LocalSide, OwnInv, UNCHANGED localVars, NEW p, RemoteRecvHello(p)
    PROVE  OwnInv'
  <1>1. up' \subseteq up /\ p \in Message
    BY RemoteRecvGives DEF RemoteRecvHello, RemoteRecv, Deliver
  <1>2. p.conn \in Conn
    BY <1>1, MessageFields
  <1>3. CASE UNCHANGED <<remote, next_client_id, down>>
    BY <1>1, <1>3, NothingOwn
  <1>4. CASE ~ UNCHANGED <<remote, next_client_id, down>>
    <2> DEFINE c == p.conn
               new == client_create(next_client_id, c, FALSE, next_client_id)
    <2>1. /\ next_client_id < MaxHello
          /\ next_client_id' = next_client_id + 1
          /\ remote' = [remote EXCEPT ![NewId] = Entry(c)]
          /\ down' = down \union {HelloReply(c)}
      BY <1>4 DEF RemoteRecvHello
    <2>2. next_client_id \in 1 .. (IdMod - 1)
      BY <2>1, IdModAssumption DEF OwnInv, IdsLeft
    <2>3. NewId = next_client_id /\ NewId \in Id
      BY <2>2, IdModAssumption DEF NewId, Id
    <2>4. remote[NewId] = NoClient
      BY <2>2, <2>3 DEF OwnInv, OwnRemote
    <2>5. Entry(c) = new
      BY <2>3, <2>4 DEF Entry
    <2>6. new.udp_sock = c /\ new.id = NewId /\ OwnClient(new)
      BY <2>3 DEF client_create, OwnClient, OwnChunks
    <2>7. remote' = [remote EXCEPT ![NewId] = new]
      BY <2>1, <2>5
    <2> HIDE DEF new
    <2>8. ASSUME NEW i \in Id, NEW d, Owned(i, d)
          PROVE  Owned(i, d)'
      <3>1. i # NewId
        BY <2>2, <2>3, <2>8 DEF Owned, Id
      <3>2. remote'[i] = remote[i]
        BY <2>7, <3>1 DEF RemoteSide, RemoteOK
      <3> QED
        BY <2>1, <2>2, <2>8, <3>2, IdModAssumption DEF Owned, Id
    <2>9. ASSUME NEW i, i = NewId
          PROVE  Owned(i, c)'
      <3>1. remote'[i] = new
        BY <2>3, <2>7, <2>9 DEF RemoteSide, RemoteOK
      <3> QED
        BY <2>1, <2>2, <2>3, <2>6, <2>9, <3>1, IdModAssumption DEF Owned
    <2>10. OwnUp'
      BY <1>1, <2>8, MessageFields DEF OwnInv, OwnUp, RemoteSide, NetOK
    <2>11. OwnDown'
      <3>1. HelloReply(c).type \notin Data
        BY DEF HelloReply, Packet, Data
      <3>2. HelloReply(c).type = "HELLOACK"
               => HelloReply(c).id = NewId /\ HelloReply(c).conn = c
        BY <2>5, <2>6 DEF HelloReply, Packet
      <3>3. ASSUME NEW q \in down
            PROVE  /\ q.type \in Data => q.chunk.conn = q.conn
                   /\ q.type = "HELLOACK" => Owned(q.id, q.conn)'
        BY <2>8, MessageFields DEF OwnInv, OwnDown, RemoteSide, NetOK
      <3> QED
        BY <2>1, <2>9, <3>1, <3>2, <3>3 DEF OwnDown
    <2>12. OwnLocal'
      <3> SUFFICES ASSUME NEW d \in Conn, Listed(d)'
                   PROVE  Mine(local[d], d)'
        BY DEF OwnLocal
      <3>1. Listed(d) /\ local' = local
        BY DEF localVars, Listed
      <3>2. local[d].id \in Id
        BY <3>1 DEF LocalSide, LocalOK, ClientT
      <3> QED
        BY <2>8, <3>1, <3>2 DEF OwnInv, OwnLocal, Mine, OwnClient
    <2>13. OwnRemote'
      <3> SUFFICES ASSUME NEW i \in Id, remote'[i] # NoClient
                   PROVE  OwnClient(remote'[i]) /\ 0 < i /\ i < next_client_id'
        BY DEF OwnRemote, OwnClient
      <3>1. CASE i = NewId
        BY <2>1, <2>2, <2>3, <2>6, <2>7, <3>1 DEF RemoteSide, RemoteOK
      <3>2. CASE i # NewId
        <4>1. remote'[i] = remote[i]
          BY <2>7, <3>2 DEF RemoteSide, RemoteOK
        <4>2. OwnClient(remote[i]) /\ 0 < i /\ i < next_client_id
          BY <4>1 DEF OwnInv, OwnRemote
        <4> QED
          BY <2>1, <2>2, <4>1, <4>2, IdModAssumption DEF Id
      <3> QED
        BY <3>1, <3>2
    <2>14. IdsLeft'
      BY <2>1, <2>2, IdModAssumption DEF IdsLeft
    <2> QED
      BY <2>10, <2>11, <2>12, <2>13, <2>14 DEF OwnInv
  <1> QED
    BY <1>3, <1>4

LEMMA RemoteTcpOwn ==
    ASSUME RemoteSide, LocalSide, OwnInv, UNCHANGED localVars, NEW i \in Id,
           RemoteTcp(i) \/ RemoteCheck(i)
    PROVE  OwnInv'
  <1>1. /\ remote[i] # NoClient
        /\ up' \subseteq up /\ next_client_id' = next_client_id
    BY DEF RemoteTcp, RemoteTcpData, RemoteTcpEof, RemoteTcpError, RemoteCheck
  <1>2. /\ remote[i] \in ClientT
        /\ Steady(remote[i])
        /\ OwnClient(remote[i])
    BY <1>1, RemoteClient DEF RemoteSide, OwnInv, OwnRemote
  <1>3. ASSUME NEW k \in ClientT, SameName(k, remote[i]), OwnClient(k),
               \/ RemotePass(i, k, {})
               \/ RemoteDisconnect(i, k, {})
               \/ remote' = [remote EXCEPT ![i] = k] /\ UNCHANGED down
        PROVE  OwnInv'
    BY <1>1, <1>3, RemoteOutcome DEF SameName
  <1>4. RemoteTcpData(i) => OwnInv'
    BY <1>2, <1>3, RecvTcp, RecvTcpOwn DEF RemoteTcpData
  <1>5. RemoteTcpEof(i) => OwnInv'
    BY <1>2, <1>3, Eof, NothingRelayed, SameRelayOwn DEF RemoteTcpEof
  <1>6. RemoteTcpError(i) => OwnInv'
    BY <1>2, <1>3 DEF RemoteTcpError, SameName
  <1>7. RemoteCheck(i) => OwnInv'
    <2> SUFFICES ASSUME RemoteCheck(i)
                 PROVE  OwnInv'
      OBVIOUS
    <2> DEFINE k == client_check_and_resend(remote[i])
    <2>1. WaitsForAck(remote[i])
      BY DEF RemoteCheck, TimeoutIsUp
    <2>2. k \in ClientT /\ SameName(k, remote[i])
      BY <1>2, <2>1, Check
    <2>3. OwnClient(k)
      BY <1>2, NothingRelayed, SameRelayOwn
    <2>4. \/ RemoteDisconnect(i, k, {})
          \/ remote' = [remote EXCEPT ![i] = k] /\ UNCHANGED down
      BY DEF RemoteCheck
    <2> HIDE DEF k
    <2> QED
      BY <1>3, <2>2, <2>3, <2>4
  <1> QED
    BY <1>4, <1>5, <1>6, <1>7 DEF RemoteTcp

LEMMA RemoteTimeoutOwn ==
    ASSUME RemoteSide, LocalSide, OwnInv, UNCHANGED localVars, NEW i \in Id,
           RemoteTimeout(i)
    PROVE  OwnInv'
  <1>1. /\ remote[i] # NoClient
        /\ up' \subseteq up /\ next_client_id' = next_client_id
    BY DEF RemoteTimeout
  <1>2. remote[i] \in ClientT /\ OwnClient(remote[i])
    BY <1>1, RemoteClient DEF RemoteSide, OwnInv, OwnRemote
  <1>3. RemoteDisconnect(i, remote[i], {}) => OwnInv'
    BY <1>1, <1>2, RemoteOutcome
  <1>4. UNCHANGED <<remote, down>> => OwnInv'
    BY <1>1, NothingOwn
  <1> QED
    BY <1>3, <1>4 DEF RemoteTimeout

LEMMA RemoteNextOwn ==
    ASSUME MaxHello \in Nat, MaxHello =< IdMod,
           RemoteSide, LocalSide, OwnInv, UNCHANGED localVars, RemoteNext
    PROVE  OwnInv'
  <1>1. ASSUME NEW c \in Conn, RemoteReceive(c)
        PROVE  OwnInv'
    <2>1. ASSUME NEW p, RemoteIgnore(p)
          PROVE  OwnInv'
      BY <2>1, NothingOwn DEF RemoteIgnore, RemoteRecv, Deliver
    <2> QED
      BY <1>1, <2>1, RemoteRecvHelloOwn, RemoteRecvForOwn DEF RemoteReceive
  <1>2. ASSUME NEW i \in Id, KeepaliveRunsOut(i)
        PROVE  OwnInv'
    BY <1>2, RemoteTimeoutOwn DEF KeepaliveRunsOut
  <1> QED
    BY <1>1, <1>2, RemoteTcpOwn DEF RemoteNext

-----------------------------------------------------------------------------
LEMMA OwnInit == Init => OwnInv
  <1> SUFFICES ASSUME Init PROVE OwnInv
    OBVIOUS
  <1>1. OwnUp /\ OwnDown
    BY DEF Init, NetInit, OwnUp, OwnDown
  <1>2. OwnLocal
    BY DEF Init, LocalInit, OwnLocal, Listed
  <1>3. OwnRemote
    BY DEF Init, RemoteInit, OwnRemote
  <1>4. IdsLeft
    BY IdModAssumption DEF Init, RemoteInit, IdsLeft
  <1> QED
    BY <1>1, <1>2, <1>3, <1>4 DEF OwnInv

LEMMA OwnStep ==
    ASSUME MaxHello \in Nat, MaxHello =< IdMod
    PROVE  IInv /\ OwnInv /\ [Next]_vars => OwnInv'
  <1> SUFFICES ASSUME IInv, OwnInv, [Next]_vars PROVE OwnInv'
    OBVIOUS
  <1>1. LocalSide /\ RemoteSide
    BY DEF IInv, LocalSide, RemoteSide, CountersOK
  <1>2. CASE LocalNext /\ UNCHANGED remoteVars
    BY <1>1, <1>2, LocalNextOwn
  <1>3. CASE RemoteNext /\ UNCHANGED localVars
    BY <1>1, <1>3, RemoteNextOwn
  <1>4. CASE (LoseUp \/ LoseDown) /\ UNCHANGED <<localVars, remoteVars>>
    <2>1. up' \subseteq up /\ down' \subseteq down
      BY <1>4 DEF LoseUp, LoseDown
    <2> QED
      BY <1>4, <2>1, NothingOwn DEF localVars, remoteVars
  <1>5. CASE UNCHANGED vars
    BY <1>5, NothingOwn DEF vars, netVars, localVars, remoteVars
  <1> QED
    BY <1>2, <1>3, <1>4, <1>5 DEF Next

\* What is written to a TCP socket is the connection's own.
LEMMA OwnIsolation == IInv /\ OwnInv => Isolation
  <1> SUFFICES ASSUME IInv, OwnInv,
                      NEW k \in LocalClients \union RemoteClients,
                      NEW j \in DOMAIN k.written
               PROVE  k.written[j].conn = k.udp_sock
    BY DEF Isolation
  <1>1. CASE k \in LocalClients
    BY <1>1 DEF LocalClients, OwnInv, OwnLocal, Mine, Listed, OwnClient, OwnChunks
  <1>2. CASE k \in RemoteClients
    BY <1>2 DEF RemoteClients, OwnInv, OwnRemote, OwnClient, OwnChunks
  <1> QED
    BY <1>1, <1>2

(***************************************************************************)
(* Bytes of one TCP connection never come out of another, although the     *)
(* server dispatches on the id in the header alone and both programs use   *)
(* that field for ids of their own during the handshake: for as many       *)
(* HELLOs as there are ids, whatever the network does.                     *)
(***************************************************************************)
THEOREM KeptApart ==
    ASSUME MaxHello \in Nat, MaxHello =< IdMod
    PROVE  Spec => []Isolation
  <1>1. Init => IInv /\ OwnInv
    BY InitIInv, OwnInit
  <1>2. IInv /\ OwnInv /\ [Next]_vars => (IInv /\ OwnInv)'
    BY StepIInv, OwnStep
  <1>3. IInv /\ OwnInv => Isolation
    BY OwnIsolation
  <1> QED
    BY <1>1, <1>2, <1>3, PTL DEF Spec

-----------------------------------------------------------------------------
(***************************************************************************)
(* What the access control list decides, and that a connection it denies   *)
(* stays out, for any list, any connections and any network.               *)
(***************************************************************************)

\* A set of numbers has a least element: the intervals up to its members
\* are finite sets, which strict inclusion orders well.
LEMMA LeastNumber ==
    ASSUME NEW S \in SUBSET Nat, S # {}
    PROVE  \E i \in S : \A j \in S : i =< j
  <1> DEFINE Upto == {1 .. i : i \in S}
  <1>1. \A i \in Nat : 1 .. i \in FiniteSubsetsOf(Nat)
    BY FS_Interval DEF FiniteSubsetsOf
  <1>2. Upto \subseteq FiniteSubsetsOf(Nat) /\ Upto # {}
    BY <1>1
  <1>3. PICK I \in Upto : \A J \in Upto : <<J, I>> \notin StrictSubsetOrdering(Nat)
    <2> HIDE DEF Upto
    <2> QED
      BY <1>2, FS_StrictSubsetOrderingWellFounded, WFMin
  <1>4. PICK i \in S : I = 1 .. i
    OBVIOUS
  <1>5. ASSUME NEW j \in S, j < i
        PROVE  FALSE
    <2>1. 1 .. j \subseteq 1 .. i /\ 1 .. j \subseteq Nat /\ 1 .. i \subseteq Nat
      BY <1>5
    <2>2. i \in 1 .. i /\ i \notin 1 .. j
      BY <1>5
    <2>3. <<1 .. j, 1 .. i>> \in StrictSubsetOrdering(Nat)
      BY <2>1, <2>2 DEF StrictSubsetOrdering
    <2> QED
      BY <1>3, <1>4, <2>3
  <1> QED
    BY <1>5

\* The list always decides, and by the first entry that matches.
LEMMA FirstMatch ==
    ASSUME NEW E, NEW acl \in Seq(E), NEW addr
    PROVE  \E i \in Matching(acl, addr) :
               /\ \A j \in Matching(acl, addr) : i =< j
               /\ acl_verdict(acl, addr) = WithDefault(acl)[i].action
  <1> DEFINE M == Matching(acl, addr)
             n == Len(acl) + 1
  <1>1. /\ WithDefault(acl) \in Seq(E \union {AnyEntry})
        /\ DOMAIN WithDefault(acl) = 1 .. n
        /\ WithDefault(acl)[n] = AnyEntry
    BY DEF WithDefault
  <1>2. Matches(AnyEntry, addr)
    BY DEF Matches, AnyEntry
  <1>3. M \in SUBSET Nat /\ n \in M
    BY <1>1, <1>2 DEF Matching
  <1>4. \E i \in M : \A j \in M : i =< j
    BY <1>3, LeastNumber
  <1> QED
    BY <1>4 DEF acl_verdict

(***************************************************************************)
(* udpserver denies a connection exactly when the README says so: an entry *)
(* denies it and none before that one matches.                             *)
(***************************************************************************)
THEOREM DeniesAsDocumented ==
    ASSUME NEW E, NEW acl \in Seq(E), NEW addr
    PROVE  acl_verdict(acl, addr) = "deny" <=> Denies(acl, addr)
  <1> DEFINE M == Matching(acl, addr)
  <1>1. PICK i \in M : /\ \A j \in M : i =< j
                       /\ acl_verdict(acl, addr) = WithDefault(acl)[i].action
    BY FirstMatch
  <1>2. /\ DOMAIN acl = 1 .. Len(acl)
        /\ DOMAIN WithDefault(acl) = 1 .. (Len(acl) + 1)
        /\ \A j \in DOMAIN acl : WithDefault(acl)[j] = acl[j]
        /\ WithDefault(acl)[Len(acl) + 1] = AnyEntry
    BY DEF WithDefault
  <1>3. \A j \in DOMAIN acl : j \in M <=> Matches(acl[j], addr)
    BY <1>2 DEF Matching
  <1>4. i \in 1 .. (Len(acl) + 1)
    BY <1>2 DEF Matching
  <1>5. ASSUME acl_verdict(acl, addr) = "deny"
        PROVE  Denies(acl, addr)
    <2>1. i # Len(acl) + 1
      <3>1. WithDefault(acl)[i].action = "deny"
        BY <1>1, <1>5
      <3>2. AnyEntry.action = "allow"
        BY DEF AnyEntry
      <3> QED
        BY <1>2, <3>1, <3>2
    <2>2. i \in DOMAIN acl /\ i \in M
      BY <1>2, <1>4, <2>1
    <2>3. acl[i].action = "deny" /\ Matches(acl[i], addr)
      BY <1>1, <1>2, <1>3, <1>5, <2>2
    <2>4. \A j \in 1 .. (i - 1) : ~ Matches(acl[j], addr)
      BY <1>1, <1>2, <1>3, <1>4
    <2> QED
      BY <2>2, <2>3, <2>4 DEF Denies
  <1>6. ASSUME Denies(acl, addr)
        PROVE  acl_verdict(acl, addr) = "deny"
    <2>1. PICK d \in DOMAIN acl :
              /\ acl[d].action = "deny" /\ Matches(acl[d], addr)
              /\ \A j \in 1 .. (d - 1) : ~ Matches(acl[j], addr)
      BY <1>6 DEF Denies
    <2>2. d \in M
      BY <1>3, <2>1
    <2>3. i =< d /\ i \in DOMAIN acl
      BY <1>1, <1>2, <1>4, <2>2
    <2>4. i = d
      BY <1>2, <1>3, <1>4, <2>1, <2>3
    <2> QED
      BY <1>1, <1>2, <2>1, <2>4
  <1> QED
    BY <1>5, <1>6

-----------------------------------------------------------------------------
Allowed(c) == Verdict(c) = "allow"

Barred(k) == ~ Allowed(k.udp_sock) => ~ k.connected /\ k.written = <<>>

(***************************************************************************)
(* The server connects when a HELLOACK arrives, and that is the answer to  *)
(* one of its own, which it sends to connections that are allowed.         *)
(***************************************************************************)
OutInv ==
    /\ \A p \in up \union down : p.type = "HELLOACK" => Allowed(p.conn)
    /\ \A i \in Id : remote[i] # NoClient => Barred(remote[i])

\* What a step of udpclient sends.
LEMMA LocalSends ==
    ASSUME NEW c, NEW k \in ClientT, NEW sent,
           LocalGoOn(c, k, sent) \/ LocalDisconnect(c, k, sent)
    PROVE  \A p \in up' : p.type = "HELLOACK" => p \in up \union sent
  <1>1. \A p \in DataSent(k) : p.type # "HELLOACK"
    BY DEF DataSent, DataPacket
  <1> QED
    BY <1>1, LocalSent

LEMMA LocalNextOut ==
    ASSUME UNCHANGED remoteVars, LocalSide, OutInv, LocalNext
    PROVE  OutInv'
  <1> DEFINE Answers ==
          /\ down' \subseteq down
          /\ \A p \in up' : p.type = "HELLOACK" => p \in up \/ Allowed(p.conn)
  <1>1. ASSUME NEW c \in Conn, Accept(c)
        PROVE  Answers
    BY <1>1 DEF Accept, Packet
  <1>2. ASSUME NEW c \in Conn, LocalReceive(c)
        PROVE  Answers
    <2>1. PICK p \in down :
              \/ LocalRecvGoodbye(c, p)
              \/ LocalRecvHelloAck(c, p)
              \/ LocalRecvData(c, p)
              \/ LocalRecvAck(c, p)
      BY <1>2 DEF LocalReceive
    <2>2. LocalRecv(c, p)
      BY <2>1 DEF LocalRecvGoodbye, LocalRecvHelloAck, LocalRecvData, LocalRecvAck
    <2>3. p \in Message /\ Listed(c) /\ p.conn = c /\ down' \subseteq down
      BY <2>2, LocalRecvGives DEF LocalSide, LocalRecv, Deliver
    <2>4. local[c] \in ClientT /\ local[c].udp_sock = c /\ Steady(local[c])
      BY <2>3, ListedClient DEF LocalSide
    <2>5. p.id \in Id /\ (p.type \in Data => p.chunk \in Chunk)
      BY <2>3, MessageFields
    <2>6. LocalRecvGoodbye(c, p) => Answers
      BY <2>3, <2>4, LocalSends DEF LocalRecvGoodbye
    <2>7. LocalRecvHelloAck(c, p) => Answers
      <3> SUFFICES ASSUME LocalRecvHelloAck(c, p)
                   PROVE  Answers
        OBVIOUS
      <3> DEFINE k == [client_got_helloack(local[c]) EXCEPT !.id = p.id]
      <3>1. k \in ClientT
        BY <2>4, <2>5, GotHelloAck, Updates
      <3>2. LocalGoOn(c, k, {Packet(c, p.id, "HELLOACK")})
        BY DEF LocalRecvHelloAck
      <3>3. Allowed(c) /\ Packet(c, p.id, "HELLOACK").conn = c
        BY <2>1, <2>3 DEF LocalRecvHelloAck, OutInv, Packet
      <3> HIDE DEF k
      <3> QED
        BY <2>3, <3>1, <3>2, <3>3, LocalSends
    <2>8. LocalRecvData(c, p) => Answers
      <3> SUFFICES ASSUME LocalRecvData(c, p)
                   PROVE  Answers
        OBVIOUS
      <3> DEFINE l == AfterWrite(local[c], p.chunk)
                 ack == {AckFor(local[c], p.type)}
      <3>1. l \in ClientT /\ AfterFailedWrite(local[c]) \in ClientT
        BY <2>4, <2>5, Write, FailedWrite DEF LocalRecvData
      <3>2. \A q \in ack : q.type # "HELLOACK"
        BY DEF AckFor, Packet
      <3>3. \/ LocalGoOn(c, local[c], ack)
            \/ LocalGoOn(c, l, ack)
            \/ LocalDisconnect(c, AfterFailedWrite(local[c]), ack)
        BY DEF LocalRecvData
      <3> HIDE DEF l, ack
      <3> QED
        BY <2>3, <2>4, <3>1, <3>2, <3>3, LocalSends
    <2>9. LocalRecvAck(c, p) => Answers
      <3> DEFINE k == client_got_ack(local[c], p.type)
      <3>1. k \in ClientT
        BY <2>4, GotAck
      <3>2. LocalRecvAck(c, p) => LocalGoOn(c, k, {}) \/ LocalDisconnect(c, local[c], {})
        BY DEF LocalRecvAck
      <3> HIDE DEF k
      <3> QED
        BY <2>3, <2>4, <3>1, <3>2, LocalSends
    <2> QED
      BY <2>1, <2>6, <2>7, <2>8, <2>9
  <1>3. ASSUME NEW c \in Conn, LocalTcp(c) \/ LocalCheck(c)
        PROVE  Answers
    <2>1. stage[c] = "open" /\ down' = down
      BY <1>3 DEF LocalTcp, LocalTcpData, LocalTcpEof, LocalTcpError, LocalCheck
    <2>2. local[c] \in ClientT /\ Steady(local[c])
      BY <2>1, ListedClient DEF LocalSide, Listed
    <2>3. PICK k \in ClientT :
              \/ LocalGoOn(c, k, {}) \/ LocalDisconnect(c, k, {})
              \/ up' \subseteq up \union DataSent(k)
      <3>1. LocalTcpData(c) => \E k \in ClientT : LocalGoOn(c, k, {})
        BY <2>2, RecvTcp, LocalMayRead DEF LocalTcpData
      <3>2. LocalTcpEof(c)
               => \E k \in ClientT : \/ LocalGoOn(c, k, {}) \/ LocalDisconnect(c, k, {})
                                     \/ up' \subseteq up \union DataSent(k)
        <4>1. Marked(local[c]) \in ClientT
          BY <2>2 DEF Marked, ClientT
        <4> QED
          BY <2>2, <4>1, Eof, EofGives
      <3>3. LocalTcpError(c) => LocalDisconnect(c, local[c], {})
        BY DEF LocalTcpError
      <3>4. LocalCheck(c)
               => \E k \in ClientT : LocalDisconnect(c, k, {}) \/ UNCHANGED up
        BY <2>2, Check DEF LocalCheck, TimeoutIsUp
      <3> QED
        BY <1>3, <2>2, <3>1, <3>2, <3>3, <3>4 DEF LocalTcp
    <2>4. \A p \in DataSent(k) : p.type # "HELLOACK"
      BY DEF DataSent, DataPacket
    <2> QED
      BY <2>1, <2>3, <2>4, LocalSends
  <1>4. ASSUME NEW p \in down, DropStray(p)
        PROVE  Answers
    BY <1>4 DEF DropStray
  <1>5. Answers
    BY <1>1, <1>2, <1>3, <1>4 DEF LocalNext
  <1> QED
    BY <1>5 DEF OutInv, remoteVars, Barred, Allowed, Verdict

-----------------------------------------------------------------------------
\* The end of every iteration of udpserver that is not about a HELLO.
LEMMA RemoteOutcomeOut ==
    ASSUME RemoteSide, OutInv, up' \subseteq up, NEW i \in Id,
           NEW k \in ClientT, Barred(k),
           NEW sent, \A p \in sent : p.type # "HELLOACK",
           \/ RemotePass(i, k, sent)
           \/ RemoteDisconnect(i, k, sent)
           \/ remote' = [remote EXCEPT ![i] = k] /\ UNCHANGED down
    PROVE  OutInv'
  <1>1. Goodbye(k).type = "GOODBYE" /\ \A p \in DataSent(k) : p.type # "HELLOACK"
    BY DEF Goodbye, Packet, DataSent, DataPacket
  <1>2. down' \subseteq down \union sent \union {Goodbye(k)} \union DataSent(k)
    BY DEF RemotePass, RemoteDisconnect
  <1>3. \A p \in up' \union down' : p.type = "HELLOACK" => Allowed(p.conn)
    BY <1>1, <1>2 DEF OutInv
  <1>4. Barred(AfterSend(k))
    BY DEF Barred, AfterSend, ClientT
  <1>5. ASSUME NEW j \in Id, remote'[j] # NoClient
        PROVE  Barred(remote'[j])
    BY <1>4, <1>5 DEF RemotePass, RemoteDisconnect, RemoteSide, RemoteOK, OutInv
  <1> QED
    BY <1>3, <1>5 DEF OutInv, Allowed, Verdict, Barred

\* A message for a client_t of the server.
LEMMA RemoteRecvForOut ==
    ASSUME RemoteSide, OwnInv, OutInv, NEW p,
           \/ RemoteRecvHelloAck(p)
           \/ RemoteRecvGoodbye(p)
           \/ RemoteRecvData(p)
           \/ RemoteRecvAck(p)
    PROVE  OutInv'
  <1>1. RemoteRecvFor(p)
    BY DEF RemoteRecvHelloAck, RemoteRecvGoodbye, RemoteRecvData, RemoteRecvAck
  <1>2. p \in up /\ p \in Message
    BY <1>1, RemoteRecvGives DEF RemoteRecvFor, RemoteRecv, Deliver, Deliverable
  <1>3. up' \subseteq up /\ remote[p.id] # NoClient
    BY <1>1 DEF RemoteRecvFor, RemoteRecv, Deliver
  <1>4. p.id \in Id /\ (p.type \in Data => p.chunk \in Chunk)
    BY <1>2, MessageFields
  <1> DEFINE k == remote[p.id]
  <1>5. k \in ClientT /\ Steady(k) /\ Barred(k)
    BY <1>3, <1>4, RemoteClient DEF RemoteSide, OutInv
  <1>6. RemoteRecvHelloAck(p) => OutInv'
    <2> DEFINE l == [client_got_helloack(k) EXCEPT !.connected = TRUE]
    <2>1. l \in ClientT /\ l.udp_sock = k.udp_sock
      BY <1>4, <1>5, GotHelloAck, Updates DEF SameName
    <2>2. RemoteRecvHelloAck(p) => Allowed(k.udp_sock)
      BY <1>2, <1>3 DEF RemoteRecvHelloAck, OwnInv, OwnUp, Owned, OutInv
    <2>3. RemoteRecvHelloAck(p)
             => RemoteDisconnect(p.id, k, {}) \/ RemotePass(p.id, l, {})
      BY DEF RemoteRecvHelloAck
    <2>4. Allowed(k.udp_sock) => Barred(l)
      BY <2>1 DEF Barred
    <2> HIDE DEF l
    <2> QED
      BY <1>3, <1>4, <1>5, <2>1, <2>2, <2>3, <2>4, RemoteOutcomeOut
  <1>7. RemoteRecvGoodbye(p) => OutInv'
    BY <1>3, <1>4, <1>5, RemoteOutcomeOut DEF RemoteRecvGoodbye
  <1>8. RemoteRecvData(p) => OutInv'
    <2> SUFFICES ASSUME RemoteRecvData(p)
                 PROVE  OutInv'
      OBVIOUS
    <2> DEFINE l == AfterWrite(k, p.chunk)
               ack == {AckFor(k, p.type)}
    <2>1. l \in ClientT /\ l.udp_sock = k.udp_sock
      BY <1>4, <1>5, Write DEF SameName, RemoteRecvData
    <2>2. \A q \in ack : q.type # "HELLOACK"
      BY DEF AckFor, Packet
    <2>3. \/ RemotePass(p.id, k, ack)
          \/ k.connected /\ RemotePass(p.id, l, ack)
          \/ RemoteDisconnect(p.id, k, ack)
      BY DEF RemoteRecvData
    <2>4. k.connected => Barred(l)
      BY <1>5, <2>1 DEF Barred
    <2> HIDE DEF l, ack
    <2> QED
      BY <1>3, <1>4, <1>5, <2>1, <2>2, <2>3, <2>4, RemoteOutcomeOut
  <1>9. RemoteRecvAck(p) => OutInv'
    <2> DEFINE l == client_got_ack(k, p.type)
    <2>1. l \in ClientT
      BY <1>5, GotAck
    <2>2. Barred(l)
      BY <1>5 DEF Barred, client_got_ack, ClientT
    <2>3. RemoteRecvAck(p) => RemotePass(p.id, l, {})
      BY DEF RemoteRecvAck
    <2> HIDE DEF l
    <2> QED
      BY <1>3, <1>4, <2>1, <2>2, <2>3, RemoteOutcomeOut
  <1> QED
    BY <1>6, <1>7, <1>8, <1>9

\* Steps of the server, or of the network, that change no client_t.
LEMMA NothingOut ==
    ASSUME OutInv, UNCHANGED remote, up' \subseteq up, down' \subseteq down
    PROVE  OutInv'
  BY DEF OutInv, Barred, Allowed, Verdict

LEMMA RemoteRecvHelloOut ==
    ASSUME RemoteSide, OutInv, NEW p, RemoteRecvHello(p)
    PROVE  OutInv'
  <1>1. up' \subseteq up
    BY DEF RemoteRecvHello, RemoteRecv, Deliver
  <1>2. CASE UNCHANGED <<remote, down>>
    BY <1>1, <1>2, NothingOut
  <1>3. CASE ~ UNCHANGED <<remote, down>>
    <2> DEFINE e == Entry(p.conn)
    <2>1. /\ remote' = [remote EXCEPT ![NewId] = e]
          /\ down' = down \union {HelloReply(p.conn)}
      BY <1>3 DEF RemoteRecvHello
    <2>2. HelloReply(p.conn).type = "HELLOACK" => Allowed(HelloReply(p.conn).conn)
      BY DEF HelloReply, Packet, Allowed
    <2>3. NewId \in Id
      BY ModInId DEF NewId, RemoteSide
    <2>4. Barred(e)
      BY <2>3 DEF Entry, client_create, Barred, OutInv
    <2>5. ASSUME NEW i \in Id, remote'[i] # NoClient
          PROVE  Barred(remote'[i])
      BY <2>1, <2>4, <2>5 DEF RemoteSide, RemoteOK, OutInv
    <2> QED
      BY <1>1, <2>1, <2>2, <2>5 DEF OutInv, Barred, Allowed, Verdict
  <1> QED
    BY <1>2, <1>3

LEMMA RemoteTcpOut ==
    ASSUME RemoteSide, OutInv, NEW i \in Id,
           RemoteTcp(i) \/ RemoteCheck(i) \/ RemoteTimeout(i)
    PROVE  OutInv'
  <1>1. remote[i] # NoClient /\ up' \subseteq up
    BY DEF RemoteTcp, RemoteTcpData, RemoteTcpEof, RemoteTcpError, RemoteCheck,
           RemoteTimeout
  <1>2. remote[i] \in ClientT /\ Steady(remote[i]) /\ Barred(remote[i])
    BY <1>1, RemoteClient DEF RemoteSide, OutInv
  <1>3. ASSUME NEW k \in ClientT, Barred(k),
               \/ RemotePass(i, k, {})
               \/ RemoteDisconnect(i, k, {})
               \/ remote' = [remote EXCEPT ![i] = k] /\ UNCHANGED down
        PROVE  OutInv'
    BY <1>1, <1>3, RemoteOutcomeOut
  <1>4. RemoteTcpData(i) => OutInv'
    <2> SUFFICES ASSUME RemoteTcpData(i)
                 PROVE  OutInv'
      OBVIOUS
    <2>1. PICK k \in client_recv_tcp_data(remote[i]) : RemotePass(i, k, {})
      BY DEF RemoteTcpData
    <2>2. k \in ClientT
      BY <1>2, RecvTcp DEF RemoteTcpData
    <2>3. Barred(k)
      BY <1>2 DEF client_recv_tcp_data, Queued, Dropped, Barred, ClientT
    <2> QED
      BY <1>3, <2>1, <2>2, <2>3
  <1>5. RemoteTcpEof(i) => OutInv'
    <2>1. AtEof(remote[i]) \in ClientT /\ Barred(AtEof(remote[i]))
      BY <1>2, Eof DEF AtEof, Barred, ClientT
    <2> QED
      BY <1>3, <2>1 DEF RemoteTcpEof
  <1>6. RemoteTcpError(i) => OutInv'
    BY <1>2, <1>3 DEF RemoteTcpError
  <1>7. RemoteCheck(i) => OutInv'
    <2> SUFFICES ASSUME RemoteCheck(i)
                 PROVE  OutInv'
      OBVIOUS
    <2> DEFINE k == client_check_and_resend(remote[i])
    <2>1. k \in ClientT
      BY <1>2, Check DEF RemoteCheck, TimeoutIsUp
    <2>2. Barred(k)
      BY <1>2 DEF client_check_and_resend, Barred, ClientT
    <2>3. \/ RemoteDisconnect(i, k, {})
          \/ remote' = [remote EXCEPT ![i] = k] /\ UNCHANGED down
      BY DEF RemoteCheck
    <2> HIDE DEF k
    <2> QED
      BY <1>3, <2>1, <2>2, <2>3
  <1>8. RemoteTimeout(i) => OutInv'
    BY <1>1, <1>2, <1>3, NothingOut DEF RemoteTimeout
  <1> QED
    BY <1>4, <1>5, <1>6, <1>7, <1>8 DEF RemoteTcp

LEMMA RemoteNextOut ==
    ASSUME RemoteSide, OwnInv, OutInv, RemoteNext
    PROVE  OutInv'
  <1>1. ASSUME NEW c \in Conn, RemoteReceive(c)
        PROVE  OutInv'
    <2>1. ASSUME NEW p, RemoteIgnore(p)
          PROVE  OutInv'
      BY <2>1, NothingOut DEF RemoteIgnore, RemoteRecv, Deliver
    <2> QED
      BY <1>1, <2>1, RemoteRecvHelloOut, RemoteRecvForOut DEF RemoteReceive
  <1> QED
    BY <1>1, RemoteTcpOut DEF RemoteNext, KeepaliveRunsOut

-----------------------------------------------------------------------------
LEMMA OutStep == IInv /\ OwnInv /\ OutInv /\ [Next]_vars => OutInv'
  <1> SUFFICES ASSUME IInv, OwnInv, OutInv, [Next]_vars PROVE OutInv'
    OBVIOUS
  <1>1. LocalSide /\ RemoteSide
    BY DEF IInv, LocalSide, RemoteSide, CountersOK
  <1>2. CASE LocalNext /\ UNCHANGED remoteVars
    BY <1>1, <1>2, LocalNextOut
  <1>3. CASE RemoteNext /\ UNCHANGED localVars
    BY <1>1, <1>3, RemoteNextOut
  <1>4. CASE (LoseUp \/ LoseDown) /\ UNCHANGED <<localVars, remoteVars>>
    BY <1>4, NothingOut DEF LoseUp, LoseDown, remoteVars
  <1>5. CASE UNCHANGED vars
    BY <1>5, NothingOut DEF vars, netVars, remoteVars
  <1> QED
    BY <1>2, <1>3, <1>4, <1>5 DEF Next

(***************************************************************************)
(* A connection that the README says is denied is never connected to the   *)
(* TCP server, for any access control list and as many HELLOs as there are *)
(* ids, whatever the network does and whatever id its GOODBYE carries.     *)
(***************************************************************************)
THEOREM DeniedStaysOut ==
    ASSUME MaxHello \in Nat, MaxHello =< IdMod
    PROVE  Spec => []DeniedNeverConnected
  <1>1. Init => IInv /\ OwnInv /\ OutInv
    <2>1. Init => OutInv
      BY DEF Init, NetInit, RemoteInit, OutInv
    <2> QED
      BY <2>1, InitIInv, OwnInit
  <1>2. IInv /\ OwnInv /\ OutInv /\ [Next]_vars => (IInv /\ OwnInv /\ OutInv)'
    BY StepIInv, OwnStep, OutStep
  <1>3. OutInv => DeniedNeverConnected
    <2> SUFFICES ASSUME OutInv, NEW k \in RemoteClients, Denies(Acl, Address[k.udp_sock])
                 PROVE  ~ k.connected /\ k.written = <<>>
      BY DEF DeniedNeverConnected
    <2>1. Barred(k)
      BY DEF OutInv, RemoteClients
    <2>2. Verdict(k.udp_sock) = "deny"
      BY AddressAssumption, DeniesAsDocumented DEF Verdict
    <2> QED
      BY <2>1, <2>2 DEF Barred, Allowed
  <1> QED
    BY <1>1, <1>2, <1>3, PTL DEF Spec
=============================================================================
