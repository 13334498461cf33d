---------------------------- MODULE StreamProofs ----------------------------
(***************************************************************************)
(* What the two ends of a tunnel connection get is what the other one      *)
(* sent: the messages a client_t of udpserver accepts are those of its own *)
(* connection, what is written to a TCP socket is a prefix of what was     *)
(* read at the other end, what is in flight is the head of the queue, and  *)
(* what is acknowledged was written.  For any number of connections and    *)
(* any bounds, as long as the server has not run out of client ids, with   *)
(* the faults of the network each theorem names.                           *)
(***************************************************************************)
EXTENDS IdsProofs

\* What is proved in the modules this one extends.
Known == IInv /\ OwnInv /\ HoldInv

LEMMA KnownGives ==
    ASSUME Known
    PROVE  LocalSide /\ RemoteSide /\ OwnInv /\ HoldInv /\ NetOK /\ LocalOK /\ RemoteOK
  BY DEF Known, IInv, LocalSide, RemoteSide, CountersOK

LEMMA KnownInvariant ==
    ASSUME MaxHello \in Nat, MaxHello =< IdMod
    PROVE  /\ Init => Known
           /\ Known /\ [Next]_vars => Known'
  BY InitIInv, OwnInit, HoldInit, StepIInv, OwnStep, HoldStep DEF Known

-----------------------------------------------------------------------------
(* udpclient: what any iteration about connection c does to the ids and to *)
(* the messages in flight.                                                 *)

LocalFrame(c) ==
    /\ Listed(c)
    /\ stage'[c] \in {"open", "closed"}
    /\ \A d \in Conn \ {c} : stage'[d] = stage[d] /\ local'[d] = local[d]
    /\ up \subseteq up'
    /\ \A p \in up' \ up : p.conn = c /\ p.type # "HELLO"
    /\ down' \subseteq down
    /\ \A p \in down \ down' : p.conn = c

\* An iteration of an open client that is not about a HELLOACK.
OpenMove(c) ==
    /\ stage[c] = "open"
    /\ stage'[c] = "open" => local'[c].id = local[c].id
    /\ \A p \in up' \ up : p.id = local[c].id /\ p.type # "HELLOACK"

\* The HELLOACK q arrives and is answered.
HelloAckMove(c, q) ==
    /\ q.type = "HELLOACK" /\ q.conn = c
    /\ Deliver(down, q, down')
    /\ stage'[c] = "open" => local'[c].id = q.id
    /\ \A p \in up' \ up :
           p.id = q.id /\ (p.type = "HELLOACK" => p = Packet(c, q.id, "HELLOACK"))

\* A GOODBYE arrives before there was a HELLOACK.
TurnedAway(c, q) ==
    /\ q.type = "GOODBYE" /\ q.conn = c
    /\ stage[c] = "pending" /\ stage'[c] = "closed"
    /\ \A p \in up' \ up : p.type = "GOODBYE"

LocalShape(c) ==
    /\ LocalFrame(c)
    /\ \/ OpenMove(c)
       \/ \E q \in down : HelloAckMove(c, q) \/ TurnedAway(c, q)

\* The messages of a client_t carry its id.
LEMMA SentUnderId ==
    ASSUME NEW k
    PROVE  /\ Goodbye(k).id = k.id
           /\ \A p \in DataSent(k) : p.id = k.id
           /\ \A type : AckFor(k, type).id = k.id /\ AckFor(k, type).type \in Ack
  BY DEF Goodbye, Packet, DataSent, DataPacket, AckFor, Ack

LEMMA LocalFramed ==
    ASSUME Known, NEW c \in Conn, Listed(c), NEW k \in ClientT, k.udp_sock = c,
           NEW sent, \A p \in sent : p.conn = c /\ p.id = k.id /\ p.type # "HELLO",
           down' \subseteq down, \A p \in down \ down' : p.conn = c,
           \/ LocalGoOn(c, k, sent) /\ Holds(k.id, c)
           \/ LocalDisconnect(c, k, sent) /\ (stage[c] = "open" => Holds(k.id, c))
           \/ stage[c] = "open" /\ local' = [local EXCEPT ![c] = k] /\ UNCHANGED <<stage, up>>
    PROVE  /\ LocalFrame(c)
           /\ stage'[c] = "open" => local'[c].id = k.id
           /\ \A p \in up' \ up : p.id = k.id
           /\ \A p \in up' \ up : p \in sent \/ p.type \notin {"HELLO", "HELLOACK"}
  <1>1. LocalOK /\ HoldInv
    BY KnownGives
  <1>2. Holds(k.id, c) => ~ IdInUse(c, k.id)
    BY <1>1 DEF IdInUse, HoldInv, OneHolder, Holds, ClientT
  <1>3. AfterSend(k).id = k.id
    BY DEF AfterSend, ClientT
  <1>4. /\ \/ /\ stage' = [stage EXCEPT ![c] = "closed"]
              /\ local' = [local EXCEPT ![c] = NoClient]
           \/ /\ stage' = [stage EXCEPT ![c] = "open"]
              /\ local' = [local EXCEPT ![c] = k]
           \/ /\ stage[c] = "open" /\ stage' = stage
              /\ \/ local' = [local EXCEPT ![c] = k]
                 \/ local' = [local EXCEPT ![c] = AfterSend(k)]
        /\ up \subseteq up'
        /\ up' \subseteq up \union sent \union {Goodbye(k)} \union DataSent(k)
    <2>1. ASSUME LocalDisconnect(c, k, sent), stage[c] = "open" => Holds(k.id, c)
          PROVE  /\ stage' = [stage EXCEPT ![c] = "closed"]
                 /\ local' = [local EXCEPT ![c] = NoClient]
                 /\ up' = up \union sent \union {Goodbye(k)}
      BY <1>1, <2>1, HeldDisconnects
    <2> QED
      BY <1>2, <2>1 DEF LocalGoOn, LocalPass, Promote
  <1>5. \A p \in up' \ up : p \in sent \/ p = Goodbye(k) \/ p \in DataSent(k)
    BY <1>4
  <1>6. /\ Goodbye(k).conn = c /\ Goodbye(k).id = k.id /\ Goodbye(k).type = "GOODBYE"
        /\ \A p \in DataSent(k) : p.conn = c /\ p.id = k.id /\ p.type \in Data
    BY SentForItself, SentUnderId
  <1>7. \A p \in up' \ up :
            /\ p.conn = c /\ p.id = k.id /\ p.type # "HELLO"
            /\ p \in sent \/ p.type \notin {"HELLO", "HELLOACK"}
    BY <1>5, <1>6 DEF Data
  <1>8. /\ stage'[c] \in {"open", "closed"}
        /\ stage'[c] = "open" => local'[c].id = k.id
        /\ \A d \in Conn \ {c} : stage'[d] = stage[d] /\ local'[d] = local[d]
    BY <1>1, <1>3, <1>4 DEF LocalOK
  <1> QED
    BY <1>4, <1>7, <1>8 DEF LocalFrame

LEMMA LocalReceiveShape ==
    ASSUME Known, NEW c \in Conn, LocalReceive(c)
    PROVE  LocalShape(c)
  <1>1. PICK p \in down :
            \/ LocalRecvGoodbye(c, p)
            \/ LocalRecvHelloAck(c, p)
            \/ LocalRecvData(c, p)
            \/ LocalRecvAck(c, p)
    BY DEF LocalReceive
  <1>2. LocalRecv(c, p)
    BY <1>1 DEF LocalRecvGoodbye, LocalRecvHelloAck, LocalRecvData, LocalRecvAck
  <1>3. NetOK /\ LocalOK /\ HoldInv
    BY KnownGives
  <1>4. p \in Message /\ Listed(c) /\ p.conn = c /\ Deliver(down, p, down')
    BY <1>2, <1>3, LocalRecvGives DEF LocalRecv
  <1>5. down' \subseteq down /\ \A q \in down \ down' : q.conn = c
    BY <1>4 DEF Deliver
  <1> DEFINE k == local[c]
  <1>6. k \in ClientT /\ k.udp_sock = c /\ Steady(k)
    BY <1>3, <1>4, ListedClient
  <1>7. p.id \in Id /\ (p.type \in Data => p.chunk \in Chunk)
    BY <1>4, MessageFields
  <1>8. p.type \in Data \union Ack => stage[c] = "open" /\ Holds(k.id, c)
    BY <1>3, <1>4 DEF HoldInv, Calm, Silent, Listed, Holds, Data, Ack
  <1>9. CASE LocalRecvGoodbye(c, p)
    <2>1. LocalDisconnect(c, k, {}) /\ p.type = "GOODBYE"
      BY <1>9 DEF LocalRecvGoodbye
    <2>0. stage[c] = "open" => Holds(k.id, c)
      BY DEF Holds
    <2>2. /\ LocalFrame(c)
          /\ stage'[c] = "open" => local'[c].id = k.id
          /\ \A q \in up' \ up : q.id = k.id
          /\ \A q \in up' \ up : q.type \notin {"HELLO", "HELLOACK"}
      BY <1>4, <1>5, <1>6, <2>0, <2>1, LocalFramed
    <2>3. CASE stage[c] = "open"
      BY <2>2, <2>3 DEF LocalShape, OpenMove
    <2>4. CASE stage[c] = "pending"
      <3>1. stage'[c] = "closed" /\ up' \subseteq up \union {Goodbye(k)}
        BY <1>3, <1>4, <1>6, <2>0, <2>1, HeldDisconnects DEF LocalOK
      <3>2. \A q \in up' \ up : q.type = "GOODBYE"
        BY <3>1, SentForItself
      <3>3. TurnedAway(c, p)
        BY <1>4, <2>1, <2>4, <3>1, <3>2 DEF TurnedAway
      <3> QED
        BY <2>2, <3>3 DEF LocalShape
    <2> QED
      BY <1>4, <2>3, <2>4 DEF Listed
  <1>10. CASE LocalRecvHelloAck(c, p)
    <2> DEFINE l == [client_got_helloack(k) EXCEPT !.id = p.id]
               ack == {Packet(c, p.id, "HELLOACK")}
    <2>1. l \in ClientT /\ l.udp_sock = c /\ l.id = p.id
      BY <1>6, <1>7, GotHelloAck, Updates DEF SameName, ClientT
    <2>2. p.type = "HELLOACK" /\ LocalGoOn(c, l, ack)
      BY <1>10 DEF LocalRecvHelloAck
    <2>3. Holds(l.id, c)
      BY <1>4, <2>1, <2>2 DEF Holds
    <2>4. \A q \in ack : q.conn = c /\ q.id = l.id /\ q.type # "HELLO"
      BY <2>1 DEF Packet
    <2> HIDE DEF l
    <2>5. /\ LocalFrame(c)
          /\ stage'[c] = "open" => local'[c].id = l.id
          /\ \A q \in up' \ up : q.id = l.id
          /\ \A q \in up' \ up : q \in ack \/ q.type \notin {"HELLO", "HELLOACK"}
      <3> HIDE DEF ack
      <3> QED
        BY <1>4, <1>5, <2>1, <2>2, <2>3, <2>4, LocalFramed
    <2>6. HelloAckMove(c, p)
      BY <1>4, <2>1, <2>2, <2>5 DEF HelloAckMove
    <2> QED
      BY <2>5, <2>6 DEF LocalShape
  <1>11. ASSUME p.type \in Data \union Ack, NEW l \in ClientT, SameName(l, k),
                NEW sent, \A q \in sent : q.conn = c /\ q.id = k.id /\ q.type \in Ack,
                LocalGoOn(c, l, sent) \/ LocalDisconnect(c, l, sent)
         PROVE  LocalShape(c)
    <2>1. l.id = k.id /\ l.udp_sock = c
      BY <1>6, <1>11 DEF SameName
    <2>2. \A q \in sent : q.type \notin {"HELLO", "HELLOACK"}
      BY <1>11 DEF Ack
    <2>3. Holds(l.id, c) /\ stage[c] = "open"
      BY <1>8, <1>11, <2>1
    <2>4. \A q \in sent : q.conn = c /\ q.id = l.id /\ q.type # "HELLO"
      BY <1>11, <2>1, <2>2
    <2>5. /\ LocalFrame(c)
          /\ stage'[c] = "open" => local'[c].id = l.id
          /\ \A q \in up' \ up : q.id = l.id
          /\ \A q \in up' \ up : q \in sent \/ q.type \notin {"HELLO", "HELLOACK"}
      BY <1>4, <1>5, <1>11, <2>1, <2>3, <2>4, LocalFramed
    <2>6. OpenMove(c)
      BY <2>1, <2>2, <2>3, <2>5 DEF OpenMove
    <2> QED
      BY <2>5, <2>6 DEF LocalShape
  <1>12. CASE LocalRecvData(c, p)
    <2> DEFINE l == AfterWrite(k, p.chunk)
               f == AfterFailedWrite(k)
               ack == {AckFor(k, p.type)}
    <2>1. p.type \in Data
      BY <1>12 DEF LocalRecvData
    <2>2. /\ l \in ClientT /\ SameName(l, k) /\ SameName(k, k)
          /\ f \in ClientT /\ SameName(f, k)
      BY <1>6, <1>7, <2>1, Write, FailedWrite DEF SameName
    <2>3. \A q \in ack : q.conn = c /\ q.id = k.id /\ q.type \in Ack
      BY <1>6, SentForItself, SentUnderId
    <2>4. \/ LocalGoOn(c, k, ack)
          \/ LocalGoOn(c, l, ack)
          \/ LocalDisconnect(c, f, ack)
      BY <1>12 DEF LocalRecvData
    <2> HIDE DEF l, f, ack
    <2> QED
      BY <1>6, <1>11, <2>1, <2>2, <2>3, <2>4
  <1>13. CASE LocalRecvAck(c, p)
    <2> DEFINE l == client_got_ack(k, p.type)
    <2>1. l \in ClientT /\ SameName(l, k) /\ SameName(k, k)
      BY <1>6, GotAck DEF SameName
    <2>2. /\ p.type \in Ack
          /\ LocalGoOn(c, l, {}) \/ LocalDisconnect(c, k, {})
      BY <1>13 DEF LocalRecvAck
    <2> HIDE DEF l
    <2> QED
      BY <1>6, <1>11, <2>1, <2>2
  <1> QED
    BY <1>1, <1>9, <1>10, <1>12, <1>13

LEMMA LocalTcpShape ==
    ASSUME Known, NEW c \in Conn, LocalTcp(c) \/ LocalCheck(c)
    PROVE  LocalShape(c)
  <1> DEFINE k == local[c]
  <1>1. stage[c] = "open" /\ down' = down
    BY DEF LocalTcp, LocalTcpData, LocalTcpEof, LocalTcpError, LocalCheck
  <1>2. LocalOK /\ HoldInv
    BY KnownGives
  <1>3. k \in ClientT /\ k.udp_sock = c /\ Steady(k) /\ Listed(c)
    BY <1>1, <1>2, ListedClient DEF Listed
  <1>4. ASSUME NEW l \in ClientT, SameName(l, k),
               \/ LocalGoOn(c, l, {})
               \/ LocalDisconnect(c, l, {})
               \/ local' = [local EXCEPT ![c] = l] /\ UNCHANGED <<stage, up>>
        PROVE  LocalShape(c)
    <2>1. l.id = k.id /\ l.udp_sock = c /\ Holds(l.id, c)
      BY <1>1, <1>3, <1>4 DEF SameName, Holds
    <2>2. /\ LocalFrame(c)
          /\ stage'[c] = "open" => local'[c].id = l.id
          /\ \A q \in up' \ up : q.id = l.id
          /\ \A q \in up' \ up : q.type \notin {"HELLO", "HELLOACK"}
      BY <1>1, <1>3, <1>4, <2>1, LocalFramed
    <2>3. OpenMove(c)
      BY <1>1, <2>1, <2>2 DEF OpenMove
    <2> QED
      BY <2>2, <2>3 DEF LocalShape
  <1>5. CASE LocalTcpData(c)
    <2>1. PICK l \in client_recv_tcp_data(k) : LocalGoOn(c, l, {})
      BY <1>5 DEF LocalTcpData
    <2>2. l \in ClientT /\ SameName(l, k)
      BY <1>3, <1>5, RecvTcp, LocalMayRead
    <2> QED
      BY <1>4, <2>1, <2>2
  <1>6. CASE LocalTcpEof(c)
    <2>1. AtEof(k) \in ClientT /\ SameName(AtEof(k), k)
      BY <1>3, Eof
    <2> QED
      BY <1>2, <1>4, <1>6, <2>1, HeldEof
  <1>7. CASE LocalTcpError(c)
    BY <1>3, <1>4, <1>7 DEF LocalTcpError, SameName
  <1>8. CASE LocalCheck(c)
    <2> DEFINE l == client_check_and_resend(k)
    <2>1. l \in ClientT /\ SameName(l, k)
      BY <1>3, <1>8, Check DEF LocalCheck, TimeoutIsUp
    <2>2. \/ LocalDisconnect(c, l, {})
          \/ local' = [local EXCEPT ![c] = l] /\ UNCHANGED <<stage, up>>
      BY <1>8 DEF LocalCheck
    <2> HIDE DEF l
    <2> QED
      BY <1>4, <2>1, <2>2
  <1> QED
    BY <1>5, <1>6, <1>7, <1>8 DEF LocalTcp

-----------------------------------------------------------------------------
(* udpserver: what any iteration about the client with id i does to the    *)
(* list and to the messages in flight.                                     *)

RemoteFrame(i) ==
    /\ remote[i] # NoClient
    /\ \A j \in Id \ {i} : remote'[j] = remote[j]
    /\ remote'[i] # NoClient => remote'[i].udp_sock = remote[i].udp_sock
    /\ up' \subseteq up
    /\ down \subseteq down'
    /\ \A p \in down' \ down : p.conn = remote[i].udp_sock /\ p.type # "HELLOACK"
    /\ next_client_id' = next_client_id

\* A client_t leaves WAIT_HELLO when a HELLOACK for it arrives, never else.
Greeted(i) == \E p \in up : p.type = "HELLOACK" /\ p.id = i /\ Deliver(up, p, up')

StillWaits(i) ==
    remote'[i] # NoClient /\ remote[i].udp2tcp_state = "WAIT_HELLO"
        => remote'[i].udp2tcp_state = "WAIT_HELLO" \/ Greeted(i)

\* Before udpclient answered the HELLOACK, a client_t can only be removed: by
\* the timeout, or by a GOODBYE whose id is not that of its sender.
OnlyRemoved(i) ==
    Silent(remote[i].udp_sock) =>
        /\ remote'[i] = NoClient
        /\ \/ KeepaliveRunsOut(i)
           \/ \E p \in up : p.type = "GOODBYE" /\ p.id = i

RemoteShape(i) == RemoteFrame(i) /\ StillWaits(i) /\ OnlyRemoved(i)

NothingDone == up' \subseteq up /\ UNCHANGED <<remote, next_client_id, down>>

LEMMA RemoteFramed ==
    ASSUME Known, NEW i \in Id, remote[i] # NoClient, up' \subseteq up,
           next_client_id' = next_client_id,
           NEW k \in ClientT, k.udp_sock = remote[i].udp_sock,
           NEW sent, \A p \in sent : p.conn = k.udp_sock /\ p.type # "HELLOACK",
           \/ RemotePass(i, k, sent)
           \/ RemoteDisconnect(i, k, sent)
           \/ remote' = [remote EXCEPT ![i] = k] /\ UNCHANGED down
    PROVE  /\ RemoteFrame(i)
           /\ remote'[i] # NoClient => remote'[i].udp2tcp_state = k.udp2tcp_state
  <1>1. RemoteOK
    BY KnownGives
  <1>2. AfterSend(k).udp_sock = k.udp_sock /\ AfterSend(k).udp2tcp_state = k.udp2tcp_state
    BY DEF AfterSend, ClientT
  <1>3. /\ \/ remote' = [remote EXCEPT ![i] = NoClient]
           \/ remote' = [remote EXCEPT ![i] = k]
           \/ remote' = [remote EXCEPT ![i] = AfterSend(k)]
        /\ down \subseteq down'
        /\ down' \subseteq down \union sent \union {Goodbye(k)} \union DataSent(k)
    BY DEF RemotePass, RemoteDisconnect
  <1>4. /\ Goodbye(k).conn = k.udp_sock /\ Goodbye(k).type = "GOODBYE"
        /\ \A p \in DataSent(k) : p.conn = k.udp_sock /\ p.type \in Data
    BY SentForItself
  <1>5. \A p \in down' \ down : p.conn = remote[i].udp_sock /\ p.type # "HELLOACK"
    BY <1>3, <1>4 DEF Data
  <1>6. /\ \A j \in Id \ {i} : remote'[j] = remote[j]
        /\ remote'[i] # NoClient =>
              /\ remote'[i].udp_sock = remote[i].udp_sock
              /\ remote'[i].udp2tcp_state = k.udp2tcp_state
    BY <1>1, <1>2, <1>3 DEF RemoteOK
  <1> QED
    BY <1>3, <1>5, <1>6 DEF RemoteFrame

LEMMA RemoteRecvForShape ==
    ASSUME Known, UNCHANGED localVars, NEW p,
           \/ RemoteRecvHelloAck(p)
           \/ RemoteRecvGoodbye(p)
           \/ RemoteRecvData(p)
           \/ RemoteRecvAck(p)
    PROVE  NothingDone \/ (p.id \in Id /\ RemoteShape(p.id))
  <1>1. RemoteRecvFor(p)
    BY DEF RemoteRecvHelloAck, RemoteRecvGoodbye, RemoteRecvData, RemoteRecvAck
  <1>2. RemoteSide /\ RemoteOK /\ OwnInv /\ HoldInv
    BY KnownGives
  <1>3. p \in up /\ p \in Message /\ Deliver(up, p, up') /\ up' \subseteq up
    BY <1>1, <1>2, RemoteRecvGives DEF RemoteRecvFor, RemoteRecv, Deliver, Deliverable
  <1>4. p.id \in Id /\ (p.type \in Data => p.chunk \in Chunk)
    BY <1>3, MessageFields
  <1>5. remote[p.id] # NoClient /\ next_client_id' = next_client_id
    BY <1>1 DEF RemoteRecvFor
  <1> DEFINE k == remote[p.id]
  <1>6. k \in ClientT /\ Good(k) /\ Steady(k) /\ (Silent(k.udp_sock) => Unused(k))
    BY <1>2, <1>4, <1>5, RemoteClient DEF HoldInv, Calm
  <1>7. p.type \in Data \union {"HELLOACK"} => ~ Silent(k.udp_sock)
    BY <1>2, <1>3, <1>5 DEF OwnInv, OwnUp, Owned, HoldInv, Calm, Data
  <1>8. CASE RemoteRecvHelloAck(p)
    <2> DEFINE l == [client_got_helloack(k) EXCEPT !.connected = TRUE]
    <2>1. l \in ClientT /\ l.udp_sock = k.udp_sock
      BY <1>4, <1>6, GotHelloAck, Updates DEF SameName
    <2>2. /\ p.type = "HELLOACK"
          /\ RemoteDisconnect(p.id, k, {}) \/ RemotePass(p.id, l, {})
      BY <1>8 DEF RemoteRecvHelloAck
    <2> HIDE DEF l
    <2>3. RemoteFrame(p.id)
      BY <1>3, <1>4, <1>5, <1>6, <2>1, <2>2, RemoteFramed
    <2>4. StillWaits(p.id)
      BY <1>3, <2>2 DEF StillWaits, Greeted
    <2> QED
      BY <1>4, <1>7, <2>2, <2>3, <2>4 DEF RemoteShape, OnlyRemoved
  <1>9. CASE RemoteRecvGoodbye(p)
    <2>1. RemoteDisconnect(p.id, k, {}) /\ p.type = "GOODBYE"
      BY <1>9 DEF RemoteRecvGoodbye
    <2>2. remote'[p.id] = NoClient
      BY <1>2, <1>4, <2>1 DEF RemoteDisconnect, RemoteOK
    <2>3. RemoteFrame(p.id)
      BY <1>3, <1>4, <1>5, <1>6, <2>1, RemoteFramed
    <2> QED
      BY <1>3, <1>4, <2>1, <2>2, <2>3 DEF RemoteShape, StillWaits, OnlyRemoved
  <1>10. CASE RemoteRecvData(p)
    <2> DEFINE l == AfterWrite(k, p.chunk)
               ack == {AckFor(k, p.type)}
    <2>1. p.type \in Data
      BY <1>10 DEF RemoteRecvData
    <2>2. l \in ClientT /\ l.udp_sock = k.udp_sock
      BY <1>4, <1>6, <2>1, Write DEF SameName
    <2>3. \A q \in ack : q.conn = k.udp_sock /\ q.type # "HELLOACK"
      BY DEF AckFor, Packet
    <2>4. IsNewData(k, p.type) => k.udp2tcp_state # "WAIT_HELLO"
      BY DEF IsNewData
    <2>5. \/ RemotePass(p.id, k, ack)
          \/ IsNewData(k, p.type) /\ RemotePass(p.id, l, ack)
          \/ RemoteDisconnect(p.id, k, ack)
      BY <1>10 DEF RemoteRecvData
    <2> HIDE DEF l, ack
    <2>6. /\ RemoteFrame(p.id)
          /\ \/ remote'[p.id] # NoClient => remote'[p.id].udp2tcp_state = k.udp2tcp_state
             \/ IsNewData(k, p.type)
      BY <1>3, <1>4, <1>5, <1>6, <2>2, <2>3, <2>5, RemoteFramed
    <2>7. StillWaits(p.id)
      BY <2>4, <2>6 DEF StillWaits
    <2> QED
      BY <1>4, <1>7, <2>1, <2>6, <2>7 DEF RemoteShape, OnlyRemoved
  <1>11. CASE RemoteRecvAck(p)
    <2> DEFINE l == client_got_ack(k, p.type)
    <2>1. l \in ClientT /\ l.udp_sock = k.udp_sock /\ l.udp2tcp_state = k.udp2tcp_state
      <3>1. l \in ClientT /\ l.udp_sock = k.udp_sock
        BY <1>6, GotAck DEF SameName
      <3>2. l.udp2tcp_state = k.udp2tcp_state
        BY <1>6 DEF client_got_ack, ClientT
      <3> QED
        BY <3>1, <3>2
    <2>2. RemotePass(p.id, l, {})
      BY <1>11 DEF RemoteRecvAck
    <2>3. Unused(k) => l = k
      BY DEF Unused, client_got_ack, IsExpectedAck, WaitsForAck
    <2> HIDE DEF l
    <2>4. CASE Silent(k.udp_sock)
      <3>1. RemotePass(p.id, k, {}) /\ Unused(k)
        BY <1>6, <2>2, <2>3, <2>4
      <3>2. ~ MustGo(k) /\ DataSent(k) = {} /\ AfterSend(k) = k
        BY <1>6, <3>1 DEF Good, Settled, Unused, DataSent, AfterSend
      <3>3. remote' = [remote EXCEPT ![p.id] = k] /\ down' = down
        BY <3>1, <3>2 DEF RemotePass
      <3>4. remote' = remote
        BY <1>2, <1>4, <3>3 DEF RemoteOK
      <3> QED
        BY <1>3, <1>5, <3>3, <3>4 DEF NothingDone
    <2>5. CASE ~ Silent(k.udp_sock)
      <3>1. /\ RemoteFrame(p.id)
            /\ remote'[p.id] # NoClient => remote'[p.id].udp2tcp_state = l.udp2tcp_state
        BY <1>3, <1>4, <1>5, <1>6, <2>1, <2>2, RemoteFramed
      <3> QED
        BY <1>4, <2>1, <2>5, <3>1 DEF RemoteShape, StillWaits, OnlyRemoved
    <2> QED
      BY <2>4, <2>5
  <1> QED
    BY <1>8, <1>9, <1>10, <1>11

LEMMA RemoteTcpShape ==
    ASSUME Known, UNCHANGED localVars, NEW i \in Id,
           RemoteTcp(i) \/ RemoteCheck(i) \/ KeepaliveRunsOut(i)
    PROVE  RemoteShape(i)
  <1> DEFINE k == remote[i]
  <1>1. k # NoClient /\ up' = up /\ next_client_id' = next_client_id
    BY DEF RemoteTcp, RemoteTcpData, RemoteTcpEof, RemoteTcpError, RemoteCheck,
           KeepaliveRunsOut, RemoteTimeout
  <1>2. RemoteOK /\ OwnInv /\ HoldInv
    BY KnownGives
  <1>3. k \in ClientT /\ Steady(k) /\ (Silent(k.udp_sock) => Unused(k))
    BY <1>1, <1>2, RemoteClient DEF HoldInv, Calm
  <1>4. ASSUME NEW l \in ClientT, SameName(l, k), l.udp2tcp_state = k.udp2tcp_state,
               OnlyRemoved(i),
               \/ RemotePass(i, l, {})
               \/ RemoteDisconnect(i, l, {})
               \/ remote' = [remote EXCEPT ![i] = l] /\ UNCHANGED down
        PROVE  RemoteShape(i)
    <2>1. /\ RemoteFrame(i)
          /\ remote'[i] # NoClient => remote'[i].udp2tcp_state = l.udp2tcp_state
      BY <1>1, <1>4, RemoteFramed DEF SameName
    <2> QED
      BY <1>4, <2>1 DEF RemoteShape, StillWaits
  <1>5. k.connected \/ WaitsForAck(k) => OnlyRemoved(i)
    BY <1>3 DEF Unused, OnlyRemoved
  <1>6. CASE RemoteTcpData(i)
    <2>1. PICK l \in client_recv_tcp_data(k) : RemotePass(i, l, {})
      BY <1>6 DEF RemoteTcpData
    <2>2. l \in ClientT /\ SameName(l, k)
      BY <1>3, <1>6, RecvTcp DEF RemoteTcpData
    <2>3. l.udp2tcp_state = k.udp2tcp_state
      BY <1>3 DEF client_recv_tcp_data, Queued, Dropped, ClientT
    <2>4. k.connected
      BY <1>6 DEF RemoteTcpData
    <2> QED
      BY <1>4, <1>5, <2>1, <2>2, <2>3, <2>4
  <1>7. CASE RemoteTcpEof(i)
    <2>1. AtEof(k) \in ClientT /\ SameName(AtEof(k), k)
      BY <1>3, Eof
    <2>2. AtEof(k).udp2tcp_state = k.udp2tcp_state
      BY <1>3 DEF AtEof, ClientT
    <2>3. k.connected /\ RemotePass(i, AtEof(k), {})
      BY <1>7 DEF RemoteTcpEof
    <2> QED
      BY <1>4, <1>5, <2>1, <2>2, <2>3
  <1>8. CASE RemoteTcpError(i)
    BY <1>3, <1>4, <1>5, <1>8 DEF RemoteTcpError, SameName
  <1>9. CASE RemoteCheck(i)
    <2> DEFINE l == client_check_and_resend(k)
    <2>1. WaitsForAck(k)
      BY <1>9 DEF RemoteCheck, TimeoutIsUp
    <2>2. l \in ClientT /\ SameName(l, k)
      BY <1>3, <2>1, Check
    <2>3. l.udp2tcp_state = k.udp2tcp_state
      BY <1>3 DEF client_check_and_resend, ClientT
    <2>4. \/ RemoteDisconnect(i, l, {})
          \/ remote' = [remote EXCEPT ![i] = l] /\ UNCHANGED down
      BY <1>9 DEF RemoteCheck
    <2> HIDE DEF l
    <2> QED
      BY <1>4, <1>5, <2>1, <2>2, <2>3, <2>4
  <1>10. CASE KeepaliveRunsOut(i)
    <2>1. RemoteDisconnect(i, k, {})
      BY <1>1, <1>2, <1>10 DEF KeepaliveRunsOut, RemoteTimeout, OwnInv, OwnRemote
    <2>2. remote'[i] = NoClient
      BY <1>2, <2>1 DEF RemoteDisconnect, RemoteOK
    <2>3. OnlyRemoved(i)
      BY <1>10, <2>2 DEF OnlyRemoved
    <2> QED
      BY <1>3, <1>4, <2>1, <2>3 DEF SameName
  <1> QED
    BY <1>6, <1>7, <1>8, <1>9, <1>10 DEF RemoteTcp

\* A HELLO for which a client_t is created.
Created(p) ==
    /\ p \in up /\ p.type = "HELLO"
    /\ Deliver(up, p, up')
    /\ next_client_id \in Id \ {0}
    /\ next_client_id' = next_client_id + 1
    /\ remote[next_client_id] = NoClient
    /\ remote' = [remote EXCEPT ![next_client_id] =
                      client_create(next_client_id, p.conn, FALSE, next_client_id)]
    /\ \E q : /\ down' = down \union {q}
              /\ q.conn = p.conn
              /\ IF Verdict(p.conn) = "allow"
                 THEN q = Packet(p.conn, next_client_id, "HELLOACK")
                 ELSE q.type = "GOODBYE"

\* As the counter has not wrapped, the entry is a new one.
LEMMA RemoteRecvHelloShape ==
    ASSUME MaxHello \in Nat, MaxHello =< IdMod, Known, NEW p, RemoteRecvHello(p)
    PROVE  NothingDone \/ Created(p)
  <1>1. p \in up /\ Deliver(up, p, up') /\ up' \subseteq up /\ p.type = "HELLO"
    BY DEF RemoteRecvHello, RemoteRecv, Deliver, Deliverable
  <1>2. OwnInv
    BY KnownGives
  <1>3. CASE UNCHANGED <<remote, next_client_id, down>>
    BY <1>1, <1>3 DEF NothingDone
  <1>4. CASE ~ UNCHANGED <<remote, next_client_id, down>>
    <2> DEFINE c == p.conn
               new == client_create(next_client_id, c, FALSE, next_client_id)
    <2>1. /\ next_client_id < MaxHello
          /\ next_client_id' = next_client_id + 1
          /\ remote' = [remote EXCEPT ![NewId] = Entry(c)]
          /\ down' = down \union {HelloReply(c)}
      BY <1>4 DEF RemoteRecvHello
    <2>2. next_client_id \in 1 .. (IdMod - 1)
      BY <1>2, <2>1, IdModAssumption DEF OwnInv, IdsLeft
    <2>3. NewId = next_client_id /\ NewId \in Id \ {0}
      BY <2>2, IdModAssumption DEF NewId, Id
    <2>4. remote[NewId] = NoClient
      BY <1>2, <2>2, <2>3 DEF OwnInv, OwnRemote
    <2>5. Entry(c) = new
      BY <2>3, <2>4 DEF Entry
    <2>6. new.udp_sock = c /\ new.id = next_client_id
      BY DEF client_create
    <2> HIDE DEF new
    <2>7. /\ HelloReply(c).conn = c
          /\ IF Verdict(c) = "allow"
             THEN HelloReply(c) = Packet(c, next_client_id, "HELLOACK")
             ELSE HelloReply(c).type = "GOODBYE"
      BY <2>5, <2>6 DEF HelloReply, Packet
    <2> QED
      BY <1>1, <2>1, <2>3, <2>4, <2>5, <2>7 DEF Created, new
  <1> QED
    BY <1>3, <1>4

LEMMA RemoteShaped ==
    ASSUME MaxHello \in Nat, MaxHello =< IdMod, Known, UNCHANGED localVars, RemoteNext
    PROVE  \/ NothingDone
           \/ \E p : Created(p)
           \/ \E i \in Id : RemoteShape(i)
  <1>1. ASSUME NEW c \in Conn, RemoteReceive(c)
        PROVE  NothingDone \/ (\E p : Created(p)) \/ \E i \in Id : RemoteShape(i)
    <2>1. ASSUME NEW p, RemoteIgnore(p)
          PROVE  NothingDone
      BY <2>1 DEF RemoteIgnore, RemoteRecv, Deliver, NothingDone
    <2> QED
      BY <1>1, <2>1, RemoteRecvHelloShape, RemoteRecvForShape DEF RemoteReceive
  <1> QED
    BY <1>1, RemoteTcpShape DEF RemoteNext

-----------------------------------------------------------------------------
(* A step of the system is one of these.                                   *)

\* Messages are lost, ignored or dropped by a socket that is closed.
Vanishes ==
    /\ UNCHANGED <<stage, local, remote, next_client_id>>
    /\ up' \subseteq up
    /\ down' \subseteq down
    /\ \A p \in down \ down' : "loss" \in Faults \/ ~ Listed(p.conn)

LEMMA StepShape ==
    ASSUME MaxHello \in Nat, MaxHello =< IdMod, Known, [Next]_vars
    PROVE  \/ Vanishes
           \/ UNCHANGED remoteVars /\ \E c \in Conn : Accept(c) \/ LocalShape(c)
           \/ UNCHANGED localVars /\ \E p : Created(p)
           \/ UNCHANGED localVars /\ \E i \in Id : RemoteShape(i)
  <1>1. CASE LocalNext /\ UNCHANGED remoteVars
    <2>1. ASSUME NEW p \in down, DropStray(p)
          PROVE  Vanishes
      BY <1>1, <2>1 DEF DropStray, Vanishes, localVars, remoteVars
    <2> QED
      BY <1>1, <2>1, LocalReceiveShape, LocalTcpShape DEF LocalNext
  <1>2. CASE RemoteNext /\ UNCHANGED localVars
    <2>1. NothingDone => Vanishes
      BY <1>2 DEF NothingDone, Vanishes, localVars
    <2> QED
      BY <1>2, <2>1, RemoteShaped
  <1>3. CASE (LoseUp \/ LoseDown) /\ UNCHANGED <<localVars, remoteVars>>
    BY <1>3 DEF LoseUp, LoseDown, Vanishes, localVars, remoteVars
  <1>4. CASE UNCHANGED vars
    BY <1>4 DEF vars, netVars, localVars, remoteVars, Vanishes
  <1> QED
    BY <1>1, <1>2, <1>3, <1>4 DEF Next

\* An id stays whose it is.
LEMMA OwnedStays ==
    ASSUME MaxHello \in Nat, MaxHello =< IdMod, Known, [Next]_vars,
           NEW i \in Id, NEW c, Owned(i, c)
    PROVE  Owned(i, c)'
  <1>1. i \in Nat /\ RemoteOK
    BY KnownGives, IdModAssumption DEF Id
  <1>2. CASE Vanishes
    BY <1>2 DEF Vanishes, Owned
  <1>3. CASE UNCHANGED remoteVars
    BY <1>3, OwnedByAll
  <1>4. ASSUME NEW p, Created(p)
        PROVE  Owned(i, c)'
    <2>1. next_client_id \in Nat
      BY <1>4, IdModAssumption DEF Created, Id
    <2>2. i # next_client_id /\ i < next_client_id'
      BY <1>1, <1>4, <2>1 DEF Owned, Created
    <2>3. remote'[i] = remote[i]
      BY <1>1, <1>4, <2>2 DEF Created, RemoteOK
    <2> QED
      BY <2>2, <2>3 DEF Owned
  <1>5. ASSUME NEW j \in Id, RemoteShape(j)
        PROVE  Owned(i, c)'
    <2>1. remote'[i] # NoClient => remote[i] # NoClient /\ remote'[i].udp_sock = remote[i].udp_sock
      BY <1>5 DEF RemoteShape, RemoteFrame
    <2> QED
      BY <1>5, <2>1 DEF Owned, RemoteShape, RemoteFrame
  <1> QED
    BY <1>2, <1>3, <1>4, <1>5, StepShape

-----------------------------------------------------------------------------
(* A connection that was not accepted yet is unknown to everybody.         *)

Unknown(c) == Quiet(c) /\ \A i \in Id : remote[i] # NoClient => remote[i].udp_sock # c

IdleInv == \A c \in Conn : stage[c] = "idle" => Unknown(c)

LEMMA IdleStep ==
    ASSUME MaxHello \in Nat, MaxHello =< IdMod, Known, IdleInv, [Next]_vars
    PROVE  IdleInv'
  <1> SUFFICES ASSUME NEW d \in Conn, stage'[d] = "idle"
               PROVE  Unknown(d)'
    BY DEF IdleInv
  <1>1. LocalOK /\ RemoteOK
    BY KnownGives
  <1>2. CASE Vanishes
    BY <1>2 DEF Vanishes, IdleInv, Unknown, Quiet
  <1>3. ASSUME UNCHANGED remoteVars, NEW c \in Conn, Accept(c)
        PROVE  Unknown(d)'
    <2>1. stage' = [stage EXCEPT ![c] = "pending"] /\ up' = up \union {Packet(c, 0, "HELLO")}
          /\ down' = down
      BY <1>3 DEF Accept
    <2>2. d # c /\ stage[d] = "idle"
      BY <1>1, <2>1 DEF LocalOK
    <2>3. Packet(c, 0, "HELLO").conn = c
      BY DEF Packet
    <2> QED
      BY <1>3, <2>1, <2>2, <2>3 DEF IdleInv, Unknown, Quiet, remoteVars
  <1>4. ASSUME UNCHANGED remoteVars, NEW c \in Conn, LocalShape(c)
        PROVE  Unknown(d)'
    <2>1. d # c /\ stage[d] = "idle"
      BY <1>4 DEF LocalShape, LocalFrame
    <2> QED
      BY <1>4, <2>1 DEF IdleInv, Unknown, Quiet, remoteVars, LocalShape, LocalFrame
  <1>5. ASSUME UNCHANGED localVars, NEW p, Created(p)
        PROVE  Unknown(d)'
    <2>1. stage[d] = "idle" /\ Unknown(d)
      BY <1>5 DEF localVars, IdleInv
    <2>2. p \in up /\ p.conn # d /\ up' \subseteq up
      BY <1>5, <2>1 DEF Created, Deliver, Unknown, Quiet
    <2>3. PICK q : down' = down \union {q} /\ q.conn = p.conn
      BY <1>5 DEF Created
    <2>4. Quiet(d)'
      BY <2>1, <2>2, <2>3 DEF Unknown, Quiet
    <2>5. client_create(next_client_id, p.conn, FALSE, next_client_id).udp_sock = p.conn
      BY DEF client_create
    <2>6. \A i \in Id : remote'[i] # NoClient => remote'[i].udp_sock # d
      BY <1>1, <1>5, <2>1, <2>2, <2>5 DEF Created, RemoteOK, Unknown
    <2> QED
      BY <2>4, <2>6 DEF Unknown
  <1>6. ASSUME UNCHANGED localVars, NEW i \in Id, RemoteShape(i)
        PROVE  Unknown(d)'
    <2>1. stage[d] = "idle" /\ Unknown(d)
      BY <1>6 DEF localVars, IdleInv
    <2> QED
      BY <1>6, <2>1 DEF Unknown, Quiet, RemoteShape, RemoteFrame
  <1> QED
    BY <1>2, <1>3, <1>4, <1>5, <1>6, StepShape

LEMMA IdleInit == Init => IdleInv
  BY DEF Init, NetInit, LocalInit, RemoteInit, IdleInv, Unknown, Quiet

-----------------------------------------------------------------------------
(* Nobody speaks for another connection, if no message is lost and nobody  *)
(* is denied: a client that gets a GOODBYE before the HELLOACK answers     *)
(* with a GOODBYE that carries the request id, which may be the client id  *)
(* of another connection.  Neither the keepalive timeout nor a denial then *)
(* sends one to a client that has not had its HELLOACK.                    *)

OfferComes(i) == Packet(remote[i].udp_sock, i, "HELLOACK") \in down

GuestInv ==
    /\ \A p \in up : p.type # "HELLO" => Owned(p.id, p.conn)
    /\ \A p \in down : Silent(p.conn) => p.type = "HELLOACK"
    /\ \A i \in Id : remote[i] # NoClient /\ Silent(remote[i].udp_sock) => OfferComes(i)

\* A client_t whose connection has not answered is left alone.
LEMMA NotRemoved ==
    ASSUME Known, GuestInv, "loss" \notin Faults, \A c \in Conn : Verdict(c) = "allow",
           NEW i \in Id, RemoteShape(i)
    PROVE  ~ Silent(remote[i].udp_sock)
  <1> SUFFICES ASSUME Silent(remote[i].udp_sock) PROVE FALSE
    OBVIOUS
  <1>1. remote[i] # NoClient /\ remote[i].udp_sock \in Conn
    BY KnownGives, RemoteClient DEF RemoteShape, RemoteFrame, ClientT
  <1>2. CASE KeepaliveRunsOut(i)
    <2>1. OfferComes(i)
      BY <1>1 DEF GuestInv
    <2>2. ~ Quiet(remote[i].udp_sock)
      BY <2>1 DEF OfferComes, Quiet, Packet
    <2> QED
      BY <1>1, <1>2, <2>2 DEF KeepaliveRunsOut, KeptAlive
  <1>3. ASSUME NEW p \in up, p.type = "GOODBYE", p.id = i
        PROVE  FALSE
    BY <1>1, <1>3, KnownGives DEF GuestInv, Owned, HoldInv, Calm
  <1> QED
    BY <1>2, <1>3 DEF RemoteShape, OnlyRemoved

LEMMA GuestStep ==
    ASSUME MaxHello \in Nat, MaxHello =< IdMod, "loss" \notin Faults,
           \A c \in Conn : Verdict(c) = "allow",
           Known, IdleInv, GuestInv, [Next]_vars
    PROVE  GuestInv'
  <1>1. LocalOK /\ RemoteOK /\ NetOK /\ OwnInv /\ HoldInv
    BY KnownGives
  <1>2. \A p \in up : p.type # "HELLO" => Owned(p.id, p.conn)'
    BY <1>1, OwnedStays, MessageFields DEF GuestInv, NetOK
  <1>3. \A p \in up \union down : p.conn \in Conn
    BY <1>1, MessageFields DEF NetOK
  <1>4. \A i \in Id : remote[i] # NoClient => remote[i].udp_sock \in Conn
    BY <1>1, RemoteClient DEF ClientT
  <1>5. CASE Vanishes
    <2>1. \A p \in down : Silent(p.conn) => p \in down'
      BY <1>3, <1>5 DEF Vanishes, Listed, Silent, IdleInv, Unknown, Quiet
    <2>2. \A i \in Id : OfferComes(i) /\ Silent(remote[i].udp_sock) => OfferComes(i)'
      BY <1>5, <2>1 DEF OfferComes, Packet, Vanishes
    <2> QED
      BY <1>2, <1>5, <2>2 DEF GuestInv, Vanishes, Silent
  <1>6. ASSUME UNCHANGED remoteVars, NEW c \in Conn, Accept(c)
        PROVE  GuestInv'
    <2>1. /\ stage[c] = "idle"
          /\ stage' = [stage EXCEPT ![c] = "pending"]
          /\ up' = up \union {Packet(c, 0, "HELLO")}
          /\ down' = down
      BY <1>6 DEF Accept
    <2>2. \A d \in Conn : Silent(d)' => Silent(d)
      BY <1>1, <2>1 DEF Silent, LocalOK
    <2>3. \A p \in up' : p.type # "HELLO" => Owned(p.id, p.conn)'
      BY <1>2, <2>1 DEF Packet
    <2>4. \A p \in down' : Silent(p.conn)' => p.type = "HELLOACK"
      BY <1>3, <2>1, <2>2 DEF GuestInv
    <2>5. ASSUME NEW i \in Id, remote'[i] # NoClient, Silent(remote[i].udp_sock)'
          PROVE  OfferComes(i)'
      BY <1>4, <1>6, <2>1, <2>2, <2>5 DEF GuestInv, OfferComes, remoteVars
    <2> QED
      BY <2>3, <2>4, <2>5 DEF GuestInv
  <1>7. ASSUME UNCHANGED remoteVars, NEW c \in Conn, LocalShape(c)
        PROVE  GuestInv'
    <2>1. LocalFrame(c) /\ remote' = remote
      BY <1>7 DEF LocalShape, remoteVars
    <2>2. \A d \in Conn : Silent(d)' => d # c /\ Silent(d)
      BY <2>1 DEF Silent, LocalFrame
    <2>3. ASSUME NEW p \in up' \ up
          PROVE  Owned(p.id, c)
      <3>1. CASE OpenMove(c)
        <4>1. p.id = local[c].id /\ stage[c] = "open"
          BY <2>3, <3>1 DEF OpenMove
        <4> QED
          BY <1>1, <4>1 DEF OwnInv, OwnLocal, Mine, Listed, HoldInv, Calm
      <3>2. ASSUME NEW q \in down, HelloAckMove(c, q)
            PROVE  Owned(p.id, c)
        BY <1>1, <2>3, <3>2 DEF HelloAckMove, OwnInv, OwnDown
      <3>3. ASSUME NEW q \in down, TurnedAway(c, q)
            PROVE  FALSE
        BY <3>3 DEF TurnedAway, GuestInv, Silent
      <3> QED
        BY <1>7, <3>1, <3>2, <3>3 DEF LocalShape
    <2>4. \A p \in up' : p.type # "HELLO" => Owned(p.id, p.conn)'
      BY <1>2, <1>7, <2>1, <2>3, OwnedByAll DEF LocalFrame
    <2>5. \A p \in down' : Silent(p.conn)' => p.type = "HELLOACK"
      BY <1>3, <2>1, <2>2 DEF GuestInv, LocalFrame
    <2>6. ASSUME NEW i \in Id, remote'[i] # NoClient, Silent(remote[i].udp_sock)'
          PROVE  OfferComes(i)'
      <3>1. remote[i] # NoClient /\ Silent(remote[i].udp_sock) /\ remote[i].udp_sock # c
        BY <1>4, <2>1, <2>2, <2>6
      <3>2. OfferComes(i)
        BY <3>1 DEF GuestInv
      <3> QED
        BY <2>1, <3>1, <3>2 DEF OfferComes, LocalFrame, Packet
    <2> QED
      BY <2>4, <2>5, <2>6 DEF GuestInv
  <1>8. ASSUME UNCHANGED localVars, NEW p, Created(p)
        PROVE  GuestInv'
    <2>1. p \in up /\ p.conn \in Conn /\ up' \subseteq up
      BY <1>3, <1>8 DEF Created, Deliver
    <2> DEFINE new == client_create(next_client_id, p.conn, FALSE, next_client_id)
               offer == Packet(p.conn, next_client_id, "HELLOACK")
    <2>2. down' = down \union {offer}
      BY <1>8, <2>1 DEF Created
    <2>3. /\ remote' = [remote EXCEPT ![next_client_id] = new]
          /\ new.udp_sock = p.conn
          /\ next_client_id \in Id
      BY <1>8 DEF Created, client_create
    <2>4. stage' = stage
      BY <1>8 DEF localVars
    <2> HIDE DEF new
    <2>5. \A q \in down' : Silent(q.conn)' => q.type = "HELLOACK"
      BY <2>2, <2>4 DEF GuestInv, Silent, Packet
    <2>6. ASSUME NEW i \in Id, remote'[i] # NoClient, Silent(remote[i].udp_sock)'
          PROVE  OfferComes(i)'
      <3>1. CASE i = next_client_id
        BY <1>1, <2>2, <2>3, <3>1 DEF OfferComes, RemoteOK
      <3>2. CASE i # next_client_id
        BY <1>1, <2>2, <2>3, <2>4, <2>6, <3>2 DEF OfferComes, RemoteOK, GuestInv, Silent
      <3> QED
        BY <3>1, <3>2
    <2> QED
      BY <1>2, <2>1, <2>5, <2>6 DEF GuestInv
  <1>9. ASSUME UNCHANGED localVars, NEW i \in Id, RemoteShape(i)
        PROVE  GuestInv'
    <2>1. ~ Silent(remote[i].udp_sock) /\ RemoteFrame(i) /\ stage' = stage
      BY <1>9, NotRemoved DEF RemoteShape, localVars
    <2>2. \A q \in up' : q.type # "HELLO" => Owned(q.id, q.conn)'
      BY <1>2, <2>1 DEF RemoteFrame
    <2>3. \A q \in down' : Silent(q.conn)' => q.type = "HELLOACK"
      BY <2>1 DEF GuestInv, RemoteFrame, Silent
    <2>4. ASSUME NEW j \in Id, remote'[j] # NoClient, Silent(remote[j].udp_sock)'
          PROVE  OfferComes(j)'
      <3>1. j # i /\ remote'[j] = remote[j]
        BY <2>1, <2>4 DEF RemoteFrame, Silent
      <3> QED
        BY <2>1, <2>4, <3>1 DEF GuestInv, OfferComes, RemoteFrame, Silent
    <2> QED
      BY <2>2, <2>3, <2>4 DEF GuestInv
  <1> QED
    BY <1>5, <1>6, <1>7, <1>8, <1>9, StepShape

LEMMA GuestInit == Init => GuestInv
  BY DEF Init, NetInit, LocalInit, RemoteInit, GuestInv

(***************************************************************************)
(* Every message on its way up that udpserver will accept for a client     *)
(* comes from the connection the client_t was created for, although it     *)
(* looks at the id alone and HELLOs and HELLOACKs are delivered twice and  *)
(* in any order.  That no message is lost and nobody is denied is needed:  *)
(* a GOODBYE that comes before the HELLOACK is answered with a request id. *)
(***************************************************************************)
THEOREM SpeaksForItself ==
    ASSUME MaxHello \in Nat, MaxHello =< IdMod, "loss" \notin Faults,
           \A c \in Conn : Verdict(c) = "allow"
    PROVE  Spec => []OnlyOwnMessages
  <1>1. Init => Known /\ IdleInv /\ GuestInv
    BY KnownInvariant, IdleInit, GuestInit
  <1>2. Known /\ IdleInv /\ GuestInv /\ [Next]_vars => (Known /\ IdleInv /\ GuestInv)'
    BY KnownInvariant, IdleStep, GuestStep
  <1>3. GuestInv => OnlyOwnMessages
    BY DEF GuestInv, OnlyOwnMessages, Owned
  <1> QED
    BY <1>1, <1>2, <1>3, PTL DEF Spec

-----------------------------------------------------------------------------
(* The handshake of a network that makes no copies: a connection has one   *)
(* HELLO, one client id, and one HELLOACK each way, and nothing is relayed *)
(* before it is over.                                                      *)

OneId == \A c \in Conn : \A i, j \in Id : Holds(i, c) /\ Holds(j, c) => i = j

FirstContact(p) ==
    /\ p = Packet(p.conn, 0, "HELLO")
    /\ stage[p.conn] = "pending"
    /\ \A i \in Id : ~ Holds(i, p.conn)
    /\ \A q \in down : q.conn # p.conn

\* A HELLOACK of udpclient: the only one, and the client_t waits for it.
Answer(p) ==
    /\ \A i \in Id : remote[i] # NoClient /\ remote[i].udp_sock = p.conn =>
           i = p.id /\ remote[i].udp2tcp_state = "WAIT_HELLO"
    /\ \A q \in up : q.type = "HELLOACK" /\ q.conn = p.conn => q = p

OnUp ==
    \A p \in up :
        /\ p.type = "HELLO" => FirstContact(p)
        /\ p.type = "HELLOACK" => Answer(p)
        /\ p.type \in Ack => Owned(p.id, p.conn)

OnDown == \A p \in down : p.type = "HELLOACK" => stage[p.conn] # "open"

\* Nothing was relayed.
Blank(k, s) ==
    /\ k.serial = s
    /\ k.nread = 0
    /\ k.tcp2udp_q = <<>>
    /\ k.tcp2udp_state = "WAIT_DATA0"
    /\ k.written = <<>>
    /\ k.udp2tcp_state = "WAIT_HELLO"

BlankInv ==
    /\ \A c \in Conn : stage[c] = "pending" => Blank(local[c], 0)
    /\ \A i \in Id : remote[i] # NoClient /\ Silent(remote[i].udp_sock) => Blank(remote[i], i)

HandInv == OneId /\ OnUp /\ OnDown /\ BlankInv

\* Without copies a packet is gone when it is delivered.
LEMMA Gone ==
    ASSUME MaxCopies = 0, copies \in Nat, NEW net, NEW p, NEW rest, Deliver(net, p, rest)
    PROVE  rest = net \ {p} /\ p \in net
  BY DEF Deliver, Deliverable

LEMMA HelloAckForm ==
    ASSUME NEW p \in Message, p.type = "HELLOACK"
    PROVE  p = Packet(p.conn, p.id, "HELLOACK")
  BY DEF Message, Packet, Data

LEMMA CreateBlank ==
    ASSUME NEW i, NEW c, NEW b, NEW s
    PROVE  Blank(client_create(i, c, b, s), s)
  BY DEF client_create, Blank

\* Who holds an id already is the only one who may go on to hold it.
LEMMA FewerIds ==
    ASSUME OneId, \A i \in Id : \A c \in Conn : Holds(i, c)' => Holds(i, c)
    PROVE  OneId'
  BY DEF OneId

LEMMA HandVanishes ==
    ASSUME Known, HandInv, Vanishes
    PROVE  HandInv'
  <1>1. \A i \in Id : \A c \in Conn : Holds(i, c)' => Holds(i, c)
    BY DEF Vanishes, Holds
  <1>2. OneId'
    BY <1>1, FewerIds DEF HandInv
  <1>3. \A p \in up : p.conn \in Conn
    BY KnownGives, MessageFields DEF NetOK
  <1>4. ASSUME NEW p \in up'
        PROVE  /\ p.type = "HELLO" => FirstContact(p)'
               /\ p.type = "HELLOACK" => Answer(p)'
               /\ p.type \in Ack => Owned(p.id, p.conn)'
    <2>1. p \in up
      BY DEF Vanishes
    <2>2. FirstContact(p) => FirstContact(p)'
      BY <1>1, <1>3, <2>1 DEF FirstContact, Vanishes
    <2>3. Answer(p) => Answer(p)'
      BY DEF Answer, Vanishes
    <2>4. Owned(p.id, p.conn) => Owned(p.id, p.conn)'
      BY DEF Owned, Vanishes
    <2> QED
      BY <2>1, <2>2, <2>3, <2>4 DEF HandInv, OnUp
  <1>5. OnUp'
    BY <1>4 DEF OnUp
  <1>6. OnDown' /\ BlankInv'
    BY DEF HandInv, OnDown, BlankInv, Vanishes, Silent
  <1> QED
    BY <1>2, <1>5, <1>6 DEF HandInv

LEMMA HandAccept ==
    ASSUME Known, IdleInv, HandInv, UNCHANGED remoteVars, NEW c \in Conn, Accept(c)
    PROVE  HandInv'
  <1>1. LocalOK /\ NetOK
    BY KnownGives
  <1> DEFINE k == client_create(next_req_id, c, TRUE, 0)
             hello == Packet(c, 0, "HELLO")
  <1>2. /\ stage[c] = "idle"
        /\ stage' = [stage EXCEPT ![c] = "pending"]
        /\ local' = [local EXCEPT ![c] = k]
        /\ up' = up \union {hello}
        /\ down' = down
        /\ remote' = remote /\ next_client_id' = next_client_id
    BY DEF Accept, remoteVars
  <1>3. Blank(k, 0)
    BY CreateBlank
  <1> HIDE DEF k
  <1>4. Unknown(c)
    BY <1>2 DEF IdleInv
  <1>5. \A i \in Id : \A d \in Conn : Holds(i, d)' => Holds(i, d)
    BY <1>1, <1>2 DEF Holds, LocalOK
  <1>6. OneId'
    BY <1>5, FewerIds DEF HandInv
  <1>7. \A i \in Id : ~ Holds(i, c)
    BY <1>2, <1>4 DEF Holds, Unknown, Quiet
  <1>8. hello.conn = c /\ hello.type = "HELLO"
    BY DEF Packet
  <1>9. FirstContact(hello)'
    BY <1>1, <1>2, <1>4, <1>5, <1>7, <1>8 DEF FirstContact, Unknown, Quiet, LocalOK
  <1>10. \A p \in up : p.conn \in Conn /\ p.conn # c
    BY <1>1, <1>4, MessageFields DEF NetOK, Unknown, Quiet
  <1>11. ASSUME NEW p \in up
         PROVE  /\ p.type = "HELLO" => FirstContact(p)'
                /\ p.type = "HELLOACK" => Answer(p)'
                /\ p.type \in Ack => Owned(p.id, p.conn)'
    <2>1. FirstContact(p) => FirstContact(p)'
      BY <1>1, <1>2, <1>5, <1>10 DEF FirstContact, LocalOK
    <2>2. Answer(p) => Answer(p)'
      BY <1>2, <1>8, <1>10 DEF Answer
    <2> QED
      BY <1>2, <2>1, <2>2 DEF HandInv, OnUp, Owned
  <1>12. OnUp'
    BY <1>2, <1>8, <1>9, <1>11 DEF OnUp, Ack
  <1>13. OnDown'
    BY <1>1, <1>2 DEF HandInv, OnDown, LocalOK
  <1>14. BlankInv'
    <2>1. \A d \in Conn : stage'[d] = "pending" => Blank(local'[d], 0)
      BY <1>1, <1>2, <1>3 DEF HandInv, BlankInv, LocalOK
    <2>2. \A d : Silent(d)' /\ d \in Conn => Silent(d)
      BY <1>1, <1>2 DEF Silent, LocalOK
    <2>3. \A i \in Id : remote[i] # NoClient => remote[i].udp_sock \in Conn
      BY KnownGives, RemoteClient DEF ClientT
    <2>4. \A i \in Id : remote'[i] # NoClient /\ Silent(remote[i].udp_sock)' => Blank(remote'[i], i)
      BY <1>2, <2>2, <2>3 DEF HandInv, BlankInv
    <2> QED
      BY <2>1, <2>4 DEF BlankInv, Blank
  <1> QED
    BY <1>6, <1>12, <1>13, <1>14 DEF HandInv

LEMMA HandLocal ==
    ASSUME MaxCopies = 0, Known, HandInv, UNCHANGED remoteVars, NEW c \in Conn, LocalShape(c)
    PROVE  HandInv'
  <1>1. LocalOK /\ NetOK /\ OwnInv /\ HoldInv
    BY KnownGives
  <1>2. LocalFrame(c) /\ remote' = remote /\ next_client_id' = next_client_id
    BY DEF LocalShape, remoteVars
  <1>3. /\ \A d \in Conn \ {c} : stage'[d] = stage[d] /\ local'[d] = local[d]
        /\ up \subseteq up' /\ \A p \in up' \ up : p.conn = c /\ p.type # "HELLO"
        /\ down' \subseteq down
        /\ stage'[c] \in {"open", "closed"} /\ Listed(c)
    BY <1>2 DEF LocalFrame
  <1>4. \A p \in up \union down : p.conn \in Conn /\ p.id \in Id
    BY <1>1, MessageFields DEF NetOK
  <1>5. stage'[c] = "open" => Holds(local'[c].id, c)
    BY <1>1 DEF LocalShape, OpenMove, HelloAckMove, TurnedAway, Holds
  <1>6. ASSUME NEW i \in Id, NEW d \in Conn, Holds(i, d)'
        PROVE  Holds(i, d)
    <2>1. CASE d = c
      BY <1>2, <1>3, <1>5, <1>6, <2>1 DEF Holds
    <2>2. CASE d # c
      BY <1>2, <1>3, <1>6, <2>2 DEF Holds
    <2> QED
      BY <2>1, <2>2
  <1>7. OneId'
    BY <1>6, FewerIds DEF HandInv
  <1>8. ASSUME NEW q \in down, HelloAckMove(c, q)
        PROVE  /\ stage[c] = "pending"
               /\ Silent(c)
               /\ \A p \in down' : ~ (p.type = "HELLOACK" /\ p.conn = c)
    <2>1. stage[c] = "pending"
      BY <1>3, <1>8 DEF HandInv, OnDown, HelloAckMove, Listed
    <2>2. down' = down \ {q}
      BY <1>1, <1>8, Gone DEF HelloAckMove, NetOK
    <2>3. ASSUME NEW p \in down, p.type = "HELLOACK", p.conn = c
          PROVE  p = q
      <3>1. Holds(p.id, c) /\ Holds(q.id, c)
        BY <1>8, <2>3 DEF Holds, HelloAckMove
      <3>2. p.id = q.id
        BY <1>4, <3>1 DEF HandInv, OneId
      <3> QED
        BY <1>1, <1>8, <2>3, <3>2, HelloAckForm DEF HelloAckMove, NetOK
    <2> QED
      BY <2>1, <2>2, <2>3 DEF Silent
  <1>9. ASSUME NEW p \in up, p.type = "HELLO"
        PROVE  FirstContact(p)'
    <2>1. FirstContact(p)
      BY <1>9 DEF HandInv, OnUp
    <2>2. p.conn # c
      BY <2>1 DEF FirstContact, LocalShape, OpenMove, HelloAckMove, TurnedAway
    <2> QED
      BY <1>3, <1>4, <1>6, <2>1, <2>2 DEF FirstContact
  <1>10. ASSUME NEW p \in up, p.type = "HELLOACK"
         PROVE  Answer(p)'
    <2>1. Answer(p)
      BY <1>10 DEF HandInv, OnUp
    <2>2. ASSUME NEW q \in up' \ up, q.type = "HELLOACK", q.conn = p.conn
          PROVE  FALSE
      <3>1. q.conn = c
        BY <1>3, <2>2
      <3>2. PICK r \in down : HelloAckMove(c, r)
        BY <2>2 DEF LocalShape, OpenMove, TurnedAway
      <3>3. Silent(c)
        BY <1>8, <3>2
      <3> QED
        BY <1>1, <1>10, <2>2, <3>1, <3>3 DEF HoldInv, Calm
    <2> QED
      BY <1>2, <2>1, <2>2 DEF Answer
  <1>11. ASSUME NEW p \in up' \ up
         PROVE  /\ p.type \in Ack => Owned(p.id, p.conn)
                /\ p.type = "HELLOACK" => Answer(p)'
    <2>1. p.conn = c
      BY <1>3
    <2>2. CASE OpenMove(c)
      <3>1. p.id = local[c].id /\ stage[c] = "open" /\ p.type # "HELLOACK"
        BY <1>11, <2>2 DEF OpenMove
      <3> QED
        BY <1>1, <2>1, <3>1 DEF OwnInv, OwnLocal, Mine, Listed, HoldInv, Calm
    <2>3. ASSUME NEW q \in down, HelloAckMove(c, q)
          PROVE  /\ p.type \in Ack => Owned(p.id, p.conn)
                 /\ p.type = "HELLOACK" => Answer(p)'
      <3>1. p.id = q.id /\ Owned(q.id, c) /\ Holds(q.id, c)
        BY <1>1, <2>3 DEF HelloAckMove, OwnInv, OwnDown, Holds
      <3>2. Silent(c)
        BY <1>8, <2>3
      <3>3. \A r \in up' : r.type = "HELLOACK" /\ r.conn = c => r = Packet(c, q.id, "HELLOACK")
        BY <1>1, <1>3, <2>3, <3>2 DEF HoldInv, Calm, HelloAckMove
      <3>4. ASSUME NEW i \in Id, remote[i] # NoClient, remote[i].udp_sock = c
            PROVE  i = q.id /\ remote[i].udp2tcp_state = "WAIT_HELLO"
        <4>1. Holds(i, c)
          BY <3>4 DEF Holds
        <4> QED
          BY <1>4, <3>1, <3>2, <3>4, <4>1 DEF HandInv, OneId, BlankInv, Blank
      <3> QED
        BY <1>2, <2>1, <3>1, <3>3, <3>4 DEF Answer
    <2>4. ASSUME NEW q \in down, TurnedAway(c, q)
          PROVE  p.type \notin Ack \union {"HELLOACK"}
      BY <2>4 DEF TurnedAway, Ack
    <2> QED
      BY <2>2, <2>3, <2>4 DEF LocalShape
  <1>12. OnUp'
    <2>1. \A p \in up' : p.type \in Ack => Owned(p.id, p.conn)'
      BY <1>11, OwnedByAll DEF HandInv, OnUp
    <2> QED
      BY <1>3, <1>9, <1>10, <1>11, <2>1 DEF OnUp
  <1>13. OnDown'
    <2>1. ASSUME NEW p \in down', p.type = "HELLOACK", stage'[c] = "open", p.conn = c
          PROVE  FALSE
      <3>1. stage[c] # "open"
        BY <1>3, <2>1 DEF HandInv, OnDown
      <3> QED
        BY <1>8, <2>1, <3>1 DEF LocalShape, OpenMove, TurnedAway
    <2> QED
      BY <1>3, <1>4, <2>1 DEF HandInv, OnDown
  <1>14. BlankInv'
    <2>1. \A d \in Conn : Silent(d)' => d # c /\ Silent(d)
      BY <1>3 DEF Silent
    <2>2. \A i \in Id : remote[i] # NoClient => remote[i].udp_sock \in Conn
      BY KnownGives, RemoteClient DEF ClientT
    <2>3. \A i \in Id : remote'[i] # NoClient /\ Silent(remote[i].udp_sock)' => Blank(remote'[i], i)
      BY <1>2, <2>1, <2>2 DEF HandInv, BlankInv
    <2>4. \A d \in Conn : stage'[d] = "pending" => Blank(local'[d], 0)
      BY <1>3 DEF HandInv, BlankInv
    <2> QED
      BY <2>3, <2>4 DEF BlankInv, Blank
  <1> QED
    BY <1>7, <1>12, <1>13, <1>14 DEF HandInv

LEMMA HandCreated ==
    ASSUME MaxCopies = 0, Known, HandInv, UNCHANGED localVars, NEW p, Created(p)
    PROVE  HandInv'
  <1>1. RemoteOK /\ NetOK /\ OwnInv /\ HoldInv
    BY KnownGives
  <1> DEFINE c == p.conn
             n == next_client_id
             new == client_create(n, c, FALSE, n)
  <1>2. p \in up /\ p.type = "HELLO" /\ up' = up \ {p}
    BY <1>1, Gone DEF Created, NetOK
  <1>3. FirstContact(p)
    BY <1>2 DEF HandInv, OnUp
  <1>4. c \in Conn /\ Silent(c)
    BY <1>1, <1>2, <1>3, MessageFields DEF NetOK, FirstContact, Silent
  <1>5. /\ n \in Id
        /\ remote[n] = NoClient
        /\ remote' = [remote EXCEPT ![n] = new]
        /\ n \in Nat /\ next_client_id' = n + 1
    BY IdModAssumption DEF Created, Id
  <1>6. PICK q : /\ down' = down \union {q}
                 /\ q.conn = c
                 /\ q.type = "HELLOACK" => q.id = n
    BY DEF Created, Packet
  <1>7. new.udp_sock = c /\ Blank(new, n)
    BY CreateBlank DEF client_create
  <1> HIDE DEF new
  <1>8. stage' = stage /\ local' = local
    BY DEF localVars
  <1>9. \A j \in Id : remote'[j] = IF j = n THEN new ELSE remote[j]
    BY <1>1, <1>5 DEF RemoteOK
  <1>10. ASSUME NEW i \in Id, NEW d \in Conn, Holds(i, d)'
         PROVE  Holds(i, d) \/ (i = n /\ d = c)
    BY <1>6, <1>7, <1>8, <1>9, <1>10 DEF Holds
  <1>11. OneId'
    BY <1>3, <1>10 DEF HandInv, OneId, FirstContact
  <1>12. \A r \in up : r.conn \in Conn /\ r.id \in Id
    BY <1>1, MessageFields DEF NetOK
  <1>13. ASSUME NEW r \in up', r.type = "HELLO"
         PROVE  FirstContact(r)'
    <2>1. r \in up /\ r # p
      BY <1>2
    <2>2. FirstContact(r)
      BY <1>13, <2>1 DEF HandInv, OnUp
    <2>3. r.conn # c
      BY <1>3, <2>1, <2>2 DEF FirstContact
    <2> QED
      BY <1>6, <1>8, <1>10, <1>12, <2>1, <2>2, <2>3 DEF FirstContact
  <1>14. ASSUME NEW r \in up', r.type = "HELLOACK"
         PROVE  Answer(r)'
    <2>1. r \in up /\ Answer(r)
      BY <1>2, <1>14 DEF HandInv, OnUp
    <2>2. r.conn # c
      BY <1>1, <1>4, <1>14, <2>1 DEF HoldInv, Calm
    <2> QED
      BY <1>2, <1>7, <1>9, <2>1, <2>2 DEF Answer
  <1>15. ASSUME NEW r \in up', r.type \in Ack
         PROVE  Owned(r.id, r.conn)'
    <2>1. Owned(r.id, r.conn) /\ r.id \in Nat
      BY <1>2, <1>12, <1>15, IdModAssumption DEF HandInv, OnUp, Id
    <2>2. r.id # n /\ r.id < n + 1
      BY <1>5, <2>1 DEF Owned
    <2> QED
      BY <1>2, <1>5, <1>9, <1>12, <2>1, <2>2 DEF Owned
  <1>16. OnUp'
    BY <1>13, <1>14, <1>15 DEF OnUp
  <1>17. OnDown'
    BY <1>3, <1>6, <1>8 DEF HandInv, OnDown, FirstContact
  <1>18. BlankInv'
    <2>1. \A d \in Conn : stage'[d] = "pending" => Blank(local'[d], 0)
      BY <1>8 DEF HandInv, BlankInv
    <2>2. \A d : Silent(d)' <=> Silent(d)
      BY <1>8 DEF Silent
    <2>3. ASSUME NEW i \in Id, remote'[i] # NoClient, Silent(remote[i].udp_sock)'
          PROVE  Blank(remote'[i], i)
      BY <1>7, <1>9, <2>2, <2>3 DEF HandInv, BlankInv, Silent
    <2> QED
      BY <2>1, <2>3 DEF BlankInv, Blank
  <1> QED
    BY <1>11, <1>16, <1>17, <1>18 DEF HandInv

LEMMA HandRemote ==
    ASSUME MaxHello \in Nat, MaxHello =< IdMod,
           MaxCopies = 0, Known, HandInv, UNCHANGED localVars, NEW i \in Id, RemoteShape(i)
    PROVE  HandInv'
  <1>1. RemoteOK /\ NetOK /\ OwnInv
    BY KnownGives
  <1>2. RemoteFrame(i) /\ StillWaits(i) /\ OnlyRemoved(i)
    BY DEF RemoteShape
  <1>3. stage' = stage /\ local' = local
    BY DEF localVars
  <1>4. /\ remote[i] # NoClient
        /\ \A j \in Id : remote'[j] # NoClient =>
               remote[j] # NoClient /\ remote'[j].udp_sock = remote[j].udp_sock
        /\ \A j \in Id \ {i} : remote'[j] = remote[j]
        /\ up' \subseteq up
        /\ \A p \in down' \ down : p.conn = remote[i].udp_sock /\ p.type # "HELLOACK"
        /\ next_client_id' = next_client_id
    BY <1>2 DEF RemoteFrame
  <1>5. \A k \in Id : \A d \in Conn : Holds(k, d)' => Holds(k, d)
    BY <1>3, <1>4 DEF Holds
  <1>6. OneId'
    BY <1>5, FewerIds DEF HandInv
  <1>7. \A p \in up : p.conn \in Conn /\ p.id \in Id
    BY <1>1, MessageFields DEF NetOK
  <1>8. ASSUME NEW p \in up', p.type = "HELLO"
        PROVE  FirstContact(p)'
    <2>1. FirstContact(p) /\ p.conn \in Conn
      BY <1>4, <1>7, <1>8 DEF HandInv, OnUp
    <2>2. p.conn # remote[i].udp_sock
      BY <1>4, <2>1 DEF FirstContact, Holds
    <2> QED
      BY <1>3, <1>4, <1>5, <2>1, <2>2 DEF FirstContact
  <1>9. ASSUME NEW p \in up', p.type = "HELLOACK"
        PROVE  Answer(p)'
    <2>1. p \in up /\ Answer(p)
      BY <1>4, <1>9 DEF HandInv, OnUp
    <2>2. ASSUME NEW j \in Id, remote'[j] # NoClient, remote'[j].udp_sock = p.conn
          PROVE  j = p.id /\ remote'[j].udp2tcp_state = "WAIT_HELLO"
      <3>1. /\ remote[j] # NoClient /\ remote[j].udp_sock = p.conn
            /\ j = p.id /\ remote[j].udp2tcp_state = "WAIT_HELLO"
        BY <1>4, <2>1, <2>2 DEF Answer
      <3>2. ASSUME j = i, Greeted(i)
            PROVE  FALSE
        <4>1. PICK g \in up : g.type = "HELLOACK" /\ g.id = i /\ Deliver(up, g, up')
          BY <3>2 DEF Greeted
        <4>2. up' = up \ {g}
          BY <1>1, <4>1, Gone DEF NetOK
        <4>3. g.conn = p.conn
          BY <1>1, <3>1, <3>2, <4>1 DEF OwnInv, OwnUp, Owned
        <4> QED
          BY <1>9, <2>1, <4>1, <4>2, <4>3 DEF Answer
      <3> QED
        BY <1>2, <1>4, <2>2, <3>1, <3>2 DEF StillWaits
    <2> QED
      BY <1>4, <2>1, <2>2 DEF Answer
  <1>10. ASSUME NEW p \in up', p.type \in Ack
         PROVE  Owned(p.id, p.conn)'
    BY <1>4, <1>7, <1>10 DEF HandInv, OnUp, Owned
  <1>11. OnUp'
    BY <1>8, <1>9, <1>10 DEF OnUp
  <1>12. OnDown'
    BY <1>3, <1>4 DEF HandInv, OnDown
  <1>13. BlankInv'
    <2>1. \A d \in Conn : stage'[d] = "pending" => Blank(local'[d], 0)
      BY <1>3 DEF HandInv, BlankInv
    <2>2. ASSUME NEW j \in Id, remote'[j] # NoClient, Silent(remote[j].udp_sock)'
          PROVE  Blank(remote'[j], j)
      <3>1. remote[j] # NoClient /\ Silent(remote[j].udp_sock)
        BY <1>3, <1>4, <2>2 DEF Silent
      <3>2. j # i
        BY <1>2, <2>2, <3>1 DEF OnlyRemoved
      <3> QED
        BY <1>4, <3>1, <3>2 DEF HandInv, BlankInv
    <2> QED
      BY <2>1, <2>2 DEF BlankInv, Blank
  <1> QED
    BY <1>6, <1>11, <1>12, <1>13 DEF HandInv

LEMMA HandStep ==
    ASSUME MaxHello \in Nat, MaxHello =< IdMod, MaxCopies = 0,
           Known, IdleInv, HandInv, [Next]_vars
    PROVE  HandInv'
  BY StepShape, HandVanishes, HandAccept, HandLocal, HandCreated, HandRemote

LEMMA HandInit == Init => HandInv
  BY DEF Init, NetInit, LocalInit, RemoteInit, HandInv, OneId, Holds, OnUp, OnDown, BlankInv

-----------------------------------------------------------------------------
(* One direction of a connection: k reads from its TCP socket and sends,   *)
(* l receives and writes, net holds what is on its way from k to l and     *)
(* back what is on its way from l to k.                                    *)

\* The type of the DATA message the head of the queue goes out in, and the
\* one that is taken for new data.
NextType(k) == IF k.tcp2udp_state \in {"WAIT_DATA0", "WAIT_ACK0"} THEN "DATA0" ELSE "DATA1"
Wants(l) == IF l.udp2tcp_state = "WAIT_DATA1" THEN "DATA1" ELSE "DATA0"

AckOf(type) == IF type = "DATA0" THEN "ACK0" ELSE "ACK1"

ChunkOf(c, s, n) == [conn |-> c, serial |-> s, n |-> n]

\* The first a chunks were acknowledged, and the queue holds all the others.
Backlog(k, a) ==
    /\ k.nread = a + Len(k.tcp2udp_q)
    /\ \A j \in DOMAIN k.tcp2udp_q :
           k.tcp2udp_q[j] = ChunkOf(k.udp_sock, k.serial, a + j)

DataOf(c, net) == {p \in net : p.conn = c /\ p.type \in Data}
AcksOf(c, net) == {p \in net : p.conn = c /\ p.type \in Ack}

(***************************************************************************)
(* Both ends are at the same chunk, or l has written the head of the queue *)
(* and k does not know yet.  A DATA message in flight is the head of the   *)
(* queue, not written yet; an ACK in flight is the one k waits for.        *)
(***************************************************************************)
InStep(k, a, l, net, back) ==
    /\ \/ Len(l.written) = a /\ NextType(k) = Wants(l)
       \/ Len(l.written) = a + 1 /\ NextType(k) # Wants(l) /\ WaitsForAck(k)
    /\ \A p \in DataOf(k.udp_sock, net) :
           /\ WaitsForAck(k)
           /\ NextType(k) = Wants(l)
           /\ p = DataPacket(k.udp_sock, k.id, NextType(k),
                             ChunkOf(k.udp_sock, k.serial, a + 1))
    /\ \A p \in AcksOf(k.udp_sock, back) :
           /\ WaitsForAck(k)
           /\ NextType(k) # Wants(l)
           /\ p = Packet(k.udp_sock, k.id, AckOf(NextType(k)))

Matched(k, l, net, back) ==
    \E a \in Nat : Backlog(k, a) /\ InStep(k, a, l, net, back)

\* What l wrote is the beginning of stream s, and what comes is its next chunk.
Stream(l, s) == \A j \in DOMAIN l.written : l.written[j] = ChunkOf(l.udp_sock, s, j)

Coming(l, s, net) ==
    \A p \in DataOf(l.udp_sock, net) :
        p = DataPacket(l.udp_sock, l.id, Wants(l),
                       ChunkOf(l.udp_sock, s, Len(l.written) + 1))

Reads(l, s, net) == Stream(l, s) /\ Coming(l, s, net)

\* The fields of the sending side, and of the receiving side, are the same.
SameOut(j, k) ==
    /\ j.udp_sock = k.udp_sock /\ j.id = k.id /\ j.serial = k.serial
    /\ j.nread = k.nread
    /\ j.tcp2udp_q = k.tcp2udp_q
    /\ j.tcp2udp_state = k.tcp2udp_state

SameIn(j, l) ==
    /\ j.udp_sock = l.udp_sock /\ j.id = l.id
    /\ Wants(j) = Wants(l)
    /\ j.written = l.written

LEMMA BacklogSame ==
    ASSUME NEW j, NEW k, SameOut(j, k), NEW a, Backlog(k, a)
    PROVE  Backlog(j, a)
  BY DEF SameOut, Backlog

LEMMA ReadsSame ==
    ASSUME NEW j, NEW l, SameIn(j, l), NEW s, NEW net, NEW rest,
           DataOf(l.udp_sock, rest) \subseteq DataOf(l.udp_sock, net), Reads(l, s, net)
    PROVE  Reads(j, s, rest)
  <1>1. Stream(j, s)
    BY DEF SameIn, Reads, Stream
  <1>2. Coming(j, s, rest)
    BY DEF SameIn, Reads, Coming
  <1> QED
    BY <1>1, <1>2 DEF Reads

LEMMA MatchedSame ==
    ASSUME NEW j, NEW k, SameOut(j, k), NEW m, NEW l, SameIn(m, l),
           NEW net, NEW rest, DataOf(k.udp_sock, rest) \subseteq DataOf(k.udp_sock, net),
           NEW back, NEW left, AcksOf(k.udp_sock, left) \subseteq AcksOf(k.udp_sock, back),
           Matched(k, l, net, back)
    PROVE  Matched(j, m, rest, left)
  <1>1. PICK a \in Nat : Backlog(k, a) /\ InStep(k, a, l, net, back)
    BY DEF Matched
  <1>2. Backlog(j, a)
    BY <1>1, BacklogSame
  <1>3. NextType(j) = NextType(k) /\ (WaitsForAck(j) <=> WaitsForAck(k))
    BY DEF SameOut, NextType, WaitsForAck
  <1>4. j.udp_sock = k.udp_sock /\ j.id = k.id /\ j.serial = k.serial
    BY DEF SameOut
  <1>5. Wants(m) = Wants(l) /\ m.written = l.written
    BY DEF SameIn
  <1>6. InStep(j, a, m, rest, left)
    BY <1>1, <1>3, <1>4, <1>5 DEF InStep
  <1> QED
    BY <1>2, <1>6 DEF Matched

\* What is in flight to l when it is matched with a sender that is there.
LEMMA MatchedReads ==
    ASSUME NEW k, NEW l \in ClientT, NEW net, NEW back, Matched(k, l, net, back),
           l.udp_sock = k.udp_sock, l.id = k.id, Stream(l, k.serial)
    PROVE  Reads(l, k.serial, net)
  <1>1. PICK a \in Nat : Backlog(k, a) /\ InStep(k, a, l, net, back)
    BY DEF Matched
  <1>2. Len(l.written) \in Nat
    BY DEF ClientT
  <1>3. ASSUME NEW p \in DataOf(l.udp_sock, net)
        PROVE  p = DataPacket(l.udp_sock, l.id, Wants(l),
                              ChunkOf(l.udp_sock, k.serial, Len(l.written) + 1))
    <2>1. /\ NextType(k) = Wants(l)
          /\ p = DataPacket(k.udp_sock, k.id, NextType(k),
                            ChunkOf(k.udp_sock, k.serial, a + 1))
      BY <1>1, <1>3 DEF InStep
    <2>2. Len(l.written) = a
      BY <1>1, <2>1 DEF InStep
    <2> QED
      BY <2>1, <2>2
  <1> QED
    BY <1>3 DEF Reads, Coming

\* client_send_udp_data.
LEMMA SendMatched ==
    ASSUME NEW k \in ClientT, NEW l, NEW net, NEW back, Matched(k, l, net, back)
    PROVE  Matched(AfterSend(k), l, net \union DataSent(k), back)
  <1>1. CASE ~ CanSend(k)
    <2>1. AfterSend(k) = k /\ net \union DataSent(k) = net
      BY <1>1 DEF AfterSend, DataSent
    <2> QED
      BY <2>1
  <1>2. CASE CanSend(k)
    <2> DEFINE j == AfterSend(k)
    <2>1. PICK a \in Nat : Backlog(k, a) /\ InStep(k, a, l, net, back)
      BY DEF Matched
    <2>2. ~ WaitsForAck(k) /\ k.tcp2udp_q # <<>>
      BY <1>2 DEF CanSend
    <2>3. k.tcp2udp_state \in {"WAIT_DATA0", "WAIT_DATA1"}
      BY <2>2 DEF WaitsForAck, ClientT, Tcp2UdpState
    <2>4. /\ j.udp_sock = k.udp_sock /\ j.id = k.id /\ j.serial = k.serial
          /\ j.nread = k.nread /\ j.tcp2udp_q = k.tcp2udp_q
          /\ j.tcp2udp_state = IF k.tcp2udp_state = "WAIT_DATA0" THEN "WAIT_ACK0" ELSE "WAIT_ACK1"
      BY <1>2 DEF AfterSend, ClientT
    <2> HIDE DEF j
    <2>5. NextType(j) = NextType(k) /\ WaitsForAck(j)
      BY <2>3, <2>4 DEF NextType, WaitsForAck
    <2>6. Backlog(j, a)
      BY <2>1, <2>4 DEF Backlog
    <2>7. Len(l.written) = a /\ NextType(k) = Wants(l)
      BY <2>1, <2>2 DEF InStep
    <2>8. DataOf(k.udp_sock, net) = {} /\ AcksOf(k.udp_sock, back) = {}
      BY <2>1, <2>2 DEF InStep
    <2>9. Head(k.tcp2udp_q) = ChunkOf(k.udp_sock, k.serial, a + 1)
      <3>1. k.tcp2udp_q \in Seq(Chunk)
        BY DEF ClientT
      <3>2. 1 \in DOMAIN k.tcp2udp_q /\ Head(k.tcp2udp_q) = k.tcp2udp_q[1]
        BY <2>2, <3>1
      <3> QED
        BY <2>1, <3>2 DEF Backlog
    <2>10. DataSent(k) = {DataPacket(k.udp_sock, k.id, NextType(k),
                                     ChunkOf(k.udp_sock, k.serial, a + 1))}
      BY <1>2, <2>3, <2>9 DEF DataSent, NextType
    <2>11. \A p \in DataOf(k.udp_sock, net \union DataSent(k)) : p \in DataSent(k)
      BY <2>8 DEF DataOf
    <2>12. InStep(j, a, l, net \union DataSent(k), back)
      BY <2>4, <2>5, <2>7, <2>8, <2>10, <2>11 DEF InStep
    <2> QED
      BY <2>6, <2>12 DEF Matched, j
  <1> QED
    BY <1>1, <1>2

\* client_recv_tcp_data, when it keeps what it read.
LEMMA QueuedBacklog ==
    ASSUME NEW k \in ClientT, k.nread < MaxChunks, NEW a \in Nat, Backlog(k, a)
    PROVE  Backlog(Queued(k), a)
  <1> DEFINE q == k.tcp2udp_q
             x == NextChunk(k)
             j == Queued(k)
  <1>1. q \in Seq(Chunk) /\ k.nread \in Nat
    BY ChunksAssumption DEF ClientT
  <1>2. x \in Chunk
    BY ChunksAssumption DEF NextChunk, Chunk, ClientT
  <1>3. /\ j.nread = k.nread + 1 /\ j.tcp2udp_q = Append(q, x)
        /\ j.udp_sock = k.udp_sock /\ j.serial = k.serial
    BY DEF Queued, ClientT
  <1>4. k.nread = a + Len(q) /\ Len(q) \in Nat
    BY <1>1 DEF Backlog
  <1>5. x = ChunkOf(k.udp_sock, k.serial, a + (Len(q) + 1))
    <2>1. k.nread + 1 = a + (Len(q) + 1)
      BY <1>4
    <2> QED
      BY <2>1 DEF NextChunk, ChunkOf
  <1> HIDE DEF j, x
  <1>6. Len(Append(q, x)) = Len(q) + 1
    BY <1>1, <1>2
  <1>7. j.nread = a + Len(j.tcp2udp_q)
    BY <1>3, <1>4, <1>6
  <1>8. ASSUME NEW m \in DOMAIN Append(q, x)
        PROVE  Append(q, x)[m] = ChunkOf(k.udp_sock, k.serial, a + m)
    <2>1. m \in 1 .. (Len(q) + 1)
      BY <1>1, <1>2, <1>6, <1>8
    <2>2. CASE m = Len(q) + 1
      BY <1>1, <1>2, <1>5, <2>2
    <2>3. CASE m # Len(q) + 1
      <3>1. m \in DOMAIN q /\ Append(q, x)[m] = q[m]
        BY <1>1, <1>2, <1>4, <2>1, <2>3
      <3> QED
        BY <3>1 DEF Backlog
    <2> QED
      BY <2>2, <2>3
  <1> QED
    BY <1>3, <1>7, <1>8 DEF Backlog, j

LEMMA QueuedMatched ==
    ASSUME NEW k \in ClientT, k.nread < MaxChunks,
           NEW l, NEW net, NEW back, Matched(k, l, net, back)
    PROVE  Matched(Queued(k), l, net, back)
  <1>1. PICK a \in Nat : Backlog(k, a) /\ InStep(k, a, l, net, back)
    BY DEF Matched
  <1> DEFINE j == Queued(k)
  <1>2. /\ j.udp_sock = k.udp_sock /\ j.id = k.id /\ j.serial = k.serial
        /\ j.tcp2udp_state = k.tcp2udp_state
    BY DEF Queued, ClientT
  <1>3. Backlog(j, a)
    BY <1>1, QueuedBacklog
  <1> HIDE DEF j
  <1>4. NextType(j) = NextType(k) /\ (WaitsForAck(j) <=> WaitsForAck(k))
    BY <1>2 DEF NextType, WaitsForAck
  <1>5. InStep(j, a, l, net, back)
    BY <1>1, <1>2, <1>4 DEF InStep
  <1> QED
    BY <1>3, <1>5 DEF Matched, j

(***************************************************************************)
(* No two chunks of a stream hold the same, so that list_add never takes   *)
(* a chunk for one that is queued already.                                 *)
(***************************************************************************)
AllDiffer == \A m, n \in 1 .. MaxChunks : Content[m] = Content[n] => m = n

LEMMA AlwaysQueued ==
    ASSUME AllDiffer, NEW k \in ClientT, k.nread < MaxChunks, NEW a \in Nat, Backlog(k, a),
           NEW j \in client_recv_tcp_data(k)
    PROVE  j = Queued(k)
  <1> DEFINE q == k.tcp2udp_q
  <1>1. k.nread \in Nat /\ MaxChunks \in Nat /\ q \in Seq(Chunk)
    BY ChunksAssumption DEF ClientT
  <1>2. ASSUME NEW m \in DOMAIN q, Content[q[m].n] = Content[k.nread + 1]
        PROVE  FALSE
    <2>1. q[m].n = a + m
      <3>1. q[m] = ChunkOf(k.udp_sock, k.serial, a + m)
        BY <1>2 DEF Backlog
      <3> QED
        BY <3>1 DEF ChunkOf
    <2>2. m \in 1 .. Len(q) /\ Len(q) \in Nat /\ k.nread = a + Len(q)
      BY <1>1 DEF Backlog
    <2>3. a + m \in 1 .. MaxChunks /\ k.nread + 1 \in 1 .. MaxChunks /\ a + m # k.nread + 1
      BY <1>1, <2>2
    <2> QED
      BY <1>2, <2>1, <2>3 DEF AllDiffer
  <1>3. ~ IsQueued(k, NextChunk(k))
    BY <1>2 DEF IsQueued, NextChunk
  <1> QED
    BY <1>3 DEF client_recv_tcp_data

\* client_got_ack.
LEMMA GotAckBacklog ==
    ASSUME NEW k \in ClientT, Steady(k), NEW type, NEW a \in Nat, Backlog(k, a)
    PROVE  /\ IsExpectedAck(k, type) => Backlog(client_got_ack(k, type), a + 1)
           /\ \E b \in Nat : Backlog(client_got_ack(k, type), b)
  <1>1. CASE ~ IsExpectedAck(k, type)
    BY <1>1 DEF client_got_ack
  <1>2. CASE IsExpectedAck(k, type)
    <2> DEFINE q == k.tcp2udp_q
               j == client_got_ack(k, type)
    <2>1. q \in Seq(Chunk) /\ q # <<>>
      BY <1>2 DEF IsExpectedAck, Steady, WaitsForAck, ClientT
    <2>2. /\ j.tcp2udp_q = Tail(q) /\ j.nread = k.nread
          /\ j.udp_sock = k.udp_sock /\ j.serial = k.serial
      BY <1>2 DEF client_got_ack, ClientT
    <2> HIDE DEF j
    <2>3. Len(q) \in Nat /\ Len(q) = Len(Tail(q)) + 1 /\ Len(Tail(q)) \in Nat
      BY <2>1
    <2>4. k.nread = a + Len(q)
      BY DEF Backlog
    <2>5. k.nread = (a + 1) + Len(Tail(q))
      <3>1. \A n \in Nat : a + (n + 1) = (a + 1) + n
        OBVIOUS
      <3> QED
        BY <2>3, <2>4, <3>1
    <2>6. ASSUME NEW m \in DOMAIN Tail(q)
          PROVE  Tail(q)[m] = ChunkOf(k.udp_sock, k.serial, (a + 1) + m)
      <3>1. m \in Nat /\ m + 1 \in DOMAIN q /\ Tail(q)[m] = q[m + 1]
        BY <2>1, <2>3
      <3>2. a + (m + 1) = (a + 1) + m
        BY <3>1
      <3> QED
        BY <3>1, <3>2 DEF Backlog
    <2>7. Backlog(j, a + 1)
      BY <2>2, <2>5, <2>6 DEF Backlog
    <2> QED
      BY <2>7 DEF j
  <1> QED
    BY <1>1, <1>2

LEMMA GotAckMatched ==
    ASSUME NEW k \in ClientT, Steady(k), NEW l \in ClientT, NEW net, NEW back,
           Matched(k, l, net, back), NEW p \in AcksOf(k.udp_sock, back)
    PROVE  /\ IsExpectedAck(k, p.type)
           /\ Matched(client_got_ack(k, p.type), l, net, back \ {p})
  <1>1. PICK a \in Nat : Backlog(k, a) /\ InStep(k, a, l, net, back)
    BY DEF Matched
  <1>2. /\ WaitsForAck(k) /\ NextType(k) # Wants(l)
        /\ \A q \in AcksOf(k.udp_sock, back) :
               q = Packet(k.udp_sock, k.id, AckOf(NextType(k)))
        /\ DataOf(k.udp_sock, net) = {}
    BY <1>1 DEF InStep
  <1>3. p.type = AckOf(NextType(k))
    BY <1>2 DEF Packet
  <1>4. IsExpectedAck(k, p.type)
    BY <1>2, <1>3 DEF IsExpectedAck, AckOf, NextType, WaitsForAck
  <1> DEFINE j == client_got_ack(k, p.type)
  <1>5. Backlog(j, a + 1)
    BY <1>1, <1>4, GotAckBacklog
  <1>6. /\ j.udp_sock = k.udp_sock
        /\ j.tcp2udp_state = IF p.type = "ACK0" THEN "WAIT_DATA1" ELSE "WAIT_DATA0"
    BY <1>4 DEF client_got_ack, ClientT
  <1> HIDE DEF j
  <1>7. NextType(j) # NextType(k) /\ {NextType(j), NextType(k), Wants(l)} \subseteq Data
    BY <1>3, <1>6 DEF NextType, AckOf, Wants, Data
  <1>8. NextType(j) = Wants(l)
    BY <1>2, <1>7 DEF Data
  <1>9. Len(l.written) = a + 1
    BY <1>1, <1>2 DEF InStep
  <1>10. AcksOf(k.udp_sock, back \ {p}) = {}
    BY <1>2 DEF AcksOf
  <1>11. InStep(j, a + 1, l, net, back \ {p})
    BY <1>2, <1>6, <1>8, <1>9, <1>10 DEF InStep
  <1> QED
    BY <1>4, <1>5, <1>11 DEF Matched, j

\* client_got_udp_data: DATA that comes for a client_t that is past its
\* handshake is new, and is acknowledged and written.
LEMMA WriteReads ==
    ASSUME NEW l \in ClientT, l.udp2tcp_state # "WAIT_HELLO",
           NEW s, NEW net, Reads(l, s, net), NEW p \in DataOf(l.udp_sock, net), p.chunk \in Chunk
    PROVE  /\ IsNewData(l, p.type)
           /\ Reads(AfterWrite(l, p.chunk), s, net \ {p})
  <1> DEFINE n == Len(l.written)
             x == p.chunk
             j == AfterWrite(l, x)
  <1>1. \A q \in DataOf(l.udp_sock, net) :
            q = DataPacket(l.udp_sock, l.id, Wants(l), ChunkOf(l.udp_sock, s, n + 1))
    BY DEF Reads, Coming
  <1>2. p.type = Wants(l) /\ x = ChunkOf(l.udp_sock, s, n + 1)
    BY <1>1 DEF DataPacket
  <1>3. IsNewData(l, p.type)
    BY <1>2 DEF IsNewData, Wants, ClientT, Udp2TcpState
  <1>4. l.written \in Seq(Chunk)
    BY DEF ClientT
  <1>5. j.udp_sock = l.udp_sock /\ j.written = Append(l.written, x)
    BY DEF AfterWrite, ClientT
  <1>6. DataOf(l.udp_sock, net \ {p}) = {}
    BY <1>1 DEF DataOf
  <1> HIDE DEF j
  <1>7. ASSUME NEW m \in DOMAIN Append(l.written, x)
        PROVE  Append(l.written, x)[m] = ChunkOf(l.udp_sock, s, m)
    <2>1. m \in 1 .. (n + 1) /\ n \in Nat
      BY <1>4, <1>7
    <2>2. CASE m = n + 1
      BY <1>2, <1>4, <2>2
    <2>3. CASE m # n + 1
      <3>1. m \in DOMAIN l.written /\ Append(l.written, x)[m] = l.written[m]
        BY <1>4, <2>1, <2>3
      <3> QED
        BY <3>1 DEF Reads, Stream
    <2> QED
      BY <2>2, <2>3
  <1>8. Stream(j, s) /\ Coming(j, s, net \ {p})
    BY <1>5, <1>6, <1>7 DEF Stream, Coming
  <1> QED
    BY <1>3, <1>8 DEF Reads, j

LEMMA WriteMatched ==
    ASSUME NEW k, NEW l \in ClientT, l.udp2tcp_state # "WAIT_HELLO",
           l.udp_sock = k.udp_sock, l.id = k.id,
           NEW net, NEW back, Matched(k, l, net, back),
           NEW p \in DataOf(k.udp_sock, net), p.chunk \in Chunk
    PROVE  Matched(k, AfterWrite(l, p.chunk), net \ {p}, back \union {AckFor(l, p.type)})
  <1>1. PICK a \in Nat : Backlog(k, a) /\ InStep(k, a, l, net, back)
    BY DEF Matched
  <1>2. /\ WaitsForAck(k) /\ NextType(k) = Wants(l)
        /\ \A q \in DataOf(k.udp_sock, net) :
               q = DataPacket(k.udp_sock, k.id, NextType(k),
                              ChunkOf(k.udp_sock, k.serial, a + 1))
        /\ AcksOf(k.udp_sock, back) = {}
    BY <1>1 DEF InStep
  <1>3. Len(l.written) = a
    BY <1>1, <1>2 DEF InStep
  <1>4. p.type = NextType(k)
    BY <1>2 DEF DataPacket
  <1> DEFINE j == AfterWrite(l, p.chunk)
             left == back \union {AckFor(l, p.type)}
  <1>5. l.written \in Seq(Chunk)
    BY DEF ClientT
  <1>6. /\ j.written = Append(l.written, p.chunk)
        /\ j.udp2tcp_state = IF l.udp2tcp_state = "WAIT_DATA0" THEN "WAIT_DATA1" ELSE "WAIT_DATA0"
    BY DEF AfterWrite, ClientT
  <1>7. Len(j.written) = a + 1
    BY <1>3, <1>5, <1>6
  <1> HIDE DEF j
  <1>8. Wants(j) # Wants(l)
    BY <1>6 DEF Wants, ClientT, Udp2TcpState
  <1>9. AckFor(l, p.type) = Packet(k.udp_sock, k.id, AckOf(NextType(k)))
    BY <1>4 DEF AckFor, AckOf
  <1>10. DataOf(k.udp_sock, net \ {p}) = {}
    BY <1>2 DEF DataOf
  <1>11. \A q \in AcksOf(k.udp_sock, left) : q = AckFor(l, p.type)
    BY <1>2 DEF AcksOf
  <1> HIDE DEF left
  <1>12. InStep(k, a, j, net \ {p}, left)
    BY <1>2, <1>7, <1>8, <1>9, <1>10, <1>11 DEF InStep
  <1> QED
    BY <1>1, <1>12 DEF Matched, j, left

\* Two ends that have relayed nothing, with nothing on its way.
LEMMA BlankMatched ==
    ASSUME NEW k \in ClientT, NEW l \in ClientT,
           k.nread = 0, k.tcp2udp_q = <<>>, k.tcp2udp_state = "WAIT_DATA0",
           l.written = <<>>, Wants(l) = "DATA0",
           NEW net, DataOf(k.udp_sock, net) = {}, NEW back, AcksOf(k.udp_sock, back) = {}
    PROVE  Backlog(k, 0) /\ Matched(k, l, net, back)
  <1>1. Backlog(k, 0)
    BY DEF Backlog
  <1>2. NextType(k) = "DATA0"
    BY DEF NextType
  <1>3. InStep(k, 0, l, net, back)
    BY <1>2 DEF InStep
  <1> QED
    BY <1>1, <1>3 DEF Matched

\* The routines that change nothing one side of the protocol looks at.
LEMMA OtherSide ==
    ASSUME NEW k \in ClientT, NEW chunk, NEW type
    PROVE  /\ SameOut(k, k) /\ SameIn(k, k)
           /\ SameOut(AtEof(k), k) /\ SameIn(AtEof(k), k)
           /\ SameOut(client_check_and_resend(k), k) /\ SameIn(client_check_and_resend(k), k)
           /\ SameIn(AfterSend(k), k)
           /\ SameIn(Queued(k), k)
           /\ SameIn(client_got_ack(k, type), k)
           /\ SameOut(AfterWrite(k, chunk), k)
  BY DEF SameOut, SameIn, Wants, ClientT, AtEof, client_check_and_resend, AfterSend,
         Queued, client_got_ack, AfterWrite

-----------------------------------------------------------------------------
(* Both directions of every connection, for a network that makes no copies *)
(* and streams of chunks that all differ.                                  *)

InOrder == "reorder" \notin Faults

LocalEnd(l, net) ==
    /\ l.serial = 0
    /\ \E a \in Nat : Backlog(l, a)
    /\ Reads(l, l.id, net)

RemoteEnd(r, i, net) ==
    /\ r.serial = i
    /\ \E a \in Nat : Backlog(r, a)
    /\ InOrder /\ r.udp2tcp_state = "WAIT_HELLO" => r.written = <<>>
    /\ InOrder /\ Hears(r, net) => Reads(r, 0, net)

Joined(l, r, u, d) ==
    /\ Matched(r, l, d, u)
    /\ InOrder /\ Hears(r, u) => Matched(l, r, u, d)
    /\ Faults \subseteq {"delay"} => Hears(r, u)

Theirs(i, c) == remote[i] # NoClient /\ remote[i].udp_sock = c

LinkInv ==
    /\ \A c \in Conn : stage[c] = "open" => LocalEnd(local[c], down)
    /\ \A i \in Id : remote[i] # NoClient => RemoteEnd(remote[i], i, up)
    /\ \A c \in Conn : \A i \in Id :
           stage[c] = "open" /\ Theirs(i, c) => Joined(local[c], remote[i], up, down)

\* No new message of these types is on its way for c.
Only(c, rest, net, types) == \A p \in rest : p.conn = c /\ p.type \in types => p \in net

LEMMA LocalEndSame ==
    ASSUME NEW l, NEW net, NEW rest, LocalEnd(l, net), Only(l.udp_sock, rest, net, Data)
    PROVE  LocalEnd(l, rest)
  <1>1. SameIn(l, l) /\ DataOf(l.udp_sock, rest) \subseteq DataOf(l.udp_sock, net)
    BY DEF SameIn, Only, DataOf
  <1> QED
    BY <1>1, ReadsSame DEF LocalEnd

LEMMA RemoteEndSame ==
    ASSUME NEW r, NEW i, NEW net, NEW rest, RemoteEnd(r, i, net),
           Only(r.udp_sock, rest, net, Data \union {"HELLOACK"})
    PROVE  RemoteEnd(r, i, rest)
  <1>1. SameIn(r, r) /\ DataOf(r.udp_sock, rest) \subseteq DataOf(r.udp_sock, net)
    BY DEF SameIn, Only, DataOf
  <1>2. Hears(r, rest) => Hears(r, net)
    BY DEF Hears, Only
  <1>3. InOrder /\ Hears(r, rest) => Reads(r, 0, rest)
    BY <1>1, <1>2, ReadsSame DEF RemoteEnd
  <1> QED
    BY <1>3 DEF RemoteEnd

LEMMA JoinedSame ==
    ASSUME NEW l, NEW r, NEW u, NEW d, NEW v, NEW e, Joined(l, r, u, d),
           l.udp_sock = r.udp_sock,
           Only(r.udp_sock, v, u, Data \union Ack \union {"HELLOACK"}),
           Only(r.udp_sock, e, d, Data \union Ack),
           Faults \subseteq {"delay"} =>
               \A p \in u : p.conn = r.udp_sock /\ p.type = "HELLOACK" => p \in v
    PROVE  Joined(l, r, v, e)
  <1>1. SameIn(r, r) /\ SameIn(l, l) /\ SameOut(r, r) /\ SameOut(l, l)
    BY DEF SameIn, SameOut
  <1>2. /\ DataOf(r.udp_sock, v) \subseteq DataOf(r.udp_sock, u)
        /\ DataOf(r.udp_sock, e) \subseteq DataOf(r.udp_sock, d)
        /\ AcksOf(r.udp_sock, v) \subseteq AcksOf(r.udp_sock, u)
        /\ AcksOf(r.udp_sock, e) \subseteq AcksOf(r.udp_sock, d)
    BY DEF Only, DataOf, AcksOf
  <1>3. Hears(r, v) => Hears(r, u)
    BY DEF Hears, Only
  <1>4. Faults \subseteq {"delay"} => (Hears(r, u) => Hears(r, v))
    BY DEF Hears
  <1>5. Matched(r, l, e, v)
    BY <1>1, <1>2, MatchedSame DEF Joined
  <1>6. InOrder /\ Hears(r, v) => Matched(l, r, v, e)
    BY <1>1, <1>2, <1>3, MatchedSame DEF Joined
  <1> QED
    BY <1>4, <1>5, <1>6 DEF Joined

\* The two client_t of a connection have the same id.
LEMMA SameId ==
    ASSUME Known, HandInv, NEW c \in Conn, NEW i \in Id, stage[c] = "open", Theirs(i, c)
    PROVE  local[c].id = i /\ remote[i].id = i
  <1>1. local[c].id \in Id /\ remote[i].id = i
    BY KnownGives, RemoteClient, ListedClient DEF ClientT, Listed, Theirs
  <1>2. Holds(local[c].id, c) /\ Holds(i, c)
    BY DEF Holds, Theirs
  <1> QED
    BY <1>1, <1>2 DEF HandInv, OneId

-----------------------------------------------------------------------------
(* udpclient.                                                              *)

\* It is enough to look at the connection the iteration is about.
LEMMA LinkLocal ==
    ASSUME Known, LinkInv, UNCHANGED remoteVars, NEW c \in Conn,
           \A d \in Conn \ {c} : stage'[d] = stage[d] /\ local'[d] = local[d],
           up \subseteq up', \A p \in up' \ up : p.conn = c,
           down' \subseteq down,
           stage'[c] = "open" => LocalEnd(local'[c], down'),
           \A i \in Id : Theirs(i, c) =>
               /\ RemoteEnd(remote[i], i, up')
               /\ stage'[c] = "open" => Joined(local'[c], remote[i], up', down')
    PROVE  LinkInv'
  <1>1. LocalOK /\ remote' = remote
    BY KnownGives DEF remoteVars
  <1>2. ASSUME NEW d \in Conn, stage'[d] = "open"
        PROVE  LocalEnd(local'[d], down')
    <2>1. CASE d # c
      <3>1. LocalEnd(local[d], down) /\ local'[d] = local[d]
        BY <1>2, <2>1 DEF LinkInv
      <3>2. Only(local[d].udp_sock, down', down, Data)
        BY DEF Only
      <3> QED
        BY <3>1, <3>2, LocalEndSame
    <2> QED
      BY <1>2, <2>1
  <1>3. ASSUME NEW i \in Id, remote[i] # NoClient
        PROVE  RemoteEnd(remote[i], i, up')
    <2>1. CASE remote[i].udp_sock # c
      <3>1. Only(remote[i].udp_sock, up', up, Data \union {"HELLOACK"})
        BY <2>1 DEF Only
      <3> QED
        BY <1>3, <3>1, RemoteEndSame DEF LinkInv
    <2> QED
      BY <1>3, <2>1 DEF Theirs
  <1>4. ASSUME NEW d \in Conn, NEW i \in Id, stage'[d] = "open", Theirs(i, d)
        PROVE  Joined(local'[d], remote[i], up', down')
    <2>1. CASE d # c
      <3>1. local'[d] = local[d] /\ stage[d] = "open"
        BY <1>4, <2>1
      <3>2. Joined(local[d], remote[i], up, down)
        BY <1>4, <3>1 DEF LinkInv
      <3>3. local[d].udp_sock = d /\ remote[i].udp_sock = d
        BY <1>1, <1>4, <3>1 DEF LocalOK, Listed, Theirs
      <3>4. /\ Only(d, up', up, Data \union Ack \union {"HELLOACK"})
            /\ Only(d, down', down, Data \union Ack)
        BY <2>1 DEF Only
      <3> QED
        BY <3>1, <3>2, <3>3, <3>4, JoinedSame
    <2> QED
      BY <1>4, <2>1
  <1> QED
    BY <1>1, <1>2, <1>3, <1>4 DEF LinkInv, Theirs

LEMMA SendBacklog ==
    ASSUME NEW k \in ClientT, NEW a, Backlog(k, a)
    PROVE  Backlog(AfterSend(k), a)
  BY DEF Backlog, AfterSend, ClientT

LEMMA SendSame ==
    ASSUME NEW k \in ClientT
    PROVE  /\ AfterSend(k).udp_sock = k.udp_sock
           /\ AfterSend(k).id = k.id
           /\ AfterSend(k).serial = k.serial
           /\ AfterSend(k).written = k.written
           /\ AfterSend(k).udp2tcp_state = k.udp2tcp_state
  BY DEF AfterSend, ClientT

\* The connection is closed: the server's end may still get what was sent.
LEMMA LinkLocalCloses ==
    ASSUME Known, LinkInv, UNCHANGED remoteVars, down' \subseteq down,
           NEW c \in Conn, Listed(c), NEW k \in ClientT, k.udp_sock = c,
           stage[c] = "open" => k.id = local[c].id,
           NEW sent, \A p \in sent : p.conn = c /\ p.type \in Ack,
           LocalDisconnect(c, k, sent)
    PROVE  LinkInv'
  <1>1. LocalOK /\ HoldInv
    BY KnownGives
  <1>2. /\ stage'[c] = "closed"
        /\ \A d \in Conn \ {c} : stage'[d] = stage[d] /\ local'[d] = local[d]
        /\ up' = up \union sent \union {Goodbye(k)}
    BY <1>1, HeldDisconnects DEF LocalOK, Holds
  <1>3. Goodbye(k).conn = c /\ Goodbye(k).type = "GOODBYE"
    BY SentForItself
  <1>4. Only(c, up', up, Data \union {"HELLOACK"})
    BY <1>2, <1>3 DEF Only, Data, Ack
  <1>5. \A i \in Id : Theirs(i, c) => RemoteEnd(remote[i], i, up')
    BY <1>4, RemoteEndSame DEF LinkInv, Theirs
  <1>6. up \subseteq up' /\ \A p \in up' \ up : p.conn = c
    BY <1>2, <1>3
  <1> QED
    BY <1>2, <1>5, <1>6, LinkLocal

\* The connection stays open, after a handler left the record k.
LEMMA LinkLocalOutcome ==
    ASSUME Known, HandInv, LinkInv, UNCHANGED remoteVars, down' \subseteq down,
           NEW c \in Conn, stage[c] = "open",
           NEW k \in ClientT, k.udp_sock = c, k.id = local[c].id,
           NEW sent, \A p \in sent : p.conn = c /\ p.type \in Ack,
           LocalEnd(k, down'),
           \A i \in Id : Theirs(i, c) => Joined(k, remote[i], up \union sent, down'),
           \/ LocalPass(c, k, sent)
           \/ sent = {} /\ local' = [local EXCEPT ![c] = k] /\ UNCHANGED <<stage, up>>
    PROVE  LinkInv'
  <1>1. LocalOK /\ RemoteOK
    BY KnownGives
  <1> DEFINE u == up \union sent
  <1>2. Only(c, u, up, Data \union {"HELLOACK"})
    BY DEF Only, Data, Ack
  <1>3. \A i \in Id : Theirs(i, c) => RemoteEnd(remote[i], i, u)
    BY <1>2, RemoteEndSame DEF LinkInv, Theirs
  <1>4. CASE LocalDisconnect(c, k, sent)
    BY <1>4, LinkLocalCloses DEF Listed
  <1>5. CASE local' = [local EXCEPT ![c] = k] /\ stage' = stage /\ sent = {} /\ up' = up
    <2>1. u = up'
      BY <1>5
    <2>2. local'[c] = k /\ \A d \in Conn \ {c} : stage'[d] = stage[d] /\ local'[d] = local[d]
      BY <1>1, <1>5 DEF LocalOK
    <2> QED
      BY <1>3, <1>5, <2>1, <2>2, LinkLocal
  <1>6. CASE /\ local' = [local EXCEPT ![c] = AfterSend(k)] /\ stage' = stage
             /\ up' = u \union DataSent(k)
    <2> DEFINE l == AfterSend(k)
    <2>1. /\ local'[c] = l
          /\ \A d \in Conn \ {c} : stage'[d] = stage[d] /\ local'[d] = local[d]
      BY <1>1, <1>6 DEF LocalOK
    <2>2. \A p \in DataSent(k) : p.conn = c /\ p.type \in Data
      BY SentForItself
    <2>3. up \subseteq up' /\ \A p \in up' \ up : p.conn = c
      BY <1>6, <2>2
    <2>4. SameIn(l, k) /\ l.udp_sock = c /\ l.id = k.id /\ l.serial = k.serial
      BY OtherSide, SendSame
    <2>5. LocalEnd(l, down')
      BY <2>4, SendBacklog, ReadsSame DEF LocalEnd
    <2>6. ASSUME NEW i \in Id, Theirs(i, c)
          PROVE  Joined(l, remote[i], up', down') /\ RemoteEnd(remote[i], i, up')
      <3> DEFINE r == remote[i]
      <3>1. r \in ClientT /\ r.udp_sock = c /\ r.id = k.id
        BY <1>1, <2>6, SameId, RemoteClient DEF Theirs
      <3>2. Joined(k, r, u, down') /\ RemoteEnd(r, i, u)
        BY <1>3, <2>6
      <3>3. SameOut(r, r) /\ AcksOf(c, up') \subseteq AcksOf(c, u)
        BY <1>6, <2>2, <3>1, OtherSide DEF AcksOf, Data, Ack
      <3>4. Matched(r, l, down', up')
        <4> HIDE DEF l, r, u
        <4>1. Matched(r, k, down', u) /\ SameIn(l, k)
          BY <2>4, <3>2 DEF Joined
        <4>2. /\ DataOf(r.udp_sock, down') \subseteq DataOf(r.udp_sock, down')
              /\ AcksOf(r.udp_sock, up') \subseteq AcksOf(r.udp_sock, u)
          BY <3>1, <3>3
        <4> QED
          BY <3>3, <4>1, <4>2, MatchedSame
      <3>5. Hears(r, up') <=> Hears(r, u)
        BY <1>6, <2>2 DEF Hears, Data
      <3>6. InOrder /\ Hears(r, up') => Matched(l, r, up', down')
        BY <1>6, <3>2, <3>5, SendMatched DEF Joined
      <3>7. k.serial = 0
        BY DEF LocalEnd
      <3> HIDE DEF l, r, u
      <3>8. InOrder /\ Hears(r, up') => Reads(r, 0, up')
        <4> SUFFICES ASSUME InOrder, Hears(r, up')
                     PROVE  Reads(r, 0, up')
          OBVIOUS
        <4>1. Stream(r, l.serial) /\ l.serial = 0
          BY <2>4, <3>2, <3>5, <3>7 DEF RemoteEnd, Reads
        <4>2. Matched(l, r, up', down') /\ r.udp_sock = l.udp_sock /\ r.id = l.id
          BY <2>4, <3>1, <3>6
        <4>3. Reads(r, l.serial, up')
          BY <3>1, <4>1, <4>2, MatchedReads
        <4> QED
          BY <4>1, <4>3
      <3>9. Joined(l, r, up', down')
        BY <3>2, <3>4, <3>5, <3>6 DEF Joined
      <3> QED
        BY <3>2, <3>8, <3>9 DEF RemoteEnd, l, r
    <2> HIDE DEF l
    <2> QED
      BY <2>1, <2>3, <2>5, <2>6, <1>6, LinkLocal
  <1> QED
    BY <1>4, <1>5, <1>6 DEF LocalPass

LEMMA LinkAccept ==
    ASSUME Known, LinkInv, UNCHANGED remoteVars, NEW c \in Conn, Accept(c)
    PROVE  LinkInv'
  <1>1. LocalOK
    BY KnownGives
  <1>2. /\ stage'[c] = "pending"
        /\ \A d \in Conn \ {c} : stage'[d] = stage[d] /\ local'[d] = local[d]
        /\ up' = up \union {Packet(c, 0, "HELLO")}
        /\ down' = down
    BY <1>1 DEF Accept, LocalOK
  <1>3. Only(c, up', up, Data \union {"HELLOACK"})
    BY <1>2 DEF Only, Packet, Data
  <1>4. \A i \in Id : Theirs(i, c) => RemoteEnd(remote[i], i, up')
    BY <1>3, RemoteEndSame DEF LinkInv, Theirs
  <1>5. up \subseteq up' /\ \A p \in up' \ up : p.conn = c
    BY <1>2 DEF Packet
  <1> QED
    BY <1>2, <1>4, <1>5, LinkLocal

\* What is known of an open connection and of the client_t the server has for it.
LEMMA OpenGives ==
    ASSUME Known, HandInv, LinkInv, NEW c \in Conn, stage[c] = "open"
    PROVE  /\ local[c] \in ClientT /\ local[c].udp_sock = c /\ Steady(local[c])
           /\ local[c].udp2tcp_state # "WAIT_HELLO"
           /\ LocalEnd(local[c], down)
           /\ \A i \in Id : Theirs(i, c) =>
                 /\ remote[i] \in ClientT
                 /\ remote[i].udp_sock = c /\ remote[i].id = local[c].id
                 /\ Joined(local[c], remote[i], up, down)
  <1>1. LocalOK /\ RemoteOK /\ HoldInv
    BY KnownGives
  <1>2. Listed(c)
    BY DEF Listed
  <1>3. local[c] \in ClientT /\ local[c].udp_sock = c /\ Steady(local[c])
    BY <1>1, <1>2, ListedClient
  <1>4. local[c].udp2tcp_state # "WAIT_HELLO" /\ LocalEnd(local[c], down)
    BY <1>1 DEF HoldInv, Calm, LinkInv
  <1>5. ASSUME NEW i \in Id, Theirs(i, c)
        PROVE  /\ remote[i] \in ClientT
               /\ remote[i].udp_sock = c /\ remote[i].id = local[c].id
               /\ Joined(local[c], remote[i], up, down)
    BY <1>1, <1>5, RemoteClient, SameId DEF Theirs, LinkInv
  <1> QED
    BY <1>3, <1>4, <1>5

\* What an open client that gets the packet p finds.
LEMMA OpenRecv ==
    ASSUME MaxCopies = 0, Known, NEW c \in Conn, NEW p, LocalRecv(c, p)
    PROVE  /\ p \in down /\ p \in Message /\ p.conn = c /\ Listed(c)
           /\ p.type \in Data => p.chunk \in Chunk
           /\ down' = down \ {p}
           /\ p.type \in Data \union Ack => stage[c] = "open"
  <1>1. NetOK /\ LocalOK /\ HoldInv
    BY KnownGives
  <1>2. p \in Message /\ p.conn = c /\ Listed(c) /\ down' = down \ {p} /\ p \in down
    BY <1>1, LocalRecvGives, Gone DEF LocalRecv, NetOK
  <1>3. p.type \in Data => p.chunk \in Chunk
    BY <1>2, MessageFields
  <1>4. p.type \in Data \union Ack => stage[c] = "open"
    BY <1>1, <1>2 DEF HoldInv, Calm, Silent, Listed, Data, Ack
  <1> QED
    BY <1>2, <1>3, <1>4

LEMMA LinkLocalHelloAck ==
    ASSUME MaxCopies = 0, Known, HandInv, LinkInv, UNCHANGED remoteVars,
           NEW c \in Conn, NEW p, LocalRecvHelloAck(c, p)
    PROVE  LinkInv'
  <1> DEFINE k == [client_got_helloack(local[c]) EXCEPT !.id = p.id]
             answer == Packet(c, p.id, "HELLOACK")
  <1>1. NetOK /\ LocalOK /\ RemoteOK /\ HoldInv
    BY KnownGives
  <1>2. p.type = "HELLOACK" /\ LocalRecv(c, p) /\ LocalGoOn(c, k, {answer})
    BY DEF LocalRecvHelloAck
  <1>3. p \in down /\ p.conn = c /\ p.id \in Id /\ Listed(c) /\ down' = down \ {p}
    BY <1>2, OpenRecv, MessageFields
  <1>4. stage[c] = "pending"
    BY <1>2, <1>3 DEF HandInv, OnDown, Listed
  <1>5. local[c] \in ClientT /\ local[c].udp_sock = c /\ Blank(local[c], 0)
    BY <1>1, <1>3, <1>4, ListedClient DEF HandInv, BlankInv
  <1>6. /\ k \in ClientT
        /\ k.udp_sock = c /\ k.id = p.id /\ k.serial = 0 /\ k.nread = 0
        /\ k.tcp2udp_q = <<>> /\ k.tcp2udp_state = "WAIT_DATA0"
        /\ k.written = <<>> /\ Wants(k) = "DATA0"
    <2>1. k \in ClientT
      BY <1>3, <1>5, GotHelloAck, Updates
    <2> QED
      BY <1>5, <2>1 DEF client_got_helloack, ClientT, Blank, Wants
  <1> HIDE DEF k
  <1>7. ~ IdInUse(c, k.id)
    BY <1>1, <1>2, <1>3, <1>6 DEF IdInUse, HoldInv, OneHolder, Holds
  <1>8. /\ stage' = [stage EXCEPT ![c] = "open"]
        /\ local' = [local EXCEPT ![c] = k]
        /\ up' = up \union {answer}
    BY <1>2, <1>4, <1>7 DEF LocalGoOn, Promote
  <1>9. answer.conn = c /\ answer.type = "HELLOACK"
    BY DEF Packet
  <1>10. /\ DataOf(c, down') = {} /\ AcksOf(c, down') = {}
         /\ DataOf(c, up') = {} /\ AcksOf(c, up') = {}
    BY <1>1, <1>3, <1>4, <1>8, <1>9 DEF DataOf, AcksOf, HoldInv, Calm, Silent, Data, Ack
  <1>11. LocalEnd(k, down')
    <2>1. Backlog(k, 0)
      BY <1>6 DEF Backlog
    <2>2. Reads(k, k.id, down')
      BY <1>6, <1>10 DEF Reads, Stream, Coming
    <2> QED
      BY <1>6, <2>1, <2>2 DEF LocalEnd
  <1>12. ASSUME NEW i \in Id, Theirs(i, c)
         PROVE  RemoteEnd(remote[i], i, up') /\ Joined(k, remote[i], up', down')
    <2> DEFINE r == remote[i]
    <2>1. r \in ClientT /\ r.udp_sock = c /\ Blank(r, i)
      BY <1>1, <1>4, <1>12, RemoteClient DEF Theirs, HandInv, BlankInv, Silent
    <2>2. Wants(r) = "DATA0"
      BY <2>1 DEF Blank, Wants
    <2> HIDE DEF r
    <2>3. Matched(k, r, up', down') /\ Matched(r, k, down', up') /\ Backlog(r, 0)
      BY <1>6, <1>10, <2>1, <2>2, BlankMatched DEF Blank
    <2>4. Hears(r, up')
      BY <1>8, <1>9, <2>1 DEF Hears
    <2>5. Reads(r, 0, up')
      BY <1>10, <2>1 DEF Reads, Stream, Coming, Blank
    <2>6. RemoteEnd(r, i, up')
      BY <2>1, <2>3, <2>5 DEF RemoteEnd, Blank
    <2> QED
      BY <2>3, <2>4, <2>6 DEF Joined, r
  <1>13. /\ local'[c] = k
         /\ \A d \in Conn \ {c} : stage'[d] = stage[d] /\ local'[d] = local[d]
    BY <1>1, <1>8 DEF LocalOK
  <1>14. up \subseteq up' /\ (\A q \in up' \ up : q.conn = c) /\ down' \subseteq down
    BY <1>3, <1>8, <1>9
  <1> QED
    BY <1>11, <1>12, <1>13, <1>14, LinkLocal

LEMMA LinkLocalData ==
    ASSUME MaxCopies = 0, Known, HandInv, LinkInv, UNCHANGED remoteVars,
           NEW c \in Conn, NEW p, LocalRecvData(c, p)
    PROVE  LinkInv'
  <1> DEFINE k == local[c]
             l == AfterWrite(k, p.chunk)
             f == AfterFailedWrite(k)
             ack == AckFor(k, p.type)
  <1>1. p.type \in Data /\ LocalRecv(c, p)
    BY DEF LocalRecvData
  <1>2. /\ p \in down /\ p.conn = c /\ p.chunk \in Chunk
        /\ down' = down \ {p} /\ stage[c] = "open"
    BY <1>1, OpenRecv
  <1>3. /\ k \in ClientT /\ k.udp_sock = c
        /\ k.udp2tcp_state # "WAIT_HELLO" /\ LocalEnd(k, down)
    BY <1>2, OpenGives
  <1>4. p \in DataOf(c, down)
    BY <1>1, <1>2 DEF DataOf
  <1>5. IsNewData(k, p.type) /\ Reads(l, k.id, down')
    BY <1>2, <1>3, <1>4, WriteReads DEF LocalEnd
  <1>6. LocalPass(c, l, {ack}) \/ LocalDisconnect(c, f, {ack})
    BY <1>2, <1>5 DEF LocalRecvData, LocalGoOn
  <1>7. l \in ClientT /\ SameName(l, k)
    BY <1>2, <1>3, Write
  <1>8. ack.conn = c /\ ack.type \in Ack
    BY <1>3, SentForItself, SentUnderId
  <1>9. SameOut(l, k)
    BY <1>3, OtherSide
  <1>10. LocalEnd(l, down')
    <2>1. l.id = k.id /\ l.serial = k.serial
      BY <1>9 DEF SameOut
    <2> QED
      BY <1>3, <1>5, <1>9, <2>1, BacklogSame DEF LocalEnd
  <1>11. ASSUME NEW i \in Id, Theirs(i, c)
         PROVE  Joined(l, remote[i], up \union {ack}, down')
    <2> DEFINE r == remote[i]
               u == up \union {ack}
    <2>1. /\ r \in ClientT /\ r.udp_sock = c /\ r.id = k.id
          /\ Joined(k, r, up, down)
      BY <1>2, <1>11, OpenGives
    <2>2. Matched(r, l, down', u)
      <3>1. Matched(r, k, down, up) /\ p \in DataOf(r.udp_sock, down)
        BY <1>4, <2>1 DEF Joined
      <3> HIDE DEF r, k
      <3> QED
        BY <1>2, <1>3, <2>1, <3>1, WriteMatched
    <2>3. Hears(r, u) <=> Hears(r, up)
      BY <1>8 DEF Hears, Ack
    <2>4. ASSUME InOrder, Hears(r, u)
          PROVE  Matched(l, r, u, down')
      <3>1. Matched(k, r, up, down) /\ SameIn(r, r)
        BY <2>1, <2>3, <2>4 DEF Joined, SameIn
      <3>2. /\ DataOf(k.udp_sock, u) \subseteq DataOf(k.udp_sock, up)
            /\ AcksOf(k.udp_sock, down') \subseteq AcksOf(k.udp_sock, down)
        BY <1>2, <1>8 DEF DataOf, AcksOf, Data, Ack
      <3> HIDE DEF l, k, r, u
      <3> QED
        BY <1>9, <3>1, <3>2, MatchedSame
    <2> QED
      BY <2>1, <2>2, <2>3, <2>4 DEF Joined
  <1>12. CASE LocalDisconnect(c, f, {ack})
    <2>1. f \in ClientT /\ f.udp_sock = c /\ f.id = k.id
      BY <1>3, FailedWrite DEF SameName
    <2>2. down' \subseteq down /\ Listed(c)
      BY <1>2 DEF Listed
    <2> HIDE DEF f, ack
    <2> QED
      BY <1>8, <1>12, <2>1, <2>2, LinkLocalCloses
  <1>13. CASE LocalPass(c, l, {ack})
    <2>1. l.udp_sock = c /\ l.id = k.id
      BY <1>3, <1>7 DEF SameName
    <2>2. down' \subseteq down
      BY <1>2
    <2> HIDE DEF l, ack
    <2> QED
      BY <1>2, <1>7, <1>8, <1>10, <1>11, <1>13, <2>1, <2>2, LinkLocalOutcome
  <1> QED
    BY <1>6, <1>12, <1>13

LEMMA LinkLocalAck ==
    ASSUME MaxCopies = 0, Known, HandInv, LinkInv, UNCHANGED remoteVars,
           NEW c \in Conn, NEW p, LocalRecvAck(c, p)
    PROVE  LinkInv'
  <1> DEFINE k == local[c]
             l == client_got_ack(k, p.type)
  <1>1. p.type \in Ack /\ LocalRecv(c, p)
    BY DEF LocalRecvAck
  <1>2. p \in down /\ p.conn = c /\ down' = down \ {p} /\ stage[c] = "open"
    BY <1>1, OpenRecv
  <1>3. k \in ClientT /\ k.udp_sock = c /\ Steady(k) /\ LocalEnd(k, down)
    BY <1>2, OpenGives
  <1>4. LocalPass(c, l, {}) \/ LocalDisconnect(c, k, {})
    BY <1>2 DEF LocalRecvAck, LocalGoOn
  <1>5. l \in ClientT /\ SameName(l, k) /\ SameIn(l, k)
    BY <1>3, GotAck, OtherSide
  <1>6. LocalEnd(l, down')
    <2>1. l.serial = k.serial
      BY <1>3 DEF client_got_ack, ClientT
    <2>2. \E a \in Nat : Backlog(l, a)
      BY <1>3, GotAckBacklog DEF LocalEnd
    <2>3. l.id = k.id /\ DataOf(k.udp_sock, down') \subseteq DataOf(k.udp_sock, down)
      BY <1>2, <1>5 DEF SameName, DataOf
    <2> HIDE DEF l
    <2>4. Reads(l, k.id, down')
      BY <1>3, <1>5, <2>3, ReadsSame DEF LocalEnd
    <2> QED
      BY <1>3, <2>1, <2>2, <2>3, <2>4 DEF LocalEnd
  <1>7. ASSUME NEW i \in Id, Theirs(i, c)
        PROVE  Joined(l, remote[i], up, down')
    <2> DEFINE r == remote[i]
    <2>1. r \in ClientT /\ r.udp_sock = c /\ Joined(k, r, up, down)
      BY <1>2, <1>7, OpenGives
    <2>2. Matched(r, l, down', up)
      <3>1. Matched(r, k, down, up) /\ SameOut(r, r)
        BY <2>1 DEF Joined, SameOut
      <3>2. /\ DataOf(r.udp_sock, down') \subseteq DataOf(r.udp_sock, down)
            /\ AcksOf(r.udp_sock, up) \subseteq AcksOf(r.udp_sock, up)
        BY <1>2 DEF DataOf
      <3> HIDE DEF l, k, r
      <3> QED
        BY <1>5, <3>1, <3>2, MatchedSame
    <2>3. ASSUME InOrder, Hears(r, up)
          PROVE  Matched(l, r, up, down')
      <3>1. Matched(k, r, up, down) /\ p \in AcksOf(k.udp_sock, down)
        BY <1>1, <1>2, <1>3, <2>1, <2>3 DEF Joined, AcksOf
      <3> HIDE DEF k, r
      <3> QED
        BY <1>2, <1>3, <2>1, <3>1, GotAckMatched
    <2> QED
      BY <2>1, <2>2, <2>3 DEF Joined
  <1>8. CASE LocalDisconnect(c, k, {})
    BY <1>2, <1>3, <1>8, LinkLocalCloses DEF Listed
  <1>9. CASE LocalPass(c, l, {})
    <2>1. l.udp_sock = c /\ l.id = k.id /\ up \union {} = up
      BY <1>3, <1>5 DEF SameName
    <2>2. down' \subseteq down
      BY <1>2
    <2> HIDE DEF l
    <2> QED
      BY <1>2, <1>5, <1>6, <1>7, <1>9, <2>1, <2>2, LinkLocalOutcome
  <1> QED
    BY <1>4, <1>8, <1>9

LEMMA LinkLocalReceive ==
    ASSUME MaxCopies = 0, Known, HandInv, LinkInv, UNCHANGED remoteVars,
           NEW c \in Conn, LocalReceive(c)
    PROVE  LinkInv'
  <1>1. ASSUME NEW p, LocalRecvGoodbye(c, p)
        PROVE  LinkInv'
    <2>1. LocalRecv(c, p) /\ LocalDisconnect(c, local[c], {})
      BY <1>1 DEF LocalRecvGoodbye
    <2>2. Listed(c) /\ down' \subseteq down
      BY <2>1, OpenRecv
    <2>3. local[c] \in ClientT /\ local[c].udp_sock = c
      BY <2>2, KnownGives, ListedClient
    <2> QED
      BY <2>1, <2>2, <2>3, LinkLocalCloses
  <1> QED
    BY <1>1, LinkLocalHelloAck, LinkLocalData, LinkLocalAck DEF LocalReceive

\* A change that neither side of the protocol looks at.
LEMMA JoinedLocal ==
    ASSUME NEW k, NEW l, SameOut(l, k), SameIn(l, k),
           NEW r, NEW u, NEW d, Joined(k, r, u, d)
    PROVE  Joined(l, r, u, d)
  <1>1. SameOut(r, r) /\ SameIn(r, r)
    BY DEF SameOut, SameIn
  <1>2. /\ \A c : DataOf(c, u) \subseteq DataOf(c, u) /\ AcksOf(c, u) \subseteq AcksOf(c, u)
        /\ \A c : DataOf(c, d) \subseteq DataOf(c, d) /\ AcksOf(c, d) \subseteq AcksOf(c, d)
    OBVIOUS
  <1>3. Matched(r, l, d, u)
    BY <1>1, <1>2, MatchedSame DEF Joined
  <1>4. InOrder /\ Hears(r, u) => Matched(l, r, u, d)
    BY <1>1, <1>2, MatchedSame DEF Joined
  <1> QED
    BY <1>3, <1>4 DEF Joined

LEMMA LocalEndOther ==
    ASSUME NEW k, NEW l, SameOut(l, k), SameIn(l, k), NEW net, LocalEnd(k, net)
    PROVE  LocalEnd(l, net)
  <1>1. l.serial = k.serial /\ l.id = k.id
    BY DEF SameOut
  <1>2. Reads(l, k.id, net)
    BY ReadsSame DEF LocalEnd
  <1>3. \E a \in Nat : Backlog(l, a)
    BY BacklogSame DEF LocalEnd
  <1> QED
    BY <1>1, <1>2, <1>3 DEF LocalEnd

LEMMA LinkLocalTcp ==
    ASSUME AllDiffer, Known, HandInv, LinkInv, UNCHANGED remoteVars,
           NEW c \in Conn, LocalTcp(c) \/ LocalCheck(c)
    PROVE  LinkInv'
  <1> DEFINE k == local[c]
  <1>1. stage[c] = "open" /\ down' = down
    BY DEF LocalTcp, LocalTcpData, LocalTcpEof, LocalTcpError, LocalCheck
  <1>2. /\ k \in ClientT /\ k.udp_sock = c /\ Steady(k) /\ LocalEnd(k, down)
        /\ \A i \in Id : Theirs(i, c) => Joined(k, remote[i], up, down)
    BY <1>1, OpenGives
  <1>3. ASSUME NEW l \in ClientT, SameName(l, k),
               LocalEnd(l, down),
               \A i \in Id : Theirs(i, c) => Joined(l, remote[i], up, down),
               \/ LocalGoOn(c, l, {})
               \/ LocalDisconnect(c, l, {})
               \/ local' = [local EXCEPT ![c] = l] /\ UNCHANGED <<stage, up>>
        PROVE  LinkInv'
    <2>1. l.udp_sock = c /\ l.id = local[c].id /\ up \union {} = up /\ down' \subseteq down
      BY <1>1, <1>2, <1>3 DEF SameName
    <2>2. CASE LocalDisconnect(c, l, {})
      BY <1>1, <1>3, <2>1, <2>2, LinkLocalCloses DEF Listed
    <2>3. CASE \/ LocalPass(c, l, {})
               \/ local' = [local EXCEPT ![c] = l] /\ UNCHANGED <<stage, up>>
      BY <1>1, <1>3, <2>1, <2>3, LinkLocalOutcome
    <2> QED
      BY <1>1, <1>3, <2>2, <2>3 DEF LocalGoOn
  <1>4. ASSUME NEW l \in ClientT, SameName(l, k), SameOut(l, k), SameIn(l, k),
               \/ LocalGoOn(c, l, {})
               \/ LocalDisconnect(c, l, {})
               \/ local' = [local EXCEPT ![c] = l] /\ UNCHANGED <<stage, up>>
        PROVE  LinkInv'
    <2>1. LocalEnd(l, down)
      BY <1>2, <1>4, LocalEndOther
    <2>2. \A i \in Id : Theirs(i, c) => Joined(l, remote[i], up, down)
      BY <1>2, <1>4, JoinedLocal
    <2> QED
      BY <1>3, <1>4, <2>1, <2>2
  <1>5. CASE LocalTcpData(c)
    <2>1. PICK l \in client_recv_tcp_data(k) : LocalGoOn(c, l, {})
      BY <1>5 DEF LocalTcpData
    <2>2. l \in ClientT /\ SameName(l, k) /\ k.nread < MaxChunks
      BY <1>2, <1>5, RecvTcp, LocalMayRead
    <2>3. PICK a \in Nat : Backlog(k, a)
      BY <1>2 DEF LocalEnd
    <2>4. l = Queued(k)
      BY <1>2, <2>1, <2>2, <2>3, AlwaysQueued
    <2>5. Backlog(l, a) /\ SameIn(l, k) /\ l.serial = k.serial
      BY <1>2, <2>2, <2>3, <2>4, QueuedBacklog, OtherSide DEF Queued, ClientT
    <2>6. LocalEnd(l, down)
      <3>1. DataOf(k.udp_sock, down) \subseteq DataOf(k.udp_sock, down) /\ l.id = k.id
        BY <2>5 DEF SameIn
      <3>2. Reads(l, k.id, down)
        BY <1>2, <2>5, <3>1, ReadsSame DEF LocalEnd
      <3> QED
        BY <1>2, <2>5, <3>1, <3>2 DEF LocalEnd
    <2>7. ASSUME NEW i \in Id, Theirs(i, c)
          PROVE  Joined(l, remote[i], up, down)
      <3> DEFINE r == remote[i]
      <3>1. Joined(k, r, up, down) /\ SameOut(r, r)
        BY <1>2, <2>7 DEF SameOut
      <3> HIDE DEF k, r
      <3>2. Matched(r, l, down, up)
        <4>1. /\ DataOf(r.udp_sock, down) \subseteq DataOf(r.udp_sock, down)
              /\ AcksOf(r.udp_sock, up) \subseteq AcksOf(r.udp_sock, up)
          OBVIOUS
        <4> QED
          BY <2>5, <3>1, <4>1, MatchedSame DEF Joined
      <3>3. InOrder /\ Hears(r, up) => Matched(l, r, up, down)
        BY <1>2, <2>2, <2>4, <3>1, QueuedMatched DEF Joined
      <3> QED
        BY <3>1, <3>2, <3>3 DEF Joined, r
    <2> QED
      BY <1>3, <2>1, <2>2, <2>6, <2>7
  <1>6. CASE LocalTcpEof(c)
    <2>1. /\ AtEof(k) \in ClientT /\ SameName(AtEof(k), k)
          /\ SameOut(AtEof(k), k) /\ SameIn(AtEof(k), k)
      BY <1>2, Eof, OtherSide
    <2> QED
      BY <1>4, <1>6, <2>1, HeldEof, KnownGives
  <1>7. CASE LocalTcpError(c)
    BY <1>2, <1>4, <1>7, OtherSide DEF LocalTcpError, SameName
  <1>8. CASE LocalCheck(c)
    <2> DEFINE l == client_check_and_resend(k)
    <2>1. l \in ClientT /\ SameName(l, k) /\ SameOut(l, k) /\ SameIn(l, k)
      BY <1>2, <1>8, Check, OtherSide DEF LocalCheck, TimeoutIsUp
    <2>2. \/ LocalDisconnect(c, l, {})
          \/ local' = [local EXCEPT ![c] = l] /\ UNCHANGED <<stage, up>>
      BY <1>8 DEF LocalCheck
    <2> HIDE DEF l
    <2> QED
      BY <1>4, <2>1, <2>2
  <1> QED
    BY <1>5, <1>6, <1>7, <1>8 DEF LocalTcp

-----------------------------------------------------------------------------
(* udpserver.                                                              *)

LEMMA SockOf ==
    ASSUME Known, NEW i \in Id, remote[i] # NoClient
    PROVE  /\ remote[i] \in ClientT /\ remote[i].udp_sock \in Conn /\ remote[i].id = i
           /\ Steady(remote[i])
           /\ Theirs(i, remote[i].udp_sock)
  <1>1. remote[i] \in ClientT /\ remote[i].id = i /\ Steady(remote[i])
    BY KnownGives, RemoteClient
  <1> QED
    BY <1>1 DEF ClientT, Theirs

\* It is enough to look at the connection the iteration is about.
LEMMA LinkRemote ==
    ASSUME Known, HandInv, LinkInv, UNCHANGED localVars,
           NEW i \in Id, remote[i] # NoClient, NEW c, c = remote[i].udp_sock,
           \A j \in Id \ {i} : remote'[j] = remote[j],
           down \subseteq down', \A p \in down' \ down : p.conn = c,
           up' \subseteq up, \A p \in up \ up' : p.conn = c \/ p.type # "HELLOACK",
           stage[c] = "open" => LocalEnd(local[c], down'),
           remote'[i] # NoClient =>
               /\ remote'[i].udp_sock = c
               /\ RemoteEnd(remote'[i], i, up')
               /\ stage[c] = "open" => Joined(local[c], remote'[i], up', down')
    PROVE  LinkInv'
  <1>1. LocalOK /\ stage' = stage /\ local' = local /\ c \in Conn
    BY KnownGives, SockOf DEF localVars
  <1>2. ASSUME NEW d \in Conn, stage[d] = "open"
        PROVE  LocalEnd(local[d], down')
    <2>1. CASE d # c
      <3>1. LocalEnd(local[d], down) /\ local[d].udp_sock = d
        BY <1>1, <1>2 DEF LinkInv, LocalOK, Listed
      <3>2. Only(d, down', down, Data)
        BY <2>1 DEF Only
      <3> QED
        BY <3>1, <3>2, LocalEndSame
    <2> QED
      BY <1>2, <2>1
  <1>3. ASSUME NEW j \in Id, remote'[j] # NoClient
        PROVE  RemoteEnd(remote'[j], j, up')
    <2>1. CASE j # i
      <3>1. RemoteEnd(remote[j], j, up) /\ remote'[j] = remote[j]
        BY <1>3, <2>1 DEF LinkInv
      <3>2. Only(remote[j].udp_sock, up', up, Data \union {"HELLOACK"})
        BY DEF Only
      <3> QED
        BY <3>1, <3>2, RemoteEndSame
    <2> QED
      BY <1>3, <2>1
  <1>4. ASSUME NEW d \in Conn, NEW j \in Id, stage[d] = "open",
               remote'[j] # NoClient, remote'[j].udp_sock = d
        PROVE  Joined(local[d], remote'[j], up', down')
    <2>1. CASE j # i
      <3>1. remote'[j] = remote[j] /\ Theirs(j, d)
        BY <1>4, <2>1 DEF Theirs
      <3>2. d # c
        BY <1>1, <2>1, <3>1, SockOf DEF HandInv, OneId, Holds, Theirs
      <3>3. Joined(local[d], remote[j], up, down)
        BY <1>4, <3>1 DEF LinkInv
      <3>4. local[d].udp_sock = d /\ remote[j].udp_sock = d
        BY <1>1, <1>4, <3>1 DEF LocalOK, Listed, Theirs
      <3>5. /\ Only(d, up', up, Data \union Ack \union {"HELLOACK"})
            /\ Only(d, down', down, Data \union Ack)
            /\ \A p \in up : p.conn = d /\ p.type = "HELLOACK" => p \in up'
        BY <3>2 DEF Only
      <3> QED
        BY <3>1, <3>3, <3>4, <3>5, JoinedSame
    <2> QED
      BY <1>4, <2>1
  <1> QED
    BY <1>1, <1>2, <1>3, <1>4 DEF LinkInv, Theirs

LEMMA LinkRemoteCloses ==
    ASSUME Known, HandInv, LinkInv, UNCHANGED localVars,
           NEW i \in Id, remote[i] # NoClient,
           NEW k, k.udp_sock = remote[i].udp_sock,
           NEW sent, \A p \in sent : p.conn = k.udp_sock /\ p.type \in Ack,
           up' \subseteq up, \A p \in up \ up' : p.conn = k.udp_sock \/ p.type # "HELLOACK",
           RemoteDisconnect(i, k, sent)
    PROVE  LinkInv'
  <1> DEFINE c == k.udp_sock
  <1>1. LocalOK /\ RemoteOK /\ c \in Conn
    BY KnownGives, SockOf
  <1>2. /\ remote'[i] = NoClient
        /\ \A j \in Id \ {i} : remote'[j] = remote[j]
        /\ down' = down \union sent \union {Goodbye(k)}
    BY <1>1 DEF RemoteDisconnect, RemoteOK
  <1>3. Goodbye(k).conn = c /\ Goodbye(k).type = "GOODBYE"
    BY SentForItself
  <1>4. down \subseteq down' /\ \A p \in down' \ down : p.conn = c
    BY <1>2, <1>3
  <1>5. ASSUME stage[c] = "open"
        PROVE  LocalEnd(local[c], down')
    <2>1. LocalEnd(local[c], down) /\ local[c].udp_sock = c
      BY <1>1, <1>5 DEF LinkInv, LocalOK, Listed
    <2>2. Only(c, down', down, Data)
      BY <1>2, <1>3 DEF Only, Data, Ack
    <2> QED
      BY <2>1, <2>2, LocalEndSame
  <1> HIDE DEF c
  <1>6. c = remote[i].udp_sock
    BY DEF c
  <1>7. \A p \in up \ up' : p.conn = c \/ p.type # "HELLOACK"
    BY DEF c
  <1>8. \A j \in Id \ {i} : remote'[j] = remote[j]
    BY <1>2
  <1>9. remote'[i] = NoClient
    BY <1>2
  <1>10. stage[c] = "open" => LocalEnd(local[c], down')
    BY <1>5
  <1> QED
    BY <1>4, <1>6, <1>7, <1>8, <1>9, <1>10, LinkRemote

\* An iteration that sends no DATA.
RemoteKept(i, k, sent) ==
    /\ remote' = [remote EXCEPT ![i] = k]
    /\ down' = down \union sent

LEMMA LinkRemoteOutcome ==
    ASSUME Known, HandInv, LinkInv, UNCHANGED localVars,
           NEW i \in Id, remote[i] # NoClient,
           NEW k \in ClientT, SameName(k, remote[i]), NEW c, k.udp_sock = c,
           NEW sent, \A p \in sent : p.conn = c /\ p.type \in Ack,
           up' \subseteq up, \A p \in up \ up' : p.conn = c \/ p.type # "HELLOACK",
           RemoteEnd(k, i, up'),
           stage[c] = "open" => Joined(local[c], k, up', down \union sent),
           RemotePass(i, k, sent) \/ RemoteKept(i, k, sent)
    PROVE  LinkInv'
  <1> DEFINE l == local[c]
             d == down \union sent
  <1>1. LocalOK /\ RemoteOK /\ c \in Conn /\ c = remote[i].udp_sock /\ k.id = i
    BY KnownGives, SockOf DEF SameName
  <1>2. ASSUME stage[c] = "open"
        PROVE  l \in ClientT /\ l.udp_sock = c /\ l.id = i /\ LocalEnd(l, d)
    <2>1. l \in ClientT /\ l.udp_sock = c /\ LocalEnd(l, down)
      BY <1>1, <1>2, OpenGives
    <2>2. Only(c, d, down, Data)
      BY DEF Only, Data, Ack
    <2>3. l.id = i
      BY <1>1, <1>2, SockOf, SameId
    <2> QED
      BY <2>1, <2>2, <2>3, LocalEndSame
  <1>3. CASE RemoteDisconnect(i, k, sent)
    BY <1>1, <1>3, LinkRemoteCloses
  <1>4. CASE remote' = [remote EXCEPT ![i] = k] /\ down' = d
    <2>1. remote'[i] = k /\ \A j \in Id \ {i} : remote'[j] = remote[j]
      BY <1>1, <1>4 DEF RemoteOK
    <2>2. down \subseteq down' /\ \A p \in down' \ down : p.conn = c
      BY <1>4
    <2>3. /\ stage[c] = "open" => LocalEnd(local[c], down') /\ Joined(local[c], k, up', down')
      BY <1>2, <1>4
    <2> HIDE DEF l, d
    <2> QED
      BY <1>1, <2>1, <2>2, <2>3, LinkRemote
  <1>5. CASE remote' = [remote EXCEPT ![i] = AfterSend(k)] /\ down' = d \union DataSent(k)
    <2> DEFINE r == AfterSend(k)
    <2>1. remote'[i] = r /\ \A j \in Id \ {i} : remote'[j] = remote[j]
      BY <1>1, <1>5 DEF RemoteOK
    <2>2. \A p \in DataSent(k) : p.conn = c /\ p.type \in Data
      BY SentForItself
    <2>3. down \subseteq down' /\ \A p \in down' \ down : p.conn = c
      BY <1>5, <2>2
    <2>4. /\ SameIn(r, k) /\ r.udp_sock = c /\ r.id = i /\ r.serial = k.serial
          /\ r.written = k.written /\ r.udp2tcp_state = k.udp2tcp_state
      BY <1>1, OtherSide, SendSame
    <2> HIDE DEF r
    <2>5. Hears(r, up') <=> Hears(k, up')
      BY <2>4 DEF Hears
    <2>6. RemoteEnd(r, i, up')
      <3>1. \E a \in Nat : Backlog(r, a)
        BY SendBacklog DEF RemoteEnd, r
      <3>2. InOrder /\ Hears(r, up') => Reads(r, 0, up')
        BY <2>4, <2>5, ReadsSame DEF RemoteEnd
      <3> QED
        BY <2>4, <3>1, <3>2 DEF RemoteEnd
    <2>7. ASSUME stage[c] = "open"
          PROVE  LocalEnd(l, down') /\ Joined(l, r, up', down')
      <3>1. Joined(l, k, up', d) /\ l \in ClientT /\ l.udp_sock = c /\ l.id = i /\ LocalEnd(l, d)
        BY <1>2, <2>7
      <3>2. AcksOf(c, down') \subseteq AcksOf(c, d) /\ SameOut(l, l)
        BY <1>5, <2>2 DEF AcksOf, Data, Ack, SameOut
      <3> HIDE DEF l, d
      <3>3. Matched(r, l, down', up')
        BY <1>5, <3>1, SendMatched DEF Joined, r
      <3>4. InOrder /\ Hears(r, up') => Matched(l, r, up', down')
        <4>1. /\ DataOf(l.udp_sock, up') \subseteq DataOf(l.udp_sock, up')
              /\ AcksOf(l.udp_sock, down') \subseteq AcksOf(l.udp_sock, d)
          BY <3>1, <3>2
        <4> QED
          BY <2>4, <2>5, <3>1, <3>2, <4>1, MatchedSame DEF Joined
      <3>5. Reads(l, i, down')
        <4>1. Stream(l, i) /\ r.serial = i
          BY <2>4, <3>1 DEF LocalEnd, Reads, RemoteEnd
        <4>2. l.udp_sock = r.udp_sock /\ l.id = r.id
          BY <2>4, <3>1
        <4>3. Reads(l, r.serial, down')
          BY <3>1, <3>3, <4>1, <4>2, MatchedReads
        <4> QED
          BY <4>1, <4>3
      <3> QED
        BY <2>5, <3>1, <3>3, <3>4, <3>5 DEF Joined, LocalEnd
    <2>8. stage[c] = "open" => LocalEnd(local[c], down') /\ Joined(local[c], r, up', down')
      BY <2>7
    <2> HIDE DEF l, d
    <2> QED
      BY <1>1, <2>1, <2>3, <2>4, <2>6, <2>8, LinkRemote
  <1> QED
    BY <1>3, <1>4, <1>5 DEF RemotePass, RemoteKept

\* What a handler of udpserver that has found its client is given.
LEMMA FoundGives ==
    ASSUME MaxCopies = 0, Known, HandInv, LinkInv, NEW p, RemoteRecvFor(p)
    PROVE  /\ p \in up /\ p.id \in Id /\ remote[p.id] # NoClient
           /\ p.type \in Data => p.chunk \in Chunk
           /\ p \in Deliverable(up)
           /\ up' = up \ {p}
           /\ p.type \in Data \union Ack \union {"HELLOACK"} => remote[p.id].udp_sock = p.conn
           /\ RemoteEnd(remote[p.id], p.id, up)
           /\ \A c : stage[c] = "open" /\ c = remote[p.id].udp_sock =>
                  /\ Joined(local[c], remote[p.id], up, down)
                  /\ local[c] \in ClientT /\ local[c].udp_sock = c
                  /\ local[c].id = remote[p.id].id
  <1>1. RemoteSide /\ NetOK /\ OwnInv
    BY KnownGives
  <1>2. p \in Message /\ p \in Deliverable(up) /\ up' = up \ {p} /\ p \in up
    BY <1>1, RemoteRecvGives, Gone DEF RemoteRecvFor, RemoteRecv, Deliver, NetOK
  <1>3. p.id \in Id /\ (p.type \in Data => p.chunk \in Chunk) /\ remote[p.id] # NoClient
    BY <1>2, MessageFields DEF RemoteRecvFor
  <1>4. p.type \in Data \union Ack \union {"HELLOACK"} => remote[p.id].udp_sock = p.conn
    BY <1>1, <1>2, <1>3 DEF OwnInv, OwnUp, HandInv, OnUp, Owned
  <1>5. RemoteEnd(remote[p.id], p.id, up)
    BY <1>3 DEF LinkInv
  <1>6. ASSUME NEW c, stage[c] = "open", c = remote[p.id].udp_sock
        PROVE  /\ Joined(local[c], remote[p.id], up, down)
               /\ local[c] \in ClientT /\ local[c].udp_sock = c
               /\ local[c].id = remote[p.id].id
    <2>1. c \in Conn /\ Theirs(p.id, c)
      BY <1>3, <1>6, SockOf
    <2> QED
      BY <1>3, <1>6, <2>1, OpenGives
  <1> QED
    BY <1>2, <1>3, <1>4, <1>5, <1>6

LEMMA LinkRemoteHelloAck ==
    ASSUME MaxCopies = 0, Known, HandInv, LinkInv, UNCHANGED localVars,
           NEW p, RemoteRecvHelloAck(p)
    PROVE  LinkInv'
  <1> DEFINE i == p.id
             r == remote[i]
             k == [client_got_helloack(r) EXCEPT !.connected = TRUE]
  <1>1. p.type = "HELLOACK" /\ RemoteRecvFor(p)
    BY DEF RemoteRecvHelloAck
  <1>2. /\ p \in up /\ i \in Id /\ r # NoClient /\ r.udp_sock = p.conn
        /\ up' = up \ {p} /\ RemoteEnd(r, i, up)
        /\ \A c : stage[c] = "open" /\ c = p.conn => Joined(local[c], r, up, down)
    BY <1>1, FoundGives
  <1>3. r \in ClientT
    BY <1>2, SockOf
  <1>4. r.udp2tcp_state = "WAIT_HELLO" /\ Hears(r, up)
    BY <1>1, <1>2 DEF HandInv, OnUp, Answer, Hears
  <1>5. /\ k \in ClientT /\ SameName(k, r) /\ SameOut(k, r) /\ SameIn(k, r)
        /\ k.udp2tcp_state = "WAIT_DATA0"
    <2>1. k \in ClientT /\ SameName(k, r)
      <3> DEFINE g == client_got_helloack(r)
      <3>1. g \in ClientT /\ SameName(g, r)
        BY <1>3, GotHelloAck
      <3> HIDE DEF g, r
      <3>2. /\ [g EXCEPT !.connected = TRUE] \in ClientT
            /\ SameName([g EXCEPT !.connected = TRUE], g)
        BY <1>2, <3>1, Updates
      <3> QED
        BY <3>1, <3>2 DEF SameName, g
    <2> QED
      BY <1>3, <1>4, <2>1 DEF client_got_helloack, ClientT, SameOut, SameIn, Wants
  <1>6. RemoteDisconnect(i, r, {}) \/ RemotePass(i, k, {})
    BY DEF RemoteRecvHelloAck
  <1>7. up' \subseteq up /\ \A q \in up \ up' : q.conn = r.udp_sock \/ q.type # "HELLOACK"
    BY <1>2
  <1> HIDE DEF k, r
  <1>8. RemoteEnd(k, i, up')
    <2>1. DataOf(r.udp_sock, up') \subseteq DataOf(r.udp_sock, up)
      BY <1>2 DEF DataOf
    <2>2. InOrder => Reads(k, 0, up')
      BY <1>2, <1>4, <1>5, <2>1, ReadsSame DEF RemoteEnd
    <2>3. k.serial = r.serial /\ \E a \in Nat : Backlog(k, a)
      BY <1>2, <1>5, BacklogSame DEF RemoteEnd, SameOut
    <2> QED
      BY <1>2, <1>5, <2>2, <2>3 DEF RemoteEnd
  <1>9. ASSUME stage[p.conn] = "open"
        PROVE  Joined(local[p.conn], k, up', down)
    <2> DEFINE l == local[p.conn]
    <2>1. Joined(l, r, up, down)
      BY <1>2, <1>9
    <2>2. SameOut(l, l) /\ SameIn(l, l)
      BY DEF SameOut, SameIn
    <2>3. \A c : /\ DataOf(c, down) \subseteq DataOf(c, down)
                 /\ AcksOf(c, down) \subseteq AcksOf(c, down)
                 /\ DataOf(c, up') \subseteq DataOf(c, up)
                 /\ AcksOf(c, up') \subseteq AcksOf(c, up)
      BY <1>2 DEF DataOf, AcksOf
    <2> HIDE DEF l
    <2>4. Matched(k, l, down, up')
      BY <1>5, <2>1, <2>2, <2>3, MatchedSame DEF Joined
    <2>5. InOrder => Matched(l, k, up', down)
      BY <1>4, <1>5, <2>1, <2>2, <2>3, MatchedSame DEF Joined
    <2>6. Hears(k, up')
      BY <1>5 DEF Hears
    <2> QED
      BY <2>4, <2>5, <2>6 DEF Joined, l
  <1>10. CASE RemoteDisconnect(i, r, {})
    BY <1>2, <1>7, <1>10, LinkRemoteCloses DEF r
  <1>11. CASE RemotePass(i, k, {})
    <2>1. /\ k.udp_sock = p.conn /\ down \union {} = down
          /\ \A q \in up \ up' : q.conn = p.conn \/ q.type # "HELLOACK"
          /\ SameName(k, remote[i]) /\ remote[i] # NoClient
      BY <1>2, <1>5, <1>7 DEF SameName, r
    <2>2. stage[p.conn] = "open" => Joined(local[p.conn], k, up', down \union {})
      BY <1>9, <2>1
    <2>3. i \in Id /\ k \in ClientT /\ up' \subseteq up
      BY <1>2, <1>5, <1>7
    <2>4. \A q \in {} : q.conn = p.conn /\ q.type \in Ack
      OBVIOUS
    <2> HIDE DEF i
    <2> QED
      BY <1>8, <1>11, <2>1, <2>2, <2>3, <2>4, LinkRemoteOutcome
  <1> QED
    BY <1>6, <1>10, <1>11

\* DATA that is not new comes only for a client_t whose handshake is not over,
\* and whose HELLOACK can no longer come.
LEMMA OldDataUnheard ==
    ASSUME MaxCopies = 0, Known, HandInv, LinkInv, NEW p, RemoteRecvFor(p), p.type \in Data,
           ~ IsNewData(remote[p.id], p.type), InOrder
    PROVE  ~ Hears(remote[p.id], up)
  <1> DEFINE r == remote[p.id]
  <1>1. /\ p \in Deliverable(up) /\ r.udp_sock = p.conn /\ r \in ClientT
        /\ p \in up /\ p.chunk \in Chunk /\ RemoteEnd(r, p.id, up)
    BY FoundGives, SockOf
  <1>2. ASSUME Hears(r, up), r.udp2tcp_state # "WAIT_HELLO"
        PROVE  FALSE
    <2>1. Reads(r, 0, up) /\ p \in DataOf(r.udp_sock, up)
      BY <1>1, <1>2 DEF RemoteEnd, DataOf
    <2> HIDE DEF r
    <2>2. IsNewData(r, p.type)
      BY <1>1, <1>2, <2>1, WriteReads
    <2> QED
      BY <2>2 DEF r
  <1>3. ASSUME NEW q \in up, q.type = "HELLOACK", q.conn = r.udp_sock
        PROVE  FALSE
    <2>1. Rank(p.type) =< Rank(q.type)
      BY <1>1, <1>3 DEF Deliverable, InOrder
    <2>2. Rank(p.type) = 2 /\ Rank(q.type) = 1
      BY <1>3 DEF Rank, Data
    <2> QED
      BY <2>1, <2>2
  <1> QED
    BY <1>2, <1>3 DEF Hears

LEMMA LinkRemoteData ==
    ASSUME MaxCopies = 0, Known, HandInv, LinkInv, UNCHANGED localVars,
           NEW p, RemoteRecvData(p)
    PROVE  LinkInv'
  <1> DEFINE i == p.id
             r == remote[i]
             k == AfterWrite(r, p.chunk)
             ack == AckFor(r, p.type)
             c == r.udp_sock
             l == local[c]
             sent == {ack}
             d == down \union sent
  <1>1. p.type \in Data /\ RemoteRecvFor(p)
    BY DEF RemoteRecvData
  <1>2. /\ p \in up /\ i \in Id /\ r # NoClient /\ c = p.conn /\ p.chunk \in Chunk
        /\ up' = up \ {p} /\ RemoteEnd(r, i, up)
        /\ stage[c] = "open" =>
               /\ Joined(l, r, up, down)
               /\ l \in ClientT /\ l.udp_sock = c /\ l.id = r.id
    BY <1>1, FoundGives
  <1>3. r \in ClientT
    BY <1>2, SockOf
  <1>4. ack.conn = c /\ ack.type \in Ack
    BY <1>3, SentForItself, SentUnderId
  <1>5. up' \subseteq up /\ \A q \in up \ up' : q.conn = c \/ q.type # "HELLOACK"
    BY <1>2
  <1>6. /\ \A b : DataOf(b, up') \subseteq DataOf(b, up) /\ AcksOf(b, up') \subseteq AcksOf(b, up)
        /\ \A b : DataOf(b, d) \subseteq DataOf(b, down)
    BY <1>2, <1>4 DEF DataOf, AcksOf, Data, Ack
  <1>7. SameOut(l, l) /\ SameIn(l, l) /\ SameOut(r, r) /\ SameIn(r, r)
    BY DEF SameOut, SameIn
  <1>8. CASE RemoteDisconnect(i, r, sent)
    <2>1. \A q \in sent : q.conn = c /\ q.type \in Ack
      BY <1>4
    <2> HIDE DEF sent
    <2> QED
      BY <1>2, <1>5, <1>8, <2>1, LinkRemoteCloses
  <1>9. CASE ~ IsNewData(r, p.type) /\ RemotePass(i, r, sent)
    <2>1. InOrder => ~ Hears(r, up)
      BY <1>1, <1>9, OldDataUnheard
    <2>2. Hears(r, up') => Hears(r, up)
      BY <1>2 DEF Hears
    <2>3. RemoteEnd(r, i, up')
      BY <1>2, <2>1, <2>2 DEF RemoteEnd
    <2>4. ASSUME stage[c] = "open"
          PROVE  Joined(l, r, up', d)
      <3>1. Joined(l, r, up, down)
        BY <1>2, <2>4
      <3>2. ~ Faults \subseteq {"delay"}
        BY <2>1, <3>1 DEF Joined, InOrder
      <3> HIDE DEF l, r, d
      <3>3. Matched(r, l, d, up')
        BY <1>6, <1>7, <3>1, MatchedSame DEF Joined
      <3> QED
        BY <2>1, <2>2, <3>2, <3>3 DEF Joined
    <2>5. /\ SameName(r, remote[i]) /\ remote[i] # NoClient
          /\ \A q \in sent : q.conn = c /\ q.type \in Ack
          /\ r.udp_sock = c
      BY <1>2, <1>4 DEF SameName
    <2>6. i \in Id /\ r \in ClientT /\ RemotePass(i, r, sent)
      BY <1>2, <1>3, <1>9
    <2>7. stage[c] = "open" => Joined(local[c], r, up', down \union sent)
      BY <2>4
    <2> HIDE DEF sent, c, i, r
    <2>8. PICK m : m = r
      OBVIOUS
    <2>9. /\ m \in ClientT /\ SameName(m, remote[i]) /\ m.udp_sock = c
          /\ RemoteEnd(m, i, up') /\ RemotePass(i, m, sent)
          /\ stage[c] = "open" => Joined(local[c], m, up', down \union sent)
      BY <2>3, <2>5, <2>6, <2>7, <2>8
    <2> QED
      BY <1>5, <2>5, <2>6, <2>9, LinkRemoteOutcome
  <1>10. CASE IsNewData(r, p.type) /\ RemotePass(i, k, sent)
    <2>1. r.udp2tcp_state # "WAIT_HELLO"
      BY <1>10 DEF IsNewData
    <2>2. Hears(r, up)
      BY <2>1 DEF Hears
    <2>3. /\ k \in ClientT /\ SameName(k, r) /\ SameOut(k, r)
          /\ k.udp2tcp_state # "WAIT_HELLO"
      <3>1. k \in ClientT /\ SameName(k, r) /\ SameOut(k, r)
        BY <1>2, <1>3, Write, OtherSide
      <3> QED
        BY <1>3, <3>1 DEF AfterWrite, ClientT
    <2>4. p \in DataOf(c, up)
      BY <1>1, <1>2 DEF DataOf
    <2>5. RemoteEnd(k, i, up')
      <3>1. InOrder => Reads(k, 0, up')
        BY <1>2, <1>3, <2>1, <2>2, <2>4, WriteReads DEF RemoteEnd
      <3>2. k.serial = r.serial
        BY <2>3 DEF SameOut
      <3>3. \E a \in Nat : Backlog(k, a)
        BY <1>2, <2>3, BacklogSame DEF RemoteEnd
      <3> QED
        BY <1>2, <2>3, <3>1, <3>2, <3>3 DEF RemoteEnd
    <2>6. ASSUME stage[c] = "open"
          PROVE  Joined(l, k, up', d)
      <3>1. Joined(l, r, up, down) /\ l \in ClientT /\ l.udp_sock = c /\ l.id = r.id
        BY <1>2, <2>6
      <3>2. InOrder => Matched(l, k, up', d)
        <4>1. InOrder => Matched(l, r, up, down)
          BY <2>2, <3>1 DEF Joined
        <4>2. p \in DataOf(l.udp_sock, up) /\ r.udp_sock = l.udp_sock /\ r.id = l.id
          BY <2>4, <3>1
        <4> HIDE DEF l, r
        <4> QED
          BY <1>2, <1>3, <2>1, <4>1, <4>2, WriteMatched
      <3>3. Hears(k, up')
        BY <2>3 DEF Hears
      <3> HIDE DEF l, r, k, d
      <3>4. Matched(k, l, d, up')
        BY <1>6, <1>7, <2>3, <3>1, MatchedSame DEF Joined
      <3> QED
        BY <3>2, <3>3, <3>4 DEF Joined
    <2>7. k.udp_sock = c
      BY <2>3 DEF SameName
    <2>8. /\ \A q \in sent : q.conn = c /\ q.type \in Ack
          /\ SameName(k, remote[i]) /\ remote[i] # NoClient
      BY <1>2, <1>4, <2>3, <2>7
    <2>9. /\ i \in Id /\ k \in ClientT /\ RemotePass(i, k, sent)
          /\ stage[c] = "open" => Joined(local[c], k, up', down \union sent)
      BY <1>2, <1>10, <2>3, <2>6
    <2> HIDE DEF sent, k, c, i, r
    <2> QED
      BY <1>5, <2>5, <2>7, <2>8, <2>9, LinkRemoteOutcome
  <1> QED
    BY <1>8, <1>9, <1>10 DEF RemoteRecvData

\* The sending side is another: a chunk was queued, or one was acknowledged.
LEMMA RemoteEndOut ==
    ASSUME NEW k, NEW r, SameIn(k, r), k.serial = r.serial,
           k.udp2tcp_state = r.udp2tcp_state, \E a \in Nat : Backlog(k, a),
           NEW i, NEW net, RemoteEnd(r, i, net)
    PROVE  RemoteEnd(k, i, net)
  <1>1. Hears(k, net) => Hears(r, net)
    BY DEF Hears, SameIn
  <1>2. InOrder /\ Hears(k, net) => Reads(k, 0, net)
    BY <1>1, ReadsSame DEF RemoteEnd
  <1>3. k.written = r.written
    BY DEF SameIn
  <1> QED
    BY <1>2, <1>3 DEF RemoteEnd

LEMMA JoinedOut ==
    ASSUME NEW k, NEW r, SameIn(k, r), k.udp2tcp_state = r.udp2tcp_state,
           NEW l, NEW u, NEW d, NEW net, Joined(l, r, net, d), Matched(k, l, d, u),
           u \subseteq net, \A p \in net \ u : p.type # "HELLOACK"
    PROVE  Joined(l, k, u, d)
  <1>1. Hears(k, u) <=> Hears(r, net)
    BY DEF Hears, SameIn
  <1>2. SameOut(l, l)
    BY DEF SameOut
  <1>3. \A c : DataOf(c, u) \subseteq DataOf(c, net) /\ AcksOf(c, d) \subseteq AcksOf(c, d)
    BY DEF DataOf
  <1>4. InOrder /\ Hears(k, u) => Matched(l, k, u, d)
    BY <1>1, <1>2, <1>3, MatchedSame DEF Joined
  <1> QED
    BY <1>1, <1>4 DEF Joined

LEMMA LinkRemoteAck ==
    ASSUME MaxCopies = 0, Known, HandInv, LinkInv, UNCHANGED localVars,
           NEW p, RemoteRecvAck(p)
    PROVE  LinkInv'
  <1> DEFINE i == p.id
             r == remote[i]
             k == client_got_ack(r, p.type)
             c == r.udp_sock
             l == local[c]
  <1>1. p.type \in Ack /\ RemoteRecvFor(p) /\ RemotePass(i, k, {})
    BY DEF RemoteRecvAck
  <1>2. /\ p \in up /\ i \in Id /\ r # NoClient /\ c = p.conn
        /\ up' = up \ {p} /\ RemoteEnd(r, i, up)
        /\ stage[c] = "open" => Joined(l, r, up, down) /\ l \in ClientT
    BY <1>1, FoundGives
  <1>3. r \in ClientT /\ Steady(r)
    BY <1>2, SockOf
  <1>4. k \in ClientT /\ SameName(k, r) /\ SameIn(k, r)
    BY <1>3, GotAck, OtherSide
  <1>5. k.serial = r.serial /\ k.udp2tcp_state = r.udp2tcp_state
    BY <1>3 DEF client_got_ack, ClientT
  <1>6. \E a \in Nat : Backlog(k, a)
    BY <1>2, <1>3, GotAckBacklog DEF RemoteEnd
  <1>7. up' \subseteq up /\ \A q \in up \ up' : q.type # "HELLOACK"
    BY <1>1, <1>2 DEF Ack
  <1>8. RemoteEnd(k, i, up')
    <2>1. RemoteEnd(r, i, up')
      <3>1. Only(r.udp_sock, up', up, Data \union {"HELLOACK"})
        BY <1>2 DEF Only
      <3> HIDE DEF r
      <3> QED
        BY <1>2, <3>1, RemoteEndSame
    <2> HIDE DEF k, r
    <2> QED
      BY <1>4, <1>5, <1>6, <2>1, RemoteEndOut
  <1>9. ASSUME stage[c] = "open"
        PROVE  Joined(l, k, up', down)
    <2>1. Joined(l, r, up, down) /\ l \in ClientT
      BY <1>2, <1>9
    <2>2. p \in AcksOf(r.udp_sock, up)
      BY <1>1, <1>2 DEF AcksOf
    <2> HIDE DEF r, l
    <2>3. Matched(k, l, down, up')
      BY <1>2, <1>3, <2>1, <2>2, GotAckMatched DEF Joined
    <2> HIDE DEF k
    <2> QED
      BY <1>4, <1>5, <1>7, <2>1, <2>3, JoinedOut
  <1>10. /\ k.udp_sock = c /\ down \union {} = down
         /\ SameName(k, remote[i]) /\ remote[i] # NoClient
    BY <1>2, <1>4 DEF SameName
  <1>11. stage[c] = "open" => Joined(local[c], k, up', down \union {})
    BY <1>9, <1>10
  <1>12. \A q \in {} : q.conn = c /\ q.type \in Ack
    OBVIOUS
  <1>13. i \in Id /\ k \in ClientT /\ RemotePass(i, k, {})
    BY <1>1, <1>2, <1>4
  <1> HIDE DEF k, c, i, r
  <1> QED
    BY <1>7, <1>8, <1>10, <1>11, <1>12, <1>13, LinkRemoteOutcome

LEMMA LinkRemoteTcp ==
    ASSUME MaxCopies = 0, AllDiffer, Known, HandInv, LinkInv, UNCHANGED localVars,
           NEW i \in Id, RemoteTcp(i) \/ RemoteCheck(i) \/ KeepaliveRunsOut(i)
    PROVE  LinkInv'
  <1> DEFINE r == remote[i]
             c == r.udp_sock
             l == local[c]
  <1>1. r # NoClient /\ up' = up
    BY DEF RemoteTcp, RemoteTcpData, RemoteTcpEof, RemoteTcpError, RemoteCheck,
           KeepaliveRunsOut, RemoteTimeout
  <1>2. r \in ClientT /\ Steady(r) /\ c \in Conn /\ Theirs(i, c)
    BY <1>1, SockOf
  <1>3. /\ RemoteEnd(r, i, up)
        /\ stage[c] = "open" => Joined(l, r, up, down)
    BY <1>1, <1>2 DEF LinkInv
  <1>4. up' \subseteq up /\ \A q \in up \ up' : q.conn = c \/ q.type # "HELLOACK"
    BY <1>1
  <1>5. ASSUME NEW k \in ClientT, SameName(k, r), SameIn(k, r), k.serial = r.serial,
               k.udp2tcp_state = r.udp2tcp_state, \E a \in Nat : Backlog(k, a),
               stage[c] = "open" => Matched(k, l, down, up),
               \/ RemotePass(i, k, {})
               \/ RemoteDisconnect(i, k, {})
               \/ remote' = [remote EXCEPT ![i] = k] /\ UNCHANGED down
        PROVE  LinkInv'
    <2>1. k.udp_sock = c /\ down \union {} = down
      BY <1>5 DEF SameName
    <2> HIDE DEF r
    <2>2. RemoteEnd(k, i, up')
      BY <1>1, <1>3, <1>5, RemoteEndOut
    <2>3. stage[c] = "open" => Joined(l, k, up', down)
      BY <1>1, <1>3, <1>5, JoinedOut
    <2>4. stage[c] = "open" => Joined(local[c], k, up', down \union {})
      BY <2>1, <2>3
    <2>5. \A q \in {} : q.conn = c /\ q.type \in Ack
      OBVIOUS
    <2>6. SameName(k, remote[i]) /\ remote[i] # NoClient /\ remote[i].udp_sock = c
      BY <1>1, <1>5 DEF r
    <2> HIDE DEF c
    <2>7. CASE RemoteDisconnect(i, k, {})
      BY <1>4, <2>1, <2>5, <2>6, <2>7, LinkRemoteCloses
    <2>8. CASE RemotePass(i, k, {})
      BY <1>4, <1>5, <2>1, <2>2, <2>4, <2>5, <2>6, <2>8, LinkRemoteOutcome
    <2>9. CASE remote' = [remote EXCEPT ![i] = k] /\ UNCHANGED down
      <3>1. RemoteKept(i, k, {})
        BY <2>1, <2>9 DEF RemoteKept
      <3>2. k \in ClientT /\ k.udp_sock = c
        BY <1>5, <2>1
      <3> QED
        BY <1>4, <2>2, <2>4, <2>5, <2>6, <3>1, <3>2, LinkRemoteOutcome
    <2> QED
      BY <1>5, <2>7, <2>8, <2>9
  <1>6. ASSUME NEW k \in ClientT, SameName(k, r), SameOut(k, r), SameIn(k, r),
               k.udp2tcp_state = r.udp2tcp_state,
               \/ RemotePass(i, k, {})
               \/ RemoteDisconnect(i, k, {})
               \/ remote' = [remote EXCEPT ![i] = k] /\ UNCHANGED down
        PROVE  LinkInv'
    <2>1. k.serial = r.serial /\ \E a \in Nat : Backlog(k, a)
      BY <1>3, <1>6, BacklogSame DEF SameOut, RemoteEnd
    <2>2. ASSUME stage[c] = "open"
          PROVE  Matched(k, l, down, up)
      <3>1. Matched(r, l, down, up) /\ SameIn(l, l)
        BY <1>3, <2>2 DEF Joined, SameIn
      <3>2. /\ DataOf(r.udp_sock, down) \subseteq DataOf(r.udp_sock, down)
            /\ AcksOf(r.udp_sock, up) \subseteq AcksOf(r.udp_sock, up)
        OBVIOUS
      <3> HIDE DEF l, r
      <3> QED
        BY <1>6, <3>1, <3>2, MatchedSame
    <2> QED
      BY <1>5, <1>6, <2>1, <2>2
  <1>7. CASE RemoteTcpData(i)
    <2>1. PICK k \in client_recv_tcp_data(r) : RemotePass(i, k, {})
      BY <1>7 DEF RemoteTcpData
    <2>2. r.nread < MaxChunks
      BY <1>7 DEF RemoteTcpData
    <2>3. PICK a \in Nat : Backlog(r, a)
      BY <1>3 DEF RemoteEnd
    <2>4. k = Queued(r) /\ k \in ClientT /\ SameName(k, r) /\ SameIn(k, r) /\ Backlog(k, a)
      BY <1>2, <2>1, <2>2, <2>3, AlwaysQueued, RecvTcp, OtherSide, QueuedBacklog
    <2>5. k.serial = r.serial /\ k.udp2tcp_state = r.udp2tcp_state
      BY <1>2, <2>4 DEF Queued, ClientT
    <2>6. stage[c] = "open" => Matched(k, l, down, up)
      BY <1>2, <1>3, <2>2, <2>4, QueuedMatched DEF Joined
    <2> QED
      BY <1>5, <2>1, <2>4, <2>5, <2>6
  <1>8. CASE RemoteTcpEof(i)
    <2>1. /\ AtEof(r) \in ClientT /\ SameName(AtEof(r), r)
          /\ SameOut(AtEof(r), r) /\ SameIn(AtEof(r), r)
      BY <1>2, Eof, OtherSide
    <2>2. AtEof(r).udp2tcp_state = r.udp2tcp_state
      BY <1>2 DEF AtEof, ClientT
    <2> QED
      BY <1>6, <1>8, <2>1, <2>2 DEF RemoteTcpEof
  <1>9. SameName(r, r) /\ SameOut(r, r) /\ SameIn(r, r)
    BY DEF SameName, SameOut, SameIn
  <1>10. CASE RemoteTcpError(i)
    BY <1>2, <1>6, <1>9, <1>10 DEF RemoteTcpError
  <1>11. CASE RemoteCheck(i)
    <2> DEFINE k == client_check_and_resend(r)
    <2>1. k \in ClientT /\ SameName(k, r) /\ SameOut(k, r) /\ SameIn(k, r)
      BY <1>2, <1>11, Check, OtherSide DEF RemoteCheck, TimeoutIsUp
    <2>2. k.udp2tcp_state = r.udp2tcp_state
      BY <1>2 DEF client_check_and_resend, ClientT
    <2>3. \/ RemoteDisconnect(i, k, {})
          \/ remote' = [remote EXCEPT ![i] = k] /\ UNCHANGED down
      BY <1>11 DEF RemoteCheck
    <2> HIDE DEF k
    <2> QED
      BY <1>6, <2>1, <2>2, <2>3
  <1>12. CASE KeepaliveRunsOut(i)
    <2>1. RemoteDisconnect(i, r, {})
      BY <1>1, <1>12, KnownGives DEF KeepaliveRunsOut, RemoteTimeout, OwnInv, OwnRemote
    <2> QED
      BY <1>2, <1>6, <1>9, <2>1
  <1> QED
    BY <1>7, <1>8, <1>10, <1>11, <1>12 DEF RemoteTcp

LEMMA LinkCreated ==
    ASSUME MaxCopies = 0, Known, HandInv, LinkInv, UNCHANGED localVars, NEW p, Created(p)
    PROVE  LinkInv'
  <1> DEFINE c == p.conn
             n == next_client_id
             new == client_create(n, c, FALSE, n)
  <1>1. LocalOK /\ RemoteOK /\ NetOK /\ HoldInv
    BY KnownGives
  <1>2. p \in up /\ p.type = "HELLO" /\ up' = up \ {p}
    BY <1>1, Gone DEF Created, NetOK
  <1>3. c \in Conn /\ stage[c] = "pending"
    BY <1>1, <1>2, MessageFields DEF NetOK, HandInv, OnUp, FirstContact
  <1>4. n \in Id /\ remote' = [remote EXCEPT ![n] = new]
    BY DEF Created
  <1>5. PICK q : down' = down \union {q} /\ q.conn = c /\ q.type \in {"HELLOACK", "GOODBYE"}
    BY DEF Created, Packet
  <1>6. new.udp_sock = c /\ Blank(new, n)
    BY CreateBlank DEF client_create
  <1> HIDE DEF new
  <1>7. stage' = stage /\ local' = local
    BY DEF localVars
  <1>8. \A j \in Id : remote'[j] = IF j = n THEN new ELSE remote[j]
    BY <1>1, <1>4 DEF RemoteOK
  <1>9. ASSUME NEW d \in Conn, stage[d] = "open"
        PROVE  LocalEnd(local[d], down')
    <2>1. LocalEnd(local[d], down)
      BY <1>9 DEF LinkInv
    <2>2. Only(local[d].udp_sock, down', down, Data)
      BY <1>5 DEF Only, Data
    <2> QED
      BY <2>1, <2>2, LocalEndSame
  <1>10. RemoteEnd(new, n, up')
    <2>1. Backlog(new, 0)
      BY <1>6 DEF Backlog, Blank
    <2>2. DataOf(c, up') = {}
      BY <1>1, <1>2, <1>3 DEF DataOf, HoldInv, Calm, Silent, Data
    <2>3. Reads(new, 0, up')
      BY <1>6, <2>2 DEF Reads, Stream, Coming, Blank
    <2> QED
      BY <1>6, <2>1, <2>3 DEF RemoteEnd, Blank
  <1>11. ASSUME NEW j \in Id, remote[j] # NoClient
         PROVE  RemoteEnd(remote[j], j, up')
    <2>1. Only(remote[j].udp_sock, up', up, Data \union {"HELLOACK"})
      BY <1>2 DEF Only
    <2> QED
      BY <1>11, <2>1, RemoteEndSame DEF LinkInv
  <1>12. ASSUME NEW d \in Conn, NEW j \in Id, stage[d] = "open", Theirs(j, d)'
         PROVE  Joined(local[d], remote'[j], up', down')
    <2>1. j # n
      BY <1>3, <1>6, <1>8, <1>12 DEF Theirs
    <2>2. remote'[j] = remote[j] /\ Theirs(j, d)
      BY <1>8, <1>12, <2>1 DEF Theirs
    <2>3. Joined(local[d], remote[j], up, down)
      BY <1>12, <2>2 DEF LinkInv
    <2>4. local[d].udp_sock = d /\ remote[j].udp_sock = d
      BY <1>1, <1>12, <2>2 DEF LocalOK, Listed, Theirs
    <2>5. /\ Only(d, up', up, Data \union Ack \union {"HELLOACK"})
          /\ Only(d, down', down, Data \union Ack)
          /\ \A m \in up : m.conn = d /\ m.type = "HELLOACK" => m \in up'
      BY <1>2, <1>5 DEF Only, Data, Ack
    <2> QED
      BY <2>2, <2>3, <2>4, <2>5, JoinedSame
  <1> QED
    BY <1>7, <1>8, <1>9, <1>10, <1>11, <1>12 DEF LinkInv

\* A HELLOACK that a client_t waits for disappears only if the network loses it.
LEMMA LinkVanishes ==
    ASSUME Known, HandInv, LinkInv, UNCHANGED <<stage, local, remote>>,
           up' \subseteq up, down' \subseteq down,
           Faults \subseteq {"delay"} =>
               \A p \in up \ up' : p.type = "HELLOACK" => \A i \in Id : ~ Theirs(i, p.conn)
    PROVE  LinkInv'
  <1>1. LocalOK
    BY KnownGives
  <1>2. ASSUME NEW d \in Conn, stage[d] = "open"
        PROVE  LocalEnd(local[d], down')
    <2>1. LocalEnd(local[d], down) /\ Only(local[d].udp_sock, down', down, Data)
      BY <1>2 DEF LinkInv, Only
    <2> QED
      BY <2>1, LocalEndSame
  <1>3. ASSUME NEW j \in Id, remote[j] # NoClient
        PROVE  RemoteEnd(remote[j], j, up')
    <2>1. /\ RemoteEnd(remote[j], j, up)
          /\ Only(remote[j].udp_sock, up', up, Data \union {"HELLOACK"})
      BY <1>3 DEF LinkInv, Only
    <2> QED
      BY <2>1, RemoteEndSame
  <1>4. ASSUME NEW d \in Conn, NEW j \in Id, stage[d] = "open", Theirs(j, d)
        PROVE  Joined(local[d], remote[j], up', down')
    <2>1. Joined(local[d], remote[j], up, down)
      BY <1>4 DEF LinkInv
    <2>2. local[d].udp_sock = d /\ remote[j].udp_sock = d
      BY <1>1, <1>4 DEF LocalOK, Listed, Theirs
    <2>3. /\ Only(d, up', up, Data \union Ack \union {"HELLOACK"})
          /\ Only(d, down', down, Data \union Ack)
          /\ Faults \subseteq {"delay"} =>
                 \A m \in up : m.conn = d /\ m.type = "HELLOACK" => m \in up'
      BY <1>4 DEF Only
    <2> QED
      BY <2>1, <2>2, <2>3, JoinedSame
  <1> QED
    BY <1>2, <1>3, <1>4 DEF LinkInv, Theirs

LEMMA LinkRemoteReceive ==
    ASSUME MaxHello \in Nat, MaxHello =< IdMod, MaxCopies = 0,
           Known, HandInv, LinkInv, UNCHANGED localVars, NEW c \in Conn, RemoteReceive(c)
    PROVE  LinkInv'
  <1>1. PICK p \in up :
            \/ RemoteRecvHello(p)
            \/ RemoteRecvHelloAck(p)
            \/ RemoteRecvGoodbye(p)
            \/ RemoteRecvData(p)
            \/ RemoteRecvAck(p)
            \/ RemoteIgnore(p)
    BY DEF RemoteReceive
  <1>2. NetOK /\ OwnInv /\ stage' = stage /\ local' = local
    BY KnownGives DEF localVars
  <1>3. up' = up \ {p}
    <2>1. RemoteRecv(p)
      BY <1>1 DEF RemoteRecvHello, RemoteRecvHelloAck, RemoteRecvGoodbye, RemoteRecvData,
                  RemoteRecvAck, RemoteIgnore, RemoteRecvFor
    <2> QED
      BY <1>2, <2>1, Gone DEF RemoteRecv, NetOK
  <1>4. CASE RemoteRecvHello(p)
    <2>1. p.type = "HELLO" /\ (NothingDone \/ Created(p))
      BY <1>4, RemoteRecvHelloShape DEF RemoteRecvHello
    <2>2. CASE NothingDone
      BY <1>2, <1>3, <2>1, <2>2, LinkVanishes DEF NothingDone
    <2> QED
      BY <2>1, <2>2, LinkCreated
  <1>5. CASE RemoteRecvGoodbye(p)
    <2>1. p.type = "GOODBYE" /\ RemoteRecvFor(p) /\ RemoteDisconnect(p.id, remote[p.id], {})
      BY <1>5 DEF RemoteRecvGoodbye
    <2>2. p.id \in Id /\ remote[p.id] # NoClient
      BY <2>1, FoundGives
    <2>3. up' \subseteq up /\ \A q \in up \ up' : q.type # "HELLOACK"
      BY <1>3, <2>1
    <2> QED
      BY <2>1, <2>2, <2>3, LinkRemoteCloses
  <1>6. CASE RemoteIgnore(p)
    <2>1. /\ p.id = 0 \/ remote[p.id] = NoClient
          /\ remote' = remote /\ down' = down
      BY <1>6 DEF RemoteIgnore
    <2>2. p.type = "HELLOACK" => \A i \in Id : ~ Theirs(i, p.conn)
      <3>1. p.type = "HELLOACK" => p.id # 0
        BY <1>1, <1>2 DEF OwnInv, OwnUp, Owned
      <3>2. ASSUME p.type = "HELLOACK", NEW i \in Id, Theirs(i, p.conn)
            PROVE  i = p.id
        BY <1>1, <3>2 DEF HandInv, OnUp, Answer, Theirs
      <3> QED
        BY <2>1, <3>1, <3>2 DEF Theirs
    <2> QED
      BY <1>2, <1>3, <2>1, <2>2, LinkVanishes
  <1> QED
    BY <1>1, <1>4, <1>5, <1>6, LinkRemoteHelloAck, LinkRemoteData, LinkRemoteAck

-----------------------------------------------------------------------------
LEMMA LinkStep ==
    ASSUME MaxHello \in Nat, MaxHello =< IdMod, MaxCopies = 0, AllDiffer,
           Known, HandInv, LinkInv, [Next]_vars
    PROVE  LinkInv'
  <1>1. CASE LocalNext /\ UNCHANGED remoteVars
    <2>1. ASSUME NEW p \in down, DropStray(p)
          PROVE  LinkInv'
      BY <1>1, <2>1, LinkVanishes DEF DropStray, localVars, remoteVars
    <2> QED
      BY <1>1, <2>1, LinkAccept, LinkLocalReceive, LinkLocalTcp DEF LocalNext
  <1>2. CASE RemoteNext /\ UNCHANGED localVars
    BY <1>2, LinkRemoteReceive, LinkRemoteTcp DEF RemoteNext
  <1>3. CASE (LoseUp \/ LoseDown) /\ UNCHANGED <<localVars, remoteVars>>
    <2>1. /\ "loss" \in Faults
          /\ up' \subseteq up /\ down' \subseteq down
          /\ UNCHANGED <<stage, local, remote>>
      BY <1>3 DEF LoseUp, LoseDown, localVars, remoteVars
    <2>2. ~ Faults \subseteq {"delay"}
      BY <2>1
    <2> QED
      BY <2>1, <2>2, LinkVanishes
  <1>4. CASE UNCHANGED vars
    <2>1. UNCHANGED <<stage, local, remote, up, down>>
      BY <1>4 DEF vars, netVars, localVars, remoteVars
    <2> QED
      BY <2>1, LinkVanishes
  <1> QED
    BY <1>1, <1>2, <1>3, <1>4 DEF Next

LEMMA LinkInit == Init => LinkInv
  BY DEF Init, NetInit, LocalInit, RemoteInit, LinkInv, Theirs

LEMMA LinkInvariant ==
    ASSUME MaxHello \in Nat, MaxHello =< IdMod, MaxCopies = 0, AllDiffer
    PROVE  Spec => [](Known /\ HandInv /\ LinkInv)
  <1>1. Init => Known /\ IdleInv /\ HandInv /\ LinkInv
    BY KnownInvariant, IdleInit, HandInit, LinkInit
  <1>2. Known /\ IdleInv /\ HandInv /\ LinkInv /\ [Next]_vars
            => (Known /\ IdleInv /\ HandInv /\ LinkInv)'
    BY KnownInvariant, IdleStep, HandStep, LinkStep
  <1> QED
    BY <1>1, <1>2, PTL DEF Spec

-----------------------------------------------------------------------------
(* Stop and wait, of one end alone: what is in flight of k is the head of  *)
(* its queue or the ACK it waits for, and never both, whether there still  *)
(* is a client_t at the other end or not.                                  *)

Half(k, net, back) ==
    /\ \A p \in DataOf(k.udp_sock, net) :
           /\ WaitsForAck(k) /\ k.tcp2udp_q # <<>>
           /\ p = DataPacket(k.udp_sock, k.id, NextType(k), Head(k.tcp2udp_q))
    /\ \A p \in AcksOf(k.udp_sock, back) :
           /\ WaitsForAck(k) /\ k.tcp2udp_q # <<>>
           /\ p = Packet(k.udp_sock, k.id, AckOf(NextType(k)))
           /\ DataOf(k.udp_sock, net) = {}

HalfInv ==
    /\ \A c \in Conn : stage[c] = "open" => Half(local[c], up, down)
    /\ \A i \in Id : remote[i] # NoClient => Half(remote[i], down, up)

\* The queue has the same head, if it had one, and the state is the same.
SameHead(j, k) ==
    /\ j.udp_sock = k.udp_sock /\ j.id = k.id
    /\ j.tcp2udp_state = k.tcp2udp_state
    /\ k.tcp2udp_q # <<>> => j.tcp2udp_q # <<>> /\ Head(j.tcp2udp_q) = Head(k.tcp2udp_q)

\* Of what is on its way for c, nothing is new.
NoneNew(c, net, rest) ==
    /\ DataOf(c, rest) \subseteq DataOf(c, net)
    /\ AcksOf(c, rest) \subseteq AcksOf(c, net)

LEMMA FewerOnly ==
    ASSUME NEW c, NEW net, NEW rest,
           \A p \in rest \ net : p.conn # c \/ p.type \notin Data \union Ack
    PROVE  NoneNew(c, net, rest)
  BY DEF NoneNew, DataOf, AcksOf

LEMMA HalfSame ==
    ASSUME NEW k, NEW j, SameHead(j, k), NEW net, NEW rest, NEW back, NEW left,
           DataOf(k.udp_sock, rest) \subseteq DataOf(k.udp_sock, net),
           AcksOf(k.udp_sock, left) \subseteq AcksOf(k.udp_sock, back),
           Half(k, net, back)
    PROVE  Half(j, rest, left)
  <1>1. NextType(j) = NextType(k) /\ (WaitsForAck(j) <=> WaitsForAck(k))
    BY DEF SameHead, NextType, WaitsForAck
  <1> QED
    BY <1>1 DEF SameHead, Half

LEMMA HeadKept ==
    ASSUME NEW k \in ClientT, NEW chunk
    PROVE  /\ SameHead(k, k)
           /\ SameHead(AtEof(k), k)
           /\ SameHead(client_check_and_resend(k), k)
           /\ SameHead(AfterWrite(k, chunk), k)
           /\ k.nread < MaxChunks => \A j \in client_recv_tcp_data(k) : SameHead(j, k)
  <1>1. ASSUME k.nread < MaxChunks
        PROVE  SameHead(Queued(k), k) /\ SameHead(Dropped(k), k)
    <2>1. NextChunk(k) \in Chunk /\ k.tcp2udp_q \in Seq(Chunk)
      BY <1>1, ChunksAssumption DEF NextChunk, Chunk, ClientT
    <2>2. k.tcp2udp_q # <<>> =>
              /\ Append(k.tcp2udp_q, NextChunk(k)) # <<>>
              /\ Head(Append(k.tcp2udp_q, NextChunk(k))) = Head(k.tcp2udp_q)
      BY <2>1
    <2> QED
      BY <2>2 DEF SameHead, Queued, Dropped, ClientT
  <1> QED
    BY <1>1 DEF SameHead, AtEof, client_check_and_resend, AfterWrite, client_recv_tcp_data,
                ClientT

\* client_send_udp_data.
LEMMA HalfSends ==
    ASSUME NEW k \in ClientT, NEW net, NEW back, Half(k, net, back)
    PROVE  Half(AfterSend(k), net \union DataSent(k), back)
  <1>1. CASE ~ CanSend(k)
    <2>1. AfterSend(k) = k /\ net \union DataSent(k) = net
      BY <1>1 DEF AfterSend, DataSent
    <2> QED
      BY <2>1
  <1>2. CASE CanSend(k)
    <2> DEFINE j == AfterSend(k)
    <2>1. ~ WaitsForAck(k) /\ k.tcp2udp_q # <<>>
      BY <1>2 DEF CanSend
    <2>2. k.tcp2udp_state \in {"WAIT_DATA0", "WAIT_DATA1"}
      BY <2>1 DEF WaitsForAck, ClientT, Tcp2UdpState
    <2>3. /\ j.udp_sock = k.udp_sock /\ j.id = k.id /\ j.tcp2udp_q = k.tcp2udp_q
          /\ j.tcp2udp_state = IF k.tcp2udp_state = "WAIT_DATA0" THEN "WAIT_ACK0" ELSE "WAIT_ACK1"
      BY <1>2 DEF AfterSend, ClientT
    <2> HIDE DEF j
    <2>4. NextType(j) = NextType(k) /\ WaitsForAck(j)
      BY <2>2, <2>3 DEF NextType, WaitsForAck
    <2>5. DataOf(k.udp_sock, net) = {} /\ AcksOf(k.udp_sock, back) = {}
      BY <2>1 DEF Half
    <2>6. DataSent(k) = {DataPacket(k.udp_sock, k.id, NextType(k), Head(k.tcp2udp_q))}
      BY <1>2, <2>2 DEF DataSent, NextType
    <2>7. \A p \in DataOf(k.udp_sock, net \union DataSent(k)) : p \in DataSent(k)
      BY <2>5 DEF DataOf
    <2> QED
      BY <2>1, <2>3, <2>4, <2>5, <2>6, <2>7 DEF Half, j
  <1> QED
    BY <1>1, <1>2

\* client_got_ack: nothing is in flight any more.
LEMMA HalfGotAck ==
    ASSUME NEW k \in ClientT, NEW net, NEW back, Half(k, net, back),
           NEW p \in AcksOf(k.udp_sock, back)
    PROVE  Half(client_got_ack(k, p.type), net, back \ {p})
  <1>1. DataOf(k.udp_sock, net) = {} /\ AcksOf(k.udp_sock, back \ {p}) = {}
    BY DEF Half, AcksOf
  <1>2. client_got_ack(k, p.type).udp_sock = k.udp_sock
    BY DEF client_got_ack, ClientT
  <1> QED
    BY <1>1, <1>2 DEF Half

\* The other end, l, takes the DATA p and acknowledges it.
LEMMA HalfAcked ==
    ASSUME NEW k, NEW l, l.udp_sock = k.udp_sock, l.id = k.id,
           NEW net, NEW back, Half(k, net, back), NEW p \in DataOf(k.udp_sock, net)
    PROVE  Half(k, net \ {p}, back \union {AckFor(l, p.type)})
  <1> DEFINE left == back \union {AckFor(l, p.type)}
  <1>1. /\ WaitsForAck(k) /\ k.tcp2udp_q # <<>>
        /\ p = DataPacket(k.udp_sock, k.id, NextType(k), Head(k.tcp2udp_q))
    BY DEF Half
  <1>2. DataOf(k.udp_sock, net \ {p}) = {} /\ AcksOf(k.udp_sock, back) = {}
    BY DEF Half, DataOf
  <1>3. AckFor(l, p.type) = Packet(k.udp_sock, k.id, AckOf(NextType(k)))
    BY <1>1 DEF AckFor, AckOf, DataPacket
  <1>4. \A q \in AcksOf(k.udp_sock, left) : q = AckFor(l, p.type)
    BY <1>2 DEF AcksOf
  <1> HIDE DEF left
  <1> QED
    BY <1>1, <1>2, <1>3, <1>4 DEF Half, left

LEMMA HalfNothing ==
    ASSUME NEW k, NEW net, NEW back,
           DataOf(k.udp_sock, net) = {}, AcksOf(k.udp_sock, back) = {}
    PROVE  Half(k, net, back)
  BY DEF Half

\* It is enough to look at the connection an iteration of udpclient is about.
LEMMA HalfLocal ==
    ASSUME Known, HalfInv, UNCHANGED remoteVars, NEW c \in Conn,
           \A d \in Conn \ {c} : stage'[d] = stage[d] /\ local'[d] = local[d],
           \A p \in up' \ up : p.conn = c,
           down' \subseteq down,
           stage'[c] = "open" => Half(local'[c], up', down'),
           \A i \in Id : Theirs(i, c) => Half(remote[i], down', up')
    PROVE  HalfInv'
  <1>1. LocalOK /\ remote' = remote
    BY KnownGives DEF remoteVars
  <1>2. \A d : d # c => NoneNew(d, up, up') /\ NoneNew(d, down, down')
    BY FewerOnly
  <1>3. ASSUME NEW d \in Conn, stage'[d] = "open"
        PROVE  Half(local'[d], up', down')
    <2>1. CASE d # c
      <3>1. Half(local[d], up, down) /\ local'[d] = local[d] /\ local[d].udp_sock = d
        BY <1>1, <1>3, <2>1 DEF HalfInv, LocalOK, Listed
      <3>2. SameHead(local[d], local[d])
        BY DEF SameHead
      <3> QED
        BY <1>2, <2>1, <3>1, <3>2, HalfSame DEF NoneNew
    <2> QED
      BY <1>3, <2>1
  <1>4. ASSUME NEW i \in Id, remote[i] # NoClient
        PROVE  Half(remote[i], down', up')
    <2>1. CASE remote[i].udp_sock # c
      <3>1. Half(remote[i], down, up) /\ SameHead(remote[i], remote[i])
        BY <1>4 DEF HalfInv, SameHead
      <3> QED
        BY <1>2, <2>1, <3>1, HalfSame DEF NoneNew
    <2> QED
      BY <1>4, <2>1 DEF Theirs
  <1> QED
    BY <1>1, <1>3, <1>4 DEF HalfInv

\* A handler of an open client left the record k, and sent these messages.
LEMMA HalfLocalOutcome ==
    ASSUME Known, HalfInv, UNCHANGED remoteVars, down' \subseteq down,
           NEW c \in Conn, Listed(c),
           NEW k \in ClientT, k.udp_sock = c,
           NEW sent, \A p \in sent : p.conn = c /\ p.type \in Ack,
           \A i \in Id : Theirs(i, c) => Half(remote[i], down', up \union sent),
           \/ /\ Half(k, up, down')
              /\ \/ LocalPass(c, k, sent)
                 \/ sent = {} /\ local' = [local EXCEPT ![c] = k] /\ UNCHANGED <<stage, up>>
           \/ LocalDisconnect(c, k, sent),
           stage[c] = "open" => k.id = local[c].id
    PROVE  HalfInv'
  <1> DEFINE u == up \union sent
  <1>1. LocalOK /\ RemoteOK /\ HoldInv
    BY KnownGives
  <1>2. \A i \in Id : Theirs(i, c) => remote[i].udp_sock = c /\ SameHead(remote[i], remote[i])
    BY DEF Theirs, SameHead
  <1>3. CASE LocalDisconnect(c, k, sent)
    <2>1. /\ stage'[c] = "closed"
          /\ \A d \in Conn \ {c} : stage'[d] = stage[d] /\ local'[d] = local[d]
          /\ up' = u \union {Goodbye(k)}
      BY <1>1, <1>3, HeldDisconnects DEF LocalOK, Holds
    <2>2. Goodbye(k).conn = c /\ Goodbye(k).type = "GOODBYE"
      BY SentForItself
    <2>3. AcksOf(c, up') \subseteq AcksOf(c, u) /\ DataOf(c, down') \subseteq DataOf(c, down')
      BY <2>1, <2>2 DEF AcksOf, Ack
    <2> HIDE DEF u
    <2>4. \A i \in Id : Theirs(i, c) => Half(remote[i], down', up')
      BY <1>2, <2>3, HalfSame DEF u
    <2>5. \A p \in up' \ up : p.conn = c
      BY <2>1, <2>2 DEF u
    <2> QED
      BY <2>1, <2>4, <2>5, HalfLocal
  <1>4. CASE /\ Half(k, up, down')
             /\ sent = {} /\ local' = [local EXCEPT ![c] = k] /\ UNCHANGED <<stage, up>>
    <2>1. up' = u /\ up' = up
      BY <1>4
    <2>2. local'[c] = k /\ \A d \in Conn \ {c} : stage'[d] = stage[d] /\ local'[d] = local[d]
      BY <1>1, <1>4 DEF LocalOK
    <2> QED
      BY <1>4, <2>1, <2>2, HalfLocal
  <1>5. CASE /\ Half(k, up, down')
             /\ local' = [local EXCEPT ![c] = AfterSend(k)] /\ UNCHANGED stage
             /\ up' = u \union DataSent(k)
    <2>1. /\ local'[c] = AfterSend(k)
          /\ \A d \in Conn \ {c} : stage'[d] = stage[d] /\ local'[d] = local[d]
      BY <1>1, <1>5 DEF LocalOK
    <2>2. \A p \in DataSent(k) : p.conn = c /\ p.type \in Data
      BY SentForItself
    <2>3. \A p \in up' \ up : p.conn = c
      BY <1>5, <2>2
    <2>4. DataOf(c, u) \subseteq DataOf(c, up) /\ AcksOf(c, down') \subseteq AcksOf(c, down')
      BY DEF DataOf, Data, Ack
    <2>5. AcksOf(c, up') \subseteq AcksOf(c, u) /\ DataOf(c, down') \subseteq DataOf(c, down')
      BY <1>5, <2>2 DEF AcksOf, Data, Ack
    <2> HIDE DEF u
    <2>6. Half(AfterSend(k), up', down')
      <3>1. SameHead(k, k)
        BY DEF SameHead
      <3>2. Half(k, u, down')
        BY <1>5, <2>4, <3>1, HalfSame
      <3> QED
        BY <1>5, <3>2, HalfSends
    <2>7. \A i \in Id : Theirs(i, c) => Half(remote[i], down', up')
      BY <1>2, <2>5, HalfSame DEF u
    <2> QED
      BY <2>1, <2>3, <2>6, <2>7, HalfLocal
  <1> QED
    BY <1>3, <1>4, <1>5 DEF LocalPass

LEMMA HalfLocalReceive ==
    ASSUME MaxCopies = 0, Known, HandInv, HalfInv, UNCHANGED remoteVars,
           NEW c \in Conn, LocalReceive(c)
    PROVE  HalfInv'
  <1>1. PICK p \in down :
            \/ LocalRecvGoodbye(c, p)
            \/ LocalRecvHelloAck(c, p)
            \/ LocalRecvData(c, p)
            \/ LocalRecvAck(c, p)
    BY DEF LocalReceive
  <1> DEFINE k == local[c]
  <1>2. LocalRecv(c, p)
    BY <1>1 DEF LocalRecvGoodbye, LocalRecvHelloAck, LocalRecvData, LocalRecvAck
  <1>3. NetOK /\ LocalOK /\ RemoteOK /\ HoldInv
    BY KnownGives
  <1>4. /\ p \in down /\ p \in Message /\ p.conn = c /\ Listed(c)
        /\ p.type \in Data => p.chunk \in Chunk
        /\ down' = down \ {p}
        /\ p.type \in Data \union Ack => stage[c] = "open"
    BY <1>2, OpenRecv
  <1>5. k \in ClientT /\ k.udp_sock = c
    BY <1>3, <1>4, ListedClient
  <1>6. /\ down' \subseteq down
        /\ DataOf(c, down') \subseteq DataOf(c, down) /\ AcksOf(c, down') \subseteq AcksOf(c, down)
        /\ DataOf(c, up) \subseteq DataOf(c, up) /\ AcksOf(c, up) \subseteq AcksOf(c, up)
    BY <1>4 DEF DataOf, AcksOf
  <1>7. ASSUME NEW i \in Id, Theirs(i, c)
        PROVE  /\ Half(remote[i], down, up) /\ remote[i].udp_sock = c
               /\ Half(remote[i], down', up)
    <2>1. Half(remote[i], down, up) /\ remote[i].udp_sock = c /\ SameHead(remote[i], remote[i])
      BY <1>7 DEF HalfInv, Theirs, SameHead
    <2> QED
      BY <1>6, <2>1, HalfSame
  <1>8. up \union {} = up
    OBVIOUS
  <1>9. CASE LocalRecvGoodbye(c, p)
    <2>1. LocalDisconnect(c, k, {})
      BY <1>9 DEF LocalRecvGoodbye
    <2> QED
      BY <1>4, <1>5, <1>6, <1>7, <1>8, <2>1, HalfLocalOutcome
  <1>10. CASE LocalRecvHelloAck(c, p)
    <2> DEFINE l == [client_got_helloack(k) EXCEPT !.id = p.id]
               answer == Packet(c, p.id, "HELLOACK")
    <2>1. p.type = "HELLOACK" /\ LocalGoOn(c, l, {answer})
      BY <1>10 DEF LocalRecvHelloAck
    <2>2. stage[c] = "pending"
      BY <1>4, <2>1 DEF HandInv, OnDown, Listed
    <2>3. l \in ClientT /\ l.udp_sock = c /\ l.id = p.id /\ p.id \in Id
      <3>1. p.id \in Id
        BY <1>4, MessageFields
      <3> QED
        BY <1>5, <3>1, GotHelloAck, Updates DEF SameName, ClientT
    <2>4. answer.conn = c /\ answer.type = "HELLOACK"
      BY DEF Packet
    <2> HIDE DEF l, answer
    <2>5. ~ IdInUse(c, l.id)
      BY <1>3, <1>4, <2>1, <2>3 DEF IdInUse, HoldInv, OneHolder, Holds
    <2>6. /\ stage' = [stage EXCEPT ![c] = "open"]
          /\ local' = [local EXCEPT ![c] = l]
          /\ up' = up \union {answer}
      BY <2>1, <2>2, <2>5 DEF LocalGoOn, Promote
    <2>7. /\ DataOf(c, up') = {} /\ AcksOf(c, down') = {}
          /\ DataOf(c, down') = {} /\ AcksOf(c, up') = {}
      BY <1>3, <1>4, <2>2, <2>4, <2>6 DEF DataOf, AcksOf, HoldInv, Calm, Silent, Data, Ack
    <2>8. Half(l, up', down')
      BY <2>3, <2>7, HalfNothing
    <2>9. \A i \in Id : Theirs(i, c) => Half(remote[i], down', up')
      BY <1>7, <2>7, HalfNothing
    <2>10. /\ local'[c] = l
           /\ \A d \in Conn \ {c} : stage'[d] = stage[d] /\ local'[d] = local[d]
           /\ \A q \in up' \ up : q.conn = c
      BY <1>3, <2>4, <2>6 DEF LocalOK
    <2> QED
      BY <1>6, <2>8, <2>9, <2>10, HalfLocal
  <1>11. CASE LocalRecvData(c, p)
    <2> DEFINE w == AfterWrite(k, p.chunk)
               f == AfterFailedWrite(k)
               ack == AckFor(k, p.type)
    <2>1. p.type \in Data /\ stage[c] = "open" /\ Half(k, up, down)
      BY <1>4, <1>11 DEF LocalRecvData, HalfInv
    <2>2. ack.conn = c /\ ack.type \in Ack
      BY <1>5, SentForItself, SentUnderId
    <2>3. ASSUME NEW i \in Id, Theirs(i, c)
          PROVE  Half(remote[i], down', up \union {ack})
      <3>1. remote[i].udp_sock = c /\ remote[i].id = k.id
        BY <2>1, <2>3, SameId DEF Theirs
      <3>2. p \in DataOf(remote[i].udp_sock, down) /\ Half(remote[i], down, up)
        BY <1>4, <1>7, <2>1, <2>3, <3>1 DEF DataOf
      <3> QED
        BY <1>4, <1>5, <3>1, <3>2, HalfAcked
    <2>4. /\ w \in ClientT /\ SameName(w, k) /\ SameHead(w, k) /\ SameHead(k, k)
          /\ f \in ClientT /\ SameName(f, k)
      BY <1>4, <1>5, <2>1, Write, FailedWrite, HeadKept
    <2>5. Half(w, up, down') /\ Half(k, up, down')
      BY <1>5, <1>6, <2>1, <2>4, HalfSame
    <2>6. /\ w.udp_sock = c /\ w.id = k.id /\ f.udp_sock = c /\ f.id = k.id
          /\ \A q \in {ack} : q.conn = c /\ q.type \in Ack
      BY <1>5, <2>2, <2>4 DEF SameName
    <2>7. \/ LocalPass(c, k, {ack})
          \/ LocalPass(c, w, {ack})
          \/ LocalDisconnect(c, f, {ack})
      BY <1>11, <2>1 DEF LocalRecvData, LocalGoOn
    <2> HIDE DEF w, f, ack
    <2> DEFINE sent == {ack}
    <2>8. /\ \A q \in sent : q.conn = c /\ q.type \in Ack
          /\ \A i \in Id : Theirs(i, c) => Half(remote[i], down', up \union sent)
      BY <2>3, <2>6
    <2>9. \/ LocalPass(c, k, sent)
          \/ LocalPass(c, w, sent)
          \/ LocalDisconnect(c, f, sent)
      BY <2>7
    <2> HIDE DEF sent
    <2>10. CASE LocalPass(c, k, sent)
      BY <1>4, <1>5, <1>6, <2>5, <2>8, <2>10, HalfLocalOutcome
    <2>11. CASE LocalPass(c, w, sent)
      BY <1>4, <1>6, <2>4, <2>5, <2>6, <2>8, <2>11, HalfLocalOutcome
    <2>12. CASE LocalDisconnect(c, f, sent)
      BY <1>4, <1>6, <2>4, <2>6, <2>8, <2>12, HalfLocalOutcome
    <2> QED
      BY <2>9, <2>10, <2>11, <2>12
  <1>12. CASE LocalRecvAck(c, p)
    <2> DEFINE l == client_got_ack(k, p.type)
    <2>1. p.type \in Ack /\ stage[c] = "open" /\ Half(k, up, down) /\ Steady(k)
      BY <1>3, <1>4, <1>12, ListedClient DEF LocalRecvAck, HalfInv
    <2>2. p \in AcksOf(k.udp_sock, down)
      BY <1>4, <1>5, <2>1 DEF AcksOf
    <2>3. l \in ClientT /\ SameName(l, k)
      BY <1>5, <2>1, GotAck
    <2>4. l.udp_sock = c /\ l.id = k.id
      BY <1>5, <2>3 DEF SameName
    <2>5. Half(l, up, down')
      BY <1>4, <1>5, <2>1, <2>2, HalfGotAck
    <2>6. LocalPass(c, l, {}) \/ LocalDisconnect(c, k, {})
      BY <1>12, <2>1 DEF LocalRecvAck, LocalGoOn
    <2> HIDE DEF l
    <2>7. CASE LocalPass(c, l, {})
      BY <1>4, <1>6, <1>7, <1>8, <2>3, <2>4, <2>5, <2>7, HalfLocalOutcome
    <2>8. CASE LocalDisconnect(c, k, {})
      BY <1>4, <1>5, <1>6, <1>7, <1>8, <2>8, HalfLocalOutcome
    <2> QED
      BY <2>6, <2>7, <2>8
  <1> QED
    BY <1>1, <1>9, <1>10, <1>11, <1>12

LEMMA HalfLocalTcp ==
    ASSUME Known, HalfInv, UNCHANGED remoteVars,
           NEW c \in Conn, LocalTcp(c) \/ LocalCheck(c)
    PROVE  HalfInv'
  <1> DEFINE k == local[c]
  <1>1. stage[c] = "open" /\ Listed(c) /\ down' = down
    BY DEF LocalTcp, LocalTcpData, LocalTcpEof, LocalTcpError, LocalCheck, Listed
  <1>2. /\ k \in ClientT /\ k.udp_sock = c /\ Steady(k) /\ Half(k, up, down)
        /\ \A i \in Id : Theirs(i, c) => Half(remote[i], down', up \union {})
    <2>1. up \union {} = up
      OBVIOUS
    <2>2. k \in ClientT /\ k.udp_sock = c /\ Steady(k)
      BY <1>1, KnownGives, ListedClient
    <2>3. \A i \in Id : Theirs(i, c) => Half(remote[i], down, up)
      BY DEF HalfInv, Theirs
    <2> QED
      BY <1>1, <2>1, <2>2, <2>3 DEF HalfInv
  <1>3. ASSUME NEW l \in ClientT, SameName(l, k), SameHead(l, k),
               \/ LocalGoOn(c, l, {})
               \/ LocalDisconnect(c, l, {})
               \/ local' = [local EXCEPT ![c] = l] /\ UNCHANGED <<stage, up>>
        PROVE  HalfInv'
    <2>1. l.udp_sock = c /\ l.id = k.id /\ down' \subseteq down
      BY <1>1, <1>2, <1>3 DEF SameName
    <2>2. DataOf(c, up) \subseteq DataOf(c, up) /\ AcksOf(c, down') \subseteq AcksOf(c, down)
      BY <1>1
    <2>3. Half(l, up, down')
      BY <1>2, <1>3, <2>2, HalfSame
    <2>4. \/ LocalPass(c, l, {})
          \/ LocalDisconnect(c, l, {})
          \/ local' = [local EXCEPT ![c] = l] /\ UNCHANGED <<stage, up>>
      BY <1>1, <1>3 DEF LocalGoOn
    <2> QED
      BY <1>1, <1>2, <1>3, <2>1, <2>3, <2>4, HalfLocalOutcome
  <1>4. CASE LocalTcpData(c)
    <2>1. PICK l \in client_recv_tcp_data(k) : LocalGoOn(c, l, {})
      BY <1>4 DEF LocalTcpData
    <2>2. l \in ClientT /\ SameName(l, k) /\ k.nread < MaxChunks
      BY <1>2, <1>4, RecvTcp, LocalMayRead
    <2> QED
      BY <1>2, <1>3, <2>1, <2>2, HeadKept
  <1>5. CASE LocalTcpEof(c)
    BY <1>2, <1>3, <1>5, Eof, HeldEof, HeadKept, KnownGives
  <1>6. CASE LocalTcpError(c)
    <2>1. LocalDisconnect(c, k, {}) /\ SameName(k, k)
      BY <1>6 DEF LocalTcpError, SameName
    <2> QED
      BY <1>2, <1>3, <2>1, HeadKept
  <1>7. CASE LocalCheck(c)
    <2> DEFINE l == client_check_and_resend(k)
    <2>1. l \in ClientT /\ SameName(l, k) /\ SameHead(l, k)
      BY <1>2, <1>7, Check, HeadKept DEF LocalCheck, TimeoutIsUp
    <2>2. \/ LocalDisconnect(c, l, {})
          \/ local' = [local EXCEPT ![c] = l] /\ UNCHANGED <<stage, up>>
      BY <1>7 DEF LocalCheck
    <2> HIDE DEF l
    <2> QED
      BY <1>3, <2>1, <2>2
  <1> QED
    BY <1>4, <1>5, <1>6, <1>7 DEF LocalTcp

\* The same of udpserver, whose records are the other halves.
LEMMA HalfRemote ==
    ASSUME Known, HandInv, HalfInv, UNCHANGED localVars,
           NEW i \in Id, remote[i] # NoClient, NEW c, c = remote[i].udp_sock,
           \A j \in Id \ {i} : remote'[j] = remote[j],
           \A p \in down' \ down : p.conn = c,
           up' \subseteq up,
           remote'[i] # NoClient => Half(remote'[i], down', up'),
           stage[c] = "open" => Half(local[c], up', down')
    PROVE  HalfInv'
  <1>1. LocalOK /\ stage' = stage /\ local' = local /\ c \in Conn
    BY KnownGives, SockOf DEF localVars
  <1>2. \A d : d # c => NoneNew(d, up, up') /\ NoneNew(d, down, down')
    BY FewerOnly
  <1>3. ASSUME NEW d \in Conn, stage[d] = "open"
        PROVE  Half(local[d], up', down')
    <2>1. CASE d # c
      <3>1. Half(local[d], up, down) /\ local[d].udp_sock = d /\ SameHead(local[d], local[d])
        BY <1>1, <1>3 DEF HalfInv, LocalOK, Listed, SameHead
      <3> QED
        BY <1>2, <2>1, <3>1, HalfSame DEF NoneNew
    <2> QED
      BY <1>3, <2>1
  <1>4. ASSUME NEW j \in Id, remote'[j] # NoClient
        PROVE  Half(remote'[j], down', up')
    <2>1. CASE j # i
      <3>1. remote'[j] = remote[j] /\ Half(remote[j], down, up) /\ SameHead(remote[j], remote[j])
        BY <1>4, <2>1 DEF HalfInv, SameHead
      <3>2. remote[j].udp_sock # c
        BY <1>1, <1>4, <2>1, <3>1 DEF HandInv, OneId, Holds
      <3> QED
        BY <1>2, <3>1, <3>2, HalfSame DEF NoneNew
    <2> QED
      BY <1>4, <2>1
  <1> QED
    BY <1>1, <1>3, <1>4 DEF HalfInv

LEMMA HalfRemoteOutcome ==
    ASSUME Known, HandInv, HalfInv, UNCHANGED localVars, up' \subseteq up,
           NEW i \in Id, remote[i] # NoClient,
           NEW k \in ClientT, SameName(k, remote[i]), NEW c, k.udp_sock = c,
           NEW sent, \A p \in sent : p.conn = c /\ p.type \in Ack,
           stage[c] = "open" => Half(local[c], up', down \union sent),
           \/ /\ Half(k, down, up')
              /\ RemotePass(i, k, sent) \/ RemoteKept(i, k, sent)
           \/ RemoteDisconnect(i, k, sent)
    PROVE  HalfInv'
  <1> DEFINE d == down \union sent
  <1>1. /\ LocalOK /\ RemoteOK /\ c \in Conn /\ c = remote[i].udp_sock
        /\ stage[c] = "open" => local[c].udp_sock = c /\ SameHead(local[c], local[c])
    BY KnownGives, SockOf DEF SameName, LocalOK, Listed, SameHead
  <1>2. CASE RemoteDisconnect(i, k, sent)
    <2>1. /\ remote'[i] = NoClient
          /\ \A j \in Id \ {i} : remote'[j] = remote[j]
          /\ down' = d \union {Goodbye(k)}
      BY <1>1, <1>2 DEF RemoteDisconnect, RemoteOK
    <2>2. Goodbye(k).conn = c /\ Goodbye(k).type = "GOODBYE"
      BY SentForItself
    <2>3. AcksOf(c, down') \subseteq AcksOf(c, d) /\ DataOf(c, up') \subseteq DataOf(c, up')
      BY <2>1, <2>2 DEF AcksOf, Ack
    <2> HIDE DEF d
    <2>4. stage[c] = "open" => Half(local[c], up', down')
      BY <1>1, <2>3, HalfSame DEF d
    <2>5. \A p \in down' \ down : p.conn = c
      BY <2>1, <2>2 DEF d
    <2> QED
      BY <1>1, <2>1, <2>4, <2>5, HalfRemote
  <1>3. CASE Half(k, down, up') /\ remote' = [remote EXCEPT ![i] = k] /\ down' = d
    <2>1. remote'[i] = k /\ \A j \in Id \ {i} : remote'[j] = remote[j]
      BY <1>1, <1>3 DEF RemoteOK
    <2>2. \A p \in down' \ down : p.conn = c
      BY <1>3
    <2>3. DataOf(c, down') \subseteq DataOf(c, down) /\ AcksOf(c, up') \subseteq AcksOf(c, up')
      BY <1>3 DEF DataOf, Data, Ack
    <2>4. Half(k, down', up')
      BY <1>3, <2>3, HalfSame DEF SameHead
    <2> QED
      BY <1>1, <1>3, <2>1, <2>2, <2>4, HalfRemote
  <1>4. CASE /\ Half(k, down, up')
             /\ remote' = [remote EXCEPT ![i] = AfterSend(k)] /\ down' = d \union DataSent(k)
    <2>1. remote'[i] = AfterSend(k) /\ \A j \in Id \ {i} : remote'[j] = remote[j]
      BY <1>1, <1>4 DEF RemoteOK
    <2>2. \A p \in DataSent(k) : p.conn = c /\ p.type \in Data
      BY SentForItself
    <2>3. \A p \in down' \ down : p.conn = c
      BY <1>4, <2>2
    <2>4. DataOf(c, d) \subseteq DataOf(c, down) /\ AcksOf(c, up') \subseteq AcksOf(c, up')
      BY DEF DataOf, Data, Ack
    <2>5. AcksOf(c, down') \subseteq AcksOf(c, d) /\ DataOf(c, up') \subseteq DataOf(c, up')
      BY <1>4, <2>2 DEF AcksOf, Data, Ack
    <2> HIDE DEF d
    <2>6. Half(AfterSend(k), down', up')
      <3>1. SameHead(k, k)
        BY DEF SameHead
      <3>2. Half(k, d, up')
        BY <1>4, <2>4, <3>1, HalfSame
      <3> QED
        BY <1>4, <3>2, HalfSends
    <2>7. stage[c] = "open" => Half(local[c], up', down')
      BY <1>1, <2>5, HalfSame DEF d
    <2> QED
      BY <1>1, <2>1, <2>3, <2>6, <2>7, HalfRemote
  <1> QED
    BY <1>2, <1>3, <1>4 DEF RemotePass, RemoteKept

LEMMA HalfRemoteQuiet ==
    ASSUME Known, HandInv, HalfInv, UNCHANGED localVars, up' \subseteq up,
           NEW i \in Id, remote[i] # NoClient,
           NEW k \in ClientT, SameName(k, remote[i]),
           stage[k.udp_sock] = "open" => Half(local[k.udp_sock], up', down),
           \/ /\ Half(k, down, up')
              /\ \/ RemotePass(i, k, {})
                 \/ remote' = [remote EXCEPT ![i] = k] /\ UNCHANGED down
           \/ RemoteDisconnect(i, k, {})
    PROVE  HalfInv'
  <1> DEFINE c == k.udp_sock
             sent == {}
  <1>1. down \union sent = down /\ \A p \in sent : p.conn = c /\ p.type \in Ack
    OBVIOUS
  <1>2. stage[c] = "open" => Half(local[c], up', down \union sent)
    BY <1>1
  <1>3. \/ /\ Half(k, down, up')
           /\ RemotePass(i, k, sent) \/ RemoteKept(i, k, sent)
        \/ RemoteDisconnect(i, k, sent)
    BY <1>1 DEF RemoteKept
  <1>4. k.udp_sock = c
    OBVIOUS
  <1> HIDE DEF c, sent
  <1> QED
    BY <1>1, <1>2, <1>3, <1>4, HalfRemoteOutcome

LEMMA HalfVanishes ==
    ASSUME HalfInv, UNCHANGED <<stage, local, remote>>, up' \subseteq up, down' \subseteq down
    PROVE  HalfInv'
  <1>1. \A k, c : /\ SameHead(k, k)
                  /\ DataOf(c, up') \subseteq DataOf(c, up) /\ AcksOf(c, up') \subseteq AcksOf(c, up)
                  /\ DataOf(c, down') \subseteq DataOf(c, down)
                  /\ AcksOf(c, down') \subseteq AcksOf(c, down)
    BY DEF SameHead, DataOf, AcksOf
  <1>2. /\ \A k : Half(k, up, down) => Half(k, up', down')
        /\ \A k : Half(k, down, up) => Half(k, down', up')
    BY <1>1, HalfSame
  <1> QED
    BY <1>2 DEF HalfInv

LEMMA HalfCreated ==
    ASSUME MaxCopies = 0, Known, HandInv, HalfInv, UNCHANGED localVars, NEW p, Created(p)
    PROVE  HalfInv'
  <1> DEFINE c == p.conn
             n == next_client_id
             new == client_create(n, c, FALSE, n)
  <1>1. LocalOK /\ RemoteOK /\ NetOK /\ HoldInv
    BY KnownGives
  <1>2. p \in up /\ p.type = "HELLO" /\ up' = up \ {p}
    BY <1>1, Gone DEF Created, NetOK
  <1>3. c \in Conn /\ stage[c] = "pending"
    BY <1>1, <1>2, MessageFields DEF NetOK, HandInv, OnUp, FirstContact
  <1>4. n \in Id /\ remote' = [remote EXCEPT ![n] = new]
    BY DEF Created
  <1>5. PICK q : down' = down \union {q} /\ q.conn = c /\ q.type \in {"HELLOACK", "GOODBYE"}
    BY DEF Created, Packet
  <1>6. new.udp_sock = c
    BY DEF client_create
  <1> HIDE DEF new
  <1>7. stage' = stage /\ local' = local
    BY DEF localVars
  <1>8. \A j \in Id : remote'[j] = IF j = n THEN new ELSE remote[j]
    BY <1>1, <1>4 DEF RemoteOK
  <1>9. \A d, k : /\ SameHead(k, k)
                  /\ DataOf(d, up') \subseteq DataOf(d, up) /\ AcksOf(d, up') \subseteq AcksOf(d, up)
                  /\ DataOf(d, down') \subseteq DataOf(d, down)
                  /\ AcksOf(d, down') \subseteq AcksOf(d, down)
    BY <1>2, <1>5 DEF SameHead, DataOf, AcksOf, Data, Ack
  <1>10. DataOf(c, down') = {} /\ AcksOf(c, up') = {}
    BY <1>1, <1>3, <1>9 DEF DataOf, AcksOf, HoldInv, Calm, Silent, Data, Ack
  <1>11. Half(new, down', up')
    BY <1>6, <1>10, HalfNothing
  <1>12. /\ \A k : Half(k, up, down) => Half(k, up', down')
         /\ \A k : Half(k, down, up) => Half(k, down', up')
    BY <1>9, HalfSame
  <1> QED
    BY <1>7, <1>8, <1>11, <1>12 DEF HalfInv

LEMMA HalfRemoteReceive ==
    ASSUME MaxHello \in Nat, MaxHello =< IdMod, MaxCopies = 0,
           Known, HandInv, LinkInv, HalfInv, UNCHANGED localVars,
           NEW c \in Conn, RemoteReceive(c)
    PROVE  HalfInv'
  <1>1. PICK p \in up :
            \/ RemoteRecvHello(p)
            \/ RemoteRecvHelloAck(p)
            \/ RemoteRecvGoodbye(p)
            \/ RemoteRecvData(p)
            \/ RemoteRecvAck(p)
            \/ RemoteIgnore(p)
    BY DEF RemoteReceive
  <1>2. NetOK /\ stage' = stage /\ local' = local
    BY KnownGives DEF localVars
  <1>3. up' = up \ {p} /\ up' \subseteq up
    <2>1. RemoteRecv(p)
      BY <1>1 DEF RemoteRecvHello, RemoteRecvHelloAck, RemoteRecvGoodbye, RemoteRecvData,
                  RemoteRecvAck, RemoteIgnore, RemoteRecvFor
    <2> QED
      BY <1>2, <2>1, Gone DEF RemoteRecv, NetOK
  <1> DEFINE i == p.id
             r == remote[i]
             b == r.udp_sock
  <1>4. \A d : /\ DataOf(d, up') \subseteq DataOf(d, up)
               /\ AcksOf(d, up') \subseteq AcksOf(d, up)
               /\ DataOf(d, down) \subseteq DataOf(d, down)
               /\ AcksOf(d, down) \subseteq AcksOf(d, down)
    BY <1>3 DEF DataOf, AcksOf
  <1>5. ASSUME RemoteRecvFor(p)
        PROVE  /\ i \in Id /\ r # NoClient /\ r \in ClientT /\ Steady(r) /\ b \in Conn
               /\ SameName(r, remote[i])
               /\ p.type \in Data \union Ack => b = p.conn
               /\ p.type \in Data => p.chunk \in Chunk
               /\ Half(r, down, up) /\ Half(r, down, up')
               /\ stage[b] = "open" =>
                      /\ Half(local[b], up, down) /\ Half(local[b], up', down)
                      /\ local[b].udp_sock = b /\ local[b].id = r.id
    <2>1. /\ i \in Id /\ r # NoClient
          /\ p.type \in Data \union Ack => b = p.conn
          /\ p.type \in Data => p.chunk \in Chunk
          /\ stage[b] = "open" => local[b].udp_sock = b /\ local[b].id = r.id
      BY <1>5, FoundGives
    <2>2. r \in ClientT /\ Steady(r) /\ b \in Conn
      BY <2>1, SockOf
    <2>3. Half(r, down, up) /\ (stage[b] = "open" => Half(local[b], up, down))
      BY <2>1, <2>2 DEF HalfInv
    <2>4. SameHead(r, r) /\ SameHead(local[b], local[b])
      BY DEF SameHead
    <2>5. Half(r, down, up') /\ (stage[b] = "open" => Half(local[b], up', down))
      BY <1>4, <2>3, <2>4, HalfSame
    <2> QED
      BY <2>1, <2>2, <2>3, <2>5 DEF SameName
  <1>6. CASE RemoteRecvHello(p)
    <2>1. NothingDone \/ Created(p)
      BY <1>6, RemoteRecvHelloShape
    <2> QED
      BY <1>2, <2>1, HalfVanishes, HalfCreated DEF NothingDone
  <1>7. CASE RemoteIgnore(p)
    BY <1>2, <1>3, <1>7, HalfVanishes DEF RemoteIgnore
  <1>8. CASE RemoteRecvGoodbye(p)
    <2>1. RemoteRecvFor(p) /\ RemoteDisconnect(i, r, {})
      BY <1>8 DEF RemoteRecvGoodbye
    <2>2. /\ i \in Id /\ remote[i] # NoClient /\ r \in ClientT /\ SameName(r, remote[i])
          /\ r.udp_sock = b
          /\ stage[b] = "open" => Half(local[b], up', down)
      BY <1>5, <2>1
    <2> HIDE DEF b, r, i
    <2> QED
      BY <1>3, <2>1, <2>2, HalfRemoteQuiet
  <1>9. CASE RemoteRecvHelloAck(p)
    <2> DEFINE k == [client_got_helloack(r) EXCEPT !.connected = TRUE]
    <2>1. RemoteRecvFor(p) /\ (RemoteDisconnect(i, r, {}) \/ RemotePass(i, k, {}))
      BY <1>9 DEF RemoteRecvHelloAck
    <2>2. k \in ClientT /\ SameName(k, r) /\ SameHead(k, r)
      <3>1. r \in ClientT /\ i \in Id
        BY <1>5, <2>1
      <3> DEFINE g == client_got_helloack(r)
      <3>2. g \in ClientT /\ SameName(g, r) /\ SameHead(g, r)
        BY <3>1, GotHelloAck DEF client_got_helloack, SameHead, ClientT
      <3> HIDE DEF g
      <3>3. /\ [g EXCEPT !.connected = TRUE] \in ClientT
            /\ SameName([g EXCEPT !.connected = TRUE], g)
        BY <3>1, <3>2, Updates
      <3> HIDE DEF r
      <3>4. SameHead([g EXCEPT !.connected = TRUE], r)
        BY <3>2 DEF SameHead, ClientT
      <3> QED
        BY <3>2, <3>3, <3>4 DEF SameName, g
    <2>3. /\ k.udp_sock = b /\ SameName(k, remote[i])
          /\ Half(k, down, up')
      BY <1>4, <1>5, <2>1, <2>2, HalfSame DEF SameName
    <2>4. /\ i \in Id /\ remote[i] # NoClient /\ r \in ClientT /\ SameName(r, remote[i])
          /\ r.udp_sock = b
          /\ stage[b] = "open" => Half(local[b], up', down)
      BY <1>5, <2>1
    <2> HIDE DEF k, b, r, i
    <2>5. CASE RemoteDisconnect(i, r, {})
      BY <1>3, <2>4, <2>5, HalfRemoteQuiet
    <2>6. CASE RemotePass(i, k, {})
      BY <1>3, <2>2, <2>3, <2>4, <2>6, HalfRemoteQuiet
    <2> QED
      BY <2>1, <2>5, <2>6
  <1>10. CASE RemoteRecvData(p)
    <2> DEFINE w == AfterWrite(r, p.chunk)
               ack == AckFor(r, p.type)
               sent == {ack}
    <2>1. p.type \in Data /\ RemoteRecvFor(p)
      BY <1>10 DEF RemoteRecvData
    <2>2. r \in ClientT /\ b = p.conn /\ p.chunk \in Chunk
      BY <1>5, <2>1
    <2>3. \A q \in sent : q.conn = b /\ q.type \in Ack
      BY <2>2, SentForItself, SentUnderId
    <2>4. stage[b] = "open" => Half(local[b], up', down \union sent)
      <3>1. p \in DataOf(b, up)
        BY <1>1, <2>1, <2>2 DEF DataOf
      <3> HIDE DEF r, b
      <3> QED
        BY <1>3, <1>5, <2>1, <3>1, HalfAcked DEF b
    <2>5. /\ w \in ClientT /\ SameName(w, remote[i]) /\ SameHead(w, r)
          /\ w.udp_sock = b
      BY <2>2, Write, HeadKept DEF SameName
    <2>6. Half(w, down, up')
      BY <1>4, <1>5, <2>1, <2>5, HalfSame
    <2>7. RemotePass(i, r, sent) \/ RemotePass(i, w, sent) \/ RemoteDisconnect(i, r, sent)
      BY <1>10 DEF RemoteRecvData
    <2> HIDE DEF w, sent, i
    <2>8. CASE RemotePass(i, r, sent) \/ RemoteDisconnect(i, r, sent)
      BY <1>3, <1>5, <2>1, <2>3, <2>4, <2>8, HalfRemoteOutcome
    <2>9. CASE RemotePass(i, w, sent)
      BY <1>3, <1>5, <2>1, <2>3, <2>4, <2>5, <2>6, <2>9, HalfRemoteOutcome
    <2> QED
      BY <2>7, <2>8, <2>9
  <1>11. CASE RemoteRecvAck(p)
    <2> DEFINE k == client_got_ack(r, p.type)
    <2>1. p.type \in Ack /\ RemoteRecvFor(p) /\ RemotePass(i, k, {})
      BY <1>11 DEF RemoteRecvAck
    <2>2. k \in ClientT /\ SameName(k, remote[i]) /\ k.udp_sock = b
      BY <1>5, <2>1, GotAck DEF SameName
    <2>3. Half(k, down, up')
      <3>1. p \in AcksOf(b, up) /\ r \in ClientT /\ Half(r, down, up)
        BY <1>1, <1>5, <2>1 DEF AcksOf
      <3> QED
        BY <1>3, <3>1, HalfGotAck
    <2>4. /\ i \in Id /\ remote[i] # NoClient
          /\ stage[b] = "open" => Half(local[b], up', down)
      BY <1>5, <2>1
    <2> HIDE DEF k, b, r, i
    <2> QED
      BY <1>3, <2>1, <2>2, <2>3, <2>4, HalfRemoteQuiet
  <1> QED
    BY <1>1, <1>6, <1>7, <1>8, <1>9, <1>10, <1>11

LEMMA HalfRemoteTcp ==
    ASSUME MaxCopies = 0, Known, HandInv, HalfInv, UNCHANGED localVars,
           NEW i \in Id, RemoteTcp(i) \/ RemoteCheck(i) \/ KeepaliveRunsOut(i)
    PROVE  HalfInv'
  <1> DEFINE r == remote[i]
             c == r.udp_sock
  <1>1. r # NoClient /\ up' = up
    BY DEF RemoteTcp, RemoteTcpData, RemoteTcpEof, RemoteTcpError, RemoteCheck,
           KeepaliveRunsOut, RemoteTimeout
  <1>2. r \in ClientT /\ Steady(r) /\ c \in Conn /\ SameName(r, remote[i])
    BY <1>1, SockOf DEF SameName
  <1>3. Half(r, down, up') /\ (stage[c] = "open" => Half(local[c], up', down))
    BY <1>1, <1>2 DEF HalfInv
  <1>4. ASSUME NEW k \in ClientT, SameName(k, r), SameHead(k, r),
               \/ RemotePass(i, k, {})
               \/ RemoteDisconnect(i, k, {})
               \/ remote' = [remote EXCEPT ![i] = k] /\ UNCHANGED down
        PROVE  HalfInv'
    <2>1. k.udp_sock = c /\ SameName(k, remote[i]) /\ up' \subseteq up
      BY <1>1, <1>4 DEF SameName
    <2>2. DataOf(c, down) \subseteq DataOf(c, down) /\ AcksOf(c, up') \subseteq AcksOf(c, up')
      OBVIOUS
    <2>3. Half(k, down, up')
      BY <1>3, <1>4, <2>2, HalfSame
    <2> QED
      BY <1>1, <1>3, <1>4, <2>1, <2>3, HalfRemoteQuiet
  <1>5. SameHead(r, r) /\ SameName(r, r)
    BY DEF SameHead, SameName
  <1>6. CASE RemoteTcpData(i)
    <2>1. PICK k \in client_recv_tcp_data(r) : RemotePass(i, k, {})
      BY <1>6 DEF RemoteTcpData
    <2>2. k \in ClientT /\ SameName(k, r) /\ SameHead(k, r)
      BY <1>2, <1>6, <2>1, RecvTcp, HeadKept DEF RemoteTcpData
    <2> QED
      BY <1>4, <2>1, <2>2
  <1>7. CASE RemoteTcpEof(i)
    BY <1>2, <1>4, <1>7, Eof, HeadKept DEF RemoteTcpEof
  <1>8. CASE RemoteTcpError(i)
    BY <1>2, <1>4, <1>5, <1>8 DEF RemoteTcpError
  <1>9. CASE RemoteCheck(i)
    <2> DEFINE k == client_check_and_resend(r)
    <2>1. k \in ClientT /\ SameName(k, r) /\ SameHead(k, r)
      BY <1>2, <1>9, Check, HeadKept DEF RemoteCheck, TimeoutIsUp
    <2>2. \/ RemoteDisconnect(i, k, {})
          \/ remote' = [remote EXCEPT ![i] = k] /\ UNCHANGED down
      BY <1>9 DEF RemoteCheck
    <2> HIDE DEF k
    <2> QED
      BY <1>4, <2>1, <2>2
  <1>10. CASE KeepaliveRunsOut(i)
    <2>1. RemoteDisconnect(i, r, {})
      BY <1>1, <1>10, KnownGives DEF KeepaliveRunsOut, RemoteTimeout, OwnInv, OwnRemote
    <2> QED
      BY <1>2, <1>4, <1>5, <2>1
  <1> QED
    BY <1>6, <1>7, <1>8, <1>9, <1>10 DEF RemoteTcp

LEMMA HalfStep ==
    ASSUME MaxHello \in Nat, MaxHello =< IdMod, MaxCopies = 0,
           Known, HandInv, LinkInv, HalfInv, [Next]_vars
    PROVE  HalfInv'
  <1>1. CASE LocalNext /\ UNCHANGED remoteVars
    <2>1. ASSUME NEW p \in down, DropStray(p)
          PROVE  HalfInv'
      BY <1>1, <2>1, HalfVanishes DEF DropStray, localVars, remoteVars
    <2>2. ASSUME NEW c \in Conn, Accept(c)
          PROVE  HalfInv'
      <3>1. LocalOK
        BY KnownGives
      <3>2. /\ stage'[c] = "pending"
            /\ \A d \in Conn \ {c} : stage'[d] = stage[d] /\ local'[d] = local[d]
            /\ up' = up \union {Packet(c, 0, "HELLO")}
            /\ down' = down
        BY <2>2, <3>1 DEF Accept, LocalOK
      <3>3. \A p \in up' \ up : p.conn = c /\ p.type = "HELLO"
        BY <3>2 DEF Packet
      <3>4. DataOf(c, down') \subseteq DataOf(c, down) /\ AcksOf(c, up') \subseteq AcksOf(c, up)
        BY <3>2, <3>3 DEF AcksOf, Ack
      <3>5. \A i \in Id : Theirs(i, c) => Half(remote[i], down', up')
        BY <3>4, HalfSame DEF HalfInv, Theirs, SameHead
      <3> QED
        BY <1>1, <3>2, <3>3, <3>5, HalfLocal
    <2> QED
      BY <1>1, <2>1, <2>2, HalfLocalReceive, HalfLocalTcp DEF LocalNext
  <1>2. CASE RemoteNext /\ UNCHANGED localVars
    BY <1>2, HalfRemoteReceive, HalfRemoteTcp DEF RemoteNext
  <1>3. CASE (LoseUp \/ LoseDown) /\ UNCHANGED <<localVars, remoteVars>>
    <2>1. /\ up' \subseteq up /\ down' \subseteq down
          /\ UNCHANGED <<stage, local, remote>>
      BY <1>3 DEF LoseUp, LoseDown, localVars, remoteVars
    <2> QED
      BY <2>1, HalfVanishes
  <1>4. CASE UNCHANGED vars
    BY <1>4, HalfVanishes DEF vars, netVars, localVars, remoteVars
  <1> QED
    BY <1>1, <1>2, <1>3, <1>4 DEF Next

LEMMA HalfInit == Init => HalfInv
  BY DEF Init, NetInit, LocalInit, RemoteInit, HalfInv

\* An ACK on its way back: the other end has written the head of the queue.
LEMMA HeadWritten ==
    ASSUME NEW k \in ClientT, NEW l \in ClientT, NEW net, NEW back,
           Matched(k, l, net, back), l.udp_sock = k.udp_sock, Stream(l, k.serial),
           AcksOf(k.udp_sock, back) # {}, k.tcp2udp_q # <<>>
    PROVE  l.written # <<>> /\ l.written[Len(l.written)] = Head(k.tcp2udp_q)
  <1>1. PICK a \in Nat : Backlog(k, a) /\ InStep(k, a, l, net, back)
    BY DEF Matched
  <1>2. Len(l.written) = a + 1
    BY <1>1 DEF InStep
  <1>3. k.tcp2udp_q \in Seq(Chunk) /\ l.written \in Seq(Chunk)
    BY DEF ClientT
  <1>4. 1 \in DOMAIN k.tcp2udp_q /\ Head(k.tcp2udp_q) = k.tcp2udp_q[1]
    BY <1>3
  <1>5. a + 1 \in DOMAIN l.written
    BY <1>2, <1>3
  <1>6. /\ Head(k.tcp2udp_q) = ChunkOf(k.udp_sock, k.serial, a + 1)
        /\ l.written[a + 1] = ChunkOf(k.udp_sock, k.serial, a + 1)
    BY <1>1, <1>4, <1>5 DEF Backlog, Stream
  <1> QED
    BY <1>2, <1>3, <1>5, <1>6

\* What Half says of the messages in flight of one end.
LEMMA HalfSays ==
    ASSUME NEW k, NEW net, NEW back, Half(k, net, back)
    PROVE  /\ HeadSent(k, net)
           /\ \A p \in back : p.conn = k.udp_sock /\ p.type \in Ack =>
                  /\ IsExpectedAck(k, p.type)
                  /\ k.tcp2udp_q # <<>>
                  /\ AcksOf(k.udp_sock, back) # {}
  <1>1. ASSUME NEW p \in net, p.conn = k.udp_sock, p.type \in Data
        PROVE  WaitsForAck(k) /\ k.tcp2udp_q # <<>> /\ p.chunk = Head(k.tcp2udp_q)
    <2>1. p \in DataOf(k.udp_sock, net)
      BY <1>1 DEF DataOf
    <2> QED
      BY <2>1 DEF Half, DataPacket
  <1>2. ASSUME NEW p \in back, p.conn = k.udp_sock, p.type \in Ack
        PROVE  IsExpectedAck(k, p.type) /\ k.tcp2udp_q # <<>> /\ AcksOf(k.udp_sock, back) # {}
    <2>1. p \in AcksOf(k.udp_sock, back)
      BY <1>2 DEF AcksOf
    <2>2. WaitsForAck(k) /\ k.tcp2udp_q # <<>> /\ p.type = AckOf(NextType(k))
      BY <2>1 DEF Half, Packet
    <2> QED
      BY <2>1, <2>2 DEF IsExpectedAck, AckOf, NextType, WaitsForAck
  <1> QED
    BY <1>1, <1>2 DEF HeadSent

-----------------------------------------------------------------------------
\* What is written is in one stream, if it is all in stream s.
LEMMA OneStream ==
    ASSUME NEW k \in ClientT, NEW s, Stream(k, s)
    PROVE  IsPrefixOfOneStream(k.written, k.udp_sock)
  <1>1. k.written \in Seq(Chunk)
    BY DEF ClientT
  <1>2. ASSUME NEW j \in DOMAIN k.written
        PROVE  k.written[1].serial = s
    <2>1. 1 \in DOMAIN k.written
      BY <1>1, <1>2
    <2>2. k.written[1] = ChunkOf(k.udp_sock, s, 1)
      BY <2>1 DEF Stream
    <2> QED
      BY <2>2 DEF ChunkOf
  <1> QED
    BY <1>2 DEF IsPrefixOfOneStream, Stream, ChunkOf

(***************************************************************************)
(* What udpclient writes to a TCP connection is a prefix of what one       *)
(* client_t of udpserver read: nothing missing, nothing twice and nothing  *)
(* out of order, whatever is lost, late or overtaken, as long as nothing   *)
(* is delivered twice and no chunk is taken for one queued already.        *)
(***************************************************************************)
THEOREM LocalGetsAPrefix ==
    ASSUME MaxHello \in Nat, MaxHello =< IdMod, MaxCopies = 0, AllDiffer
    PROVE  Spec => []LocalStream
  <1>1. ASSUME Known, HandInv, LinkInv
        PROVE  LocalStream
    <2>1. ASSUME NEW c \in Conn, stage[c] = "open"
          PROVE  IsPrefixOfOneStream(local[c].written, local[c].udp_sock)
      <3>1. local[c] \in ClientT /\ Stream(local[c], local[c].id)
        BY <1>1, <2>1, OpenGives DEF LocalEnd, Reads
      <3> QED
        BY <3>1, OneStream
    <2> QED
      BY <2>1 DEF LocalStream, LocalClients
  <1> QED
    BY <1>1, LinkInvariant, PTL

(***************************************************************************)
(* What udpserver writes is a prefix of what udpclient read, if besides    *)
(* the network keeps the order: a HELLOACK that is overtaken by DATA makes *)
(* the server acknowledge a chunk it does not write.                       *)
(***************************************************************************)
THEOREM RemoteGetsAPrefix ==
    ASSUME MaxHello \in Nat, MaxHello =< IdMod, MaxCopies = 0, AllDiffer,
           "reorder" \notin Faults
    PROVE  Spec => []RemoteStream
  <1>1. ASSUME Known, HandInv, LinkInv
        PROVE  RemoteStream
    <2>1. ASSUME NEW i \in Id, remote[i] # NoClient
          PROVE  IsPrefixOfOneStream(remote[i].written, remote[i].udp_sock)
      <3>1. remote[i] \in ClientT /\ RemoteEnd(remote[i], i, up)
        BY <1>1, <2>1, SockOf DEF LinkInv
      <3>2. CASE remote[i].udp2tcp_state = "WAIT_HELLO"
        BY <3>1, <3>2 DEF RemoteEnd, InOrder, IsPrefixOfOneStream
      <3>3. CASE remote[i].udp2tcp_state # "WAIT_HELLO"
        BY <3>1, <3>3, OneStream DEF RemoteEnd, InOrder, Hears, Reads
      <3> QED
        BY <3>2, <3>3
    <2> QED
      BY <2>1 DEF RemoteStream, RemoteClients
  <1> QED
    BY <1>1, LinkInvariant, PTL

\* Two matched ends: what left the queue of the one was written by the other.
LEMMA MatchedDelivers ==
    ASSUME NEW k \in ClientT, NEW l \in ClientT, NEW net, NEW back,
           Matched(k, l, net, back), l.udp_sock = k.udp_sock, Stream(l, k.serial)
    PROVE  Delivered(k, l)
  <1>1. PICK a \in Nat : Backlog(k, a) /\ InStep(k, a, l, net, back)
    BY DEF Matched
  <1>2. /\ k.tcp2udp_q \in Seq(Chunk) /\ l.written \in Seq(Chunk)
        /\ k.nread \in Nat
    BY ChunksAssumption DEF ClientT
  <1>3. Len(l.written) \in {a, a + 1} /\ k.nread = a + Len(k.tcp2udp_q)
    BY <1>1 DEF InStep, Backlog
  <1>4. ASSUME NEW m \in 1 .. k.nread
        PROVE  LET chunk == ChunkOf(k.udp_sock, k.serial, m)
               IN  \/ \E j \in DOMAIN k.tcp2udp_q : k.tcp2udp_q[j] = chunk
                   \/ \E j \in DOMAIN l.written : l.written[j] = chunk
    <2>1. m \in Nat /\ 1 =< m /\ m =< a + Len(k.tcp2udp_q) /\ Len(k.tcp2udp_q) \in Nat
      BY <1>2, <1>3
    <2>2. CASE m =< a
      <3>1. m \in DOMAIN l.written
        BY <1>2, <1>3, <2>1, <2>2
      <3>2. l.written[m] = ChunkOf(k.udp_sock, k.serial, m)
        BY <3>1 DEF Stream
      <3> QED
        BY <3>1, <3>2
    <2>3. CASE a < m
      <3>1. PICK j \in Nat : m = a + j
        <4>1. m - a \in Nat /\ m = a + (m - a)
          BY <2>1, <2>3
        <4> QED
          BY <4>1
      <3>2. j \in DOMAIN k.tcp2udp_q
        BY <1>2, <2>1, <2>3, <3>1
      <3>3. k.tcp2udp_q[j] = ChunkOf(k.udp_sock, k.serial, m)
        BY <1>1, <3>1, <3>2 DEF Backlog
      <3> QED
        BY <3>2, <3>3
    <2> QED
      BY <2>1, <2>2, <2>3
  <1> QED
    BY <1>4 DEF Delivered, ChunkOf

\* The two client_t of a connection, on a network that keeps the order.
LEMMA BothEnds ==
    ASSUME Known, HandInv, LinkInv, InOrder, NEW c \in Conn, stage[c] = "open",
           NEW i \in Id, remote[i] # NoClient, local[c].udp_sock = remote[i].udp_sock
    PROVE  /\ local[c] \in ClientT /\ remote[i] \in ClientT
           /\ Matched(remote[i], local[c], down, up)
           /\ Stream(local[c], remote[i].serial)
           /\ Hears(remote[i], up) =>
                  /\ Matched(local[c], remote[i], up, down)
                  /\ Stream(remote[i], local[c].serial)
  <1>1. local[c] \in ClientT /\ local[c].udp_sock = c /\ LocalEnd(local[c], down)
    BY OpenGives
  <1>2. Theirs(i, c)
    BY <1>1 DEF Theirs
  <1>3. /\ remote[i] \in ClientT /\ remote[i].id = local[c].id
        /\ Joined(local[c], remote[i], up, down)
    BY <1>2, OpenGives
  <1>4. RemoteEnd(remote[i], i, up) /\ remote[i].id = i
    BY SockOf DEF LinkInv
  <1> QED
    BY <1>1, <1>3, <1>4 DEF Joined, RemoteEnd, LocalEnd, Reads

(***************************************************************************)
(* Stop and wait: what is in flight is the head of the queue, and an ACK   *)
(* on its way is the one waited for and for the chunk the other end wrote  *)
(* last, so that client_got_ack deletes the right one unseen, whatever is  *)
(* lost or late.  Nothing is delivered twice or overtaken, and list_add    *)
(* takes no chunk for one that is queued already; of a client_t that will  *)
(* never get its HELLOACK nothing is said, which acknowledges but writes   *)
(* nothing.                                                                *)
(***************************************************************************)
THEOREM StopAndWait ==
    ASSUME MaxHello \in Nat, MaxHello =< IdMod, MaxCopies = 0, AllDiffer,
           "reorder" \notin Faults
    PROVE  Spec => []InFlightHead
  <1>1. ASSUME Known, HandInv, LinkInv, HalfInv
        PROVE  InFlightHead
    <2>1. ASSUME NEW c \in Conn, stage[c] = "open",
                 NEW i \in Id, remote[i] # NoClient, local[c].udp_sock = remote[i].udp_sock
          PROVE  /\ local[c] \in ClientT /\ remote[i] \in ClientT
                 /\ Matched(remote[i], local[c], down, up)
                 /\ Stream(local[c], remote[i].serial)
                 /\ Hears(remote[i], up) =>
                        /\ Matched(local[c], remote[i], up, down)
                        /\ Stream(remote[i], local[c].serial)
      BY <1>1, <2>1, BothEnds DEF InOrder
    <2>2. ASSUME NEW c \in Conn, stage[c] = "open"
          PROVE  /\ HeadSent(local[c], up)
                 /\ HeadAcked(local[c], down,
                              {r \in RemoteClients :
                                  r.udp_sock = local[c].udp_sock /\ Hears(r, up)})
      <3>1. Half(local[c], up, down)
        BY <1>1, <2>2 DEF HalfInv
      <3>2. /\ HeadSent(local[c], up)
            /\ \A p \in down : p.conn = local[c].udp_sock /\ p.type \in Ack =>
                   /\ IsExpectedAck(local[c], p.type)
                   /\ local[c].tcp2udp_q # <<>>
                   /\ AcksOf(local[c].udp_sock, down) # {}
        BY <3>1, HalfSays
      <3>3. ASSUME NEW p \in down, p.conn = local[c].udp_sock, p.type \in Ack,
                   NEW i \in Id, remote[i] # NoClient,
                   remote[i].udp_sock = local[c].udp_sock, Hears(remote[i], up)
            PROVE  /\ remote[i].written # <<>>
                   /\ remote[i].written[Len(remote[i].written)] = Head(local[c].tcp2udp_q)
        BY <2>1, <2>2, <3>2, <3>3, HeadWritten
      <3> QED
        BY <3>2, <3>3 DEF HeadAcked, RemoteClients
    <2>3. ASSUME NEW i \in Id, remote[i] # NoClient
          PROVE  /\ HeadSent(remote[i], down)
                 /\ HeadAcked(remote[i], up,
                              {l \in LocalClients : l.udp_sock = remote[i].udp_sock})
      <3>1. Half(remote[i], down, up)
        BY <1>1, <2>3 DEF HalfInv
      <3>2. /\ HeadSent(remote[i], down)
            /\ \A p \in up : p.conn = remote[i].udp_sock /\ p.type \in Ack =>
                   /\ IsExpectedAck(remote[i], p.type)
                   /\ remote[i].tcp2udp_q # <<>>
                   /\ AcksOf(remote[i].udp_sock, up) # {}
        BY <3>1, HalfSays
      <3>3. ASSUME NEW p \in up, p.conn = remote[i].udp_sock, p.type \in Ack,
                   NEW c \in Conn, stage[c] = "open", local[c].udp_sock = remote[i].udp_sock
            PROVE  /\ local[c].written # <<>>
                   /\ local[c].written[Len(local[c].written)] = Head(remote[i].tcp2udp_q)
        BY <2>1, <2>3, <3>2, <3>3, HeadWritten
      <3> QED
        BY <3>2, <3>3 DEF HeadAcked, LocalClients
    <2> QED
      BY <2>2, <2>3 DEF InFlightHead, LocalClients, RemoteClients
  <1>2. Init => HalfInv
    BY HalfInit
  <1>3. Known /\ HandInv /\ LinkInv /\ HalfInv /\ [Next]_vars => HalfInv'
    BY HalfStep
  <1> QED
    BY <1>1, <1>2, <1>3, LinkInvariant, PTL DEF Spec

(***************************************************************************)
(* An ACK means that the chunk was written, although it is sent first:     *)
(* while both ends of a connection are there, every chunk one of them read *)
(* is still in its queue or was written by the other, whatever is lost or  *)
(* late.  It needs what StopAndWait needs, AllDiffer above all: a chunk    *)
(* that list_add dropped was read and is nowhere.  And of what udpclient   *)
(* read it says nothing once the HELLOACK was lost.                        *)
(***************************************************************************)
THEOREM AckMeansWritten ==
    ASSUME MaxHello \in Nat, MaxHello =< IdMod, MaxCopies = 0, AllDiffer,
           "reorder" \notin Faults
    PROVE  Spec => []AckedIsWritten
  <1>1. ASSUME Known, HandInv, LinkInv
        PROVE  AckedIsWritten
    <2>1. ASSUME NEW c \in Conn, stage[c] = "open",
                 NEW i \in Id, remote[i] # NoClient, local[c].udp_sock = remote[i].udp_sock
          PROVE  /\ Delivered(remote[i], local[c])
                 /\ Hears(remote[i], up) => Delivered(local[c], remote[i])
      BY <1>1, <2>1, BothEnds, MatchedDelivers DEF InOrder
    <2> QED
      BY <2>1 DEF AckedIsWritten, LocalClients, RemoteClients
  <1> QED
    BY <1>1, LinkInvariant, PTL
=============================================================================
