----------------------------- MODULE IdsProofs ------------------------------
(***************************************************************************)
(* No accepted connection is forgotten, none is closed for another, and    *)
(* the passes leave no client with anything to do, for any number of       *)
(* connections and any network, as long as the server has not run out of   *)
(* client ids.                                                             *)
(***************************************************************************)
EXTENDS IsolationProofs

\* The places in which a connection holds an id that the server gave out.
Holds(i, c) ==
    \/ \E p \in down : p.type = "HELLOACK" /\ p.conn = c /\ p.id = i
    \/ stage[c] = "open" /\ local[c].id = i
    \/ remote[i] # NoClient /\ remote[i].udp_sock = c

OneHolder == \A i \in Id : \A c, d \in Conn : Holds(i, c) /\ Holds(i, d) => c = d

\* udpclient has sent nothing but a HELLO for the connection.
Silent(c) == stage[c] \in {"idle", "pending"}

Unused(k) == ~ k.connected /\ k.tcp2udp_q = <<>> /\ ~ WaitsForAck(k)

(***************************************************************************)
(* Until udpclient has answered a HELLOACK there is nothing to the         *)
(* connection but the handshake, so that a HELLOACK is what opens it.      *)
(***************************************************************************)
Calm ==
    /\ \A p \in up : Silent(p.conn) => p.type = "HELLO"
    /\ \A p \in down : Silent(p.conn) => p.type \in {"HELLOACK", "GOODBYE"}
    /\ \A i \in Id : remote[i] # NoClient /\ Silent(remote[i].udp_sock) => Unused(remote[i])
    /\ \A c \in Conn : stage[c] = "open" => local[c].udp2tcp_state # "WAIT_HELLO"

HoldInv == OneHolder /\ Calm /\ NoneLeaked

\* Whose step it is, it leaves every connection but c alone.
Alone(c) ==
    \A d \in Conn \ {c} :
        /\ stage'[d] = stage[d] /\ local'[d] = local[d]
        /\ \A p \in down : p.conn = d => p \in down'

\* No two open clients have, or are about to have, the same id.
LEMMA HeldApart == OneHolder => Apart
  BY DEF OneHolder, Holds, Apart, Named, IdInUse

\* Who holds an id already is the only one who may go on to hold it.
LEMMA FewerHolders ==
    ASSUME OneHolder, \A i \in Id : \A c \in Conn : Holds(i, c)' => Holds(i, c)
    PROVE  OneHolder'
  BY DEF OneHolder

-----------------------------------------------------------------------------
(* udpclient.                                                              *)

\* The connections of the messages a client_t sends.
LEMMA SentForItself ==
    ASSUME NEW k
    PROVE  /\ Goodbye(k).conn = k.udp_sock /\ Goodbye(k).type = "GOODBYE"
           /\ \A p \in DataSent(k) : p.conn = k.udp_sock /\ p.type \in Data
           /\ \A type : AckFor(k, type).conn = k.udp_sock
  BY DEF Goodbye, Packet, DataSent, DataPacket, AckFor, Data

\* A client that has the id of its connection is found by it.
LEMMA HeldDisconnects ==
    ASSUME LocalOK, HoldInv, NEW c \in Conn, Listed(c), NEW k \in ClientT, NEW sent,
           stage[c] = "open" => Holds(k.id, c),
           LocalDisconnect(c, k, sent)
    PROVE  /\ stage' = [stage EXCEPT ![c] = "closed"]
           /\ local' = [local EXCEPT ![c] = NoClient]
           /\ up' = up \union sent \union {Goodbye(k)}
  <1>1. stage[c] = "open" => ~ IdInUse(c, k.id)
    BY DEF IdInUse, HoldInv, OneHolder, Holds, ClientT
  <1>2. Found(c, k) = {c}
    BY <1>1 DEF Found, IdInUse, Listed
  <1> QED
    BY <1>2, DisconnectsItsOwn

\* And so at the end of its TCP stream.
LEMMA HeldEof ==
    ASSUME LocalOK, HoldInv, NEW c \in Conn, LocalTcpEof(c)
    PROVE  LocalGoOn(c, AtEof(local[c]), {})
  <1>1. stage[c] = "open" /\ Listed(c)
    BY DEF LocalTcpEof, Listed
  <1>2. local[c] \in ClientT
    BY <1>1 DEF LocalOK
  <1>3. Found(c, local[c]) = {c}
    BY <1>1, <1>2, HeldApart, FindsItsOwn DEF HoldInv, Named
  <1> QED
    BY <1>2, <1>3, EofGives

\* The end of every iteration of udpclient: a client it keeps has an id that
\* was its connection's, and only its connection's, so it is found by it.
LEMMA LocalOutcomeHeld ==
    ASSUME LocalSide, RemoteSide, HoldInv, UNCHANGED remoteVars, down' \subseteq down,
           NEW c \in Conn, Listed(c), \A p \in down : p.conn # c => p \in down',
           NEW k \in ClientT, k.udp_sock = c,
           NEW sent, \A p \in sent : p.conn = c,
           \/ /\ LocalGoOn(c, k, sent)
              /\ Holds(k.id, c)
              /\ k.udp2tcp_state # "WAIT_HELLO"
           \/ /\ LocalDisconnect(c, k, sent)
              /\ stage[c] = "open" => Holds(k.id, c)
    PROVE  HoldInv' /\ Alone(c)
  <1>0. Holds(k.id, c) => ~ IdInUse(c, k.id)
    BY DEF IdInUse, HoldInv, OneHolder, Holds, ClientT
  <1>1. \/ /\ Holds(k.id, c) /\ k.udp2tcp_state # "WAIT_HELLO"
           /\ stage[c] = "pending" /\ Promote(c, k, sent)
        \/ /\ Holds(k.id, c) /\ k.udp2tcp_state # "WAIT_HELLO"
           /\ stage[c] = "open" /\ stage' = stage
           /\ local' = [local EXCEPT ![c] = AfterSend(k)]
           /\ up' = up \union sent \union DataSent(k)
        \/ /\ stage' = [stage EXCEPT ![c] = "closed"]
           /\ local' = [local EXCEPT ![c] = NoClient]
           /\ up' = up \union sent \union {Goodbye(k)}
    BY HeldDisconnects DEF LocalGoOn, LocalPass, LocalSide
  <1>2. /\ stage' = [stage EXCEPT ![c] = "closed"] /\ local' = [local EXCEPT ![c] = NoClient]
        \/ /\ stage' = [stage EXCEPT ![c] = "open"]
           /\ local' = [local EXCEPT ![c] = k] \/ local' = [local EXCEPT ![c] = AfterSend(k)]
           /\ Holds(k.id, c) /\ k.udp2tcp_state # "WAIT_HELLO"
    BY <1>0, <1>1 DEF Promote, LocalSide, LocalOK
  <1>3. AfterSend(k).id = k.id /\ AfterSend(k).udp2tcp_state = k.udp2tcp_state
    BY DEF AfterSend, ClientT
  <1>4. \A d \in Conn \ {c} : stage'[d] = stage[d] /\ local'[d] = local[d]
    BY <1>2 DEF LocalSide, LocalOK
  <1>5. /\ stage'[c] \in {"open", "closed"}
        /\ stage'[c] = "open" =>
              /\ local'[c].id = k.id /\ Holds(k.id, c)
              /\ local'[c].udp2tcp_state # "WAIT_HELLO"
    BY <1>2, <1>3 DEF LocalSide, LocalOK
  <1>6. up' \subseteq up \union sent \union {Goodbye(k)} \union DataSent(k)
    BY <1>1 DEF LocalGoOn, LocalPass, Promote
  <1>7. \A p \in up' : p \in up \/ p.conn = c
    BY <1>6, SentForItself
  <1>8. OneHolder'
    BY <1>4, <1>5, FewerHolders DEF HoldInv, Holds, remoteVars
  <1>9. \A p \in up \union up' \union down : p.conn \in Conn
    BY <1>7, MessageFields DEF LocalSide, NetOK
  <1>10. \A d \in Conn : Silent(d)' => d # c /\ Silent(d)
    BY <1>4, <1>5 DEF Silent
  <1>11. Calm'
    <2>1. \A p \in up' : Silent(p.conn)' => p.type = "HELLO"
      BY <1>7, <1>9, <1>10 DEF HoldInv, Calm
    <2>2. \A p \in down' : Silent(p.conn)' => p.type \in {"HELLOACK", "GOODBYE"}
      BY <1>9, <1>10 DEF HoldInv, Calm
    <2>3. ASSUME NEW i \in Id, remote'[i] # NoClient, Silent(remote[i].udp_sock)'
          PROVE  Unused(remote'[i])
      <3>1. remote[i] # NoClient /\ remote'[i] = remote[i] /\ remote[i].udp_sock \in Conn
        BY <2>3, RemoteClient DEF RemoteSide, remoteVars, ClientT
      <3> QED
        BY <1>10, <2>3, <3>1 DEF HoldInv, Calm
    <2>4. \A d \in Conn : stage'[d] = "open" => local'[d].udp2tcp_state # "WAIT_HELLO"
      BY <1>4, <1>5 DEF HoldInv, Calm
    <2> QED
      BY <2>1, <2>2, <2>3, <2>4 DEF Calm, Unused, remoteVars
  <1>12. NoneLeaked'
    BY <1>4, <1>5 DEF HoldInv, NoneLeaked
  <1> QED
    BY <1>4, <1>8, <1>11, <1>12 DEF HoldInv, Alone

LEMMA AcceptHeld ==
    ASSUME LocalSide, RemoteSide, HoldInv, UNCHANGED remoteVars, NEW c \in Conn, Accept(c)
    PROVE  HoldInv' /\ Alone(c)
  <1>1. /\ stage[c] = "idle"
        /\ stage' = [stage EXCEPT ![c] = "pending"]
        /\ \E k : local' = [local EXCEPT ![c] = k]
        /\ up' = up \union {Packet(c, 0, "HELLO")}
        /\ down' = down
    BY DEF Accept
  <1>2. \A d \in Conn : Silent(d)' <=> Silent(d)
    BY <1>1 DEF Silent, LocalSide, LocalOK
  <1>3. \A d \in Conn : stage'[d] = "open" => stage[d] = "open" /\ local'[d] = local[d]
    BY <1>1 DEF LocalSide, LocalOK
  <1>4. OneHolder'
    BY <1>1, <1>3, FewerHolders DEF HoldInv, Holds, remoteVars
  <1>5. Packet(c, 0, "HELLO").type = "HELLO"
    BY DEF Packet
  <1>6. \A p \in up \union down : p.conn \in Conn
    BY MessageFields DEF LocalSide, NetOK
  <1>7. \A i \in Id : remote[i] # NoClient => remote[i].udp_sock \in Conn
    BY RemoteClient DEF RemoteSide, ClientT
  <1>8. Calm'
    BY <1>1, <1>2, <1>3, <1>5, <1>6, <1>7 DEF HoldInv, Calm, Unused, remoteVars
  <1>9. NoneLeaked'
    BY <1>1 DEF HoldInv, NoneLeaked, LocalSide, LocalOK
  <1> QED
    BY <1>1, <1>4, <1>8, <1>9 DEF HoldInv, Alone, LocalSide, LocalOK

LEMMA LocalReceiveHeld ==
    ASSUME LocalSide, RemoteSide, OwnInv, HoldInv, UNCHANGED remoteVars,
           NEW c \in Conn, LocalReceive(c)
    PROVE  HoldInv' /\ Alone(c)
  <1>1. PICK p \in down :
            \/ LocalRecvGoodbye(c, p)
            \/ LocalRecvHelloAck(c, p)
            \/ LocalRecvData(c, p)
            \/ LocalRecvAck(c, p)
    BY DEF LocalReceive
  <1>2. LocalRecv(c, p)
    BY <1>1 DEF LocalRecvGoodbye, LocalRecvHelloAck, LocalRecvData, LocalRecvAck
  <1>3. /\ p \in Message /\ Listed(c) /\ p.conn = c
        /\ down' \subseteq down /\ \A q \in down : q.conn # c => q \in down'
    BY <1>2, LocalRecvGives DEF LocalSide, LocalRecv, Deliver
  <1> DEFINE k == local[c]
  <1>4. k \in ClientT /\ k.udp_sock = c /\ Steady(k)
    BY <1>3, ListedClient DEF LocalSide
  <1>5. p.id \in Id /\ (p.type \in Data => p.chunk \in Chunk)
    BY <1>3, MessageFields
  <1>0. stage[c] = "open" => Holds(k.id, c)
    BY DEF Holds
  <1>6. p.type \in Data \union Ack =>
            stage[c] = "open" /\ Holds(k.id, c) /\ k.udp2tcp_state # "WAIT_HELLO"
    BY <1>3 DEF HoldInv, Calm, Silent, Listed, Holds, Data, Ack
  <1>7. LocalRecvGoodbye(c, p) => HoldInv' /\ Alone(c)
    <2>1. LocalRecvGoodbye(c, p) => LocalDisconnect(c, k, {})
      BY DEF LocalRecvGoodbye
    <2> QED
      BY <1>0, <1>3, <1>4, <2>1, LocalOutcomeHeld
  <1>8. LocalRecvHelloAck(c, p) => HoldInv' /\ Alone(c)
    <2> SUFFICES ASSUME LocalRecvHelloAck(c, p)
                 PROVE  HoldInv' /\ Alone(c)
      OBVIOUS
    <2> DEFINE l == [client_got_helloack(k) EXCEPT !.id = p.id]
               ack == {Packet(c, p.id, "HELLOACK")}
    <2>1. l \in ClientT /\ l.udp_sock = c /\ l.id = p.id
      BY <1>4, <1>5, GotHelloAck, Updates DEF SameName, ClientT
    <2>2. l.udp2tcp_state # "WAIT_HELLO"
      BY <1>4 DEF client_got_helloack, ClientT
    <2>3. Holds(p.id, c)
      BY <1>3 DEF LocalRecvHelloAck, Holds
    <2>4. LocalGoOn(c, l, ack)
      BY DEF LocalRecvHelloAck
    <2>5. \A q \in ack : q.conn = c
      BY DEF Packet
    <2> HIDE DEF l, ack
    <2> QED
      BY <1>3, <2>1, <2>2, <2>3, <2>4, <2>5, LocalOutcomeHeld
  <1>9. LocalRecvData(c, p) => HoldInv' /\ Alone(c)
    <2> SUFFICES ASSUME LocalRecvData(c, p)
                 PROVE  HoldInv' /\ Alone(c)
      OBVIOUS
    <2> DEFINE l == AfterWrite(k, p.chunk)
               f == AfterFailedWrite(k)
               ack == {AckFor(k, p.type)}
    <2>1. p.type \in Data
      BY DEF LocalRecvData
    <2>2. l \in ClientT /\ l.id = k.id /\ l.udp_sock = c
      BY <1>4, <1>5, <2>1, Write DEF SameName
    <2>3. l.udp2tcp_state # "WAIT_HELLO"
      BY <1>4, <1>6, <2>1 DEF AfterWrite, ClientT
    <2>4. \/ LocalGoOn(c, k, ack)
          \/ LocalGoOn(c, l, ack)
          \/ LocalDisconnect(c, f, ack)
      BY DEF LocalRecvData
    <2>5. \A q \in ack : q.conn = c
      BY <1>4, SentForItself
    <2>6. f \in ClientT /\ f.id = k.id /\ f.udp_sock = c
      BY <1>4, FailedWrite DEF SameName
    <2> HIDE DEF l, f, ack
    <2>7. Holds(k.id, c) /\ k.udp2tcp_state # "WAIT_HELLO"
      BY <1>6, <2>1
    <2>8. CASE LocalDisconnect(c, f, ack)
      BY <1>3, <2>5, <2>6, <2>7, <2>8, LocalOutcomeHeld
    <2>9. CASE LocalGoOn(c, k, ack) \/ LocalGoOn(c, l, ack)
      BY <1>3, <1>4, <2>2, <2>3, <2>5, <2>7, <2>9, LocalOutcomeHeld
    <2> QED
      BY <2>4, <2>8, <2>9
  <1>10. LocalRecvAck(c, p) => HoldInv' /\ Alone(c)
    <2> DEFINE l == client_got_ack(k, p.type)
    <2>1. l \in ClientT /\ l.id = k.id /\ l.udp_sock = c
      BY <1>4, GotAck DEF SameName
    <2>2. l.udp2tcp_state = k.udp2tcp_state
      BY <1>4 DEF client_got_ack, ClientT
    <2>3. LocalRecvAck(c, p) =>
              /\ p.type \in Ack
              /\ LocalGoOn(c, l, {}) \/ LocalDisconnect(c, k, {})
      BY DEF LocalRecvAck
    <2> HIDE DEF l
    <2> QED
      BY <1>3, <1>4, <1>6, <2>1, <2>2, <2>3, LocalOutcomeHeld
  <1> QED
    BY <1>1, <1>7, <1>8, <1>9, <1>10

\* Steps that change no record and only take messages away.
LEMMA NothingHeld ==
    ASSUME HoldInv, UNCHANGED <<stage, local, remote>>, up' \subseteq up, down' \subseteq down
    PROVE  HoldInv'
  <1>1. \A i \in Id : \A c \in Conn : Holds(i, c)' => Holds(i, c)
    BY DEF Holds
  <1>2. OneHolder'
    BY <1>1, FewerHolders DEF HoldInv
  <1>3. Calm' /\ NoneLeaked'
    BY DEF HoldInv, Calm, Silent, Unused, NoneLeaked
  <1> QED
    BY <1>2, <1>3 DEF HoldInv

LEMMA LocalTcpHeld ==
    ASSUME LocalSide, RemoteSide, HoldInv, UNCHANGED remoteVars,
           NEW c \in Conn, LocalTcp(c) \/ LocalCheck(c)
    PROVE  HoldInv' /\ Alone(c)
  <1> DEFINE k == local[c]
  <1>1. stage[c] = "open" /\ down' = down
    BY DEF LocalTcp, LocalTcpData, LocalTcpEof, LocalTcpError, LocalCheck
  <1>2. k \in ClientT /\ k.udp_sock = c /\ Steady(k) /\ Listed(c)
    BY <1>1, ListedClient DEF LocalSide, Listed
  <1>3. Holds(k.id, c) /\ k.udp2tcp_state # "WAIT_HELLO"
    BY <1>1 DEF HoldInv, Calm, Holds
  <1>4. ASSUME NEW l \in ClientT, SameName(l, k), l.udp2tcp_state = k.udp2tcp_state,
               LocalGoOn(c, l, {}) \/ LocalDisconnect(c, l, {})
        PROVE  HoldInv' /\ Alone(c)
    BY <1>1, <1>2, <1>3, <1>4, LocalOutcomeHeld DEF SameName
  <1>5. LocalTcpData(c) => HoldInv' /\ Alone(c)
    <2> SUFFICES ASSUME LocalTcpData(c)
                 PROVE  HoldInv' /\ Alone(c)
      OBVIOUS
    <2>1. PICK l \in client_recv_tcp_data(k) : LocalGoOn(c, l, {})
      BY DEF LocalTcpData
    <2>2. l \in ClientT /\ SameName(l, k)
      BY <1>2, RecvTcp, LocalMayRead
    <2>3. l.udp2tcp_state = k.udp2tcp_state
      BY <1>2 DEF client_recv_tcp_data, Queued, Dropped, ClientT
    <2> QED
      BY <1>4, <2>1, <2>2, <2>3
  <1>6. LocalTcpEof(c) => HoldInv' /\ Alone(c)
    <2>1. AtEof(k) \in ClientT /\ SameName(AtEof(k), k)
      BY <1>2, Eof
    <2>2. AtEof(k).udp2tcp_state = k.udp2tcp_state
      BY <1>2 DEF AtEof, ClientT
    <2> QED
      BY <1>4, <2>1, <2>2, HeldEof DEF LocalSide
  <1>7. LocalTcpError(c) => HoldInv' /\ Alone(c)
    BY <1>2, <1>4 DEF LocalTcpError, SameName
  <1>8. LocalCheck(c) => HoldInv' /\ Alone(c)
    <2> SUFFICES ASSUME LocalCheck(c)
                 PROVE  HoldInv' /\ Alone(c)
      OBVIOUS
    <2> DEFINE l == client_check_and_resend(k)
    <2>1. l \in ClientT /\ SameName(l, k)
      BY <1>2, Check DEF LocalCheck, TimeoutIsUp
    <2>2. l.udp2tcp_state = k.udp2tcp_state
      BY <1>2 DEF client_check_and_resend, ClientT
    <2>3. CASE LocalDisconnect(c, l, {})
      BY <1>4, <2>1, <2>2, <2>3
    <2>4. CASE local' = [local EXCEPT ![c] = l] /\ UNCHANGED <<stage, up>>
      <3>1. \A d \in Conn : stage[d] = "open" =>
                local'[d].id = local[d].id /\ local'[d].udp2tcp_state = local[d].udp2tcp_state
        BY <2>1, <2>2, <2>4 DEF LocalSide, LocalOK, SameName
      <3>2. OneHolder'
        BY <1>1, <2>4, <3>1, FewerHolders DEF HoldInv, Holds, remoteVars
      <3>3. Calm' /\ NoneLeaked'
        BY <1>1, <2>4, <3>1 DEF HoldInv, Calm, Silent, Unused, NoneLeaked, remoteVars
      <3> QED
        BY <1>1, <2>4, <3>2, <3>3 DEF HoldInv, Alone, LocalSide, LocalOK
    <2> QED
      BY <2>3, <2>4 DEF LocalCheck
  <1> QED
    BY <1>5, <1>6, <1>7, <1>8 DEF LocalTcp

LEMMA LocalNextHeld ==
    ASSUME LocalSide, RemoteSide, OwnInv, HoldInv, UNCHANGED remoteVars, LocalNext
    PROVE  HoldInv' /\ (UNCHANGED stage \/ \E c \in Conn : Alone(c))
  <1>1. ASSUME NEW p \in down, DropStray(p)
        PROVE  HoldInv' /\ UNCHANGED stage
    BY <1>1, NothingHeld DEF DropStray, localVars, remoteVars
  <1> QED
    BY <1>1, AcceptHeld, LocalReceiveHeld, LocalTcpHeld DEF LocalNext

-----------------------------------------------------------------------------
(* udpserver.                                                              *)

(***************************************************************************)
(* The end of every iteration of udpserver that is not about a HELLO: a    *)
(* client_t is still its connection's, and as unused as it has to be.      *)
(***************************************************************************)
LEMMA RemoteOutcomeHeld ==
    ASSUME LocalSide, RemoteSide, HoldInv, UNCHANGED localVars, up' \subseteq up,
           NEW i \in Id, remote[i] # NoClient,
           NEW k \in ClientT, k.udp_sock = remote[i].udp_sock,
           NEW sent, \A p \in sent : p.conn = k.udp_sock /\ p.type # "HELLOACK",
           Silent(k.udp_sock) => Unused(k) /\ sent = {},
           \/ RemotePass(i, k, sent)
           \/ RemoteDisconnect(i, k, sent)
           \/ remote' = [remote EXCEPT ![i] = k] /\ UNCHANGED down
    PROVE  HoldInv'
  <1>1. stage' = stage /\ local' = local /\ \A c : Silent(c)' <=> Silent(c)
    BY DEF localVars, Silent
  <1>2. \/ remote' = [remote EXCEPT ![i] = NoClient]
        \/ remote' = [remote EXCEPT ![i] = k]
        \/ remote' = [remote EXCEPT ![i] = AfterSend(k)]
    BY DEF RemotePass, RemoteDisconnect
  <1>3. AfterSend(k).udp_sock = k.udp_sock /\ (Unused(k) => AfterSend(k) = k)
    BY DEF AfterSend, ClientT, CanSend, Unused
  <1>4. ASSUME NEW j \in Id, remote'[j] # NoClient
        PROVE  /\ remote[j] # NoClient
               /\ remote'[j].udp_sock = remote[j].udp_sock
               /\ Silent(remote[j].udp_sock) => Unused(remote'[j])
    <2>1. CASE j = i
      BY <1>2, <1>3, <1>4, <2>1 DEF RemoteSide, RemoteOK
    <2>2. CASE j # i
      BY <1>2, <1>4, <2>2 DEF RemoteSide, RemoteOK, HoldInv, Calm
    <2> QED
      BY <2>1, <2>2
  <1>5. Unused(k) => DataSent(k) = {}
    BY DEF Unused, DataSent, CanSend
  <1>6. down' \subseteq down \union sent \union {Goodbye(k)} \union DataSent(k)
    BY DEF RemotePass, RemoteDisconnect
  <1>7. ASSUME NEW p \in down'
        PROVE  /\ p.type = "HELLOACK" => p \in down
               /\ Silent(p.conn) => p.type \in {"HELLOACK", "GOODBYE"}
    BY <1>5, <1>6, SentForItself DEF HoldInv, Calm, Data
  <1>8. OneHolder'
    BY <1>1, <1>4, <1>7, FewerHolders DEF HoldInv, Holds
  <1>9. Calm' /\ NoneLeaked'
    BY <1>1, <1>4, <1>7 DEF HoldInv, Calm, NoneLeaked, Unused
  <1> QED
    BY <1>8, <1>9 DEF HoldInv

\* A message for a client_t of the server: DATA and a HELLOACK come from its
\* own connection, which is not silent then, and an ACK nobody waits for is
\* ignored whoever sent it.
LEMMA RemoteRecvForHeld ==
    ASSUME LocalSide, RemoteSide, OwnInv, HoldInv, UNCHANGED localVars, NEW p,
           \/ RemoteRecvHelloAck(p)
           \/ RemoteRecvGoodbye(p)
           \/ RemoteRecvData(p)
           \/ RemoteRecvAck(p)
    PROVE  HoldInv'
  <1>1. RemoteRecvFor(p)
    BY DEF RemoteRecvHelloAck, RemoteRecvGoodbye, RemoteRecvData, RemoteRecvAck
  <1>2. p \in up /\ p \in Message
    BY <1>1, RemoteRecvGives DEF RemoteRecvFor, RemoteRecv, Deliver, Deliverable
  <1>3. up' \subseteq up /\ remote[p.id] # NoClient
    BY <1>1 DEF RemoteRecvFor, RemoteRecv, Deliver
  <1>4. p.id \in Id /\ (p.type \in Data => p.chunk \in Chunk)
    BY <1>2, MessageFields
  <1> DEFINE k == remote[p.id]
  <1>5. k \in ClientT /\ Steady(k) /\ (Silent(k.udp_sock) => Unused(k))
    BY <1>3, <1>4, RemoteClient DEF RemoteSide, HoldInv, Calm
  <1>6. p.type \in Data \union {"HELLOACK"} => ~ Silent(k.udp_sock)
    BY <1>2, <1>3 DEF OwnInv, OwnUp, Owned, HoldInv, Calm, Data
  <1>7. RemoteRecvHelloAck(p) => HoldInv'
    <2> DEFINE l == [client_got_helloack(k) EXCEPT !.connected = TRUE]
    <2>1. l \in ClientT /\ l.udp_sock = k.udp_sock
      BY <1>4, <1>5, GotHelloAck, Updates DEF SameName
    <2>2. RemoteRecvHelloAck(p) =>
              /\ p.type = "HELLOACK"
              /\ RemoteDisconnect(p.id, k, {}) \/ RemotePass(p.id, l, {})
      BY DEF RemoteRecvHelloAck
    <2> HIDE DEF l
    <2> QED
      BY <1>3, <1>4, <1>5, <1>6, <2>1, <2>2, RemoteOutcomeHeld
  <1>8. RemoteRecvGoodbye(p) => HoldInv'
    BY <1>3, <1>4, <1>5, RemoteOutcomeHeld DEF RemoteRecvGoodbye
  <1>9. RemoteRecvData(p) => HoldInv'
    <2> SUFFICES ASSUME RemoteRecvData(p)
                 PROVE  HoldInv'
      OBVIOUS
    <2> DEFINE l == AfterWrite(k, p.chunk)
               ack == {AckFor(k, p.type)}
    <2>1. p.type \in Data
      BY DEF RemoteRecvData
    <2>2. l \in ClientT /\ l.udp_sock = k.udp_sock
      BY <1>4, <1>5, <2>1, Write DEF SameName
    <2>3. \A q \in ack : q.conn = k.udp_sock /\ q.type # "HELLOACK"
      BY DEF AckFor, Packet
    <2>4. \/ RemotePass(p.id, k, ack)
          \/ RemotePass(p.id, l, ack)
          \/ RemoteDisconnect(p.id, k, ack)
      BY DEF RemoteRecvData
    <2> HIDE DEF l, ack
    <2> QED
      BY <1>3, <1>4, <1>5, <1>6, <2>1, <2>2, <2>3, <2>4, RemoteOutcomeHeld
  <1>10. RemoteRecvAck(p) => HoldInv'
    <2> DEFINE l == client_got_ack(k, p.type)
    <2>1. l \in ClientT /\ l.udp_sock = k.udp_sock
      BY <1>5, GotAck DEF SameName
    <2>2. Unused(k) => l = k
      BY DEF Unused, client_got_ack, IsExpectedAck, WaitsForAck
    <2>3. RemoteRecvAck(p) => RemotePass(p.id, l, {})
      BY DEF RemoteRecvAck
    <2> HIDE DEF l
    <2> QED
      BY <1>3, <1>4, <1>5, <2>1, <2>2, <2>3, RemoteOutcomeHeld
  <1> QED
    BY <1>7, <1>8, <1>9, <1>10

\* A HELLO.  As the counter has not wrapped, nobody held the id before.
LEMMA RemoteRecvHelloHeld ==
    ASSUME MaxHello \in Nat, MaxHello =< IdMod,
           LocalSide, RemoteSide, OwnInv, HoldInv, UNCHANGED localVars,
           NEW p, RemoteRecvHello(p)
    PROVE  HoldInv'
  <1>1. up' \subseteq up /\ p \in Message
    BY RemoteRecvGives DEF RemoteRecvHello, RemoteRecv, Deliver
  <1>2. p.conn \in Conn
    BY <1>1, MessageFields
  <1>3. CASE UNCHANGED <<remote, down>>
    BY <1>1, <1>3, NothingHeld DEF localVars
  <1>4. CASE ~ UNCHANGED <<remote, down>>
    <2> DEFINE c == p.conn
               new == client_create(next_client_id, c, FALSE, next_client_id)
    <2>1. /\ next_client_id < MaxHello
          /\ remote' = [remote EXCEPT ![NewId] = Entry(c)]
          /\ down' = down \union {HelloReply(c)}
      BY <1>4 DEF RemoteRecvHello
    <2>2. next_client_id \in 1 .. (IdMod - 1)
      BY <2>1, IdModAssumption DEF OwnInv, IdsLeft
    <2>3. NewId = next_client_id /\ NewId \in Id
      BY <2>2, IdModAssumption DEF NewId, Id
    <2>4. remote[NewId] = NoClient
      BY <2>2, <2>3 DEF OwnInv, OwnRemote
    <2>5. Entry(c) = new
      BY <2>3, <2>4 DEF Entry
    <2>6. new.udp_sock = c /\ new.id = NewId /\ Unused(new)
      BY <2>3 DEF client_create, Unused, WaitsForAck
    <2>7. /\ HelloReply(c).conn = c
          /\ HelloReply(c).type \in {"HELLOACK", "GOODBYE"}
          /\ HelloReply(c).type = "HELLOACK" => HelloReply(c).id = NewId
      BY <2>5, <2>6 DEF HelloReply, Packet
    <2>8. remote' = [remote EXCEPT ![NewId] = new]
      BY <2>1, <2>5
    <2> HIDE DEF new
    <2>9. \A j \in Id : remote'[j] = IF j = NewId THEN new ELSE remote[j]
      BY <2>8 DEF RemoteSide, RemoteOK
    <2>10. stage' = stage /\ local' = local /\ \A d : Silent(d)' <=> Silent(d)
      BY DEF localVars, Silent
    <2>11. \A d \in Conn : ~ Holds(NewId, d)
      <3>1. \A d \in Conn : ~ Owned(NewId, d)
        BY <2>2, <2>3 DEF Owned
      <3> QED
        BY <2>4, <3>1 DEF OwnInv, OwnDown, OwnLocal, Mine, Listed, HoldInv, Calm, Holds
    <2>12. \A j \in Id : \A d \in Conn :
               Holds(j, d)' => Holds(j, d) \/ (j = NewId /\ d = c)
      BY <2>1, <2>6, <2>7, <2>9, <2>10 DEF Holds
    <2>13. OneHolder'
      BY <2>11, <2>12 DEF HoldInv, OneHolder
    <2>14. Calm'
      <3>1. \A q \in down' : Silent(q.conn) => q.type \in {"HELLOACK", "GOODBYE"}
        BY <2>1, <2>7 DEF HoldInv, Calm
      <3>2. \A j \in Id : remote'[j] # NoClient /\ Silent(remote'[j].udp_sock)
                => Unused(remote'[j])
        BY <2>6, <2>9 DEF HoldInv, Calm
      <3> QED
        BY <1>1, <2>10, <3>1, <3>2 DEF HoldInv, Calm, Unused
    <2>15. NoneLeaked'
      BY <2>10 DEF HoldInv, NoneLeaked
    <2> QED
      BY <2>13, <2>14, <2>15 DEF HoldInv
  <1> QED
    BY <1>3, <1>4

LEMMA RemoteTcpHeld ==
    ASSUME LocalSide, RemoteSide, OwnInv, HoldInv, UNCHANGED localVars, NEW i \in Id,
           RemoteTcp(i) \/ RemoteCheck(i) \/ RemoteTimeout(i)
    PROVE  HoldInv'
  <1> DEFINE k == remote[i]
  <1>1. k # NoClient /\ up' = up
    BY DEF RemoteTcp, RemoteTcpData, RemoteTcpEof, RemoteTcpError, RemoteCheck,
           RemoteTimeout
  <1>2. k \in ClientT /\ Steady(k) /\ (Silent(k.udp_sock) => Unused(k))
    BY <1>1, RemoteClient DEF RemoteSide, HoldInv, Calm
  <1>3. ASSUME NEW l \in ClientT, SameName(l, k), Silent(k.udp_sock) => Unused(l),
               \/ RemotePass(i, l, {})
               \/ RemoteDisconnect(i, l, {})
               \/ remote' = [remote EXCEPT ![i] = l] /\ UNCHANGED down
        PROVE  HoldInv'
    BY <1>1, <1>3, RemoteOutcomeHeld DEF SameName
  <1>4. RemoteTcpData(i) => HoldInv'
    <2> SUFFICES ASSUME RemoteTcpData(i)
                 PROVE  HoldInv'
      OBVIOUS
    <2>1. PICK l \in client_recv_tcp_data(k) : RemotePass(i, l, {})
      BY DEF RemoteTcpData
    <2>2. l \in ClientT /\ SameName(l, k)
      BY <1>2, RecvTcp DEF RemoteTcpData
    <2>3. ~ Silent(k.udp_sock)
      BY <1>2 DEF RemoteTcpData, Unused
    <2> QED
      BY <1>3, <2>1, <2>2, <2>3
  <1>5. RemoteTcpEof(i) => HoldInv'
    <2>1. AtEof(k) \in ClientT /\ SameName(AtEof(k), k)
      BY <1>2, Eof
    <2> QED
      BY <1>2, <1>3, <2>1 DEF RemoteTcpEof, Unused
  <1>6. RemoteTcpError(i) => HoldInv'
    BY <1>2, <1>3 DEF RemoteTcpError, SameName
  <1>7. RemoteCheck(i) => HoldInv'
    <2> SUFFICES ASSUME RemoteCheck(i)
                 PROVE  HoldInv'
      OBVIOUS
    <2> DEFINE l == client_check_and_resend(k)
    <2>1. WaitsForAck(k) /\ ~ Silent(k.udp_sock)
      BY <1>2 DEF RemoteCheck, TimeoutIsUp, Unused
    <2>2. l \in ClientT /\ SameName(l, k)
      BY <1>2, <2>1, Check
    <2>3. \/ RemoteDisconnect(i, l, {})
          \/ remote' = [remote EXCEPT ![i] = l] /\ UNCHANGED down
      BY DEF RemoteCheck
    <2> HIDE DEF l
    <2> QED
      BY <1>3, <2>1, <2>2, <2>3
  <1>8. RemoteTimeout(i) => HoldInv'
    <2>1. i # 0
      BY <1>1 DEF OwnInv, OwnRemote
    <2> QED
      BY <1>2, <1>3, <2>1 DEF RemoteTimeout, SameName
  <1> QED
    BY <1>4, <1>5, <1>6, <1>7, <1>8 DEF RemoteTcp

LEMMA RemoteNextHeld ==
    ASSUME MaxHello \in Nat, MaxHello =< IdMod,
           LocalSide, RemoteSide, OwnInv, HoldInv, UNCHANGED localVars, RemoteNext
    PROVE  HoldInv'
  <1>1. ASSUME NEW c \in Conn, RemoteReceive(c)
        PROVE  HoldInv'
    <2>1. ASSUME NEW p, RemoteIgnore(p)
          PROVE  HoldInv'
      BY <2>1, NothingHeld DEF RemoteIgnore, RemoteRecv, Deliver, localVars
    <2> QED
      BY <1>1, <2>1, RemoteRecvHelloHeld, RemoteRecvForHeld DEF RemoteReceive
  <1> QED
    BY <1>1, RemoteTcpHeld DEF RemoteNext, KeepaliveRunsOut

-----------------------------------------------------------------------------
LEMMA HoldInit == Init => HoldInv /\ LocalSettled
  BY DEF Init, NetInit, LocalInit, RemoteInit, HoldInv, OneHolder, Holds, Calm, NoneLeaked,
         LocalSettled

LEMMA HoldStep ==
    ASSUME MaxHello \in Nat, MaxHello =< IdMod
    PROVE  IInv /\ OwnInv /\ HoldInv /\ [Next]_vars => HoldInv'
  <1> SUFFICES ASSUME IInv, OwnInv, HoldInv, [Next]_vars PROVE HoldInv'
    OBVIOUS
  <1>1. LocalSide /\ RemoteSide
    BY DEF IInv, LocalSide, RemoteSide, CountersOK
  <1>2. CASE LocalNext /\ UNCHANGED remoteVars
    BY <1>1, <1>2, LocalNextHeld
  <1>3. CASE RemoteNext /\ UNCHANGED localVars
    BY <1>1, <1>3, RemoteNextHeld
  <1>4. CASE (LoseUp \/ LoseDown) /\ UNCHANGED <<localVars, remoteVars>>
    BY <1>4, NothingHeld DEF LoseUp, LoseDown, localVars, remoteVars
  <1>5. CASE UNCHANGED vars
    BY <1>5, NothingHeld DEF vars, netVars, localVars, remoteVars
  <1> QED
    BY <1>2, <1>3, <1>4, <1>5 DEF Next

(***************************************************************************)
(* Within the ids the lookup by id always finds the right client, and that *)
(* is why the passes settle the clients of udpclient, too (StepSettled).   *)
(***************************************************************************)
IdsInv == IInv /\ OwnInv /\ HoldInv /\ LocalSettled

LEMMA HoldInvariant ==
    ASSUME MaxHello \in Nat, MaxHello =< IdMod
    PROVE  Spec => []IdsInv
  <1>1. Init => IdsInv
    BY InitIInv, OwnInit, HoldInit DEF IdsInv
  <1>2. IdsInv /\ [Next]_vars => IdsInv'
    BY StepIInv, OwnStep, HoldStep, StepSettled, HeldApart DEF IdsInv, HoldInv
  <1> QED
    BY <1>1, <1>2, PTL DEF Spec

(***************************************************************************)
(* Promote never comes upon an id that is in the list: no accepted         *)
(* connection is forgotten with its sockets open, for as many HELLOs as    *)
(* there are ids, however often and in whatever order messages arrive.     *)
(***************************************************************************)
THEOREM NoneForgotten ==
    ASSUME MaxHello \in Nat, MaxHello =< IdMod
    PROVE  Spec => []NoneLeaked
  BY HoldInvariant, PTL DEF IdsInv, HoldInv

(***************************************************************************)
(* disconnect_and_remove_client of udpclient, which looks the client up by *)
(* its id, closes the connection it is called for and no other, for as     *)
(* many HELLOs as there are ids, however often and in whatever order       *)
(* messages arrive: an open client may then be given another id, but never *)
(* that of another one.                                                    *)
(***************************************************************************)
THEOREM EachClosesItsOwn ==
    ASSUME MaxHello \in Nat, MaxHello =< IdMod
    PROVE  Spec => ClosesItsOwn
  <1>1. ASSUME IdsInv, [Next]_vars,
               NEW c \in Conn, NEW d \in Conn, c # d, Listed(d), stage'[d] = "closed"
        PROVE  /\ stage'[c] = stage[c] /\ local'[c] = local[c]
               /\ \A p \in down : p.conn = c => p \in down'
    <2>1. stage' # stage
      BY <1>1 DEF Listed
    <2>2. LocalNext /\ UNCHANGED remoteVars
      BY <1>1, <2>1 DEF Next, vars, localVars
    <2>3. LocalSide /\ RemoteSide /\ OwnInv /\ HoldInv
      BY <1>1 DEF IdsInv, IInv, LocalSide, RemoteSide, CountersOK
    <2>4. PICK e \in Conn : Alone(e)
      BY <2>1, <2>2, <2>3, LocalNextHeld
    <2>5. d = e
      BY <1>1, <2>4 DEF Alone, Listed
    <2> QED
      BY <1>1, <2>4, <2>5 DEF Alone
  <1> DEFINE Own ==
               \A c, d \in Conn :
                  c # d /\ Listed(d) /\ stage'[d] = "closed"
                      => /\ stage'[c] = stage[c] /\ local'[c] = local[c]
                         /\ \A p \in down : p.conn = c => p \in down'
  <1>2. IdsInv /\ [Next]_vars => [Own]_vars
    BY <1>1
  <1>3. Spec => [][Own]_vars
    <2> HIDE DEF Own
    <2> QED
      BY <1>2, HoldInvariant, PTL DEF Spec
  <1> QED
    BY <1>3 DEF ClosesItsOwn

(***************************************************************************)
(* The pass at the end of every iteration leaves no client with anything   *)
(* to send and none that should go, so that an iteration which skips it    *)
(* loses nothing, for as many HELLOs as there are ids.                     *)
(***************************************************************************)
THEOREM PassesSuffice ==
    ASSUME MaxHello \in Nat, MaxHello =< IdMod
    PROVE  Spec => []Quiescent
  <1>1. IdsInv => Quiescent
    BY SettledImplies DEF IdsInv
  <1> QED
    BY <1>1, HoldInvariant, PTL
=============================================================================
