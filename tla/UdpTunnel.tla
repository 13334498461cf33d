----------------------------- MODULE UdpTunnel -----------------------------
(***************************************************************************)
(* One udpclient and one udpserver with the UDP network between them.      *)
(*                                                                         *)
(* Neither program is restarted, and neither gives up: udpclient serves    *)
(* the connections of Conn, each once.                                     *)
(***************************************************************************)
EXTENDS UdpClient, UdpServer

vars == <<netVars, localVars, remoteVars>>

TypeOK ==
    /\ up \subseteq Message
    /\ down \subseteq Message
    /\ copies \in Nat
    /\ LocalTypeOK
    /\ RemoteTypeOK

Init ==
    /\ NetInit
    /\ LocalInit
    /\ RemoteInit

(***************************************************************************)
(* udpclient sends a KEEPALIVE a minute for every open connection, and     *)
(* udpserver waits for seven minutes, long after any packet still in       *)
(* flight has arrived or the handshake is over.  It may time out early     *)
(* only when KEEPALIVEs are lost, or for a client that was denied, whose   *)
(* keepalive time was never set.  A KEEPALIVE with id 0 is refused.        *)
(***************************************************************************)
KeptAlive(i) ==
    /\ "loss" \notin Faults
    /\ Verdict(remote[i].udp_sock) # "deny"
    /\ \/ i # 0 /\ \E c \in Conn : stage[c] = "open" /\ local[c].id = i
       \/ ~ Quiet(remote[i].udp_sock)

KeepaliveRunsOut(i) ==
    /\ remote[i] # NoClient
    /\ ~ KeptAlive(i)
    /\ RemoteTimeout(i)

LocalNext ==
    \/ \E c \in Conn :
          Accept(c) \/ LocalReceive(c) \/ LocalTcp(c) \/ LocalCheck(c)
    \/ \E p \in down : DropStray(p)

RemoteNext ==
    \/ \E c \in Conn : RemoteReceive(c)
    \/ \E i \in Id : RemoteTcp(i) \/ RemoteCheck(i) \/ KeepaliveRunsOut(i)

Next ==
    \/ LocalNext /\ UNCHANGED remoteVars
    \/ RemoteNext /\ UNCHANGED localVars
    \/ (LoseUp \/ LoseDown) /\ UNCHANGED <<localVars, remoteVars>>

(***************************************************************************)
(* Both loops run for ever and look at every ready socket and at every     *)
(* client in turn, and the network delivers what it does not lose.  Nobody *)
(* is obliged to open a connection, to send data or to close.              *)
(***************************************************************************)
Fairness ==
    /\ \A c \in Conn :
          /\ WF_vars(LocalReceive(c) /\ UNCHANGED remoteVars)
          /\ WF_vars(RemoteReceive(c) /\ UNCHANGED localVars)
          /\ WF_vars(LocalCheck(c) /\ UNCHANGED remoteVars)
    /\ \A i \in Id :
          /\ WF_vars(RemoteCheck(i) /\ UNCHANGED localVars)
          /\ WF_vars(KeepaliveRunsOut(i) /\ UNCHANGED localVars)
    /\ WF_vars((\E p \in down : DropStray(p)) /\ UNCHANGED remoteVars)

Spec == Init /\ [][Next]_vars

FairSpec == Spec /\ Fairness

-----------------------------------------------------------------------------
\* The clients in the two lists the passes of the loops go over.
LocalClients == {local[c] : c \in {d \in Conn : stage[d] = "open"}}
RemoteClients == {remote[i] : i \in {j \in Id : remote[j] # NoClient}}

\* The client_t of udpserver is past its handshake, or will be when it gets
\* what is on its way; if not it acknowledges DATA and writes nothing.
Hears(r, net) ==
    \/ r.udp2tcp_state # "WAIT_HELLO"
    \/ \E p \in net : p.type = "HELLOACK" /\ p.conn = r.udp_sock

(***************************************************************************)
(* Stop and wait: client_got_ack deletes the head of the queue unseen, so  *)
(* the chunk in flight has to be the head until its ACK is in, and an ACK  *)
(* in flight has to be the awaited one and for the head, which is then the *)
(* last chunk the other end has written.  net is what k has sent and back  *)
(* what comes to it, and peers are the client_t at the other end.          *)
(***************************************************************************)
HeadSent(k, net) ==
    \A p \in net :
        p.conn = k.udp_sock /\ p.type \in Data
            => WaitsForAck(k) /\ k.tcp2udp_q # <<>> /\ p.chunk = Head(k.tcp2udp_q)

HeadAcked(k, back, peers) ==
    \A p \in back :
        p.conn = k.udp_sock /\ p.type \in Ack
            => /\ IsExpectedAck(k, p.type)
               /\ k.tcp2udp_q # <<>>
               /\ \A m \in peers :
                     m.written # <<>> /\ m.written[Len(m.written)] = Head(k.tcp2udp_q)

InFlightHead ==
    /\ \A l \in LocalClients :
          /\ HeadSent(l, up)
          /\ HeadAcked(l, down,
                       {r \in RemoteClients : r.udp_sock = l.udp_sock /\ Hears(r, up)})
    /\ \A r \in RemoteClients :
          /\ HeadSent(r, down)
          /\ HeadAcked(r, up, {l \in LocalClients : l.udp_sock = r.udp_sock})

(***************************************************************************)
(* Between two iterations of a loop no client has a chunk it could send,   *)
(* and none that is finished is still in the list: what the passes at the  *)
(* end of an iteration promise, although an iteration in which no socket   *)
(* was ready skips them ("if(num_fds == 0) continue").                     *)
(***************************************************************************)
Quiescent == \A k \in LocalClients \union RemoteClients : Settled(k)

(***************************************************************************)
(* What is written to a TCP connection is a prefix of what one end of the  *)
(* same tunnel connection read from its own: nothing missing, nothing      *)
(* twice, nothing out of order, nothing from another connection.           *)
(***************************************************************************)
IsPrefixOfOneStream(written, c) ==
    \A j \in DOMAIN written :
        written[j] = [conn |-> c, serial |-> written[1].serial, n |-> j]

LocalStream ==
    \A k \in LocalClients : IsPrefixOfOneStream(k.written, k.udp_sock)

RemoteStream ==
    \A k \in RemoteClients : IsPrefixOfOneStream(k.written, k.udp_sock)

(***************************************************************************)
(* The bytes of one TCP connection never come out of another, whatever     *)
(* happens to their order.                                                 *)
(***************************************************************************)
Isolation ==
    \A k \in LocalClients \union RemoteClients :
        \A j \in DOMAIN k.written : k.written[j].conn = k.udp_sock

(***************************************************************************)
(* An ACK means that the chunk was written, although it is sent before the *)
(* write: while both ends of a connection are there, every chunk one of    *)
(* them read is still in its queue or was written by the other.  The one   *)
(* case in which udpserver acknowledges what it throws away is that the    *)
(* HELLOACK of udpclient was lost: the client_t has not heard of it then,  *)
(* and never will.                                                         *)
(***************************************************************************)
Delivered(from, to) ==
    \A m \in 1 .. from.nread :
        LET chunk == [conn |-> from.udp_sock, serial |-> from.serial, n |-> m]
        IN  \/ \E j \in DOMAIN from.tcp2udp_q : from.tcp2udp_q[j] = chunk
            \/ \E j \in DOMAIN to.written : to.written[j] = chunk

AckedIsWritten ==
    \A l \in LocalClients, r \in RemoteClients :
        l.udp_sock = r.udp_sock /\ l.id = r.id
            => Delivered(r, l) /\ (Hears(r, up) => Delivered(l, r))

(***************************************************************************)
(* The server dispatches on the id in the header alone.  Every message on  *)
(* its way up that it will accept for some client comes from the           *)
(* connection that this client was created for.                            *)
(***************************************************************************)
OnlyOwnMessages ==
    \A p \in up :
        p.type # "HELLO" /\ p.id # 0 /\ remote[p.id] # NoClient
            => remote[p.id].udp_sock = p.conn

(***************************************************************************)
(* A HELLO that the access control list denies, as the README explains the *)
(* list, never leads to a connection to the TCP server, though its         *)
(* client_t stays in the list for a while.                                 *)
(***************************************************************************)
DeniedNeverConnected ==
    \A k \in RemoteClients :
        Denies(Acl, Address[k.udp_sock]) => ~ k.connected /\ k.written = <<>>

\* No accepted connection is forgotten with its sockets open: its place in
\* the list is never taken when the HELLOACK arrives.
NoneLeaked == \A c \in Conn : stage[c] # "leaked"

-----------------------------------------------------------------------------
(***************************************************************************)
(* disconnect_and_remove_client, which finds by its id the client to close *)
(* in a list, closes no other connection than the one the event was about, *)
(* even after the ids have wrapped around: a step that closes a connection *)
(* leaves the others, and the messages for them, alone.                    *)
(***************************************************************************)
ClosesItsOwn ==
    [][\A c, d \in Conn :
          c # d /\ Listed(d) /\ stage'[d] = "closed"
              => /\ stage'[c] = stage[c] /\ local'[c] = local[c]
                 /\ \A p \in down : p.conn = c => p \in down']_vars

(***************************************************************************)
(* When the resend timeout is up and the client is kept, its chunk is sent *)
(* again, as the comment above client_check_and_resend has it.             *)
(***************************************************************************)
ResentTo(k, net) ==
    \E p \in net : p.conn = k.udp_sock /\ p.type \in Data /\ p.chunk = Head(k.tcp2udp_q)

TimeoutResends ==
    [][\A c \in Conn :
          stage'[c] = "open" /\ stage[c] = "open"
          /\ local'[c].resend_count > local[c].resend_count
              => ResentTo(local[c], up')]_vars

(***************************************************************************)
(* No chunk stays in flight for ever: it is acknowledged or the client is  *)
(* given up, whatever the network loses.                                   *)
(***************************************************************************)
InFlight(k, m) == WaitsForAck(k) /\ Head(k.tcp2udp_q).n = m

LocalInFlight(c, m) == stage[c] = "open" /\ InFlight(local[c], m)
RemoteInFlight(i, m) == remote[i] # NoClient /\ InFlight(remote[i], m)

InFlightEnds ==
    \A m \in 1 .. MaxChunks :
        /\ \A c \in Conn : LocalInFlight(c, m) ~> ~ LocalInFlight(c, m)
        /\ \A i \in Id : RemoteInFlight(i, m) ~> ~ RemoteInFlight(i, m)

NoRemote(c) == \A i \in Id : remote[i] # NoClient => remote[i].udp_sock # c

(***************************************************************************)
(* When nothing is lost, both ends of a connection go once one is gone, or *)
(* once one has read the end of its TCP stream.                            *)
(***************************************************************************)
Ending(c) ==
    \/ stage[c] = "closed"
    \/ stage[c] = "open" /\ (local[c].to_disconnect \/ remote[local[c].id] = NoClient)
    \/ \E k \in RemoteClients : k.udp_sock = c /\ k.to_disconnect

BothEndsGo == \A c \in Conn : Ending(c) ~> (stage[c] = "closed" /\ NoRemote(c))

\* When nothing is lost, a pending client is promoted or closed in the end,
\* unless the server could not create a socket for the host of its HELLO.
HandshakeEnds ==
    \A c \in Conn :
        c \notin NoSocket => (stage[c] = "pending" ~> stage[c] \in {"open", "closed"})

(***************************************************************************)
(* When nothing is lost, a chunk that was queued is written by the other   *)
(* end, unless the connection ends first.                                  *)
(***************************************************************************)
Wrote(c, m) ==
    \E k \in RemoteClients : k.udp_sock = c /\ \E j \in DOMAIN k.written : k.written[j].n = m

ChunksArrive ==
    \A c \in Conn, m \in 1 .. MaxChunks :
        (stage[c] = "open" /\ local[c].nread >= m) ~> (stage[c] # "open" \/ Wrote(c, m))

-----------------------------------------------------------------------------
(***************************************************************************)
(* The pipe of a connection, as its two client_t and the messages between  *)
(* them show it.  An end is open from the moment its program relays for    *)
(* it.  All that one end has read is due at the other while both are       *)
(* there; when one is gone, what the other has written and the chunk that  *)
(* is on its way to it, if it is going to write it.                        *)
(***************************************************************************)
Came(chunk) ==
    [conn |-> chunk.conn,
     from |-> IF chunk.serial = 0 THEN "local" ELSE "remote",
     n    |-> chunk.n]

Written(k) == [j \in DOMAIN k.written |-> Came(k.written[j])]

\* The other end of k is gone, and net is what may still come.
LastChunk(k, net) ==
    Len(k.written)
    + IF \E p \in net : p.conn = k.udp_sock /\ p.type \in Data THEN 1 ELSE 0

RemoteOf(c) == {k \in RemoteClients : k.udp_sock = c}
TheRemote(c) == CHOOSE k \in RemoteOf(c) : TRUE

LocalDue(c) ==
    IF RemoteOf(c) # {} THEN TheRemote(c).nread ELSE LastChunk(local[c], down)

RemoteDue(c) ==
    CASE stage[c] = "open" -> local[c].nread
      [] stage[c] = "closed" ->
            LastChunk(TheRemote(c), IF Hears(TheRemote(c), up) THEN up ELSE {})
      [] OTHER -> 0

IdleEnd == [phase |-> "idle", out |-> <<>>, due |-> 0]
GoneEnd == [phase |-> "gone", out |-> <<>>, due |-> 0]
OpenEnd(k, due) == [phase |-> "open", out |-> Written(k), due |-> due]

LocalView(c) ==
    CASE stage[c] \in {"idle", "pending"} -> IdleEnd
      [] stage[c] = "open" -> OpenEnd(local[c], LocalDue(c))
      [] OTHER -> GoneEnd

\* The client_t is there once the HELLO has arrived.
HelloComes(c) == \E p \in up : p.type = "HELLO" /\ p.conn = c

RemoteView(c) ==
    CASE RemoteOf(c) # {} -> OpenEnd(TheRemote(c), RemoteDue(c))
      [] RemoteOf(c) = {} /\ (stage[c] = "idle" \/ HelloComes(c)) -> IdleEnd
      [] OTHER -> GoneEnd

Pipes ==
    [c \in Conn |->
       [e \in {"local", "remote"} |-> IF e = "local" THEN LocalView(c) ELSE RemoteView(c)]]

Tunnel == INSTANCE Pipe WITH pipe <- Pipes

(***************************************************************************)
(* Each connection of the tunnel is a pipe (Pipe): the two TCP connections *)
(* that udpclient and udpserver join exchange their bytes in order and     *)
(* without a gap, until one of them ends.                                  *)
(***************************************************************************)
PipeSpec == Tunnel!Spec
=============================================================================
