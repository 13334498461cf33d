------------------------------- MODULE Client -------------------------------
(***************************************************************************)
(* client_t, the state both programs keep of a connection, and the         *)
(* routines of client.c that change it.  A routine that changes the        *)
(* structure is an operator from the old record to the new one; the        *)
(* messages it sends are an operator of their own.                         *)
(*                                                                         *)
(* Both directions run a stop-and-wait protocol with a one-bit number:     *)
(* DATA0, ACK0, DATA1, ACK1, DATA0, ...                                    *)
(***************************************************************************)
EXTENDS TunnelNetwork, Sequences

CONSTANTS
    MaxResend,   \* CLIENT_MAX_RESEND
    MaxChunks,   \* bound: the chunks read from one TCP connection
    Content,     \* Content[n] is what the n-th chunk of a connection holds
    NoClient     \* no client_t

ASSUME ResendAssumption == MaxResend \in Nat \ {0}
ASSUME ChunksAssumption == MaxChunks \in Nat

(***************************************************************************)
(* A chunk is what one recv() returned.  It is known by the connection it  *)
(* was read on, by the end that read it (serial 0 for udpclient, and the   *)
(* running number of the client_t for udpserver) and by its place in the   *)
(* stream.                                                                 *)
(***************************************************************************)
Chunk == [conn : Conn, serial : Nat, n : 1 .. MaxChunks]

Message ==
    [conn : Conn, id : Id, type : MsgType \ Data, chunk : {NoChunk}]
    \union [conn : Conn, id : Id, type : Data, chunk : Chunk]

Udp2TcpState == {"WAIT_HELLO", "WAIT_DATA0", "WAIT_DATA1"}
Tcp2UdpState == {"WAIT_DATA0", "WAIT_ACK0", "WAIT_DATA1", "WAIT_ACK1"}

(***************************************************************************)
(* The last three fields are not in the code: serial tells apart the       *)
(* records udpserver created, nread counts the chunks read from the TCP    *)
(* socket, and written is what was written to it.                          *)
(***************************************************************************)
ClientT ==
    [id            : Id,
     udp_sock      : Conn,
     connected     : BOOLEAN,
     to_disconnect : BOOLEAN,
     udp2tcp_state : Udp2TcpState,
     tcp2udp_state : Tcp2UdpState,
     tcp2udp_q     : Seq(Chunk),
     resend_count  : Nat,
     serial        : Nat,
     nread         : 0 .. MaxChunks,
     written       : Seq(Chunk)]

ASSUME NoClientAssumption == NoClient \notin ClientT

client_create(id, c, connected, serial) ==
    [id            |-> id,
     udp_sock      |-> c,
     connected     |-> connected,
     to_disconnect |-> FALSE,
     udp2tcp_state |-> "WAIT_HELLO",
     tcp2udp_state |-> "WAIT_DATA0",
     tcp2udp_q     |-> <<>>,
     resend_count  |-> 0,
     serial        |-> serial,
     nread         |-> 0,
     written       |-> <<>>]

WaitsForAck(k) == k.tcp2udp_state \in {"WAIT_ACK0", "WAIT_ACK1"}

-----------------------------------------------------------------------------
(* From the TCP socket to the tunnel.                                      *)

\* client_mark_to_disconnect
Marked(k) == [k EXCEPT !.to_disconnect = TRUE]

\* client_disconnect_tcp, after client_mark_to_disconnect
AtEof(k) == [k EXCEPT !.to_disconnect = TRUE, !.connected = FALSE]

(***************************************************************************)
(* client_recv_tcp_data appends what it read with list_add, which keeps    *)
(* the list as it is when it holds an equal element already.  Elements are *)
(* compared with memcmp over the whole data_buf_t, an automatic variable   *)
(* of which recv() filled the beginning only: two chunks of equal content  *)
(* that do not fill the buffer compare equal if the rest of the stack      *)
(* frame does, so both outcomes are possible.                              *)
(***************************************************************************)
NextChunk(k) == [conn |-> k.udp_sock, serial |-> k.serial, n |-> k.nread + 1]

IsQueued(k, chunk) ==
    \E j \in DOMAIN k.tcp2udp_q : Content[k.tcp2udp_q[j].n] = Content[chunk.n]

\* Mutant of Queued: the new chunk is put at the head of the queue.
QueuedFirst(k) == [k EXCEPT !.nread = @ + 1, !.tcp2udp_q = <<NextChunk(k)>> \o @]

Queued(k) == [k EXCEPT !.nread = @ + 1, !.tcp2udp_q = Append(@, NextChunk(k))]

Dropped(k) == [k EXCEPT !.nread = @ + 1]

client_recv_tcp_data(k) ==
    IF IsQueued(k, NextChunk(k)) THEN {Queued(k), Dropped(k)} ELSE {Queued(k)}

(***************************************************************************)
(* client_send_udp_data: sends the head of the queue unless an ACK or the  *)
(* HELLOACK is outstanding, and returns -2 when the resend limit is        *)
(* reached.                                                                *)
(***************************************************************************)
Exhausted(k) == k.tcp2udp_q # <<>> /\ k.resend_count >= MaxResend

CanSend(k) ==
    /\ k.tcp2udp_q # <<>>
    /\ k.resend_count < MaxResend
    /\ ~ WaitsForAck(k)
    /\ k.udp2tcp_state # "WAIT_HELLO"

\* Mutant of AfterSend: the state is not set to wait for the ACK.
AfterSendNoWait(k) == k

AfterSend(k) ==
    IF CanSend(k)
    THEN [k EXCEPT !.tcp2udp_state = IF @ = "WAIT_DATA0" THEN "WAIT_ACK0" ELSE "WAIT_ACK1"]
    ELSE k

DataSent(k) ==
    IF CanSend(k)
    THEN {DataPacket(k.udp_sock, k.id,
                     IF k.tcp2udp_state = "WAIT_DATA0" THEN "DATA0" ELSE "DATA1",
                     Head(k.tcp2udp_q))}
    ELSE {}

\* client_ready_to_disconnect
ReadyToDisconnect(k) == k.to_disconnect /\ k.tcp2udp_q = <<>>

\* client_got_ack returns -1, and changes nothing, for an ACK not waited for.
IsExpectedAck(k, type) ==
    \/ type = "ACK0" /\ k.tcp2udp_state = "WAIT_ACK0"
    \/ type = "ACK1" /\ k.tcp2udp_state = "WAIT_ACK1"

\* Mutant of client_got_ack: the chunk is not deleted.
GotAckKeepsChunk(k, type) ==
    IF IsExpectedAck(k, type)
    THEN [k EXCEPT !.tcp2udp_state = IF type = "ACK0" THEN "WAIT_DATA1" ELSE "WAIT_DATA0",
                   !.resend_count = 0]
    ELSE k

client_got_ack(k, type) ==
    IF IsExpectedAck(k, type)
    THEN [k EXCEPT !.tcp2udp_q = Tail(@),
                   !.tcp2udp_state = IF type = "ACK0" THEN "WAIT_DATA1" ELSE "WAIT_DATA0",
                   !.resend_count = 0]
    ELSE k

\* Mutant of client_check_and_resend: the attempt is not counted.
CheckWithoutCount(k) == k

(***************************************************************************)
(* client_check_and_resend, once the timeout is up: counts the attempt and *)
(* calls client_send_udp_data, which sends nothing while an ACK is         *)
(* outstanding.  A packet that is merely slow is taken for lost only if    *)
(* the network may delay it.                                               *)
(***************************************************************************)
TimeoutIsUp(k) == WaitsForAck(k) /\ ("delay" \in Faults \/ Quiet(k.udp_sock))

client_check_and_resend(k) == [k EXCEPT !.resend_count = @ + 1]

-----------------------------------------------------------------------------
(* From the tunnel to the TCP socket.                                      *)

\* client_got_udp_data takes every other DATA message for a resent one.
IsNewData(k, type) ==
    \/ type = "DATA0" /\ k.udp2tcp_state = "WAIT_DATA0"
    \/ type = "DATA1" /\ k.udp2tcp_state = "WAIT_DATA1"

\* The ACK client_got_udp_data sends, for new and for resent data.
AckFor(k, type) ==
    Packet(k.udp_sock, k.id, IF type = "DATA0" THEN "ACK0" ELSE "ACK1")

\* Mutant of AfterWrite: the state stays, the next chunk looks like a resend.
AfterWriteSameState(k, chunk) == [k EXCEPT !.written = Append(@, chunk)]

\* client_got_udp_data and a client_send_tcp_data that succeeds
AfterWrite(k, chunk) ==
    [k EXCEPT !.udp2tcp_state = IF @ = "WAIT_DATA0" THEN "WAIT_DATA1" ELSE "WAIT_DATA0",
              !.written = Append(@, chunk)]

\* client_got_udp_data and a client_send_tcp_data that fails
AfterFailedWrite(k) ==
    [k EXCEPT !.udp2tcp_state = IF @ = "WAIT_DATA0" THEN "WAIT_DATA1" ELSE "WAIT_DATA0"]

\* Mutant of client_got_helloack: the client goes on waiting.
GotHelloAckIgnored(k) == k

client_got_helloack(k) ==
    [k EXCEPT !.udp2tcp_state = IF @ = "WAIT_HELLO" THEN "WAIT_DATA0" ELSE @]

-----------------------------------------------------------------------------
(* Both programs end an iteration of their select loop that had something  *)
(* to do with a pass over the list of clients: each sends what it can, and *)
(* those with an error or with nothing left to send are removed.           *)

MustGo(k) == Exhausted(k) \/ ReadyToDisconnect(k)

Goodbye(k) == Packet(k.udp_sock, k.id, "GOODBYE")

-----------------------------------------------------------------------------
\* The pass has nothing to do for k.
Settled(k) == ~ MustGo(k) /\ ~ CanSend(k)

\* The state of the TCP to UDP direction, its queue and its count agree.
Steady(k) ==
    IF WaitsForAck(k) THEN k.tcp2udp_q # <<>> ELSE k.resend_count = 0
=============================================================================
