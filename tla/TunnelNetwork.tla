--------------------------- MODULE TunnelNetwork ---------------------------
(***************************************************************************)
(* The UDP network between udpclient and udpserver.  Every connection has  *)
(* a UDP socket of its own on the client's side; the server has a single   *)
(* one and tells connections apart by the id in the message header.        *)
(*                                                                         *)
(* A packet in flight is a record                                          *)
(*    conn   the connection whose client-side socket sent it, or that it   *)
(*           is addressed to                                               *)
(*    id     the client id of the message header                           *)
(*    type   the message type                                              *)
(*    chunk  the body of a DATA message, NoChunk in every other message    *)
(* The request id that HELLO and HELLOACK carry is left out: both programs *)
(* pass it along and neither of them ever reads it.                        *)
(*                                                                         *)
(* Two equal packets in flight are one element of the set: the second is   *)
(* then as good as lost, which UDP allows.                                 *)
(***************************************************************************)
EXTENDS Naturals, FiniteSets

CONSTANTS
    Conn,      \* the TCP connections accepted by udpclient
    IdMod,     \* the number of client ids: 65536, they are uint16_t
    Faults,    \* what the network may do to a packet
    MaxCopies, \* bound: how often it may deliver a packet and keep a copy
    NoChunk    \* the body of a message that has none

(***************************************************************************)
(* "loss"     a packet may disappear;                                      *)
(* "delay"    a packet may take longer than the resend timeout;            *)
(* "reorder"  a packet may overtake another one.                           *)
(* It may also duplicate a packet; the copy arrives later, out of order.   *)
(***************************************************************************)
ASSUME FaultsAssumption ==
    /\ Faults \subseteq {"loss", "delay", "reorder"}
    /\ MaxCopies \in Nat
    /\ MaxCopies > 0 => "reorder" \in Faults

ASSUME IdModAssumption == IdMod \in Nat \ {0, 1}

VARIABLES
    up,        \* packets in flight from udpclient to udpserver
    down,      \* packets in flight from udpserver to udpclient
    copies     \* the number of copies kept so far

netVars == <<up, down, copies>>

Id == 0 .. (IdMod - 1)

Ack  == {"ACK0", "ACK1"}
Data == {"DATA0", "DATA1"}
MsgType == {"GOODBYE", "HELLO", "HELLOACK"} \union Data \union Ack

Packet(c, id, type) ==
    [conn |-> c, id |-> id, type |-> type, chunk |-> NoChunk]

DataPacket(c, id, type, chunk) ==
    [conn |-> c, id |-> id, type |-> type, chunk |-> chunk]

-----------------------------------------------------------------------------
(***************************************************************************)
(* The order in which one end of a connection sends its messages: the      *)
(* handshake first and GOODBYE last.  DATA and ACK are not ordered against *)
(* each other: no handler distinguishes the two orders.                    *)
(***************************************************************************)
Rank(type) ==
    CASE type = "HELLO"    -> 0
      [] type = "HELLOACK" -> 1
      [] type = "GOODBYE"  -> 3
      [] OTHER             -> 2

Deliverable(net) ==
    IF "reorder" \in Faults
    THEN net
    ELSE {p \in net : \A q \in net : q.conn = p.conn => Rank(p.type) =< Rank(q.type)}

\* The network delivers packet p of net, of which rest remains.
Deliver(net, p, rest) ==
    /\ p \in Deliverable(net)
    /\ \/ rest = net \ {p} /\ UNCHANGED copies
       \/ rest = net /\ copies < MaxCopies /\ copies' = copies + 1

\* No packet of the connection is on its way, in either direction.
Quiet(c) == \A p \in up \union down : p.conn # c

NetInit ==
    /\ up = {}
    /\ down = {}
    /\ copies = 0

LoseUp == "loss" \in Faults /\ \E p \in up : up' = up \ {p} /\ UNCHANGED <<down, copies>>

LoseDown == "loss" \in Faults /\ \E p \in down : down' = down \ {p} /\ UNCHANGED <<up, copies>>
=============================================================================
