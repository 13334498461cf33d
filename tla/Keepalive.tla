----------------------------- MODULE Keepalive -----------------------------
(***************************************************************************)
(* The keepalive timers of one connection, with the clock that UdpTunnel   *)
(* leaves out.  Both programs keep a time in client_t.keepalive: udpclient *)
(* the time to send the next KEEPALIVE, udpserver the time to give the     *)
(* client up.  Only KEEPALIVEs count, data does not.                       *)
(*                                                                         *)
(* A tick is the interval between two checks, half a second.  A check that *)
(* comes right after a time is up belongs to the tick at which it is.      *)
(***************************************************************************)
EXTENDS Integers

CONSTANTS
    KEEP_ALIVE_SECS,         \* both in ticks
    KEEP_ALIVE_TIMEOUT_SECS,
    Late,                    \* how long after its time a check may come
    Delay,                   \* how long a message may take
    MaxLost                  \* bound: how many KEEPALIVEs are lost in a row

ASSUME KeepaliveAssumption ==
    /\ KEEP_ALIVE_SECS \in Nat \ {0}
    /\ KEEP_ALIVE_TIMEOUT_SECS \in Nat
    /\ KEEP_ALIVE_SECS =< KEEP_ALIVE_TIMEOUT_SECS
    /\ Late \in Nat
    /\ MaxLost \in Nat
    /\ Delay \in Nat /\ Delay < KEEP_ALIVE_SECS

VARIABLES
    stage,            \* of the connection: sent, pending, denied, open, closed
    listed,           \* udpserver has its client_t in the list
    client_keepalive, \* ticks left until the time in the client_t of udpclient
    server_keepalive, \* and in that of udpserver
    inFlight,         \* a KEEPALIVE is on its way
    lost,             \* how many were lost since one arrived
    alone             \* ticks udpserver has had the client while it was not open

vars == <<stage, listed, client_keepalive, server_keepalive, inFlight, lost, alone>>

\* The HELLO is on its way.  client_create has cleared the time of udpclient,
\* so that it is up as soon as somebody looks at it.
Init ==
    /\ stage = "sent"
    /\ listed = FALSE
    /\ client_keepalive = 0
    /\ server_keepalive = 0
    /\ inFlight = FALSE
    /\ lost = 0
    /\ alone = 0

client_timed_out(keepalive) == keepalive =< 0

\* Mutant of client_reset_keepalive: the interval of udpclient is used.
ResetToInterval == KEEP_ALIVE_SECS

client_reset_keepalive == KEEP_ALIVE_TIMEOUT_SECS

\* The time since the last KEEPALIVE was sent.
Age == KEEP_ALIVE_SECS - client_keepalive

-----------------------------------------------------------------------------
(***************************************************************************)
(* The HELLO arrives.  The client is created with its time cleared and     *)
(* listed before the access list is asked; only when it is allowed, the    *)
(* HELLOACK is sent and the time set.  A denied client stays in the list,  *)
(* and the GOODBYE about it has an id nobody has.                          *)
(***************************************************************************)
\* Mutant: the time is set as soon as the client is listed.
HelloSetsTimeFirst(answer) ==
    /\ stage = "sent"
    /\ stage' = answer
    /\ listed' = TRUE
    /\ server_keepalive' = client_reset_keepalive
    /\ UNCHANGED <<client_keepalive, inFlight, lost, alone>>

RecvHello(answer) ==
    /\ stage = "sent"
    /\ stage' = answer
    /\ listed' = TRUE
    /\ server_keepalive' = IF answer = "denied" THEN 0 ELSE client_reset_keepalive
    /\ UNCHANGED <<client_keepalive, inFlight, lost, alone>>

\* The HELLOACK arrives, unless it has been lost: from now on the checks
\* look at the client.
Promote ==
    /\ stage = "pending"
    /\ alone =< Delay
    /\ stage' = "open"
    /\ alone' = 0
    /\ UNCHANGED <<listed, client_keepalive, server_keepalive, inFlight, lost>>

client_check_and_send_keepalive ==
    /\ stage = "open"
    /\ client_timed_out(client_keepalive)
    /\ client_keepalive' = KEEP_ALIVE_SECS
    /\ inFlight' = TRUE
    /\ UNCHANGED <<stage, listed, server_keepalive, lost, alone>>

\* The time of udpclient is gone with its client_t, but for the age of a
\* KEEPALIVE that is still on its way.
Freed(gone, flying) == IF gone /\ ~ flying THEN 0 ELSE client_keepalive

\* udpserver gets it, and ignores it when it has no such client any more.
RecvKeepalive ==
    /\ inFlight
    /\ inFlight' = FALSE
    /\ lost' = 0
    /\ server_keepalive' = IF listed THEN client_reset_keepalive ELSE server_keepalive
    /\ client_keepalive' = Freed(stage = "closed", FALSE)
    /\ UNCHANGED <<stage, listed, alone>>

LoseKeepalive ==
    /\ inFlight
    /\ lost < MaxLost
    /\ inFlight' = FALSE
    /\ lost' = lost + 1
    /\ client_keepalive' = Freed(stage = "closed", FALSE)
    /\ UNCHANGED <<stage, listed, server_keepalive, alone>>

\* The check of udpserver.
GiveUp ==
    /\ listed
    /\ client_timed_out(server_keepalive)
    /\ listed' = FALSE
    /\ UNCHANGED <<stage, client_keepalive, server_keepalive, inFlight, lost, alone>>

\* udpclient closes the connection; its GOODBYE may be lost.
Close ==
    /\ stage = "open"
    /\ stage' = "closed"
    /\ listed' \in {FALSE, listed}
    /\ client_keepalive' = Freed(TRUE, inFlight)
    /\ UNCHANGED <<server_keepalive, inFlight, lost, alone>>

\* Time passes, but not past the moment at which a check or a message is due.
Tick ==
    /\ stage = "open" => client_keepalive > - Late
    /\ listed => server_keepalive > - Late
    /\ inFlight => Age < Delay
    /\ stage = "open" \/ listed \/ inFlight
    /\ client_keepalive' = IF stage = "open" \/ inFlight
                           THEN client_keepalive - 1 ELSE client_keepalive
    /\ server_keepalive' = IF listed THEN server_keepalive - 1 ELSE server_keepalive
    /\ alone' = IF listed /\ stage # "open" THEN alone + 1 ELSE alone
    /\ UNCHANGED <<stage, listed, inFlight, lost>>

Next ==
    \/ \E answer \in {"pending", "denied"} : RecvHello(answer)
    \/ Promote
    \/ client_check_and_send_keepalive
    \/ RecvKeepalive
    \/ LoseKeepalive
    \/ GiveUp
    \/ Close
    \/ Tick

Spec == Init /\ [][Next]_vars

-----------------------------------------------------------------------------
\* The longest time between two KEEPALIVEs.
Gap == KEEP_ALIVE_SECS + Late

(***************************************************************************)
(* udpserver never gives up a client that udpclient has open, although up  *)
(* to MaxLost KEEPALIVEs in a row are lost, every check is late and the    *)
(* first KEEPALIVE that is not lost takes its time.                        *)
(***************************************************************************)
LossesTolerated == stage = "open" => listed

\* How long the code of udpserver waits in each stage.
Patience ==
    CASE stage = "denied" -> 0
      [] stage = "pending" -> KEEP_ALIVE_TIMEOUT_SECS
      [] OTHER -> KEEP_ALIVE_TIMEOUT_SECS + Delay

(***************************************************************************)
(* A client that udpclient does not have open is dropped in time, whatever *)
(* is lost: one whose GOODBYE was lost after the timeout, counted from the *)
(* last KEEPALIVE even when that comes after the end; one whose HELLOACK   *)
(* was lost, counted from the HELLO; and a denied one, which stays in the  *)
(* list but never got a time, at the next check.                           *)
(***************************************************************************)
OrphansEnd == listed /\ stage # "open" => alone =< Patience + Late
=============================================================================
