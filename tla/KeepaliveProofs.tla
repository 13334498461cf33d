-------------------------- MODULE KeepaliveProofs --------------------------
(***************************************************************************)
(* How many KEEPALIVEs in a row may be lost, and how long a client stays   *)
(* after its connection, for any intervals.                                *)
(***************************************************************************)
EXTENDS Keepalive, TLAPS

\* The longest time since the last KEEPALIVE that arrived was sent: Missing
\* were sent after it.
Missing == IF inFlight THEN lost + 1 ELSE lost

Behind == Missing * Gap + Age

(***************************************************************************)
(* Whatever is lost: how long udpserver has been waiting, added to what is *)
(* left of its time.                                                       *)
(***************************************************************************)
OInv ==
    /\ stage \in {"sent", "pending", "denied", "open", "closed"}
    /\ listed \in BOOLEAN
    /\ inFlight \in BOOLEAN
    /\ lost \in 0 .. MaxLost
    /\ alone \in Nat
    /\ client_keepalive \in Int /\ client_keepalive =< KEEP_ALIVE_SECS
    /\ server_keepalive \in Int /\ server_keepalive =< KEEP_ALIVE_TIMEOUT_SECS
    /\ listed => server_keepalive >= - Late
    /\ inFlight => Age =< Delay
    /\ stage \in {"sent", "pending", "denied"} =>
          ~ inFlight /\ client_keepalive = 0 /\ lost = 0
    /\ stage = "sent" => ~ listed /\ alone = 0
    /\ stage = "pending" =>
          /\ alone + server_keepalive = KEEP_ALIVE_TIMEOUT_SECS
          /\ listed \/ client_timed_out(server_keepalive)
    /\ stage = "denied" => alone + server_keepalive = 0
    /\ stage = "open" => alone = 0 /\ client_keepalive >= - Late
    /\ stage = "closed" /\ listed =>
          /\ alone + server_keepalive =< KEEP_ALIVE_TIMEOUT_SECS + Delay
          /\ inFlight => alone =< Age /\ alone + server_keepalive =< KEEP_ALIVE_TIMEOUT_SECS

\* And while the connection is open, unless too much is lost.
KInv ==
    /\ OInv
    /\ stage = "open" => listed /\ server_keepalive >= KEEP_ALIVE_TIMEOUT_SECS - Behind

\* There is time for MaxLost KEEPALIVEs and one more.
Enough == (MaxLost + 1) * Gap + Delay < KEEP_ALIVE_TIMEOUT_SECS

LEMMA Products ==
    ASSUME NEW m \in Nat, NEW n \in Nat, NEW g \in Nat
    PROVE  /\ m * g \in Nat
           /\ (m + 1) * g = m * g + g
           /\ m =< n => m * g =< n * g
  <1>1. m * g \in Nat /\ (m + 1) * g = m * g + g
    OBVIOUS
  <1>2. ASSUME m =< n
        PROVE  m * g =< n * g
    <2>1. PICK d \in Nat : n = m + d
      <3>1. n - m \in Nat /\ n = m + (n - m)
        BY <1>2
      <3> QED
        BY <3>1
    <2>2. n * g = m * g + d * g /\ d * g \in Nat
      BY <2>1
    <2> QED
      BY <1>1, <2>2
  <1> QED
    BY <1>1, <1>2

\* What is at least the rest is at least a smaller rest.
LEMMA LessLeft ==
    ASSUME NEW all \in Nat, NEW b \in Nat, NEW c \in Nat, c >= b,
           NEW t \in Int, t >= all - b
    PROVE  t >= all - c
  OBVIOUS

\* The time udpserver still waits for a client that is open.
LEMMA StillTime ==
    ASSUME KInv, Enough, stage = "open"
    PROVE  ~ client_timed_out(server_keepalive)
  <1>1. /\ Gap \in Nat /\ Missing \in Nat /\ Age \in Nat
        /\ Age =< Gap
        /\ inFlight => Age =< Delay
    BY KeepaliveAssumption DEF KInv, OInv, Gap, Missing, Age
  <1>2. MaxLost \in Nat /\ Delay \in Nat /\ KEEP_ALIVE_TIMEOUT_SECS \in Nat
    BY KeepaliveAssumption
  <1>3. /\ Missing * Gap \in Nat /\ MaxLost * Gap \in Nat
        /\ (MaxLost + 1) * Gap = MaxLost * Gap + Gap
        /\ Missing =< MaxLost => Missing * Gap =< MaxLost * Gap
        /\ Missing =< MaxLost + 1 => Missing * Gap =< (MaxLost + 1) * Gap
    BY <1>1, <1>2, Products
  <1>4. CASE inFlight
    <2>1. Missing =< MaxLost + 1
      BY <1>2, <1>4 DEF KInv, OInv, Missing
    <2>2. Behind =< (MaxLost + 1) * Gap + Delay
      BY <1>1, <1>2, <1>3, <1>4, <2>1 DEF Behind
    <2> QED
      BY <1>1, <1>2, <1>3, <2>2 DEF KInv, OInv, Enough, Behind, client_timed_out
  <1>5. CASE ~ inFlight
    <2>1. Missing =< MaxLost
      BY <1>2, <1>5 DEF KInv, OInv, Missing
    <2>2. Behind =< (MaxLost + 1) * Gap
      BY <1>1, <1>2, <1>3, <2>1 DEF Behind
    <2> QED
      BY <1>1, <1>2, <1>3, <2>2 DEF KInv, OInv, Enough, Behind, client_timed_out
  <1> QED
    BY <1>4, <1>5 DEF KInv, OInv

LEMMA KInit == Init => KInv
  <1> SUFFICES ASSUME Init PROVE KInv
    OBVIOUS
  <1>1. ~ listed /\ listed \in BOOLEAN /\ ~ inFlight /\ inFlight \in BOOLEAN
    BY DEF Init
  <1> QED
    BY <1>1, KeepaliveAssumption DEF Init, KInv, OInv

LEMMA OStep == OInv /\ [Next]_vars => OInv'
  <1> SUFFICES ASSUME OInv, [Next]_vars PROVE OInv'
    OBVIOUS
  <1> USE KeepaliveAssumption
  <1>1. ASSUME NEW answer \in {"pending", "denied"}, RecvHello(answer)
        PROVE  OInv'
    <2>1. listed' /\ listed' \in BOOLEAN /\ ~ inFlight
      BY <1>1 DEF RecvHello, OInv
    <2> QED
      BY <1>1, <2>1 DEF RecvHello, OInv, client_reset_keepalive, client_timed_out
  <1>2. CASE Promote
    <2>1. listed \in BOOLEAN /\ ~ inFlight
      BY <1>2 DEF Promote, OInv
    <2> QED
      BY <1>2, <2>1 DEF Promote, OInv, client_timed_out
  <1>3. CASE client_check_and_send_keepalive
    <2>1. inFlight' /\ inFlight' \in BOOLEAN /\ listed \in BOOLEAN /\ Age' = 0
      BY <1>3 DEF client_check_and_send_keepalive, OInv, Age
    <2> QED
      BY <1>3, <2>1 DEF client_check_and_send_keepalive, OInv
  <1>4. CASE RecvKeepalive
    <2>0. inFlight /\ ~ inFlight' /\ inFlight' \in BOOLEAN
      BY <1>4 DEF RecvKeepalive
    <2>1. /\ stage \in {"open", "closed"} /\ Age =< Delay
          /\ listed \in BOOLEAN
          /\ lost' \in 0 .. MaxLost
      BY <1>4, <2>0 DEF RecvKeepalive, OInv
    <2>2. /\ client_keepalive' \in Int /\ client_keepalive' =< KEEP_ALIVE_SECS
          /\ stage = "open" => client_keepalive' = client_keepalive
      BY <1>4 DEF RecvKeepalive, OInv, Freed
    <2>3. /\ server_keepalive' \in Int /\ server_keepalive' =< KEEP_ALIVE_TIMEOUT_SECS
          /\ listed => server_keepalive' = KEEP_ALIVE_TIMEOUT_SECS
      BY <1>4 DEF RecvKeepalive, OInv, client_reset_keepalive
    <2>4. stage = "closed" /\ listed => alone =< Delay
      <3>1. Age \in Int
        BY DEF OInv, Age
      <3> QED
        BY <1>4, <2>0, <2>1, <3>1 DEF RecvKeepalive, OInv
    <2>5. stage' = stage /\ listed' = listed /\ alone' = alone
      BY <1>4 DEF RecvKeepalive
    <2>6. /\ listed => server_keepalive' >= - Late
          /\ stage = "open" => alone = 0 /\ client_keepalive' >= - Late
          /\ alone \in Nat
      BY <2>2, <2>3 DEF OInv
    <2>7. stage = "closed" /\ listed =>
             alone + server_keepalive' =< KEEP_ALIVE_TIMEOUT_SECS + Delay
      BY <2>3, <2>4, <2>6
    <2> QED
      BY <2>0, <2>1, <2>2, <2>3, <2>5, <2>6, <2>7 DEF OInv
  <1>5. CASE LoseKeepalive
    <2>0. inFlight /\ ~ inFlight' /\ inFlight' \in BOOLEAN
      BY <1>5 DEF LoseKeepalive
    <2>1. stage \in {"open", "closed"} /\ lost' \in 0 .. MaxLost
      BY <1>5, <2>0 DEF LoseKeepalive, OInv
    <2>2. /\ client_keepalive' \in Int /\ client_keepalive' =< KEEP_ALIVE_SECS
          /\ stage = "open" => client_keepalive' = client_keepalive
      BY <1>5 DEF LoseKeepalive, OInv, Freed
    <2> QED
      BY <1>5, <2>0, <2>1, <2>2 DEF LoseKeepalive, OInv
  <1>6. CASE GiveUp
    <2>1. ~ listed' /\ listed' \in BOOLEAN /\ inFlight \in BOOLEAN /\ stage # "sent"
      BY <1>6 DEF GiveUp, OInv
    <2> QED
      BY <1>6, <2>1 DEF GiveUp, OInv, Age
  <1>7. CASE Close
    <2>1. listed \in BOOLEAN /\ inFlight \in BOOLEAN /\ stage = "open"
      BY <1>7 DEF Close, OInv
    <2>2. listed' \in BOOLEAN /\ (listed' => listed)
      <3>1. CASE listed' = FALSE
        BY <3>1
      <3>2. CASE listed' = listed
        BY <2>1, <3>2
      <3> QED
        BY <1>7, <3>1, <3>2 DEF Close
    <2>3. /\ client_keepalive' \in Int /\ client_keepalive' =< KEEP_ALIVE_SECS
          /\ inFlight => client_keepalive' = client_keepalive
      BY <1>7 DEF Close, OInv, Freed
    <2>4. inFlight => Age' = Age
      BY <2>3 DEF Age
    <2>6. Age \in Nat /\ alone = 0
      BY <2>1 DEF OInv, Age
    <2>5. inFlight' = inFlight /\ server_keepalive' = server_keepalive
          /\ alone' = alone /\ stage' = "closed" /\ lost' = lost
      BY <1>7 DEF Close
    <2> QED
      BY <2>1, <2>2, <2>3, <2>4, <2>5, <2>6 DEF OInv
  <1>8. CASE Tick
    <2>1. /\ listed \in BOOLEAN /\ inFlight \in BOOLEAN
          /\ client_keepalive' \in Int /\ client_keepalive' =< KEEP_ALIVE_SECS
          /\ stage = "open" => client_keepalive' >= - Late
          /\ stage \in {"sent", "pending", "denied"} => client_keepalive' = 0
          /\ stage # "sent"
      BY <1>8 DEF Tick, OInv
    <2>2. /\ stage = "closed" /\ listed => alone' + server_keepalive' = alone + server_keepalive
          /\ inFlight => Age' = Age + 1 /\ Age < Delay /\ alone' =< alone + 1
          /\ stage \in {"pending", "denied"} =>
                alone' + server_keepalive' = alone + server_keepalive
      BY <1>8 DEF Tick, OInv, Age
    <2>3. /\ alone' \in Nat
          /\ server_keepalive' \in Int /\ server_keepalive' =< KEEP_ALIVE_TIMEOUT_SECS
          /\ listed => server_keepalive' >= - Late
          /\ stage = "open" => alone' = 0
          /\ stage = "pending" => listed \/ server_keepalive' =< 0
      BY <1>8 DEF Tick, OInv, client_timed_out
    <2>4. Age \in Int
      BY DEF OInv, Age
    <2> QED
      BY <1>8, <2>1, <2>2, <2>3, <2>4 DEF Tick, OInv, client_timed_out
  <1>9. CASE UNCHANGED vars
    BY <1>9 DEF vars, OInv, Age, client_timed_out
  <1> QED
    BY <1>1, <1>2, <1>3, <1>4, <1>5, <1>6, <1>7, <1>8, <1>9 DEF Next

LEMMA KStep == KInv /\ Enough /\ [Next]_vars => KInv'
  <1> SUFFICES ASSUME KInv, Enough, [Next]_vars,
                      stage' = "open"
               PROVE  listed' /\ server_keepalive' >= KEEP_ALIVE_TIMEOUT_SECS - Behind'
    BY OStep DEF KInv
  <1> USE KeepaliveAssumption
  <1>1. Gap \in Nat /\ Missing \in Nat /\ Age \in Int /\ (stage = "open" => Age \in Nat)
    BY DEF KInv, OInv, Gap, Missing, Age
  <1>2. Missing * Gap \in Nat /\ (Missing + 1) * Gap = Missing * Gap + Gap
    BY <1>1, Products
  <1>3. CASE Promote
    <2>1. Missing = 0 /\ Age = KEEP_ALIVE_SECS /\ Missing' = Missing /\ Age' = Age
      BY <1>3 DEF Promote, KInv, OInv, Missing, Age
    <2>2. Behind' = KEEP_ALIVE_SECS
      BY <1>1, <2>1 DEF Behind
    <2> QED
      BY <1>3, <2>2 DEF Promote, KInv, OInv, client_timed_out
  <1>4. CASE client_check_and_send_keepalive
    <2>1. ~ inFlight /\ Age =< Gap
      BY <1>4 DEF client_check_and_send_keepalive, KInv, OInv, Age, Gap, client_timed_out
    <2>2. Missing' = Missing + 1 /\ Age' = 0
      BY <1>4, <2>1 DEF client_check_and_send_keepalive, Missing, Age, KInv, OInv
    <2>3. stage = "open" => Behind' >= Behind /\ Behind' \in Nat /\ Behind \in Nat
      BY <1>1, <1>2, <2>1, <2>2 DEF Behind
    <2>4. /\ stage = "open"
          /\ server_keepalive \in Int
          /\ server_keepalive >= KEEP_ALIVE_TIMEOUT_SECS - Behind
          /\ server_keepalive' = server_keepalive
      BY <1>4 DEF client_check_and_send_keepalive, KInv, OInv
    <2> QED
      BY <1>4, <2>3, <2>4, LessLeft DEF client_check_and_send_keepalive, KInv
  <1>5. CASE RecvKeepalive
    <2>1. Missing' = 0 /\ Age' = Age /\ stage = "open"
      BY <1>5 DEF RecvKeepalive, Missing, Age, Freed
    <2>2. Behind' = Age
      BY <1>1, <2>1 DEF Behind
    <2> QED
      BY <1>1, <1>5, <2>1, <2>2 DEF RecvKeepalive, KInv, client_reset_keepalive
  <1>6. CASE LoseKeepalive
    <2>1. Behind' = Behind
      BY <1>6 DEF LoseKeepalive, Behind, Missing, Age, KInv, OInv, Freed
    <2> QED
      BY <1>6, <2>1 DEF LoseKeepalive, KInv
  <1>7. CASE GiveUp
    BY <1>7, StillTime DEF GiveUp
  <1>8. CASE Close
    BY <1>8 DEF Close
  <1>9. CASE Tick
    <2>1. Age' = Age + 1 /\ Missing' = Missing /\ stage = "open"
      BY <1>9 DEF Tick, KInv, OInv, Age, Missing
    <2>2. Behind' = Behind + 1 /\ Behind \in Nat
      BY <1>1, <1>2, <2>1 DEF Behind
    <2> QED
      BY <1>9, <2>1, <2>2 DEF Tick, KInv, OInv
  <1>10. CASE UNCHANGED vars
    BY <1>10 DEF vars, KInv, Behind, Missing, Age
  <1>11. ASSUME NEW answer \in {"pending", "denied"}, RecvHello(answer)
         PROVE  FALSE
    BY <1>11 DEF RecvHello
  <1> QED
    BY <1>3, <1>4, <1>5, <1>6, <1>7, <1>8, <1>9, <1>10, <1>11 DEF Next

(***************************************************************************)
(* udpserver never gives up a client that is open in udpclient, as long as *)
(* MaxLost + 1 of the longest intervals and a delay fit into its timeout:  *)
(* with one minute and seven minutes, six KEEPALIVEs and not seven.        *)
(***************************************************************************)
THEOREM TriesSuffice ==
    ASSUME Enough
    PROVE  Spec => []LossesTolerated
  <1>1. KInv => LossesTolerated
    BY DEF KInv, LossesTolerated
  <1> QED
    BY <1>1, KInit, KStep, PTL DEF Spec

(***************************************************************************)
(* A client that udpclient does not have open leaves the list of udpserver *)
(* in time, for any intervals and however many messages are lost: within   *)
(* the timeout, and a delay for the KEEPALIVE that was under way; and a    *)
(* denied one at the next check.                                           *)
(***************************************************************************)
THEOREM OrphansDropped == Spec => []OrphansEnd
  <1>1. OInv => OrphansEnd
    <2> SUFFICES ASSUME OInv, listed, stage # "open"
                 PROVE  alone =< Patience + Late
      BY DEF OrphansEnd
    <2>1. alone \in Nat /\ server_keepalive \in Int /\ server_keepalive >= - Late
      BY DEF OInv
    <2>2. CASE stage = "denied"
      BY <2>1, <2>2, KeepaliveAssumption DEF OInv, Patience
    <2>3. CASE stage = "pending"
      BY <2>1, <2>3, KeepaliveAssumption DEF OInv, Patience
    <2>4. CASE stage = "closed"
      BY <2>1, <2>4, KeepaliveAssumption DEF OInv, Patience
    <2> QED
      BY <2>2, <2>3, <2>4 DEF OInv
  <1>2. Init => OInv
    BY KInit DEF KInv
  <1> QED
    BY <1>1, <1>2, OStep, PTL DEF Spec
=============================================================================
