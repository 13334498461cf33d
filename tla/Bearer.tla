------------------------------- MODULE Bearer --------------------------------
(***************************************************************************)
(* What a transport of goauth2 promises to those who make requests through *)
(* it: a request ends with an error, or is sent with a token that was good *)
(* at some moment since the request was made.                              *)
(***************************************************************************)
EXTENDS Naturals

CONSTANTS Caller

VARIABLES
    issued,    \* the tokens issued so far
    live,      \* those among them that are good
    status,    \* of each caller: "idle", "asked" or "done"
    eligible,  \* the tokens a caller that has asked may be given
    answer     \* the token a request was sent with, or 0

vars == <<issued, live, status, eligible, answer>>

Init ==
    /\ issued = {}
    /\ live = {}
    /\ status = [c \in Caller |-> "idle"]
    /\ eligible = [c \in Caller |-> {}]
    /\ answer = [c \in Caller |-> 0]

\* Tokens are issued: they are good, and good enough for whoever has asked.
Issue ==
    /\ issued \subseteq issued'
    /\ live' = live \cup (issued' \ issued)
    /\ eligible' = [c \in Caller |->
                      IF status[c] = "asked" THEN eligible[c] \cup (issued' \ issued)
                      ELSE {}]
    /\ UNCHANGED <<status, answer>>

\* Tokens expire, and never become good again.
Expire ==
    /\ live' \subseteq live
    /\ UNCHANGED <<issued, status, eligible, answer>>

Ask(c) ==
    /\ status[c] = "idle"
    /\ status' = [status EXCEPT ![c] = "asked"]
    /\ eligible' = [eligible EXCEPT ![c] = live]
    /\ UNCHANGED <<issued, live, answer>>

Answer(c) ==
    /\ status[c] = "asked"
    /\ status' = [status EXCEPT ![c] = "done"]
    /\ answer'[c] \in eligible[c] \cup {0}
    /\ answer' = [answer EXCEPT ![c] = answer'[c]]
    /\ eligible' = [eligible EXCEPT ![c] = {}]
    /\ UNCHANGED <<issued, live>>

Rest(c) ==
    /\ status[c] = "done"
    /\ status' = [status EXCEPT ![c] = "idle"]
    /\ answer' = [answer EXCEPT ![c] = 0]
    /\ UNCHANGED <<issued, live, eligible>>

\* The program ends: its requests are gone.
Abandon(S) ==
    /\ status' = [c \in Caller |-> IF c \in S THEN "idle" ELSE status[c]]
    /\ eligible' = [c \in Caller |-> IF c \in S THEN {} ELSE eligible[c]]
    /\ answer' = [c \in Caller |-> IF c \in S THEN 0 ELSE answer[c]]
    /\ UNCHANGED <<issued, live>>

Next ==
    \/ Issue
    \/ Expire
    \/ \E c \in Caller : Ask(c) \/ Answer(c) \/ Rest(c)
    \/ \E S \in SUBSET Caller : Abandon(S)

Spec == Init /\ [][Next]_vars
=============================================================================
