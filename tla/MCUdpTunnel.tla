---------------------------- MODULE MCUdpTunnel ----------------------------
(***************************************************************************)
(* Instances of UdpTunnel for TLC.                                         *)
(***************************************************************************)
EXTENDS UdpTunnel, TLC

CONSTANTS c1, c2, c3

\* Where the connections come from and where they want to.
Addresses ==
    [c \in Conn |->
        [src |-> "office", sport |-> IF c = c1 THEN 1 ELSE IF c = c2 THEN 2 ELSE 3,
         dst |-> IF c = c1 THEN "unknown" ELSE "host", dport |-> 22]]

\* No list; c1 is denied; c3 is allowed by the first entry that matches it,
\* c2 is denied by the second, and the third allows them both.
NoList == <<>>
FirstDenied == <<[AnyEntry EXCEPT !.sport = 1, !.action = "deny"]>>
Mixed ==
    <<[AnyEntry EXCEPT !.sport = 3],
      [AnyEntry EXCEPT !.dst = "host", !.dport = 22, !.action = "deny"],
      [AnyEntry EXCEPT !.src = "office"]>>

\* Without a list nobody looks at the address of a connection.
Interchangeable == Permutations(Conn)

\* No two chunks of a connection hold the same; all of them do.
Distinct == [n \in 1 .. MaxChunks |-> n]
Alike == [n \in 1 .. MaxChunks |-> 1]
=============================================================================
