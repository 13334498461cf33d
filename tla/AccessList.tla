----------------------------- MODULE AccessList -----------------------------
(***************************************************************************)
(* acl.c, and the loop over the list in udpserver.c: the first entry that  *)
(* matches the two ends of a new connection decides whether it may be      *)
(* made.                                                                   *)
(*                                                                         *)
(* An address is [src, sport, dst, dport]: where the UDP messages come     *)
(* from and where the TCP connection is to go.                             *)
(***************************************************************************)
EXTENDS Naturals, Sequences

\* What an address and a port are that an entry does not name: acl_create
\* leaves them to sock_create, which makes them INADDR_ANY and 0.
AddrAny == "0.0.0.0"
PortAny == 0

Port == 0 .. 65535

AclEntry ==
    [src : STRING, sport : Port, dst : STRING, dport : Port, action : {"allow", "deny"}]

\* The entry that names nothing; "a=allow" is what acl_create assumes.
AnyEntry ==
    [src |-> AddrAny, sport |-> PortAny, dst |-> AddrAny, dport |-> PortAny,
     action |-> "allow"]

\* acl_action returns something other than ACL_ACTION_NOMATCH.
Matches(entry, addr) ==
    /\ entry.sport \in {PortAny, addr.sport}
    /\ entry.dport \in {PortAny, addr.dport}
    /\ entry.src \in {AddrAny, addr.src}
    /\ entry.dst \in {AddrAny, addr.dst}

\* The list that udpserver makes of the entries acl of its command line.
WithDefault(acl) == Append(acl, AnyEntry)

Matching(acl, addr) ==
    {i \in DOMAIN WithDefault(acl) : Matches(WithDefault(acl)[i], addr)}

\* Mutant of acl_verdict: the loop does not stop at an entry that matches.
LastVerdict(acl, addr) ==
    LET last == CHOOSE i \in Matching(acl, addr) : \A j \in Matching(acl, addr) : j =< i
    IN  WithDefault(acl)[last].action

acl_verdict(acl, addr) ==
    LET first == CHOOSE i \in Matching(acl, addr) : \A j \in Matching(acl, addr) : i =< j
    IN  WithDefault(acl)[first].action

-----------------------------------------------------------------------------
\* What the user of the list is told (README): an entry denies the address,
\* and none before it matches.
Denies(acl, addr) ==
    \E i \in DOMAIN acl :
        /\ acl[i].action = "deny" /\ Matches(acl[i], addr)
        /\ \A j \in 1 .. (i - 1) : ~ Matches(acl[j], addr)
=============================================================================
