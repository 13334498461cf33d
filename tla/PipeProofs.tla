----------------------------- MODULE PipeProofs ------------------------------
(***************************************************************************)
(* Every connection of the tunnel is a pipe (Pipe), for any number of      *)
(* connections and any bounds, over a network that loses and delays but    *)
(* neither reorders nor duplicates, with ids left.  The views of the two   *)
(* ends are worked out first, then every step is looked at through them.   *)
(***************************************************************************)
EXTENDS StreamProofs

\* What is proved of every reachable state in the modules this one extends.
Reached == Known /\ IdleInv /\ HandInv /\ LinkInv

Nobody(c) == \A i \in Id : ~ Theirs(i, c)

\* What may still come out at r when udpclient has closed the connection.
Rest(r, net) == LastChunk(r, IF Hears(r, net) THEN net ELSE {})

LocalShown(c) ==
    /\ Silent(c) => LocalView(c) = IdleEnd
    /\ stage[c] = "closed" => LocalView(c) = GoneEnd
    /\ stage[c] = "open" =>
          /\ \A i \in Id : Theirs(i, c) => LocalView(c) = OpenEnd(local[c], remote[i].nread)
          /\ Nobody(c) => LocalView(c) = OpenEnd(local[c], LastChunk(local[c], down))

RemoteShown(c) ==
    /\ \A i \in Id : Theirs(i, c) =>
          /\ Silent(c) => RemoteView(c) = OpenEnd(remote[i], 0)
          /\ stage[c] = "open" => RemoteView(c) = OpenEnd(remote[i], local[c].nread)
          /\ stage[c] = "closed" => RemoteView(c) = OpenEnd(remote[i], Rest(remote[i], up))
    /\ Nobody(c) =>
          RemoteView(c) = IF stage[c] = "idle" \/ HelloComes(c) THEN IdleEnd ELSE GoneEnd

LEMMA TheirsIsIt ==
    ASSUME HandInv, NEW c \in Conn
    PROVE  /\ \A i \in Id : Theirs(i, c) => RemoteOf(c) # {} /\ TheRemote(c) = remote[i]
           /\ Nobody(c) => RemoteOf(c) = {}
  <1>1. ASSUME NEW i \in Id, Theirs(i, c)
        PROVE  RemoteOf(c) = {remote[i]}
    <2>1. \A j \in Id : Theirs(j, c) => j = i
      BY <1>1 DEF HandInv, OneId, Holds, Theirs
    <2> QED
      BY <1>1, <2>1 DEF RemoteOf, RemoteClients, Theirs
  <1>2. Nobody(c) => RemoteOf(c) = {}
    BY DEF RemoteOf, RemoteClients, Nobody, Theirs
  <1> QED
    BY <1>1, <1>2 DEF TheRemote

LEMMA Shown == Reached => \A c \in Conn : LocalShown(c) /\ RemoteShown(c)
  <1> SUFFICES ASSUME Reached, NEW c \in Conn
               PROVE  LocalShown(c) /\ RemoteShown(c)
    OBVIOUS
  <1>1. /\ \A i \in Id : Theirs(i, c) => RemoteOf(c) # {} /\ TheRemote(c) = remote[i]
        /\ Nobody(c) => RemoteOf(c) = {}
    BY TheirsIsIt DEF Reached
  <1>2. stage[c] \in {"idle", "pending", "open", "closed"}
    BY KnownGives DEF Reached, LocalOK, HoldInv, NoneLeaked, Stage
  <1>3. LocalShown(c)
    BY <1>1, <1>2 DEF LocalShown, LocalView, LocalDue, Silent
  <1>4. RemoteShown(c)
    BY <1>1, <1>2 DEF RemoteShown, RemoteView, RemoteDue, Rest, Silent
  <1> QED
    BY <1>3, <1>4

\* The same in the next state.
LEMMA ShownNext == Reached' => (\A c \in Conn : LocalShown(c) /\ RemoteShown(c))'
  BY Shown, PTL

-----------------------------------------------------------------------------
(* A change of what the two ends of one connection show is a step of Pipe. *)
(* An end shows s and then t, the other end f and then g.                  *)

Fewer(f, g) == \E n \in Len(f.out) .. f.due : g = [f EXCEPT !.due = n]

Opens(s, t, f, g) == s.phase = "idle" /\ t = [s EXCEPT !.phase = "open"] /\ g = f

PutsIn(s, t, f, g) ==
    /\ s.phase = "open" /\ f.phase # "gone"
    /\ t = s /\ g = [f EXCEPT !.due = @ + 1]

ComesOut(c, from, s, t, f, g) ==
    /\ s.phase = "open" /\ Len(s.out) < s.due
    /\ t = [s EXCEPT !.out = Append(s.out, [conn |-> c, from |-> from, n |-> Len(s.out) + 1])]
    /\ g = f

Leaves(s, t, f, g) == s.phase # "gone" /\ t = GoneEnd /\ Fewer(f, g)

Cuts(s, t, f, g) == f.phase = "gone" /\ Fewer(s, t) /\ g = f

Steps(c, from, s, t, f, g) ==
    \/ Opens(s, t, f, g)
    \/ PutsIn(s, t, f, g)
    \/ ComesOut(c, from, s, t, f, g)
    \/ Leaves(s, t, f, g)
    \/ Cuts(s, t, f, g)

\* The pipes of the other connections.
Elsewhere(c) ==
    \A d \in Conn \ {c} : LocalView(d)' = LocalView(d) /\ RemoteView(d)' = RemoteView(d)

LEMMA StepsOfPipe ==
    ASSUME NEW c \in Conn, Elsewhere(c),
           \/ Steps(c, "remote", LocalView(c), LocalView(c)', RemoteView(c), RemoteView(c)')
           \/ Steps(c, "local", RemoteView(c), RemoteView(c)', LocalView(c), LocalView(c)')
           \/ LocalView(c)' = LocalView(c) /\ RemoteView(c)' = RemoteView(c)
    PROVE  [Tunnel!Next]_Pipes
  <1>0. PICK l, m, r, q : /\ l = LocalView(c) /\ m = LocalView(c)'
                          /\ r = RemoteView(c) /\ q = RemoteView(c)'
    OBVIOUS
  <1>1. /\ Tunnel!End = {"local", "remote"}
        /\ Tunnel!Other("local") = "remote" /\ Tunnel!Other("remote") = "local"
    BY DEF Tunnel!End, Tunnel!Other
  <1>2. Pipes[c]["local"] = l /\ Pipes[c]["remote"] = r
    BY <1>0 DEF Pipes
  <1>3. /\ Tunnel!Move(c, "local", m, q)
        /\ Tunnel!Move(c, "remote", q, m)
    BY <1>0 DEF Tunnel!Move, Pipes, Tunnel!End, Elsewhere
  <1>4. CASE m = l /\ q = r
    BY <1>0, <1>4 DEF Pipes, Elsewhere
  <1>5. CASE Steps(c, "remote", l, m, r, q)
    <2>1. Opens(l, m, r, q) => Tunnel!Open(c, "local")
      BY <1>1, <1>2, <1>3 DEF Opens, Tunnel!Open
    <2>2. PutsIn(l, m, r, q) => Tunnel!PutIn(c, "local")
      BY <1>1, <1>2, <1>3 DEF PutsIn, Tunnel!PutIn
    <2>3. ComesOut(c, "remote", l, m, r, q) => Tunnel!ComeOut(c, "local")
      BY <1>1, <1>2, <1>3 DEF ComesOut, Tunnel!ComeOut, Tunnel!Piece
    <2>4. Leaves(l, m, r, q) => Tunnel!Leave(c, "local")
      BY <1>1, <1>2, <1>3 DEF Leaves, Fewer, GoneEnd, Tunnel!Leave, Tunnel!Gone, Tunnel!MayRemain
    <2>5. Cuts(l, m, r, q) => Tunnel!Cut(c, "local")
      BY <1>1, <1>2, <1>3 DEF Cuts, Fewer, Tunnel!Cut, Tunnel!MayRemain
    <2> QED
      BY <1>1, <1>5, <2>1, <2>2, <2>3, <2>4, <2>5 DEF Steps, Tunnel!Next
  <1>6. CASE Steps(c, "local", r, q, l, m)
    <2>1. Opens(r, q, l, m) => Tunnel!Open(c, "remote")
      BY <1>1, <1>2, <1>3 DEF Opens, Tunnel!Open
    <2>2. PutsIn(r, q, l, m) => Tunnel!PutIn(c, "remote")
      BY <1>1, <1>2, <1>3 DEF PutsIn, Tunnel!PutIn
    <2>3. ComesOut(c, "local", r, q, l, m) => Tunnel!ComeOut(c, "remote")
      BY <1>1, <1>2, <1>3 DEF ComesOut, Tunnel!ComeOut, Tunnel!Piece
    <2>4. Leaves(r, q, l, m) => Tunnel!Leave(c, "remote")
      BY <1>1, <1>2, <1>3 DEF Leaves, Fewer, GoneEnd, Tunnel!Leave, Tunnel!Gone, Tunnel!MayRemain
    <2>5. Cuts(r, q, l, m) => Tunnel!Cut(c, "remote")
      BY <1>1, <1>2, <1>3 DEF Cuts, Fewer, Tunnel!Cut, Tunnel!MayRemain
    <2> QED
      BY <1>1, <1>6, <2>1, <2>2, <2>3, <2>4, <2>5 DEF Steps, Tunnel!Next
  <1> QED
    BY <1>0, <1>4, <1>5, <1>6

\* What a client_t has written, as the pipe shows it.
LEMMA WrittenIs ==
    ASSUME NEW k \in ClientT
    PROVE  /\ Len(k.written) \in Nat /\ Len(Written(k)) = Len(k.written)
           /\ k.written = <<>> => Written(k) = <<>>
           /\ \A chunk \in Chunk :
                 Written(AfterWrite(k, chunk)) = Append(Written(k), Came(chunk))
  <1> DEFINE w == k.written
  <1>1. w \in Seq(Chunk)
    BY DEF ClientT
  <1>2. Len(w) \in Nat /\ DOMAIN w = 1 .. Len(w)
    BY <1>1
  <1>3. Written(k) = [j \in 1 .. Len(w) |-> Came(w[j])]
    BY <1>2 DEF Written
  <1>4. Written(k) \in Seq({Came(w[j]) : j \in 1 .. Len(w)}) /\ Len(Written(k)) = Len(w)
    BY <1>2, <1>3
  <1>5. ASSUME NEW chunk \in Chunk
        PROVE  Written(AfterWrite(k, chunk)) = Append(Written(k), Came(chunk))
    <2> DEFINE v == Append(w, chunk)
    <2>1. AfterWrite(k, chunk).written = v
      BY DEF AfterWrite, ClientT
    <2>2. /\ DOMAIN v = 1 .. (Len(w) + 1) /\ v[Len(w) + 1] = chunk
          /\ \A j \in 1 .. Len(w) : v[j] = w[j]
      BY <1>1
    <2>3. Written(AfterWrite(k, chunk)) = [j \in 1 .. (Len(w) + 1) |-> Came(v[j])]
      BY <2>1, <2>2 DEF Written
    <2>4. /\ DOMAIN Append(Written(k), Came(chunk)) = 1 .. (Len(w) + 1)
          /\ Append(Written(k), Came(chunk))[Len(w) + 1] = Came(chunk)
          /\ \A j \in 1 .. Len(w) : Append(Written(k), Came(chunk))[j] = Came(w[j])
      BY <1>3, <1>4
    <2> DEFINE x == Came(chunk)
               new == Append(Written(k), x)
    <2>5. new = [j \in 1 .. (Len(w) + 1) |-> new[j]]
      <3>1. Written(k) \in Seq({Came(w[j]) : j \in 1 .. Len(w)} \union {x})
        BY <1>2, <1>3
      <3> DEFINE T == {Came(w[j]) : j \in 1 .. Len(w)} \union {x}
      <3> HIDE DEF x, T
      <3>2. x \in T /\ Written(k) \in Seq(T)
        BY <3>1 DEF T
      <3>3. new \in Seq(T) /\ Len(new) = Len(w) + 1
        BY <1>4, <3>2
      <3> HIDE DEF new, w
      <3> QED
        BY <3>3
    <2>6. \A j \in 1 .. (Len(w) + 1) : new[j] = Came(v[j])
      <3> HIDE DEF v, new, w
      <3>1. \A j \in 1 .. (Len(w) + 1) : j = Len(w) + 1 \/ j \in 1 .. Len(w)
        BY <1>2
      <3> QED
        BY <2>2, <2>4, <3>1 DEF new
    <2> HIDE DEF new, v, w
    <2>7. new = [j \in 1 .. (Len(w) + 1) |-> Came(v[j])]
      BY <2>5, <2>6
    <2> QED
      BY <2>3, <2>7 DEF new
  <1>6. w = <<>> => Written(k) = <<>>
    BY <1>3
  <1> QED
    BY <1>2, <1>4, <1>5, <1>6

-----------------------------------------------------------------------------
(* When a connection looks the same after a step.                          *)

Alike(k, l) == k.written = l.written /\ k.nread = l.nread

LooksSame(d) ==
    /\ stage'[d] = stage[d]
    /\ stage[d] = "open" => Alike(local'[d], local[d])
    /\ \A i \in Id : Theirs(i, d)' <=> Theirs(i, d)
    /\ \A i \in Id : Theirs(i, d) =>
          /\ Alike(remote'[i], remote[i])
          /\ stage[d] = "closed" => Rest(remote'[i], up') = Rest(remote[i], up)
    /\ Nobody(d) =>
          /\ stage[d] = "open" => LastChunk(local'[d], down') = LastChunk(local[d], down)
          /\ stage[d] = "pending" => (HelloComes(d)' <=> HelloComes(d))

LEMMA OpenEndSame ==
    ASSUME NEW k, NEW l, Alike(k, l)
    PROVE  \A n : OpenEnd(k, n) = OpenEnd(l, n)
  BY DEF Alike, OpenEnd, Written

\* Only a connection that waits for its HELLOACK has a HELLO on its way.
LEMMA HelloIsPending ==
    ASSUME Reached
    PROVE  /\ \A c \in Conn : HelloComes(c) => stage[c] = "pending" /\ Nobody(c)
           /\ \A c \in Conn : stage[c] = "idle" => Nobody(c) /\ Quiet(c)
           /\ \A p, q \in up : p.type = "HELLO" /\ q.type = "HELLO" /\ p.conn = q.conn => p = q
  <1>1. \A p \in up : p.type = "HELLO" => FirstContact(p)
    BY DEF Reached, HandInv, OnUp
  <1>2. ASSUME NEW c \in Conn, HelloComes(c)
        PROVE  stage[c] = "pending" /\ Nobody(c)
    BY <1>1, <1>2 DEF HelloComes, FirstContact, Nobody, Holds, Theirs
  <1>3. \A c \in Conn : stage[c] = "idle" => Nobody(c) /\ Quiet(c)
    BY DEF Reached, IdleInv, Unknown, Nobody, Theirs
  <1>4. \A p, q \in up : p.type = "HELLO" /\ q.type = "HELLO" /\ p.conn = q.conn => p = q
    BY <1>1 DEF FirstContact
  <1> QED
    BY <1>2, <1>3, <1>4

LEMMA HelloIsPendingNext ==
    Reached' => (\A c \in Conn : HelloComes(c) => stage[c] = "pending" /\ Nobody(c))'
  <1>1. Reached => \A c \in Conn : HelloComes(c) => stage[c] = "pending" /\ Nobody(c)
    BY HelloIsPending
  <1> QED
    BY <1>1, PTL

LEMMA StageIs ==
    ASSUME Reached, NEW c \in Conn
    PROVE  /\ Silent(c) \/ stage[c] = "open" \/ stage[c] = "closed"
           /\ Silent(c) => stage[c] # "open" /\ stage[c] # "closed"
  BY KnownGives DEF Reached, LocalOK, HoldInv, NoneLeaked, Stage, Silent

LEMMA LooksSameView ==
    ASSUME Reached, Reached', NEW d \in Conn, LooksSame(d)
    PROVE  LocalView(d)' = LocalView(d) /\ RemoteView(d)' = RemoteView(d)
  <1>1. LocalShown(d) /\ RemoteShown(d)
    BY Shown
  <1>2. LocalShown(d)' /\ RemoteShown(d)'
    BY ShownNext
  <1>3. Silent(d) \/ stage[d] = "open" \/ stage[d] = "closed"
    BY StageIs
  <1>4. Silent(d)' <=> Silent(d)
    BY DEF LooksSame, Silent
  <1>5. Nobody(d)' <=> Nobody(d)
    BY DEF LooksSame, Nobody
  <1>6. stage'[d] = stage[d] /\ \A i \in Id : Theirs(i, d)' <=> Theirs(i, d)
    BY DEF LooksSame
  <1>7. LocalView(d)' = LocalView(d)
    <2>1. CASE Silent(d)
      BY <1>1, <1>2, <1>4, <2>1 DEF LocalShown
    <2>2. CASE stage[d] = "closed"
      BY <1>1, <1>2, <1>6, <2>2 DEF LocalShown
    <2>3. CASE stage[d] = "open"
      <3>1. \A n : OpenEnd(local'[d], n) = OpenEnd(local[d], n)
        BY <2>3, OpenEndSame DEF LooksSame
      <3>2. CASE Nobody(d)
        BY <1>1, <1>2, <1>5, <1>6, <2>3, <3>1, <3>2 DEF LocalShown, LooksSame
      <3>3. ASSUME NEW i \in Id, Theirs(i, d)
            PROVE  LocalView(d)' = LocalView(d)
        BY <1>1, <1>2, <1>6, <2>3, <3>1, <3>3 DEF LocalShown, LooksSame, Alike
      <3> QED
        BY <3>2, <3>3 DEF Nobody
    <2> QED
      BY <1>3, <2>1, <2>2, <2>3
  <1>8. RemoteView(d)' = RemoteView(d)
    <2>1. ASSUME NEW i \in Id, Theirs(i, d)
          PROVE  RemoteView(d)' = RemoteView(d)
      <3>1. \A n : OpenEnd(remote'[i], n) = OpenEnd(remote[i], n)
        BY <2>1, OpenEndSame DEF LooksSame
      <3>2. CASE Silent(d)
        BY <1>1, <1>2, <1>4, <1>6, <2>1, <3>1, <3>2 DEF RemoteShown
      <3>3. CASE stage[d] = "open"
        BY <1>1, <1>2, <1>6, <2>1, <3>1, <3>3 DEF RemoteShown, LooksSame, Alike
      <3>4. CASE stage[d] = "closed"
        BY <1>1, <1>2, <1>6, <2>1, <3>1, <3>4 DEF RemoteShown, LooksSame
      <3> QED
        BY <1>3, <3>2, <3>3, <3>4
    <2>2. CASE Nobody(d)
      <3>1. stage[d] \notin {"idle", "pending"} => ~ HelloComes(d) /\ ~ HelloComes(d)'
        BY <1>6, HelloIsPending, HelloIsPendingNext
      <3> QED
        BY <1>1, <1>2, <1>5, <1>6, <2>2, <3>1 DEF RemoteShown, LooksSame
    <2> QED
      BY <2>1, <2>2 DEF Nobody
  <1> QED
    BY <1>7, <1>8

\* A connection the step is not about.  The GOODBYE of a connection that was
\* turned away may reach the client_t of another one.
Untouched(d) ==
    /\ stage'[d] = stage[d] /\ local'[d] = local[d]
    /\ \A i \in Id : Theirs(i, d)' <=> Theirs(i, d)
    /\ \A i \in Id : Theirs(i, d) => remote'[i] = remote[i]
    /\ \A p : p.conn = d /\ p.type # "GOODBYE" =>
          (p \in up' <=> p \in up) /\ (p \in down' <=> p \in down)

LEMMA SameMail ==
    ASSUME NEW k, NEW net, NEW rest,
           \A p : p.conn = k.udp_sock /\ p.type \notin {"GOODBYE"} \union Ack =>
               (p \in rest <=> p \in net)
    PROVE  LastChunk(k, rest) = LastChunk(k, net) /\ Rest(k, rest) = Rest(k, net)
  <1>1. LastChunk(k, rest) = LastChunk(k, net) /\ (Hears(k, rest) <=> Hears(k, net))
    BY DEF LastChunk, Hears, Data, Ack
  <1> QED
    BY <1>1 DEF Rest

LEMMA UntouchedLooksSame ==
    ASSUME Reached, NEW d \in Conn, Untouched(d)
    PROVE  LooksSame(d)
  <1>1. LocalOK
    BY KnownGives DEF Reached
  <1>2. stage[d] = "open" => local[d].udp_sock = d
    BY <1>1 DEF LocalOK, Listed
  <1>3. stage[d] = "open" => LastChunk(local'[d], down') = LastChunk(local[d], down)
    BY <1>2, SameMail DEF Untouched
  <1>4. \A i \in Id : Theirs(i, d) => Rest(remote'[i], up') = Rest(remote[i], up)
    BY SameMail DEF Untouched, Theirs
  <1>5. HelloComes(d)' <=> HelloComes(d)
    BY DEF Untouched, HelloComes
  <1> QED
    BY <1>3, <1>4, <1>5 DEF Untouched, LooksSame, Alike

LEMMA UntouchedElsewhere ==
    ASSUME Reached, Reached', NEW c \in Conn, \A d \in Conn \ {c} : Untouched(d)
    PROVE  Elsewhere(c)
  BY UntouchedLooksSame, LooksSameView DEF Elsewhere

-----------------------------------------------------------------------------
(* How much is due.                                                        *)

\* A chunk on its way counts.
LEMMA LastChunkIs ==
    ASSUME NEW k, NEW net
    PROVE  /\ DataOf(k.udp_sock, net) = {} => LastChunk(k, net) = Len(k.written) + 0
           /\ DataOf(k.udp_sock, net) # {} => LastChunk(k, net) = Len(k.written) + 1
  BY DEF LastChunk, DataOf

\* What l may still write, k has read; if a chunk is on its way l has not
\* written all of them.
LEMMA MatchedCounts ==
    ASSUME NEW k \in ClientT, Steady(k), NEW l \in ClientT, l.udp_sock = k.udp_sock,
           NEW net, NEW back, Matched(k, l, net, back)
    PROVE  /\ LastChunk(l, net) \in Len(l.written) .. k.nread
           /\ DataOf(l.udp_sock, net) # {} => Len(l.written) < k.nread
  <1>1. PICK a \in Nat : Backlog(k, a) /\ InStep(k, a, l, net, back)
    BY DEF Matched
  <1> DEFINE w == Len(l.written)
             q == Len(k.tcp2udp_q)
  <1>2. w \in Nat /\ q \in Nat /\ k.nread = a + q /\ k.nread \in Nat
    BY <1>1 DEF ClientT, Backlog
  <1>3. WaitsForAck(k) => q > 0
    BY <1>2 DEF Steady, ClientT
  <1>4. w = a \/ (w = a + 1 /\ WaitsForAck(k))
    BY <1>1 DEF InStep
  <1>5. DataOf(l.udp_sock, net) # {} => WaitsForAck(k) /\ w = a
    BY <1>1 DEF InStep
  <1>6. /\ DataOf(l.udp_sock, net) = {} => LastChunk(l, net) = w + 0
        /\ DataOf(l.udp_sock, net) # {} => LastChunk(l, net) = w + 1
    BY LastChunkIs
  <1> HIDE DEF w, q
  <1>7. w =< k.nread /\ (DataOf(l.udp_sock, net) # {} => w < k.nread)
    BY <1>2, <1>3, <1>4, <1>5
  <1>8. LastChunk(l, net) \in w .. k.nread
    BY <1>2, <1>6, <1>7
  <1> QED
    BY <1>7, <1>8 DEF w

\* Both ends are there.
LEMMA BothCount ==
    ASSUME InOrder, Reached, NEW c \in Conn, stage[c] = "open", NEW i \in Id, Theirs(i, c)
    PROVE  /\ LastChunk(local[c], down) \in Len(local[c].written) .. remote[i].nread
           /\ DataOf(c, down) # {} => Len(local[c].written) < remote[i].nread
           /\ Rest(remote[i], up) \in Len(remote[i].written) .. local[c].nread
           /\ Hears(remote[i], up) /\ DataOf(c, up) # {} =>
                  Len(remote[i].written) < local[c].nread
  <1> DEFINE l == local[c]
             r == remote[i]
  <1>1. /\ l \in ClientT /\ l.udp_sock = c /\ Steady(l)
        /\ r \in ClientT /\ r.udp_sock = c /\ Joined(l, r, up, down)
    BY OpenGives DEF Reached
  <1>2. Steady(r) /\ RemoteEnd(r, i, up)
    BY SockOf DEF Reached, LinkInv, Theirs
  <1>3. Matched(r, l, down, up)
    BY <1>1 DEF Joined
  <1>4. CASE Hears(r, up)
    <2>1. Matched(l, r, up, down)
      BY <1>1, <1>4 DEF Joined
    <2>2. Rest(r, up) = LastChunk(r, up)
      BY <1>4 DEF Rest
    <2> HIDE DEF l, r
    <2> QED
      BY <1>1, <1>2, <1>3, <2>1, <2>2, MatchedCounts DEF l, r
  <1>5. CASE ~ Hears(r, up)
    <2>1. r.written = <<>>
      BY <1>2, <1>5 DEF RemoteEnd, Hears
    <2>2. Rest(r, up) = LastChunk(r, {}) /\ DataOf(c, {}) = {}
      BY <1>5 DEF Rest, DataOf
    <2>3. Rest(r, up) = 0 /\ Len(r.written) = 0
      BY <1>1, <2>1, <2>2, LastChunkIs
    <2>4. l.nread \in Nat
      BY <1>1 DEF ClientT
    <2> HIDE DEF l, r
    <2>5. Rest(r, up) \in Len(r.written) .. l.nread
      BY <2>3, <2>4
    <2> QED
      BY <1>1, <1>2, <1>3, <1>5, <2>5, MatchedCounts DEF l, r
  <1> QED
    BY <1>4, <1>5

LEMMA FewerIsLess ==
    ASSUME NEW k \in ClientT, NEW due, NEW n \in Len(k.written) .. due
    PROVE  Fewer(OpenEnd(k, due), OpenEnd(k, n))
  <1>1. OpenEnd(k, due).due = due /\ Len(OpenEnd(k, due).out) = Len(k.written)
    BY WrittenIs DEF OpenEnd
  <1>2. OpenEnd(k, n) = [OpenEnd(k, due) EXCEPT !.due = n]
    BY DEF OpenEnd
  <1> QED
    BY <1>1, <1>2 DEF Fewer

LEMMA NothingFewer == Fewer(IdleEnd, IdleEnd) /\ Fewer(GoneEnd, GoneEnd)
  <1>1. /\ IdleEnd = [IdleEnd EXCEPT !.due = 0] /\ GoneEnd = [GoneEnd EXCEPT !.due = 0]
        /\ IdleEnd.due = 0 /\ IdleEnd.out = <<>> /\ GoneEnd.due = 0 /\ GoneEnd.out = <<>>
    BY DEF IdleEnd, GoneEnd
  <1>2. 0 \in Len(<<>>) .. 0
    OBVIOUS
  <1> QED
    BY <1>1, <1>2 DEF Fewer

LEMMA Phases ==
    /\ IdleEnd.phase = "idle" /\ GoneEnd.phase = "gone"
    /\ \A k, n : OpenEnd(k, n).phase = "open" /\ OpenEnd(k, n).due = n
  BY DEF IdleEnd, GoneEnd, OpenEnd

LEMMA LessIsDue ==
    ASSUME NEW k \in ClientT, NEW net, NEW rest,
           DataOf(k.udp_sock, rest) \subseteq DataOf(k.udp_sock, net)
    PROVE  /\ LastChunk(k, rest) \in Len(k.written) .. LastChunk(k, net)
           /\ (Hears(k, rest) => Hears(k, net)) =>
                  Rest(k, rest) \in Len(k.written) .. Rest(k, net)
  <1>1. Len(k.written) \in Nat
    BY WrittenIs
  <1>2. /\ LastChunk(k, rest) \in Len(k.written) .. LastChunk(k, net)
        /\ LastChunk(k, {}) \in Len(k.written) .. LastChunk(k, net)
        /\ LastChunk(k, {}) \in Len(k.written) .. LastChunk(k, {})
    <2> DEFINE n == Len(k.written)
    <2>1. DataOf(k.udp_sock, {}) = {}
      BY DEF DataOf
    <2>2. /\ LastChunk(k, {}) = n + 0
          /\ \/ LastChunk(k, rest) = n + 0
             \/ LastChunk(k, rest) = n + 1 /\ LastChunk(k, net) = n + 1
          /\ LastChunk(k, net) \in {n + 0, n + 1}
      BY <2>1, LastChunkIs
    <2> HIDE DEF n
    <2>3. n \in Nat
      BY <1>1 DEF n
    <2>4. /\ LastChunk(k, rest) \in n .. LastChunk(k, net)
          /\ LastChunk(k, {}) \in n .. LastChunk(k, net)
          /\ LastChunk(k, {}) \in n .. LastChunk(k, {})
      BY <2>2, <2>3
    <2> QED
      BY <2>4 DEF n
  <1> QED
    BY <1>2 DEF Rest

-----------------------------------------------------------------------------
(* A message disappears: it is lost, ignored, or dropped by a closed socket. *)

LEMMA UpVanishes ==
    ASSUME Reached, Reached', UNCHANGED <<stage, local, remote, down>>,
           NEW p \in up, up' = up \ {p}, NEW c, c = p.conn
    PROVE  [Tunnel!Next]_Pipes
  <1>1. c \in Conn
    BY KnownGives, MessageFields DEF Reached, NetOK
  <1>2. stage' = stage /\ local' = local /\ remote' = remote /\ down' = down
    OBVIOUS
  <1>3. /\ \A d \in Conn : \A i \in Id : Theirs(i, d)' <=> Theirs(i, d)
        /\ Nobody(c)' <=> Nobody(c)
        /\ Silent(c)' <=> Silent(c)
        /\ HelloComes(c)' => HelloComes(c)
    BY <1>2 DEF Theirs, Nobody, Silent, HelloComes
  <1>4. Elsewhere(c)
    <2>1. \A d \in Conn \ {c} : Untouched(d)
      BY <1>2, <1>3 DEF Untouched
    <2> QED
      BY <1>1, <2>1, UntouchedElsewhere
  <1>5. LocalShown(c) /\ RemoteShown(c) /\ LocalShown(c)' /\ RemoteShown(c)'
    BY <1>1, Shown, ShownNext
  <1>6. CASE LooksSame(c)
    BY <1>1, <1>4, <1>6, LooksSameView, StepsOfPipe
  <1>7. CASE Nobody(c)
    <2>1. CASE stage[c] = "pending" /\ HelloComes(c) /\ ~ HelloComes(c)'
      <3>1. Silent(c) /\ Silent(c)' /\ Nobody(c)' /\ stage'[c] = "pending"
        BY <1>2, <1>3, <1>7, <2>1 DEF Silent
      <3>2. /\ LocalView(c) = IdleEnd /\ LocalView(c)' = IdleEnd
            /\ RemoteView(c) = IdleEnd /\ RemoteView(c)' = GoneEnd
        BY <1>5, <1>7, <2>1, <3>1 DEF LocalShown, RemoteShown
      <3>3. Leaves(RemoteView(c), RemoteView(c)', LocalView(c), LocalView(c)')
        BY <3>2, NothingFewer, Phases DEF Leaves
      <3> QED
        BY <1>1, <1>4, <3>3, StepsOfPipe DEF Steps
    <2>2. CASE ~ (stage[c] = "pending" /\ HelloComes(c) /\ ~ HelloComes(c)')
      <3>1. Alike(local[c], local[c]) /\ \A i \in Id : ~ Theirs(i, c)
        BY <1>7 DEF Alike, Nobody
      <3>2. LooksSame(c)
        BY <1>1, <1>2, <1>3, <2>2, <3>1 DEF LooksSame
      <3> QED
        BY <1>6, <3>2
    <2> QED
      BY <2>1, <2>2
  <1>8. ASSUME NEW i \in Id, Theirs(i, c), stage[c] = "closed"
        PROVE  [Tunnel!Next]_Pipes
    <2>1. PICK r : r = remote[i]
      OBVIOUS
    <2>2. r \in ClientT /\ remote'[i] = r
      BY <1>2, <1>8, <2>1, SockOf DEF Reached, Theirs
    <2>3. Theirs(i, c)' /\ stage'[c] = "closed" /\ ~ Silent(c) /\ ~ Silent(c)'
      BY <1>1, <1>2, <1>3, <1>8 DEF Silent
    <2>4. LocalView(c) = GoneEnd /\ LocalView(c)' = GoneEnd
      BY <1>5, <1>8, <2>3 DEF LocalShown
    <2>5. RemoteView(c) = OpenEnd(r, Rest(r, up)) /\ RemoteView(c)' = OpenEnd(r, Rest(r, up'))
      BY <1>5, <1>8, <2>1, <2>2, <2>3 DEF RemoteShown
    <2>6. Rest(r, up') \in Len(r.written) .. Rest(r, up)
      <3>1. /\ DataOf(r.udp_sock, up') \subseteq DataOf(r.udp_sock, up)
            /\ Hears(r, up') => Hears(r, up)
        BY DEF DataOf, Hears
      <3> QED
        BY <2>2, <3>1, LessIsDue
    <2>7. Fewer(RemoteView(c), RemoteView(c)')
      BY <2>2, <2>5, <2>6, FewerIsLess
    <2>8. Cuts(RemoteView(c), RemoteView(c)', LocalView(c), LocalView(c)')
      BY <2>4, <2>7, Phases DEF Cuts
    <2> QED
      BY <1>1, <1>4, <2>8, StepsOfPipe DEF Steps
  <1>9. ASSUME NEW i \in Id, Theirs(i, c), stage[c] # "closed"
        PROVE  LooksSame(c)
    <2>1. ~ Nobody(c) /\ \A k : Alike(k, k)
      BY <1>9 DEF Nobody, Alike
    <2> QED
      BY <1>1, <1>2, <1>3, <1>9, <2>1 DEF LooksSame
  <1> QED
    BY <1>6, <1>7, <1>8, <1>9 DEF Nobody

LEMMA DownVanishes ==
    ASSUME Reached, Reached', UNCHANGED <<stage, local, remote, up>>,
           NEW p \in down, down' = down \ {p}, NEW c, c = p.conn
    PROVE  [Tunnel!Next]_Pipes
  <1>1. c \in Conn
    BY KnownGives, MessageFields DEF Reached, NetOK
  <1>2. stage' = stage /\ local' = local /\ remote' = remote /\ up' = up
    OBVIOUS
  <1>3. /\ \A d \in Conn : \A i \in Id : Theirs(i, d)' <=> Theirs(i, d)
        /\ Nobody(c)' <=> Nobody(c)
        /\ HelloComes(c)' <=> HelloComes(c)
    BY <1>2 DEF Theirs, Nobody, HelloComes
  <1>4. Elsewhere(c)
    <2>1. \A d \in Conn \ {c} : Untouched(d)
      BY <1>2, <1>3 DEF Untouched
    <2> QED
      BY <1>1, <2>1, UntouchedElsewhere
  <1>5. LocalShown(c) /\ RemoteShown(c) /\ LocalShown(c)' /\ RemoteShown(c)'
    BY <1>1, Shown, ShownNext
  <1>6. CASE Nobody(c) /\ stage[c] = "open"
    <2>1. PICK l : l = local[c]
      OBVIOUS
    <2>2. l \in ClientT /\ local'[c] = l /\ stage'[c] = "open" /\ Nobody(c)'
      BY <1>1, <1>2, <1>3, <1>6, <2>1, OpenGives DEF Reached
    <2>3. /\ LocalView(c) = OpenEnd(l, LastChunk(l, down))
          /\ LocalView(c)' = OpenEnd(l, LastChunk(l, down'))
      BY <1>5, <1>6, <2>1, <2>2 DEF LocalShown
    <2>4. RemoteView(c) = GoneEnd /\ RemoteView(c)' = GoneEnd
      <3>1. ~ HelloComes(c) /\ ~ HelloComes(c)'
        BY <1>1, <1>3, <1>6, HelloIsPending
      <3> QED
        BY <1>5, <1>6, <2>2, <3>1 DEF RemoteShown
    <2>5. LastChunk(l, down') \in Len(l.written) .. LastChunk(l, down)
      <3>1. DataOf(l.udp_sock, down') \subseteq DataOf(l.udp_sock, down)
        BY DEF DataOf
      <3> QED
        BY <2>2, <3>1, LessIsDue
    <2>6. Fewer(LocalView(c), LocalView(c)')
      BY <2>2, <2>3, <2>5, FewerIsLess
    <2>7. Cuts(LocalView(c), LocalView(c)', RemoteView(c), RemoteView(c)')
      BY <2>4, <2>6, Phases DEF Cuts
    <2> QED
      BY <1>1, <1>4, <2>7, StepsOfPipe DEF Steps
  <1>7. CASE ~ (Nobody(c) /\ stage[c] = "open")
    <2>1. \A i \in Id : Rest(remote'[i], up') = Rest(remote[i], up)
      BY <1>2
    <2>2. \A k : Alike(k, k)
      BY DEF Alike
    <2>3. LooksSame(c)
      BY <1>1, <1>2, <1>3, <1>7, <2>1, <2>2 DEF LooksSame
    <2> QED
      BY <1>1, <1>4, <2>3, LooksSameView, StepsOfPipe
  <1> QED
    BY <1>6, <1>7

-----------------------------------------------------------------------------
(* udpclient.                                                              *)

LEMMA PipeAccept ==
    ASSUME Reached, Reached', UNCHANGED remoteVars, NEW c \in Conn, Accept(c)
    PROVE  [Tunnel!Next]_Pipes
  <1>1. LocalOK
    BY KnownGives DEF Reached
  <1>2. /\ stage[c] = "idle" /\ stage'[c] = "pending"
        /\ \A d \in Conn \ {c} : stage'[d] = stage[d] /\ local'[d] = local[d]
        /\ up' = up \union {Packet(c, 0, "HELLO")}
        /\ down' = down
    BY <1>1 DEF Accept, LocalOK
  <1>3. remote' = remote
    BY DEF remoteVars
  <1>4. /\ \A d \in Conn : \A i \in Id : Theirs(i, d)' <=> Theirs(i, d)
        /\ Nobody(c)' <=> Nobody(c)
        /\ HelloComes(c)'
    <2>1. Packet(c, 0, "HELLO").type = "HELLO" /\ Packet(c, 0, "HELLO").conn = c
      BY DEF Packet
    <2>2. HelloComes(c)'
      BY <1>2, <2>1 DEF HelloComes
    <2> QED
      BY <1>3, <2>2 DEF Theirs, Nobody
  <1>5. \A d \in Conn \ {c} : Untouched(d)
    BY <1>2, <1>3, <1>4 DEF Untouched, Packet
  <1>6. Elsewhere(c)
    BY <1>5, UntouchedElsewhere
  <1>7. LocalShown(c) /\ RemoteShown(c) /\ LocalShown(c)' /\ RemoteShown(c)'
    BY Shown, ShownNext
  <1>8. Nobody(c) /\ Nobody(c)' /\ Silent(c) /\ Silent(c)'
    BY <1>2, <1>4, HelloIsPending DEF Silent
  <1>9. LocalView(c)' = LocalView(c) /\ RemoteView(c)' = RemoteView(c)
    BY <1>2, <1>4, <1>7, <1>8 DEF LocalShown, RemoteShown
  <1> QED
    BY <1>6, <1>9, StepsOfPipe

\* What is the same in any other iteration.
LEMMA LocalKeeps ==
    ASSUME Reached, Reached', UNCHANGED remoteVars, NEW c \in Conn, LocalFrame(c)
    PROVE  /\ Elsewhere(c)
           /\ remote' = remote
           /\ \A i \in Id : Theirs(i, c)' <=> Theirs(i, c)
           /\ Nobody(c)' <=> Nobody(c)
           /\ LocalShown(c) /\ RemoteShown(c) /\ LocalShown(c)' /\ RemoteShown(c)'
           /\ stage[c] # "pending" => ~ HelloComes(c)
           /\ stage'[c] # "pending" => ~ HelloComes(c)'
           /\ stage[c] \in {"pending", "open"}
  <1>1. remote' = remote
    BY DEF remoteVars
  <1>2. \A d \in Conn : \A i \in Id : Theirs(i, d)' <=> Theirs(i, d)
    BY <1>1 DEF Theirs
  <1>3. \A d \in Conn \ {c} : Untouched(d)
    BY <1>1, <1>2 DEF Untouched, LocalFrame
  <1>4. Elsewhere(c)
    BY <1>3, UntouchedElsewhere
  <1>5. Nobody(c)' <=> Nobody(c)
    BY <1>2 DEF Nobody
  <1>6. LocalShown(c) /\ RemoteShown(c) /\ LocalShown(c)' /\ RemoteShown(c)'
    BY Shown, ShownNext
  <1>7. stage[c] # "pending" => ~ HelloComes(c)
    BY HelloIsPending
  <1>8. stage'[c] # "pending" => ~ HelloComes(c)'
    BY HelloIsPendingNext
  <1> QED
    BY <1>1, <1>2, <1>4, <1>5, <1>6, <1>7, <1>8 DEF LocalFrame, Listed

\* Nothing is read and nothing written.
LEMMA LocalStands ==
    ASSUME Reached, Reached', UNCHANGED remoteVars, NEW c \in Conn, LocalFrame(c),
           stage[c] = "open", stage'[c] = "open", Alike(local'[c], local[c]),
           local'[c].udp_sock = local[c].udp_sock,
           DataOf(local[c].udp_sock, down') = DataOf(local[c].udp_sock, down)
    PROVE  [Tunnel!Next]_Pipes
  <1>1. /\ Elsewhere(c) /\ remote' = remote
        /\ \A i \in Id : Theirs(i, c)' <=> Theirs(i, c)
    BY LocalKeeps
  <1>2. LastChunk(local'[c], down') = LastChunk(local[c], down)
    <2>1. PICK k, l, net, rest : k = local'[c] /\ l = local[c] /\ net = down /\ rest = down'
      OBVIOUS
    <2>2. Len(k.written) = Len(l.written) /\ DataOf(k.udp_sock, rest) = DataOf(l.udp_sock, net)
      BY <2>1 DEF Alike
    <2>3. LastChunk(k, rest) = LastChunk(l, net)
      BY <2>2, LastChunkIs
    <2> QED
      BY <2>1, <2>3
  <1>3. \A k : Alike(k, k)
    BY DEF Alike
  <1>4. LooksSame(c)
    BY <1>1, <1>2, <1>3 DEF LooksSame
  <1> QED
    BY <1>1, <1>4, LooksSameView, StepsOfPipe

\* A chunk is read from the TCP socket.
LEMMA LocalReads ==
    ASSUME Reached, Reached', UNCHANGED remoteVars, NEW c \in Conn, LocalFrame(c),
           stage[c] = "open", stage'[c] = "open", down' = down,
           NEW l, l = local[c], NEW k, k = local'[c],
           k.written = l.written, k.udp_sock = l.udp_sock, k.nread = l.nread + 1
    PROVE  [Tunnel!Next]_Pipes
  <1>1. /\ Elsewhere(c) /\ remote' = remote
        /\ \A i \in Id : Theirs(i, c)' <=> Theirs(i, c)
        /\ Nobody(c)' <=> Nobody(c)
        /\ LocalShown(c) /\ RemoteShown(c) /\ LocalShown(c)' /\ RemoteShown(c)'
        /\ ~ HelloComes(c) /\ ~ HelloComes(c)'
    BY LocalKeeps
  <1>2. \A n : OpenEnd(k, n) = OpenEnd(l, n)
    BY DEF OpenEnd, Written
  <1>3. CASE Nobody(c)
    <2>1. LastChunk(k, down') = LastChunk(l, down)
      BY DEF LastChunk
    <2>2. LocalView(c)' = LocalView(c)
      BY <1>1, <1>2, <1>3, <2>1 DEF LocalShown
    <2>3. RemoteView(c)' = RemoteView(c)
      BY <1>1, <1>3 DEF RemoteShown
    <2> QED
      BY <1>1, <2>2, <2>3, StepsOfPipe
  <1>4. ASSUME NEW i \in Id, Theirs(i, c)
        PROVE  [Tunnel!Next]_Pipes
    <2>1. PICK r : r = remote[i] /\ r = remote'[i]
      BY <1>1
    <2>2. LocalView(c) = OpenEnd(l, r.nread) /\ LocalView(c)' = OpenEnd(k, r.nread)
      BY <1>1, <1>4, <2>1 DEF LocalShown
    <2>3. RemoteView(c) = OpenEnd(r, l.nread) /\ RemoteView(c)' = OpenEnd(r, l.nread + 1)
      BY <1>1, <1>4, <2>1 DEF RemoteShown
    <2>4. OpenEnd(r, l.nread + 1) = [OpenEnd(r, l.nread) EXCEPT !.due = @ + 1]
      BY DEF OpenEnd
    <2>5. PutsIn(LocalView(c), LocalView(c)', RemoteView(c), RemoteView(c)')
      BY <1>2, <2>2, <2>3, <2>4, Phases DEF PutsIn
    <2> QED
      BY <1>1, <2>5, StepsOfPipe DEF Steps
  <1> QED
    BY <1>3, <1>4 DEF Nobody

LEMMA OtherOut ==
    ASSUME NEW k, NEW l, NEW m
    PROVE  OpenEnd(k, m) = [OpenEnd(l, m) EXCEPT !.out = Written(k)]
  BY DEF OpenEnd

\* Both programs: the n-th chunk, and the pipe's next piece.
LEMMA OneMoreOut ==
    ASSUME NEW c, NEW from, NEW l, NEW k, NEW chunk, NEW n, Len(Written(l)) = n,
           Written(k) = Append(Written(l), Came(chunk)),
           Came(chunk) = [conn |-> c, from |-> from, n |-> n + 1],
           NEW m, n < m, NEW y
    PROVE  ComesOut(c, from, OpenEnd(l, m), OpenEnd(k, m), y, y)
  <1>1. PICK s, w : s = OpenEnd(l, m) /\ w = Written(k)
    OBVIOUS
  <1>2. s.phase = "open" /\ s.due = m /\ s.out = Written(l)
    BY <1>1 DEF OpenEnd
  <1>3. OpenEnd(k, m) = [s EXCEPT !.out = w]
    <2>1. OpenEnd(k, m) = [OpenEnd(l, m) EXCEPT !.out = Written(k)]
      BY OtherOut
    <2> QED
      BY <1>1, <2>1, Zenon
  <1>4. Len(s.out) = n /\ w = Append(s.out, [conn |-> c, from |-> from, n |-> n + 1])
    BY <1>1, <1>2
  <1>5. OpenEnd(k, m) =
            [s EXCEPT !.out =
                Append(s.out, [conn |-> c, from |-> from, n |-> Len(s.out) + 1])]
    BY <1>3, <1>4, Zenon
  <1>6. n < m /\ s.due = m
    BY <1>2
  <1> QED
    BY <1>1, <1>2, <1>4, <1>5, <1>6, Zenon DEF ComesOut

\* A chunk comes for an open client, which writes it.
LEMMA LocalWrites ==
    ASSUME InOrder, Reached, Reached', UNCHANGED remoteVars, NEW c \in Conn, LocalFrame(c),
           stage[c] = "open", stage'[c] = "open",
           NEW p \in DataOf(c, down), down' = down \ {p}, p.chunk \in Chunk,
           NEW l, l = local[c], NEW k, k = local'[c],
           k.udp_sock = l.udp_sock, k.nread = l.nread, k.written = Append(l.written, p.chunk)
    PROVE  [Tunnel!Next]_Pipes
  <1>1. /\ Elsewhere(c) /\ remote' = remote
        /\ \A i \in Id : Theirs(i, c)' <=> Theirs(i, c)
        /\ Nobody(c)' <=> Nobody(c)
        /\ LocalShown(c) /\ RemoteShown(c) /\ LocalShown(c)' /\ RemoteShown(c)'
        /\ ~ HelloComes(c) /\ ~ HelloComes(c)'
    BY LocalKeeps
  <1>2. l \in ClientT /\ l.udp_sock = c /\ LocalEnd(l, down)
    BY OpenGives DEF Reached
  <1> DEFINE n == Len(l.written)
             due == LocalView(c).due
  <1>3. \A q \in DataOf(c, down) : q = DataPacket(c, l.id, Wants(l), ChunkOf(c, l.id, n + 1))
    BY <1>2 DEF LocalEnd, Reads, Coming
  <1>4. p.chunk = ChunkOf(c, l.id, n + 1) /\ DataOf(c, down') = {}
    BY <1>3 DEF DataPacket, DataOf
  <1>5. l.id # 0
    <2>1. l.udp2tcp_state # "WAIT_HELLO" /\ OwnLocal
      BY OpenGives, KnownGives DEF Reached, OwnInv
    <2>2. 0 < l.id
      BY <2>1 DEF OwnLocal, Mine, Owned, Listed
    <2> QED
      BY <2>2
  <1>6. Came(p.chunk) = [conn |-> c, from |-> "remote", n |-> n + 1]
    BY <1>4, <1>5 DEF Came, ChunkOf
  <1>7. Written(k) = Append(Written(l), Came(p.chunk)) /\ Len(Written(l)) = n /\ n \in Nat
    <2>1. AfterWrite(l, p.chunk).written = k.written
      BY <1>2 DEF AfterWrite, ClientT
    <2>2. Written(AfterWrite(l, p.chunk)) = Written(k)
      BY <2>1 DEF Written
    <2> QED
      BY <1>2, <2>2, WrittenIs
  <1>8. ASSUME NEW m, n < m, NEW y
        PROVE  ComesOut(c, "remote", OpenEnd(l, m), OpenEnd(k, m), y, y)
    BY <1>6, <1>7, <1>8, OneMoreOut
  <1>9. CASE Nobody(c)
    <2>1. LastChunk(l, down) = n + 1 /\ LastChunk(k, down') = Len(k.written) + 0
      BY <1>2, <1>4, LastChunkIs
    <2>2. Len(k.written) = n + 1
      BY <1>2 DEF ClientT
    <2>3. LastChunk(k, down') = n + 1 /\ n < n + 1
      BY <1>7, <2>1, <2>2
    <2>4. /\ LocalView(c) = OpenEnd(l, n + 1) /\ LocalView(c)' = OpenEnd(k, n + 1)
          /\ RemoteView(c)' = RemoteView(c)
      BY <1>1, <1>9, <2>1, <2>3 DEF LocalShown, RemoteShown
    <2>5. ComesOut(c, "remote", LocalView(c), LocalView(c)', RemoteView(c), RemoteView(c)')
      BY <1>8, <2>3, <2>4
    <2> QED
      BY <1>1, <2>5, StepsOfPipe DEF Steps
  <1>10. ASSUME NEW i \in Id, Theirs(i, c)
         PROVE  [Tunnel!Next]_Pipes
    <2>1. PICK r : r = remote[i] /\ r = remote'[i]
      BY <1>1
    <2>2. n < r.nread
      BY <1>10, <2>1, BothCount
    <2>3. /\ LocalView(c) = OpenEnd(l, r.nread) /\ LocalView(c)' = OpenEnd(k, r.nread)
          /\ RemoteView(c)' = RemoteView(c)
      BY <1>1, <1>10, <2>1 DEF LocalShown, RemoteShown
    <2>4. ComesOut(c, "remote", LocalView(c), LocalView(c)', RemoteView(c), RemoteView(c)')
      BY <1>8, <2>2, <2>3
    <2> QED
      BY <1>1, <2>4, StepsOfPipe DEF Steps
  <1> QED
    BY <1>9, <1>10 DEF Nobody

\* The client is removed.
LEMMA LocalCloses ==
    ASSUME InOrder, Reached, Reached', UNCHANGED remoteVars, NEW c \in Conn, LocalFrame(c),
           NEW k, k.udp_sock = c, NEW sent, \A p \in sent : p.type \in Ack,
           LocalDisconnect(c, k, sent),
           stage[c] = "pending" => \E p \in down : p.conn = c
    PROVE  [Tunnel!Next]_Pipes
  <1>1. /\ Elsewhere(c) /\ remote' = remote
        /\ \A i \in Id : Theirs(i, c)' <=> Theirs(i, c)
        /\ Nobody(c)' <=> Nobody(c)
        /\ LocalShown(c) /\ RemoteShown(c) /\ LocalShown(c)' /\ RemoteShown(c)'
        /\ stage[c] # "pending" => ~ HelloComes(c)
        /\ stage'[c] # "pending" => ~ HelloComes(c)'
        /\ stage[c] \in {"pending", "open"}
    BY LocalKeeps
  <1>2. LocalOK /\ HoldInv
    BY KnownGives DEF Reached
  <1>3. stage'[c] = "closed" /\ up' = up \union sent \union {Goodbye(k)}
    <2>1. PICK d \in Found(c, k) : Remove(c, d, k, sent)
      BY DEF LocalDisconnect
    <2>2. d \in Conn /\ stage'[d] = "closed"
      BY <1>2, <2>1 DEF Found, Remove, LocalOK
    <2>3. d = c
      BY <2>1, <2>2 DEF Found, LocalFrame
    <2> QED
      BY <2>1, <2>2, <2>3 DEF Remove
  <1>4. LocalView(c)' = GoneEnd /\ ~ HelloComes(c) /\ ~ HelloComes(c)'
    <2>1. stage[c] = "pending" => ~ HelloComes(c)
      BY DEF Reached, HandInv, OnUp, FirstContact, HelloComes
    <2> QED
      BY <1>1, <1>3, <2>1 DEF LocalShown
  <1>5. LocalView(c).phase # "gone"
    <2>1. CASE stage[c] = "pending"
      BY <1>1, <2>1, Phases DEF LocalShown, Silent
    <2>2. CASE stage[c] = "open"
      BY <1>1, <2>2, Phases DEF LocalShown, Nobody
    <2> QED
      BY <1>1, <2>1, <2>2
  <1>6. CASE Nobody(c)
    <2>1. RemoteView(c) = GoneEnd /\ RemoteView(c)' = GoneEnd
      BY <1>1, <1>3, <1>4, <1>6 DEF RemoteShown
    <2>2. Leaves(LocalView(c), LocalView(c)', RemoteView(c), RemoteView(c)')
      BY <1>4, <1>5, <2>1, NothingFewer DEF Leaves
    <2> QED
      BY <1>1, <2>2, StepsOfPipe DEF Steps
  <1>7. ASSUME NEW i \in Id, Theirs(i, c)
        PROVE  [Tunnel!Next]_Pipes
    <2>1. PICK r : r = remote[i] /\ r = remote'[i]
      BY <1>1
    <2>2. r \in ClientT /\ r.udp_sock = c
      BY <1>7, <2>1, SockOf DEF Reached, Theirs
    <2>3. Rest(r, up') = Rest(r, up)
      <3>1. Goodbye(k).type = "GOODBYE"
        BY DEF Goodbye, Packet
      <3>2. \A p : p.type \notin {"GOODBYE"} \union Ack => (p \in up' <=> p \in up)
        BY <1>3, <3>1
      <3> QED
        BY <3>2, SameMail
    <2>4. RemoteView(c)' = OpenEnd(r, Rest(r, up))
      BY <1>1, <1>3, <1>7, <2>1, <2>3 DEF RemoteShown
    <2>5. PICK m : RemoteView(c) = OpenEnd(r, m) /\ Rest(r, up) \in Len(r.written) .. m
      <3>1. CASE stage[c] = "open"
        BY <1>1, <1>7, <2>1, <3>1, BothCount DEF RemoteShown
      <3>2. CASE stage[c] = "pending"
        <4>1. Blank(r, i) /\ Silent(c)
          BY <1>7, <2>1, <3>2 DEF Reached, HandInv, BlankInv, Silent, Theirs
        <4>2. DataOf(c, up) = {} /\ DataOf(c, {}) = {}
          BY <1>2, <4>1 DEF DataOf, HoldInv, Calm, Data
        <4>3. Len(r.written) = 0 /\ Rest(r, up) = Len(r.written) + 0
          BY <2>2, <4>1, <4>2, LastChunkIs DEF Rest, Blank
        <4>4. RemoteView(c) = OpenEnd(r, 0)
          BY <1>1, <1>7, <2>1, <4>1 DEF RemoteShown
        <4> QED
          BY <4>3, <4>4
      <3> QED
        BY <1>1, <3>1, <3>2
    <2>6. Leaves(LocalView(c), LocalView(c)', RemoteView(c), RemoteView(c)')
      BY <1>4, <1>5, <2>2, <2>4, <2>5, FewerIsLess DEF Leaves
    <2> QED
      BY <1>1, <2>6, StepsOfPipe DEF Steps
  <1> QED
    BY <1>6, <1>7 DEF Nobody

\* The HELLOACK comes.
LEMMA LocalOpens ==
    ASSUME Reached, Reached', UNCHANGED remoteVars, NEW c \in Conn, LocalFrame(c),
           stage[c] = "pending", stage'[c] = "open",
           NEW p \in down, p.conn = c, down' \subseteq down,
           NEW k, k = local'[c], k.udp_sock = c, k.nread = 0, k.written = <<>>
    PROVE  [Tunnel!Next]_Pipes
  <1>1. /\ Elsewhere(c) /\ remote' = remote
        /\ \A i \in Id : Theirs(i, c)' <=> Theirs(i, c)
        /\ Nobody(c)' <=> Nobody(c)
        /\ LocalShown(c) /\ RemoteShown(c) /\ LocalShown(c)' /\ RemoteShown(c)'
        /\ ~ HelloComes(c)'
    BY LocalKeeps
  <1>2. Silent(c) /\ ~ HelloComes(c) /\ stage[c] # "idle" /\ ~ Silent(c)' /\ stage'[c] # "idle"
    BY DEF Reached, HandInv, OnUp, FirstContact, HelloComes, Silent
  <1>3. Opens(IdleEnd, OpenEnd(k, 0), RemoteView(c), RemoteView(c))
    <2>1. Written(k) = <<>>
      BY DEF Written
    <2> QED
      BY <2>1 DEF Opens, IdleEnd, OpenEnd
  <1>4. LocalView(c) = IdleEnd
    BY <1>1, <1>2 DEF LocalShown
  <1>5. CASE Nobody(c)
    <2>1. DataOf(c, down') = {}
      BY <1>2, KnownGives DEF Reached, HoldInv, Calm, DataOf, Data
    <2>2. LastChunk(k, down') = Len(k.written) + 0 /\ Len(k.written) = 0
      BY <2>1, LastChunkIs
    <2>3. LocalView(c)' = OpenEnd(k, 0) /\ RemoteView(c)' = RemoteView(c)
      BY <1>1, <1>2, <1>5, <2>2 DEF LocalShown, RemoteShown
    <2> QED
      BY <1>1, <1>3, <1>4, <2>3, StepsOfPipe DEF Steps
  <1>6. ASSUME NEW i \in Id, Theirs(i, c)
        PROVE  [Tunnel!Next]_Pipes
    <2>1. PICK r : r = remote[i] /\ r = remote'[i]
      BY <1>1
    <2>2. r.nread = 0
      <3>1. Blank(r, i)
        BY <1>2, <1>6, <2>1 DEF Reached, HandInv, BlankInv, Theirs
      <3> QED
        BY <3>1 DEF Blank
    <2>3. LocalView(c)' = OpenEnd(k, 0) /\ RemoteView(c)' = RemoteView(c)
      BY <1>1, <1>2, <1>6, <2>1, <2>2 DEF LocalShown, RemoteShown
    <2> QED
      BY <1>1, <1>3, <1>4, <2>3, StepsOfPipe DEF Steps
  <1> QED
    BY <1>5, <1>6 DEF Nobody

\* The end of an iteration of an open client.
LEMMA LocalPassIs ==
    ASSUME Reached, NEW c \in Conn, stage[c] = "open", NEW k \in ClientT, NEW sent,
           LocalPass(c, k, sent)
    PROVE  \/ LocalDisconnect(c, k, sent)
           \/ /\ stage'[c] = "open" /\ Alike(local'[c], k)
              /\ local'[c].udp_sock = k.udp_sock
  <1>1. LocalOK
    BY KnownGives DEF Reached
  <1>2. Alike(AfterSend(k), k) /\ AfterSend(k).udp_sock = k.udp_sock
    BY DEF Alike, AfterSend, ClientT
  <1> QED
    BY <1>1, <1>2 DEF LocalPass, LocalOK

LEMMA PipeLocalReceive ==
    ASSUME InOrder, MaxCopies = 0, Reached, Reached', UNCHANGED remoteVars,
           NEW c \in Conn, LocalReceive(c)
    PROVE  [Tunnel!Next]_Pipes
  <1> USE DEF Reached
  <1>1. PICK p \in down :
            \/ LocalRecvGoodbye(c, p)
            \/ LocalRecvHelloAck(c, p)
            \/ LocalRecvData(c, p)
            \/ LocalRecvAck(c, p)
    BY DEF LocalReceive
  <1>2. LocalRecv(c, p)
    BY <1>1 DEF LocalRecvGoodbye, LocalRecvHelloAck, LocalRecvData, LocalRecvAck
  <1>3. LocalOK /\ HoldInv /\ LocalFrame(c)
    BY KnownGives, LocalReceiveShape DEF LocalShape
  <1>4. /\ p.conn = c /\ Listed(c) /\ down' = down \ {p}
        /\ p.type \in Data => p.chunk \in Chunk
        /\ p.type \in Data \union Ack => stage[c] = "open"
    BY <1>2, OpenRecv
  <1>5. PICK l : l = local[c]
    OBVIOUS
  <1>6. l \in ClientT /\ l.udp_sock = c
    BY <1>3, <1>4, <1>5, ListedClient
  <1>7. CASE LocalRecvGoodbye(c, p)
    <2>1. LocalDisconnect(c, l, {})
      BY <1>5, <1>7 DEF LocalRecvGoodbye
    <2> QED
      BY <1>3, <1>4, <1>6, <2>1, LocalCloses
  <1>8. CASE LocalRecvHelloAck(c, p)
    <2>1. stage[c] = "pending"
      BY <1>4, <1>8 DEF HandInv, OnDown, Listed, LocalRecvHelloAck
    <2>2. Blank(l, 0)
      BY <1>5, <2>1 DEF HandInv, BlankInv
    <2>3. PICK k : k = [client_got_helloack(l) EXCEPT !.id = p.id]
      OBVIOUS
    <2>4. k.udp_sock = c /\ k.nread = 0 /\ k.written = <<>>
      BY <1>6, <2>2, <2>3 DEF client_got_helloack, ClientT, Blank
    <2>5. \E sent : Promote(c, k, sent)
      BY <1>5, <1>8, <2>1, <2>3 DEF LocalRecvHelloAck, LocalGoOn
    <2>6. stage'[c] = "open" /\ local'[c] = k
      BY <1>3, <2>5 DEF Promote, LocalFrame, LocalOK
    <2> QED
      BY <1>3, <1>4, <2>1, <2>4, <2>6, LocalOpens
  <1>9. CASE LocalRecvData(c, p)
    <2>1. p.type \in Data /\ p.chunk \in Chunk /\ stage[c] = "open" /\ p \in DataOf(c, down)
      BY <1>4, <1>9 DEF LocalRecvData, DataOf
    <2>2. l.udp2tcp_state # "WAIT_HELLO" /\ LocalEnd(l, down)
      BY <1>5, <2>1, OpenGives
    <2>3. IsNewData(l, p.type)
      BY <1>6, <2>1, <2>2, WriteReads DEF LocalEnd
    <2>4. PICK k, sent : k = AfterWrite(l, p.chunk) /\ sent = {AckFor(l, p.type)}
      OBVIOUS
    <2>5. k \in ClientT /\ SameName(k, l)
      BY <1>6, <2>1, <2>2, <2>4, Write
    <2>6. k.nread = l.nread /\ k.written = Append(l.written, p.chunk) /\ k.udp_sock = c
      BY <1>6, <2>4 DEF AfterWrite, ClientT
    <2>7. \A q \in sent : q.type \in Ack
      BY <2>4, SentUnderId
    <2>8. PICK f : f = AfterFailedWrite(l)
      OBVIOUS
    <2>9. f.udp_sock = c
      BY <1>6, <2>8 DEF AfterFailedWrite, ClientT
    <2>10. LocalPass(c, k, sent) \/ LocalDisconnect(c, f, sent)
      BY <1>5, <1>9, <2>1, <2>3, <2>4, <2>8 DEF LocalRecvData, LocalGoOn
    <2>11. \/ LocalDisconnect(c, k, sent) \/ LocalDisconnect(c, f, sent)
          \/ /\ stage'[c] = "open" /\ Alike(local'[c], k)
             /\ local'[c].udp_sock = k.udp_sock
      BY <2>1, <2>5, <2>10, LocalPassIs
    <2>12. CASE LocalDisconnect(c, k, sent) \/ LocalDisconnect(c, f, sent)
      BY <1>3, <2>1, <2>6, <2>7, <2>12, <2>9, LocalCloses
    <2>13. CASE stage'[c] = "open" /\ Alike(local'[c], k) /\ local'[c].udp_sock = k.udp_sock
      <3>1. PICK s : s = local'[c]
        OBVIOUS
      <3>2. s.udp_sock = l.udp_sock /\ s.nread = l.nread /\ s.written = Append(l.written, p.chunk)
        BY <1>6, <2>6, <2>13, <3>1 DEF Alike
      <3> QED
        BY <1>3, <1>4, <1>5, <2>1, <2>13, <3>1, <3>2, LocalWrites
    <2> QED
      BY <2>11, <2>12, <2>13
  <1>10. CASE LocalRecvAck(c, p)
    <2>1. p.type \in Ack /\ stage[c] = "open"
      BY <1>4, <1>10 DEF LocalRecvAck
    <2>2. Steady(l)
      BY <1>5, <2>1, OpenGives
    <2>3. PICK k : k = client_got_ack(l, p.type)
      OBVIOUS
    <2>4. k \in ClientT /\ Alike(k, l) /\ k.udp_sock = c
      <3>1. k \in ClientT
        BY <1>6, <2>2, <2>3, GotAck
      <3> QED
        BY <1>6, <2>3, <3>1 DEF client_got_ack, ClientT, Alike
    <2>5. LocalPass(c, k, {}) \/ LocalDisconnect(c, l, {})
      BY <1>5, <1>10, <2>1, <2>3 DEF LocalRecvAck, LocalGoOn
    <2>6. \/ LocalDisconnect(c, k, {}) \/ LocalDisconnect(c, l, {})
          \/ /\ stage'[c] = "open" /\ Alike(local'[c], k)
             /\ local'[c].udp_sock = k.udp_sock
      BY <2>1, <2>4, <2>5, LocalPassIs
    <2>7. CASE LocalDisconnect(c, k, {}) \/ LocalDisconnect(c, l, {})
      BY <1>3, <1>6, <2>1, <2>4, <2>7, LocalCloses
    <2>8. CASE stage'[c] = "open" /\ Alike(local'[c], k) /\ local'[c].udp_sock = k.udp_sock
      <3>1. DataOf(c, down') = DataOf(c, down)
        BY <1>4, <2>1 DEF DataOf, Data, Ack
      <3>2. Alike(local'[c], local[c])
        BY <1>5, <2>4, <2>8 DEF Alike
      <3> QED
        BY <1>3, <1>5, <1>6, <2>1, <2>4, <2>8, <3>1, <3>2, LocalStands
    <2> QED
      BY <2>6, <2>7, <2>8
  <1> QED
    BY <1>1, <1>7, <1>8, <1>9, <1>10

LEMMA PipeLocalTcp ==
    ASSUME InOrder, AllDiffer, Reached, Reached', UNCHANGED remoteVars,
           NEW c \in Conn, LocalTcp(c) \/ LocalCheck(c)
    PROVE  [Tunnel!Next]_Pipes
  <1> USE DEF Reached
  <1>1. stage[c] = "open" /\ down' = down
    BY DEF LocalTcp, LocalTcpData, LocalTcpEof, LocalTcpError, LocalCheck
  <1>2. LocalOK /\ LocalFrame(c)
    BY KnownGives, LocalTcpShape DEF LocalShape
  <1>3. PICK l : l = local[c]
    OBVIOUS
  <1>4. l \in ClientT /\ l.udp_sock = c /\ Steady(l) /\ LocalEnd(l, down)
    BY <1>1, <1>3, OpenGives
  <1>5. ASSUME NEW k, k.udp_sock = c, LocalDisconnect(c, k, {})
        PROVE  [Tunnel!Next]_Pipes
    BY <1>1, <1>2, <1>5, LocalCloses
  <1>6. ASSUME NEW k, k.udp_sock = c, Alike(k, l),
               stage'[c] = "open", Alike(local'[c], k), local'[c].udp_sock = k.udp_sock
        PROVE  [Tunnel!Next]_Pipes
    <2>1. Alike(local'[c], local[c])
      BY <1>3, <1>6 DEF Alike
    <2> QED
      BY <1>1, <1>2, <1>3, <1>4, <1>6, <2>1, LocalStands
  <1>7. CASE LocalTcpData(c)
    <2>1. PICK k \in client_recv_tcp_data(l) : LocalPass(c, k, {})
      BY <1>1, <1>3, <1>7 DEF LocalTcpData, LocalGoOn
    <2>2. l.nread < MaxChunks
      BY <1>3, <1>4, <1>7, LocalMayRead DEF LocalTcpData
    <2>3. k = Queued(l)
      BY <1>4, <2>1, <2>2, AlwaysQueued DEF LocalEnd
    <2>4. k \in ClientT /\ SameName(k, l)
      BY <1>4, <2>1, <2>2, RecvTcp
    <2>5. k.nread = l.nread + 1 /\ k.written = l.written /\ k.udp_sock = c
      BY <1>4, <2>3 DEF Queued, ClientT
    <2>6. CASE stage'[c] = "open" /\ Alike(local'[c], k) /\ local'[c].udp_sock = k.udp_sock
      BY <1>1, <1>2, <1>3, <1>4, <2>5, <2>6, LocalReads DEF Alike
    <2> QED
      BY <1>1, <1>5, <2>1, <2>4, <2>5, <2>6, LocalPassIs
  <1>8. CASE LocalTcpEof(c)
    <2>1. PICK k : k = AtEof(l)
      OBVIOUS
    <2>2. k \in ClientT /\ Alike(k, l) /\ k.udp_sock = c
      BY <1>4, <2>1, Eof DEF AtEof, ClientT, Alike
    <2>3. LocalPass(c, k, {})
      BY <1>1, <1>3, <1>8, <2>1, HeldEof, KnownGives DEF LocalGoOn
    <2> QED
      BY <1>1, <1>5, <1>6, <2>2, <2>3, LocalPassIs
  <1>9. CASE LocalTcpError(c)
    BY <1>3, <1>4, <1>5, <1>9 DEF LocalTcpError
  <1>10. CASE LocalCheck(c)
    <2>1. PICK k : k = client_check_and_resend(l)
      OBVIOUS
    <2>2. Alike(k, l) /\ k.udp_sock = c
      BY <1>4, <2>1 DEF client_check_and_resend, ClientT, Alike
    <2>3. \/ LocalDisconnect(c, k, {})
          \/ stage'[c] = "open" /\ local'[c] = k
      BY <1>1, <1>2, <1>3, <1>10, <2>1 DEF LocalCheck, LocalOK
    <2>4. Alike(k, k)
      BY DEF Alike
    <2> QED
      BY <1>5, <1>6, <2>2, <2>3, <2>4
  <1> QED
    BY <1>7, <1>8, <1>9, <1>10 DEF LocalTcp

-----------------------------------------------------------------------------
(* udpserver.                                                              *)

\* What is the same in an iteration about client i.
LEMMA RemoteKeeps ==
    ASSUME Reached, Reached', UNCHANGED localVars, NEW i \in Id, RemoteFrame(i),
           NEW c, c = remote[i].udp_sock,
           \A p \in up \ up' : p.conn = c \/ p.type = "GOODBYE"
    PROVE  /\ c \in Conn /\ Elsewhere(c)
           /\ stage' = stage /\ local' = local
           /\ Theirs(i, c) /\ (remote'[i] # NoClient => Theirs(i, c)')
           /\ remote'[i] # NoClient => \A j \in Id : Theirs(j, c)' <=> Theirs(j, c)
           /\ remote'[i] = NoClient => Nobody(c)'
           /\ LocalShown(c) /\ RemoteShown(c) /\ LocalShown(c)' /\ RemoteShown(c)'
           /\ ~ HelloComes(c) /\ ~ HelloComes(c)'
           /\ stage[c] \in {"pending", "open", "closed"}
  <1>1. stage' = stage /\ local' = local
    BY DEF localVars
  <1>2. c \in Conn /\ Theirs(i, c)
    BY SockOf DEF Reached, RemoteFrame
  <1>3. \A j \in Id : \A d \in Conn \ {c} : Theirs(j, d)' <=> Theirs(j, d)
    BY DEF RemoteFrame, Theirs
  <1>4. \A d \in Conn \ {c} : \A j \in Id : Theirs(j, d) => remote'[j] = remote[j]
    BY DEF RemoteFrame, Theirs
  <1>5. \A d \in Conn \ {c} : Untouched(d)
    BY <1>1, <1>3, <1>4 DEF Untouched, RemoteFrame
  <1>6. Elsewhere(c)
    BY <1>2, <1>5, UntouchedElsewhere
  <1>7. \A j \in Id : Theirs(j, c) => j = i
    BY <1>2 DEF Reached, HandInv, OneId, Holds, Theirs
  <1>8. /\ remote'[i] # NoClient => Theirs(i, c)'
        /\ \A j \in Id \ {i} : ~ Theirs(j, c)'
        /\ remote'[i] = NoClient => ~ Theirs(i, c)'
    BY <1>7 DEF RemoteFrame, Theirs
  <1>9. /\ remote'[i] # NoClient => \A j \in Id : Theirs(j, c)' <=> Theirs(j, c)
        /\ remote'[i] = NoClient => Nobody(c)'
    <2>1. remote'[i] = NoClient => \A j \in Id : ~ Theirs(j, c)'
      BY <1>8
    <2>2. remote'[i] = NoClient => Nobody(c)'
      BY <2>1 DEF Nobody
    <2> QED
      BY <1>2, <1>7, <1>8, <2>2
  <1>10. LocalShown(c) /\ RemoteShown(c) /\ LocalShown(c)' /\ RemoteShown(c)'
    BY <1>2, Shown, ShownNext
  <1>11. ~ HelloComes(c) /\ ~ HelloComes(c)'
    <2>1. ~ Nobody(c)
      BY <1>2 DEF Nobody
    <2>2. ~ HelloComes(c)
      BY <1>2, <2>1, HelloIsPending
    <2> QED
      BY <2>2 DEF HelloComes, RemoteFrame
  <1>12. stage[c] \in {"pending", "open", "closed"}
    <2>1. stage[c] # "idle"
      BY <1>2 DEF Reached, IdleInv, Unknown, Theirs
    <2> QED
      BY <1>2, <2>1, StageIs DEF Reached, Silent
  <1> QED
    BY <1>1, <1>2, <1>6, <1>8, <1>9, <1>10, <1>11, <1>12

LEMMA RestIs ==
    ASSUME NEW k, NEW l, k.written = l.written, k.udp_sock = l.udp_sock,
           NEW net, NEW rest, Hears(k, rest) <=> Hears(l, net),
           Hears(l, net) => DataOf(l.udp_sock, rest) = DataOf(l.udp_sock, net)
    PROVE  Rest(k, rest) = Rest(l, net)
  <1>1. \A here, there : DataOf(l.udp_sock, here) = DataOf(l.udp_sock, there) =>
            LastChunk(k, here) = LastChunk(l, there)
    BY LastChunkIs
  <1> QED
    BY <1>1 DEF Rest

\* Nothing is read and nothing written.
LEMMA RemoteStands ==
    ASSUME Reached, Reached', UNCHANGED localVars, NEW i \in Id, RemoteFrame(i),
           NEW c, c = remote[i].udp_sock,
           \A p \in up \ up' : p.conn = c \/ p.type = "GOODBYE",
           remote'[i] # NoClient, Alike(remote'[i], remote[i]),
           Rest(remote'[i], up') = Rest(remote[i], up)
    PROVE  [Tunnel!Next]_Pipes
  <1>1. /\ c \in Conn /\ Elsewhere(c) /\ stage' = stage /\ local' = local
        /\ Theirs(i, c) /\ \A j \in Id : Theirs(j, c)' <=> Theirs(j, c)
    BY RemoteKeeps
  <1>2. \A j \in Id : Theirs(j, c) => j = i
    BY <1>1 DEF Reached, HandInv, OneId, Holds, Theirs
  <1>3. ~ Nobody(c) /\ \A k : Alike(k, k)
    BY <1>1 DEF Nobody, Alike
  <1>4. LooksSame(c)
    BY <1>1, <1>2, <1>3 DEF LooksSame
  <1> QED
    BY <1>1, <1>4, LooksSameView, StepsOfPipe

\* A chunk is read from the TCP socket.
LEMMA RemoteReads ==
    ASSUME Reached, Reached', UNCHANGED localVars, NEW i \in Id, RemoteFrame(i), up' = up,
           NEW c, c = remote[i].udp_sock, ~ Silent(c),
           NEW r, r = remote[i], NEW k, k = remote'[i], k # NoClient,
           k.written = r.written, k.udp_sock = r.udp_sock, k.nread = r.nread + 1,
           k.udp2tcp_state = r.udp2tcp_state
    PROVE  [Tunnel!Next]_Pipes
  <1>1. /\ c \in Conn /\ Elsewhere(c) /\ stage' = stage /\ local' = local
        /\ Theirs(i, c) /\ Theirs(i, c)'
        /\ LocalShown(c) /\ RemoteShown(c) /\ LocalShown(c)' /\ RemoteShown(c)'
        /\ stage[c] \in {"pending", "open", "closed"}
    BY RemoteKeeps
  <1>2. \A n : OpenEnd(k, n) = OpenEnd(r, n)
    BY DEF OpenEnd, Written
  <1>3. Rest(k, up') = Rest(r, up)
    BY RestIs DEF Hears
  <1>4. CASE stage[c] = "closed"
    <2>1. LocalView(c)' = LocalView(c) /\ RemoteView(c)' = RemoteView(c)
      BY <1>1, <1>2, <1>3, <1>4 DEF LocalShown, RemoteShown
    <2> QED
      BY <1>1, <2>1, StepsOfPipe
  <1>5. CASE stage[c] = "open"
    <2>1. PICK l : l = local[c] /\ l = local'[c]
      BY <1>1
    <2>2. LocalView(c) = OpenEnd(l, r.nread) /\ LocalView(c)' = OpenEnd(l, r.nread + 1)
      BY <1>1, <1>5, <2>1 DEF LocalShown
    <2>3. RemoteView(c) = OpenEnd(r, l.nread) /\ RemoteView(c)' = OpenEnd(k, l.nread)
      BY <1>1, <1>5, <2>1 DEF RemoteShown
    <2>4. OpenEnd(l, r.nread + 1) = [OpenEnd(l, r.nread) EXCEPT !.due = @ + 1]
      BY DEF OpenEnd
    <2>5. PutsIn(RemoteView(c), RemoteView(c)', LocalView(c), LocalView(c)')
      BY <1>2, <2>2, <2>3, <2>4, Phases DEF PutsIn
    <2> QED
      BY <1>1, <2>5, StepsOfPipe DEF Steps
  <1> QED
    BY <1>1, <1>4, <1>5 DEF Silent

\* A chunk comes for a client that is past its handshake, which writes it.
LEMMA RemoteWrites ==
    ASSUME InOrder, Reached, Reached', UNCHANGED localVars, NEW i \in Id, RemoteFrame(i),
           NEW c, c = remote[i].udp_sock,
           NEW p \in DataOf(c, up), up' = up \ {p},
           NEW r, r = remote[i], NEW k, k = remote'[i], k # NoClient,
           r.udp2tcp_state # "WAIT_HELLO", k.udp2tcp_state # "WAIT_HELLO",
           k.udp_sock = r.udp_sock, k.nread = r.nread,
           k.written = Append(r.written, p.chunk), p.chunk \in Chunk
    PROVE  [Tunnel!Next]_Pipes
  <1>1. /\ c \in Conn /\ Elsewhere(c) /\ stage' = stage /\ local' = local
        /\ Theirs(i, c) /\ Theirs(i, c)'
        /\ LocalShown(c) /\ RemoteShown(c) /\ LocalShown(c)' /\ RemoteShown(c)'
        /\ stage[c] \in {"pending", "open", "closed"}
    <2>1. \A q \in up \ up' : q.conn = c
      BY DEF DataOf
    <2> QED
      BY <2>1, RemoteKeeps
  <1>2. r \in ClientT /\ Hears(r, up) /\ Hears(k, up') /\ Reads(r, 0, up)
    <2>1. r \in ClientT /\ RemoteEnd(r, i, up)
      BY <1>1, SockOf DEF Reached, LinkInv, Theirs
    <2> QED
      BY <2>1 DEF RemoteEnd, Hears
  <1> DEFINE n == Len(r.written)
  <1>3. \A q \in DataOf(c, up) : q = DataPacket(c, r.id, Wants(r), ChunkOf(c, 0, n + 1))
    BY <1>2 DEF Reads, Coming
  <1>4. p.chunk = ChunkOf(c, 0, n + 1) /\ DataOf(c, up') = {}
    BY <1>3 DEF DataPacket, DataOf
  <1>5. Came(p.chunk) = [conn |-> c, from |-> "local", n |-> n + 1]
    BY <1>4 DEF Came, ChunkOf
  <1>6. Written(k) = Append(Written(r), Came(p.chunk)) /\ Len(Written(r)) = n /\ n \in Nat
    <2>1. AfterWrite(r, p.chunk).written = k.written
      BY <1>2 DEF AfterWrite, ClientT
    <2>2. Written(AfterWrite(r, p.chunk)) = Written(k)
      BY <2>1 DEF Written
    <2> QED
      BY <1>2, <2>2, WrittenIs
  <1>7. ASSUME NEW m, n < m, NEW y
        PROVE  ComesOut(c, "local", OpenEnd(r, m), OpenEnd(k, m), y, y)
    BY <1>5, <1>6, <1>7, OneMoreOut
  <1>8. stage[c] # "pending"
    BY KnownGives DEF Reached, HoldInv, Calm, Silent, DataOf, Data
  <1>9. CASE stage[c] = "open"
    <2>1. PICK l : l = local[c] /\ l = local'[c]
      BY <1>1
    <2>2. n < l.nread
      BY <1>1, <1>2, <1>9, <2>1, BothCount
    <2>3. /\ LocalView(c)' = LocalView(c)
          /\ RemoteView(c) = OpenEnd(r, l.nread) /\ RemoteView(c)' = OpenEnd(k, l.nread)
      BY <1>1, <1>9, <2>1 DEF LocalShown, RemoteShown
    <2>4. ComesOut(c, "local", RemoteView(c), RemoteView(c)', LocalView(c), LocalView(c)')
      BY <1>7, <2>2, <2>3
    <2> QED
      BY <1>1, <2>4, StepsOfPipe DEF Steps
  <1>10. CASE stage[c] = "closed"
    <2>1. Rest(r, up) = n + 1 /\ Rest(k, up') = Len(k.written) + 0
      BY <1>2, <1>4, LastChunkIs DEF Rest
    <2>2. Len(k.written) = n + 1
      BY <1>2 DEF ClientT
    <2>3. Rest(k, up') = n + 1 /\ n < n + 1
      BY <1>6, <2>1, <2>2
    <2>4. /\ LocalView(c)' = LocalView(c)
          /\ RemoteView(c) = OpenEnd(r, n + 1) /\ RemoteView(c)' = OpenEnd(k, n + 1)
      BY <1>1, <1>10, <2>1, <2>3 DEF LocalShown, RemoteShown
    <2>5. ComesOut(c, "local", RemoteView(c), RemoteView(c)', LocalView(c), LocalView(c)')
      BY <1>7, <2>3, <2>4
    <2> QED
      BY <1>1, <2>5, StepsOfPipe DEF Steps
  <1> QED
    BY <1>1, <1>8, <1>9, <1>10

\* The client is removed.
LEMMA RemoteCloses ==
    ASSUME InOrder, Reached, Reached', UNCHANGED localVars, NEW i \in Id, RemoteFrame(i),
           NEW c, c = remote[i].udp_sock,
           \A p \in up \ up' : p.conn = c \/ p.type = "GOODBYE",
           NEW k, NEW sent, \A p \in sent : p.type \in Ack,
           RemoteDisconnect(i, k, sent)
    PROVE  [Tunnel!Next]_Pipes
  <1>1. RemoteOK
    BY KnownGives DEF Reached
  <1>2. remote'[i] = NoClient /\ down' = down \union sent \union {Goodbye(k)}
    BY <1>1 DEF RemoteDisconnect, RemoteOK
  <1>3. /\ c \in Conn /\ Elsewhere(c) /\ stage' = stage /\ local' = local
        /\ Theirs(i, c) /\ Nobody(c)'
        /\ LocalShown(c) /\ RemoteShown(c) /\ LocalShown(c)' /\ RemoteShown(c)'
        /\ ~ HelloComes(c) /\ ~ HelloComes(c)'
        /\ stage[c] \in {"pending", "open", "closed"}
    BY <1>2, RemoteKeeps
  <1>4. RemoteView(c)' = GoneEnd
    BY <1>3 DEF RemoteShown
  <1>5. RemoteView(c).phase # "gone"
    BY <1>3, Phases DEF RemoteShown, Silent
  <1>6. Fewer(LocalView(c), LocalView(c)')
    <2>1. CASE stage[c] = "pending"
      BY <1>3, <2>1, NothingFewer DEF LocalShown, Silent
    <2>2. CASE stage[c] = "closed"
      BY <1>3, <2>2, NothingFewer DEF LocalShown
    <2>3. CASE stage[c] = "open"
      <3>1. PICK l : l = local[c] /\ l = local'[c]
        BY <1>3
      <3>2. PICK r : r = remote[i]
        OBVIOUS
      <3>3. l \in ClientT /\ l.udp_sock = c
        BY <1>3, <2>3, <3>1, OpenGives DEF Reached
      <3>4. LastChunk(l, down) \in Len(l.written) .. r.nread
        BY <1>3, <2>3, <3>1, <3>2, BothCount
      <3>5. LastChunk(l, down') = LastChunk(l, down)
        <4>1. Goodbye(k).type = "GOODBYE"
          BY DEF Goodbye, Packet
        <4>2. DataOf(c, down') = DataOf(c, down)
          BY <1>2, <4>1 DEF DataOf, Data, Ack
        <4> QED
          BY <3>3, <4>2, LastChunkIs
      <3>6. LocalView(c) = OpenEnd(l, r.nread) /\ LocalView(c)' = OpenEnd(l, LastChunk(l, down))
        BY <1>3, <2>3, <3>1, <3>2, <3>5 DEF LocalShown
      <3> QED
        BY <3>3, <3>4, <3>6, FewerIsLess
    <2> QED
      BY <1>3, <2>1, <2>2, <2>3
  <1>7. Leaves(RemoteView(c), RemoteView(c)', LocalView(c), LocalView(c)')
    BY <1>4, <1>5, <1>6 DEF Leaves
  <1> QED
    BY <1>3, <1>7, StepsOfPipe DEF Steps

\* A HELLO comes, and a client_t is created for it.
LEMMA RemoteOpens ==
    ASSUME Reached, Reached', UNCHANGED localVars,
           NEW p, Created(p), up' = up \ {p}, NEW c, c = p.conn
    PROVE  [Tunnel!Next]_Pipes
  <1>1. NetOK /\ RemoteOK
    BY KnownGives DEF Reached
  <1>2. p \in up /\ p.type = "HELLO" /\ c \in Conn
    BY <1>1, MessageFields DEF Created, NetOK
  <1>3. HelloComes(c) /\ stage[c] = "pending" /\ Nobody(c)
    <2>1. HelloComes(c)
      BY <1>2 DEF HelloComes
    <2> QED
      BY <1>2, <2>1, HelloIsPending
  <1>4. PICK n, new : /\ n = next_client_id
                      /\ new = client_create(n, c, FALSE, n)
    OBVIOUS
  <1>5. new.udp_sock = c /\ Blank(new, n)
    BY <1>4, CreateBlank DEF client_create
  <1>6. /\ n \in Id /\ remote[n] = NoClient
        /\ \A j \in Id : remote'[j] = IF j = n THEN new ELSE remote[j]
    BY <1>1, <1>4 DEF Created, RemoteOK
  <1>7. PICK q : down' = down \union {q} /\ q.conn = c
    BY DEF Created
  <1>8. stage' = stage /\ local' = local
    BY DEF localVars
  <1>9. remote'[n] = new /\ new # NoClient
    <2>1. remote'[n] = new
      BY <1>6
    <2>2. n \in Nat /\ FALSE \in BOOLEAN
      BY <1>6, IdModAssumption DEF Id
    <2>3. new \in ClientT
      BY <1>2, <1>4, <1>6, <2>2, Create
    <2> QED
      BY <2>1, <2>3, NoClientAssumption
  <1>10. Elsewhere(c)
    <2>1. \A d \in Conn \ {c} : \A j \in Id : Theirs(j, d)' <=> Theirs(j, d)
      BY <1>5, <1>6 DEF Theirs
    <2>2. \A d \in Conn \ {c} : \A j \in Id : Theirs(j, d) => remote'[j] = remote[j]
      BY <1>6 DEF Theirs
    <2>3. \A d \in Conn \ {c} : Untouched(d)
      BY <1>7, <1>8, <2>1, <2>2 DEF Untouched
    <2> QED
      BY <1>2, <2>3, UntouchedElsewhere
  <1>11. LocalShown(c) /\ RemoteShown(c) /\ LocalShown(c)' /\ RemoteShown(c)'
    BY <1>2, Shown, ShownNext
  <1>12. Theirs(n, c)' /\ Silent(c) /\ Silent(c)'
    BY <1>3, <1>5, <1>8, <1>9 DEF Theirs, Silent
  <1>13. RemoteView(c) = IdleEnd /\ LocalView(c)' = LocalView(c)
    BY <1>3, <1>11, <1>12 DEF LocalShown, RemoteShown
  <1>14. RemoteView(c)' = OpenEnd(new, 0)
    BY <1>6, <1>9, <1>11, <1>12 DEF RemoteShown
  <1>15. Opens(IdleEnd, OpenEnd(new, 0), LocalView(c), LocalView(c))
    <2>1. new.written = <<>>
      BY <1>5 DEF Blank
    <2>2. Written(new) = <<>>
      BY <2>1 DEF Written
    <2> QED
      BY <2>2 DEF Opens, IdleEnd, OpenEnd
  <1>16. Opens(RemoteView(c), RemoteView(c)', LocalView(c), LocalView(c)')
    BY <1>13, <1>14, <1>15
  <1> QED
    BY <1>2, <1>10, <1>16, StepsOfPipe DEF Steps

\* The end of an iteration about client i.
LEMMA RemotePassIs ==
    ASSUME Reached, NEW i \in Id, NEW k \in ClientT, NEW sent, RemotePass(i, k, sent)
    PROVE  \/ RemoteDisconnect(i, k, sent)
           \/ /\ remote'[i] # NoClient /\ Alike(remote'[i], k)
              /\ remote'[i].udp_sock = k.udp_sock
              /\ remote'[i].udp2tcp_state = k.udp2tcp_state
  <1>1. RemoteOK
    BY KnownGives DEF Reached
  <1>2. /\ AfterSend(k) \in ClientT
        /\ Alike(AfterSend(k), k) /\ AfterSend(k).udp_sock = k.udp_sock
        /\ AfterSend(k).udp2tcp_state = k.udp2tcp_state
    BY DEF Alike, AfterSend, ClientT, Tcp2UdpState
  <1> QED
    BY <1>1, <1>2, NoClientAssumption DEF RemotePass, RemoteOK

LEMMA PipeRemoteFor ==
    ASSUME InOrder, MaxCopies = 0, Reached, Reached', UNCHANGED localVars,
           NEW p, p \in up,
           \/ RemoteRecvHelloAck(p)
           \/ RemoteRecvGoodbye(p)
           \/ RemoteRecvData(p)
           \/ RemoteRecvAck(p)
    PROVE  [Tunnel!Next]_Pipes
  <1> USE DEF Reached
  <1>1. RemoteRecvFor(p)
    BY DEF RemoteRecvHelloAck, RemoteRecvGoodbye, RemoteRecvData, RemoteRecvAck
  <1>2. PICK i : i = p.id
    OBVIOUS
  <1>3. PICK r : r = remote[i]
    OBVIOUS
  <1>4. /\ i \in Id /\ r # NoClient /\ up' = up \ {p} /\ RemoteEnd(r, i, up)
        /\ p.type \in Data => p.chunk \in Chunk
        /\ p.type \in Data \union Ack \union {"HELLOACK"} => r.udp_sock = p.conn
    BY <1>1, <1>2, <1>3, FoundGives
  <1>5. PICK c : c = r.udp_sock
    OBVIOUS
  <1>6. r \in ClientT /\ c \in Conn /\ Steady(r)
    BY <1>3, <1>4, <1>5, SockOf
  <1>7. CASE NothingDone
    <2>1. UNCHANGED <<stage, local, remote, down>>
      BY <1>7 DEF NothingDone, localVars
    <2> QED
      BY <1>4, <2>1, UpVanishes
  <1>8. CASE RemoteFrame(i)
    <2>1. \A q \in up \ up' : q.conn = c \/ q.type = "GOODBYE"
      <3>1. p.type \in Data \union Ack \union {"HELLOACK", "GOODBYE"}
        BY DEF RemoteRecvHelloAck, RemoteRecvGoodbye, RemoteRecvData, RemoteRecvAck
      <3> QED
        BY <1>4, <1>5, <3>1
    <2>2. ASSUME NEW k, NEW sent, \A q \in sent : q.type \in Ack, RemoteDisconnect(i, k, sent)
          PROVE  [Tunnel!Next]_Pipes
      BY <1>3, <1>4, <1>5, <1>8, <2>1, <2>2, RemoteCloses
    <2>3. ASSUME remote'[i] # NoClient, Alike(remote'[i], r), Rest(remote'[i], up') = Rest(r, up)
          PROVE  [Tunnel!Next]_Pipes
      BY <1>3, <1>4, <1>5, <1>8, <2>1, <2>3, RemoteStands
    <2>4. ASSUME NEW k, NEW s, Alike(k, r), Alike(s, k), k.udp_sock = c, s.udp_sock = k.udp_sock
          PROVE  Alike(s, r) /\ s.udp_sock = r.udp_sock
      BY <1>5, <2>4 DEF Alike
    <2>5. CASE RemoteRecvGoodbye(p)
      BY <1>2, <2>2, <2>5 DEF RemoteRecvGoodbye
    <2>6. CASE RemoteRecvHelloAck(p)
      <3>1. p.type = "HELLOACK" /\ p.conn = c
        BY <1>4, <1>5, <2>6 DEF RemoteRecvHelloAck
      <3>2. r.udp2tcp_state = "WAIT_HELLO" /\ Hears(r, up)
        BY <1>2, <1>3, <1>4, <1>5, <3>1 DEF HandInv, OnUp, Answer, Hears
      <3>3. PICK k : k = [client_got_helloack(r) EXCEPT !.connected = TRUE]
        OBVIOUS
      <3>4. k \in ClientT /\ Alike(k, r) /\ k.udp_sock = c /\ k.udp2tcp_state = "WAIT_DATA0"
        BY <1>5, <1>6, <3>2, <3>3 DEF client_got_helloack, ClientT, Alike, Udp2TcpState
      <3>5. RemoteDisconnect(i, r, {}) \/ RemotePass(i, k, {})
        BY <1>2, <1>3, <2>6, <3>3 DEF RemoteRecvHelloAck
      <3>6. CASE /\ remote'[i] # NoClient /\ Alike(remote'[i], k)
                 /\ remote'[i].udp_sock = k.udp_sock
                 /\ remote'[i].udp2tcp_state = k.udp2tcp_state
        <4>1. Alike(remote'[i], r) /\ remote'[i].udp_sock = r.udp_sock
          BY <2>4, <3>4, <3>6
        <4>2. Hears(remote'[i], up') /\ DataOf(r.udp_sock, up') = DataOf(r.udp_sock, up)
          BY <1>4, <3>1, <3>4, <3>6 DEF Hears, DataOf, Data
        <4>3. Rest(remote'[i], up') = Rest(r, up)
          BY <3>2, <4>1, <4>2, RestIs DEF Alike
        <4> QED
          BY <2>3, <3>6, <4>1, <4>3
      <3> QED
        BY <1>4, <2>2, <3>4, <3>5, <3>6, RemotePassIs
    <2>7. CASE RemoteRecvAck(p)
      <3>1. p.type \in Ack
        BY <2>7 DEF RemoteRecvAck
      <3>2. PICK k : k = client_got_ack(r, p.type)
        OBVIOUS
      <3>3. /\ k \in ClientT /\ Alike(k, r) /\ k.udp_sock = c
            /\ k.udp2tcp_state = r.udp2tcp_state
        <4>1. k \in ClientT
          BY <1>6, <3>2, GotAck
        <4> QED
          BY <1>5, <1>6, <3>2, <4>1 DEF client_got_ack, ClientT, Alike
      <3>4. RemotePass(i, k, {})
        BY <1>2, <1>3, <2>7, <3>2 DEF RemoteRecvAck
      <3>5. CASE /\ remote'[i] # NoClient /\ Alike(remote'[i], k)
                 /\ remote'[i].udp_sock = k.udp_sock
                 /\ remote'[i].udp2tcp_state = k.udp2tcp_state
        <4>1. Alike(remote'[i], r) /\ remote'[i].udp_sock = r.udp_sock
          BY <2>4, <3>3, <3>5
        <4>2. /\ Hears(remote'[i], up') <=> Hears(r, up)
              /\ DataOf(r.udp_sock, up') = DataOf(r.udp_sock, up)
          BY <1>4, <3>1, <3>3, <3>5, <4>1 DEF Hears, DataOf, Data, Ack
        <4>3. Rest(remote'[i], up') = Rest(r, up)
          BY <4>1, <4>2, RestIs DEF Alike
        <4> QED
          BY <2>3, <3>5, <4>1, <4>3
      <3> QED
        BY <1>4, <2>2, <3>3, <3>4, <3>5, RemotePassIs
    <2>8. CASE RemoteRecvData(p)
      <3>1. p.type \in Data /\ p.conn = c /\ p.chunk \in Chunk
        BY <1>4, <1>5, <2>8 DEF RemoteRecvData
      <3>2. PICK k, sent : k = AfterWrite(r, p.chunk) /\ sent = {AckFor(r, p.type)}
        OBVIOUS
      <3>3. \A q \in sent : q.type \in Ack
        BY <3>2, SentUnderId
      <3>4. \/ ~ IsNewData(r, p.type) /\ RemotePass(i, r, sent)
            \/ IsNewData(r, p.type) /\ RemotePass(i, k, sent)
            \/ RemoteDisconnect(i, r, sent)
        BY <1>2, <1>3, <2>8, <3>2 DEF RemoteRecvData
      <3>5. CASE ~ IsNewData(r, p.type) /\ RemotePass(i, r, sent)
        <4>1. ~ Hears(r, up)
          BY <1>1, <1>2, <1>3, <3>1, <3>5, OldDataUnheard
        <4>2. CASE /\ remote'[i] # NoClient /\ Alike(remote'[i], r)
                   /\ remote'[i].udp_sock = r.udp_sock
                   /\ remote'[i].udp2tcp_state = r.udp2tcp_state
          <5>1. ~ Hears(remote'[i], up')
            BY <1>4, <4>1, <4>2 DEF Hears
          <5>2. Rest(remote'[i], up') = Rest(r, up)
            BY <4>1, <4>2, <5>1, RestIs DEF Alike
          <5> QED
            BY <2>3, <4>2, <5>2
        <4> QED
          BY <1>4, <1>6, <2>2, <3>3, <3>5, <4>2, RemotePassIs
      <3>6. CASE IsNewData(r, p.type) /\ RemotePass(i, k, sent)
        <4>1. /\ r.udp2tcp_state # "WAIT_HELLO" /\ k.udp2tcp_state # "WAIT_HELLO"
              /\ k.nread = r.nread /\ k.written = Append(r.written, p.chunk) /\ k.udp_sock = c
          BY <1>5, <1>6, <3>2, <3>6 DEF IsNewData, AfterWrite, ClientT
        <4>2. k \in ClientT
          BY <1>6, <3>1, <3>2, <4>1, Write
        <4>3. CASE /\ remote'[i] # NoClient /\ Alike(remote'[i], k)
                   /\ remote'[i].udp_sock = k.udp_sock
                   /\ remote'[i].udp2tcp_state = k.udp2tcp_state
          <5>1. p \in DataOf(c, up)
            BY <3>1 DEF DataOf
          <5>2. PICK s : s = remote'[i]
            OBVIOUS
          <5>3. /\ s # NoClient /\ s.udp2tcp_state # "WAIT_HELLO"
                /\ s.udp_sock = r.udp_sock /\ s.nread = r.nread
                /\ s.written = Append(r.written, p.chunk)
            BY <1>5, <4>1, <4>3, <5>2 DEF Alike
          <5> QED
            BY <1>3, <1>4, <1>5, <1>8, <3>1, <4>1, <5>1, <5>2, <5>3, RemoteWrites
        <4> QED
          BY <1>4, <2>2, <3>3, <3>6, <4>2, <4>3, RemotePassIs
      <3>7. CASE RemoteDisconnect(i, r, sent)
        BY <2>2, <3>3, <3>7
      <3> QED
        BY <3>4, <3>5, <3>6, <3>7
    <2> QED
      BY <2>5, <2>6, <2>7, <2>8
  <1> QED
    BY <1>2, <1>7, <1>8, RemoteRecvForShape DEF RemoteShape

LEMMA PipeRemoteTcp ==
    ASSUME InOrder, AllDiffer, Reached, Reached', UNCHANGED localVars,
           NEW i \in Id, RemoteTcp(i) \/ RemoteCheck(i) \/ KeepaliveRunsOut(i)
    PROVE  [Tunnel!Next]_Pipes
  <1> USE DEF Reached
  <1>1. remote[i] # NoClient /\ up' = up /\ RemoteFrame(i)
    BY RemoteTcpShape DEF RemoteShape, RemoteFrame, RemoteTcp, RemoteTcpData, RemoteTcpEof,
       RemoteTcpError, RemoteCheck, KeepaliveRunsOut, RemoteTimeout
  <1>2. PICK r, c : r = remote[i] /\ c = r.udp_sock
    OBVIOUS
  <1>3. r \in ClientT /\ c \in Conn /\ Steady(r) /\ RemoteEnd(r, i, up)
    BY <1>1, <1>2, SockOf DEF LinkInv
  <1>4. \A q \in up \ up' : q.conn = c \/ q.type = "GOODBYE"
    BY <1>1
  <1>5. RemoteOK /\ HoldInv /\ OwnInv
    BY KnownGives
  <1>6. ASSUME NEW k, RemoteDisconnect(i, k, {})
        PROVE  [Tunnel!Next]_Pipes
    BY <1>1, <1>2, <1>4, <1>6, RemoteCloses
  <1>7. ASSUME NEW k, Alike(k, r), k.udp_sock = c, k.udp2tcp_state = r.udp2tcp_state,
               NEW s, s = remote'[i], s # NoClient, Alike(s, k), s.udp_sock = k.udp_sock,
               s.udp2tcp_state = k.udp2tcp_state
        PROVE  [Tunnel!Next]_Pipes
    <2>1. Alike(s, r) /\ s.udp_sock = r.udp_sock /\ (Hears(s, up') <=> Hears(r, up))
      BY <1>1, <1>2, <1>7 DEF Alike, Hears
    <2>2. Rest(s, up') = Rest(r, up)
      BY <1>1, <2>1, RestIs DEF Alike
    <2> QED
      BY <1>1, <1>2, <1>4, <1>7, <2>1, <2>2, RemoteStands
  <1>8. CASE RemoteTcpData(i)
    <2>1. PICK k \in client_recv_tcp_data(r) : RemotePass(i, k, {})
      BY <1>2, <1>8 DEF RemoteTcpData
    <2>2. k = Queued(r)
      BY <1>2, <1>3, <1>8, <2>1, AlwaysQueued DEF RemoteEnd, RemoteTcpData
    <2>3. k \in ClientT
      BY <1>2, <1>3, <1>8, <2>1, RecvTcp DEF RemoteTcpData
    <2>4. /\ k.nread = r.nread + 1 /\ k.written = r.written /\ k.udp_sock = c
          /\ k.udp2tcp_state = r.udp2tcp_state
      BY <1>2, <1>3, <2>2 DEF Queued, ClientT
    <2>5. ~ Silent(c)
      BY <1>1, <1>2, <1>5, <1>8 DEF RemoteTcpData, HoldInv, Calm, Unused
    <2>6. CASE /\ remote'[i] # NoClient /\ Alike(remote'[i], k)
               /\ remote'[i].udp_sock = k.udp_sock
               /\ remote'[i].udp2tcp_state = k.udp2tcp_state
      <3>1. PICK s : s = remote'[i]
        OBVIOUS
      <3>2. /\ s # NoClient /\ s.written = r.written /\ s.udp_sock = r.udp_sock
            /\ s.nread = r.nread + 1 /\ s.udp2tcp_state = r.udp2tcp_state
        BY <1>2, <2>4, <2>6, <3>1 DEF Alike
      <3> QED
        BY <1>1, <1>2, <2>5, <3>1, <3>2, RemoteReads
    <2> QED
      BY <1>6, <2>1, <2>3, <2>6, RemotePassIs
  <1>9. CASE RemoteTcpEof(i)
    <2>1. PICK k : k = AtEof(r)
      OBVIOUS
    <2>2. /\ k \in ClientT /\ Alike(k, r) /\ k.udp_sock = c
          /\ k.udp2tcp_state = r.udp2tcp_state
      BY <1>2, <1>3, <2>1, Eof DEF AtEof, ClientT, Alike
    <2>3. RemotePass(i, k, {})
      BY <1>2, <1>9, <2>1 DEF RemoteTcpEof
    <2> QED
      BY <1>6, <1>7, <2>2, <2>3, RemotePassIs
  <1>10. CASE RemoteTcpError(i)
    BY <1>6, <1>10 DEF RemoteTcpError
  <1>11. CASE RemoteCheck(i)
    <2>1. PICK k : k = client_check_and_resend(r)
      OBVIOUS
    <2>2. k \in ClientT /\ Alike(k, r) /\ k.udp_sock = c /\ k.udp2tcp_state = r.udp2tcp_state
      <3>1. k \in ClientT
        BY <1>2, <1>3, <1>11, <2>1, Check DEF RemoteCheck, TimeoutIsUp
      <3>2. r \in ClientT /\ r.udp_sock = c
        BY <1>2, <1>3
      <3> QED
        BY <2>1, <3>1, <3>2 DEF client_check_and_resend, ClientT, Alike
    <2>3. \/ RemoteDisconnect(i, k, {})
          \/ remote'[i] = k
      BY <1>2, <1>5, <1>11, <2>1 DEF RemoteCheck, RemoteOK
    <2>4. Alike(k, k) /\ k # NoClient
      BY <2>2, NoClientAssumption DEF Alike
    <2> QED
      BY <1>6, <1>7, <2>2, <2>3, <2>4
  <1>12. CASE KeepaliveRunsOut(i)
    <2>1. i # 0
      BY <1>1, <1>5 DEF OwnInv, OwnRemote
    <2> QED
      BY <1>6, <1>12, <2>1 DEF KeepaliveRunsOut, RemoteTimeout
  <1> QED
    BY <1>8, <1>9, <1>10, <1>11, <1>12 DEF RemoteTcp

LEMMA PipeRemoteReceive ==
    ASSUME MaxHello \in Nat, MaxHello =< IdMod, InOrder, MaxCopies = 0,
           Reached, Reached', UNCHANGED localVars, NEW c \in Conn, RemoteReceive(c)
    PROVE  [Tunnel!Next]_Pipes
  <1> USE DEF Reached
  <1>1. PICK p \in up :
            \/ RemoteRecvHello(p)
            \/ RemoteRecvHelloAck(p)
            \/ RemoteRecvGoodbye(p)
            \/ RemoteRecvData(p)
            \/ RemoteRecvAck(p)
            \/ RemoteIgnore(p)
    BY DEF RemoteReceive
  <1>2. up' = up \ {p}
    <2>1. RemoteRecv(p) /\ NetOK
      BY <1>1, KnownGives DEF RemoteRecvHello, RemoteRecvHelloAck, RemoteRecvGoodbye,
         RemoteRecvData, RemoteRecvAck, RemoteIgnore, RemoteRecvFor
    <2> QED
      BY <2>1, Gone DEF RemoteRecv, NetOK
  <1>3. CASE UNCHANGED <<remote, down>>
    <2>1. UNCHANGED <<stage, local, remote, down>>
      BY <1>3 DEF localVars
    <2> QED
      BY <1>2, <2>1, UpVanishes
  <1>4. CASE RemoteRecvHello(p)
    <2>1. UNCHANGED <<remote, down>> \/ Created(p)
      BY <1>4, RemoteRecvHelloShape DEF NothingDone
    <2> QED
      BY <1>2, <1>3, <2>1, RemoteOpens
  <1>5. CASE RemoteIgnore(p)
    BY <1>3, <1>5 DEF RemoteIgnore
  <1> QED
    BY <1>1, <1>4, <1>5, PipeRemoteFor

-----------------------------------------------------------------------------
LEMMA PipeStep ==
    ASSUME MaxHello \in Nat, MaxHello =< IdMod, InOrder, AllDiffer,
           Reached, Reached', [Next]_vars
    PROVE  [Tunnel!Next]_Pipes
  <1>1. MaxCopies = 0
    BY FaultsAssumption DEF InOrder
  <1>2. CASE LocalNext /\ UNCHANGED remoteVars
    <2>1. ASSUME NEW p \in down, DropStray(p)
          PROVE  [Tunnel!Next]_Pipes
      <3>1. UNCHANGED <<stage, local, remote, up>> /\ down' = down \ {p}
        BY <1>2, <2>1 DEF DropStray, localVars, remoteVars
      <3> QED
        BY <3>1, DownVanishes
    <2> QED
      BY <1>1, <1>2, <2>1, PipeAccept, PipeLocalReceive, PipeLocalTcp DEF LocalNext
  <1>3. CASE RemoteNext /\ UNCHANGED localVars
    BY <1>1, <1>3, PipeRemoteReceive, PipeRemoteTcp DEF RemoteNext
  <1>4. CASE (LoseUp \/ LoseDown) /\ UNCHANGED <<localVars, remoteVars>>
    <2>1. UNCHANGED <<stage, local, remote>>
      BY <1>4 DEF localVars, remoteVars
    <2>2. CASE LoseUp
      <3>1. PICK p \in up : up' = up \ {p} /\ down' = down
        BY <2>2 DEF LoseUp
      <3> QED
        BY <2>1, <3>1, UpVanishes
    <2>3. CASE LoseDown
      <3>1. PICK p \in down : down' = down \ {p} /\ up' = up
        BY <2>3 DEF LoseDown
      <3> QED
        BY <2>1, <3>1, DownVanishes
    <2> QED
      BY <1>4, <2>2, <2>3
  <1>5. CASE UNCHANGED vars
    <2>1. /\ stage' = stage /\ local' = local /\ remote' = remote
          /\ up' = up /\ down' = down
      BY <1>5 DEF vars, netVars, localVars, remoteVars
    <2>2. Pipes' = Pipes
      BY <2>1 DEF Pipes, LocalView, RemoteView, LocalDue, RemoteDue, RemoteOf, TheRemote,
         RemoteClients, HelloComes, Hears, LastChunk, OpenEnd, Written
    <2> QED
      BY <2>2
  <1> QED
    BY <1>2, <1>3, <1>4, <1>5 DEF Next

LEMMA PipeInit == Init => Tunnel!Init
  <1> SUFFICES ASSUME Init PROVE Tunnel!Init
    OBVIOUS
  <1>1. /\ \A c \in Conn : stage[c] = "idle"
        /\ \A i \in Id : remote[i] = NoClient
    BY DEF Init, LocalInit, RemoteInit
  <1>2. \A c \in Conn : LocalView(c) = IdleEnd /\ RemoteView(c) = IdleEnd
    BY <1>1 DEF LocalView, RemoteView, RemoteOf, RemoteClients
  <1> QED
    BY <1>2 DEF Pipes, Tunnel!Init, Tunnel!End, Tunnel!Idle, IdleEnd

LEMMA ReachedInvariant ==
    ASSUME MaxHello \in Nat, MaxHello =< IdMod, InOrder, AllDiffer
    PROVE  Spec => []Reached
  <1>1. MaxCopies = 0
    BY FaultsAssumption DEF InOrder
  <1>2. Init => Reached
    BY KnownInvariant, IdleInit, HandInit, LinkInit DEF Reached
  <1>3. Reached /\ [Next]_vars => Reached'
    BY <1>1, KnownInvariant, IdleStep, HandStep, LinkStep DEF Reached
  <1> QED
    BY <1>2, <1>3, PTL DEF Spec

(***************************************************************************)
(* Each connection of the tunnel implements a pipe: whatever udpclient and *)
(* udpserver do, and whatever the network loses or delays, what comes out  *)
(* of the TCP socket at one end is what was read from the one at the other *)
(* end, in its order and without a gap, until one of the two client_t is   *)
(* removed.  The ids must not have run out, because the server finds a     *)
(* client by its id alone; nothing may overtake, because the server        *)
(* acknowledges DATA that comes before the HELLOACK and writes none of it; *)
(* and the chunks read must differ, because list_add drops a chunk that is *)
(* queued already.                                                         *)
(***************************************************************************)
THEOREM TunnelIsAPipe ==
    ASSUME MaxHello \in Nat, MaxHello =< IdMod, InOrder, AllDiffer
    PROVE  Spec => PipeSpec
  <1>1. Init => Tunnel!Init
    BY PipeInit
  <1>2. Reached /\ Reached' /\ [Next]_vars => [Tunnel!Next]_Pipes
    BY PipeStep
  <1>3. Spec => []Reached
    BY ReachedInvariant
  <1> QED
    BY <1>1, <1>2, <1>3, PTL DEF Spec, PipeSpec, Tunnel!Spec
=============================================================================
