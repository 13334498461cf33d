-------------------------------- MODULE Pipe ---------------------------------
(***************************************************************************)
(* What the tunnel promises to the two programs that talk through one of   *)
(* its connections: a pipe with two ends.  What comes out at one end is    *)
(* what went in at the other, in its order and without a gap.  When one    *)
(* end is gone some of what had been put in may still come out at the      *)
(* other, and then nothing more.                                           *)
(***************************************************************************)
EXTENDS Naturals, Sequences

CONSTANTS Conn

VARIABLES
    pipe   \* pipe[c][e]: end e of the pipe of connection c

(***************************************************************************)
(* phase  "idle", "open" or "gone"                                         *)
(* out    what has come out at this end, chunk by chunk                    *)
(* due    how many chunks may come out at this end, those of out included  *)
(***************************************************************************)
End == {"local", "remote"}

Other(e) == IF e = "local" THEN "remote" ELSE "local"

Idle == [phase |-> "idle", out |-> <<>>, due |-> 0]
Gone == [phase |-> "gone", out |-> <<>>, due |-> 0]

Init == pipe = [c \in Conn |-> [e \in End |-> Idle]]

-----------------------------------------------------------------------------
\* End e of c becomes mine, and the other end of c becomes yours.
Move(c, e, mine, yours) ==
    pipe' = [pipe EXCEPT ![c] = [x \in End |-> IF x = e THEN mine ELSE yours]]

\* The n-th chunk that was put in at end e of c.
Piece(c, e, n) == [conn |-> c, from |-> e, n |-> n]

\* What remains due at an end in state s once the other one is gone.
MayRemain(s) == Len(s.out) .. s.due

Open(c, e) ==
    /\ pipe[c][e].phase = "idle"
    /\ Move(c, e, [pipe[c][e] EXCEPT !.phase = "open"], pipe[c][Other(e)])

\* A chunk is put in at end e.
PutIn(c, e) ==
    /\ pipe[c][e].phase = "open"
    /\ pipe[c][Other(e)].phase # "gone"
    /\ Move(c, e, pipe[c][e], [pipe[c][Other(e)] EXCEPT !.due = @ + 1])

\* A chunk comes out at end e: the next one, if there is one.
ComeOut(c, e) ==
    LET s == pipe[c][e]
        piece == Piece(c, Other(e), Len(s.out) + 1)
    IN  /\ s.phase = "open"
        /\ Len(s.out) < s.due
        /\ Move(c, e, [s EXCEPT !.out = Append(s.out, piece)], pipe[c][Other(e)])

\* End e goes: some of what is due at the other end is lost with it.
Leave(c, e) ==
    /\ pipe[c][e].phase # "gone"
    /\ \E n \in MayRemain(pipe[c][Other(e)]) :
          Move(c, e, Gone, [pipe[c][Other(e)] EXCEPT !.due = n])

\* More of it is lost later.
Cut(c, e) ==
    /\ pipe[c][Other(e)].phase = "gone"
    /\ \E n \in MayRemain(pipe[c][e]) :
          Move(c, e, [pipe[c][e] EXCEPT !.due = n], pipe[c][Other(e)])

Next ==
    \E c \in Conn, e \in End :
        Open(c, e) \/ PutIn(c, e) \/ ComeOut(c, e) \/ Leave(c, e) \/ Cut(c, e)

Spec == Init /\ [][Next]_pipe
=============================================================================
