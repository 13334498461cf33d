------------------------------- MODULE Example --------------------------------
(***************************************************************************)
(* google-api-go-client/examples: a program that gets its client from      *)
(* Login and makes one API call with it, with or without media.            *)
(***************************************************************************)
EXTENDS Login, Upload

vars == <<loginVars, callVars>>

Init == LoginInit /\ CallInit

LoginNext == LoginStep \/ \E r \in Request : Serve(r)

Next ==
    \/ LoginNext /\ UNCHANGED callVars
    \/ main = "client" /\ CallNext /\ UNCHANGED loginVars

Spec == Init /\ [][Next]_vars

\* Goroutines run, the authorization server and the API answer or the
\* connection to them fails.  Nobody has to open the page, break a connection
\* or touch the file.
Fairness ==
    /\ WF_vars(LoginStep /\ UNCHANGED callVars)
    /\ WF_vars(main = "client" /\ CallStep /\ UNCHANGED loginVars)

FairSpec == Spec /\ Fairness

-----------------------------------------------------------------------------
\* The shape of the state.
TypeOK ==
    /\ main \in {"start", "listen", "exchange", "close", "save", "client", "exit"}
    /\ handler \in [Request -> {"none", "sending", "returned"}]
    /\ code \in Request \cup {NoCode}
    /\ file \in {"none", "unreadable", "token"}
    /\ do \in {"idle", "measure", "sniff", "expand", "send", "transmit", "broken", "answer", "done"}
    /\ pos \in 0..MaxSize
    /\ size \in 0..MaxSize
    /\ resized \in BOOLEAN
    /\ media \in [front: Seq(1..MaxSize), direct: BOOLEAN, fails: BOOLEAN]
    /\ announced \in 0..(MaxSize + Cardinality(Framing))
    /\ writer \in Framing \cup {"off", "media", "close", "ended"}
    /\ Len(sent) <= announced
    /\ result \in {"none", "ok", "error", "broken", "mismatch"}

\* Once the user has come back with a code the login comes to its end, unless a
\* second request brought a code as well: its handler waits for somebody to
\* receive it, and ts.Close() waits for that handler.
LoginEnds ==
    main = "exchange" ~> \/ main \in {"client", "exit"}
                         \/ \E r \in Request : handler[r] = "sending"

\* googleapi.Expand: outside the cases that Departs names, uritemplates
\* does what RFC 6570 says, and refuses what the RFC refuses, for which the URL
\* keeps the template.
ExpandsAsRfc ==
    do = "send" /\ ~Departs(call.template, call.values) =>
        path = IF RfcApplicable(call.template, call.values)
               THEN RfcExpand(call.template, call.values) ELSE <<>>

\* The media of a call that returned without an error is the whole file, the
\* part a media type was guessed from included, though the file may have been
\* written to between the measuring and the reading.  Not claimed for a reader
\* that was copied and failed: see ErrorsKept.
WholeMedia ==
    (result = "ok" /\ call.source # NoMedia /\ ~media.fails)
    => MediaPart(sent) = whole

\* The length announced is the length of the body: the transport refuses a call
\* only when the file changed, or could not be read or rewound.
LengthsAgree ==
    result = "mismatch" =>
        \/ resized
        \/ call.source.failsAt # 0
        \/ call.source.seek = "stuck"

\* A call that is sent returns, and the goroutine that writes its body gets to
\* its end as well: after the body, after an error of the media, and when the
\* connection breaks at any byte, though every write from then on fails, those
\* of the deferred calls included, and Do returns on its own.
WriterEnds == do = "transmit" ~> do = "done" /\ writer = "ended"

\* googleapi.go, endingWithErrorReader: "If the final error from r is os.EOF and
\* e is non-nil, e is used instead".  A media reader that failed while it was
\* copied fails again for whoever reads the copy, so the call does not succeed.
ErrorsKept == (result = "ok" /\ call.source # NoMedia) => ~media.fails
=============================================================================
