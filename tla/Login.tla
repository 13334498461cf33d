-------------------------------- MODULE Login ---------------------------------
(***************************************************************************)
(* google-api-go-client/examples/main.go: how an example gets its client.  *)
(* A token from an earlier run is used when its file can be read.          *)
(* Otherwise a web server waits for the browser of the user to come back   *)
(* with a code, which its handler hands over an unbuffered channel.        *)
(***************************************************************************)
EXTENDS Naturals

CONSTANTS
    Request,   \* requests that reach the server
    NoCode     \* no code was received

VARIABLES
    main,      \* where the main goroutine is
    handler,   \* per request: where its handler is
    code,      \* what main received: the request that brought it
    file       \* what tokenFromFile returns: "none", "unreadable" or "token"

loginVars == <<main, handler, code, file>>

LoginInit ==
    /\ main = "start"
    /\ handler = [r \in Request |-> "none"]
    /\ code = NoCode
    /\ file \in {"none", "unreadable", "token"}

\* getOAuthClient: the token of an earlier run.
TokenFromFile ==
    /\ main = "start"
    /\ file = "token"
    /\ main' = "client"
    /\ UNCHANGED <<handler, code, file>>

\* tokenFromWeb: the server listens and a goroutine opens the browser.
Listen ==
    /\ main = "start"
    /\ file # "token"
    /\ main' = "listen"
    /\ UNCHANGED <<handler, code, file>>

\* A request is accepted.  An icon, a foreign state or no code is answered with
\* an error; a code is answered with a success, and then handed over.
Serve(r) ==
    /\ main \in {"listen", "exchange", "close"}
    /\ handler[r] = "none"
    /\ handler' \in {[handler EXCEPT ![r] = h] : h \in {"returned", "sending"}}
    /\ UNCHANGED <<main, code, file>>

\* code := <-ch
Receive(r) ==
    /\ main = "listen"
    /\ handler[r] = "sending"
    /\ handler' = [handler EXCEPT ![r] = "returned"]
    /\ code' = r
    /\ main' = "exchange"
    /\ UNCHANGED file

\* Mutant of Exchange: when the code is refused, main waits for another one.
ExchangeAgain ==
    /\ main = "exchange"
    /\ main' \in {"close", "listen"}
    /\ UNCHANGED <<handler, code, file>>

\* t.Exchange(code); the program ends when the server refuses it.
Exchange ==
    /\ main = "exchange"
    /\ main' \in {"close", "exit"}
    /\ UNCHANGED <<handler, code, file>>

\* The deferred ts.Close() waits for the handlers that run.
Close ==
    /\ main = "close"
    /\ \A r \in Request : handler[r] # "sending"
    /\ main' = "save"
    /\ UNCHANGED <<handler, code, file>>

\* saveToken: a file that cannot be created or written is not an error.
SaveToken ==
    /\ main = "save"
    /\ main' = "client"
    /\ file' \in {"token", "unreadable", file}
    /\ UNCHANGED <<handler, code>>

LoginStep ==
    \/ TokenFromFile \/ Listen \/ Exchange \/ Close \/ SaveToken
    \/ \E r \in Request : Receive(r)
=============================================================================
