----------------------------- MODULE HttpServer ------------------------------
(***************************************************************************)
(* The HTTP server (rest.rs): connections are served on an async runtime,  *)
(* requests are handled on its pool of blocking threads, and `stop` drains *)
(* the connections for a while and then drops the runtime.  Clients send   *)
(* as slowly as they like, never read their reply, or hang up.             *)
(***************************************************************************)
EXTENDS Integers

CONSTANTS
    HttpConns       \* connections

VARIABLES
    server,         \* "serving", "draining", "dropping" the runtime, "stopped"
    http,           \* each connection: "none", "idle", "body", "handled", "reply" or "closed"
    handlers,       \* connections whose handler runs on a blocking thread
    httpReply,      \* the reply to the request of each connection
    cut,            \* the server closed a connection that had a request
    late            \* the draining took too long

vars == <<server, http, handlers, httpReply, cut, late>>

Init ==
    /\ server = "serving" /\ http = [c \in HttpConns |-> "none"] /\ handlers = {}
    /\ httpReply = [c \in HttpConns |-> "none"] /\ cut = FALSE /\ late = FALSE

Moves(c, from, to) == http[c] = from /\ http' = [http EXCEPT ![c] = to]
Replies(c, status) == httpReply' = [httpReply EXCEPT ![c] = status]
Requesting == {"body", "handled", "reply"}
Running == server \in {"serving", "draining"}

----------------------------------------------------------------------------
Accept(c) == server = "serving" /\ Moves(c, "none", "idle") /\ UNCHANGED <<server, handlers, httpReply, cut, late>>

\* The header of a request was read within REQUEST_HEADER_TIMEOUT.
Header(c) ==
    /\ Running /\ Moves(c, "idle", "body") /\ Replies(c, "none")
    /\ UNCHANGED <<server, handlers, cut, late>>

HeaderTimeout(c) ==
    /\ Running /\ Moves(c, "idle", "closed") /\ UNCHANGED <<server, handlers, httpReply, cut, late>>

\* The whole body was read, within its limits; the request is handed to a blocking thread.
Body(c) ==
    /\ Running /\ Moves(c, "body", "handled") /\ handlers' = handlers \cup {c}
    /\ UNCHANGED <<server, httpReply, cut, late>>

\* The body is too large (413), it breaks off (400), or it is not complete in REQUEST_BODY_TIMEOUT (408).
BadBody(c) ==
    /\ Running /\ Moves(c, "body", "reply") /\ \E s \in {"413", "400", "408"} : Replies(c, s)
    /\ UNCHANGED <<server, handlers, cut, late>>

\* The handler returns or panics; there may be nobody left to reply to.
AnswerOf(panics) == IF panics THEN "500" ELSE "answer"

HandlerEnds(c) ==
    /\ c \in handlers /\ handlers' = handlers \ {c}
    /\ IF http[c] = "handled"
       THEN Moves(c, "handled", "reply") /\ \E panics \in BOOLEAN : Replies(c, AnswerOf(panics))
       ELSE UNCHANGED <<http, httpReply>>
    /\ UNCHANGED <<server, cut, late>>

\* The client has read its reply.  The connection is kept, unless the server is being stopped.
ReplyRead(c) ==
    /\ Running /\ Moves(c, "reply", IF server = "serving" THEN "idle" ELSE "closed")
    /\ UNCHANGED <<server, handlers, httpReply, cut, late>>

HangUp(c) ==
    /\ http[c] \in Requesting \cup {"idle"} /\ http' = [http EXCEPT ![c] = "closed"]
    /\ UNCHANGED <<server, handlers, httpReply, cut, late>>

----------------------------------------------------------------------------
\* Handle::stop: the accept loop ends.
Stop == server = "serving" /\ server' = "draining" /\ UNCHANGED <<http, handlers, httpReply, cut, late>>

\* GracefulShutdown closes a connection that is between two requests.
Closes(c) == http[c] = "idle"

Drain(c) ==
    /\ server = "draining" /\ Closes(c) /\ http' = [http EXCEPT ![c] = "closed"]
    /\ cut' = (cut \/ http[c] \in Requesting)
    /\ UNCHANGED <<server, handlers, httpReply, late>>

\* The runtime is dropped, with its tasks and their connections, when all are closed or ten seconds have
\* passed.  It waits for its blocking threads; then `join` returns.
Drop(gaveUp) ==
    /\ server = "draining" /\ server' = "dropping" /\ late' = gaveUp
    /\ cut' = (cut \/ \E c \in HttpConns : http[c] \in Requesting)
    /\ http' = [c \in HttpConns |-> "closed"] /\ UNCHANGED <<handlers, httpReply>>

Drained == (\A c \in HttpConns : http[c] \in {"none", "closed"}) /\ Drop(FALSE)

MayGiveUp == TRUE

GiveUp == MayGiveUp /\ Drop(TRUE)

Dropped ==
    /\ server = "dropping" /\ handlers = {} /\ server' = "stopped"
    /\ UNCHANGED <<http, handlers, httpReply, cut, late>>

Shutdown == Drained \/ GiveUp \/ Dropped
Client(c) == Accept(c) \/ Header(c) \/ Body(c) \/ ReplyRead(c) \/ HangUp(c)
Next ==
    \/ \E c \in HttpConns : Client(c) \/ HeaderTimeout(c) \/ BadBody(c) \/ HandlerEnds(c) \/ Drain(c)
    \/ Stop \/ Shutdown

----------------------------------------------------------------------------
\* A stop that does not time out answers every request that was begun (rest.rs:786-794): the server
\* itself closes no connection that has a request.
CutsNone == cut => late

\* `stop` returns (rest.rs:814-817), whatever clients do, if the handlers return.
Stopping == server \in {"draining", "dropping"}
==============================================================================
