-------------------------------- MODULE Session --------------------------------
(***************************************************************************)
(* The WebSocket session between a client and the store: requests          *)
(* multiplexed over one connection by WebSocketTransport (client/src), and *)
(* frames decoded, routed and answered by ws.ts and wsRouteHandler.ts.     *)
(*                                                                         *)
(* A connection delivers frames in order until it drops, in both           *)
(* directions at once; the server goes on with what it has received.  A    *)
(* request stands for its frame and its correlation id.  Bodies, and the   *)
(* answer of a route but for success or failure, are left out.             *)
(***************************************************************************)
EXTENDS Integers, Sequences, FiniteSets, SequencesExt

CONSTANTS
    Single,     \* requests made with request()
    Batch,      \* requests made with pipeline(): a batch counts as one
    Stream,     \* requests made with request() for a route that never ends its
                \* response, an SSE stream
    MaxDrops    \* bound: connections lost or refused

Requests == Single \cup Batch \cup Stream

ASSUME SessionAssumption ==
    /\ Single \cap Batch = {} /\ Single \cap Stream = {} /\ Batch \cap Stream = {}
    /\ MaxDrops \in Nat

VARIABLES
    outcome,    \* of the promise of a request: "none" before it is made, "waiting",
                \* "resolved", "failed", "timeout", "lost", "closed", "broken"
    pending,    \* the pending map
    buffer,     \* requests to send when the connection opens
    wrapped,    \* batches buffered, whose resolve expects the whole response
    link,       \* "connecting", "open", "waiting" for the reconnect timer, "closed"
    toServer, toClient,     \* frames in transit on the connection
    serving,    \* route handlers at work: [req, conn, done]
    executed,   \* how often a request has run on the server
    drops       \* connections so far; it names the present one

client == <<outcome, pending, buffer, wrapped, link>>
server == <<serving, executed>>
sessionVars == <<client, toServer, toClient, server, drops>>

InitSession ==
    /\ outcome = [r \in Requests |-> "none"]
    /\ pending = {} /\ buffer = <<>> /\ wrapped = {} /\ link = "connecting"
    /\ toServer = <<>> /\ toClient = <<>>
    /\ serving = {}
    /\ executed = [r \in Requests |-> 0]
    /\ drops = 0

Waiting == {r \in Requests : outcome[r] = "waiting"}

Settle(rs, how) == outcome' = [r \in Requests |-> IF r \in rs THEN how ELSE outcome[r]]

-----------------------------------------------------------------------------
(* The client's calls.                                                     *)

\* request() and pipeline(): registered and sent, or buffered without a timeout.
Request(r) ==
    /\ outcome[r] = "none"
    /\ link # "closed"
    /\ Settle({r}, "waiting")
    /\ IF link = "open"
       THEN /\ pending' = pending \cup {r}
            /\ toServer' = Append(toServer, r)
            /\ UNCHANGED <<buffer, wrapped>>
       ELSE /\ buffer' = Append(buffer, r)
            /\ wrapped' = wrapped \cup ({r} \cap Batch)
            /\ UNCHANGED <<pending, toServer>>
    /\ UNCHANGED <<link, toClient, server, drops>>

RequestClosed(r) ==
    /\ outcome[r] = "none"
    /\ link = "closed"
    /\ Settle({r}, "closed")
    /\ UNCHANGED <<pending, buffer, wrapped, link, toServer, toClient, server, drops>>

\* close()
CloseTransport ==
    /\ link # "closed"
    /\ link' = "closed"
    /\ Settle(pending \cup ToSet(buffer), "closed")
    /\ pending' = {} /\ buffer' = <<>>
    /\ toClient' = <<>>
    /\ UNCHANGED <<wrapped, toServer, server, drops>>

-----------------------------------------------------------------------------
(* The connection.                                                         *)

\* The "open" handler: replayBuffer() registers and sends in order. Its mutant
\* only marks the connection as open.
OpensSilently ==
    /\ link = "connecting"
    /\ link' = "open"
    /\ toClient' = <<>>
    /\ UNCHANGED <<outcome, pending, buffer, wrapped, toServer, server, drops>>
Opens ==
    /\ link = "connecting"
    /\ link' = "open"
    /\ pending' = pending \cup ToSet(buffer)
    /\ toServer' = buffer
    /\ toClient' = <<>>
    /\ buffer' = <<>>
    /\ UNCHANGED <<outcome, wrapped, server, drops>>

\* handleDisconnect(): what was sent is given up, what was not stays buffered.
\* Its mutant sends the pending requests again.
DisconnectResending ==
    /\ buffer' = SetToSeq(pending) \o buffer
    /\ pending' = {}
    /\ UNCHANGED outcome
Disconnect ==
    /\ Settle(pending, "lost")
    /\ pending' = {}
    /\ UNCHANGED buffer

Drops ==
    /\ link \in {"connecting", "open"}
    /\ drops < MaxDrops
    /\ drops' = drops + 1
    /\ link' = "waiting"
    /\ Disconnect
    /\ toServer' = <<>> /\ toClient' = <<>>
    /\ UNCHANGED <<wrapped, server>>

\* The reconnect timer.
Reconnects ==
    /\ link = "waiting"
    /\ link' = "connecting"
    /\ UNCHANGED <<outcome, pending, buffer, wrapped, toServer, toClient, server, drops>>

-----------------------------------------------------------------------------
(* The server.                                                             *)

\* handleMessage(): frames are taken in order and served concurrently.
Receives ==
    /\ toServer # <<>>
    /\ serving' = serving \cup {[req |-> Head(toServer), conn |-> drops, done |-> FALSE]}
    /\ toServer' = Tail(toServer)
    /\ UNCHANGED <<client, toClient, executed, drops>>

\* The route takes effect, through the middleware of the Express application.
Executes(s) ==
    /\ ~s.done
    /\ serving' = (serving \ {s}) \cup {[s EXCEPT !.done = TRUE]}
    /\ executed' = [executed EXCEPT ![s.req] = @ + 1]
    /\ UNCHANGED <<client, toServer, toClient, drops>>

\* res.end(), a route that throws, or a batch that is not well formed; the answer
\* goes out if its own connection is open. A stream never ends, and nothing
\* closes its request: its handler stays subscribed.
Answers(s, ok) ==
    /\ ok => s.done
    /\ s.req \notin Stream
    /\ serving' = serving \ {s}
    /\ toClient' = IF link = "open" /\ s.conn = drops
                   THEN Append(toClient, [req |-> s.req, ok |-> ok])
                   ELSE toClient
    /\ UNCHANGED <<client, toServer, executed, drops>>

-----------------------------------------------------------------------------
(* Answers and timeouts.                                                   *)

\* A buffered batch was given a resolve for the whole response and is called with
\* the array: it throws, after the request has left the map and its timer stopped.
HowSettled(answer) ==
    IF ~answer.ok THEN "failed"
    ELSE IF answer.req \in wrapped THEN "broken" ELSE "resolved"

\* handleMessage() of the client; an answer nobody waits for is dropped.
\* Its mutant keeps the request when the answer is an error.
ClientReceivesGood ==
    /\ toClient # <<>>
    /\ toClient' = Tail(toClient)
    /\ LET answer == Head(toClient) IN
         IF answer.req \in pending
         THEN /\ pending' = IF answer.ok THEN pending \ {answer.req} ELSE pending
              /\ Settle({answer.req}, HowSettled(answer))
         ELSE UNCHANGED <<pending, outcome>>
    /\ UNCHANGED <<buffer, wrapped, link, toServer, server, drops>>
ClientReceives ==
    /\ toClient # <<>>
    /\ toClient' = Tail(toClient)
    /\ LET answer == Head(toClient) IN
         IF answer.req \in pending
         THEN /\ pending' = pending \ {answer.req}
              /\ Settle({answer.req}, HowSettled(answer))
         ELSE UNCHANGED <<pending, outcome>>
    /\ UNCHANGED <<buffer, wrapped, link, toServer, server, drops>>

\* The timer of registerPending(), which runs from the moment of sending.
TimesOut(r) ==
    /\ r \in pending
    /\ pending' = pending \ {r}
    /\ Settle({r}, "timeout")
    /\ UNCHANGED <<buffer, wrapped, link, toServer, toClient, server, drops>>

NextSession ==
    \/ \E r \in Requests : Request(r) \/ RequestClosed(r) \/ TimesOut(r)
    \/ CloseTransport \/ Opens \/ Drops \/ Reconnects
    \/ Receives \/ ClientReceives
    \/ \E s \in serving : Executes(s) \/ (\E ok \in BOOLEAN : Answers(s, ok))

\* Timers fire, and connecting succeeds once it has stopped failing. Neither the
\* server nor the network has to answer.
SessionFairness ==
    /\ WF_sessionVars(Opens)
    /\ WF_sessionVars(Reconnects)
    /\ \A r \in Requests : WF_sessionVars(TimesOut(r))

SessionSpec == InitSession /\ [][NextSession]_sessionVars /\ SessionFairness

-----------------------------------------------------------------------------
(* A promise waits exactly while its request is in the map or the buffer,  *)
(* never in both: the map holds requests of the open connection only, the  *)
(* buffer none that could have been sent, and neither survives close().    *)
WaitingTracked ==
    /\ Waiting = pending \cup ToSet(buffer)
    /\ pending \cap ToSet(buffer) = {}
    /\ pending # {} => link = "open"
    /\ buffer # <<>> => link \in {"connecting", "waiting"}

(* Over any number of reconnections the server runs a request at most      *)
(* once; it has run those that were answered with success, and none that   *)
(* is still to be sent.                                                    *)
AtMostOnce ==
    \A r \in Requests :
        /\ executed[r] <= 1
        /\ outcome[r] \in {"resolved", "broken"} => executed[r] = 1
        /\ r \in ToSet(buffer) => executed[r] = 0

(* A batch that is answered resolves: false for one that was made while    *)
(* the connection was down.                                                *)
BatchesResolve == \A r \in Batch : outcome[r] # "broken"

(* When connecting works in the end, every promise settles, with or        *)
(* without an answer; that of a batch buffered while the connection was    *)
(* down may instead break, which settles nothing.                          *)
EveryRequestEnds ==
    \A r \in Requests : (outcome[r] = "waiting") ~> (outcome[r] # "waiting")
=============================================================================
