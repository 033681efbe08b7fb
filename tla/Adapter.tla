------------------------------- MODULE Adapter -------------------------------
(***************************************************************************)
(* An exchange adapter (internal/adapter/base.go): the loop that dials,    *)
(* subscribes, reads and backs off, the goroutines it starts for each      *)
(* connection (the one that closes it with its context, the pings, the     *)
(* maximal lifetime) and the connection state it reports.  What a message  *)
(* does is the Receive of Pipeline.                                        *)
(***************************************************************************)
EXTENDS Naturals, FiniteSets

CONSTANTS
    Pings, Lifetime,    \* pingInterval > 0, maxConnLifetime > 0
    MaxDials, MaxErrs   \* bounds: connections; errors past which the back-off is the same

ASSUME AdapterAssumption ==
    {Pings, Lifetime} \subseteq BOOLEAN /\ {MaxDials, MaxErrs} \subseteq Nat /\ MaxErrs >= 5

VARIABLES
    at,          \* where Run is
    connState,   \* as reported: the callback is called by the goroutine that sets it
    dials,       \* reconnectCount: the connections so far; the last is the current one
    conn,        \* each connection, "lost" when only its peer knows it is gone
    connDone,    \* the connections whose connCtx was cancelled
    helpers,     \* the goroutines of each connection that run
    errs,        \* consecutiveErrs
    wait,        \* the back-off being waited or last waited, in half seconds
    refused,     \* history: dials that failed since the last that succeeded
    rested,      \* history: a back-off has ended since the last dial
    cancelled    \* ctx

network == <<dials, conn, connDone, helpers>>
counts == <<errs, wait, refused, rested>>
vars == <<at, connState, network, counts, cancelled>>

Conns == 1..MaxDials
Helper == {"closer", "pings", "lifetime"}
Open == IF dials = 0 THEN "none" ELSE conn[dials]

Init ==
    /\ at = "loop" /\ connState = "disconnected"
    /\ dials = 0 /\ conn = [c \in Conns |-> "none"] /\ connDone = {}
    /\ helpers = [c \in Conns |-> {}]
    /\ errs = 0 /\ wait = 0 /\ refused = 0 /\ rested = TRUE
    /\ cancelled = FALSE

AtMost(n, max) == IF n < max THEN n ELSE max

Delay(attempt) == AtMost(2 ^ AtMost(attempt, 5), 30)

\* In half seconds: the delay with a jitter of 0.5 to 1.5.
CalcBackoff(attempt) == Delay(attempt)..(3 * Delay(attempt))

-----------------------------------------------------------------------------
(* Run *)

StartAttempt ==
    /\ at = "loop" /\ ~cancelled
    /\ at' = "dialing" /\ connState' = "connecting" /\ rested' = FALSE
    /\ UNCHANGED <<network, errs, wait, refused, cancelled>>

RunReturns ==
    /\ at = "loop" /\ cancelled
    /\ at' = "returned" /\ connState' = "disconnected"
    /\ UNCHANGED <<network, counts, cancelled>>

\* connectAndRead has returned an error.
CountError ==
    /\ at = "failed"
    /\ IF cancelled THEN at' = "loop" /\ UNCHANGED <<errs, wait>>
       ELSE /\ at' = "backoff" /\ errs' = AtMost(errs + 1, MaxErrs)
            /\ wait' \in CalcBackoff(errs')
    /\ UNCHANGED <<connState, network, refused, rested, cancelled>>

BackoffEnds ==
    /\ at = "backoff"
    /\ \/ at' = "loop" /\ rested' = TRUE
       \/ cancelled /\ at' = "returned" /\ UNCHANGED rested
    /\ UNCHANGED <<connState, network, errs, wait, refused, cancelled>>

-----------------------------------------------------------------------------
(* connectAndRead *)

DialFails ==
    /\ at = "dialing"
    /\ at' = "failed" /\ connState' = "disconnected"
    /\ refused' = IF cancelled THEN refused ELSE AtMost(refused + 1, MaxErrs)
    /\ UNCHANGED <<network, errs, wait, rested, cancelled>>

DialSucceeds ==
    /\ at = "dialing" /\ dials < MaxDials
    /\ at' = "subscribing" /\ connState' = "connected"
    /\ dials' = dials + 1 /\ conn' = [conn EXCEPT ![dials + 1] = "open"]
    /\ errs' = 0 /\ refused' = 0
    /\ UNCHANGED <<connDone, helpers, wait, rested, cancelled>>

\* Mutant: a connection that cannot be subscribed on is left open.
SubscribeFailsOpen ==
    /\ at = "subscribing"
    /\ at' = "failed" /\ connState' = "disconnected"
    /\ UNCHANGED <<network, counts, cancelled>>

SubscribeFails ==
    /\ at = "subscribing"
    /\ conn' = [conn EXCEPT ![dials] = "closed"]
    /\ at' = "failed" /\ connState' = "disconnected"
    /\ UNCHANGED <<dials, connDone, helpers, counts, cancelled>>

Subscribe ==
    /\ at = "subscribing"
    /\ at' = "reading"
    /\ helpers' = [helpers EXCEPT ![dials] = {"closer"} \cup (IF Pings THEN {"pings"} ELSE {})
                                             \cup (IF Lifetime THEN {"lifetime"} ELSE {})]
    /\ UNCHANGED <<connState, dials, conn, connDone, counts, cancelled>>

\* Mutant: connCancel is not deferred.
ReadFailsLeaking ==
    /\ at = "reading" /\ Open # "open"
    /\ conn' = [conn EXCEPT ![dials] = "closed"] /\ connState' = "disconnected"
    /\ at' = "failed"
    /\ UNCHANGED <<dials, connDone, helpers, counts, cancelled>>

\* A read fails, or its deadline passes. The error is ctx.Err() when a context of
\* the connection is cancelled, and then none if ctx is not; connCancel is deferred.
ReadFails ==
    /\ at = "reading" /\ Open # "open"
    /\ conn' = [conn EXCEPT ![dials] = "closed"] /\ connState' = "disconnected"
    /\ at' = (IF dials \in connDone /\ ~cancelled THEN "loop" ELSE "failed")
    /\ connDone' = connDone \cup {dials}
    /\ UNCHANGED <<dials, helpers, counts, cancelled>>

ConnectAndRead == DialFails \/ DialSucceeds \/ SubscribeFails \/ Subscribe \/ ReadFails

-----------------------------------------------------------------------------
(* The goroutines of a connection *)

CtxDone(c) == cancelled \/ c \in connDone

\* Mutant: the context of a connection is not derived from that of the process.
CloserEndsOwn(c) ==
    /\ "closer" \in helpers[c] /\ c \in connDone
    /\ conn' = [conn EXCEPT ![c] = "closed"]
    /\ helpers' = [helpers EXCEPT ![c] = @ \ {"closer"}]
    /\ UNCHANGED <<at, connState, dials, connDone, counts, cancelled>>

CloserEnds(c) ==
    /\ "closer" \in helpers[c] /\ CtxDone(c)
    /\ conn' = [conn EXCEPT ![c] = "closed"]
    /\ helpers' = [helpers EXCEPT ![c] = @ \ {"closer"}]
    /\ UNCHANGED <<at, connState, dials, connDone, counts, cancelled>>

\* A ping that fails ends the pings, not the connection.
PingsEnd(c) ==
    /\ "pings" \in helpers[c] /\ (CtxDone(c) \/ conn[c] # "open")
    /\ helpers' = [helpers EXCEPT ![c] = @ \ {"pings"}]
    /\ UNCHANGED <<at, connState, dials, conn, connDone, counts, cancelled>>

\* Mutant: the end of the lifetime cancels the connection's context.
LifetimeEndsCancelling(c) ==
    /\ "lifetime" \in helpers[c]
    /\ connDone' = connDone \cup {c}
    /\ helpers' = [helpers EXCEPT ![c] = @ \ {"lifetime"}]
    /\ UNCHANGED <<at, connState, dials, conn, counts, cancelled>>

LifetimeEnds(c) ==
    /\ "lifetime" \in helpers[c]
    /\ \/ conn' = [conn EXCEPT ![c] = "closed"]
       \/ CtxDone(c) /\ UNCHANGED conn
    /\ helpers' = [helpers EXCEPT ![c] = @ \ {"lifetime"}]
    /\ UNCHANGED <<at, connState, dials, connDone, counts, cancelled>>

-----------------------------------------------------------------------------
(* The exchange, the network, the process *)

PeerGone ==
    /\ dials > 0 /\ Open = "open"
    /\ conn' = [conn EXCEPT ![dials] = "lost"]
    /\ UNCHANGED <<at, connState, dials, connDone, helpers, counts, cancelled>>

Cancel ==
    /\ ~cancelled /\ cancelled' = TRUE
    /\ UNCHANGED <<at, connState, network, counts>>

Run == StartAttempt \/ RunReturns \/ CountError \/ BackoffEnds \/ ConnectAndRead
Help(c) == CloserEnds(c) \/ PingsEnd(c) \/ LifetimeEnds(c)

Next == Run \/ (\E c \in Conns : Help(c)) \/ PeerGone \/ Cancel

Spec == Init /\ [][Next]_vars

\* Dials, writes and reads have deadlines, timers fire; an exchange that is dialled
\* again and again lets the adapter in at last.
FairSpec ==
    /\ Spec /\ WF_vars(Run) /\ SF_vars(DialSucceeds)
    /\ \A c \in Conns : WF_vars(CloserEnds(c)) /\ WF_vars(PingsEnd(c)) /\ WF_vars(LifetimeEnds(c))
-----------------------------------------------------------------------------
(* Properties *)

TypeOK ==
    /\ at \in {"loop", "dialing", "subscribing", "reading", "failed", "backoff", "returned"}
    /\ connState \in {"disconnected", "connecting", "connected"}
    /\ dials \in 0..MaxDials
    /\ conn \in [Conns -> {"none", "open", "lost", "closed"}]
    /\ connDone \subseteq Conns /\ helpers \in [Conns -> SUBSET Helper]
    /\ errs \in 0..MaxErrs /\ refused \in 0..MaxErrs /\ wait \in 0..90
    /\ rested \in BOOLEAN /\ cancelled \in BOOLEAN

\* What the clients are told of a source is where Run is: "connected" from a successful
\* dial until Run has closed that connection, so while another goroutine has closed it
\* too. A connection that is still open or lost is the last dialled, and reported:
\* none is left open behind a redial, although five goroutines close connections.
StateTruthful ==
    /\ (connState = "connected") = (at \in {"subscribing", "reading"})
    /\ (connState = "connecting") = (at = "dialing")
    /\ \A c \in Conns : conn[c] \in {"open", "lost"} => c = dials /\ connState = "connected"

\* The adapter never dials again at once: a back-off has ended since the last dial,
\* and whatever the jitter it was at least half of a delay that doubles with every
\* dial refused in a row, up to 30 seconds, whichever of lifetime, pings, read and
\* cancellation ended the connection. It may be shorter than the back-off before it.
PatientRedial ==
    [][at # "dialing" /\ at' = "dialing" =>
        rested /\ (wait > 0 => wait >= Delay(IF refused = 0 THEN 1 ELSE refused))]_vars

\* A connection that is gone is noticed and replaced, and none of its goroutines stays
\* behind in a process that goes on for months.
Reconnects == \A c \in Conns : c < MaxDials =>
    ((dials = c /\ Open # "open") ~> ((dials > c /\ helpers[c] = {}) \/ cancelled))

\* After a cancellation Run returns, every connection is closed, every goroutine of a
\* connection ends, and "disconnected" is what was reported last.
AdapterStops == cancelled ~>
    /\ at = "returned" /\ connState = "disconnected"
    /\ \A c \in Conns : helpers[c] = {} /\ conn[c] \in {"none", "closed"}
=============================================================================
