--------------------------- MODULE ConnectorHealth ---------------------------
(***************************************************************************)
(* What the gateway says of its connectors, read for every dashboard the   *)
(* user opens.  Reads of one gateway that overlap share one request, and   *)
(* an answer is kept in storage for a minute, with the gateway it is from  *)
(* and the time its reader asked.  An answer is known here by the time at  *)
(* which the gateway gave it.                                              *)
(***************************************************************************)
EXTENDS Naturals

CONSTANTS
    Origins,    \* the gateways the browser may be paired with
    Readers,    \* the resolves that may be under way at once
    TTL,        \* CONNECTOR_HEALTH_TTL_MS
    Timeout,    \* CONNECTORS_TIMEOUT_MS, which bounds the wait for the headers
    Never,      \* no time: nothing read
    MaxTime,    \* bound: the clock
    MaxFaults   \* bound: failed calls of storage, bodies that stall, evictions

VARIABLES
    now,     \* the clock
    cache,   \* the stored answer, if any
    flight,  \* the request on its way to each gateway, if any
    reader,  \* where each resolve stands, and what it was told
    faults,  \* the faults so far
    stalled  \* history: a body has arrived later than its headers' timeout

vars == <<now, cache, flight, reader, faults, stalled>>

NoCache == [pc |-> "kept", origin |-> "none", at |-> 0, from |-> "none", seen |-> Never]
NoFlight == [origin |-> "none", began |-> 0, seen |-> Never]
Off == [pc |-> "off", origin |-> "none", at |-> 0, from |-> "none", seen |-> Never]

\* Bug: one request at a time, whichever gateway it is to.
MutantSlot(o) == CHOOSE p \in Origins : TRUE

\* The request a read of this gateway may share.
Slot(o) == o

Init ==
    /\ now = 0 /\ cache = NoCache
    /\ flight = [o \in Origins |-> NoFlight]
    /\ reader = [r \in Readers |-> Off]
    /\ faults = 0 /\ stalled = FALSE

Fault == faults < MaxFaults /\ faults' = faults + 1

\* nowMs is the caller's, taken before anything is awaited.
readConnectorHealth(r, o) ==
    /\ reader[r].pc \in {"off", "told"}
    /\ reader' = [reader EXCEPT ![r] = [Off EXCEPT !.pc = "reading", !.origin = o, !.at = now]]
    /\ UNCHANGED <<now, cache, flight, faults, stalled>>

Hit(ask) ==
    /\ cache # NoCache /\ cache.origin = ask.origin
    /\ cache.at <= ask.at /\ ask.at - cache.at < TTL

\* The request of its slot is joined, or one is made.
readerFor(o) ==
    IF flight[Slot(o)] # NoFlight THEN flight
    ELSE [flight EXCEPT ![Slot(o)] = [origin |-> o, began |-> now, seen |-> Never]]

\* The storage answers, and a failed read is a miss.
ReadCache(r) ==
    /\ reader[r].pc = "reading"
    /\ \/ /\ Hit(reader[r]) /\ reader' = [reader EXCEPT ![r].pc = "told", ![r].from = cache.from,
                                                         ![r].seen = cache.seen]
          /\ UNCHANGED <<flight, faults>>
       \/ /\ IF Hit(reader[r]) THEN Fault ELSE UNCHANGED faults
          /\ reader' = [reader EXCEPT ![r].pc = "waiting"]
          /\ flight' = readerFor(reader[r].origin)
    /\ UNCHANGED <<now, cache, stalled>>

GatewayAnswers(o) ==
    /\ flight[o] # NoFlight /\ flight[o].seen = Never
    /\ flight' = [flight EXCEPT ![o].seen = now]
    /\ UNCHANGED <<now, cache, reader, faults, stalled>>

Waiting(o) == {r \in Readers : reader[r].pc = "waiting" /\ Slot(reader[r].origin) = o}

\* The request settles, for all who wait on it: with an answer, or with none.
Settle(o) ==
    /\ flight[o] # NoFlight
    /\ \E seen \in {Never, flight[o].seen} :
          reader' = [r \in Readers |->
                        IF r \notin Waiting(o) THEN reader[r]
                        ELSE [reader[r] EXCEPT !.pc = IF seen = Never THEN "told" ELSE "storing",
                                               !.from = flight[o].origin, !.seen = seen]]
    /\ flight' = [flight EXCEPT ![o] = NoFlight]
    /\ UNCHANGED <<now, cache, faults, stalled>>

\* An answer is kept, or could not be; it is told either way.
Store(r) ==
    /\ reader[r].pc = "storing"
    /\ \/ /\ cache' = [reader[r] EXCEPT !.pc = "kept"]
          /\ UNCHANGED faults
       \/ Fault /\ UNCHANGED cache
    /\ reader' = [reader EXCEPT ![r].pc = "told"]
    /\ UNCHANGED <<now, flight, stalled>>

Evict ==
    /\ Fault
    /\ flight' = [o \in Origins |-> NoFlight] /\ reader' = [r \in Readers |-> Off]
    /\ UNCHANGED <<now, cache, stalled>>

\* Storage is quicker than the clock, and headers than their timeout; a body may stall.
Tick ==
    /\ now < MaxTime /\ now' = now + 1
    /\ \A r \in Readers : reader[r].pc \notin {"reading", "storing"}
    /\ LET late == \E o \in Origins : flight[o] # NoFlight /\ now - flight[o].began >= Timeout
       IN  /\ late => \A o \in Origins : flight[o] # NoFlight => flight[o].seen # Never
           /\ IF late /\ ~stalled THEN Fault /\ stalled' = TRUE ELSE UNCHANGED <<faults, stalled>>
    /\ UNCHANGED <<cache, flight, reader>>

Next ==
    \/ \E r \in Readers : \/ \E o \in Origins : readConnectorHealth(r, o)
                          \/ ReadCache(r) \/ Store(r)
    \/ \E o \in Origins : GatewayAnswers(o) \/ Settle(o)
    \/ Evict \/ Tick

Spec == Init /\ [][Next]_vars
-----------------------------------------------------------------------------
\* What a dashboard is told of its connector its own gateway said, no longer than
\* the minute and one request ago, whoever shared the request or kept the answer,
\* unless a body stalled (connector-health-store.ts:81-124).
HealthIsRecent ==
    \A r \in Readers : reader[r].pc = "told" /\ reader[r].seen # Never /\ ~stalled
                       => /\ reader[r].from = reader[r].origin
                          /\ reader[r].at < reader[r].seen + TTL + Timeout
=============================================================================
