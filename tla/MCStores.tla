------------------------------ MODULE MCStores ------------------------------
(* The parts of the worker that something must happen in, each on its own:    *)
(* the connection record with a pairing, a re-pairing and two requests, which *)
(* may be in flight under either token; a keyed store with three edits, each  *)
(* adding its own entry, over storage that may start with one that fails the  *)
(* guard; and the flush alarm with one clip and one popup message in hand at  *)
(* a time, beside the drain and the startup sequence.  A behaviour is one of  *)
(* them, by which; the others stand still, with nothing to do.                *)
EXTENDS ConnectionStore, StoreConstants, AlarmConstants

CONSTANTS t1, t2, r1, r2, e1, e2, e3, junk, nothing

VARIABLES
    which,                              \* the part at work
    kept, edits, read, settled,         \* KeyedStore
    length, alarm, paused, awake, task, faults, unarmed  \* FlushAlarm

MCTokens == {t1, t2}
MCRequests == {r1, r2}

MCOps == {e1, e2, e3}
MCValues == SUBSET MCOps
MCRaw == MCValues \union {v \union {junk} : v \in MCValues}
MCGuard == [r \in MCRaw |-> r \ {junk}]
MCEdit == [op \in MCOps |-> [v \in MCValues |-> v \union {op}]]
MCNoSnapshot == {nothing}

K == INSTANCE KeyedStore WITH stored <- kept, chain <- edits, snapshot <- read
F == INSTANCE FlushAlarm

ofKeyed == <<kept, edits, read, settled>>
ofAlarm == <<length, alarm, paused, awake, task, faults, unarmed>>
all == <<which, vars, ofKeyed, ofAlarm>>

\* The worker runs with a task that never comes to anything: nothing here is to
\* happen, by no assumption of fairness.
NoAlarm ==
    /\ length = 0 /\ alarm = "none" /\ paused = FALSE /\ awake = TRUE /\ faults = 0
    /\ task = [t \in F!Tasks |-> [F!Idle EXCEPT !.pc = "absent"]] /\ unarmed = FALSE

StoresInit ==
    \/ which = "connection" /\ Init /\ K!Init /\ kept = {} /\ NoAlarm
    \/ which = "keyed" /\ Init /\ K!Init /\ NoAlarm
    \/ which = "alarm" /\ F!Init /\ Init /\ K!Init /\ kept = {}

\* Only the alarm may never come to a stop.
Over == which # "alarm" /\ UNCHANGED all

StoresNext ==
    \/ /\ UNCHANGED which
       /\ \/ which = "connection" /\ Next /\ UNCHANGED <<ofKeyed, ofAlarm>>
          \/ which = "keyed" /\ K!Next /\ UNCHANGED <<vars, ofAlarm>>
          \/ which = "alarm" /\ F!Next /\ UNCHANGED <<vars, ofKeyed>>
    \/ Over

StoresSpec ==
    StoresInit /\ [][StoresNext]_all /\ Fairness /\ K!Fairness /\ F!Fairness
-----------------------------------------------------------------------------
\* The chain never wedges: no call waits for ever.  The edits are alike, in the module
\* and in the constants given here, so what holds of one holds of each.
EveryCallSettles == K!CallSettles(e1)

\* Nothing but the named races leaves work in the queue without a wake-up.
WakeupLostOnlyToRace == which = "alarm" => F!WakeupLostOnlyToRace

\* Work is found by a drain, whatever wake-up was lost.
WorkIsFound == F!WorkIsFound

\* An alarm without work goes.
IdleWakeupsStop == F!IdleWakeupsStop
=============================================================================
