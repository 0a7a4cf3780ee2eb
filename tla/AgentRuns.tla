----------------------------- MODULE AgentRuns -----------------------------
(***************************************************************************)
(* The agent lanes' runs: a run is invoked at the gateway, kept in a store *)
(* keyed by the question it answers, polled until it ends by a loop in the *)
(* worker, and picked up again by an alarm when the worker that polled it  *)
(* was evicted.  A change of pairing clears the store, and a generation    *)
(* counter keeps the loops of the old pairing from filling it again.       *)
(*                                                                         *)
(* Every write of the store waits its turn on one promise chain, so a step *)
(* that writes only links its write and a later one executes it.           *)
(***************************************************************************)
EXTENDS Naturals, Sequences

CONSTANTS
    Runs,         \* the runs the gateway may be asked for
    Keys,         \* the questions: a subject and a lane
    Terms,        \* those whose subject is a term
    NoRun,        \* no run
    MaxStored,    \* MAX_STORED_RUNS
    MaxTerms,     \* MAX_STORED_TERM_RUNS
    MaxChanges,   \* bound: changes of pairing
    MaxChain,     \* bound: the longest chain the alarm adds to
    MaxFaults     \* bound: evictions, rejected writes and entries past their TTL

ASSUME AgentRunsAssumption ==
    /\ Keys # {} /\ Terms \subseteq Keys /\ NoRun \notin Runs
    /\ MaxStored \in Nat \ {0} /\ MaxTerms \in Nat \ {0}
    /\ MaxChanges \in Nat /\ MaxChain \in Nat /\ MaxFaults \in Nat

VARIABLES
    store,       \* the stored runs, the oldest write first
    chain,       \* the writes linked on the store's chain
    handler,     \* where the message that asks for each run stands
    loop,        \* where the poll loop of each run stands
    resolver,    \* the runs whose links are being asked for, by generation
    resume,      \* where the alarm's handler stands
    alarm,       \* the poll alarm is armed
    pairing,     \* the pairing stored, 0 for none
    changes,     \* the changes of pairing so far
    generation,  \* pairingGeneration
    changing,    \* a pairing or unpair has written the connection and not bumped
    lapsed,      \* the runs whose stored entry is past its TTL
    faults,      \* the faults so far
    unclear      \* the clear of the latest change was lost

worker == <<chain, handler, loop, resolver, resume, generation, changing>>
vars == <<store, worker, alarm, pairing, changes, lapsed, faults, unclear>>

\* Every pairing is with a gateway of its own.
Pairings == 0 .. MaxChanges + 1
Generations == 0 .. MaxChanges

\* The store, whose runs belong to the pairing they were invoked under.
RS == INSTANCE RunStore WITH Owners <- Pairings

\* putRun, clearRuns, putItemUrls; gen: the generation of the loop that puts.
Ops == [op : {"put", "links"}, entry : RS!Entries, gen : Generations]
           \union [op : {"clear"}]

\* pc: asked and not invoked; invoked and not stored; stored and not polled.
Handlers == [pc : {"new", "invoking", "putting", "arming", "over"},
             key : Keys, owner : Pairings]

\* asked: the pairing whose gateway the poll goes to.
Loops == [pc : {"off", "waiting", "due", "asking"},
          gen : Generations, asked : Pairings]

Off == [pc |-> "off", gen |-> 0, asked |-> 0]

TypeOK ==
    /\ store \in Seq(RS!Entries)
    /\ chain \in Seq(Ops)
    /\ handler \in [Runs -> Handlers]
    /\ loop \in [Runs -> Loops]
    /\ resolver \subseteq [run : Runs, gen : Generations]
    /\ resume \in [pc : {"off", "listing", "clearing"}, runs : SUBSET Runs]
    /\ alarm \in BOOLEAN /\ changing \in BOOLEAN /\ unclear \in BOOLEAN
    /\ pairing \in Pairings /\ changes \in 0 .. MaxChanges
    /\ generation \in Generations
    /\ lapsed \subseteq Runs
    /\ faults \in 0 .. MaxFaults

Init ==
    /\ store = <<>> /\ chain = <<>>
    /\ handler = [r \in Runs |-> [pc |-> "new", key |-> CHOOSE k \in Keys : TRUE,
                                  owner |-> 0]]
    /\ loop = [r \in Runs |-> Off]
    /\ resolver = {}
    /\ resume = [pc |-> "off", runs |-> {}]
    /\ alarm = FALSE
    /\ pairing = 1 /\ changes = 0 /\ generation = 0 /\ changing = FALSE
    /\ lapsed = {} /\ faults = 0 /\ unclear = FALSE

----------------------------------------------------------------------------
\* A write joins the store's chain.
Link(op) == chain' = Append(chain, op)

Entry(r, kind) == [key |-> handler[r].key, run |-> r, owner |-> handler[r].owner,
                   kind |-> kind, links |-> NoRun]
PutOp(r, kind) == [op |-> "put", entry |-> Entry(r, kind), gen |-> loop[r].gen]

----------------------------------------------------------------------------
\* A lane is expanded or re-run: a run or an answer in the store is returned as
\* it is, else the gateway of the moment is to be asked for a run.
Ask(r, k) ==
    /\ handler[r].pc = "new"
    /\ pairing # 0
    /\ \A e \in RS!Cached(k) : e.kind = "failed"
    /\ handler' = [handler EXCEPT ![r] = [pc |-> "invoking", key |-> k, owner |-> pairing]]
    /\ UNCHANGED <<store, chain, loop, resolver, resume, generation, changing, alarm,
                   pairing, changes, lapsed, faults, unclear>>

\* The gateway accepts the run and its entry joins the chain, or it does not.
Invoked(r) ==
    /\ handler[r].pc = "invoking"
    /\ \/ /\ handler' = [handler EXCEPT ![r].pc = "putting"]
          /\ Link(PutOp(r, "running"))
       \/ handler' = [handler EXCEPT ![r].pc = "over"] /\ UNCHANGED chain
    /\ UNCHANGED <<store, loop, resolver, resume, generation, changing, alarm,
                   pairing, changes, lapsed, faults, unclear>>

\* The head of the chain is written.  A run stored as running goes on to be
\* armed; one stored as done may have links to ask for.
Execute ==
    /\ chain # <<>>
    /\ chain' = Tail(chain)
    /\ LET op == Head(chain) IN
          \/ /\ op.op = "put"
             /\ store' = RS!Put(op.entry)
             /\ lapsed' = lapsed \ {op.entry.run}
             /\ handler' = IF op.entry.kind # "running" THEN handler
                           ELSE [handler EXCEPT ![op.entry.run].pc = "arming"]
             /\ \/ UNCHANGED resolver
                \/ /\ op.entry.kind = "done"
                   /\ op.gen = generation
                   /\ resolver' = resolver \union
                                      {[run |-> op.entry.run, gen |-> op.gen]}
             /\ UNCHANGED unclear
          \/ /\ op.op = "links"
             /\ store' = RS!Attach(op.entry.key, op.entry.run)
             /\ UNCHANGED <<lapsed, handler, resolver, unclear>>
          \/ /\ op.op = "clear"
             /\ store' = <<>>
             /\ unclear' = FALSE
             /\ UNCHANGED <<lapsed, handler, resolver>>
    /\ UNCHANGED <<loop, resume, generation, changing, alarm, pairing, changes,
                   faults>>

\* The write rejects: who waited for it gives up, the chain goes on.
ExecuteFails ==
    /\ chain # <<>>
    /\ faults < MaxFaults
    /\ faults' = faults + 1
    /\ chain' = Tail(chain)
    /\ LET op == Head(chain) IN
          /\ handler' = IF op.op = "put" /\ op.entry.kind = "running"
                        THEN [handler EXCEPT ![op.entry.run].pc = "over"] ELSE handler
          /\ unclear' = (unclear \/ op.op = "clear")
    /\ UNCHANGED <<store, loop, resolver, resume, generation, changing, alarm,
                   pairing, changes, lapsed>>

\* The stored run gets its wakeup and, unless the alarm's handler has been
\* quicker, its loop, which belongs to the pairing of this moment.
Arm(r) ==
    /\ handler[r].pc = "arming"
    /\ handler' = [handler EXCEPT ![r].pc = "over"]
    /\ alarm' = TRUE
    /\ loop' = IF loop[r].pc # "off" THEN loop
               ELSE [loop EXCEPT ![r] = [Off EXCEPT !.pc = "waiting", !.gen = generation]]
    /\ UNCHANGED <<store, chain, resolver, resume, generation, changing, pairing,
                   changes, lapsed, faults, unclear>>

----------------------------------------------------------------------------
\* The poll loop.

Moved(r) == loop[r].gen # generation

\* The loop ends without a word, or with an outcome for the store.
Stop(r) == loop' = [loop EXCEPT ![r] = Off] /\ UNCHANGED chain
StopWith(r, kind) == loop' = [loop EXCEPT ![r] = Off] /\ Link(PutOp(r, kind))
Go(r, pc, asked) ==
    /\ loop' = [loop EXCEPT ![r].pc = pc, ![r].asked = asked]
    /\ UNCHANGED chain

LoopUnchanged == UNCHANGED <<store, handler, resolver, resume, generation, changing,
                             alarm, pairing, changes, lapsed, faults, unclear>>

\* Bug: a run without a connection is given up without a word.
MutantTick(r) ==
    /\ loop[r].pc \in {"waiting", "due"}
    /\ \/ (Moved(r) \/ pairing = 0) /\ Stop(r)
       \/ ~Moved(r) /\ pairing # 0 /\ r \in lapsed /\ StopWith(r, "failed")
       \/ ~Moved(r) /\ r \notin lapsed /\ pairing # 0 /\ Go(r, "asking", pairing)
    /\ LoopUnchanged

\* The timer fires, or the alarm's handler is due: the connection is read, and
\* a run past its TTL or without a connection has failed.
Tick(r) ==
    /\ loop[r].pc \in {"waiting", "due"}
    /\ \/ Moved(r) /\ Stop(r)
       \/ ~Moved(r) /\ (r \in lapsed \/ pairing = 0) /\ StopWith(r, "failed")
       \/ ~Moved(r) /\ r \notin lapsed /\ pairing # 0 /\ Go(r, "asking", pairing)
    /\ LoopUnchanged

\* The gateway has an outcome: done, which only the one the run was invoked at
\* can say; or failed, for one of many reasons.
Outcome(r) ==
    \/ loop[r].asked = handler[r].owner /\ StopWith(r, "done")
    \/ StopWith(r, "failed")

\* Bug: the pairing is not looked at again after the poll's last await.
MutantPolled(r) ==
    /\ loop[r].pc = "asking"
    /\ Go(r, "waiting", 0) \/ Outcome(r)
    /\ LoopUnchanged

\* The gateway answers the poll: still running, or out of reach for the moment;
\* or the outcome.
Polled(r) ==
    /\ loop[r].pc = "asking"
    /\ \/ Moved(r) /\ Stop(r)
       \/ ~Moved(r) /\ (Go(r, "waiting", 0) \/ Outcome(r))
    /\ LoopUnchanged

\* The links of a finished run arrive, if it has any.
Resolved(x) ==
    /\ x \in resolver
    /\ resolver' = resolver \ {x}
    /\ \/ UNCHANGED chain
       \/ x.gen = generation /\ Link([op |-> "links", entry |-> Entry(x.run, "done"),
                                             gen |-> x.gen])
    /\ UNCHANGED <<store, handler, loop, resume, generation, changing, alarm, pairing,
                   changes, lapsed, faults, unclear>>

----------------------------------------------------------------------------
\* The alarm fires: whatever is running and has no loop is polled at once, for
\* the pairing of this moment.
Fire ==
    /\ alarm
    /\ resume.pc = "off"
    /\ Len(chain) < MaxChain
    /\ LET orphans == {r \in RS!Running : loop[r].pc = "off"} IN
          /\ loop' = [r \in Runs |->
                         IF r \in orphans
                         THEN [pc |-> "due", gen |-> generation, asked |-> 0]
                         ELSE loop[r]]
          /\ resume' = [pc |-> "listing", runs |-> orphans]
    /\ UNCHANGED <<store, chain, handler, resolver, generation, changing, alarm,
                   pairing, changes, lapsed, faults, unclear>>

\* When each of those polls is through, outcome written, the alarm stays only
\* if something is still running.
Listed ==
    /\ resume.pc = "listing"
    /\ \A r \in resume.runs :
          /\ loop[r].pc \in {"off", "waiting"}
          /\ \A i \in DOMAIN chain : chain[i].op = "put" => chain[i].entry.run # r
    /\ resume' = [pc |-> IF RS!Running = {} THEN "clearing" ELSE "off", runs |-> {}]
    /\ UNCHANGED <<store, chain, handler, loop, resolver, generation, changing, alarm,
                   pairing, changes, lapsed, faults, unclear>>

Disarm ==
    /\ resume.pc = "clearing"
    /\ resume' = [resume EXCEPT !.pc = "off"]
    /\ alarm' = FALSE
    /\ UNCHANGED <<store, chain, handler, loop, resolver, generation, changing,
                   pairing, changes, lapsed, faults, unclear>>

----------------------------------------------------------------------------
\* A pairing is confirmed and stored, or the connection is removed ...
ChangePairing ==
    /\ ~changing
    /\ changes < MaxChanges
    /\ changes' = changes + 1
    /\ \/ pairing' = changes + 2
       \/ pairing # 0 /\ pairing' = 0
    /\ changing' = TRUE
    /\ UNCHANGED <<store, chain, handler, loop, resolver, resume, generation, alarm,
                   lapsed, faults, unclear>>

\* ... and then the generation moves and the clear joins the chain at once.
Bump ==
    /\ changing
    /\ changing' = FALSE
    /\ generation' = generation + 1
    /\ Link([op |-> "clear"])
    /\ UNCHANGED <<store, handler, loop, resolver, resume, alarm, pairing, changes,
                   lapsed, faults, unclear>>

\* A run that has been stored outlives its TTL.
Lapse(r) ==
    /\ handler[r].pc \in {"arming", "over"}
    /\ r \notin lapsed
    /\ faults < MaxFaults
    /\ faults' = faults + 1
    /\ lapsed' = lapsed \union {r}
    /\ UNCHANGED <<store, worker, alarm, pairing, changes, unclear>>

\* The worker is evicted; the store, the connection and the alarm outlive it.
Evict ==
    /\ faults < MaxFaults
    /\ faults' = faults + 1
    /\ chain' = <<>>
    /\ handler' = [r \in Runs |-> IF handler[r].pc = "new" THEN handler[r]
                                  ELSE [handler[r] EXCEPT !.pc = "over"]]
    /\ loop' = [r \in Runs |-> Off]
    /\ resolver' = {}
    /\ resume' = [pc |-> "off", runs |-> {}]
    /\ generation' = 0
    /\ changing' = FALSE
    /\ unclear' = (unclear \/ changing
                   \/ \E i \in DOMAIN chain : chain[i].op = "clear")
    /\ UNCHANGED <<store, alarm, pairing, changes, lapsed>>

LoopStep(r) == Tick(r) \/ Polled(r)

Next ==
    \/ \E r \in Runs, k \in Keys : Ask(r, k)
    \/ \E r \in Runs : Invoked(r) \/ Arm(r) \/ LoopStep(r) \/ Lapse(r)
    \/ \E x \in resolver : Resolved(x)
    \/ Execute
    \/ ExecuteFails
    \/ Fire
    \/ Listed
    \/ Disarm
    \/ ChangePairing
    \/ Bump
    \/ Evict

Spec == Init /\ [][Next]_vars

\* Awaits settle, timers fire, the alarm fires while it is armed, and a gateway
\* that is asked again and again has the outcome in the end.
FairSpec ==
    /\ Spec
    /\ \A r \in Runs :
          /\ WF_vars(Arm(r)) /\ WF_vars(LoopStep(r))
          /\ SF_vars(Polled(r) /\ loop'[r].pc = "off")
    /\ WF_vars(Execute) /\ WF_vars(Fire) /\ WF_vars(Listed) /\ WF_vars(Disarm)
    /\ WF_vars(Bump)

----------------------------------------------------------------------------
\* A change of pairing is complete: bumped, and its clear executed.
Settled == ~changing /\ ~unclear /\ \A i \in DOMAIN chain : chain[i].op # "clear"

\* Once a change of pairing is complete no answer of another gateway is in the
\* store: a poll in flight across it writes nothing (service-worker.ts:353-369).
BriefIsOurs ==
    Settled => \A e \in RS!Stored : e.kind = "done" => e.owner = pairing

\* A run carries no links but those resolved for it, whatever Re-run has
\* overtaken the request for them (agent-run-store.ts:332-357).
LinksAreItsOwn == \A e \in RS!Stored : e.links \in {NoRun, e.run}

\* Somebody will poll the run again.
Tended(r) == alarm \/ loop[r].pc # "off"

\* No lane spins for ever: as long as somebody will poll it, a run stored as
\* running comes to an outcome, is replaced or cleared, or outlives its TTL,
\* whatever becomes of its pairing (service-worker.ts:446-451).
NoSilentSpinner ==
    \A r \in Runs : (r \in RS!Running /\ Tended(r))
                       ~> (r \notin RS!Running \/ ~Tended(r))
=============================================================================
