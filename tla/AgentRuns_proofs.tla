-------------------------- MODULE AgentRuns_proofs --------------------------
(***************************************************************************)
(* What holds of the agent lanes' runs for any runs, questions and budgets *)
(* and any number of changes of pairing and faults.                        *)
(*                                                                         *)
(* A worker's steps are those of a RunStore, so its lemmas apply to the    *)
(* store here (RP).  That no answer of a gateway that was left stays rests *)
(* on IInv: a poll of this generation goes to the present pairing or a     *)
(* change is under way, and so does whatever the polls have put on the     *)
(* chain or into the store; a change under way has its clear behind them.  *)
(***************************************************************************)
EXTENDS AgentRuns, SequenceTheorems, TLAPS

RP == INSTANCE RunStore_proofs WITH Owners <- Pairings

\* The worker's generation counts at most the changes that are complete.
GenerationBehind == generation + (IF changing THEN 1 ELSE 0) <= changes

\* A clear is still to come behind the i-th write of the chain.
ClearAfter(i) == changing \/ \E j \in DOMAIN chain : j > i /\ chain[j].op = "clear"

LoopsAreOurs ==
    \A r \in Runs :
        /\ loop[r].gen <= generation
        /\ loop[r].pc = "asking" /\ loop[r].gen = generation
              => changing \/ loop[r].asked = pairing

PutsAreOurs ==
    \A i \in DOMAIN chain :
        chain[i].op = "put" =>
            /\ chain[i].entry.links = NoRun
            /\ chain[i].entry.kind = "done" /\ chain[i].entry.owner # pairing
                  => ClearAfter(i)

StoredAreOurs ==
    \A e \in RS!Stored : e.kind = "done" /\ e.owner # pairing => unclear \/ ClearAfter(0)

IInv == /\ TypeOK /\ RP!StoreShape /\ GenerationBehind
        /\ LoopsAreOurs /\ PutsAreOurs /\ StoredAreOurs

----------------------------------------------------------------------------
\* The worker's store is a RunStore.

\* What the proofs of the store assume, the worker's constants have.
LEMMA StoreAssumption == RP!RunStoreAssumption
BY AgentRunsAssumption DEF RP!RunStoreAssumption

\* A step of the worker's store is one of the store that the proofs are about.
LEMMA SameStore == [RS!Next]_(RS!vars) => [RP!Next]_(RP!vars)
BY Zenon
   DEF RS!vars, RP!vars, RS!Next, RP!Next, RS!Entries, RP!Entries,
       RS!putRun, RP!putRun, RS!Put, RP!Put, RS!Written, RP!Written,
       RS!CutAll, RP!CutAll, RS!CutTerms, RP!CutTerms, RS!IsTerm, RP!IsTerm,
       RS!KeepLast, RP!KeepLast, RS!At, RP!At, RS!Cardinality, RP!Cardinality,
       RS!IsFiniteSet, RP!IsFiniteSet, RS!putItemUrls, RP!putItemUrls,
       RS!Attach, RP!Attach, RS!clearRuns, RP!clearRuns, RS!Lapse, RP!Lapse

\* Both have the same entries.
LEMMA SameEntries == RS!Entries = RP!Entries /\ RS!Stored = RP!Stored
BY DEF RS!Entries, RP!Entries, RS!Stored, RP!Stored, RS!ToSet, RP!ToSet

\* Every step of the worker is a write of the store or leaves it alone.
LEMMA StepOfTheStore == TypeOK /\ PutsAreOurs /\ [Next]_vars => [RS!Next]_(RS!vars)
<1> SUFFICES ASSUME TypeOK, PutsAreOurs, [Next]_vars PROVE [RS!Next]_(RS!vars)
    OBVIOUS
<1>1. CASE Execute
  <2> DEFINE op == Head(chain)
  <2>1. op \in Ops /\ 1 \in DOMAIN chain /\ op = chain[1]
    BY <1>1, HeadTailProperties, LenProperties DEF Execute, TypeOK
  <2>2. CASE op.op = "put"
    <3>1. op.entry \in RS!Entries /\ op.entry.links = NoRun
      BY <2>1, <2>2 DEF Ops, PutsAreOurs
    <3>2. RS!putRun(op.entry)
      BY <1>1, <2>2, <3>1 DEF Execute, RS!putRun
    <3>3. QED
      BY <3>1, <3>2 DEF RS!Next
  <2>3. CASE op.op = "links"
    <3>1. op.entry.key \in Keys /\ op.entry.run \in Runs
      BY <2>1, <2>3 DEF Ops, RS!Entries
    <3>2. RS!putItemUrls(op.entry.key, op.entry.run)
      BY <1>1, <2>3 DEF Execute, RS!putItemUrls
    <3>3. QED
      BY <3>1, <3>2 DEF RS!Next
  <2>4. CASE op.op = "clear"
    BY <1>1, <2>4 DEF Execute, RS!clearRuns, RS!Next
  <2>5. QED
    BY <2>1, <2>2, <2>3, <2>4 DEF Ops
<1>2. ASSUME NEW r \in Runs, Lapse(r) PROVE [RS!Next]_(RS!vars)
    BY <1>2 DEF Lapse, RS!Lapse, RS!Next
<1>3. ASSUME NEW r \in Runs, NEW k \in Keys, Ask(r, k) PROVE UNCHANGED RS!vars
    BY <1>3 DEF Ask, RS!vars
<1>4. ASSUME NEW r \in Runs, Invoked(r) \/ Arm(r) PROVE UNCHANGED RS!vars
    BY <1>4 DEF Invoked, Arm, RS!vars
<1>5. ASSUME NEW r \in Runs, LoopStep(r) PROVE UNCHANGED RS!vars
    BY <1>5 DEF LoopStep, Tick, Polled, LoopUnchanged, RS!vars
<1>6. ASSUME NEW x \in resolver, Resolved(x) PROVE UNCHANGED RS!vars
    BY <1>6 DEF Resolved, RS!vars
<1>7. CASE ExecuteFails \/ Fire \/ Listed \/ Disarm
    BY <1>7 DEF ExecuteFails, Fire, Listed, Disarm, RS!vars
<1>8. CASE ChangePairing \/ Bump \/ Evict
    BY <1>8 DEF ChangePairing, Bump, Evict, RS!vars
<1>9. CASE UNCHANGED vars
    BY <1>9 DEF vars, RS!vars
<1>10. QED
    BY <1>1, <1>2, <1>3, <1>4, <1>5, <1>6, <1>7, <1>8, <1>9 DEF Next

\* Both write alike.
LEMMA SameWrites ==
    /\ \A e : RS!Put(e) = RP!Put(e)
    /\ \A k, r : RS!Attach(k, r) = RP!Attach(k, r)
<1>1. ASSUME NEW e PROVE RS!Put(e) = RP!Put(e)
    BY Zenon
       DEF RS!Put, RP!Put, RS!Written, RP!Written,
           RS!CutAll, RP!CutAll, RS!CutTerms, RP!CutTerms, RS!IsTerm, RP!IsTerm,
           RS!KeepLast, RP!KeepLast, RS!At, RP!At, RS!Cardinality, RP!Cardinality,
           RS!IsFiniteSet, RP!IsFiniteSet
<1>2. ASSUME NEW k, NEW r PROVE RS!Attach(k, r) = RP!Attach(k, r)
    BY Zenon DEF RS!Attach, RP!Attach, RS!At, RP!At, RS!Cardinality, RP!Cardinality,
                 RS!IsFiniteSet, RP!IsFiniteSet
<1>3. QED
    BY <1>1, <1>2, Zenon

\* The store keeps its type and its budgets.
LEMMA StoreStep ==
    TypeOK /\ RP!StoreShape /\ PutsAreOurs /\ [Next]_vars
        => store' \in Seq(RS!Entries) /\ lapsed' \in SUBSET Runs /\ RP!StoreShape'
<1> SUFFICES ASSUME TypeOK, RP!StoreShape, PutsAreOurs, [Next]_vars
             PROVE  store' \in Seq(RS!Entries) /\ lapsed' \in SUBSET Runs /\ RP!StoreShape'
    OBVIOUS
<1>1. RP!TypeOK
    BY SameEntries DEF TypeOK, RP!TypeOK
<1>2. [RP!Next]_(RP!vars)
    BY StepOfTheStore, SameStore
<1>3. RP!TypeOK' /\ RP!StoreShape'
    BY <1>1, <1>2, StoreAssumption, RP!TypeStep, RP!ShapeStep
<1>4. RS!Entries = RP!Entries
    BY SameEntries
<1>5. QED
    BY <1>3, <1>4 DEF RP!TypeOK

\* A write puts its entry into the store and nothing else that was not there ...
LEMMA PutAdds ==
    ASSUME TypeOK, RP!StoreShape, NEW e \in RS!Entries, store' = RS!Put(e)
    PROVE  \A o \in RS!Stored' : o = e \/ o \in RS!Stored
<1>1. store \in Seq(RP!Entries) /\ e \in RP!Entries
    BY SameEntries DEF TypeOK
<1>2. RP!ToSet(RP!Put(e)) = {e} \union {store[i] : i \in RP!Others(e) \ RP!Oldest(e)}
    BY <1>1, StoreAssumption, RP!PutProperties
<1>3. RS!Stored' = RP!ToSet(RP!Put(e))
    BY SameWrites DEF RS!Stored, RS!ToSet, RP!ToSet
<1>4. RP!Others(e) \subseteq DOMAIN store
    BY DEF RP!Others
<1>5. RS!Stored = {store[i] : i \in DOMAIN store}
    BY DEF RS!Stored, RS!ToSet
<1>6. QED
    BY <1>2, <1>3, <1>4, <1>5

\* ... and links are attached to the run they were resolved for.
LEMMA AttachAdds ==
    ASSUME TypeOK, RP!StoreShape, NEW k \in Keys, NEW r \in Runs,
           store' = RS!Attach(k, r)
    PROVE  \A x \in RS!Stored' :
              \/ x \in RS!Stored
              \/ \E o \in RS!Stored : o.run = r /\ x = [o EXCEPT !.links = r]
<1>1. store \in Seq(RP!Entries) /\ RP!OneEach(store)
    BY SameEntries DEF TypeOK, RP!StoreShape
<1>2. \/ RP!Attach(k, r) = store
      \/ \E o \in RP!Stored :
            /\ o.run = r
            /\ RP!ToSet(RP!Attach(k, r))
                  = (RP!Stored \ {o}) \union {[o EXCEPT !.links = r]}
    BY <1>1, StoreAssumption, RP!AttachProperties
<1>3. RS!Stored' = RP!ToSet(RP!Attach(k, r)) /\ RS!Stored = RP!Stored
    BY SameWrites, SameEntries DEF RS!Stored, RS!ToSet, RP!ToSet
<1>4. RP!ToSet(store) = RS!Stored
    BY DEF RS!Stored, RS!ToSet, RP!ToSet
<1>5. QED
    BY <1>2, <1>3, <1>4

----------------------------------------------------------------------------
\* The invariant holds at first.
LEMMA InitHolds == Init => IInv
<1> SUFFICES ASSUME Init PROVE IInv
    OBVIOUS
<1>1. TypeOK
  <2>1. (CHOOSE k \in Keys : TRUE) \in Keys
    BY AgentRunsAssumption
  <2>2. handler \in [Runs -> Handlers]
    BY <2>1, AgentRunsAssumption DEF Init, Handlers, Pairings
  <2>3. loop \in [Runs -> Loops]
    BY AgentRunsAssumption DEF Init, Loops, Off, Generations, Pairings
  <2>4. store \in Seq(RS!Entries) /\ chain \in Seq(Ops)
    BY EmptySeq DEF Init
  <2>5. /\ pairing \in Pairings /\ changes \in 0 .. MaxChanges
        /\ generation \in Generations /\ faults \in 0 .. MaxFaults
    BY AgentRunsAssumption DEF Init, Generations, Pairings
  <2>6. resume \in [pc : {"off", "listing", "clearing"}, runs : SUBSET Runs]
    BY DEF Init
  <2>7. /\ alarm \in BOOLEAN /\ changing \in BOOLEAN /\ unclear \in BOOLEAN
        /\ lapsed \subseteq Runs /\ resolver \subseteq [run : Runs, gen : Generations]
    BY DEF Init
  <2>8. QED
    BY <2>2, <2>3, <2>4, <2>5, <2>6, <2>7 DEF TypeOK
<1>2. RP!StoreShape
  <2>1. RP!Init
    BY DEF Init, RP!Init
  <2>2. QED
    BY <2>1, RP!ShapeInit, StoreAssumption
<1>3. GenerationBehind
    BY DEF Init, GenerationBehind
<1>4. LoopsAreOurs
  <2>1. generation = 0 /\ \A r \in Runs : loop[r] = Off
    BY DEF Init
  <2>2. Off.gen = 0 /\ Off.pc = "off"
    BY DEF Off
  <2>3. ASSUME NEW r \in Runs PROVE loop[r].gen <= generation /\ loop[r].pc # "asking"
    <3>1. loop[r].gen = 0 /\ loop[r].pc = "off"
      BY <2>1, <2>2
    <3>2. QED
      BY <2>1, <3>1
  <2>4. QED
    BY <2>3 DEF LoopsAreOurs
<1>5. DOMAIN chain = {} /\ RS!Stored = {}
    BY EmptySeq DEF Init, RS!Stored, RS!ToSet
<1>6. QED
    BY <1>1, <1>2, <1>3, <1>4, <1>5 DEF IInv, PutsAreOurs, StoredAreOurs

\* An entry of a run is one the store may hold, without links.
LEMMA EntryType ==
    ASSUME TypeOK, NEW r \in Runs, NEW kind \in {"running", "done", "failed"}
    PROVE  /\ Entry(r, kind) \in RS!Entries /\ Entry(r, kind).links = NoRun
           /\ Entry(r, kind).kind = kind /\ Entry(r, kind).owner = handler[r].owner
           /\ Entry(r, kind).run = r
BY DEF TypeOK, Handlers, Entry, RS!Entries

\* The chain's head and what is left of it.
LEMMA Shifted ==
    ASSUME NEW S, NEW s \in Seq(S), s # <<>>
    PROVE  /\ Head(s) \in S /\ Head(s) = s[1] /\ 1 \in DOMAIN s
           /\ Tail(s) \in Seq(S)
           /\ \A i \in DOMAIN Tail(s) : i + 1 \in DOMAIN s /\ Tail(s)[i] = s[i + 1]
           /\ \A j \in DOMAIN s : j > 1 => j - 1 \in DOMAIN Tail(s)
                                           /\ Tail(s)[j - 1] = s[j]
<1>1. /\ Head(s) \in S /\ Tail(s) \in Seq(S) /\ Len(Tail(s)) = Len(s) - 1
      /\ \A i \in 1 .. Len(Tail(s)) : Tail(s)[i] = s[i + 1]
    BY HeadTailProperties
<1>2. Len(s) \in Nat /\ DOMAIN s = 1 .. Len(s) /\ Len(s) # 0
    BY EmptySeq, LenProperties
<1>3. Head(s) = s[1]
    OBVIOUS
<1>4. DOMAIN Tail(s) = 1 .. Len(Tail(s))
    BY <1>1, LenProperties
<1>5. \A i \in DOMAIN Tail(s) : i + 1 \in DOMAIN s /\ Tail(s)[i] = s[i + 1]
    BY <1>1, <1>2, <1>4
<1>6. ASSUME NEW j \in DOMAIN s, j > 1
      PROVE  j - 1 \in DOMAIN Tail(s) /\ Tail(s)[j - 1] = s[j]
  <2>1. j - 1 \in 1 .. Len(Tail(s)) /\ (j - 1) + 1 = j
    BY <1>1, <1>2, <1>6
  <2>2. QED
    BY <1>1, <1>4, <2>1
<1>7. QED
    BY <1>1, <1>2, <1>3, <1>5, <1>6

\* A write that joins the chain has every other before it.
LEMMA Linked ==
    ASSUME NEW S, NEW s \in Seq(S), NEW x \in S
    PROVE  /\ Append(s, x) \in Seq(S)
           /\ DOMAIN Append(s, x) = DOMAIN s \union {Len(s) + 1}
           /\ \A i \in DOMAIN s : i \in Nat /\ i < Len(s) + 1 /\ Append(s, x)[i] = s[i]
           /\ Append(s, x)[Len(s) + 1] = x
<1>1. /\ Append(s, x) \in Seq(S) /\ Len(Append(s, x)) = Len(s) + 1
      /\ \A i \in 1 .. Len(s) : Append(s, x)[i] = s[i]
      /\ Append(s, x)[Len(s) + 1] = x
    BY AppendProperties
<1>2. Len(s) \in Nat /\ DOMAIN s = 1 .. Len(s)
    BY LenProperties
<1>3. DOMAIN Append(s, x) = 1 .. Len(s) + 1
    BY <1>1, LenProperties
<1>4. QED
    BY <1>1, <1>2, <1>3

----------------------------------------------------------------------------
\* What the loop's steps do: they leave everything but the chain and their own
\* loop alone, and put at most an outcome.
LEMMA LoopSteps ==
    ASSUME TypeOK, NEW r \in Runs, LoopStep(r)
    PROVE  /\ LoopUnchanged
           /\ \/ loop' = [loop EXCEPT ![r] = Off] /\ UNCHANGED chain
              \/ /\ loop[r].gen = generation
                 /\ UNCHANGED chain
                 /\ \/ /\ pairing # 0
                       /\ loop' = [loop EXCEPT ![r].pc = "asking", ![r].asked = pairing]
                    \/ loop' = [loop EXCEPT ![r].pc = "waiting", ![r].asked = 0]
              \/ /\ loop' = [loop EXCEPT ![r] = Off]
                 /\ \/ chain' = Append(chain, PutOp(r, "failed"))
                    \/ /\ chain' = Append(chain, PutOp(r, "done"))
                       /\ loop[r].pc = "asking" /\ loop[r].gen = generation
                       /\ loop[r].asked = handler[r].owner
<1>1. CASE Tick(r)
    BY <1>1 DEF Tick, Stop, StopWith, Go, Link, Moved
<1>2. CASE Polled(r)
    BY <1>2 DEF Polled, Stop, StopWith, Go, Link, Moved, Outcome
<1>3. QED
    BY <1>1, <1>2 DEF LoopStep

----------------------------------------------------------------------------
\* Every step of the worker leaves its state well typed.
LEMMA TypeStep == IInv /\ [Next]_vars => TypeOK'
<1> SUFFICES ASSUME IInv, [Next]_vars PROVE TypeOK'
    OBVIOUS
<1> USE DEF TypeOK
<1>1. TypeOK /\ GenerationBehind
    BY DEF IInv
<1>2. store' \in Seq(RS!Entries) /\ lapsed' \in SUBSET Runs
    BY StoreStep DEF IInv
<1>3. /\ changes \in Nat /\ generation \in Nat /\ faults \in Nat /\ MaxChanges \in Nat
      /\ changing \in BOOLEAN
    BY <1>1, AgentRunsAssumption DEF Generations
<1>4. ASSUME NEW r \in Runs, NEW k \in Keys, Ask(r, k) PROVE TypeOK'
  <2>1. [pc |-> "invoking", key |-> k, owner |-> pairing] \in Handlers
    BY <1>1 DEF Handlers
  <2>2. handler' \in [Runs -> Handlers]
    BY <1>1, <1>4, <2>1 DEF Ask
  <2>3. QED
    BY <1>1, <1>2, <1>4, <2>2 DEF Ask
<1>5. ASSUME NEW r \in Runs, Invoked(r) PROVE TypeOK'
  <2>1. handler' \in [Runs -> Handlers]
    BY <1>1, <1>5 DEF Invoked, Handlers
  <2>2. PutOp(r, "running") \in Ops
    BY <1>1, EntryType DEF PutOp, Ops, Loops
  <2>3. chain' \in Seq(Ops)
    <3>1. chain \in Seq(Ops)
      BY <1>1
    <3>2. Append(chain, PutOp(r, "running")) \in Seq(Ops)
      BY <2>2, <3>1, Linked
    <3>3. QED
      BY <1>5, <3>1, <3>2 DEF Invoked, Link
  <2>4. QED
    BY <1>1, <1>2, <1>5, <2>1, <2>3 DEF Invoked
<1>6. CASE Execute
  <2> DEFINE op == Head(chain)
  <2>1. op \in Ops /\ chain' \in Seq(Ops)
    BY <1>1, <1>6, Shifted DEF Execute
  <2>2. handler' \in [Runs -> Handlers]
    <3>1. CASE op.op = "put" /\ op.entry.kind = "running"
      <4>1. op.entry.run \in Runs
        BY <2>1, <3>1 DEF Ops, RS!Entries
      <4>2. handler' = [handler EXCEPT ![op.entry.run].pc = "arming"]
        BY <1>6, <3>1 DEF Execute
      <4>3. QED
        BY <1>1, <4>1, <4>2 DEF Handlers
    <3>2. CASE ~(op.op = "put" /\ op.entry.kind = "running")
      BY <1>1, <1>6, <3>2 DEF Execute
    <3>3. QED
      BY <3>1, <3>2
  <2>3. resolver' \subseteq [run : Runs, gen : Generations]
    <3>1. CASE op.op = "put"
      <4>1. op.entry.run \in Runs /\ op.gen \in Generations
        BY <2>1, <3>1 DEF Ops, RS!Entries
      <4>2. \/ resolver' = resolver
            \/ resolver' = resolver \union {[run |-> op.entry.run, gen |-> op.gen]}
        BY <1>6, <3>1 DEF Execute
      <4>3. QED
        BY <1>1, <4>1, <4>2
    <3>2. CASE op.op # "put"
      BY <1>1, <1>6, <3>2 DEF Execute
    <3>3. QED
      BY <3>1, <3>2
  <2>4. unclear' \in BOOLEAN
    BY <1>1, <1>6 DEF Execute
  <2>5. UNCHANGED <<loop, resume, generation, changing, alarm, pairing, changes, faults>>
    BY <1>6 DEF Execute
  <2>6. QED
    BY <1>1, <1>2, <2>1, <2>2, <2>3, <2>4, <2>5
<1>7. CASE ExecuteFails
  <2> DEFINE op == Head(chain)
  <2>1. op \in Ops /\ chain' \in Seq(Ops)
    BY <1>1, <1>7, Shifted DEF ExecuteFails
  <2>2. handler' \in [Runs -> Handlers]
    <3>1. CASE op.op = "put" /\ op.entry.kind = "running"
      <4>1. op.entry.run \in Runs
        BY <2>1, <3>1 DEF Ops, RS!Entries
      <4>2. handler' = [handler EXCEPT ![op.entry.run].pc = "over"]
        BY <1>7, <3>1 DEF ExecuteFails
      <4>3. QED
        BY <1>1, <4>1, <4>2 DEF Handlers
    <3>2. CASE ~(op.op = "put" /\ op.entry.kind = "running")
      BY <1>1, <1>7, <3>2 DEF ExecuteFails
    <3>3. QED
      BY <3>1, <3>2
  <2>3. faults' \in 0 .. MaxFaults /\ unclear' \in BOOLEAN
    BY <1>1, <1>3, <1>7, AgentRunsAssumption DEF ExecuteFails
  <2>4. UNCHANGED <<loop, resolver, resume, generation, changing, alarm, pairing, changes>>
    BY <1>7 DEF ExecuteFails
  <2>5. QED
    BY <1>1, <1>2, <2>1, <2>2, <2>3, <2>4
<1>8. ASSUME NEW r \in Runs, Arm(r) PROVE TypeOK'
  <2>1. handler' \in [Runs -> Handlers]
    BY <1>1, <1>8 DEF Arm, Handlers
  <2>2. [Off EXCEPT !.pc = "waiting", !.gen = generation] \in Loops
    <3>1. 0 \in Pairings /\ generation \in Generations
      BY <1>1, AgentRunsAssumption DEF Pairings
    <3>2. Off \in Loops
      BY <3>1, AgentRunsAssumption DEF Off, Loops, Generations
    <3>3. QED
      BY <3>1, <3>2 DEF Loops
  <2>3. loop' \in [Runs -> Loops]
    BY <1>1, <1>8, <2>2 DEF Arm
  <2>4. QED
    BY <1>1, <1>2, <1>8, <2>1, <2>3 DEF Arm
<1>9. ASSUME NEW r \in Runs, LoopStep(r) PROVE TypeOK'
  <2>1. Off \in Loops /\ 0 \in Pairings
    BY AgentRunsAssumption DEF Off, Loops, Generations, Pairings
  <2>2. loop' \in [Runs -> Loops]
    <3>1. ASSUME NEW pc \in {"asking", "waiting"}, NEW a \in Pairings
          PROVE  [loop EXCEPT ![r].pc = pc, ![r].asked = a] \in [Runs -> Loops]
      <4>1. [loop[r] EXCEPT !.pc = pc, !.asked = a] \in Loops
        BY <1>1 DEF Loops
      <4>2. [loop EXCEPT ![r].pc = pc, ![r].asked = a]
               = [loop EXCEPT ![r] = [loop[r] EXCEPT !.pc = pc, !.asked = a]]
        BY <1>1
      <4>3. QED
        BY <1>1, <4>1, <4>2
    <3>2. [loop EXCEPT ![r] = Off] \in [Runs -> Loops]
      BY <1>1, <2>1
    <3>3. \/ loop' = [loop EXCEPT ![r] = Off]
          \/ loop' = [loop EXCEPT ![r].pc = "asking", ![r].asked = pairing]
          \/ loop' = [loop EXCEPT ![r].pc = "waiting", ![r].asked = 0]
      BY <1>1, <1>9, LoopSteps
    <3>4. /\ [loop EXCEPT ![r].pc = "asking", ![r].asked = pairing] \in [Runs -> Loops]
          /\ [loop EXCEPT ![r].pc = "waiting", ![r].asked = 0] \in [Runs -> Loops]
      BY <1>1, <2>1, <3>1
    <3>5. QED
      BY <3>2, <3>3, <3>4
  <2>3. chain' \in Seq(Ops)
    <3>1. PutOp(r, "failed") \in Ops /\ PutOp(r, "done") \in Ops
      BY <1>1, EntryType DEF PutOp, Ops, Loops
    <3>2. \/ UNCHANGED chain
          \/ chain' = Append(chain, PutOp(r, "failed"))
          \/ chain' = Append(chain, PutOp(r, "done"))
      BY <1>1, <1>9, LoopSteps
    <3>3. chain \in Seq(Ops)
      BY <1>1
    <3>4. /\ Append(chain, PutOp(r, "failed")) \in Seq(Ops)
          /\ Append(chain, PutOp(r, "done")) \in Seq(Ops)
      BY <3>1, <3>3, Linked
    <3>5. QED
      BY <3>2, <3>3, <3>4
  <2>4. LoopUnchanged
    BY <1>1, <1>9, LoopSteps
  <2>5. QED
    BY <1>1, <1>2, <2>2, <2>3, <2>4 DEF LoopUnchanged
<1>10. ASSUME NEW x \in resolver, Resolved(x) PROVE TypeOK'
  <2>1. x.run \in Runs /\ x.gen \in Generations
    BY <1>1
  <2>2. [op |-> "links", entry |-> Entry(x.run, "done"), gen |-> x.gen] \in Ops
    BY <1>1, <2>1, EntryType DEF Ops
  <2>3. chain' \in Seq(Ops)
    <3>1. chain \in Seq(Ops)
      BY <1>1
    <3>2. Append(chain, [op |-> "links", entry |-> Entry(x.run, "done"), gen |-> x.gen])
             \in Seq(Ops)
      BY <2>2, <3>1, Linked
    <3>3. QED
      BY <1>10, <3>1, <3>2 DEF Resolved, Link
  <2>4. QED
    BY <1>1, <1>2, <1>10, <2>3 DEF Resolved
<1>11. CASE Fire
  <2> DEFINE orphans == {r \in RS!Running : loop[r].pc = "off"}
  <2>1. \A r \in Runs : loop'[r] \in Loops
    <3>1. [pc |-> "due", gen |-> generation, asked |-> 0] \in Loops
      BY <1>1, AgentRunsAssumption DEF Loops, Pairings
    <3>2. QED
      BY <1>1, <1>11, <3>1 DEF Fire
  <2>2. loop' \in [Runs -> Loops]
    BY <1>11, <2>1 DEF Fire
  <2>3. RS!Running \subseteq Runs
    <3>1. RS!Stored \subseteq RS!Entries
      BY <1>1, LenProperties DEF RS!Stored, RS!ToSet
    <3>2. QED
      BY <3>1 DEF RS!Running, RS!Entries
  <2>4. resume' \in [pc : {"off", "listing", "clearing"}, runs : SUBSET Runs]
    <3>1. orphans \in SUBSET Runs
      BY <2>3
    <3>2. QED
      BY <1>11, <3>1 DEF Fire
  <2>5. QED
    BY <1>1, <1>2, <1>11, <2>2, <2>4 DEF Fire
<1>12. CASE Listed
  <2>1. resume' \in [pc : {"off", "listing", "clearing"}, runs : SUBSET Runs]
    BY <1>12 DEF Listed
  <2>2. QED
    BY <1>1, <1>2, <1>12, <2>1 DEF Listed
<1>13. CASE Disarm
  <2>1. resume' \in [pc : {"off", "listing", "clearing"}, runs : SUBSET Runs]
    BY <1>1, <1>13 DEF Disarm
  <2>2. QED
    BY <1>1, <1>2, <1>13, <2>1 DEF Disarm
<1>14. CASE ChangePairing
  <2>1. changes' \in 0 .. MaxChanges
    BY <1>3, <1>14 DEF ChangePairing
  <2>2. pairing' \in Pairings
    BY <1>3, <1>14 DEF ChangePairing, Pairings
  <2>3. QED
    BY <1>1, <1>2, <1>14, <2>1, <2>2 DEF ChangePairing
<1>15. CASE Bump
  <2>1. generation' \in Generations
    <3>1. generation + 1 <= changes /\ changes <= MaxChanges
      BY <1>1, <1>3, <1>15 DEF Bump, GenerationBehind
    <3>2. QED
      BY <1>3, <1>15, <3>1 DEF Bump, Generations
  <2>2. [op |-> "clear"] \in Ops
    BY DEF Ops
  <2>3. chain' \in Seq(Ops)
    BY <1>1, <1>15, <2>2, AppendProperties DEF Bump, Link
  <2>4. QED
    BY <1>1, <1>2, <1>15, <2>1, <2>3 DEF Bump
<1>16. ASSUME NEW r \in Runs, Lapse(r) PROVE TypeOK'
  <2>1. faults' \in 0 .. MaxFaults
    BY <1>3, <1>16, AgentRunsAssumption DEF Lapse
  <2>2. QED
    BY <1>1, <1>2, <1>16, <2>1 DEF Lapse, worker
<1>17. CASE Evict
  <2>1. handler' \in [Runs -> Handlers]
    BY <1>1, <1>17 DEF Evict, Handlers
  <2>2. Off \in Loops /\ 0 \in Generations
    BY AgentRunsAssumption DEF Off, Loops, Generations, Pairings
  <2>3. loop' \in [Runs -> Loops] /\ generation' \in Generations
    BY <1>17, <2>2 DEF Evict
  <2>4. faults' \in 0 .. MaxFaults
    BY <1>3, <1>17, AgentRunsAssumption DEF Evict
  <2>5. resume' \in [pc : {"off", "listing", "clearing"}, runs : SUBSET Runs]
    BY <1>17 DEF Evict
  <2>6. chain' \in Seq(Ops) /\ unclear' \in BOOLEAN /\ changing' \in BOOLEAN
    BY <1>17, EmptySeq DEF Evict
  <2>7. resolver' \subseteq [run : Runs, gen : Generations]
    BY <1>17 DEF Evict
  <2>8. UNCHANGED <<alarm, pairing, changes>>
    BY <1>17 DEF Evict
  <2>9. QED
    BY <1>1, <1>2, <2>1, <2>3, <2>4, <2>5, <2>6, <2>7, <2>8
<1>18. CASE UNCHANGED vars
    BY <1>1, <1>2, <1>18 DEF vars, worker
<1>19. QED
    BY <1>4, <1>5, <1>6, <1>7, <1>8, <1>9, <1>10, <1>11, <1>12, <1>13, <1>14, <1>15,
       <1>16, <1>17, <1>18 DEF Next

----------------------------------------------------------------------------
\* For the chain and the store a step is one of these: it leaves them alone; it
\* adds a write that is the present pairing's unless a change is under way; or
\* it is the chain's own, a change of pairing or an eviction.
Quiet == UNCHANGED <<store, chain, pairing, unclear, changing>>

OurPut(op) ==
    op.op = "put" => /\ op.entry.links = NoRun
                     /\ op.entry.kind = "done" => changing \/ op.entry.owner = pairing

Linking(op) == /\ chain' = Append(chain, op) /\ OurPut(op)
               /\ UNCHANGED <<store, pairing, unclear, changing>>

\* Every step is quiet, puts an edit of ours on the chain, or is one of five actions.
LEMMA StepKinds ==
    IInv /\ [Next]_vars
        => \/ Quiet \/ (\E op \in Ops : Linking(op))
           \/ Execute \/ ExecuteFails \/ ChangePairing \/ Bump \/ Evict
<1> SUFFICES ASSUME IInv, [Next]_vars
             PROVE  \/ Quiet \/ (\E op \in Ops : Linking(op))
                    \/ Execute \/ ExecuteFails \/ ChangePairing \/ Bump \/ Evict
    OBVIOUS
<1>1. TypeOK /\ LoopsAreOurs
    BY DEF IInv
<1>2. ASSUME NEW r \in Runs, NEW k \in Keys, Ask(r, k) PROVE Quiet
    BY <1>2 DEF Ask, Quiet
<1>3. ASSUME NEW r \in Runs, Invoked(r)
      PROVE  Quiet \/ \E op \in Ops : Linking(op)
  <2>1. PutOp(r, "running") \in Ops /\ OurPut(PutOp(r, "running"))
    BY <1>1, EntryType DEF PutOp, Ops, Loops, TypeOK, OurPut
  <2>2. \/ chain' = chain
        \/ chain' = Append(chain, PutOp(r, "running"))
    BY <1>3 DEF Invoked, Link
  <2>3. UNCHANGED <<store, pairing, unclear, changing>>
    BY <1>3 DEF Invoked
  <2>4. QED
    BY <2>1, <2>2, <2>3 DEF Quiet, Linking
<1>4. ASSUME NEW r \in Runs, Arm(r) PROVE Quiet
    BY <1>4 DEF Arm, Quiet
<1>5. ASSUME NEW r \in Runs, LoopStep(r)
      PROVE  Quiet \/ \E op \in Ops : Linking(op)
  <2>1. UNCHANGED <<store, pairing, unclear, changing>>
    BY <1>1, <1>5, LoopSteps DEF LoopUnchanged
  <2>2. PutOp(r, "failed") \in Ops /\ PutOp(r, "done") \in Ops
    BY <1>1, EntryType DEF PutOp, Ops, Loops, TypeOK
  <2>3. OurPut(PutOp(r, "failed"))
    BY <1>1, EntryType DEF PutOp, OurPut
  <2>4. \/ chain' = chain \/ chain' = Append(chain, PutOp(r, "failed"))
        \/ /\ chain' = Append(chain, PutOp(r, "done"))
           /\ loop[r].pc = "asking" /\ loop[r].gen = generation
           /\ loop[r].asked = handler[r].owner
    BY <1>1, <1>5, LoopSteps
  <2>5. CASE /\ loop[r].pc = "asking" /\ loop[r].gen = generation
             /\ loop[r].asked = handler[r].owner
    <3>1. changing \/ handler[r].owner = pairing
      BY <1>1, <2>5 DEF LoopsAreOurs
    <3>2. OurPut(PutOp(r, "done"))
      BY <1>1, <3>1, EntryType DEF PutOp, OurPut
    <3>3. QED
      BY <2>1, <2>2, <2>3, <2>4, <3>2 DEF Quiet, Linking
  <2>6. QED
    BY <2>1, <2>2, <2>3, <2>4, <2>5 DEF Quiet, Linking
<1>6. ASSUME NEW x \in resolver, Resolved(x)
      PROVE  Quiet \/ \E op \in Ops : Linking(op)
  <2> DEFINE op == [op |-> "links", entry |-> Entry(x.run, "done"), gen |-> x.gen]
  <2>1. x.run \in Runs /\ x.gen \in Generations
    BY <1>1 DEF TypeOK
  <2>2. op \in Ops /\ OurPut(op)
    BY <1>1, <2>1, EntryType DEF Ops, OurPut
  <2>3. chain' = chain \/ chain' = Append(chain, op)
    BY <1>6 DEF Resolved, Link
  <2>4. UNCHANGED <<store, pairing, unclear, changing>>
    BY <1>6 DEF Resolved
  <2> HIDE DEF op
  <2>5. QED
    BY <2>2, <2>3, <2>4 DEF Quiet, Linking
<1>7. CASE Fire \/ Listed \/ Disarm
    BY <1>7 DEF Fire, Listed, Disarm, Quiet
<1>8. ASSUME NEW r \in Runs, Lapse(r) PROVE Quiet
    BY <1>8 DEF Lapse, worker, Quiet
<1>9. CASE UNCHANGED vars
    BY <1>9 DEF vars, worker, Quiet
<1>10. QED
    BY <1>2, <1>3, <1>4, <1>5, <1>6, <1>7, <1>8, <1>9 DEF Next

\* A clear that is to come is still to come when a write joins behind it ...
LEMMA ClearStays ==
    ASSUME TypeOK, NEW op \in Ops, chain' = Append(chain, op), changing' = changing,
           NEW i \in Nat, ClearAfter(i)
    PROVE  ClearAfter(i)'
<1>1. chain \in Seq(Ops)
    BY DEF TypeOK
<1>2. \A j \in DOMAIN chain : j \in DOMAIN chain' /\ chain'[j] = chain[j]
    BY <1>1, Linked
<1>3. QED
    BY <1>2 DEF ClearAfter

\* ... and when the head of the chain, which it is not, has been taken off.
LEMMA ClearMoves ==
    ASSUME TypeOK, chain # <<>>, chain' = Tail(chain), changing' = changing,
           NEW i \in Nat, ClearAfter(i + 1)
    PROVE  ClearAfter(i)'
<1>1. chain \in Seq(Ops)
    BY DEF TypeOK
<1>2. CASE changing
    BY <1>2 DEF ClearAfter
<1>3. ASSUME NEW j \in DOMAIN chain, j > i + 1, chain[j].op = "clear"
      PROVE  ClearAfter(i)'
  <2>1. j \in Nat
    BY <1>1, LenProperties
  <2>2. j > 1 /\ j - 1 > i
    BY <1>3, <2>1
  <2>3. j - 1 \in DOMAIN chain' /\ chain'[j - 1] = chain[j]
    BY <1>1, <2>2, Shifted
  <2>4. QED
    BY <1>3, <2>2, <2>3 DEF ClearAfter
<1>4. QED
    BY <1>2, <1>3 DEF ClearAfter

----------------------------------------------------------------------------
\* The worker's generation stays behind the changes of pairing.
LEMMA GenerationStep == IInv /\ [Next]_vars => GenerationBehind'
<1> SUFFICES ASSUME IInv, [Next]_vars PROVE GenerationBehind'
    OBVIOUS
<1>1. TypeOK /\ GenerationBehind
    BY DEF IInv
<1>2. changes \in Nat /\ generation \in Nat /\ changing \in BOOLEAN
    BY <1>1, AgentRunsAssumption DEF TypeOK, Generations
<1>3. CASE UNCHANGED <<changes, generation, changing>>
    BY <1>1, <1>3 DEF GenerationBehind
<1>4. CASE ChangePairing
    BY <1>1, <1>2, <1>4 DEF ChangePairing, GenerationBehind
<1>5. CASE Bump
    BY <1>1, <1>2, <1>5 DEF Bump, GenerationBehind
<1>6. CASE Evict
    BY <1>2, <1>6 DEF Evict, GenerationBehind
<1>7. ASSUME NEW r \in Runs, LoopStep(r) PROVE UNCHANGED <<changes, generation, changing>>
    BY <1>1, <1>7, LoopSteps DEF LoopUnchanged
<1>8. \/ UNCHANGED <<changes, generation, changing>>
      \/ ChangePairing \/ Bump \/ Evict
    BY <1>7 DEF Next, vars, worker, Ask, Invoked, Arm, Lapse, Resolved, Execute,
                ExecuteFails, Fire, Listed, Disarm
<1>9. QED
    BY <1>3, <1>4, <1>5, <1>6, <1>8

\* A poll that goes to another gateway is of an older generation, or the change
\* of pairing that made it so is under way.
LEMMA LoopsStep == IInv /\ [Next]_vars => LoopsAreOurs'
<1> SUFFICES ASSUME IInv, [Next]_vars, NEW r \in Runs
             PROVE  /\ loop'[r].gen <= generation'
                    /\ loop'[r].pc = "asking" /\ loop'[r].gen = generation'
                          => changing' \/ loop'[r].asked = pairing'
    BY DEF LoopsAreOurs
<1>1. TypeOK /\ LoopsAreOurs
    BY DEF IInv
<1>2. /\ generation \in Nat /\ loop[r].gen \in Nat /\ loop[r].gen <= generation
      /\ loop[r].pc = "asking" /\ loop[r].gen = generation
            => changing \/ loop[r].asked = pairing
    BY <1>1, AgentRunsAssumption DEF TypeOK, Generations, Loops, LoopsAreOurs
<1>3. Off.gen = 0 /\ Off.pc = "off"
    BY DEF Off
<1>4. CASE UNCHANGED <<loop, generation, changing, pairing>>
    BY <1>2, <1>4
<1>5. ASSUME NEW q \in Runs, Arm(q)
      PROVE  /\ UNCHANGED <<generation, changing, pairing>>
             /\ \/ loop'[r] = loop[r]
                \/ loop'[r].gen = generation /\ loop'[r].pc = "waiting"
  <2>1. /\ [Off EXCEPT !.pc = "waiting", !.gen = generation].gen = generation
        /\ [Off EXCEPT !.pc = "waiting", !.gen = generation].pc = "waiting"
    BY DEF Off
  <2>2. loop \in [Runs -> Loops]
    BY <1>1 DEF TypeOK
  <2>3. \/ loop'[r] = loop[r]
        \/ loop'[r] = [Off EXCEPT !.pc = "waiting", !.gen = generation]
    BY <1>5, <2>2 DEF Arm
  <2>4. UNCHANGED <<generation, changing, pairing>>
    BY <1>5 DEF Arm
  <2>5. QED
    BY <2>1, <2>3, <2>4
<1>6. ASSUME NEW q \in Runs, LoopStep(q)
      PROVE  /\ UNCHANGED <<generation, changing, pairing>>
             /\ \/ loop'[r] = loop[r] \/ loop'[r] = Off
                \/ /\ loop'[r].gen = generation
                   /\ loop'[r].pc = "waiting" \/ loop'[r].asked = pairing
  <2>1. UNCHANGED <<generation, changing, pairing>>
    BY <1>1, <1>6, LoopSteps DEF LoopUnchanged
  <2>2. \/ loop' = [loop EXCEPT ![q] = Off]
        \/ /\ loop[q].gen = generation
           /\ \/ loop' = [loop EXCEPT ![q].pc = "asking", ![q].asked = pairing]
              \/ loop' = [loop EXCEPT ![q].pc = "waiting", ![q].asked = 0]
    BY <1>1, <1>6, LoopSteps
  <2>3. QED
    BY <1>1, <2>1, <2>2 DEF TypeOK, Loops
<1>7. CASE Fire
  <2>1. \/ loop'[r] = loop[r]
        \/ loop'[r].gen = generation /\ loop'[r].pc = "due"
    <3>1. \/ loop'[r] = loop[r]
          \/ loop'[r] = [pc |-> "due", gen |-> generation, asked |-> 0]
      BY <1>7 DEF Fire
    <3>2. QED
      BY <3>1
  <2>2. UNCHANGED <<generation, changing, pairing>>
    BY <1>7 DEF Fire
  <2>3. QED
    BY <1>2, <2>1, <2>2
<1>8. CASE ChangePairing
    BY <1>2, <1>8 DEF ChangePairing
<1>9. CASE Bump
    BY <1>2, <1>9 DEF Bump
<1>10. CASE Evict
  <2>1. generation' = 0 /\ loop'[r] = Off
    BY <1>10 DEF Evict
  <2>2. QED
    BY <1>3, <2>1
<1>11. \/ UNCHANGED <<loop, generation, changing, pairing>>
       \/ (\E q \in Runs : Arm(q) \/ LoopStep(q))
       \/ Fire \/ ChangePairing \/ Bump \/ Evict
    BY DEF Next, vars, worker, Ask, Invoked, Lapse, Resolved, Execute,
           ExecuteFails, Listed, Disarm
<1>12. QED
    BY <1>2, <1>3, <1>4, <1>5, <1>6, <1>7, <1>8, <1>9, <1>10, <1>11

\* What the chain puts is the present pairing's, or a clear comes behind it.
LEMMA PutsStep == IInv /\ [Next]_vars => PutsAreOurs'
<1> DEFINE Ours(o, i) == o.op = "put" =>
               /\ o.entry.links = NoRun
               /\ o.entry.kind = "done" /\ o.entry.owner # pairing => ClearAfter(i)
<1> SUFFICES ASSUME IInv, [Next]_vars, NEW i \in DOMAIN chain',
                    chain'[i].op = "put"
             PROVE  /\ chain'[i].entry.links = NoRun
                    /\ chain'[i].entry.kind = "done" /\ chain'[i].entry.owner # pairing'
                          => ClearAfter(i)'
    BY DEF PutsAreOurs
<1>1. TypeOK /\ chain \in Seq(Ops) /\ \A n \in DOMAIN chain : Ours(chain[n], n)
    BY DEF IInv, TypeOK, PutsAreOurs
<1>2. CASE Quiet
    BY <1>1, <1>2 DEF Quiet, ClearAfter
<1>3. ASSUME NEW op \in Ops, Linking(op)
      PROVE  /\ chain'[i].entry.links = NoRun
             /\ chain'[i].entry.kind = "done" /\ chain'[i].entry.owner # pairing'
                   => ClearAfter(i)'
  <2>1. chain' = Append(chain, op) /\ UNCHANGED <<pairing, changing>>
    BY <1>3 DEF Linking
  <2>2. CASE i \in DOMAIN chain
    <3>1. i \in Nat /\ chain'[i] = chain[i]
      BY <1>1, <2>1, <2>2, Linked
    <3>2. ClearAfter(i) => ClearAfter(i)'
      BY <1>1, <2>1, <3>1, ClearStays
    <3>3. QED
      BY <1>1, <2>1, <2>2, <3>1, <3>2
  <2>3. CASE i \notin DOMAIN chain
    <3>1. chain'[i] = op
      BY <1>1, <2>1, <2>3, Linked
    <3>2. /\ op.entry.links = NoRun
          /\ op.entry.kind = "done" => changing \/ op.entry.owner = pairing
      BY <1>3, <3>1 DEF Linking, OurPut
    <3>3. QED
      BY <2>1, <3>1, <3>2 DEF ClearAfter
  <2>4. QED
    BY <2>2, <2>3
<1>4. CASE Execute \/ ExecuteFails
  <2>1. /\ chain # <<>> /\ chain' = Tail(chain)
        /\ UNCHANGED <<pairing, changing>>
    BY <1>4 DEF Execute, ExecuteFails
  <2>2. i + 1 \in DOMAIN chain /\ chain'[i] = chain[i + 1]
    BY <1>1, <2>1, Shifted
  <2>3. i \in Nat
    <3>1. chain' \in Seq(Ops)
      BY <1>1, <2>1, Shifted
    <3>2. QED
      BY <3>1, LenProperties
  <2>4. ClearAfter(i + 1) => ClearAfter(i)'
    BY <1>1, <2>1, <2>3, ClearMoves
  <2>5. QED
    BY <1>1, <2>1, <2>2, <2>4
<1>5. CASE ChangePairing
    BY <1>1, <1>5 DEF ChangePairing, ClearAfter
<1>6. CASE Bump
  <2> DEFINE op == [op |-> "clear"]
  <2>1. op \in Ops /\ op.op = "clear"
    BY DEF Ops
  <2>2. chain' = Append(chain, op)
    BY <1>6 DEF Bump, Link
  <2> HIDE DEF op
  <2>3. /\ DOMAIN chain' = DOMAIN chain \union {Len(chain) + 1}
        /\ \A n \in DOMAIN chain : n < Len(chain) + 1 /\ chain'[n] = chain[n]
        /\ chain'[Len(chain) + 1] = op
    BY <1>1, <2>1, <2>2, Linked
  <2>4. i \in DOMAIN chain
    BY <2>1, <2>3
  <2>5. ClearAfter(i)'
    BY <2>1, <2>3, <2>4 DEF ClearAfter
  <2>6. QED
    BY <1>1, <2>3, <2>4, <2>5
<1>7. CASE Evict
  <2>1. chain' = <<>>
    BY <1>7 DEF Evict
  <2>2. QED
    BY <2>1, EmptySeq
<1>8. QED
    BY <1>2, <1>3, <1>4, <1>5, <1>6, <1>7, StepKinds

\* So is what is stored, or its clear is still to come or has been lost.
LEMMA StoredStep == IInv /\ [Next]_vars => StoredAreOurs'
<1> SUFFICES ASSUME IInv, [Next]_vars, NEW e \in RS!Stored', e.kind = "done",
                    e.owner # pairing'
             PROVE  unclear' \/ ClearAfter(0)'
    BY DEF StoredAreOurs
<1>1. /\ TypeOK /\ chain \in Seq(Ops) /\ RP!StoreShape
      /\ \A o \in RS!Stored : o.kind = "done" /\ o.owner # pairing
                                 => unclear \/ ClearAfter(0)
    BY DEF IInv, TypeOK, StoredAreOurs
<1>2. CASE Quiet
    BY <1>1, <1>2 DEF Quiet, ClearAfter, RS!Stored
<1>3. ASSUME NEW op \in Ops, Linking(op) PROVE unclear' \/ ClearAfter(0)'
  <2>1. /\ chain' = Append(chain, op)
        /\ UNCHANGED <<store, pairing, changing, unclear>>
    BY <1>3 DEF Linking
  <2>2. ClearAfter(0) => ClearAfter(0)'
    BY <1>1, <2>1, ClearStays
  <2>3. QED
    BY <1>1, <2>1, <2>2 DEF RS!Stored
<1>4. ASSUME chain # <<>>, chain' = Tail(chain), changing' = changing,
             Head(chain).op # "clear", ClearAfter(0)
      PROVE  ClearAfter(0)'
  <2>1. Head(chain) = chain[1] /\ \A j \in DOMAIN chain : j \in Nat
    BY <1>1, <1>4, Shifted, LenProperties
  <2>2. ClearAfter(0 + 1)
    BY <1>4, <2>1 DEF ClearAfter
  <2>3. QED
    BY <1>1, <1>4, <2>2, ClearMoves
<1>5. CASE Execute
  <2> DEFINE op == Head(chain)
  <2>1. op \in Ops /\ op = chain[1] /\ 1 \in DOMAIN chain
    BY <1>1, <1>5, Shifted DEF Execute
  <2>2. chain # <<>> /\ chain' = Tail(chain) /\ UNCHANGED <<pairing, changing>>
    BY <1>5 DEF Execute
  <2>3. CASE op.op = "put"
    <3>1. op.entry \in RS!Entries
      BY <2>1, <2>3 DEF Ops
    <3>2. store' = RS!Put(op.entry) /\ UNCHANGED unclear
      BY <1>5, <2>3 DEF Execute
    <3>3. e = op.entry \/ e \in RS!Stored
      BY <1>1, <3>1, <3>2, PutAdds
    <3>4. CASE e = op.entry
      <4>1. ClearAfter(1)
        BY <2>1, <2>2, <2>3, <3>4 DEF IInv, PutsAreOurs
      <4>2. ClearAfter(0 + 1)
        BY <4>1
      <4>3. QED
        BY <1>1, <2>2, <4>2, ClearMoves
    <3>5. CASE e \in RS!Stored
      BY <1>1, <1>4, <2>2, <2>3, <3>2, <3>5
    <3>6. QED
      BY <3>3, <3>4, <3>5
  <2>4. CASE op.op = "links"
    <3>1. op.entry.key \in Keys /\ op.entry.run \in Runs
      BY <2>1, <2>4 DEF Ops, RS!Entries
    <3>2. store' = RS!Attach(op.entry.key, op.entry.run) /\ UNCHANGED unclear
      BY <1>5, <2>4 DEF Execute
    <3>3. \E o \in RS!Stored : e.kind = o.kind /\ e.owner = o.owner
      <4>1. \/ e \in RS!Stored
            \/ \E o \in RS!Stored : e = [o EXCEPT !.links = op.entry.run]
        BY <1>1, <3>1, <3>2, AttachAdds
      <4>2. \A o \in RS!Stored : o \in RS!Entries
        BY <1>1, LenProperties DEF RS!Stored, RS!ToSet, TypeOK
      <4>3. QED
        BY <4>1, <4>2 DEF RS!Entries
    <3>4. unclear \/ ClearAfter(0)
      BY <1>1, <2>2, <3>3
    <3>5. QED
      BY <1>4, <2>2, <2>4, <3>2, <3>4
  <2>5. CASE op.op = "clear"
    <3>1. store' = <<>>
      BY <1>5, <2>5 DEF Execute
    <3>2. RS!Stored' = {}
      BY <3>1, EmptySeq DEF RS!Stored, RS!ToSet
    <3>3. QED
      BY <3>2
  <2>6. QED
    BY <2>1, <2>3, <2>4, <2>5 DEF Ops
<1>6. CASE ExecuteFails
  <2>1. /\ chain # <<>> /\ chain' = Tail(chain) /\ UNCHANGED <<store, pairing, changing>>
        /\ unclear' = (unclear \/ Head(chain).op = "clear")
    BY <1>6 DEF ExecuteFails
  <2>2. unclear \/ ClearAfter(0)
    BY <1>1, <2>1 DEF RS!Stored
  <2>3. QED
    BY <1>4, <2>1, <2>2
<1>7. CASE ChangePairing
    BY <1>7 DEF ChangePairing, ClearAfter
<1>8. CASE Bump
  <2> DEFINE op == [op |-> "clear"]
  <2>1. op \in Ops /\ op.op = "clear"
    BY DEF Ops
  <2>2. chain' = Append(chain, op)
    BY <1>8 DEF Bump, Link
  <2> HIDE DEF op
  <2>3. /\ Len(chain) + 1 \in DOMAIN chain' /\ chain'[Len(chain) + 1] = op
        /\ Len(chain) + 1 > 0
    BY <1>1, <2>1, <2>2, Linked, LenProperties
  <2>4. QED
    BY <2>1, <2>3 DEF ClearAfter
<1>9. CASE Evict
  <2>1. UNCHANGED <<store, pairing>>
        /\ unclear' = (unclear \/ changing \/ \E i \in DOMAIN chain : chain[i].op = "clear")
    BY <1>9 DEF Evict
  <2>2. unclear \/ ClearAfter(0)
    BY <1>1, <2>1 DEF RS!Stored
  <2>3. QED
    BY <2>1, <2>2 DEF ClearAfter
<1>10. QED
    BY <1>2, <1>3, <1>5, <1>6, <1>7, <1>8, <1>9, StepKinds

----------------------------------------------------------------------------
\* Type correctness, the generations, and that what polls and puts stays of the
\* present pairing, for any runs, questions, budgets, changes and faults.
THEOREM InductiveHolds == Spec => []IInv
<1>1. IInv /\ [Next]_vars => IInv'
  <2>1. IInv /\ [Next]_vars => RP!StoreShape'
    BY StoreStep DEF IInv
  <2>2. QED
    BY <2>1, TypeStep, GenerationStep, LoopsStep, PutsStep, StoredStep DEF IInv
<1>2. QED
    BY <1>1, InitHolds, PTL DEF Spec

\* The variables keep their types, for any runs, questions, loops and handlers at once.
THEOREM TypeCorrect == Spec => []TypeOK
<1>1. IInv => TypeOK
    BY DEF IInv
<1>2. QED
    BY <1>1, InductiveHolds, PTL

\* Once a change of pairing is complete, no answer of another gateway is in the
\* store (service-worker.ts:353-369).
THEOREM BriefIsOursHolds == Spec => []BriefIsOurs
<1>1. IInv => BriefIsOurs
  <2> SUFFICES ASSUME IInv, Settled, NEW e \in RS!Stored, e.kind = "done"
               PROVE  e.owner = pairing
      BY DEF BriefIsOurs
  <2>1. ~unclear /\ ~ClearAfter(0)
      BY DEF Settled, ClearAfter
  <2>2. QED
      BY <2>1 DEF IInv, StoredAreOurs
<1>2. QED
    BY <1>1, InductiveHolds, PTL

\* Links attached to a run were resolved for that run, whatever Re-run has
\* overtaken the request for them (agent-run-store.ts:332-357).
THEOREM LinksAreItsOwnHolds == Spec => []LinksAreItsOwn
<1>1. Init => LinksAreItsOwn
  <2> SUFFICES ASSUME Init PROVE LinksAreItsOwn
      OBVIOUS
  <2>1. RS!Stored = {}
      BY EmptySeq DEF Init, RS!Stored, RS!ToSet
  <2>2. QED
      BY <2>1 DEF LinksAreItsOwn
<1>2. IInv /\ LinksAreItsOwn /\ [Next]_vars => LinksAreItsOwn'
  <2> SUFFICES ASSUME IInv, LinksAreItsOwn, [Next]_vars, NEW e \in RS!Stored'
               PROVE  e.links \in {NoRun, e.run}
      BY DEF LinksAreItsOwn
  <2>1. /\ TypeOK /\ chain \in Seq(Ops) /\ RP!StoreShape
        /\ \A o \in RS!Stored : o \in RS!Entries /\ o.links \in {NoRun, o.run}
      BY LenProperties DEF IInv, TypeOK, LinksAreItsOwn, RS!Stored, RS!ToSet
  <2>2. CASE UNCHANGED store
      BY <2>1, <2>2 DEF RS!Stored
  <2>3. CASE Execute
    <3> DEFINE op == Head(chain)
    <3>1. op \in Ops /\ op = chain[1] /\ 1 \in DOMAIN chain
      BY <2>1, <2>3, Shifted DEF Execute
    <3>2. CASE op.op = "put"
      <4>1. op.entry \in RS!Entries /\ op.entry.links = NoRun
        BY <3>1, <3>2 DEF Ops, IInv, PutsAreOurs
      <4>2. store' = RS!Put(op.entry)
        BY <2>3, <3>2 DEF Execute
      <4>3. e = op.entry \/ e \in RS!Stored
        BY <2>1, <4>1, <4>2, PutAdds
      <4>4. QED
        BY <2>1, <4>1, <4>3
    <3>3. CASE op.op = "links"
      <4>1. op.entry.key \in Keys /\ op.entry.run \in Runs
        BY <3>1, <3>3 DEF Ops, RS!Entries
      <4>2. store' = RS!Attach(op.entry.key, op.entry.run)
        BY <2>3, <3>3 DEF Execute
      <4>3. \/ e \in RS!Stored
            \/ \E o \in RS!Stored :
                  o.run = op.entry.run /\ e = [o EXCEPT !.links = op.entry.run]
        BY <2>1, <4>1, <4>2, AttachAdds
      <4>4. QED
        BY <2>1, <4>3 DEF RS!Entries
    <3>4. CASE op.op = "clear"
      <4>1. store' = <<>>
        BY <2>3, <3>4 DEF Execute
      <4>2. RS!Stored' = {}
        BY <4>1, EmptySeq DEF RS!Stored, RS!ToSet
      <4>3. QED
        BY <4>2
    <3>5. QED
      BY <3>1, <3>2, <3>3, <3>4 DEF Ops
  <2>4. UNCHANGED store \/ Execute
      BY StepKinds DEF Quiet, Linking, ExecuteFails, ChangePairing, Bump, Evict
  <2>5. QED
      BY <2>2, <2>3, <2>4
<1>3. QED
    BY <1>1, <1>2, InductiveHolds, PTL DEF Spec

\* What the worker does to the store is what the store promises: each step is
\* one of its writes or none.
THEOREM RefinesRunStore == Spec => RS!Spec
<1>1. Init => RS!Init
    BY DEF Init, RS!Init
<1>2. IInv /\ [Next]_vars => [RS!Next]_(RS!vars)
    BY StepOfTheStore DEF IInv
<1>3. QED
    BY <1>1, <1>2, InductiveHolds, PTL DEF Spec, RS!Spec

\* So the worker's store keeps one run per question and both its budgets.
THEOREM BudgetsHold == Spec => []RP!StoreShape
<1>1. IInv => RP!StoreShape
    BY DEF IInv
<1>2. QED
    BY <1>1, InductiveHolds, PTL
============================================================================
