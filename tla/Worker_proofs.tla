--------------------------- MODULE Worker_proofs ---------------------------
(***************************************************************************)
(* What holds of the worker's parts for any value of their constants.      *)
(*                                                                         *)
(* Each invariant is of one part (which), says nothing of a behaviour of   *)
(* another, and is kept since a step of the worker is one of its part or   *)
(* leaves that part's variables alone.                                     *)
(***************************************************************************)
EXTENDS Worker, SequenceTheorems, FiniteSetTheorems, TLAPS

\* The lemmas about the store of agent runs, which is the worker's own here.
RP == INSTANCE RunStore_proofs

----------------------------------------------------------------------------
(* A storage key: the promise chain makes it an atomic store, for any set  *)
(* of edits, any contents and any guard.                                   *)

\* The chain is a single writer's queue: type correctness and SingleWriter.
IInv == TypeOK /\ SingleWriter

\* Linking an edit behind a chain of others keeps every old position.
LEMMA AppendPositions ==
    ASSUME NEW T, NEW s \in Seq(T), NEW e \in T
    PROVE  /\ Append(s, e) \in Seq(T)
           /\ Len(Append(s, e)) = Len(s) + 1
           /\ \A i \in 1 .. Len(s) : Append(s, e)[i] = s[i]
           /\ Append(s, e)[Len(s) + 1] = e
  OBVIOUS

\* Dropping the head shifts every other position down by one.
LEMMA TailPositions ==
    ASSUME NEW T, NEW s \in Seq(T), s # <<>>
    PROVE  /\ Len(s) \in Nat \ {0}
           /\ Head(s) = s[1]
           /\ Head(s) \in T
           /\ Tail(s) \in Seq(T)
           /\ Len(Tail(s)) = Len(s) - 1
           /\ \A i \in 1 .. Len(Tail(s)) : Tail(s)[i] = s[i + 1]
  OBVIOUS

\* At start nothing is linked and nothing has been read.
LEMMA InitInv == Init => IInv
  <1> USE StoreAssumption DEF Init, IInv, TypeOK, SingleWriter,
          SnapshotIsCurrent, ChainHoldsTheWaiting, Outcome
  <1> QED OBVIOUS

\* Whatever way the head link settles, the chain behind it still holds exactly
\* the callers that wait, and the next link starts from no snapshot.
LEMMA SettleInv ==
    ASSUME IInv, chain # <<>>, NEW how \in {"resolved", "rejected"}, Settle(how)
    PROVE  /\ chain' \in Seq(Ops)
           /\ snapshot' = NoSnapshot
           /\ settled' \in [Ops -> Outcome]
           /\ ChainHoldsTheWaiting'
  <1> USE DEF IInv, TypeOK, SingleWriter, ChainHoldsTheWaiting, Settle, Outcome
  <1>1. /\ Len(chain) \in Nat \ {0}
        /\ Head(chain) = chain[1]
        /\ Head(chain) \in Ops
        /\ chain' \in Seq(Ops)
        /\ Len(chain') = Len(chain) - 1
        /\ \A i \in 1 .. Len(chain') : chain'[i] = chain[i + 1]
    BY TailPositions
  <1>2. settled' \in [Ops -> Outcome]
    BY <1>1
  <1>3. \A i \in 1 .. Len(chain') : settled'[chain'[i]] = "waiting"
    <2> SUFFICES ASSUME NEW i \in 1 .. Len(chain')
                 PROVE  settled'[chain'[i]] = "waiting"
      OBVIOUS
    <2>1. i + 1 \in 1 .. Len(chain) /\ 1 \in 1 .. Len(chain) /\ i + 1 # 1
      BY <1>1
    <2>2. chain[i + 1] \in Ops /\ chain[i + 1] # Head(chain)
      BY <1>1, <2>1
    <2> QED BY <1>1, <2>1, <2>2
  <1>4. \A i, j \in 1 .. Len(chain') : chain'[i] = chain'[j] => i = j
    <2> SUFFICES ASSUME NEW i \in 1 .. Len(chain'), NEW j \in 1 .. Len(chain'),
                        chain'[i] = chain'[j]
                 PROVE  i = j
      OBVIOUS
    <2>1. i + 1 \in 1 .. Len(chain) /\ j + 1 \in 1 .. Len(chain)
      BY <1>1
    <2>2. chain[i + 1] = chain[j + 1]
      BY <1>1
    <2>3. i + 1 = j + 1
      BY <2>1, <2>2
    <2> QED BY <2>3
  <1>5. \A op \in Ops :
           settled'[op] = "waiting" => \E i \in 1 .. Len(chain') : chain'[i] = op
    <2> SUFFICES ASSUME NEW op \in Ops, settled'[op] = "waiting"
                 PROVE  \E i \in 1 .. Len(chain') : chain'[i] = op
      OBVIOUS
    <2>1. op # Head(chain) /\ settled[op] = "waiting"
      BY <1>1
    <2>2. PICK i \in 1 .. Len(chain) : chain[i] = op
      BY <2>1
    <2>3. i - 1 \in 1 .. Len(chain') /\ (i - 1) + 1 = i
      BY <1>1, <2>1, <2>2
    <2>4. chain'[i - 1] = op
      BY <1>1, <2>2, <2>3
    <2> QED BY <2>3, <2>4
  <1> QED BY <1>1, <1>2, <1>3, <1>4, <1>5

\* A call links a new edit behind the others.
LEMMA SubmitInv ==
    ASSUME IInv, NEW op \in Ops, Submit(op)
    PROVE  IInv'
  <1> USE StoreAssumption DEF Submit
  <1>1. /\ chain' \in Seq(Ops)
        /\ Len(chain') = Len(chain) + 1
        /\ \A i \in 1 .. Len(chain) : chain'[i] = chain[i]
        /\ chain'[Len(chain) + 1] = op
        /\ Len(chain) \in Nat
    BY AppendPositions DEF IInv, TypeOK
  <1>2. TypeOK'
    BY <1>1 DEF IInv, TypeOK, Outcome
  <1>3. SnapshotIsCurrent'
    BY DEF IInv, SingleWriter, SnapshotIsCurrent
  <1>4. ChainHoldsTheWaiting'
    <2> USE DEF IInv, TypeOK, SingleWriter, ChainHoldsTheWaiting
    <2>1. \A i \in 1 .. Len(chain) : chain[i] \in Ops /\ chain[i] # op
      OBVIOUS
    <2>2. \A i \in 1 .. Len(chain') : settled'[chain'[i]] = "waiting"
      BY <1>1, <2>1
    <2>3. \A i, j \in 1 .. Len(chain') : chain'[i] = chain'[j] => i = j
      BY <1>1, <2>1
    <2>4. \A o \in Ops :
             settled'[o] = "waiting" => \E i \in 1 .. Len(chain') : chain'[i] = o
      <3> SUFFICES ASSUME NEW o \in Ops, settled'[o] = "waiting"
                   PROVE  \E i \in 1 .. Len(chain') : chain'[i] = o
        OBVIOUS
      <3>1. CASE o = op
        BY <1>1, <3>1
      <3>2. CASE o # op
        <4>1. PICK i \in 1 .. Len(chain) : chain[i] = o
          BY <3>2
        <4> QED BY <1>1, <4>1
      <3> QED BY <3>1, <3>2
    <2> QED BY <2>2, <2>3, <2>4
  <1> QED BY <1>2, <1>3, <1>4 DEF IInv, SingleWriter

\* An eviction empties the chain and leaves no caller waiting.
LEMMA EvictInv ==
    ASSUME IInv, Evict
    PROVE  IInv'
  <1> USE StoreAssumption DEF IInv, TypeOK, Evict
  <1>1. stored' \in Raw
    <2>1. CASE UNCHANGED stored
      BY <2>1
    <2>2. CASE snapshot # NoSnapshot /\ stored' = Edit[Head(chain)][snapshot]
      <3>1. Head(chain) \in Ops
        BY TailPositions
      <3> QED BY <2>2, <3>1
    <2> QED BY <2>1, <2>2
  <1>2. settled' \in [Ops -> Outcome] /\ \A op \in Ops : settled'[op] # "waiting"
    BY DEF Outcome
  <1>3. chain' \in Seq(Ops) /\ Len(chain') = 0 /\ snapshot' = NoSnapshot
    OBVIOUS
  <1> QED BY <1>1, <1>2, <1>3
          DEF SingleWriter, SnapshotIsCurrent, ChainHoldsTheWaiting

\* Every step of the store keeps the single-writer invariant.
LEMMA StepInv == IInv /\ [Next]_vars => IInv'
  <1> SUFFICES ASSUME IInv, [Next]_vars PROVE IInv'
    OBVIOUS
  <1> USE StoreAssumption
  <1>1. ASSUME NEW op \in Ops, Submit(op) PROVE IInv'
    BY <1>1, SubmitInv
  <1>2. CASE Read
    BY <1>2 DEF IInv, TypeOK, SingleWriter, SnapshotIsCurrent,
               ChainHoldsTheWaiting, Read, ReadGuarded
  <1>3. CASE Write
    <2>1. Settle("resolved") /\ chain # <<>>
      BY <1>3 DEF Write
    <2>2. /\ chain' \in Seq(Ops)
          /\ snapshot' = NoSnapshot
          /\ settled' \in [Ops -> Outcome]
          /\ ChainHoldsTheWaiting'
      BY <2>1, SettleInv
    <2>3. stored' \in Raw
      <3>1. Head(chain) \in Ops
        BY <2>1, TailPositions DEF IInv, TypeOK
      <3> QED BY <1>3, <3>1 DEF Write, IInv, TypeOK
    <2> QED BY <2>2, <2>3 DEF IInv, TypeOK, SingleWriter, SnapshotIsCurrent
  <1>4. CASE Fail
    <2>1. Settle("rejected") /\ chain # <<>> /\ stored' = stored
      BY <1>4 DEF Fail
    <2>2. /\ chain' \in Seq(Ops)
          /\ snapshot' = NoSnapshot
          /\ settled' \in [Ops -> Outcome]
          /\ ChainHoldsTheWaiting'
      BY <2>1, SettleInv
    <2> QED BY <2>1, <2>2 DEF IInv, TypeOK, SingleWriter, SnapshotIsCurrent
  <1>5. CASE Evict
    BY <1>5, EvictInv
  <1>6. CASE UNCHANGED vars
    BY <1>6 DEF IInv, TypeOK, SingleWriter, SnapshotIsCurrent,
               ChainHoldsTheWaiting, vars
  <1> QED BY <1>1, <1>2, <1>3, <1>4, <1>5, <1>6 DEF Next

\* The single-writer invariant holds throughout.
LEMMA SpecInv == Spec => []IInv
  BY InitInv, StepInv, PTL DEF Spec

\* The store's variables keep their types: in particular what a caller was
\* told is never outside the outcomes of a promise.
THEOREM TypeCorrect == Spec => []TypeOK
  <1>1. IInv => TypeOK
    BY DEF IInv
  <1> QED BY <1>1, SpecInv, PTL

\* Between the read and the write of one edit no other edit writes, for any
\* number of edits, callers and evictions (keyed-store.ts:49-60).
THEOREM SingleWriterHolds == Spec => []SingleWriter
  <1>1. IInv => SingleWriter
    BY DEF IInv
  <1> QED BY <1>1, SpecInv, PTL

----------------------------------------------------------------------------
\* The store starts as the abstract one does, whatever storage holds.
LEMMA InitRefines == Init => Atomic!Init
  BY StoreAssumption DEF Init, Atomic!Init, Atomic!SerialInit

\* Each step of the store is a step of the abstract one or changes nothing it
\* can see: a read is invisible, a write commits, a failure refuses.
LEMMA StepRefines == IInv /\ [Next]_vars => [Atomic!Next]_(Atomic!vars)
  <1> SUFFICES ASSUME IInv, [Next]_vars
               PROVE  [Atomic!Next]_(Atomic!vars)
    OBVIOUS
  <1> USE StoreAssumption
  <1>e. ASSUME chain # <<>>, snapshot # NoSnapshot,
               stored' = Edit[Head(chain)][snapshot]
        PROVE  Guard[stored'] = Edited(Head(chain), Guard[stored])
    <2>1. Head(chain) \in Ops
      BY <1>e, TailPositions DEF IInv, TypeOK
    <2>2. snapshot = Guard[stored] /\ snapshot \in Values
      BY <1>e DEF IInv, TypeOK, SingleWriter, SnapshotIsCurrent
    <2>3. stored' \in Values
      BY <1>e, <2>1, <2>2
    <2> QED BY <1>e, <2>2, <2>3 DEF Edited
  <1>1. ASSUME NEW op \in Ops, Submit(op) PROVE Atomic!Submit(op)
    BY <1>1 DEF Submit, Atomic!Submit, Atomic!Link
  <1>2. CASE Read
    BY <1>2 DEF Read, Atomic!vars, Atomic!serial
  <1>3. CASE Write
    <2>1. chain # <<>> /\ snapshot # NoSnapshot
          /\ stored' = Edit[Head(chain)][snapshot] /\ Settle("resolved")
      BY <1>3 DEF Write
    <2>2. Atomic!Land
      BY <1>e, <2>1 DEF Settle, Atomic!Land
    <2>3. Atomic!Commit
      BY <2>1, <2>2 DEF Settle, Atomic!Commit
    <2> QED BY <2>3 DEF Atomic!Next
  <1>4. CASE Fail
    <2>1. Atomic!Refuse
      BY <1>4 DEF Fail, Settle, Atomic!Refuse, Atomic!Drop
    <2> QED BY <2>1 DEF Atomic!Next
  <1>5. CASE Evict
    <2>1. chain' = <<>> /\ chain # <<>>
      BY <1>5 DEF Evict
    <2>2. Atomic!Lose
      <3>1. CASE UNCHANGED stored
        BY <2>1, <3>1 DEF Atomic!Lose
      <3>2. CASE snapshot # NoSnapshot /\ stored' = Edit[Head(chain)][snapshot]
        BY <1>e, <2>1, <3>2 DEF Atomic!Lose
      <3> QED BY <1>5, <3>1, <3>2 DEF Evict
    <2>3. Atomic!Evict
      BY <1>5, <2>2 DEF Evict, Atomic!Evict
    <2> QED BY <2>3 DEF Atomic!Next
  <1>6. CASE UNCHANGED vars
    BY <1>6 DEF vars, Atomic!vars, Atomic!serial
  <1> QED BY <1>1, <1>2, <1>3, <1>4, <1>5, <1>6 DEF Next, Atomic!Next

\* A promise chain over one storage key implements the atomic store: each edit
\* takes effect in its turn, on what the one before it left, at one instant, or
\* not at all, and its caller is told which.
THEOREM Refinement == Spec => ImplementsAtomicStore
  BY InitRefines, StepRefines, SpecInv, PTL
     DEF Spec, ImplementsAtomicStore, Atomic!Spec

\* To those who do not wait for their edits the atomic store is a serial one.
LEMMA AtomicIsSerial == [Atomic!Next]_(Atomic!vars) => [Atomic!SerialNext]_(Atomic!serial)
  BY DEF Atomic!Next, Atomic!vars, Atomic!Submit, Atomic!Commit, Atomic!Refuse,
         Atomic!Evict, Atomic!SerialNext, Atomic!serial

\* So the key is a serial store, which is what the stores whose links are one step
\* each (AgentRuns, Bindings, BriefRuns, RunStore) take it for.
THEOREM KeyIsSerial == Spec => Atomic!SerialSpec
  <1>1. Atomic!Init => Atomic!SerialInit
    BY DEF Atomic!Init
  <1> QED BY <1>1, AtomicIsSerial, Refinement, PTL
          DEF ImplementsAtomicStore, Atomic!Spec, Atomic!SerialSpec

----------------------------------------------------------------------------
(* Connector health.                                                       *)

Times == Nat \union {Never}
Names == Origins \union {"none"}
Steps == {"off", "reading", "waiting", "storing", "told", "kept"}

HealthType ==
    /\ now \in Nat /\ stalled \in BOOLEAN
    /\ cache \in [pc : Steps, origin : Names, at : Nat, from : Names, seen : Times]
    /\ flight \in [Origins -> [origin : Names, began : Nat, seen : Times]]
    /\ reader \in [Readers -> [pc : Steps, origin : Names, at : Nat, from : Names, seen : Times]]

\* An answer of its own gateway that is no older than the request it came by.
Fresh(e) == e.from = e.origin /\ e.seen \in Nat /\ e.at <= e.seen + Timeout

\* While no body has stalled a request is of its gateway and no older than its
\* timeout, and whoever waits for it asked before now.
FlightIsYoung(o) ==
    flight[o] # C!NoFlight =>
        /\ flight[o].origin = o
        /\ flight[o].began <= now /\ now <= flight[o].began + Timeout
        /\ flight[o].seen # Never => flight[o].began <= flight[o].seen

HealthInv ==
    /\ HealthType
    /\ \A r \in Readers : reader[r].at <= now
    /\ ~stalled => /\ \A o \in Origins : FlightIsYoung(o)
                   /\ cache # C!NoCache => Fresh(cache)
                   /\ \A r \in Readers : reader[r].pc = "storing" => Fresh(reader[r])
    /\ C!HealthIsRecent

\* The invariant of the health read holds at first.
LEMMA HealthInit == C!Init => HealthInv
<1> SUFFICES ASSUME C!Init PROVE HealthInv
    OBVIOUS
<1>1. HealthType
    BY DEF C!Init, C!NoCache, C!NoFlight, C!Off, HealthType, Times, Names, Steps
<1>2. \A o \in Origins : flight[o] = C!NoFlight
    BY DEF C!Init
<1>3. \A r \in Readers : reader[r].at = 0 /\ reader[r].pc = "off"
    BY DEF C!Init, C!Off
<1>4. now = 0 /\ cache = C!NoCache
    BY DEF C!Init
<1>5. \A r \in Readers : reader[r].at <= now
    BY <1>3, <1>4
<1>6. QED
    BY <1>1, <1>2, <1>3, <1>4, <1>5 DEF HealthInv, FlightIsYoung, C!HealthIsRecent

\* No step leaves the types.
LEMMA HealthTypeStep == HealthType /\ C!Next => HealthType'
<1> SUFFICES ASSUME HealthType, C!Next PROVE HealthType'
    OBVIOUS
<1> USE WorkerAssumption DEF Steps
<1>1. ASSUME NEW r \in Readers, NEW o \in Origins, C!readConnectorHealth(r, o)
      PROVE  HealthType'
    BY <1>1 DEF HealthType, C!readConnectorHealth, C!Off, Times, Names, Steps
<1>2. ASSUME NEW r \in Readers, C!ReadCache(r) PROVE HealthType'
  <2>1. flight' \in [Origins -> [origin : Names, began : Nat, seen : Times]]
    BY <1>2 DEF HealthType, C!ReadCache, C!readerFor, C!Slot, Times
  <2>2. reader' \in [Readers -> [pc : Steps, origin : Names, at : Nat, from : Names,
                                 seen : Times]]
    BY <1>2 DEF HealthType, C!ReadCache
  <2>3. QED
    BY <1>2, <2>1, <2>2 DEF HealthType, C!ReadCache
<1>3. ASSUME NEW r \in Readers, C!Store(r) PROVE HealthType'
    BY <1>3 DEF HealthType, C!Store
<1>4. ASSUME NEW o \in Origins, C!GatewayAnswers(o) PROVE HealthType'
    BY <1>4 DEF HealthType, C!GatewayAnswers, Times
<1>5. ASSUME NEW o \in Origins, C!Settle(o) PROVE HealthType'
  <2>1. PICK seen \in {Never, flight[o].seen} :
           reader' = [r \in Readers |->
                        IF r \notin C!Waiting(o) THEN reader[r]
                        ELSE [reader[r] EXCEPT !.pc = IF seen = Never THEN "told" ELSE "storing",
                                               !.from = flight[o].origin, !.seen = seen]]
    BY <1>5 DEF C!Settle
  <2>2. seen \in Times /\ flight[o].origin \in Names
    BY DEF HealthType, Times
  <2>3. reader' \in [Readers -> [pc : Steps, origin : Names, at : Nat, from : Names,
                                 seen : Times]]
    BY <2>1, <2>2 DEF HealthType
  <2>4. QED
    BY <1>5, <2>3 DEF HealthType, C!Settle, C!NoFlight, Times, Names, Steps
<1>6. CASE C!Evict
    BY <1>6 DEF HealthType, C!Evict, C!NoFlight, C!Off, Times, Names, Steps
<1>7. CASE C!Tick
  <2>1. now' = now + 1 /\ (stalled' = TRUE \/ stalled' = stalled)
    BY <1>7 DEF C!Tick
  <2>2. UNCHANGED <<cache, flight, reader>>
    BY <1>7 DEF C!Tick
  <2>3. now' \in Nat /\ stalled' \in BOOLEAN
    <3>1. now' \in Nat
      BY <2>1 DEF HealthType
    <3>2. stalled' \in BOOLEAN
      BY <2>1, Zenon DEF HealthType
    <3>3. QED
      BY <3>1, <3>2
  <2>4. QED
    BY <2>2, <2>3 DEF HealthType
<1>8. QED
    BY <1>1, <1>2, <1>3, <1>4, <1>5, <1>6, <1>7 DEF C!Next

\* Every answer that a reader is told, or that is kept, is fresh as long as no
\* body has stalled.
LEMMA HealthStep == HealthInv /\ C!Next => HealthInv'
<1> SUFFICES ASSUME HealthInv, C!Next PROVE HealthInv'
    OBVIOUS
<1>1. HealthType /\ HealthType'
    BY HealthTypeStep DEF HealthInv
<1>2. /\ now \in Nat /\ TTL \in Nat \ {0} /\ Timeout \in Nat /\ Never \notin Nat
      /\ \A r \in Readers : reader[r].at \in Nat /\ reader[r].at <= now
      /\ \A o \in Origins : flight[o].began \in Nat /\ flight[o].seen \in Times
      /\ cache.at \in Nat
    BY <1>1, WorkerAssumption DEF HealthInv, HealthType
<1>3. ASSUME NEW r \in Readers, NEW o \in Origins, C!readConnectorHealth(r, o)
      PROVE  HealthInv'
  <2>1. UNCHANGED <<now, cache, flight, stalled>>
    BY <1>3 DEF C!readConnectorHealth
  <2>2. \A q \in Readers : \/ reader'[q] = reader[q]
                           \/ reader'[q].at = now /\ reader'[q].pc = "reading"
    BY <1>1, <1>3 DEF C!readConnectorHealth, HealthType, C!Off
  <2>3. \A q \in Readers : reader'[q].at <= now'
    BY <1>2, <2>1, <2>2
  <2>4. ~stalled' => /\ \A p \in Origins : FlightIsYoung(p)'
                     /\ cache' # C!NoCache => Fresh(cache)'
    BY <2>1 DEF HealthInv, FlightIsYoung, Fresh, C!NoFlight, C!NoCache
  <2>5. ~stalled' => \A q \in Readers : reader'[q].pc = "storing" => Fresh(reader[q])'
    BY <2>1, <2>2 DEF HealthInv, Fresh
  <2>6. C!HealthIsRecent'
    BY <2>1, <2>2 DEF HealthInv, C!HealthIsRecent
  <2>7. QED
    BY <1>1, <2>3, <2>4, <2>5, <2>6 DEF HealthInv, C!NoCache
<1>4. ASSUME NEW r \in Readers, C!ReadCache(r) PROVE HealthInv'
  <2>1. UNCHANGED <<now, cache, stalled>>
    BY <1>4 DEF C!ReadCache
  <2>2. reader' = [reader EXCEPT ![r].pc = "waiting"]
        \/ /\ C!Hit(reader[r])
           /\ reader' = [reader EXCEPT ![r].pc = "told", ![r].from = cache.from,
                                       ![r].seen = cache.seen]
    BY <1>4 DEF C!ReadCache
  <2>3. \A q \in Readers : reader'[q].at = reader[q].at
    BY <1>1, <2>2 DEF HealthType
  <2>4. ~stalled => \A p \in Origins : FlightIsYoung(p)'
    <3>1. ASSUME NEW p \in Origins
          PROVE  \/ flight'[p] = flight[p]
                 \/ flight'[p] = [origin |-> p, began |-> now, seen |-> Never]
      BY <1>1, <1>4 DEF C!ReadCache, C!readerFor, C!Slot, HealthType
    <3>2. ~stalled => \A p \in Origins : FlightIsYoung(p)
      BY DEF HealthInv
    <3>3. ASSUME NEW p \in Origins, ~stalled PROVE FlightIsYoung(p)'
      <4>1. CASE flight'[p] = flight[p]
        BY <2>1, <3>2, <3>3, <4>1 DEF FlightIsYoung, C!NoFlight
      <4>2. CASE flight'[p] = [origin |-> p, began |-> now, seen |-> Never]
        <5>1. /\ flight'[p].origin = p /\ flight'[p].began = now
              /\ flight'[p].seen = Never
          BY <4>2
        <5>2. now <= now + Timeout /\ now <= now
          BY <1>2
        <5>3. QED
          BY <2>1, <5>1, <5>2 DEF FlightIsYoung
      <4>3. QED
        BY <3>1, <4>1, <4>2
    <3>4. QED
      BY <3>3
  <2>5. \A q \in Readers : reader'[q].pc = "storing" => reader'[q] = reader[q]
    BY <1>1, <2>2 DEF HealthType
  <2>6. ASSUME ~stalled, C!Hit(reader[r])
        PROVE  /\ cache.from = reader[r].origin
               /\ reader[r].at < cache.seen + TTL + Timeout
    <3>1. Fresh(cache) /\ cache.origin = reader[r].origin /\ cache.at <= reader[r].at
          /\ reader[r].at - cache.at < TTL
      BY <2>6 DEF C!Hit, HealthInv
    <3>2. QED
      BY <1>2, <3>1 DEF Fresh
  <2>7. C!HealthIsRecent'
    BY <1>1, <2>1, <2>2, <2>6 DEF HealthInv, HealthType, C!HealthIsRecent
  <2>8. QED
    BY <1>1, <1>2, <2>1, <2>3, <2>4, <2>5, <2>7 DEF HealthInv, Fresh, C!NoCache
<1>5. ASSUME NEW r \in Readers, C!Store(r) PROVE HealthInv'
  <2>1. UNCHANGED <<now, flight, stalled>> /\ reader[r].pc = "storing"
    BY <1>5 DEF C!Store
  <2>2. cache' = cache \/ cache' = [reader[r] EXCEPT !.pc = "kept"]
    BY <1>5 DEF C!Store
  <2>3. reader' = [reader EXCEPT ![r].pc = "told"]
    BY <1>5 DEF C!Store
  <2>4. ~stalled => Fresh(reader[r])
    BY <2>1 DEF HealthInv
  <2>5. ~stalled' => /\ \A p \in Origins : FlightIsYoung(p)'
                     /\ cache' # C!NoCache => Fresh(cache)'
    BY <1>1, <2>1, <2>2, <2>4
       DEF HealthInv, HealthType, FlightIsYoung, Fresh, C!NoFlight, C!NoCache
  <2>6. \A q \in Readers : /\ reader'[q].at = reader[q].at
                           /\ reader'[q].pc = "storing" => reader'[q] = reader[q]
    BY <1>1, <2>3 DEF HealthType
  <2>7. ~stalled => reader[r].from = reader[r].origin
                    /\ reader[r].at < reader[r].seen + TTL + Timeout
    BY <1>2, <2>4 DEF Fresh
  <2>8. C!HealthIsRecent'
    BY <1>1, <2>1, <2>3, <2>7 DEF HealthInv, HealthType, C!HealthIsRecent
  <2>9. QED
    BY <1>1, <1>2, <2>1, <2>5, <2>6, <2>8 DEF HealthInv, Fresh, C!NoCache
<1>6. ASSUME NEW o \in Origins, C!GatewayAnswers(o) PROVE HealthInv'
  <2>1. UNCHANGED <<now, cache, reader, stalled>>
        /\ flight' = [flight EXCEPT ![o].seen = now]
    BY <1>6 DEF C!GatewayAnswers
  <2>2. flight[o] # C!NoFlight /\ flight[o].seen = Never
    BY <1>6 DEF C!GatewayAnswers
  <2>3. ~stalled => flight[o].began <= now
    BY <2>2 DEF HealthInv, FlightIsYoung
  <2>4. QED
    BY <1>1, <1>2, <2>1, <2>2, <2>3
       DEF HealthInv, HealthType, FlightIsYoung, Fresh, C!NoCache, C!NoFlight,
           C!HealthIsRecent
<1>7. ASSUME NEW o \in Origins, C!Settle(o) PROVE HealthInv'
  <2>1. /\ UNCHANGED <<now, cache, stalled>> /\ flight[o] # C!NoFlight
        /\ flight' = [flight EXCEPT ![o] = C!NoFlight]
    BY <1>7 DEF C!Settle
  <2>2. PICK seen \in {Never, flight[o].seen} :
           reader' = [r \in Readers |->
                        IF r \notin C!Waiting(o) THEN reader[r]
                        ELSE [reader[r] EXCEPT !.pc = IF seen = Never THEN "told" ELSE "storing",
                                               !.from = flight[o].origin, !.seen = seen]]
    BY <1>7 DEF C!Settle
  <2>3. ASSUME NEW q \in Readers
        PROVE  /\ reader'[q].at = reader[q].at /\ reader'[q].origin = reader[q].origin
               /\ \/ reader'[q] = reader[q]
                  \/ /\ reader[q].origin = o
                     /\ reader'[q].from = flight[o].origin /\ reader'[q].seen = seen
                     /\ reader'[q].pc = IF seen = Never THEN "told" ELSE "storing"
    BY <1>1, <2>2 DEF HealthType, C!Waiting, C!Slot
  <2>4. ~stalled' => /\ \A p \in Origins : FlightIsYoung(p)'
                     /\ cache' # C!NoCache => Fresh(cache)'
    <3>1. \A p \in Origins : flight'[p] = flight[p] \/ flight'[p] = C!NoFlight
      BY <1>1, <2>1 DEF HealthType
    <3>2. QED
      BY <2>1, <3>1 DEF HealthInv, FlightIsYoung, Fresh, C!NoFlight, C!NoCache
  <2>5. ASSUME ~stalled, seen # Never
        PROVE  /\ flight[o].origin = o /\ seen \in Nat
               /\ now <= seen + Timeout
    <3>1. seen = flight[o].seen /\ seen \in Nat
      BY <1>2, <2>5 DEF Times
    <3>2. FlightIsYoung(o)
      BY <2>5 DEF HealthInv
    <3>3. QED
      BY <1>2, <2>1, <2>5, <3>1, <3>2 DEF FlightIsYoung
  <2>6. ASSUME ~stalled, NEW q \in Readers, reader'[q].pc = "storing"
        PROVE  Fresh(reader[q])'
    <3>1. CASE reader'[q] = reader[q]
      BY <2>6, <3>1 DEF HealthInv, Fresh
    <3>2. CASE reader'[q] # reader[q]
      <4>1. seen # Never
        BY <2>3, <2>6, <3>2
      <4>2. reader[q].at <= seen + Timeout
        BY <1>2, <2>5, <2>6, <4>1
      <4>3. QED
        BY <2>3, <2>5, <2>6, <3>2, <4>1, <4>2 DEF Fresh
    <3>3. QED
      BY <3>1, <3>2
  <2>7. C!HealthIsRecent'
    BY <2>1, <2>3 DEF HealthInv, C!HealthIsRecent
  <2>8. QED
    BY <1>1, <1>2, <2>1, <2>3, <2>4, <2>6, <2>7 DEF HealthInv
<1>8. CASE C!Evict
  <2>1. UNCHANGED <<now, cache, stalled>>
    BY <1>8 DEF C!Evict
  <2>2. \A p \in Origins : flight'[p] = C!NoFlight
    BY <1>8 DEF C!Evict
  <2>3. \A q \in Readers : reader'[q].pc = "off" /\ reader'[q].at = 0
    BY <1>8 DEF C!Evict, C!Off
  <2>4. QED
    BY <1>1, <1>2, <2>1, <2>2, <2>3
       DEF HealthInv, FlightIsYoung, Fresh, C!NoCache, C!NoFlight, C!HealthIsRecent
<1>9. CASE C!Tick
  <2>1. now' = now + 1 /\ UNCHANGED <<cache, flight, reader>>
    BY <1>9 DEF C!Tick
  <2>2. \/ stalled' = TRUE
        \/ /\ stalled' = stalled
           /\ stalled \/ \A o \in Origins : flight[o] # C!NoFlight
                                               => ~(now - flight[o].began >= Timeout)
    BY <1>9 DEF C!Tick
  <2>3. QED
    BY <1>1, <1>2, <2>1, <2>2
       DEF HealthInv, HealthType, FlightIsYoung, Fresh, C!NoCache, C!NoFlight,
           C!HealthIsRecent
<1>10. QED
    BY <1>3, <1>4, <1>5, <1>6, <1>7, <1>8, <1>9 DEF C!Next

\* What a dashboard is told of its connector its own gateway said, no longer than
\* the TTL and one request ago, unless a body stalled, for any gateways and any
\* readers (connector-health-store.ts:81-124).
THEOREM HealthIsRecentHolds == WorkerSpec => []HealthIsRecent
<1> DEFINE Inv == which = "health" => HealthInv
<1>1. WorkerInit => Inv
    BY HealthInit DEF WorkerInit
<1>2. Inv /\ [WorkerNext]_all => Inv'
  <2> SUFFICES ASSUME HealthInv, [WorkerNext]_all, which = "health" PROVE HealthInv'
      BY DEF WorkerNext, all
  <2>1. CASE C!Next
      BY <2>1, HealthStep
  <2>2. CASE UNCHANGED C!vars
      BY <2>2 DEF C!vars, HealthInv, HealthType, FlightIsYoung, Fresh, C!NoCache,
                  C!NoFlight, C!HealthIsRecent
  <2>3. QED
      BY <2>1, <2>2 DEF WorkerNext, all, shared, ofHealth, C!vars
<1>3. Inv => HealthIsRecent
    BY DEF HealthInv, HealthIsRecent
<1>4. QED
    BY <1>1, <1>2, <1>3, PTL DEF WorkerSpec

----------------------------------------------------------------------------
(* The store of agent runs.                                                *)

\* What the proofs of the run store assume, the worker's constants have.
LEMMA RunsAssumption == RP!RunStoreAssumption
BY RunStoreAssumption DEF RP!RunStoreAssumption

\* A step of the worker's run store is one of the store that the proofs are about.
LEMMA SameStore ==
    /\ R!Init <=> RP!Init
    /\ [R!Next]_(R!vars) => [RP!Next]_(RP!vars)
<1>1. R!Init <=> RP!Init
    BY DEF R!Init, RP!Init
<1>2. [R!Next]_(R!vars) => [RP!Next]_(RP!vars)
    BY Zenon
       DEF R!vars, RP!vars, R!Next, RP!Next, R!Entries, RP!Entries,
           R!putRun, RP!putRun, R!Put, RP!Put, R!Written, RP!Written,
           R!CutAll, RP!CutAll, R!CutTerms, RP!CutTerms, R!IsTerm, RP!IsTerm,
           R!KeepLast, RP!KeepLast, R!At, RP!At, R!Cardinality, RP!Cardinality,
           R!IsFiniteSet, RP!IsFiniteSet, R!putItemUrls, RP!putItemUrls,
           R!Attach, RP!Attach, R!clearRuns, RP!clearRuns, R!Lapse, RP!Lapse
<1>3. QED
    BY <1>1, <1>2

\* The promise about evictions is the same of both.
LEMMA SamePromise ==
    ASSUME NEW e
    PROVE  /\ R!putRun(e) => RP!putRun(e)
           /\ RP!EvictsOnly(e) => R!EvictsOnly(e)
<1>1. R!putRun(e) => RP!putRun(e)
    BY Zenon
       DEF R!putRun, RP!putRun, R!Put, RP!Put, R!Written, RP!Written,
           R!CutAll, RP!CutAll, R!CutTerms, RP!CutTerms, R!IsTerm, RP!IsTerm,
           R!KeepLast, RP!KeepLast, R!At, RP!At, R!Cardinality, RP!Cardinality,
           R!IsFiniteSet, RP!IsFiniteSet
<1>2. RP!EvictsOnly(e) => R!EvictsOnly(e)
    BY Zenon
       DEF R!EvictsOnly, RP!EvictsOnly, R!IsTerm, RP!IsTerm, R!Cardinality,
           RP!Cardinality, R!IsFiniteSet, RP!IsFiniteSet, R!ToSet, RP!ToSet
<1>3. QED
    BY <1>1, <1>2

\* A write costs its place at most the oldest run of a full budget, and the
\* oldest term if it is the terms', for any runs, questions and budgets
\* (agent-run-store.ts:316-319).
THEOREM RunsEvictInOrderHolds == WorkerSpec => RunsEvictInOrder
<1> DEFINE Inv == which = "runs" => RP!TypeOK /\ RP!StoreShape
<1>1. RP!RunStoreAssumption
    BY RunsAssumption
<1>2. WorkerInit => Inv
    BY <1>1, SameStore, RP!ShapeInit DEF WorkerInit
<1>3. Inv /\ [WorkerNext]_all => Inv'
  <2> SUFFICES ASSUME RP!TypeOK, RP!StoreShape, [WorkerNext]_all, which = "runs"
               PROVE  RP!TypeOK' /\ RP!StoreShape'
      BY DEF WorkerNext, all
  <2>1. [R!Next]_(R!vars)
      BY DEF WorkerNext, all, shared, R!vars
  <2>2. QED
      BY <1>1, <2>1, SameStore, RP!TypeStep, RP!ShapeStep
<1>4. Inv /\ [WorkerNext]_all
         => [which = "runs" => \A e \in R!Entries : R!putRun(e) => R!EvictsOnly(e)]_all
  <2> SUFFICES ASSUME RP!TypeOK, RP!StoreShape, NEW e \in R!Entries, R!putRun(e)
               PROVE  R!EvictsOnly(e)
      OBVIOUS
  <2>1. e \in RP!Entries
      BY DEF R!Entries, RP!Entries
  <2>2. RP!putRun(e)
      BY SamePromise
  <2>3. RP!EvictsOnly(e)
      BY <1>1, <2>1, <2>2, RP!PutEvictsOnly
  <2>4. QED
      BY <2>3, SamePromise
<1>5. QED
    BY <1>2, <1>3, <1>4, PTL DEF WorkerSpec, RunsEvictInOrder

----------------------------------------------------------------------------
(* Research briefs.                                                        *)

Phases == {"feeding", "running", "done", "failed", "saved"}
BriefEntries == [run : Briefs, phase : Phases]
FrameStates ==
    [pc : {"off", "over", "creating", "storing", "feeding", "starting", "logging",
           "forgetting", "reading", "writing", "asking", "waiting"},
     conn : Nat, gen : Nat, out : {"running", "done", "failed"}]
Feeds == [todo : SUBSET (Pages \X {"tab", "passages"}), read : SUBSET Passages,
          fed : SUBSET Passages, sent : SUBSET Passages, accepted : BOOLEAN]

BriefsType ==
    /\ store \in Seq(BriefEntries)
    /\ log \in [Briefs -> {"nothing", "unsaved", "saved"}]
    /\ passage \in [Passages -> {"new", "held", "forgotten", "dropped"}]
    /\ frame \in [B!Frames -> FrameStates]
    /\ feed \in [Briefs -> Feeds]
    /\ save \in [Briefs -> {"off", "posting", "noting", "putting"}]
    /\ pairing \in Nat /\ changes \in Nat /\ generation \in Nat
    /\ changing \in {"no", "bumping", "clearing"}
    /\ owner \in [Briefs -> Nat] /\ recorded \in SUBSET Passages
    /\ left \in [Briefs -> {"no", "sent", "cut"}]
    /\ unclear \in BOOLEAN /\ straddling \in SUBSET Briefs

\* What is in the store after a write was in it before, or is what was written.
LEMMA BriefAt ==
    ASSUME NEW s \in Seq(BriefEntries), NEW I \in SUBSET DOMAIN s
    PROVE  /\ B!At(s, I) \in Seq(BriefEntries)
           /\ B!ToSet(B!At(s, I)) = {s[i] : i \in I}
<1>1. RP!At(s, I) \in Seq(BriefEntries) /\ RP!ToSet(RP!At(s, I)) = {s[i] : i \in I}
    BY RP!AtProperties, RunsAssumption
<1>2. B!At(s, I) = RP!At(s, I)
    BY Zenon DEF B!At, RP!At, B!Cardinality, RP!Cardinality, B!IsFiniteSet, RP!IsFiniteSet
<1>3. B!ToSet(B!At(s, I)) = RP!ToSet(RP!At(s, I))
    BY <1>2, Zenon DEF B!ToSet, RP!ToSet
<1>4. QED
    BY <1>1, <1>2, <1>3

\* What a brief is put into, or taken out of, leaves the other entries alone.
LEMMA BriefPut ==
    ASSUME BriefsType, NEW r \in Briefs, NEW phase \in Phases
    PROVE  /\ B!Without(r) \in Seq(BriefEntries)
           /\ B!ToSet(B!Without(r)) \subseteq B!Stored
           /\ \A n \in 0 .. Len(B!Without(r)) :
                 /\ B!PutAt(r, phase, n) \in Seq(BriefEntries)
                 /\ \A e \in B!ToSet(B!PutAt(r, phase, n)) :
                       e = [run |-> r, phase |-> phase] \/ e \in B!Stored
<1> DEFINE new == [run |-> r, phase |-> phase]
           s == B!Without(r)
<1>1. store \in Seq(BriefEntries) /\ new \in BriefEntries
    BY DEF BriefsType, BriefEntries
<1>2. /\ s \in Seq(BriefEntries)
      /\ B!ToSet(s) = {store[i] : i \in {i \in DOMAIN store : store[i].run # r}}
    BY <1>1, BriefAt DEF B!Without
<1>3. B!ToSet(s) \subseteq B!Stored
    BY <1>2 DEF B!Stored, B!ToSet
<1>4. /\ Len(s) \in Nat /\ B!ToSet(s) \subseteq BriefEntries
      /\ \A i \in 1 .. Len(s) : s[i] \in B!ToSet(s)
    BY <1>2, LenProperties, ElementOfSeq DEF B!ToSet
<1>5. ASSUME NEW n \in 0 .. Len(s)
      PROVE  /\ B!PutAt(r, phase, n) \in Seq(BriefEntries)
             /\ \A e \in B!ToSet(B!PutAt(r, phase, n)) : e = new \/ e \in B!Stored
  <2> DEFINE every == B!ToSet(s) \union {new}
             k == Len(s) + 1 - n
             older == SubSeq(s, 1, k - 1)
             newer == SubSeq(s, k, Len(s))
             q == (older \o <<new>>) \o newer
             J == {i \in DOMAIN q : i \in DOMAIN q =>
                                    B!Cardinality({j \in DOMAIN q : j > i}) < MaxBriefs}
  <2>1. k \in 1 .. Len(s) + 1 /\ \A i \in 1 .. Len(s) : s[i] \in every
    BY <1>4
  <2> HIDE DEF k, every
  <2>2. older \in Seq(every) /\ newer \in Seq(every)
    <3>1. \A i \in 1 .. k - 1 : s[i] \in every
      BY <1>4, <2>1
    <3>2. \A i \in k .. Len(s) : s[i] \in every
      BY <1>4, <2>1
    <3>3. k \in Int /\ k - 1 \in Int /\ Len(s) \in Int
      BY <1>4, <2>1
    <3> HIDE DEF s
    <3>4. QED
      BY <3>1, <3>2, <3>3, SubSeqProperties
  <2>3. <<new>> \in Seq(every)
    BY DEF every
  <2> HIDE DEF older, newer
  <2>4. q \in Seq(every)
    BY <2>2, <2>3, ConcatProperties
  <2>5. B!PutAt(r, phase, n) = B!At(q, J)
    BY Zenon DEF B!PutAt, B!KeepLast, B!InsertAt, q, k, older, newer
  <2> HIDE DEF q
  <2>6. q \in Seq(BriefEntries) /\ \A i \in DOMAIN q : q[i] \in every
    <3>1. every \subseteq BriefEntries
      BY <1>1, <1>4 DEF every
    <3>2. QED
      BY <2>4, <3>1, ElementOfSeq, LenProperties
  <2>7. /\ B!At(q, J) \in Seq(BriefEntries)
        /\ B!ToSet(B!At(q, J)) = {q[i] : i \in J}
    BY <2>6, BriefAt
  <2>8. QED
    BY <1>3, <2>5, <2>6, <2>7 DEF every
<1>6. QED
    BY <1>2, <1>3, <1>5

\* The frame of a run's start call, and of its loop.
LEMMA TwoFrames ==
    ASSUME NEW r \in Briefs
    PROVE  /\ <<r, "start">> \in B!Frames /\ <<r, "loop">> \in B!Frames
           /\ <<r, "start">>[1] = r /\ <<r, "start">>[2] = "start"
           /\ <<r, "loop">>[1] = r /\ <<r, "loop">>[2] = "loop"
BY DEF B!Frames

\* Every frame is of a run, and of its start call or its loop.
LEMMA FrameIsOfARun ==
    ASSUME NEW f \in B!Frames
    PROVE  f[1] \in Briefs /\ f[2] \in {"start", "loop"} /\ f = <<f[1], f[2]>>
BY DEF B!Frames

\* What a frame is before and after its work.
LEMMA FrameRecords ==
    /\ B!Off \in FrameStates /\ B!Off.pc = "off"
    /\ B!Over \in FrameStates /\ B!Over.pc = "over"
    /\ \A f : B!Ended(f) \in FrameStates
              /\ B!Ended(f).pc = IF f[2] = "loop" THEN "off" ELSE "over"
<1>1. /\ B!Off \in FrameStates /\ B!Off.pc = "off"
      /\ B!Over \in FrameStates /\ B!Over.pc = "over"
    BY DEF B!Off, B!Over, FrameStates
<1>2. QED
    BY <1>1 DEF B!Ended, B!IsLoop

\* A loop is given only to a run that has none, and it waits.
LEMMA WithLoopProperties ==
    ASSUME BriefsType, NEW fs \in [B!Frames -> FrameStates], NEW r \in Briefs
    PROVE  /\ B!WithLoop(fs, r) \in [B!Frames -> FrameStates]
           /\ \A g \in B!Frames :
                 \/ B!WithLoop(fs, r)[g] = fs[g]
                 \/ g = <<r, "loop">> /\ B!WithLoop(fs, r)[g].pc = "waiting"
<1> DEFINE waiting == [B!Off EXCEPT !.pc = "waiting", !.gen = generation]
<1>1. waiting \in FrameStates /\ waiting.pc = "waiting"
    BY DEF BriefsType, B!Off, FrameStates
<1>2. B!WithLoop(fs, r) = fs \/ B!WithLoop(fs, r) = [fs EXCEPT ![<<r, "loop">>] = waiting]
    BY DEF B!WithLoop
<1> HIDE DEF waiting
<1>3. QED
    BY <1>1, <1>2, TwoFrames

\* The end of a frame and its moves.
LEMMA EndProperties ==
    ASSUME BriefsType, NEW f \in B!Frames, B!End(f)
    PROVE  /\ frame' \in [B!Frames -> FrameStates]
           /\ frame'[f].pc = IF f[2] = "loop" THEN "off" ELSE "over"
           /\ \A g \in B!Frames \ {f} : frame'[g] = frame[g]
BY FrameRecords DEF B!End, BriefsType

\* A call that moves on keeps what it carries.
LEMMA GoProperties ==
    ASSUME BriefsType, NEW f \in B!Frames,
           NEW pc \in {"storing", "feeding", "logging", "reading", "forgetting", "writing"},
           B!Go(f, pc)
    PROVE  /\ frame' \in [B!Frames -> FrameStates]
           /\ frame'[f].pc = pc /\ frame'[f].out = frame[f].out
           /\ frame'[f].conn = frame[f].conn
           /\ \A g \in B!Frames \ {f} : frame'[g] = frame[g]
BY DEF B!Go, BriefsType, FrameStates

\* A call that moves on with an outcome.
LEMMA GoForProperties ==
    ASSUME BriefsType, NEW f \in B!Frames, NEW pc \in {"starting", "reading"},
           NEW out \in {"running", "done", "failed"}, B!GoFor(f, pc, out)
    PROVE  /\ frame' \in [B!Frames -> FrameStates]
           /\ frame'[f].pc = pc /\ frame'[f].out = out
           /\ \A g \in B!Frames \ {f} : frame'[g] = frame[g]
<1> DEFINE new == [frame[f] EXCEPT !.pc = pc, !.out = out, !.conn = 0]
<1>1. frame \in [B!Frames -> FrameStates] /\ frame[f] \in FrameStates
    BY DEF BriefsType
<1>2. new \in FrameStates /\ new.pc = pc /\ new.out = out
    BY <1>1 DEF FrameStates
<1>4. frame' = [frame EXCEPT ![f] = new]
    BY <1>1 DEF B!GoFor
<1> HIDE DEF new
<1>5. QED
    BY <1>1, <1>2, <1>4

\* A frame whose phase is in place has come to its end, or its run, which is
\* running, is asked about and has a loop.
LEMMA MarkedProperties ==
    ASSUME BriefsType, NEW f \in B!Frames, B!Marked(f)
    PROVE  /\ frame' \in [B!Frames -> FrameStates]
           /\ \A g \in B!Frames :
                 \/ frame'[g] = frame[g]
                 \/ g = f /\ frame'[g].pc = IF f[2] = "loop" THEN "off" ELSE "over"
                 \/ /\ g[1] = f[1] /\ frame[f].out = "running"
                    /\ frame'[g].pc \in {"asking", "waiting"}
                    /\ g[2] = "start" => g = f
<1>1. CASE frame[f].out # "running"
    BY <1>1, EndProperties DEF B!Marked
<1>2. CASE frame[f].out = "running"
  <2> DEFINE fs == [frame EXCEPT ![f].pc = "asking", ![f].conn = owner[f[1]]]
  <2>1. frame' = B!WithLoop(fs, f[1])
    BY <1>2 DEF B!Marked
  <2> DEFINE asks == [frame[f] EXCEPT !.pc = "asking", !.conn = owner[f[1]]]
  <2>a. frame \in [B!Frames -> FrameStates] /\ frame[f] \in FrameStates
        /\ owner[f[1]] \in Nat
    BY FrameIsOfARun DEF BriefsType
  <2>b. asks \in FrameStates /\ asks.pc = "asking"
    BY <2>a DEF FrameStates
  <2>d. fs = [frame EXCEPT ![f] = asks]
    BY <2>a
  <2> HIDE DEF asks
  <2>2. /\ fs \in [B!Frames -> FrameStates] /\ fs[f].pc = "asking"
        /\ \A g \in B!Frames \ {f} : fs[g] = frame[g]
    BY <2>a, <2>b, <2>d
  <2> HIDE DEF fs
  <2>3. f[1] \in Briefs
    BY FrameIsOfARun
  <2>4. /\ frame' \in [B!Frames -> FrameStates]
        /\ \A g \in B!Frames : \/ frame'[g] = fs[g]
                               \/ g = <<f[1], "loop">> /\ frame'[g].pc = "waiting"
    BY <2>1, <2>2, <2>3, WithLoopProperties
  <2>5. <<f[1], "loop">>[1] = f[1] /\ <<f[1], "loop">>[2] = "loop"
    OBVIOUS
  <2>6. QED
    BY <1>2, <2>2, <2>4, <2>5
<1>3. QED
    BY <1>1, <1>2

\* A poll ends with the start call over and its loop in place, with the loop
\* over or waiting again, or with an outcome, which only the gateway that has the
\* run gives, or an error.
LEMMA PolledProperties ==
    ASSUME BriefsType, NEW f \in B!Frames, B!Polled(f)
    PROVE  /\ frame' \in [B!Frames -> FrameStates]
           /\ \A g \in B!Frames :
                 \/ frame'[g] = frame[g]
                 \/ g = f /\ frame'[g].pc = IF f[2] = "loop" THEN "off" ELSE "over"
                 \/ g = f /\ frame'[g].pc = "reading"
                 \/ g = <<f[1], "loop">> /\ frame'[g].pc = "waiting"
<1>1. frame \in [B!Frames -> FrameStates] /\ f[1] \in Briefs
    BY FrameIsOfARun DEF BriefsType
<1>2. CASE ~B!IsLoop(f) /\ frame' = B!WithLoop([frame EXCEPT ![f] = B!Over], f[1])
  <2> DEFINE fs == [frame EXCEPT ![f] = B!Over]
  <2>1. /\ fs \in [B!Frames -> FrameStates] /\ fs[f].pc = "over"
        /\ \A g \in B!Frames \ {f} : fs[g] = frame[g]
    BY <1>1, FrameRecords
  <2>2. frame' = B!WithLoop(fs, f[1])
    BY <1>2
  <2> HIDE DEF fs
  <2>3. /\ frame' \in [B!Frames -> FrameStates]
        /\ \A g \in B!Frames : \/ frame'[g] = fs[g]
                               \/ g = <<f[1], "loop">> /\ frame'[g].pc = "waiting"
    BY <1>1, <2>1, <2>2, WithLoopProperties
  <2>4. f[2] # "loop"
    BY <1>2 DEF B!IsLoop
  <2>5. QED
    BY <2>1, <2>3, <2>4
<1>3. CASE B!IsLoop(f) /\ B!End(f)
    BY <1>3, EndProperties
<1>4. CASE B!IsLoop(f) /\ frame' = [frame EXCEPT ![f].pc = "waiting", ![f].conn = 0]
  <2> DEFINE new == [frame[f] EXCEPT !.pc = "waiting", !.conn = 0]
  <2>1. new \in FrameStates /\ new.pc = "waiting"
    BY <1>1 DEF FrameStates
  <2>2. frame' = [frame EXCEPT ![f] = new]
    BY <1>1, <1>4
  <2> HIDE DEF new
  <2>3. f = <<f[1], "loop">>
    BY <1>4, FrameIsOfARun DEF B!IsLoop
  <2>4. QED
    BY <1>1, <2>1, <2>2, <2>3
<1>5. CASE \E out \in {"done", "failed"} : B!GoFor(f, "reading", out)
    BY <1>5, GoForProperties
<1>6. QED
    BY <1>2, <1>3, <1>4, <1>5 DEF B!Polled

\* A loop's timer ends the loop or has it ask.
LEMMA TickProperties ==
    ASSUME BriefsType, NEW f \in B!Frames, B!Tick(f)
    PROVE  /\ frame' \in [B!Frames -> FrameStates]
           /\ f[2] = "loop" /\ frame[f].pc = "waiting"
           /\ frame'[f].pc \in {"off", "asking"}
           /\ \A g \in B!Frames \ {f} : frame'[g] = frame[g]
<1>1. frame \in [B!Frames -> FrameStates] /\ pairing \in Nat
    BY DEF BriefsType
<1>2. f[2] = "loop" /\ frame[f].pc = "waiting"
    BY DEF B!Tick, B!IsLoop
<1>3. CASE B!End(f)
    BY <1>2, <1>3, EndProperties
<1>4. CASE frame' = [frame EXCEPT ![f].pc = "asking", ![f].conn = pairing]
  <2> DEFINE new == [frame[f] EXCEPT !.pc = "asking", !.conn = pairing]
  <2>1. new \in FrameStates /\ new.pc = "asking"
    BY <1>1 DEF FrameStates
  <2>2. frame' = [frame EXCEPT ![f] = new]
    BY <1>1, <1>4
  <2> HIDE DEF new
  <2>3. QED
    BY <1>1, <1>2, <2>1, <2>2
<1>5. QED
    BY <1>3, <1>4 DEF B!Tick

\* A source that is fed adds what it stitched together, or nothing, to what is
\* sent and to what is to be forgotten.
LEMMA FeedProperties ==
    ASSUME BriefsType, NEW r \in Briefs, B!Feed(r)
    PROVE  /\ feed' \in [Briefs -> Feeds]
           /\ \A q \in Briefs \ {r} : feed'[q] = feed[q]
           /\ feed[r].fed \subseteq feed[r].sent => feed'[r].fed \subseteq feed'[r].sent
<1>1. feed \in [Briefs -> Feeds] /\ feed[r] \in Feeds
    BY DEF BriefsType
<1>2. PICK s \in feed[r].todo :
        LET rest == [feed[r] EXCEPT !.todo = @ \ {s}]
            whole == feed[r].read \intersect B!On(s[1])
        IN  \/ feed' = [feed EXCEPT ![r] = rest]
            \/ feed' = [feed EXCEPT ![r] = [rest EXCEPT !.accepted = TRUE]]
            \/ /\ s[2] = "passages"
               /\ feed' = [feed EXCEPT ![r] = [rest EXCEPT !.accepted = TRUE,
                                                           !.sent = @ \union whole,
                                                           !.fed = @ \union B!FedBy(r, s[1])]]
            \/ feed' = [feed EXCEPT ![r].todo = {}]
    BY DEF B!Feed
<1> DEFINE rest == [feed[r] EXCEPT !.todo = @ \ {s}]
           part == feed[r].read \intersect B!On(s[1])
           taken == [rest EXCEPT !.accepted = TRUE]
           whole == [rest EXCEPT !.accepted = TRUE, !.sent = @ \union part,
                                 !.fed = @ \union part]
           full == [feed[r] EXCEPT !.todo = {}]
<1>3. /\ rest \in Feeds /\ rest.fed = feed[r].fed /\ rest.sent = feed[r].sent
      /\ rest.read = feed[r].read
    BY <1>1 DEF Feeds
<1> HIDE DEF rest
<1>4. taken \in Feeds /\ taken.fed = feed[r].fed /\ taken.sent = feed[r].sent
    BY <1>3 DEF Feeds
<1>5. part \in SUBSET Passages
    BY <1>1 DEF Feeds
<1> HIDE DEF part
<1>6. whole \in Feeds /\ whole.fed = feed[r].fed \union part /\ whole.sent = feed[r].sent \union part
    BY <1>3, <1>5 DEF Feeds
<1>7. full \in Feeds /\ full.fed = feed[r].fed /\ full.sent = feed[r].sent
    BY <1>1 DEF Feeds
<1>8. [feed EXCEPT ![r].todo = {}] = [feed EXCEPT ![r] = full]
    BY <1>1
<1>9. \/ feed' = [feed EXCEPT ![r] = rest]
      \/ feed' = [feed EXCEPT ![r] = taken]
      \/ feed' = [feed EXCEPT ![r] = whole]
      \/ feed' = [feed EXCEPT ![r] = full]
    BY <1>2, <1>8 DEF rest, part, B!FedBy
<1> HIDE DEF taken, whole, full
<1>10. PICK x \in Feeds : /\ feed' = [feed EXCEPT ![r] = x]
                          /\ feed[r].fed \subseteq feed[r].sent => x.fed \subseteq x.sent
    BY <1>3, <1>4, <1>6, <1>7, <1>9
<1>11. QED
    BY <1>1, <1>10

\* The steps of research briefs, one by one.
LEMMA BriefSteps ==
    ASSUME B!Next
    PROVE  \/ \E r \in Briefs :
                \/ \E tabs, pages \in SUBSET Pages : B!Start(r, tabs, pages)
                \/ B!Created(r) \/ B!StoreRun(r) \/ B!Feed(r) \/ B!Fed(r)
                \/ B!Accepted(r) \/ B!AppendLog(r) \/ B!Forget(r)
                \/ B!Save(r) \/ B!Posted(r) \/ B!NoteSaved(r) \/ B!PutSaved(r)
                \/ B!Resume(r) \/ B!Lapse(r)
           \/ \E f \in B!Frames :
                B!ReadRun(f) \/ B!WriteRun(f) \/ B!Polled(f) \/ B!Tick(f) \/ B!CallFails(f)
           \/ \E p \in Passages : B!Collect(p)
           \/ \E ps \in SUBSET Passages : B!Drop(ps)
           \/ B!ChangePairing \/ B!Bump \/ B!ClearRuns \/ B!Evict
BY Zenon DEF B!Next, B!StartCall, B!SaveCall, B!Settling

\* A run is put.
LEMMA PutIsTyped ==
    ASSUME BriefsType, NEW r \in Briefs, NEW phase \in Phases, B!PutBack(r, phase)
    PROVE  store' \in Seq(BriefEntries)
BY BriefPut DEF B!PutBack

\* A put as the newest is one of those.
LEMMA PutIsNew ==
    ASSUME BriefsType, NEW r \in Briefs, NEW phase \in Phases, store' = B!PutAt(r, phase, 0)
    PROVE  B!PutBack(r, phase)
<1>1. Len(B!Without(r)) \in Nat
    BY BriefPut, LenProperties
<1>2. QED
    BY <1>1 DEF B!PutBack

\* No step leaves the types.
LEMMA BriefsTypeStep ==
    ASSUME BriefsType, B!Next
    PROVE  BriefsType'
<1> USE DEF B!stores, B!calls, B!change, B!history
<1>1. ASSUME NEW r \in Briefs, NEW tabs \in SUBSET Pages, NEW pages \in SUBSET Pages,
             B!Start(r, tabs, pages)
      PROVE  BriefsType'
  <2>1. [B!Off EXCEPT !.pc = "creating", !.conn = pairing] \in FrameStates
    BY DEF BriefsType, B!Off, FrameStates
  <2>2. frame' \in [B!Frames -> FrameStates]
    BY <1>1, <2>1, TwoFrames DEF B!Start, BriefsType
  <2>3. [B!NoFeed EXCEPT !.todo = (tabs \X {"tab"}) \union (pages \X {"passages"}),
                         !.read = {p \in B!Held : PageOf[p] \in pages}] \in Feeds
    <3>1. (tabs \X {"tab"}) \union (pages \X {"passages"}) \in SUBSET (Pages \X {"tab", "passages"})
      OBVIOUS
    <3>2. {p \in B!Held : PageOf[p] \in pages} \in SUBSET Passages
      BY DEF B!Held
    <3>3. QED
      BY <3>1, <3>2 DEF B!NoFeed, Feeds
  <2>4. feed' \in [Briefs -> Feeds]
    BY <1>1, <2>3 DEF B!Start, BriefsType
  <2>5. QED
    BY <1>1, <2>2, <2>4 DEF B!Start, BriefsType
<1>a. B!NoFeed \in Feeds
    BY DEF B!NoFeed, Feeds
<1>2. ASSUME NEW r \in Briefs, B!Created(r) PROVE BriefsType'
  <2>1. frame' \in [B!Frames -> FrameStates]
    BY <1>2, TwoFrames, EndProperties, GoProperties DEF B!Created
  <2>2. feed' \in [Briefs -> Feeds]
    BY <1>2, <1>a DEF B!Created, BriefsType
  <2>3. owner' \in [Briefs -> Nat]
    BY <1>2, TwoFrames DEF B!Created, BriefsType, FrameStates
  <2>4. QED
    BY <1>2, <2>1, <2>2, <2>3 DEF B!Created, BriefsType
<1>3. ASSUME NEW r \in Briefs, B!StoreRun(r) PROVE BriefsType'
  <2>1. frame' \in [B!Frames -> FrameStates]
    BY <1>3, TwoFrames, GoProperties DEF B!StoreRun
  <2>2. store' \in Seq(BriefEntries)
    BY <1>3, PutIsNew, PutIsTyped DEF B!StoreRun, Phases
  <2>3. QED
    BY <1>3, <2>1, <2>2 DEF B!StoreRun, BriefsType
<1>4. ASSUME NEW r \in Briefs, B!Feed(r) PROVE BriefsType'
  <2>1. feed' \in [Briefs -> Feeds]
    BY <1>4, FeedProperties
  <2>2. QED
    BY <1>4, <2>1 DEF B!Feed, BriefsType
<1>5. ASSUME NEW r \in Briefs, B!Fed(r) PROVE BriefsType'
  <2>1. frame' \in [B!Frames -> FrameStates]
    BY <1>5, TwoFrames, GoForProperties DEF B!Fed
  <2>2. [B!NoFeed EXCEPT !.fed = feed[r].fed, !.sent = feed[r].sent] \in Feeds
    BY DEF BriefsType, B!NoFeed, Feeds
  <2>3. feed' \in [Briefs -> Feeds]
    BY <1>5, <2>2 DEF B!Fed, BriefsType
  <2>4. QED
    BY <1>5, <2>1, <2>3 DEF B!Fed, BriefsType
<1>6. ASSUME NEW r \in Briefs, B!Accepted(r) PROVE BriefsType'
  <2>1. frame' \in [B!Frames -> FrameStates]
    BY <1>6, TwoFrames, GoProperties, GoForProperties DEF B!Accepted
  <2>2. feed' \in [Briefs -> Feeds]
    BY <1>6, <1>a DEF B!Accepted, BriefsType
  <2>3. left' \in [Briefs -> {"no", "sent", "cut"}]
    BY <1>6 DEF B!Accepted, BriefsType
  <2>4. QED
    BY <1>6, <2>1, <2>2, <2>3 DEF B!Accepted, BriefsType
<1>7. ASSUME NEW r \in Briefs, B!AppendLog(r) PROVE BriefsType'
  <2>1. frame' \in [B!Frames -> FrameStates]
    BY <1>7, TwoFrames, GoProperties DEF B!AppendLog
  <2>2. /\ log' \in [Briefs -> {"nothing", "unsaved", "saved"}]
        /\ recorded' \in SUBSET Passages
    BY <1>7 DEF B!AppendLog, BriefsType, Feeds
  <2>3. QED
    BY <1>7, <2>1, <2>2 DEF B!AppendLog, BriefsType
<1>8. ASSUME NEW r \in Briefs, B!Forget(r) PROVE BriefsType'
  <2>1. frame' \in [B!Frames -> FrameStates]
    BY <1>8, TwoFrames, GoProperties DEF B!Forget
  <2>2. feed' \in [Briefs -> Feeds]
    BY <1>8, <1>a DEF B!Forget, BriefsType
  <2>3. passage' \in [Passages -> {"new", "held", "forgotten", "dropped"}]
    BY <1>8 DEF B!Forget, BriefsType
  <2>4. QED
    BY <1>8, <2>1, <2>2, <2>3 DEF B!Forget, BriefsType
<1>9. ASSUME NEW r \in Briefs, B!Save(r) \/ B!Posted(r) PROVE BriefsType'
    BY <1>9 DEF B!Save, B!Posted, BriefsType
<1>10. ASSUME NEW r \in Briefs, B!NoteSaved(r) \/ B!PutSaved(r) PROVE BriefsType'
  <2>1. store' \in Seq(BriefEntries)
    BY <1>10, PutIsTyped DEF B!NoteSaved, B!PutSaved, Phases, BriefsType
  <2>2. QED
    BY <1>10, <2>1 DEF B!NoteSaved, B!PutSaved, BriefsType
<1>11. ASSUME NEW r \in Briefs, B!Resume(r) PROVE BriefsType'
  <2>1. frame' \in [B!Frames -> FrameStates]
    BY <1>11, WithLoopProperties DEF B!Resume, BriefsType
  <2>2. QED
    BY <1>11, <2>1 DEF B!Resume, BriefsType
<1>12. ASSUME NEW r \in Briefs, B!Lapse(r) PROVE BriefsType'
  <2>1. store' \in Seq(BriefEntries)
    BY <1>12, BriefPut DEF B!Lapse, Phases
  <2>2. QED
    BY <1>12, <2>1 DEF B!Lapse, BriefsType
<1>13. ASSUME NEW f \in B!Frames, B!ReadRun(f) PROVE BriefsType'
  <2>1. frame' \in [B!Frames -> FrameStates]
    BY <1>13, GoProperties, MarkedProperties DEF B!ReadRun
  <2>2. QED
    BY <1>13, <2>1 DEF B!ReadRun, BriefsType
<1>14. ASSUME NEW f \in B!Frames, B!WriteRun(f) PROVE BriefsType'
  <2>1. frame' \in [B!Frames -> FrameStates]
    BY <1>14, MarkedProperties DEF B!WriteRun
  <2>2. store' \in Seq(BriefEntries)
    <3>1. f[1] \in Briefs /\ frame[f].out \in Phases
      BY FrameIsOfARun DEF BriefsType, FrameStates, Phases
    <3>2. QED
      BY <1>14, <3>1, PutIsTyped DEF B!WriteRun
  <2>3. QED
    BY <1>14, <2>1, <2>2 DEF B!WriteRun, BriefsType
<1>15. ASSUME NEW f \in B!Frames, B!Polled(f) PROVE BriefsType'
  <2>1. frame' \in [B!Frames -> FrameStates]
    BY <1>15, PolledProperties
  <2>2. QED
    BY <1>15, <2>1 DEF B!Polled, BriefsType
<1>16. ASSUME NEW f \in B!Frames, B!Tick(f) PROVE BriefsType'
  <2>1. frame' \in [B!Frames -> FrameStates]
    BY <1>16, TickProperties
  <2>2. QED
    BY <1>16, <2>1 DEF B!Tick, BriefsType
<1>17. ASSUME NEW f \in B!Frames, B!CallFails(f) PROVE BriefsType'
  <2>1. frame' \in [B!Frames -> FrameStates]
    BY <1>17, EndProperties DEF B!CallFails
  <2>2. feed' \in [Briefs -> Feeds]
    BY <1>17, <1>a DEF B!CallFails, BriefsType
  <2>3. left' \in [Briefs -> {"no", "sent", "cut"}]
    BY <1>17, FrameIsOfARun DEF B!CallFails, BriefsType
  <2>4. QED
    BY <1>17, <2>1, <2>2, <2>3 DEF B!CallFails, BriefsType
<1>18. ASSUME NEW p \in Passages, B!Collect(p) PROVE BriefsType'
    BY <1>18 DEF B!Collect, BriefsType
<1>19. ASSUME NEW ps \in SUBSET Passages, B!Drop(ps) PROVE BriefsType'
    BY <1>19 DEF B!Drop, BriefsType
<1>20. CASE B!ChangePairing \/ B!Bump
  <2>1. unclear' \in BOOLEAN
    BY <1>20, Zenon DEF B!ChangePairing, B!Bump, BriefsType
  <2>2. /\ pairing' \in Nat /\ changes' \in Nat /\ generation' \in Nat
        /\ changing' \in {"no", "bumping", "clearing"}
    BY <1>20 DEF B!ChangePairing, B!Bump, BriefsType
  <2>3. QED
    BY <1>20, <2>1, <2>2 DEF B!ChangePairing, B!Bump, BriefsType
<1>21. CASE B!ClearRuns
  <2>1. <<>> \in Seq(BriefEntries)
    OBVIOUS
  <2>2. store' \in Seq(BriefEntries)
    BY <1>21, <2>1 DEF B!ClearRuns, BriefsType
  <2>3. straddling' \in SUBSET Briefs /\ unclear' \in BOOLEAN
    BY <1>21 DEF B!ClearRuns, BriefsType
  <2>4. QED
    BY <1>21, <2>2, <2>3 DEF B!ClearRuns, BriefsType
<1>22. CASE B!Evict
  <2>1. frame' \in [B!Frames -> FrameStates]
    BY <1>22, FrameRecords DEF B!Evict
  <2>2. store' \in Seq(BriefEntries)
    <3>1. ASSUME NEW f \in B!Frames, B!PutBack(f[1], frame[f].out)
          PROVE  store' \in Seq(BriefEntries)
      <4>1. f[1] \in Briefs /\ frame[f].out \in Phases
        BY FrameIsOfARun DEF BriefsType, FrameStates, Phases
      <4>2. QED
        BY <3>1, <4>1, PutIsTyped
    <3>2. QED
      BY <1>22, <3>1 DEF B!Evict, BriefsType
  <2>3. feed' \in [Briefs -> Feeds]
    BY <1>22, <1>a DEF B!Evict
  <2>4. left' \in [Briefs -> {"no", "sent", "cut"}]
    BY <1>22 DEF B!Evict, BriefsType
  <2>5. QED
    BY <1>22, <2>1, <2>2, <2>3, <2>4 DEF B!Evict, BriefsType
<1>23. QED
    BY BriefSteps, <1>1, <1>2, <1>3, <1>4, <1>5, <1>6, <1>7, <1>8, <1>9, <1>10, <1>11,
       <1>12, <1>13, <1>14, <1>15, <1>16, <1>17, <1>18, <1>19, <1>20, <1>21, <1>22

-----------------------------------------------------------------------------
(* Research briefs: what the four properties rest on.                      *)

\* A start call that has not logged what left has nothing logged; a call that
\* polls, or that brings a phase that tells of egress, has.
Early == {"off", "creating", "storing", "feeding", "starting", "logging"}
FrameLogged(g, x, l) ==
    /\ g[2] = "start" /\ x.pc \in Early => l = "nothing"
    /\ x.pc \in {"forgetting", "asking", "waiting"} => l # "nothing"
    /\ x.pc \in {"reading", "writing"} /\ x.out # "failed" => l # "nothing"

ShownAreLogged ==
    \A e \in B!Stored : e.phase \in {"running", "done", "saved"} => log[e.run] # "nothing"

Logged ==
    /\ \A g \in B!Frames : FrameLogged(g, frame[g], log[g[1]])
    /\ \A r \in Briefs : save[r] # "off" => log[r] # "nothing"
    /\ \A r \in Briefs : save[r] = "putting" => log[r] = "saved"
    /\ ShownAreLogged
    /\ B!SavedIsNoted

\* What has left is logged, or about to be, but for a call that was cut short.
SentIsLogged ==
    \A r \in Briefs : left[r] = "sent" =>
                         log[r] # "nothing" \/ frame[<<r, "start">>].pc = "logging"

\* What is to be forgotten was sent, and is on record by the time it is forgotten.
Recorded ==
    /\ \A r \in Briefs : feed[r].fed \subseteq feed[r].sent
    /\ \A r \in Briefs : frame[<<r, "start">>].pc = "forgetting" => feed[r].fed \subseteq recorded
    /\ B!PassagesLeaveOnlySent

\* A run is of the pairing stored, or a change of pairing excuses it: its clear was
\* lost, the run was about to be put, or the change is not over.
Excused(r) == unclear \/ r \in straddling \/ changing # "no"
IsOurs(r) == owner[r] = pairing \/ Excused(r)

Ours ==
    /\ \A e \in B!Stored : IsOurs(e.run)
    /\ \A r \in Briefs :
          /\ frame[<<r, "start">>].pc = "creating" =>
                frame[<<r, "start">>].conn = pairing \/ Excused(r)
          /\ frame[<<r, "start">>].pc = "storing" => IsOurs(r)
          /\ save[r] # "off" => IsOurs(r)
    /\ \A f \in B!Frames : frame[f].pc = "writing" => IsOurs(f[1])

BriefsInv == BriefsType /\ Logged /\ SentIsLogged /\ Recorded /\ Ours

\* What is stored has a run; what is stored after an edit was stored, or is put.
LEMMA StoredRuns ==
    ASSUME BriefsType
    PROVE  \A e \in B!Stored : e.run \in Briefs
<1>1. store \in Seq(BriefEntries)
    BY DEF BriefsType
<1>2. \A i \in DOMAIN store : store[i] \in BriefEntries
    BY <1>1, ElementOfSeq, LenProperties
<1>3. QED
    BY <1>2 DEF B!Stored, B!ToSet, BriefEntries

\* After a put, what is stored is the run that was put, or was stored before.
LEMMA PutStored ==
    ASSUME BriefsType, NEW r \in Briefs, NEW phase \in Phases, B!PutBack(r, phase)
    PROVE  \A e \in (B!Stored)' : e = [run |-> r, phase |-> phase] \/ e \in B!Stored
<1>1. PICK n \in 0 .. Len(B!Without(r)) : store' = B!PutAt(r, phase, n)
    BY DEF B!PutBack
<1>2. (B!Stored)' = B!ToSet(B!PutAt(r, phase, n))
    BY <1>1, Zenon DEF B!Stored, B!ToSet
<1>3. QED
    BY <1>2, BriefPut

\* After a run is taken out, what is stored was stored before.
LEMMA WithoutStored ==
    ASSUME BriefsType, NEW r \in Briefs, store' = B!Without(r)
    PROVE  (B!Stored)' \subseteq B!Stored
<1>1. (B!Stored)' = B!ToSet(B!Without(r))
    BY Zenon DEF B!Stored, B!ToSet
<1>2. B!ToSet(B!Without(r)) \subseteq B!Stored
    BY BriefPut DEF Phases
<1>3. QED
    BY <1>1, <1>2

\* What is enough for a step to leave the log's invariant alone.
LEMMA LoggedKept ==
    ASSUME Logged, log' = log,
           \A g \in B!Frames : frame'[g] = frame[g] \/ FrameLogged(g, frame'[g], log[g[1]]),
           \A e \in (B!Stored)' :
              \/ e \in B!Stored
              \/ /\ e.phase \in {"running", "done", "saved"} => log[e.run] # "nothing"
                 /\ e.phase = "saved" => log[e.run] = "saved",
           \A r \in Briefs :
              \/ save'[r] = save[r] \/ save'[r] = "off"
              \/ log[r] # "nothing" /\ save'[r] # "putting"
    PROVE  Logged'
<1>1. \A g \in B!Frames : FrameLogged(g, frame'[g], log'[g[1]])
    BY DEF Logged
<1>2. /\ \A r \in Briefs : save'[r] # "off" => log'[r] # "nothing"
      /\ \A r \in Briefs : save'[r] = "putting" => log'[r] = "saved"
    BY DEF Logged
<1>3. ShownAreLogged' /\ (B!SavedIsNoted)'
    BY DEF Logged, ShownAreLogged, B!SavedIsNoted
<1>4. (\A g \in B!Frames : FrameLogged(g, frame[g], log[g[1]]))'
    BY <1>1 DEF FrameLogged, B!Frames
<1>5. QED
    BY <1>2, <1>3, <1>4, Zenon DEF Logged

\* Every step leaves it so that what left is logged.
LEMMA LoggedStep ==
    ASSUME BriefsType, Logged, B!Next
    PROVE  Logged'
<1> USE DEF B!stores, B!calls, B!change, B!history
<1>a. ASSUME store' = store PROVE (B!Stored)' = B!Stored
    BY <1>a, Zenon DEF B!Stored, B!ToSet
<1>b. \A g \in B!Frames : /\ FrameLogged(g, frame[g], log[g[1]])
                          /\ g[1] \in Briefs /\ g[2] \in {"start", "loop"} /\ g = <<g[1], g[2]>>
    BY FrameIsOfARun DEF Logged
<1>1. ASSUME NEW r \in Briefs, NEW tabs \in SUBSET Pages, NEW pages \in SUBSET Pages,
             B!Start(r, tabs, pages)
      PROVE  Logged'
  <2> DEFINE new == [B!Off EXCEPT !.pc = "creating", !.conn = pairing]
  <2>1. frame' = [frame EXCEPT ![<<r, "start">>] = new] /\ frame[<<r, "start">>].pc = "off"
    BY <1>1 DEF B!Start
  <2>2. new.pc = "creating"
    BY DEF B!Off
  <2> HIDE DEF new
  <2>3. FrameLogged(<<r, "start">>, new, log[r])
    BY <1>b, <2>1, <2>2, TwoFrames DEF FrameLogged, Early
  <2>a. \A g \in B!Frames : frame'[g] = IF g = <<r, "start">> THEN new ELSE frame[g]
    BY <2>1 DEF BriefsType
  <2>4. \A g \in B!Frames : frame'[g] = frame[g] \/ FrameLogged(g, frame'[g], log[g[1]])
    BY <2>3, <2>a, TwoFrames
  <2>5. store' = store /\ log' = log /\ save' = save
    BY <1>1 DEF B!Start
  <2>6. QED
    BY <1>a, <2>4, <2>5, LoggedKept
<1>2. ASSUME NEW r \in Briefs, B!Created(r) \/ B!Fed(r) \/ B!Accepted(r) PROVE Logged'
  <2>1. /\ frame[<<r, "start">>].pc \in Early
        /\ \A g \in B!Frames \ {<<r, "start">>} : frame'[g] = frame[g]
        /\ \/ frame'[<<r, "start">>].pc \in {"storing", "starting", "logging", "over"}
           \/ frame'[<<r, "start">>].pc = "reading" /\ frame'[<<r, "start">>].out = "failed"
    BY <1>2, TwoFrames, EndProperties, GoProperties, GoForProperties
       DEF B!Created, B!Fed, B!Accepted, Early
  <2>2. FrameLogged(<<r, "start">>, frame'[<<r, "start">>], log[r])
    BY <1>b, <2>1, TwoFrames DEF FrameLogged, Early
  <2>3. \A g \in B!Frames : frame'[g] = frame[g] \/ FrameLogged(g, frame'[g], log[g[1]])
    BY <2>1, <2>2, TwoFrames
  <2>4. store' = store /\ log' = log /\ save' = save
    BY <1>2 DEF B!Created, B!Fed, B!Accepted
  <2>5. QED
    BY <1>a, <2>3, <2>4, LoggedKept
<1>3. ASSUME NEW r \in Briefs, B!StoreRun(r) PROVE Logged'
  <2>1. /\ frame[<<r, "start">>].pc = "storing" /\ frame'[<<r, "start">>].pc = "feeding"
        /\ \A g \in B!Frames \ {<<r, "start">>} : frame'[g] = frame[g]
    BY <1>3, TwoFrames, GoProperties DEF B!StoreRun
  <2>2. FrameLogged(<<r, "start">>, frame'[<<r, "start">>], log[r])
    BY <1>b, <2>1, TwoFrames DEF FrameLogged, Early
  <2>3. \A g \in B!Frames : frame'[g] = frame[g] \/ FrameLogged(g, frame'[g], log[g[1]])
    BY <2>1, <2>2, TwoFrames
  <2>4. log' = log /\ save' = save /\ B!PutBack(r, "feeding")
    BY <1>3, PutIsNew DEF B!StoreRun, Phases
  <2>5. \A e \in (B!Stored)' : e = [run |-> r, phase |-> "feeding"] \/ e \in B!Stored
    BY <2>4, PutStored DEF Phases
  <2>6. QED
    BY <2>3, <2>4, <2>5, LoggedKept
<1>4. ASSUME NEW r \in Briefs, B!Feed(r) PROVE Logged'
  <2>1. store' = store /\ log' = log /\ save' = save /\ frame' = frame
    BY <1>4 DEF B!Feed
  <2>2. QED
    BY <1>a, <2>1, LoggedKept
<1>5. ASSUME NEW r \in Briefs, B!AppendLog(r) PROVE Logged'
  <2>1. /\ frame[<<r, "start">>].pc = "logging"
        /\ frame'[<<r, "start">>].pc \in {"reading", "forgetting"}
        /\ \A g \in B!Frames \ {<<r, "start">>} : frame'[g] = frame[g]
    BY <1>5, TwoFrames, GoProperties DEF B!AppendLog
  <2>2. log' = [log EXCEPT ![r] = "unsaved"] /\ store' = store /\ save' = save
    BY <1>5 DEF B!AppendLog
  <2>3. log[r] = "nothing"
    BY <1>b, <2>1, TwoFrames DEF FrameLogged, Early
  <2>4. \A q \in Briefs : log'[q] = IF q = r THEN "unsaved" ELSE log[q]
    BY <2>2 DEF BriefsType
  <2>5. (\A g \in B!Frames : FrameLogged(g, frame[g], log[g[1]]))'
    <3>1. ASSUME NEW g \in B!Frames PROVE FrameLogged(g, frame'[g], log'[g[1]])
      <4>1. CASE g[1] # r
        <5>1. frame'[g] = frame[g] /\ log'[g[1]] = log[g[1]]
          BY <1>b, <2>1, <2>4, <4>1, TwoFrames
        <5>2. QED
          BY <1>b, <5>1
      <4>2. CASE g[1] = r /\ g[2] = "start"
        <5>1. g = <<r, "start">> /\ log'[g[1]] = "unsaved"
          BY <1>b, <2>4, <4>2
        <5>2. QED
          BY <2>1, <5>1 DEF FrameLogged, Early
      <4>3. CASE g[1] = r /\ g[2] = "loop"
        BY <2>4, <4>3 DEF FrameLogged
      <4>4. QED
        BY <1>b, <4>1, <4>2, <4>3
    <3>2. QED
      BY <3>1 DEF FrameLogged, B!Frames
  <2>6. /\ \A q \in Briefs : save'[q] # "off" => log'[q] # "nothing"
        /\ \A q \in Briefs : save'[q] = "putting" => log'[q] = "saved"
    BY <2>2, <2>3, <2>4 DEF Logged
  <2>7. \A e \in B!Stored : e.run \in Briefs
    BY StoredRuns
  <2>8. ShownAreLogged' /\ (B!SavedIsNoted)'
    BY <1>a, <2>2, <2>3, <2>4, <2>7 DEF Logged, ShownAreLogged, B!SavedIsNoted
  <2>9. QED
    BY <2>5, <2>6, <2>8, Zenon DEF Logged
<1>6. ASSUME NEW r \in Briefs, B!Forget(r) PROVE Logged'
  <2>1. /\ frame[<<r, "start">>].pc = "forgetting" /\ frame'[<<r, "start">>].pc = "reading"
        /\ \A g \in B!Frames \ {<<r, "start">>} : frame'[g] = frame[g]
    BY <1>6, TwoFrames, GoProperties DEF B!Forget
  <2>2. FrameLogged(<<r, "start">>, frame'[<<r, "start">>], log[r])
    BY <1>b, <2>1, TwoFrames DEF FrameLogged, Early
  <2>3. \A g \in B!Frames : frame'[g] = frame[g] \/ FrameLogged(g, frame'[g], log[g[1]])
    BY <2>1, <2>2, TwoFrames
  <2>4. store' = store /\ log' = log /\ save' = save
    BY <1>6 DEF B!Forget
  <2>5. QED
    BY <1>a, <2>3, <2>4, LoggedKept
<1>7. ASSUME NEW r \in Briefs, B!Save(r) \/ B!Posted(r) PROVE Logged'
  <2>1. store' = store /\ log' = log /\ frame' = frame
    BY <1>7 DEF B!Save, B!Posted
  <2>2. log[r] # "nothing"
    <3>1. CASE B!Save(r)
      BY <3>1 DEF B!Save, Logged, ShownAreLogged
    <3>2. CASE B!Posted(r)
      BY <3>2 DEF B!Posted, Logged
    <3>3. QED
      BY <1>7, <3>1, <3>2
  <2>3. \A q \in Briefs : \/ save'[q] = save[q]
                          \/ q = r /\ save'[q] # "putting"
    <3>1. save \in [Briefs -> {"off", "posting", "noting", "putting"}]
      BY DEF BriefsType
    <3>2. PICK pc \in {"posting", "noting", "off"} : save' = [save EXCEPT ![r] = pc]
      BY <1>7 DEF B!Save, B!Posted
    <3>3. \A q \in Briefs : save'[q] = IF q = r THEN pc ELSE save[q]
      BY <3>1, <3>2
    <3>4. pc # "putting"
      OBVIOUS
    <3>5. QED
      BY <3>3, <3>4
  <2>4. QED
    BY <1>a, <2>1, <2>2, <2>3, LoggedKept
<1>8. ASSUME NEW r \in Briefs, B!NoteSaved(r) PROVE Logged'
  <2>1. /\ save[r] = "noting" /\ store' = store /\ frame' = frame
        /\ save' = [save EXCEPT ![r] = "putting"] /\ log' = [log EXCEPT ![r] = "saved"]
    BY <1>8 DEF B!NoteSaved
  <2>2. /\ \A q \in Briefs : log'[q] = IF q = r THEN "saved" ELSE log[q]
        /\ \A q \in Briefs : save'[q] = IF q = r THEN "putting" ELSE save[q]
    BY <2>1 DEF BriefsType
  <2>3. log[r] # "nothing"
    BY <2>1 DEF Logged
  <2>4. (\A g \in B!Frames : FrameLogged(g, frame[g], log[g[1]]))'
    <3>1. ASSUME NEW g \in B!Frames PROVE FrameLogged(g, frame'[g], log'[g[1]])
      BY <1>b, <2>1, <2>2, <2>3 DEF FrameLogged
    <3>2. QED
      BY <3>1 DEF FrameLogged, B!Frames
  <2>5. /\ \A q \in Briefs : save'[q] # "off" => log'[q] # "nothing"
        /\ \A q \in Briefs : save'[q] = "putting" => log'[q] = "saved"
    BY <2>2 DEF Logged
  <2>6. \A e \in B!Stored : e.run \in Briefs
    BY StoredRuns
  <2>7. ShownAreLogged' /\ (B!SavedIsNoted)'
    BY <1>a, <2>1, <2>2, <2>6 DEF Logged, ShownAreLogged, B!SavedIsNoted
  <2>8. QED
    BY <2>4, <2>5, <2>7, Zenon DEF Logged
<1>9. ASSUME NEW r \in Briefs, B!PutSaved(r) PROVE Logged'
  <2>1. /\ log' = log /\ frame' = frame /\ B!PutBack(r, "saved")
        /\ \A q \in Briefs : save'[q] = save[q] \/ save'[q] = "off"
    BY <1>9 DEF B!PutSaved, BriefsType
  <2>2. log[r] = "saved"
    BY <1>9 DEF B!PutSaved, Logged
  <2>3. \A e \in (B!Stored)' : e = [run |-> r, phase |-> "saved"] \/ e \in B!Stored
    BY <2>1, PutStored DEF Phases
  <2>4. QED
    BY <2>1, <2>2, <2>3, LoggedKept
<1>10. ASSUME NEW r \in Briefs, B!Resume(r) PROVE Logged'
  <2>1. store' = store /\ log' = log /\ save' = save
    BY <1>10 DEF B!Resume
  <2>2. log[r] # "nothing"
    BY <1>10 DEF B!Resume, Logged, ShownAreLogged
  <2>3. \A g \in B!Frames : \/ frame'[g] = frame[g]
                            \/ g = <<r, "loop">> /\ frame'[g].pc = "waiting"
    BY <1>10, WithLoopProperties DEF B!Resume, BriefsType
  <2>4. \A g \in B!Frames : frame'[g] = frame[g] \/ FrameLogged(g, frame'[g], log[g[1]])
    BY <2>2, <2>3, TwoFrames DEF FrameLogged
  <2>5. QED
    BY <1>a, <2>1, <2>4, LoggedKept
<1>11. ASSUME NEW r \in Briefs, B!Lapse(r) PROVE Logged'
  <2>1. log' = log /\ save' = save /\ frame' = frame /\ store' = B!Without(r)
    BY <1>11 DEF B!Lapse
  <2>2. (B!Stored)' \subseteq B!Stored
    BY <2>1, WithoutStored
  <2>3. QED
    BY <2>1, <2>2, LoggedKept
<1>c. ASSUME NEW f \in B!Frames, B!Marked(f), frame[f].pc \in {"reading", "writing"}
      PROVE  \A g \in B!Frames : frame'[g] = frame[g] \/ FrameLogged(g, frame'[g], log[g[1]])
  <2>1. ASSUME NEW g \in B!Frames, frame'[g] # frame[g] PROVE FrameLogged(g, frame'[g], log[g[1]])
    <3>1. CASE g = f /\ frame'[g].pc = IF f[2] = "loop" THEN "off" ELSE "over"
      BY <3>1, <1>b DEF FrameLogged, Early
    <3>2. CASE /\ g[1] = f[1] /\ frame[f].out = "running"
               /\ frame'[g].pc \in {"asking", "waiting"}
      BY <1>b, <1>c, <3>2 DEF FrameLogged, Early
    <3>3. QED
      BY <1>c, <2>1, <3>1, <3>2, MarkedProperties
  <2>2. QED
    BY <2>1
<1>12. ASSUME NEW f \in B!Frames, B!ReadRun(f) PROVE Logged'
  <2>1. frame[f].pc = "reading" /\ store' = store /\ log' = log /\ save' = save
    BY <1>12 DEF B!ReadRun
  <2>2. CASE B!Go(f, "writing")
    <3>1. /\ frame'[f].pc = "writing" /\ frame'[f].out = frame[f].out
          /\ \A g \in B!Frames \ {f} : frame'[g] = frame[g]
      BY <2>2, GoProperties
    <3>2. FrameLogged(f, frame'[f], log[f[1]])
      BY <1>b, <2>1, <3>1 DEF FrameLogged, Early
    <3>3. QED
      BY <1>a, <2>1, <3>1, <3>2, LoggedKept
  <2>3. CASE B!Marked(f)
    BY <1>a, <1>c, <2>1, <2>3, LoggedKept
  <2>4. QED
    BY <1>12, <2>2, <2>3 DEF B!ReadRun
<1>d. ASSUME NEW f \in B!Frames, frame[f].pc = "writing", B!PutBack(f[1], frame[f].out)
      PROVE  \A e \in (B!Stored)' :
                \/ e \in B!Stored
                \/ /\ e.phase \in {"running", "done", "saved"} => log[e.run] # "nothing"
                   /\ e.phase = "saved" => log[e.run] = "saved"
  <2>1. f[1] \in Briefs /\ frame[f].out \in {"running", "done", "failed"}
    BY FrameIsOfARun DEF BriefsType, FrameStates
  <2>2. \A e \in (B!Stored)' : e = [run |-> f[1], phase |-> frame[f].out] \/ e \in B!Stored
    BY <1>d, <2>1, PutStored DEF Phases
  <2>3. frame[f].out # "failed" => log[f[1]] # "nothing"
    BY <1>b, <1>d DEF FrameLogged
  <2>4. QED
    BY <2>1, <2>2, <2>3
<1>13. ASSUME NEW f \in B!Frames, B!WriteRun(f) PROVE Logged'
    BY <1>13, <1>c, <1>d, LoggedKept DEF B!WriteRun
<1>14. ASSUME NEW f \in B!Frames, B!Polled(f) PROVE Logged'
  <2>1. frame[f].pc = "asking" /\ store' = store /\ log' = log /\ save' = save
    BY <1>14 DEF B!Polled
  <2>2. log[f[1]] # "nothing"
    BY <1>b, <2>1 DEF FrameLogged
  <2>3. ASSUME NEW g \in B!Frames, frame'[g] # frame[g] PROVE FrameLogged(g, frame'[g], log[g[1]])
    <3>1. g[1] = f[1]
      BY <1>14, <1>b, <2>3, TwoFrames, PolledProperties
    <3>2. ~ (g[2] = "start" /\ frame'[g].pc \in Early)
      BY <1>14, <1>b, <2>3, TwoFrames, PolledProperties DEF Early
    <3>3. QED
      BY <2>2, <3>1, <3>2 DEF FrameLogged
  <2>4. QED
    BY <1>a, <2>1, <2>3, LoggedKept
<1>15. ASSUME NEW f \in B!Frames, B!Tick(f) PROVE Logged'
  <2>1. store' = store /\ log' = log /\ save' = save
    BY <1>15 DEF B!Tick
  <2>2. /\ f[2] = "loop" /\ frame[f].pc = "waiting"
        /\ frame'[f].pc \in {"off", "asking"}
        /\ \A g \in B!Frames \ {f} : frame'[g] = frame[g]
    BY <1>15, TickProperties
  <2>3. FrameLogged(f, frame'[f], log[f[1]])
    BY <1>b, <2>2 DEF FrameLogged
  <2>4. QED
    BY <1>a, <2>1, <2>2, <2>3, LoggedKept
<1>16. ASSUME NEW f \in B!Frames, B!CallFails(f) PROVE Logged'
  <2>1. store' = store /\ log' = log /\ save' = save /\ B!End(f)
    BY <1>16 DEF B!CallFails
  <2>2. FrameLogged(f, frame'[f], log[f[1]])
    BY <1>b, <2>1, EndProperties DEF FrameLogged, Early
  <2>3. \A g \in B!Frames \ {f} : frame'[g] = frame[g]
    BY <2>1, EndProperties
  <2>4. QED
    BY <1>a, <2>1, <2>2, <2>3, LoggedKept
<1>17. ASSUME \/ \E p \in Passages : B!Collect(p)
              \/ \E ps \in SUBSET Passages : B!Drop(ps)
              \/ B!ChangePairing \/ B!Bump
       PROVE  Logged'
  <2>1. store' = store /\ log' = log /\ save' = save /\ frame' = frame
    BY <1>17 DEF B!Collect, B!Drop, B!ChangePairing, B!Bump
  <2>2. QED
    BY <1>a, <2>1, LoggedKept
<1>18. CASE B!ClearRuns
  <2>1. log' = log /\ save' = save /\ frame' = frame /\ (store' = <<>> \/ store' = store)
    BY <1>18 DEF B!ClearRuns
  <2>2. (B!Stored)' \subseteq B!Stored
    BY <1>a, <2>1 DEF B!Stored, B!ToSet
  <2>3. QED
    BY <2>1, <2>2, LoggedKept
<1>19. CASE B!Evict
  <2>1. \A g \in B!Frames :
           /\ frame'[g] = IF frame[g].pc = "off" THEN B!Off ELSE B!Ended(g)
           /\ frame[g].pc = "off" => B!Off.pc = "off"
    BY <1>19, FrameRecords DEF B!Evict
  <2>2. \A g \in B!Frames : FrameLogged(g, frame'[g], log[g[1]])
    BY <1>b, <2>1, FrameRecords DEF FrameLogged, Early
  <2>3. log' = log /\ \A r \in Briefs : save'[r] = "off"
    BY <1>19 DEF B!Evict
  <2>4. CASE store' = store
    BY <1>a, <2>2, <2>3, <2>4, LoggedKept
  <2>5. ASSUME NEW f \in B!Frames, frame[f].pc = "writing", B!PutBack(f[1], frame[f].out)
        PROVE  Logged'
    BY <1>d, <2>2, <2>3, <2>5, LoggedKept
  <2>6. QED
    BY <1>19, <2>4, <2>5 DEF B!Evict
<1>20. QED
    BY BriefSteps, <1>1, <1>2, <1>3, <1>4, <1>5, <1>6, <1>7, <1>8, <1>9, <1>10, <1>11,
       <1>12, <1>13, <1>14, <1>15, <1>16, <1>17, <1>18, <1>19

\* Every step leaves it so that what has left is logged or about to be: it is logged
\* for good, and of the steps of a call about to log, only one that cuts it short
\* does not.
LEMMA SentStep ==
    ASSUME BriefsType, SentIsLogged, B!Next
    PROVE  SentIsLogged'
<1> USE DEF B!stores, B!calls, B!change, B!history
<1>a. ASSUME left' = left, log' = log,
             \A g \in B!Frames : frame'[g] = frame[g] \/ frame[g].pc # "logging"
      PROVE  SentIsLogged'
    BY <1>a, TwoFrames DEF SentIsLogged
<1>1. ASSUME NEW r \in Briefs, NEW tabs \in SUBSET Pages, NEW pages \in SUBSET Pages,
             B!Start(r, tabs, pages)
      PROVE  SentIsLogged'
  <2> DEFINE new == [B!Off EXCEPT !.pc = "creating", !.conn = pairing]
  <2>1. /\ frame' = [frame EXCEPT ![<<r, "start">>] = new] /\ frame[<<r, "start">>].pc = "off"
        /\ left' = left /\ log' = log
    BY <1>1 DEF B!Start
  <2> HIDE DEF new
  <2>2. \A g \in B!Frames : frame'[g] = frame[g] \/ frame[g].pc # "logging"
    BY <2>1 DEF BriefsType
  <2>3. QED
    BY <1>a, <2>1, <2>2
<1>2. ASSUME NEW r \in Briefs, B!Created(r) \/ B!StoreRun(r) \/ B!Fed(r) \/ B!Forget(r)
      PROVE  SentIsLogged'
  <2>1. left' = left /\ log' = log /\ frame[<<r, "start">>].pc # "logging"
    BY <1>2 DEF B!Created, B!StoreRun, B!Fed, B!Forget
  <2>2. \A g \in B!Frames \ {<<r, "start">>} : frame'[g] = frame[g]
    BY <1>2, TwoFrames, EndProperties, GoProperties, GoForProperties
       DEF B!Created, B!StoreRun, B!Fed, B!Forget
  <2>3. QED
    BY <1>a, <2>1, <2>2
<1>3. ASSUME NEW r \in Briefs,
             \/ B!Feed(r) \/ B!Save(r) \/ B!Posted(r) \/ B!PutSaved(r) \/ B!Lapse(r)
      PROVE  SentIsLogged'
  <2>1. left' = left /\ log' = log /\ frame' = frame
    BY <1>3 DEF B!Feed, B!Save, B!Posted, B!PutSaved, B!Lapse
  <2>2. QED
    BY <1>a, <2>1
<1>4. ASSUME NEW r \in Briefs, B!Accepted(r) PROVE SentIsLogged'
  <2>1. log' = log /\ \A g \in B!Frames \ {<<r, "start">>} : frame'[g] = frame[g]
    BY <1>4, TwoFrames, GoProperties, GoForProperties DEF B!Accepted
  <2>2. /\ \A q \in Briefs \ {r} : left'[q] = left[q]
        /\ left'[r] = "sent" => frame'[<<r, "start">>].pc = "logging"
    <3>1. CASE B!Go(<<r, "start">>, "logging") /\ left' = [left EXCEPT ![r] = "sent"]
      BY <3>1, TwoFrames, GoProperties DEF BriefsType
    <3>2. CASE \E what \in {"no", "cut"} : left' = [left EXCEPT ![r] = what]
      BY <3>2 DEF BriefsType
    <3>3. QED
      BY <1>4, <3>1, <3>2 DEF B!Accepted
  <2>3. ASSUME NEW q \in Briefs, left'[q] = "sent"
        PROVE  log'[q] # "nothing" \/ frame'[<<q, "start">>].pc = "logging"
    <3>1. q # r => frame'[<<q, "start">>] = frame[<<q, "start">>]
      BY <2>1, TwoFrames
    <3>2. QED
      BY <2>1, <2>2, <2>3, <3>1 DEF SentIsLogged
  <2>4. QED
    BY <2>3 DEF SentIsLogged
<1>5. ASSUME NEW r \in Briefs, B!AppendLog(r) \/ B!NoteSaved(r) PROVE SentIsLogged'
  <2>1. /\ left' = left /\ \A q \in Briefs \ {r} : log'[q] = log[q]
        /\ log'[r] # "nothing"
    BY <1>5 DEF B!AppendLog, B!NoteSaved, BriefsType
  <2>2. \A g \in B!Frames \ {<<r, "start">>} : frame'[g] = frame[g]
    BY <1>5, TwoFrames, GoProperties DEF B!AppendLog, B!NoteSaved
  <2>3. ASSUME NEW q \in Briefs, left'[q] = "sent"
        PROVE  log'[q] # "nothing" \/ frame'[<<q, "start">>].pc = "logging"
    <3>1. q # r => frame'[<<q, "start">>] = frame[<<q, "start">>]
      BY <2>2, TwoFrames
    <3>2. QED
      BY <2>1, <2>3, <3>1 DEF SentIsLogged
  <2>4. QED
    BY <2>3 DEF SentIsLogged
<1>6. ASSUME NEW r \in Briefs, B!Resume(r) PROVE SentIsLogged'
  <2>1. left' = left /\ log' = log /\ frame[<<r, "loop">>].pc = "off"
    BY <1>6 DEF B!Resume
  <2>2. \A g \in B!Frames : frame'[g] = frame[g] \/ g = <<r, "loop">>
    BY <1>6, WithLoopProperties DEF B!Resume, BriefsType
  <2>3. QED
    BY <1>a, <2>1, <2>2
<1>7. ASSUME NEW f \in B!Frames, B!ReadRun(f) \/ B!WriteRun(f) \/ B!Polled(f) \/ B!Tick(f)
      PROVE  SentIsLogged'
  <2>1. /\ left' = left /\ log' = log
        /\ frame[f].pc \in {"reading", "writing", "asking", "waiting"}
    BY <1>7 DEF B!ReadRun, B!WriteRun, B!Polled, B!Tick
  <2>2. ASSUME NEW r \in Briefs, frame'[<<r, "start">>] # frame[<<r, "start">>]
        PROVE  frame[<<r, "start">>].pc # "logging"
    <3>1. CASE B!Go(f, "writing")
      <4>1. \A g \in B!Frames \ {f} : frame'[g] = frame[g]
        BY <3>1, GoProperties
      <4>2. <<r, "start">> = f
        BY <2>2, <4>1, TwoFrames
      <4>3. QED
        BY <2>1, <4>2
    <3>2. CASE B!Marked(f)
      BY <2>1, <2>2, <3>2, TwoFrames, MarkedProperties
    <3>3. CASE B!Polled(f)
      BY <2>1, <2>2, <3>3, TwoFrames, PolledProperties
    <3>4. CASE B!Tick(f)
      BY <2>1, <2>2, <3>4, TwoFrames, TickProperties
    <3>5. QED
      BY <1>7, <3>1, <3>2, <3>3, <3>4 DEF B!ReadRun, B!WriteRun
  <2>3. QED
    BY <2>1, <2>2 DEF SentIsLogged
<1>8. ASSUME NEW f \in B!Frames, B!CallFails(f) PROVE SentIsLogged'
  <2>1. /\ log' = log /\ B!End(f)
        /\ left' = IF frame[f].pc = "logging" THEN [left EXCEPT ![f[1]] = "cut"] ELSE left
    BY <1>8 DEF B!CallFails
  <2>2. \A g \in B!Frames \ {f} : frame'[g] = frame[g]
    BY <2>1, EndProperties
  <2>3. ASSUME NEW r \in Briefs, left'[r] = "sent"
        PROVE  /\ left[r] = "sent"
               /\ f = <<r, "start">> => frame[f].pc # "logging"
    BY <2>1, <2>3, FrameIsOfARun, TwoFrames DEF BriefsType
  <2>4. ASSUME NEW r \in Briefs, left'[r] = "sent"
        PROVE  log'[r] # "nothing" \/ frame'[<<r, "start">>].pc = "logging"
    <3>1. f # <<r, "start">> => frame'[<<r, "start">>] = frame[<<r, "start">>]
      BY <2>2, TwoFrames
    <3>2. QED
      BY <2>1, <2>3, <2>4, <3>1 DEF SentIsLogged
  <2>5. QED
    BY <2>4 DEF SentIsLogged
<1>9. ASSUME \/ \E p \in Passages : B!Collect(p)
             \/ \E ps \in SUBSET Passages : B!Drop(ps)
             \/ B!ChangePairing \/ B!Bump \/ B!ClearRuns
      PROVE  SentIsLogged'
  <2>1. left' = left /\ log' = log /\ frame' = frame
    BY <1>9 DEF B!Collect, B!Drop, B!ChangePairing, B!Bump, B!ClearRuns
  <2>2. QED
    BY <1>a, <2>1
<1>10. CASE B!Evict
  <2>1. /\ log' = log
        /\ \E taken \in SUBSET Briefs :
              left' = [r \in Briefs |-> IF r \in taken \/ frame[<<r, "start">>].pc = "logging"
                                       THEN "cut" ELSE left[r]]
    BY <1>10 DEF B!Evict
  <2>2. \A r \in Briefs : left'[r] = "sent" => left[r] = "sent" /\ frame[<<r, "start">>].pc # "logging"
    BY <2>1
  <2>3. QED
    BY <2>1, <2>2 DEF SentIsLogged
<1>11. QED
    BY BriefSteps, <1>1, <1>2, <1>3, <1>4, <1>5, <1>6, <1>7, <1>8, <1>9, <1>10

\* Every step leaves it so that what is forgotten is on record.
LEMMA RecordedStep ==
    ASSUME BriefsType, Recorded, B!Next
    PROVE  Recorded'
<1> USE DEF B!stores, B!calls, B!change, B!history
<1>a. feed \in [Briefs -> Feeds] /\ passage \in [Passages -> {"new", "held", "forgotten", "dropped"}]
      /\ \A r \in Briefs : feed[r].fed \subseteq feed[r].sent
      /\ B!NoFeed.fed = {} /\ B!NoFeed.sent = {}
    BY DEF BriefsType, Recorded, B!NoFeed
<1>b. ASSUME passage' = passage, recorded' = recorded,
             \A r \in Briefs : \/ feed'[r] = feed[r]
                               \/ feed'[r].fed \subseteq feed'[r].sent
                                  /\ frame'[<<r, "start">>].pc # "forgetting"
                               \/ feed'[r].fed = {},
             \A r \in Briefs : frame'[<<r, "start">>].pc = "forgetting" =>
                                  frame[<<r, "start">>].pc = "forgetting"
      PROVE  Recorded'
  <2>1. \A r \in Briefs : feed'[r].fed \subseteq feed'[r].sent
    BY <1>a, <1>b
  <2>2. \A r \in Briefs : frame'[<<r, "start">>].pc = "forgetting" => feed'[r].fed \subseteq recorded'
    BY <1>b DEF Recorded
  <2>3. (B!PassagesLeaveOnlySent)'
    BY <1>b DEF Recorded, B!PassagesLeaveOnlySent
  <2>4. QED
    BY <2>1, <2>2, <2>3, Zenon DEF Recorded
<1>1. ASSUME NEW r \in Briefs, NEW tabs \in SUBSET Pages, NEW pages \in SUBSET Pages,
             B!Start(r, tabs, pages)
      PROVE  Recorded'
  <2> DEFINE new == [B!Off EXCEPT !.pc = "creating", !.conn = pairing]
             work == [B!NoFeed EXCEPT !.todo = (tabs \X {"tab"}) \union (pages \X {"passages"}),
                                      !.read = {p \in B!Held : PageOf[p] \in pages}]
  <2>1. /\ frame' = [frame EXCEPT ![<<r, "start">>] = new] /\ feed' = [feed EXCEPT ![r] = work]
        /\ passage' = passage /\ recorded' = recorded
    BY <1>1 DEF B!Start
  <2>2. new.pc = "creating" /\ work.fed = {}
    BY DEF B!Off, B!NoFeed
  <2> HIDE DEF new, work
  <2>3. /\ \A g \in B!Frames : frame'[g] = IF g = <<r, "start">> THEN new ELSE frame[g]
        /\ \A q \in Briefs : feed'[q] = IF q = r THEN work ELSE feed[q]
    BY <1>a, <2>1 DEF BriefsType
  <2>4. QED
    BY <1>b, <2>1, <2>2, <2>3, TwoFrames
<1>2. ASSUME NEW r \in Briefs, B!Created(r) \/ B!StoreRun(r) \/ B!Fed(r) \/ B!Accepted(r)
      PROVE  Recorded'
  <2>1. /\ frame'[<<r, "start">>].pc # "forgetting"
        /\ \A g \in B!Frames \ {<<r, "start">>} : frame'[g] = frame[g]
    BY <1>2, TwoFrames, EndProperties, GoProperties, GoForProperties
       DEF B!Created, B!StoreRun, B!Fed, B!Accepted
  <2>2. passage' = passage /\ recorded' = recorded
    BY <1>2 DEF B!Created, B!StoreRun, B!Fed, B!Accepted
  <2>3. /\ \A q \in Briefs \ {r} : feed'[q] = feed[q]
        /\ feed'[r].fed \subseteq feed'[r].sent
    <3> DEFINE kept == [B!NoFeed EXCEPT !.fed = feed[r].fed, !.sent = feed[r].sent]
    <3>1. kept.fed = feed[r].fed /\ kept.sent = feed[r].sent
      BY DEF B!NoFeed
    <3>2. feed' = feed \/ \E x \in {kept, B!NoFeed} : feed' = [feed EXCEPT ![r] = x]
      BY <1>2 DEF B!Created, B!StoreRun, B!Fed, B!Accepted
    <3> HIDE DEF kept
    <3>3. QED
      BY <1>a, <3>1, <3>2
  <2>4. QED
    BY <1>b, <2>1, <2>2, <2>3, TwoFrames
<1>3. ASSUME NEW r \in Briefs, B!Feed(r) PROVE Recorded'
  <2>1. /\ frame' = frame /\ passage' = passage /\ recorded' = recorded
        /\ frame[<<r, "start">>].pc = "feeding"
    BY <1>3 DEF B!Feed
  <2>2. /\ \A q \in Briefs \ {r} : feed'[q] = feed[q]
        /\ feed'[r].fed \subseteq feed'[r].sent
    BY <1>3, <1>a, FeedProperties
  <2>3. QED
    BY <1>b, <2>1, <2>2
<1>4. ASSUME NEW r \in Briefs, B!AppendLog(r) PROVE Recorded'
  <2>1. /\ passage' = passage /\ feed' = feed
        /\ recorded' = recorded \union feed[r].sent
    BY <1>4 DEF B!AppendLog
  <2>2. \A g \in B!Frames \ {<<r, "start">>} : frame'[g] = frame[g]
    BY <1>4, TwoFrames, GoProperties DEF B!AppendLog
  <2>3. \A q \in Briefs : frame'[<<q, "start">>].pc = "forgetting" => feed'[q].fed \subseteq recorded'
    <3>1. ASSUME NEW q \in Briefs, frame'[<<q, "start">>].pc = "forgetting"
          PROVE  feed[q].fed \subseteq recorded \union feed[r].sent
      <4>1. CASE q = r
        BY <1>a, <4>1
      <4>2. CASE q # r
        <5>1. frame'[<<q, "start">>] = frame[<<q, "start">>]
          BY <2>2, <4>2, TwoFrames
        <5>2. QED
          BY <3>1, <5>1 DEF Recorded
      <4>3. QED
        BY <4>1, <4>2
    <3>2. QED
      BY <2>1, <3>1
  <2>4. \A q \in Briefs : feed'[q].fed \subseteq feed'[q].sent
    BY <1>a, <2>1
  <2>5. (B!PassagesLeaveOnlySent)'
    BY <2>1 DEF Recorded, B!PassagesLeaveOnlySent
  <2>6. QED
    BY <2>3, <2>4, <2>5, Zenon DEF Recorded
<1>5. ASSUME NEW r \in Briefs, B!Forget(r) PROVE Recorded'
  <2>1. /\ recorded' = recorded /\ frame[<<r, "start">>].pc = "forgetting"
        /\ feed' = [feed EXCEPT ![r] = B!NoFeed]
        /\ \/ passage' = [p \in Passages |-> IF p \in feed[r].fed \intersect B!Held
                                             THEN "forgotten" ELSE passage[p]]
           \/ passage' = passage
    BY <1>5 DEF B!Forget
  <2>2. /\ frame'[<<r, "start">>].pc = "reading"
        /\ \A g \in B!Frames \ {<<r, "start">>} : frame'[g] = frame[g]
    BY <1>5, TwoFrames, GoProperties DEF B!Forget
  <2>3. \A q \in Briefs : feed'[q] = IF q = r THEN B!NoFeed ELSE feed[q]
    BY <1>a, <2>1
  <2>4. feed[r].fed \subseteq recorded
    BY <2>1 DEF Recorded
  <2>5. \A q \in Briefs : feed'[q].fed \subseteq feed'[q].sent
    BY <1>a, <2>3
  <2>6. \A q \in Briefs : frame'[<<q, "start">>].pc = "forgetting" => feed'[q].fed \subseteq recorded'
    <3>1. ASSUME NEW q \in Briefs, frame'[<<q, "start">>].pc = "forgetting"
          PROVE  feed'[q].fed \subseteq recorded
      <4>1. CASE q = r
        BY <1>a, <2>3, <4>1
      <4>2. CASE q # r
        <5>1. frame'[<<q, "start">>] = frame[<<q, "start">>] /\ feed'[q] = feed[q]
          BY <2>2, <2>3, <4>2, TwoFrames
        <5>2. QED
          BY <3>1, <5>1 DEF Recorded
      <4>3. QED
        BY <4>1, <4>2
    <3>2. QED
      BY <2>1, <3>1
  <2>7. (B!PassagesLeaveOnlySent)'
    BY <1>a, <2>1, <2>4 DEF Recorded, B!PassagesLeaveOnlySent
  <2>8. QED
    BY <2>5, <2>6, <2>7, Zenon DEF Recorded
<1>6. ASSUME NEW r \in Briefs,
             \/ B!Save(r) \/ B!Posted(r) \/ B!NoteSaved(r) \/ B!PutSaved(r) \/ B!Lapse(r)
      PROVE  Recorded'
  <2>1. passage' = passage /\ recorded' = recorded /\ feed' = feed /\ frame' = frame
    BY <1>6 DEF B!Save, B!Posted, B!NoteSaved, B!PutSaved, B!Lapse
  <2>2. QED
    BY <1>b, <2>1
<1>7. ASSUME NEW r \in Briefs, B!Resume(r) PROVE Recorded'
  <2>1. passage' = passage /\ recorded' = recorded /\ feed' = feed
    BY <1>7 DEF B!Resume
  <2>2. \A g \in B!Frames : \/ frame'[g] = frame[g]
                            \/ g = <<r, "loop">> /\ frame'[g].pc = "waiting"
    BY <1>7, WithLoopProperties DEF B!Resume, BriefsType
  <2>3. QED
    BY <1>b, <2>1, <2>2, TwoFrames
<1>8. ASSUME NEW f \in B!Frames,
             B!ReadRun(f) \/ B!WriteRun(f) \/ B!Polled(f) \/ B!Tick(f)
      PROVE  Recorded'
  <2>1. passage' = passage /\ recorded' = recorded /\ feed' = feed
    BY <1>8 DEF B!ReadRun, B!WriteRun, B!Polled, B!Tick
  <2>2. \A g \in B!Frames : frame'[g] = frame[g] \/ frame'[g].pc # "forgetting"
    <3>1. CASE B!Go(f, "writing")
      BY <3>1, GoProperties
    <3>2. CASE B!Marked(f)
      BY <3>2, MarkedProperties
    <3>3. CASE B!Polled(f)
      BY <3>3, PolledProperties
    <3>4. CASE B!Tick(f)
      BY <3>4, TickProperties
    <3>5. QED
      BY <1>8, <3>1, <3>2, <3>3, <3>4 DEF B!ReadRun, B!WriteRun
  <2>3. QED
    BY <1>b, <2>1, <2>2, TwoFrames
<1>9. ASSUME NEW f \in B!Frames, B!CallFails(f) PROVE Recorded'
  <2>1. /\ passage' = passage /\ recorded' = recorded /\ B!End(f)
        /\ feed' = feed \/ feed' = [feed EXCEPT ![f[1]] = B!NoFeed]
    BY <1>9 DEF B!CallFails
  <2>2. \A g \in B!Frames : frame'[g] = frame[g] \/ frame'[g].pc # "forgetting"
    BY <2>1, EndProperties
  <2>3. \A q \in Briefs : feed'[q] = feed[q] \/ feed'[q].fed = {}
    BY <1>a, <2>1
  <2>4. QED
    BY <1>a, <1>b, <2>1, <2>2, <2>3, TwoFrames
<1>10. ASSUME NEW p \in Passages, B!Collect(p) PROVE Recorded'
  <2>1. /\ recorded' = recorded /\ frame' = frame /\ feed' = feed
        /\ passage' = [passage EXCEPT ![p] = "held"]
    BY <1>10 DEF B!Collect
  <2>2. (B!PassagesLeaveOnlySent)'
    BY <1>a, <2>1 DEF Recorded, B!PassagesLeaveOnlySent
  <2>3. QED
    BY <2>1, <2>2 DEF Recorded
<1>11. ASSUME NEW ps \in SUBSET Passages, B!Drop(ps) PROVE Recorded'
  <2>1. /\ recorded' = recorded /\ frame' = frame /\ feed' = feed
        /\ passage' = [p \in Passages |-> IF p \in ps THEN "dropped" ELSE passage[p]]
    BY <1>11 DEF B!Drop
  <2>2. (B!PassagesLeaveOnlySent)'
    BY <1>a, <2>1 DEF Recorded, B!PassagesLeaveOnlySent
  <2>3. QED
    BY <2>1, <2>2 DEF Recorded
<1>12. ASSUME B!ChangePairing \/ B!Bump \/ B!ClearRuns PROVE Recorded'
  <2>1. passage' = passage /\ recorded' = recorded /\ feed' = feed /\ frame' = frame
    BY <1>12 DEF B!ChangePairing, B!Bump, B!ClearRuns
  <2>2. QED
    BY <1>b, <2>1
<1>13. CASE B!Evict
  <2>1. /\ passage' = passage /\ recorded' = recorded /\ feed' = [r \in Briefs |-> B!NoFeed]
        /\ \A g \in B!Frames : frame'[g] = IF frame[g].pc = "off" THEN B!Off ELSE B!Ended(g)
    BY <1>13 DEF B!Evict
  <2>2. \A g \in B!Frames : frame'[g].pc # "forgetting"
    BY <2>1, FrameRecords
  <2>3. QED
    BY <1>a, <1>b, <2>1, <2>2, TwoFrames
<1>14. QED
    BY BriefSteps, <1>1, <1>2, <1>3, <1>4, <1>5, <1>6, <1>7, <1>8, <1>9, <1>10, <1>11,
       <1>12, <1>13

\* An edit of the store, or a move of a call, that leaves the pairing and what
\* excuses a run alone.
LEMMA OursKept ==
    ASSUME Ours, UNCHANGED <<pairing, owner, unclear, straddling, changing>>,
           \A e \in (B!Stored)' : e \in B!Stored \/ IsOurs(e.run),
           \A r \in Briefs :
              \/ frame'[<<r, "start">>] = frame[<<r, "start">>]
              \/ /\ frame'[<<r, "start">>].pc = "creating" =>
                       frame'[<<r, "start">>].conn = pairing
                 /\ frame'[<<r, "start">>].pc = "storing" => IsOurs(r),
           \A f \in B!Frames : \/ frame'[f] = frame[f]
                               \/ frame'[f].pc = "writing" => IsOurs(f[1]),
           \A r \in Briefs : save'[r] = save[r] \/ save'[r] = "off" \/ IsOurs(r)
    PROVE  Ours'
<1>1. \A r : /\ (IsOurs(r))' <=> IsOurs(r)
             /\ (Excused(r))' <=> Excused(r)
    BY DEF IsOurs, Excused
<1>2. \A e \in (B!Stored)' : IsOurs(e.run)
    BY DEF Ours
<1>3. \A r \in Briefs :
          /\ frame'[<<r, "start">>].pc = "creating" =>
                frame'[<<r, "start">>].conn = pairing \/ Excused(r)
          /\ frame'[<<r, "start">>].pc = "storing" => IsOurs(r)
          /\ save'[r] # "off" => IsOurs(r)
    BY DEF Ours
<1>4. \A f \in B!Frames : frame'[f].pc = "writing" => IsOurs(f[1])
    BY DEF Ours
<1>5. QED
    BY <1>1, <1>2, <1>3, <1>4 DEF Ours, IsOurs, Excused

\* A frame whose phase is in place is not about to create, store or write a run.
LEMMA MarkedMoves ==
    ASSUME BriefsType, NEW f \in B!Frames, B!Marked(f)
    PROVE  \A g \in B!Frames : \/ frame'[g] = frame[g]
                               \/ frame'[g].pc \notin {"creating", "storing", "writing"}
BY MarkedProperties

\* Every step leaves it so that the runs stored are ours, or excused.
LEMMA OursStep ==
    ASSUME BriefsType, Ours, B!Next
    PROVE  Ours'
<1> USE DEF B!stores, B!calls, B!change, B!history
<1>a. ASSUME store' = store PROVE (B!Stored)' = B!Stored
    BY <1>a, Zenon DEF B!Stored, B!ToSet
<1>b. ASSUME NEW r \in Briefs, B!Found(r) PROVE IsOurs(r)
    BY <1>b DEF B!Found, Ours
<1>1. ASSUME NEW r \in Briefs, NEW tabs \in SUBSET Pages, NEW pages \in SUBSET Pages,
             B!Start(r, tabs, pages)
      PROVE  Ours'
  <2> DEFINE new == [B!Off EXCEPT !.pc = "creating", !.conn = pairing]
  <2>1. /\ frame' = [frame EXCEPT ![<<r, "start">>] = new] /\ save' = save /\ store' = store
        /\ UNCHANGED <<pairing, owner, unclear, straddling, changing>>
    BY <1>1 DEF B!Start
  <2>2. new.pc = "creating" /\ new.conn = pairing
    BY DEF B!Off
  <2> HIDE DEF new
  <2>3. \A g \in B!Frames : frame'[g] = IF g = <<r, "start">> THEN new ELSE frame[g]
    BY <2>1 DEF BriefsType
  <2>4. QED
    BY <1>a, <2>1, <2>2, <2>3, TwoFrames, OursKept
<1>2. ASSUME NEW r \in Briefs, B!Created(r) PROVE Ours'
  <2>1. /\ frame[<<r, "start">>].pc = "creating" /\ store' = store /\ save' = save
        /\ UNCHANGED <<pairing, unclear, straddling, changing>>
    BY <1>2 DEF B!Created
  <2>2. CASE B!End(<<r, "start">>) /\ owner' = owner
    BY <1>a, <2>1, <2>2, TwoFrames, EndProperties, OursKept
  <2>3. CASE /\ B!Go(<<r, "start">>, "storing")
             /\ owner' = [owner EXCEPT ![r] = frame[<<r, "start">>].conn]
    <3>1. /\ frame'[<<r, "start">>].pc = "storing"
          /\ \A g \in B!Frames \ {<<r, "start">>} : frame'[g] = frame[g]
      BY <2>3, TwoFrames, GoProperties
    <3>2. \A q \in Briefs : owner'[q] = IF q = r THEN frame[<<r, "start">>].conn ELSE owner[q]
      BY <2>3 DEF BriefsType
    <3>3. frame[<<r, "start">>].conn = pairing \/ Excused(r)
      BY <2>1 DEF Ours
    <3>4. \A q : (Excused(q))' <=> Excused(q)
      BY <2>1 DEF Excused
    <3>5. \A q \in Briefs : (owner'[q] = pairing \/ Excused(q)) <=> q = r \/ IsOurs(q)
      BY <3>2, <3>3 DEF IsOurs, Excused
    <3>6. \A q \in Briefs : q = r \/ IsOurs(q) => owner'[q] = pairing' \/ (Excused(q))'
      BY <2>1, <3>4, <3>5
    <3>7. \A e \in B!Stored : e.run \in Briefs
      BY StoredRuns
    <3>8. \A e \in (B!Stored)' : owner'[e.run] = pairing' \/ (Excused(e.run))'
      BY <1>a, <2>1, <3>6, <3>7 DEF Ours
    <3>9. \A q \in Briefs :
              /\ frame'[<<q, "start">>].pc = "creating" =>
                    frame'[<<q, "start">>].conn = pairing' \/ (Excused(q))'
              /\ frame'[<<q, "start">>].pc = "storing" => owner'[q] = pairing' \/ (Excused(q))'
              /\ save'[q] # "off" => owner'[q] = pairing' \/ (Excused(q))'
      <4>1. ASSUME NEW q \in Briefs, q # r PROVE frame'[<<q, "start">>] = frame[<<q, "start">>]
        BY <3>1, <4>1, TwoFrames
      <4>2. QED
        BY <2>1, <3>1, <3>4, <3>6, <4>1 DEF Ours
    <3>10. \A f \in B!Frames : frame'[f].pc = "writing" => owner'[f[1]] = pairing' \/ (Excused(f[1]))'
      BY <3>1, <3>6, FrameIsOfARun DEF Ours
    <3>11. QED
      BY <3>8, <3>9, <3>10 DEF Ours, IsOurs, Excused
  <2>4. QED
    BY <1>2, <2>2, <2>3 DEF B!Created
<1>3. ASSUME NEW r \in Briefs, B!StoreRun(r) PROVE Ours'
  <2>1. /\ B!PutBack(r, "feeding") /\ save' = save
        /\ UNCHANGED <<pairing, owner, unclear, straddling, changing>>
        /\ frame[<<r, "start">>].pc = "storing"
    BY <1>3, PutIsNew DEF B!StoreRun, Phases
  <2>2. /\ frame'[<<r, "start">>].pc = "feeding"
        /\ \A g \in B!Frames \ {<<r, "start">>} : frame'[g] = frame[g]
    BY <1>3, TwoFrames, GoProperties DEF B!StoreRun
  <2>3. \A e \in (B!Stored)' : e = [run |-> r, phase |-> "feeding"] \/ e \in B!Stored
    BY <2>1, PutStored DEF Phases
  <2>4. IsOurs(r)
    BY <2>1 DEF Ours
  <2>5. \A e \in (B!Stored)' : e \in B!Stored \/ IsOurs(e.run)
    BY <2>3, <2>4
  <2>6. \A g \in B!Frames : \/ frame'[g] = frame[g]
                            \/ frame'[g].pc = "feeding"
    BY <2>2
  <2>7. QED
    BY <2>1, <2>5, <2>6, TwoFrames, OursKept
<1>4. ASSUME NEW r \in Briefs, \/ B!Feed(r) \/ B!Fed(r) \/ B!Accepted(r) \/ B!AppendLog(r) \/ B!Forget(r)
      PROVE  Ours'
  <2>1. /\ store' = store /\ save' = save
        /\ UNCHANGED <<pairing, owner, unclear, straddling, changing>>
    BY <1>4 DEF B!Feed, B!Fed, B!Accepted, B!AppendLog, B!Forget
  <2>2. CASE frame' = frame
    BY <1>a, <2>1, <2>2, OursKept
  <2>3. CASE /\ frame'[<<r, "start">>].pc \in {"starting", "reading", "logging", "forgetting"}
             /\ \A g \in B!Frames \ {<<r, "start">>} : frame'[g] = frame[g]
    BY <1>a, <2>1, <2>3, TwoFrames, OursKept
  <2>4. CASE frame' # frame
    BY <1>4, <2>3, <2>4, TwoFrames, GoProperties, GoForProperties
       DEF B!Feed, B!Fed, B!Accepted, B!AppendLog, B!Forget
  <2>5. QED
    BY <2>2, <2>4
<1>5. ASSUME NEW r \in Briefs, B!Save(r) \/ B!Posted(r) \/ B!NoteSaved(r) PROVE Ours'
  <2>1. /\ store' = store /\ frame' = frame
        /\ UNCHANGED <<pairing, owner, unclear, straddling, changing>>
    BY <1>5 DEF B!Save, B!Posted, B!NoteSaved
  <2>2. IsOurs(r)
    <3>1. CASE B!Save(r)
      BY <3>1 DEF B!Save, IsOurs
    <3>2. CASE B!Posted(r) \/ B!NoteSaved(r)
      BY <3>2 DEF B!Posted, B!NoteSaved, Ours
    <3>3. QED
      BY <1>5, <3>1, <3>2
  <2>3. \A q \in Briefs : save'[q] = save[q] \/ q = r
    BY <1>5 DEF B!Save, B!Posted, B!NoteSaved, BriefsType
  <2>4. QED
    BY <1>a, <2>1, <2>2, <2>3, OursKept
<1>6. ASSUME NEW r \in Briefs, B!PutSaved(r) PROVE Ours'
  <2>1. /\ B!PutBack(r, "saved") /\ frame' = frame
        /\ UNCHANGED <<pairing, owner, unclear, straddling, changing>>
        /\ save[r] = "putting" /\ \A q \in Briefs : save'[q] = save[q] \/ save'[q] = "off"
    BY <1>6 DEF B!PutSaved, BriefsType
  <2>2. \A e \in (B!Stored)' : e = [run |-> r, phase |-> "saved"] \/ e \in B!Stored
    BY <2>1, PutStored DEF Phases
  <2>3. IsOurs(r)
    BY <2>1 DEF Ours
  <2>4. QED
    BY <2>1, <2>2, <2>3, OursKept
<1>7. ASSUME NEW r \in Briefs, B!Resume(r) PROVE Ours'
  <2>1. /\ store' = store /\ save' = save
        /\ UNCHANGED <<pairing, owner, unclear, straddling, changing>>
    BY <1>7 DEF B!Resume
  <2>2. \A g \in B!Frames : \/ frame'[g] = frame[g]
                            \/ g = <<r, "loop">> /\ frame'[g].pc = "waiting"
    BY <1>7, WithLoopProperties DEF B!Resume, BriefsType
  <2>3. QED
    BY <1>a, <2>1, <2>2, TwoFrames, OursKept
<1>8. ASSUME NEW r \in Briefs, B!Lapse(r) PROVE Ours'
  <2>1. /\ store' = B!Without(r) /\ frame' = frame /\ save' = save
        /\ UNCHANGED <<pairing, owner, unclear, straddling, changing>>
    BY <1>8 DEF B!Lapse
  <2>2. QED
    BY <2>1, WithoutStored, OursKept
<1>9. ASSUME NEW f \in B!Frames, B!ReadRun(f) PROVE Ours'
  <2>1. /\ store' = store /\ save' = save
        /\ UNCHANGED <<pairing, owner, unclear, straddling, changing>>
    BY <1>9 DEF B!ReadRun
  <2>2. CASE B!Found(f[1]) /\ B!Go(f, "writing")
    <3>1. IsOurs(f[1])
      BY <1>b, <2>2, FrameIsOfARun
    <3>2. frame'[f].pc = "writing" /\ \A g \in B!Frames \ {f} : frame'[g] = frame[g]
      BY <2>2, GoProperties
    <3>3. QED
      BY <1>a, <2>1, <3>1, <3>2, TwoFrames, OursKept
  <2>3. CASE B!Marked(f)
    BY <1>a, <2>1, <2>3, MarkedMoves, TwoFrames, OursKept
  <2>4. QED
    BY <1>9, <2>2, <2>3 DEF B!ReadRun
<1>c. ASSUME NEW f \in B!Frames, frame[f].pc = "writing", B!PutBack(f[1], frame[f].out)
      PROVE  \A e \in (B!Stored)' : e \in B!Stored \/ IsOurs(e.run)
  <2>1. f[1] \in Briefs /\ frame[f].out \in Phases
    BY FrameIsOfARun DEF BriefsType, FrameStates, Phases
  <2>2. \A e \in (B!Stored)' : e = [run |-> f[1], phase |-> frame[f].out] \/ e \in B!Stored
    BY <1>c, <2>1, PutStored
  <2>3. IsOurs(f[1])
    BY <1>c DEF Ours
  <2>4. QED
    BY <2>2, <2>3
<1>10. ASSUME NEW f \in B!Frames, B!WriteRun(f) PROVE Ours'
  <2>1. /\ save' = save /\ B!Marked(f) /\ frame[f].pc = "writing"
        /\ UNCHANGED <<pairing, owner, unclear, straddling, changing>>
        /\ B!PutBack(f[1], frame[f].out)
    BY <1>10 DEF B!WriteRun
  <2>2. QED
    BY <1>c, <2>1, MarkedMoves, TwoFrames, OursKept
<1>11. ASSUME NEW f \in B!Frames, B!Polled(f) \/ B!Tick(f) \/ B!CallFails(f) PROVE Ours'
  <2>1. /\ store' = store /\ save' = save
        /\ UNCHANGED <<pairing, owner, unclear, straddling, changing>>
    BY <1>11 DEF B!Polled, B!Tick, B!CallFails
  <2>2. \A g \in B!Frames : \/ frame'[g] = frame[g]
                            \/ frame'[g].pc \notin {"creating", "storing", "writing"}
    BY <1>11, PolledProperties, TickProperties, EndProperties DEF B!CallFails
  <2>3. QED
    BY <1>a, <2>1, <2>2, TwoFrames, OursKept
<1>12. ASSUME \/ \E p \in Passages : B!Collect(p)
              \/ \E ps \in SUBSET Passages : B!Drop(ps)
       PROVE  Ours'
  <2>1. /\ store' = store /\ save' = save /\ frame' = frame
        /\ UNCHANGED <<pairing, owner, unclear, straddling, changing>>
    BY <1>12 DEF B!Collect, B!Drop
  <2>2. QED
    BY <1>a, <2>1, OursKept
<1>d. ASSUME \A r : (Excused(r))' PROVE Ours'
    BY <1>d DEF Ours, IsOurs
<1>13. CASE B!ChangePairing
  <2>1. changing' = "bumping"
    BY <1>13 DEF B!ChangePairing
  <2>2. QED
    BY <1>d, <2>1 DEF Excused
<1>14. CASE B!Bump
  <2>1. changing' = "clearing" \/ unclear' = TRUE
    BY <1>14 DEF B!Bump
  <2>2. QED
    BY <1>d, <2>1 DEF Excused
<1>15. CASE B!ClearRuns
  <2>1. CASE unclear' = TRUE
    BY <1>d, <2>1 DEF Excused
  <2>2. CASE store' = <<>> /\ straddling' = {r \in Briefs : B!Putting(r)}
    <3>1. frame' = frame /\ save' = save
      BY <1>15 DEF B!ClearRuns
    <3>2. (B!Stored)' = {}
      BY <2>2 DEF B!Stored, B!ToSet
    <3>3. ASSUME NEW r \in Briefs,
                 \/ frame[<<r, "start">>].pc \in {"creating", "storing", "writing"}
                 \/ frame[<<r, "loop">>].pc = "writing"
                 \/ save[r] # "off"
          PROVE  (Excused(r))'
      BY <2>2, <3>3 DEF Excused, B!Putting
    <3>4. \A f \in B!Frames : frame'[f].pc = "writing" => (Excused(f[1]))'
      BY <3>1, <3>3, FrameIsOfARun
    <3>5. QED
      BY <3>1, <3>2, <3>3, <3>4 DEF Ours, IsOurs
  <2>3. QED
    BY <1>15, <2>1, <2>2 DEF B!ClearRuns
<1>16. CASE B!Evict
  <2>1. /\ UNCHANGED <<pairing, owner, straddling>>
        /\ unclear' = (unclear \/ changing # "no") /\ changing' = "no"
        /\ \A g \in B!Frames : frame'[g] = IF frame[g].pc = "off" THEN B!Off ELSE B!Ended(g)
        /\ \A r \in Briefs : save'[r] = "off"
    BY <1>16 DEF B!Evict
  <2>2. \A g \in B!Frames : frame'[g].pc \in {"off", "over"}
    BY <2>1, FrameRecords
  <2>3. \A r : IsOurs(r) => (IsOurs(r))'
    BY <2>1 DEF IsOurs, Excused
  <2>4. ASSUME \A e \in (B!Stored)' : e \in B!Stored \/ IsOurs(e.run) PROVE Ours'
    <3>1. \A e \in (B!Stored)' : IsOurs(e.run)
      BY <2>4 DEF Ours
    <3>2. QED
      BY <2>1, <2>2, <2>3, <3>1, TwoFrames DEF Ours
  <2>5. CASE store' = store
    BY <1>a, <2>4, <2>5
  <2>6. ASSUME NEW f \in B!Frames, frame[f].pc = "writing", B!PutBack(f[1], frame[f].out)
        PROVE  Ours'
    BY <1>c, <2>4, <2>6
  <2>7. QED
    BY <1>16, <2>5, <2>6 DEF B!Evict
<1>17. QED
    BY BriefSteps, <1>1, <1>2, <1>3, <1>4, <1>5, <1>6, <1>7, <1>8, <1>9, <1>10, <1>11,
       <1>12, <1>13, <1>14, <1>15, <1>16

\* The invariant of the briefs holds at first.
LEMMA BriefsInit ==
    ASSUME B!Init
    PROVE  BriefsInv
<1>1. B!Off \in FrameStates /\ B!Off.pc = "off"
    BY FrameRecords
<1>2. B!NoFeed \in Feeds /\ B!NoFeed.fed = {} /\ B!NoFeed.sent = {}
    BY DEF B!NoFeed, Feeds
<1>3. B!Stored = {} /\ store \in Seq(BriefEntries)
  <2>1. store = <<>>
    BY DEF B!Init
  <2>2. QED
    BY <2>1 DEF B!Stored, B!ToSet
<1>4. /\ log \in [Briefs -> {"nothing", "unsaved", "saved"}]
      /\ passage \in [Passages -> {"new", "held", "forgotten", "dropped"}]
      /\ save \in [Briefs -> {"off", "posting", "noting", "putting"}]
      /\ frame \in [B!Frames -> FrameStates] /\ feed \in [Briefs -> Feeds]
    BY <1>1, <1>2 DEF B!Init
<1>5. unclear \in BOOLEAN
    BY Zenon DEF B!Init
<1>6. /\ pairing \in Nat /\ changes \in Nat /\ generation \in Nat
      /\ changing \in {"no", "bumping", "clearing"}
      /\ owner \in [Briefs -> Nat] /\ recorded \in SUBSET Passages
      /\ left = [r \in Briefs |-> "no"]
      /\ straddling \in SUBSET Briefs
    BY DEF B!Init
<1>7. BriefsType
    BY <1>3, <1>4, <1>5, <1>6 DEF BriefsType
<1>8. /\ \A g \in B!Frames : frame[g] = B!Off
      /\ \A r \in Briefs : log[r] = "nothing" /\ save[r] = "off" /\ feed[r] = B!NoFeed
      /\ \A p \in Passages : passage[p] = "new"
    BY DEF B!Init
<1>9. Logged
  <2>1. \A g \in B!Frames : FrameLogged(g, frame[g], log[g[1]])
    BY <1>1, <1>8, FrameIsOfARun DEF FrameLogged
  <2>2. QED
    BY <1>3, <1>8, <2>1 DEF Logged, ShownAreLogged, B!SavedIsNoted
<1>10. Recorded
    BY <1>2, <1>8 DEF Recorded, B!PassagesLeaveOnlySent
<1>11. Ours
    BY <1>1, <1>3, <1>8, TwoFrames DEF Ours
<1>12. SentIsLogged
    BY <1>6 DEF SentIsLogged
<1>13. QED
    BY <1>7, <1>9, <1>10, <1>11, <1>12 DEF BriefsInv

\* It holds on when nothing of the briefs moves.
LEMMA BriefsIdle ==
    ASSUME BriefsInv, UNCHANGED B!vars
    PROVE  BriefsInv'
<1>1. UNCHANGED <<store, log, passage, frame, feed, save, pairing, changes, generation,
                  changing, owner, recorded, left, unclear, straddling>>
    BY DEF B!vars, B!stores, B!calls, B!change, B!history
<1>2. BriefsType'
    BY <1>1 DEF BriefsInv, BriefsType
<1>3. (B!Stored)' = B!Stored
    BY <1>1, Zenon DEF B!Stored, B!ToSet
<1>4. Logged'
    BY <1>1, <1>3, LoggedKept DEF BriefsInv
<1>5. Recorded'
    BY <1>1 DEF BriefsInv, Recorded, B!PassagesLeaveOnlySent
<1>6. Ours'
    BY <1>1, <1>3, OursKept DEF BriefsInv
<1>7. SentIsLogged'
    BY <1>1 DEF BriefsInv, SentIsLogged
<1>8. QED
    BY <1>2, <1>4, <1>5, <1>6, <1>7 DEF BriefsInv

\* The invariant of the briefs holds: whatever the calls, the loops, the evictions
\* and the changes of pairing do in between.
THEOREM BriefsInvHolds == WorkerSpec => [](which = "briefs" => BriefsInv)
<1> DEFINE Inv == which = "briefs" => BriefsInv
<1>1. ASSUME WorkerInit PROVE Inv
  <2>1. which = "briefs" => B!Init
    BY <1>1 DEF WorkerInit
  <2>2. QED
    BY <2>1, BriefsInit
<1>2. ASSUME Inv, [WorkerNext]_all PROVE Inv'
  <2>1. CASE WorkerNext
    <3>1. which' = which /\ (which = "briefs" => B!Next)
      BY <2>1 DEF WorkerNext
    <3>2. ASSUME which = "briefs" PROVE BriefsInv'
      BY <1>2, <3>1, <3>2, BriefsTypeStep, LoggedStep, SentStep, RecordedStep, OursStep DEF BriefsInv
    <3>3. QED
      BY <3>1, <3>2
  <2>2. CASE UNCHANGED all
    <3>1. which' = which
      BY <2>2 DEF all
    <3>2. UNCHANGED B!vars
      BY <2>2 DEF all, shared, ofBriefs, B!vars, B!stores, B!calls, B!change, B!history
    <3>3. QED
      BY <1>2, <3>1, <3>2, BriefsIdle
  <2>3. QED
    BY <1>2, <2>1, <2>2
<1>3. QED
    BY <1>1, <1>2, PTL DEF WorkerSpec

\* What has left without an entry in the disclosure log left by a call that was cut
\* short between the two; no run that the store shows as running or past it has
\* none, whatever fails or is evicted in between (brief-handlers.ts:506-528).
THEOREM UnloggedWasCutShortHolds == WorkerSpec => []UnloggedWasCutShort
<1>1. (which = "briefs" => BriefsInv) => UnloggedWasCutShort
    BY DEF BriefsInv, Logged, ShownAreLogged, SentIsLogged, UnloggedWasCutShort, B!UnloggedWasCutShort
<1>2. QED
    BY <1>1, BriefsInvHolds, PTL

\* A brief stored as saved is noted as saved in the log (brief-handlers.ts:579-594).
THEOREM SavedIsNotedHolds == WorkerSpec => []SavedIsNoted
<1>1. (which = "briefs" => BriefsInv) => SavedIsNoted
    BY DEF BriefsInv, Logged, SavedIsNoted
<1>2. QED
    BY <1>1, BriefsInvHolds, PTL

\* Passages are forgotten only when an accepted source of a run on record had them
\* (brief-handlers.ts:212-236).
THEOREM PassagesLeaveOnlySentHolds == WorkerSpec => []PassagesLeaveOnlySent
<1>1. (which = "briefs" => BriefsInv) => PassagesLeaveOnlySent
    BY DEF BriefsInv, Recorded, PassagesLeaveOnlySent
<1>2. QED
    BY <1>1, BriefsInvHolds, PTL

\* A stored run of another pairing needs a lost clear, or a call that stood between
\* what it read and its put when the runs were cleared (service-worker.ts:1139-1158).
THEOREM ForeignRunNeedsRaceHolds == WorkerSpec => []ForeignRunNeedsRace
<1>1. (which = "briefs" => BriefsInv) => ForeignRunNeedsRace
    BY DEF BriefsInv, Ours, IsOurs, Excused, ForeignRunNeedsRace, B!ForeignRunNeedsRace
<1>2. QED
    BY <1>1, BriefsInvHolds, PTL

-----------------------------------------------------------------------------
(* A lane's question.                                                      *)

LaneNames == L!AGENT_LANES \union {"none"}
Offers == L!AGENT_LANES \union UNION {b.lanes : b \in Builds}
SubjectIds == Items \union {None, Term} \union {p.product : p \in Views}
                    \union {p.coordinate : p \in Views}
Subjects == [kind : {"none", "term", "service", "file", "item"}, id : SubjectIds]
Indexes == [kind : {"found", "ambiguous", "miss"}, ids : SUBSET Items]
LaneStates == [name : LaneNames, state : {"collapsed", "failed", "running", "done"}, run : Nat]
Panels ==
    [page : Views, ids : SUBSET Items, picked : Items \union {None}, offered : SUBSET Offers,
     header : {"unrecognised", "service", "file", "no file", "found", "ambiguous", "miss", "failed"},
     term : {Term, None}, lane : LaneStates, build : Builds, alone : SUBSET Items]
Arms == {"none", "term", "service", "file", "itemUrl", "fileOrPrUrl", "prUrl", "topicOrFile"}
Calls ==
    [kind : {"agent-run", "agent-state"}, lane : LaneNames, page : Views,
     pc : {"resolving", "reading", "invoking"}, itemId : Items \union {None}, term : {Term, None},
     subject : Subjects, item : Items \union {None}, arm : Arms, read : Builds]
LaneRuns ==
    [subject : Subjects, lane : LaneNames, run : Nat \ {0}, state : {"running", "done"},
     page : Views, item : Items \union {None}]

LaneType ==
    /\ gateway \in [build : Builds, index : Indexes]
    /\ store \in SUBSET LaneRuns /\ IsFiniteSet(store)
    /\ panel \in Panels
    /\ call = L!NoCall \/ call \in Calls

\* Runs are numbered as they are stored, so a number names one run.
Numbered ==
    /\ \A r \in store : r.run <= Cardinality(store)
    /\ \A r, s \in store : r.run = s.run => r = s
    /\ panel.lane.run <= Cardinality(store)

\* What the index names alone now it has named alone since the panel was opened, and a
\* file in the header was served by the build it was opened on.
HeaderIsFounded ==
    /\ L!Alone(gateway.index) \subseteq panel.alone
    /\ panel.page.kind = "file" /\ panel.header = "file" => panel.build.files

\* The header says what its kind of page can have, and a lane whose arm only a new
\* enough gateway serves is offered if the panel was opened on such a gateway.
OffersAreServed ==
    /\ L!itemPage(panel.page) => panel.header \in {"found", "ambiguous", "miss", "failed"}
    /\ panel.page.kind = "file" => panel.header \in {"file", "no file"}
    /\ panel.picked # None => panel.header = "ambiguous"
    /\ \A name \in panel.offered :
          /\ panel.header \in {"found", "ambiguous"}
          /\ L!itemArmPolicy(name, panel.page.kind) = "item-required"
          => panel.build.itemArm

\* A call is about the page on screen; one about the page has its subject there, and
\* asks an agent that belongs there by an arm that the build it rests on serves.
CallsAreOffered ==
    call # L!NoCall =>
        /\ call.page = panel.page /\ call.lane = panel.lane.name /\ call.lane # "none"
        /\ call.lane # "glossary" => call.itemId = panel.picked
        /\ call.kind = "agent-run" /\ call.lane # "glossary" =>
              /\ L!laneBelongsOnSurface(call.lane, call.page.kind)
              /\ L!itemArmPolicy(call.lane, call.page.kind) = "item-required" => panel.build.itemArm
        /\ call.pc # "resolving" /\ call.subject.kind = "item" => call.subject.id = call.item
        /\ call.pc # "resolving" /\ L!itemPage(panel.page) /\ call.lane # "glossary" =>
              call.item \in L!ShownItems \union panel.alone
        /\ call.pc = "invoking" =>
              /\ call.arm = "itemUrl" => L!RestsOn.itemArm
              /\ call.arm = "file" => L!RestsOn.files

LanesHaveSubjects ==
    /\ panel.lane.name \notin {"none", "glossary"} => L!pageSubject
    /\ panel.lane.state = "running" => panel.lane.name # "none"
    /\ \A r \in store : r.subject.kind = "item" => r.item = r.subject.id

LaneInv ==
    /\ LaneType /\ Numbered /\ HeaderIsFounded /\ OffersAreServed
    /\ CallsAreOffered /\ LanesHaveSubjects
    /\ L!ArmIsServed /\ L!AnswerIsOfTheShownItem

\* The lanes count runs as the library does.
LEMMA SameCount == \A runs : L!Cardinality(runs) = Cardinality(runs)
BY Zenon DEF L!Cardinality, Cardinality, L!IsFiniteSet, IsFiniteSet

\* A gateway that names no version is below any floor.
LEMMA NoVersion == ~ L!meetsFloor(<<>>)
BY DEF L!meetsFloor

\* A roster that meets the floor is of a gateway that serves the item arm.
LEMMA RosterMeetsFloor ==
    ASSUME LaneType, NEW roster \in L!Rosters
    PROVE  /\ L!meetsFloor(roster.version) => gateway.build.itemArm
           /\ roster.names \subseteq Offers
<1>1. gateway.build \in Builds
    BY DEF LaneType
<1>2. CASE roster = [known |-> FALSE, names |-> {}, version |-> <<>>]
    BY <1>2, NoVersion
<1>3. CASE roster = [known |-> TRUE, names |-> gateway.build.lanes, version |-> gateway.build.version]
    BY <1>1, <1>3, LanesAssumption DEF Offers
<1>4. QED
    BY <1>2, <1>3 DEF L!Rosters

\* A step that leaves the header and the gateway alone leaves what they say alone.
SameHeader ==
    /\ panel'.page = panel.page /\ panel'.ids = panel.ids /\ panel'.picked = panel.picked
    /\ panel'.offered = panel.offered /\ panel'.header = panel.header
    /\ panel'.build = panel.build /\ panel'.alone = panel.alone
LEMMA HeaderKept ==
    ASSUME HeaderIsFounded, OffersAreServed, SameHeader, gateway' = gateway
    PROVE  HeaderIsFounded' /\ OffersAreServed' /\ (L!pageSubject)' = L!pageSubject
           /\ (L!ShownItems)' = L!ShownItems /\ panel'.alone = panel.alone
BY DEF HeaderIsFounded, OffersAreServed, SameHeader, L!pageSubject, L!ShownItems, L!itemPage

\* What a step leaves in the panel's lane.
LaneIs(name, state, run) ==
    panel'.lane.name = name /\ panel'.lane.state = state /\ panel'.lane.run = run

\* The moves of the panel's lane.
LEMMA PanelMoves ==
    ASSUME panel \in Panels, NEW name \in LaneNames,
           NEW state \in {"collapsed", "failed", "running", "done"}, NEW run \in Nat
    PROVE  /\ panel' = [panel EXCEPT !.lane = [L!Collapsed EXCEPT !.name = name]] =>
                 /\ panel' \in Panels /\ SameHeader
                 /\ LaneIs(name, "collapsed", 0)
           /\ panel' = [panel EXCEPT !.lane.state = state, !.lane.run = run] =>
                 /\ panel' \in Panels /\ SameHeader
                 /\ LaneIs(panel.lane.name, state, run)
           /\ panel' = [panel EXCEPT !.term = Term] =>
                 panel' \in Panels /\ SameHeader /\ panel'.lane = panel.lane
<1>1. /\ L!Collapsed \in LaneStates
      /\ [L!Collapsed EXCEPT !.name = name] = [name |-> name, state |-> "collapsed", run |-> 0]
      /\ [name |-> name, state |-> "collapsed", run |-> 0] \in LaneStates
    BY DEF L!Collapsed, LaneStates, LaneNames
<1>2. ASSUME panel' = [panel EXCEPT !.lane = [L!Collapsed EXCEPT !.name = name]]
      PROVE  /\ panel' \in Panels /\ SameHeader
             /\ LaneIs(name, "collapsed", 0)
    BY <1>1, <1>2 DEF Panels, SameHeader, LaneIs
<1>3. ASSUME panel' = [panel EXCEPT !.lane.state = state, !.lane.run = run]
      PROVE  /\ panel' \in Panels /\ SameHeader
             /\ LaneIs(panel.lane.name, state, run)
  <2> DEFINE mid == [panel.lane EXCEPT !.state = state]
             new == [mid EXCEPT !.run = run]
  <2>1. panel.lane \in LaneStates
    BY DEF Panels
  <2>2. mid \in LaneStates /\ mid.name = panel.lane.name /\ mid.state = state
    BY <2>1 DEF LaneStates
  <2> HIDE DEF mid
  <2>3. new \in LaneStates /\ new.name = mid.name /\ new.state = mid.state /\ new.run = run
    BY <2>2 DEF LaneStates
  <2> USE DEF mid
  <2>4. panel' = [panel EXCEPT !.lane = new]
    BY <1>3, <2>1 DEF Panels, LaneStates
  <2> HIDE DEF mid, new
  <2>5. panel' \in Panels /\ SameHeader /\ panel'.lane = new
    BY <2>3, <2>4 DEF Panels, SameHeader
  <2>6. QED
    BY <2>2, <2>3, <2>5 DEF LaneIs
<1>4. ASSUME panel' = [panel EXCEPT !.term = Term]
      PROVE  panel' \in Panels /\ SameHeader /\ panel'.lane = panel.lane
    BY <1>4 DEF Panels, SameHeader
<1>5. QED
    BY <1>2, <1>3, <1>4

\* What the worker resolves for a lane about an item is the item in the header, or one
\* that the index names alone.
LEMMA ResolvedItem ==
    ASSUME LaneInv, call # L!NoCall, NEW item, L!resolveForAgent(item)
    PROVE  /\ L!itemPage(panel.page) /\ call.lane # "glossary" =>
                 item \in L!ShownItems \union panel.alone
           /\ L!subjectFor(item).kind = "item" => L!subjectFor(item).id = item
           /\ call.lane # "glossary" /\ L!itemPage(call.page) =>
                 L!subjectFor(item) = [kind |-> "item", id |-> item]
<1>1. call.page = panel.page /\ call.lane = panel.lane.name /\ call.lane # "none"
    BY DEF LaneInv, CallsAreOffered
<1>2. ASSUME L!itemPage(panel.page), call.lane # "glossary"
      PROVE  item \in L!ShownItems \union panel.alone
  <2>1. item \in L!SubjectItems(gateway.index, panel.picked)
    BY <1>1, <1>2 DEF L!resolveForAgent, LaneInv, CallsAreOffered
  <2>2. CASE gateway.index.kind = "found"
    BY <2>1, <2>2 DEF L!SubjectItems, LaneInv, HeaderIsFounded, L!Alone
  <2>3. CASE gateway.index.kind # "found"
    <3>1. item \in gateway.index.ids /\ item = panel.picked
      BY <2>1, <2>3 DEF L!SubjectItems
    <3>2. gateway.index.ids \subseteq Items
      BY DEF LaneInv, LaneType, Indexes
    <3>3. panel.picked # None
      BY <3>1, <3>2, LanesAssumption
    <3>4. QED
      BY <3>1, <3>3 DEF L!ShownItems
  <2>4. QED
    BY <2>2, <2>3
<1>3. L!subjectFor(item).kind = "item" => L!subjectFor(item).id = item
    BY DEF L!subjectFor
<1>4. call.lane # "glossary" /\ L!itemPage(call.page) =>
         L!subjectFor(item) = [kind |-> "item", id |-> item]
    BY DEF L!subjectFor, L!itemPage
<1>5. QED
    BY <1>2, <1>3, <1>4

\* The arm chosen for a question is one that the build it rests on serves, where an arm
\* that is only preferred rests on the build whose roster was read.
LEMMA ArmServed ==
    ASSUME LaneInv, call # L!NoCall, call.kind = "agent-run", NEW roster \in L!Rosters
    PROVE  LET build == IF L!itemArmPolicy(call.lane, call.page.kind) = "item-preferred"
                        THEN gateway.build ELSE panel.build
           IN  /\ L!agentParams(roster) = "itemUrl" => build.itemArm
               /\ L!agentParams(roster) = "file" => build.files
               /\ L!agentParams(roster) \in Arms
<1> DEFINE policy == L!itemArmPolicy(call.lane, call.page.kind)
           build == IF policy = "item-preferred" THEN gateway.build ELSE panel.build
<1>0. /\ call.lane = "glossary" => L!agentParams(roster) = "term"
      /\ call.lane # "glossary" /\ call.page.kind = "home" => L!agentParams(roster) = "service"
      /\ call.lane # "glossary" /\ call.page.kind = "file" => L!agentParams(roster) = "file"
      /\ call.lane # "glossary" /\ call.page.kind \notin {"home", "file"} =>
            L!agentParams(roster) \in {"itemUrl", "fileOrPrUrl", "prUrl", "topicOrFile"}
    BY DEF L!agentParams
<1>1. call.page = panel.page /\ call.lane = panel.lane.name /\ call.lane # "none"
    BY DEF LaneInv, CallsAreOffered
<1>2. call.lane # "glossary" =>
         /\ L!laneBelongsOnSurface(call.lane, call.page.kind)
         /\ policy = "item-required" => panel.build.itemArm
    BY DEF LaneInv, CallsAreOffered
<1>3. L!meetsFloor(roster.version) => gateway.build.itemArm
    BY RosterMeetsFloor DEF LaneInv
<1>4. ASSUME L!agentParams(roster) = "itemUrl" PROVE build.itemArm
  <2>1. call.lane # "glossary" /\ call.page.kind \notin {"home", "file"}
    BY <1>0, <1>4
  <2>2. CASE call.lane = "ownership"
    <3>1. call.page.kind \in {"issue", "incident"}
      BY <1>2, <2>1, <2>2 DEF L!laneBelongsOnSurface, L!LANE_RULES, L!AGENT_LANES
    <3>2. policy = "item-required"
      BY <2>2, <3>1 DEF L!itemArmPolicy
    <3>3. QED
      BY <1>2, <2>1, <3>2
  <2>3. CASE call.lane # "ownership"
    <3>1. \/ policy = "item-required"
          \/ policy = "item-preferred" /\ L!meetsFloor(roster.version)
      BY <1>4, <2>1, <2>3 DEF L!agentParams
    <3>2. QED
      BY <1>2, <1>3, <2>1, <3>1
  <2>4. QED
    BY <2>2, <2>3
<1>5. ASSUME L!agentParams(roster) = "file" PROVE build.files
  <2>1. call.lane # "glossary" /\ call.page.kind = "file"
    BY <1>0, <1>5
  <2>2. L!pageSubject
    BY <1>1, <2>1 DEF LaneInv, LanesHaveSubjects
  <2>3. panel.header = "file"
    BY <1>1, <2>1, <2>2 DEF LaneInv, OffersAreServed, L!pageSubject
  <2>4. panel.build.files
    BY <1>1, <2>1, <2>3 DEF LaneInv, HeaderIsFounded
  <2>5. policy # "item-preferred"
    BY <2>1 DEF L!itemArmPolicy
  <2>6. QED
    BY <2>4, <2>5
<1>6. L!agentParams(roster) \in Arms
    BY <1>0 DEF Arms
<1>7. QED
    BY <1>4, <1>5, <1>6

\* A question of no run, or the same one, was asked by an arm that is served.
LEMMA ArmKept ==
    ASSUME L!ArmIsServed, asked' = asked \/ asked' = L!NoQuestion
    PROVE  (L!ArmIsServed)'
BY DEF L!ArmIsServed, L!NoQuestion

\* A lane that shows no run shows none of another item.
LEMMA NoneShown ==
    ASSUME LaneType', panel'.lane.run = 0
    PROVE  (L!AnswerIsOfTheShownItem)'
<1>1. \A r \in store' : r.run \in Nat \ {0}
    BY DEF LaneType, LaneRuns
<1>2. \A r \in store' : r.run # 0
    BY <1>1
<1>3. (L!shownRuns)' = {}
    BY <1>2 DEF L!shownRuns
<1>4. QED
    BY <1>3 DEF L!AnswerIsOfTheShownItem

\* The panel opens on a page.
LEMMA OpenStep ==
    ASSUME LaneInv, NEW page \in Views, L!Open(page)
    PROVE  LaneInv'
<1>1. PICK roster \in L!Rosters, answer \in L!ResolvesTo : panel' = L!handleResolve(page, roster, answer)
    BY DEF L!Open
<1>2. /\ call = L!NoCall /\ asked' = L!NoQuestion
      /\ gateway' = gateway /\ store' = store /\ call' = call
    BY DEF L!Open
<1>3. gateway \in [build : Builds, index : Indexes] /\ panel \in Panels
    BY DEF LaneInv, LaneType
<1>4. answer = gateway.index \/ answer = [kind |-> "failed", ids |-> {}]
    BY DEF L!ResolvesTo
<1>5. answer.kind \in {"found", "ambiguous", "miss", "failed"} /\ answer.ids \subseteq Items
    BY <1>3, <1>4 DEF Indexes
<1>6. L!offeredLanes(roster, page.kind) \subseteq Offers /\ L!AGENT_LANES \subseteq Offers
    BY RosterMeetsFloor DEF LaneInv, L!offeredLanes, Offers
<1>7. L!Collapsed \in LaneStates /\ L!Collapsed.name = "none" /\ L!Collapsed.state = "collapsed"
      /\ L!Collapsed.run = 0
    BY DEF L!Collapsed, LaneStates, LaneNames
<1>8. /\ panel'.page = page /\ panel'.picked = None /\ panel'.term = None
      /\ panel'.lane = L!Collapsed
      /\ panel'.build = gateway.build /\ panel'.alone = L!Alone(gateway.index)
    BY <1>1, <1>3 DEF L!handleResolve, Panels
<1>9. /\ page.kind = "plain" => panel'.header = "unrecognised"
      /\ page.kind = "home" => panel'.header = "service"
      /\ page.kind = "file" => panel'.header = (IF gateway.build.files /\ answer.kind # "failed"
                                                THEN "file" ELSE "no file")
      /\ page.kind \notin {"plain", "home", "file"} => panel'.header = answer.kind
      /\ panel'.ids = IF L!itemPage(page) THEN answer.ids ELSE {}
      /\ panel'.offered = IF page.kind = "plain" \/ (L!itemPage(page) /\ answer.kind = "failed")
                          THEN L!AGENT_LANES ELSE L!offeredLanes(roster, page.kind)
    BY <1>1, <1>3 DEF L!handleResolve, Panels
<1>10. panel' \in Panels
  <2>1. panel'.ids \in SUBSET Items /\ panel'.offered \in SUBSET Offers
    BY <1>5, <1>6, <1>9
  <2>2. panel'.header \in {"unrecognised", "service", "file", "no file", "found", "ambiguous", "miss", "failed"}
    BY <1>5, <1>9
  <2>3. DOMAIN panel' = DOMAIN panel /\ panel' = [f \in DOMAIN panel |-> panel'[f]]
    BY <1>1 DEF L!handleResolve
  <2>4. panel'.build \in Builds /\ panel'.alone \in SUBSET Items
    BY <1>3, <1>8 DEF L!Alone, Indexes
  <2>5. QED
    BY <1>3, <1>7, <1>8, <2>1, <2>2, <2>3, <2>4 DEF Panels
<1>11. LaneType'
    BY <1>2, <1>10 DEF LaneInv, LaneType
<1>12. Numbered'
  <2>1. Cardinality(store) \in Nat
    BY FS_CardinalityType DEF LaneInv, LaneType
  <2>2. QED
    BY <1>2, <1>7, <1>8, <2>1 DEF LaneInv, Numbered
<1>13. HeaderIsFounded'
  <2>1. page.kind = "file" /\ panel'.header = "file" => gateway.build.files
    BY <1>9
  <2>2. QED
    BY <1>2, <1>8, <2>1 DEF HeaderIsFounded
<1>14. OffersAreServed'
  <2>1. L!itemPage(page) => panel'.header \in {"found", "ambiguous", "miss", "failed"}
    BY <1>5, <1>9 DEF L!itemPage
  <2>2. page.kind = "file" => panel'.header \in {"file", "no file"}
    BY <1>9
  <2>3. ASSUME NEW name \in panel'.offered, panel'.header \in {"found", "ambiguous"},
               L!itemArmPolicy(name, page.kind) = "item-required"
        PROVE  gateway.build.itemArm
    <3>1. page.kind # "plain" /\ ~(L!itemPage(page) /\ answer.kind = "failed")
      BY <1>9, <2>3 DEF L!itemPage
    <3>2. name \in L!offeredLanes(roster, page.kind)
      BY <1>9, <2>3, <3>1
    <3>3. QED
      BY <2>3, <3>2, RosterMeetsFloor DEF LaneInv, L!offeredLanes
  <2>4. QED
    BY <1>2, <1>8, <2>1, <2>2, <2>3 DEF OffersAreServed, L!itemPage
<1>15. CallsAreOffered'
    BY <1>2 DEF CallsAreOffered
<1>16. LanesHaveSubjects'
    BY <1>2, <1>7, <1>8 DEF LaneInv, LanesHaveSubjects
<1>17. (L!ArmIsServed)'
    BY <1>2, ArmKept DEF LaneInv
<1>18. (L!AnswerIsOfTheShownItem)'
    BY <1>7, <1>8, <1>11, NoneShown
<1>19. QED
    BY <1>11, <1>12, <1>13, <1>14, <1>15, <1>16, <1>17, <1>18 DEF LaneInv

\* A step of the panel alone, with no call under way, that leaves the lane collapsed.
LEMMA CollapsedStep ==
    ASSUME LaneInv, call = L!NoCall, call' = call, gateway' = gateway, store' = store, asked' = asked,
           panel' \in Panels, panel'.lane = L!Collapsed, HeaderIsFounded', OffersAreServed'
    PROVE  LaneInv'
<1>1. L!Collapsed.name = "none" /\ L!Collapsed.state = "collapsed" /\ L!Collapsed.run = 0
    BY DEF L!Collapsed
<1>2. LaneType'
    BY DEF LaneInv, LaneType
<1>3. Numbered'
  <2>1. Cardinality(store) \in Nat
    BY FS_CardinalityType DEF LaneInv, LaneType
  <2>2. QED
    BY <1>1, <2>1 DEF LaneInv, Numbered
<1>4. CallsAreOffered'
    BY DEF CallsAreOffered
<1>5. LanesHaveSubjects'
    BY <1>1 DEF LaneInv, LanesHaveSubjects
<1>6. (L!ArmIsServed)'
    BY ArmKept DEF LaneInv
<1>7. (L!AnswerIsOfTheShownItem)'
    BY <1>1, <1>2, NoneShown
<1>8. QED
    BY <1>2, <1>3, <1>4, <1>5, <1>6, <1>7 DEF LaneInv

\* One of several items is picked.
LEMMA PickStep ==
    ASSUME LaneInv, NEW id \in Items, L!withPick(id)
    PROVE  LaneInv'
<1>1. /\ call = L!NoCall /\ panel.header = "ambiguous"
      /\ panel' = [panel EXCEPT !.picked = id, !.lane = L!Collapsed]
      /\ gateway' = gateway /\ store' = store /\ call' = call /\ asked' = asked
    BY DEF L!withPick
<1>2. panel \in Panels /\ L!Collapsed \in LaneStates
    BY DEF LaneInv, LaneType, L!Collapsed, LaneStates, LaneNames
<1>3. /\ panel' \in Panels /\ panel'.lane = L!Collapsed
      /\ panel'.page = panel.page /\ panel'.ids = panel.ids /\ panel'.offered = panel.offered
      /\ panel'.header = panel.header /\ panel'.build = panel.build /\ panel'.alone = panel.alone
    BY <1>1, <1>2 DEF Panels
<1>4. HeaderIsFounded'
    BY <1>1, <1>3 DEF LaneInv, HeaderIsFounded, L!itemPage
<1>5. OffersAreServed'
    BY <1>1, <1>3 DEF LaneInv, OffersAreServed, L!itemPage
<1>6. QED
    BY <1>1, <1>3, <1>4, <1>5, CollapsedStep

\* The library's bound on the number of runs survives a step that stores none.
LEMMA NumberedKept ==
    ASSUME LaneInv, store' = store, panel'.lane.run = panel.lane.run \/ panel'.lane.run = 0
    PROVE  Numbered'
<1>1. Cardinality(store) \in Nat
    BY FS_CardinalityType DEF LaneInv, LaneType
<1>2. QED
    BY <1>1 DEF LaneInv, Numbered

\* A term is selected.
LEMMA SelectStep ==
    ASSUME LaneInv, L!Select
    PROVE  LaneInv'
<1>1. /\ panel' = [panel EXCEPT !.term = Term] /\ call = L!NoCall
      /\ gateway' = gateway /\ store' = store /\ call' = call /\ asked' = asked
    BY DEF L!Select
<1>2. panel' \in Panels /\ SameHeader /\ panel'.lane = panel.lane
  <2>1. panel \in Panels
    BY DEF LaneInv, LaneType
  <2>2. QED
    BY <1>1, <2>1 DEF Panels, SameHeader
<1>3. LaneType'
    BY <1>1, <1>2 DEF LaneInv, LaneType
<1>4. Numbered'
    BY <1>1, <1>2, NumberedKept
<1>5. HeaderIsFounded' /\ OffersAreServed' /\ (L!pageSubject)' = L!pageSubject
    BY <1>1, <1>2, HeaderKept DEF LaneInv
<1>6. CallsAreOffered'
    BY <1>1 DEF CallsAreOffered
<1>7. LanesHaveSubjects'
    BY <1>1, <1>2, <1>5 DEF LaneInv, LanesHaveSubjects
<1>8. (L!ArmIsServed)'
    BY <1>1, ArmKept DEF LaneInv
<1>9. (L!AnswerIsOfTheShownItem)'
    BY <1>1, <1>2 DEF LaneInv, L!AnswerIsOfTheShownItem, L!aboutItem, L!ShownItems, L!shownRuns,
                         SameHeader, L!itemPage
<1>10. QED
    BY <1>3, <1>4, <1>5, <1>6, <1>7, <1>8, <1>9 DEF LaneInv

\* The request of a lane that is on the page.
LEMMA RequestIsOffered ==
    ASSUME LaneInv, NEW kind \in {"agent-run", "agent-state"}, NEW name \in LaneNames,
           name # "none", SameHeader, panel'.lane.name = name, gateway' = gateway,
           call' = L!laneRequestInput(kind, name),
           kind = "agent-run" /\ name # "glossary" =>
               /\ name \in panel.offered /\ L!pageSubject
               /\ L!laneBelongsOnSurface(name, panel.page.kind)
    PROVE  call' \in Calls /\ CallsAreOffered'
<1>1. panel \in Panels /\ gateway.build \in Builds
    BY DEF LaneInv, LaneType
<1>2. [kind |-> "none", id |-> None] \in Subjects /\ "none" \in Arms
    BY DEF Subjects, SubjectIds, Arms
<1>3. /\ call'.kind = kind /\ call'.lane = name /\ call'.page = panel.page /\ call'.pc = "resolving"
      /\ name # "glossary" => call'.itemId = panel.picked
    BY DEF L!laneRequestInput
<1>4. call' \in Calls
    BY <1>1, <1>2 DEF L!laneRequestInput, Calls, Panels
<1>5. ASSUME kind = "agent-run", name # "glossary",
             L!itemArmPolicy(name, panel.page.kind) = "item-required"
      PROVE  panel.build.itemArm
  <2>1. name \in panel.offered /\ L!pageSubject
    BY <1>5
  <2>2. L!itemPage(panel.page)
    BY <1>5 DEF L!itemArmPolicy, L!itemPage
  <2>3. panel.header \in {"found", "ambiguous"}
    BY <2>1, <2>2 DEF LaneInv, OffersAreServed, L!pageSubject
  <2>4. QED
    BY <1>5, <2>1, <2>3 DEF LaneInv, OffersAreServed
<1>6. CallsAreOffered'
    BY <1>3, <1>5 DEF CallsAreOffered, SameHeader
<1>7. QED
    BY <1>4, <1>6

\* A lane is expanded.
LEMMA ExpandStep ==
    ASSUME LaneInv, NEW name \in L!AGENT_LANES, L!Expand(name)
    PROVE  LaneInv'
<1>1. /\ name \in L!lanesFor /\ call' = L!laneRequestInput("agent-run", name)
      /\ panel' = [panel EXCEPT !.lane = [L!Collapsed EXCEPT !.name = name]]
      /\ gateway' = gateway /\ store' = store /\ asked' = asked
    BY DEF L!Expand
<1>2. name \in LaneNames /\ name # "none"
    BY DEF LaneNames, L!AGENT_LANES
<1>3. /\ panel' \in Panels /\ SameHeader
      /\ panel'.lane.name = name /\ panel'.lane.state = "collapsed" /\ panel'.lane.run = 0
    BY <1>1, <1>2, PanelMoves DEF LaneInv, LaneType, LaneIs
<1>4. name # "glossary" =>
         name \in panel.offered /\ L!pageSubject /\ L!laneBelongsOnSurface(name, panel.page.kind)
    BY <1>1 DEF L!lanesFor
<1>5. call' \in Calls /\ CallsAreOffered'
  <2>1. "agent-run" \in {"agent-run", "agent-state"}
    OBVIOUS
  <2>2. QED
    BY <1>1, <1>2, <1>3, <1>4, <2>1, RequestIsOffered
<1>6. LaneType'
    BY <1>1, <1>3, <1>5 DEF LaneInv, LaneType
<1>7. Numbered'
    BY <1>1, <1>3, NumberedKept
<1>8. HeaderIsFounded' /\ OffersAreServed' /\ (L!pageSubject)' = L!pageSubject
    BY <1>1, <1>3, HeaderKept DEF LaneInv
<1>9. LanesHaveSubjects'
    BY <1>1, <1>3, <1>4, <1>8 DEF LaneInv, LanesHaveSubjects
<1>10. (L!ArmIsServed)'
    BY <1>1, ArmKept DEF LaneInv
<1>11. (L!AnswerIsOfTheShownItem)'
    BY <1>3, <1>6, NoneShown
<1>12. QED
    BY <1>5, <1>6, <1>7, <1>8, <1>9, <1>10, <1>11 DEF LaneInv

\* A running lane is asked about.
LEMMA PollStep ==
    ASSUME LaneInv, L!Poll
    PROVE  LaneInv'
<1>1. /\ panel.lane.state = "running" /\ call' = L!laneRequestInput("agent-state", panel.lane.name)
      /\ gateway' = gateway /\ store' = store /\ asked' = asked /\ panel' = panel
    BY DEF L!Poll
<1>2. panel.lane.name \in LaneNames /\ panel.lane.name # "none"
    BY <1>1 DEF LaneInv, LaneType, Panels, LaneStates, LanesHaveSubjects
<1>3. SameHeader
    BY <1>1 DEF SameHeader
<1>4. call' \in Calls /\ CallsAreOffered'
  <2>1. "agent-state" \in {"agent-run", "agent-state"}
    OBVIOUS
  <2>2. QED
    BY <1>1, <1>2, <1>3, <2>1, RequestIsOffered
<1>5. LaneType'
    BY <1>1, <1>4 DEF LaneInv, LaneType
<1>6. Numbered'
    BY <1>1, NumberedKept
<1>7. HeaderIsFounded' /\ OffersAreServed' /\ (L!pageSubject)' = L!pageSubject
    BY <1>1, <1>3, HeaderKept DEF LaneInv
<1>8. LanesHaveSubjects'
    BY <1>1, <1>7 DEF LaneInv, LanesHaveSubjects
<1>9. (L!ArmIsServed)'
    BY <1>1, ArmKept DEF LaneInv
<1>10. (L!AnswerIsOfTheShownItem)'
    BY <1>1 DEF LaneInv, L!AnswerIsOfTheShownItem, L!aboutItem, L!ShownItems, L!shownRuns,
                         L!itemPage
<1>11. QED
    BY <1>4, <1>5, <1>6, <1>7, <1>8, <1>9, <1>10 DEF LaneInv

\* A reply to a lane, whose run is stored: the invariant holds on if the run is of the
\* item in the header.
LEMMA ReplyStep ==
    ASSUME LaneInv, call # L!NoCall, NEW state \in {"collapsed", "failed", "running", "done"},
           NEW run \in Nat, L!Replied(state, run), gateway' = gateway,
           store' \in SUBSET LaneRuns, IsFiniteSet(store'),
           \A r \in store' : r.run <= Cardinality(store'),
           \A r, s \in store' : r.run = s.run => r = s,
           run <= Cardinality(store'),
           \A r \in store' : r.subject.kind = "item" => r.item = r.subject.id,
           (L!ArmIsServed)',
           L!itemPage(panel.page) /\ call.lane # "glossary" =>
               \A r \in store' : r.run = run => r.item \in L!ShownItems \union panel.alone
    PROVE  LaneInv'
<1>1. panel' = [panel EXCEPT !.lane.state = state, !.lane.run = run] /\ call' = L!NoCall
    BY DEF L!Replied
<1>2. panel.lane.name \in LaneNames /\ call.lane = panel.lane.name /\ call.lane # "none"
    BY DEF LaneInv, LaneType, Panels, LaneStates, CallsAreOffered
<1>3. /\ panel' \in Panels /\ SameHeader
      /\ panel'.lane.name = panel.lane.name /\ panel'.lane.state = state /\ panel'.lane.run = run
    BY <1>1, <1>2, PanelMoves DEF LaneInv, LaneType, LaneIs
<1>4. LaneType'
    BY <1>1, <1>3 DEF LaneInv, LaneType
<1>5. Numbered'
    BY <1>3 DEF Numbered
<1>6. /\ HeaderIsFounded' /\ OffersAreServed' /\ (L!pageSubject)' = L!pageSubject
      /\ (L!ShownItems)' = L!ShownItems /\ panel'.alone = panel.alone
    BY <1>3, HeaderKept DEF LaneInv
<1>7. CallsAreOffered'
    BY <1>1 DEF CallsAreOffered
<1>8. LanesHaveSubjects'
    BY <1>2, <1>3, <1>6 DEF LaneInv, LanesHaveSubjects
<1>9. (L!AnswerIsOfTheShownItem)'
  <2>1. ASSUME L!itemPage(panel'.page), panel'.lane.name # "glossary",
               NEW r \in store', r.run = run
        PROVE  r.item \in L!ShownItems \union panel.alone
    BY <1>2, <1>3, <2>1 DEF SameHeader
  <2>2. (L!aboutItem)' => L!itemPage(panel'.page) /\ panel'.lane.name # "glossary"
    BY DEF L!aboutItem, L!itemPage
  <2>3. (L!shownRuns)' = {r \in store' : r.run = run}
    BY <1>3 DEF L!shownRuns
  <2>4. QED
    BY <1>6, <2>1, <2>2, <2>3 DEF L!AnswerIsOfTheShownItem
<1>10. QED
    BY <1>4, <1>5, <1>6, <1>7, <1>8, <1>9 DEF LaneInv

\* A reply that stores nothing.
LEMMA ReplyOnlyStep ==
    ASSUME LaneInv, call # L!NoCall, NEW state \in {"collapsed", "failed", "running", "done"},
           NEW run \in Nat, L!Replied(state, run), gateway' = gateway, store' = store, asked' = asked,
           run <= Cardinality(store),
           L!itemPage(panel.page) /\ call.lane # "glossary" =>
               \A r \in store : r.run = run => r.item \in L!ShownItems \union panel.alone
    PROVE  LaneInv'
<1>1. (L!ArmIsServed)'
    BY ArmKept DEF LaneInv
<1>2. /\ store' \in SUBSET LaneRuns /\ IsFiniteSet(store')
      /\ \A r \in store' : r.run <= Cardinality(store')
      /\ \A r, s \in store' : r.run = s.run => r = s
      /\ \A r \in store' : r.subject.kind = "item" => r.item = r.subject.id
      /\ run <= Cardinality(store')
    BY DEF LaneInv, LaneType, Numbered, LanesHaveSubjects
<1>3. QED
    BY <1>1, <1>2, ReplyStep

\* The worker has resolved the page of a lane.
LEMMA ResolvesStep ==
    ASSUME LaneInv, L!Resolves
    PROVE  LaneInv'
<1>1. /\ call # L!NoCall /\ call \in Calls
      /\ gateway' = gateway /\ store' = store /\ asked' = asked
  <2>1. call.kind # "none" /\ gateway' = gateway /\ store' = store /\ asked' = asked
    BY DEF L!Resolves
  <2>2. call # L!NoCall
    BY <2>1 DEF L!NoCall
  <2>3. QED
    BY <2>1, <2>2 DEF LaneInv, LaneType
<1>2. Cardinality(store) \in Nat /\ \A r \in store : r.run \in Nat \ {0}
    BY FS_CardinalityType DEF LaneInv, LaneType, LaneRuns
<1>3. ASSUME NEW item \in Items \union {None}, L!resolveForAgent(item),
             NEW r \in L!Cached(L!subjectFor(item)), L!Replied(r.state, r.run)
      PROVE  LaneInv'
  <2>1. /\ r \in store /\ r.subject = L!subjectFor(item)
        /\ r.state \in {"running", "done"} /\ r.run \in Nat /\ r.run <= Cardinality(store)
    BY <1>2 DEF L!Cached, LaneInv, LaneType, LaneRuns, Numbered
  <2>2. ASSUME L!itemPage(panel.page), call.lane # "glossary",
               NEW s \in store, s.run = r.run
        PROVE  s.item \in L!ShownItems \union panel.alone
    <3>1. s = r
      BY <2>1, <2>2 DEF LaneInv, Numbered
    <3>2. call.page = panel.page
      BY <1>1 DEF LaneInv, CallsAreOffered
    <3>3. r.subject = [kind |-> "item", id |-> item] /\ item \in L!ShownItems \union panel.alone
      BY <1>1, <1>3, <2>1, <2>2, <3>2, ResolvedItem
    <3>4. r.item = item
      BY <2>1, <3>3 DEF LaneInv, LanesHaveSubjects
    <3>5. QED
      BY <3>1, <3>3, <3>4
  <2>3. QED
    BY <1>1, <1>3, <2>1, <2>2, ReplyOnlyStep
<1>4. ASSUME L!Replied("collapsed", 0) \/ L!Replied("failed", 0) PROVE LaneInv'
  <2>1. ~ \E r \in store : r.run = 0
    BY <1>2
  <2>2. 0 \in Nat /\ 0 <= Cardinality(store)
    BY <1>2
  <2>3. QED
    BY <1>1, <1>4, <2>1, <2>2, ReplyOnlyStep
<1>5. ASSUME NEW item \in Items \union {None}, L!resolveForAgent(item), call.kind # "agent-state",
             call' = [call EXCEPT !.pc = "reading", !.subject = L!subjectFor(item), !.item = item],
             panel' = panel
      PROVE  LaneInv'
  <2>1. L!subjectFor(item) \in Subjects
    <3>1. call.term \in SubjectIds /\ item \in SubjectIds
      BY <1>1, <1>5 DEF Calls, SubjectIds
    <3>2. call.page.product \in SubjectIds /\ call.page.coordinate \in SubjectIds
      BY <1>1 DEF Calls, SubjectIds
    <3>3. QED
      BY <3>1, <3>2 DEF L!subjectFor, Subjects
  <2>2. /\ call' \in Calls /\ call'.pc = "reading" /\ call'.subject = L!subjectFor(item)
        /\ call'.item = item /\ call'.kind = call.kind /\ call'.lane = call.lane
        /\ call'.page = call.page /\ call'.itemId = call.itemId
    BY <1>1, <1>5, <2>1 DEF Calls
  <2>3. LaneType'
    BY <1>1, <1>5, <2>2 DEF LaneInv, LaneType
  <2>4. Numbered'
    BY <1>1, <1>5, NumberedKept
  <2>5. SameHeader
    BY <1>5 DEF SameHeader
  <2>6. /\ HeaderIsFounded' /\ OffersAreServed' /\ (L!pageSubject)' = L!pageSubject
        /\ (L!ShownItems)' = L!ShownItems /\ panel'.alone = panel.alone
    BY <1>1, <2>5, HeaderKept DEF LaneInv
  <2>7. CallsAreOffered'
    <3>1. /\ call.page = panel.page /\ call.lane = panel.lane.name /\ call.lane # "none"
          /\ call.lane # "glossary" => call.itemId = panel.picked
          /\ call.kind = "agent-run" /\ call.lane # "glossary" =>
              /\ L!laneBelongsOnSurface(call.lane, call.page.kind)
              /\ L!itemArmPolicy(call.lane, call.page.kind) = "item-required" => panel.build.itemArm
      BY <1>1 DEF LaneInv, CallsAreOffered
    <3>2. /\ L!itemPage(panel.page) /\ call.lane # "glossary" =>
                item \in L!ShownItems \union panel.alone
          /\ L!subjectFor(item).kind = "item" => L!subjectFor(item).id = item
      BY <1>1, <1>5, ResolvedItem
    <3>3. QED
      BY <1>1, <1>5, <2>2, <2>6, <3>1, <3>2
         DEF CallsAreOffered, L!laneBelongsOnSurface, L!itemArmPolicy, L!itemPage
  <2>8. LanesHaveSubjects'
    BY <1>1, <1>5, <2>6 DEF LaneInv, LanesHaveSubjects
  <2>9. (L!ArmIsServed)'
    BY <1>1, ArmKept DEF LaneInv
  <2>10. (L!AnswerIsOfTheShownItem)'
    BY <1>1, <1>5 DEF LaneInv, L!AnswerIsOfTheShownItem, L!aboutItem, L!ShownItems, L!shownRuns,
                         L!itemPage
  <2>11. QED
    BY <2>3, <2>4, <2>6, <2>7, <2>8, <2>9, <2>10 DEF LaneInv
<1>6. \/ \E item \in Items \union {None} :
            /\ L!resolveForAgent(item)
            /\ \/ \E r \in L!Cached(L!subjectFor(item)) : L!Replied(r.state, r.run)
               \/ L!Replied("collapsed", 0)
               \/ /\ call.kind # "agent-state" /\ panel' = panel
                  /\ call' = [call EXCEPT !.pc = "reading", !.subject = L!subjectFor(item), !.item = item]
      \/ L!Replied("failed", 0)
    BY DEF L!Resolves
<1>7. QED
  <2>1. CASE L!Replied("failed", 0)
    BY <1>4, <2>1
  <2>2. ASSUME NEW item \in Items \union {None}, L!resolveForAgent(item),
               \/ \E r \in L!Cached(L!subjectFor(item)) : L!Replied(r.state, r.run)
               \/ L!Replied("collapsed", 0)
               \/ /\ call.kind # "agent-state" /\ panel' = panel
                  /\ call' = [call EXCEPT !.pc = "reading", !.subject = L!subjectFor(item), !.item = item]
        PROVE  LaneInv'
    BY <1>3, <1>4, <1>5, <2>2
  <2>3. QED
    BY <1>6, <2>1, <2>2

\* The roster is read for a question.
LEMMA RosterStep ==
    ASSUME LaneInv, L!ReadsRoster
    PROVE  LaneInv'
<1>1. /\ call.kind = "agent-run" /\ call.pc = "reading"
      /\ gateway' = gateway /\ store' = store /\ panel' = panel /\ asked' = asked
    BY DEF L!ReadsRoster
<1>2. call # L!NoCall /\ call \in Calls
  <2>1. call # L!NoCall
    BY <1>1 DEF L!NoCall
  <2>2. QED
    BY <2>1 DEF LaneInv, LaneType
<1>3. PICK roster \in L!Rosters :
         call' = [call EXCEPT !.pc = "invoking", !.arm = L!agentParams(roster), !.read = gateway.build]
    BY DEF L!ReadsRoster
<1> DEFINE arm == L!agentParams(roster)
           build == IF L!itemArmPolicy(call.lane, call.page.kind) = "item-preferred"
                    THEN gateway.build ELSE panel.build
<1>4. /\ arm \in Arms
      /\ arm = "itemUrl" => build.itemArm
      /\ arm = "file" => build.files
    BY <1>1, <1>2, ArmServed
<1> HIDE DEF arm
<1>5. /\ call' \in Calls /\ call'.pc = "invoking" /\ call'.arm = arm /\ call'.read = gateway.build
      /\ call'.kind = call.kind /\ call'.lane = call.lane /\ call'.page = call.page
      /\ call'.itemId = call.itemId /\ call'.subject = call.subject /\ call'.item = call.item
  <2>1. call' = [call EXCEPT !.pc = "invoking", !.arm = arm, !.read = gateway.build]
    BY <1>3 DEF arm
  <2>2. gateway.build \in Builds
    BY DEF LaneInv, LaneType
  <2>3. QED
    BY <1>2, <1>4, <2>1, <2>2 DEF Calls
<1>6. (L!RestsOn)' = build
    BY <1>1, <1>5 DEF L!RestsOn, L!itemArmPolicy
<1> HIDE DEF build
<1>7. CallsAreOffered'
  <2>1. /\ call.page = panel.page /\ call.lane = panel.lane.name /\ call.lane # "none"
        /\ call.lane # "glossary" => call.itemId = panel.picked
        /\ call.lane # "glossary" =>
              /\ L!laneBelongsOnSurface(call.lane, call.page.kind)
              /\ L!itemArmPolicy(call.lane, call.page.kind) = "item-required" => panel.build.itemArm
        /\ call.subject.kind = "item" => call.subject.id = call.item
        /\ L!itemPage(panel.page) /\ call.lane # "glossary" =>
              call.item \in L!ShownItems \union panel.alone
    BY <1>1, <1>2 DEF LaneInv, CallsAreOffered
  <2>2. (L!ShownItems)' = L!ShownItems /\ panel' = panel
    BY <1>1 DEF L!ShownItems
  <2>3. QED
    BY <1>4, <1>5, <1>6, <2>1, <2>2
       DEF CallsAreOffered, L!laneBelongsOnSurface, L!itemArmPolicy, L!itemPage
<1>8. LaneType'
    BY <1>1, <1>5 DEF LaneInv, LaneType
<1>9. Numbered'
    BY <1>1, NumberedKept
<1>10. SameHeader
    BY <1>1 DEF SameHeader
<1>11. HeaderIsFounded' /\ OffersAreServed' /\ (L!pageSubject)' = L!pageSubject
    BY <1>1, <1>10, HeaderKept DEF LaneInv
<1>12. LanesHaveSubjects'
    BY <1>1, <1>11 DEF LaneInv, LanesHaveSubjects
<1>13. (L!ArmIsServed)'
    BY <1>1, ArmKept DEF LaneInv
<1>14. (L!AnswerIsOfTheShownItem)'
    BY <1>1 DEF LaneInv, L!AnswerIsOfTheShownItem, L!aboutItem, L!ShownItems, L!shownRuns, L!itemPage
<1>15. QED
    BY <1>7, <1>8, <1>9, <1>11, <1>12, <1>13, <1>14 DEF LaneInv

\* The agent is asked, its run stored, and the lane told.
LEMMA AgentRunStep ==
    ASSUME LaneInv, L!Invokes
    PROVE  LaneInv'
<1>1. call.kind = "agent-run" /\ call.pc = "invoking" /\ gateway' = gateway
    BY DEF L!Invokes
<1>2. call # L!NoCall /\ call \in Calls
  <2>1. call # L!NoCall
    BY <1>1 DEF L!NoCall
  <2>2. QED
    BY <2>1 DEF LaneInv, LaneType
<1>3. Cardinality(store) \in Nat
    BY FS_CardinalityType DEF LaneInv, LaneType
<1>4. ASSUME L!Replied("failed", 0), store' = store, asked' = asked PROVE LaneInv'
  <2>1. ~ \E r \in store : r.run = 0
    BY DEF LaneInv, LaneType, LaneRuns
  <2>2. 0 \in Nat /\ 0 <= Cardinality(store)
    BY <1>3
  <2>3. QED
    BY <1>1, <1>2, <1>4, <2>1, <2>2, ReplyOnlyStep
<1>5. ASSUME asked' = [arm |-> call.arm, build |-> L!RestsOn],
             NEW run \in 1 .. MaxRuns, run = L!Cardinality(store) + 1,
             store' = store \union {[subject |-> call.subject, lane |-> call.lane, run |-> run,
                                     state |-> "running", page |-> call.page, item |-> call.item]},
             L!Replied("running", run)
      PROVE  LaneInv'
  <2> DEFINE new == [subject |-> call.subject, lane |-> call.lane, run |-> run,
                     state |-> "running", page |-> call.page, item |-> call.item]
  <2>1. run = Cardinality(store) + 1 /\ run \in Nat \ {0}
    BY <1>3, <1>5, SameCount
  <2>2. new \in LaneRuns /\ new.run = run /\ new.item = call.item /\ new.subject = call.subject
    BY <1>2, <2>1 DEF LaneRuns, Calls
  <2>3. store' = store \union {new}
    BY <1>5
  <2> HIDE DEF new
  <2>4. \A r \in store : r.run \in Nat /\ r.run <= Cardinality(store) /\ r.run # run
    BY <1>3, <2>1 DEF LaneInv, LaneType, LaneRuns, Numbered
  <2>5. new \notin store
    BY <2>2, <2>4
  <2>6. IsFiniteSet(store') /\ Cardinality(store') = run
    BY <2>1, <2>3, <2>5, FS_AddElement DEF LaneInv, LaneType
  <2>7. \A r \in store' : r.run <= Cardinality(store')
    BY <1>3, <2>1, <2>2, <2>3, <2>4, <2>6
  <2>8. \A r, s \in store' : r.run = s.run => r = s
    BY <2>2, <2>3, <2>4 DEF LaneInv, Numbered
  <2>9. \A r \in store' : r.subject.kind = "item" => r.item = r.subject.id
    BY <1>1, <1>2, <2>2, <2>3 DEF LaneInv, LanesHaveSubjects, CallsAreOffered
  <2>10. (L!ArmIsServed)'
    BY <1>1, <1>2, <1>5 DEF LaneInv, CallsAreOffered, L!ArmIsServed
  <2>11. L!itemPage(panel.page) /\ call.lane # "glossary" =>
            \A r \in store' : r.run = run => r.item \in L!ShownItems \union panel.alone
    BY <1>1, <1>2, <2>2, <2>3, <2>4 DEF LaneInv, CallsAreOffered
  <2>12. store' \in SUBSET LaneRuns /\ run <= Cardinality(store')
    BY <2>1, <2>2, <2>3, <2>6 DEF LaneInv, LaneType
  <2>13. QED
    BY <1>1, <1>2, <1>5, <2>1, <2>6, <2>7, <2>8, <2>9, <2>10, <2>11, <2>12, ReplyStep
<1>6. QED
    BY <1>4, <1>5 DEF L!Invokes

\* A run ends.
LEMMA RunEndsStep ==
    ASSUME LaneInv, L!RunEnds
    PROVE  LaneInv'
<1>1. PICK r \in store : store' = (store \ {r}) \union {[r EXCEPT !.state = "done"]}
    BY DEF L!RunEnds
<1>2. gateway' = gateway /\ panel' = panel /\ call' = call /\ asked' = asked
    BY DEF L!RunEnds
<1> DEFINE new == [r EXCEPT !.state = "done"]
<1>3. /\ new \in LaneRuns /\ new.run = r.run /\ new.item = r.item
      /\ new.subject = r.subject /\ new.page = r.page
    BY DEF LaneInv, LaneType, LaneRuns
<1>4. store' = (store \ {r}) \union {new}
    BY <1>1
<1> HIDE DEF new
<1>5. \A s \in store \ {r} : s.run # new.run
    BY <1>3 DEF LaneInv, Numbered
<1>6. IsFiniteSet(store') /\ Cardinality(store') = Cardinality(store)
  <2>1. IsFiniteSet(store) /\ Cardinality(store) \in Nat
    BY FS_CardinalityType DEF LaneInv, LaneType
  <2>2. IsFiniteSet(store \ {r}) /\ Cardinality(store \ {r}) = Cardinality(store) - 1
    BY <2>1, FS_RemoveElement
  <2>3. new \notin store \ {r}
    BY <1>5
  <2>4. IsFiniteSet(store') /\ Cardinality(store') = Cardinality(store \ {r}) + 1
    BY <1>4, <2>2, <2>3, FS_AddElement
  <2>5. QED
    BY <2>1, <2>2, <2>4
<1>7. LaneType'
    BY <1>2, <1>3, <1>4, <1>6 DEF LaneInv, LaneType
<1>8. Numbered'
    BY <1>2, <1>3, <1>4, <1>5, <1>6 DEF LaneInv, Numbered
<1>9. HeaderIsFounded' /\ OffersAreServed' /\ CallsAreOffered'
    BY <1>2 DEF LaneInv, HeaderIsFounded, OffersAreServed, CallsAreOffered, L!ShownItems,
                L!RestsOn, L!itemPage, L!itemArmPolicy, L!laneBelongsOnSurface, L!NoCall
<1>10. LanesHaveSubjects'
    BY <1>2, <1>3, <1>4 DEF LaneInv, LanesHaveSubjects, L!pageSubject
<1>11. (L!ArmIsServed)'
    BY <1>2, ArmKept DEF LaneInv
<1>12. (L!AnswerIsOfTheShownItem)'
    BY <1>2, <1>3, <1>4 DEF LaneInv, L!AnswerIsOfTheShownItem, L!aboutItem, L!ShownItems, L!shownRuns,
                         L!itemPage
<1>13. QED
    BY <1>7, <1>8, <1>9, <1>10, <1>11, <1>12 DEF LaneInv

\* What the index may have is an index.
LEMMA IndexAnswersAreTyped == L!IndexAnswers \subseteq Indexes
BY DEF L!IndexAnswers, Indexes

\* The gateway moves on.
LEMMA GatewayStep ==
    ASSUME LaneInv, L!GatewayChanges
    PROVE  LaneInv'
<1>1. /\ store' = store /\ call' = call /\ asked' = asked
      /\ panel' = [panel EXCEPT !.alone = panel.alone \union L!Alone(gateway'.index)]
    BY DEF L!GatewayChanges
<1>2. panel \in Panels
    BY DEF LaneInv, LaneType
<1>3. gateway' \in [build : Builds, index : Indexes]
  <2>1. gateway \in [build : Builds, index : Indexes]
    BY DEF LaneInv, LaneType
  <2>2. ASSUME NEW build \in Builds, gateway' = [gateway EXCEPT !.build = build]
        PROVE  gateway' \in [build : Builds, index : Indexes]
    BY <2>1, <2>2
  <2>3. ASSUME NEW index \in Indexes, gateway' = [gateway EXCEPT !.index = index]
        PROVE  gateway' \in [build : Builds, index : Indexes]
    BY <2>1, <2>3
  <2>4. QED
    BY <2>2, <2>3, IndexAnswersAreTyped DEF L!GatewayChanges
<1>4. L!Alone(gateway'.index) \in SUBSET Items
    BY <1>3 DEF L!Alone, Indexes
<1>5. /\ panel' \in Panels /\ panel'.alone = panel.alone \union L!Alone(gateway'.index)
      /\ panel'.page = panel.page /\ panel'.ids = panel.ids /\ panel'.picked = panel.picked
      /\ panel'.offered = panel.offered /\ panel'.header = panel.header /\ panel'.lane = panel.lane
      /\ panel'.build = panel.build
  <2> DEFINE alone == panel.alone \union L!Alone(gateway'.index)
  <2>1. alone \in SUBSET Items
    BY <1>2, <1>4 DEF Panels
  <2> HIDE DEF alone
  <2>2. panel' = [panel EXCEPT !.alone = alone]
    BY <1>1 DEF alone
  <2>3. QED
    BY <1>2, <2>1, <2>2 DEF Panels, alone
<1>6. LaneType'
    BY <1>1, <1>3, <1>5 DEF LaneInv, LaneType
<1>7. Numbered'
    BY <1>1, <1>5, NumberedKept
<1>8. HeaderIsFounded' /\ OffersAreServed'
    BY <1>5 DEF LaneInv, HeaderIsFounded, OffersAreServed, L!itemPage
<1>9. CallsAreOffered'
    BY <1>1, <1>5 DEF LaneInv, CallsAreOffered, L!ShownItems, L!RestsOn,
                      L!itemPage, L!itemArmPolicy, L!laneBelongsOnSurface, L!NoCall
<1>10. LanesHaveSubjects'
    BY <1>1, <1>5 DEF LaneInv, LanesHaveSubjects, L!pageSubject
<1>11. (L!ArmIsServed)'
    BY <1>1, ArmKept DEF LaneInv
<1>12. (L!AnswerIsOfTheShownItem)'
    BY <1>1, <1>5 DEF LaneInv, L!AnswerIsOfTheShownItem, L!aboutItem, L!ShownItems, L!shownRuns,
                      L!itemPage
<1>13. QED
    BY <1>6, <1>7, <1>8, <1>9, <1>10, <1>11, <1>12 DEF LaneInv

\* The invariant of the lanes holds at first.
LEMMA LanesInit ==
    ASSUME L!Init
    PROVE  LaneInv
<1>1. /\ store = {} /\ call = L!NoCall /\ asked = L!NoQuestion
      /\ panel = [page |-> CHOOSE p \in Views : p.kind = "plain", header |-> "unrecognised",
                  ids |-> {}, picked |-> None, offered |-> L!AGENT_LANES, term |-> None,
                  lane |-> L!Collapsed, build |-> gateway.build, alone |-> L!Alone(gateway.index)]
    BY DEF L!Init
<1>2. gateway \in [build : Builds, index : Indexes]
    BY IndexAnswersAreTyped DEF L!Init
<1>3. PICK page \in Views : page.kind = "plain" /\ panel.page = page
    BY <1>1, LanesAssumption
<1>4. L!Collapsed \in LaneStates /\ L!Collapsed.name = "none" /\ L!Collapsed.state = "collapsed"
      /\ L!Collapsed.run = 0
    BY DEF L!Collapsed, LaneStates, LaneNames
<1>5. panel \in Panels
  <2>1. L!AGENT_LANES \in SUBSET Offers
    BY DEF Offers
  <2>2. panel = [page |-> page, header |-> "unrecognised", ids |-> {}, picked |-> None,
                 offered |-> L!AGENT_LANES, term |-> None, lane |-> L!Collapsed,
                 build |-> gateway.build, alone |-> L!Alone(gateway.index)]
    BY <1>1, <1>3
  <2>3. gateway.build \in Builds /\ L!Alone(gateway.index) \in SUBSET Items
    BY <1>2 DEF L!Alone, Indexes
  <2>4. QED
    BY <1>4, <2>1, <2>2, <2>3 DEF Panels
<1>6. /\ panel.header = "unrecognised" /\ panel.picked = None /\ panel.lane = L!Collapsed
      /\ panel.alone = L!Alone(gateway.index)
    BY <1>1
<1>7. IsFiniteSet(store) /\ Cardinality(store) = 0
    BY <1>1, FS_EmptySet
<1>8. LaneType
    BY <1>1, <1>2, <1>5, <1>7 DEF LaneType
<1>9. Numbered
    BY <1>1, <1>4, <1>6, <1>7 DEF Numbered
<1>10. HeaderIsFounded /\ OffersAreServed
    BY <1>3, <1>6 DEF HeaderIsFounded, OffersAreServed, L!itemPage
<1>11. CallsAreOffered
    BY <1>1 DEF CallsAreOffered
<1>12. LanesHaveSubjects
    BY <1>1, <1>4, <1>6 DEF LanesHaveSubjects
<1>13. L!ArmIsServed /\ L!AnswerIsOfTheShownItem
    BY <1>1 DEF L!ArmIsServed, L!AnswerIsOfTheShownItem, L!shownRuns
<1>14. QED
    BY <1>8, <1>9, <1>10, <1>11, <1>12, <1>13 DEF LaneInv

\* It holds on when nothing of the lanes moves.
LEMMA LanesIdle ==
    ASSUME LaneInv, UNCHANGED L!vars
    PROVE  LaneInv'
<1>1. UNCHANGED <<gateway, store, panel, call, asked>>
    BY DEF L!vars
<1>2. LaneType' /\ Numbered'
    BY <1>1 DEF LaneInv, LaneType, Numbered
<1>3. HeaderIsFounded' /\ OffersAreServed' /\ CallsAreOffered' /\ LanesHaveSubjects'
    BY <1>1 DEF LaneInv, HeaderIsFounded, OffersAreServed, CallsAreOffered, LanesHaveSubjects,
                L!ShownItems, L!RestsOn, L!itemPage, L!itemArmPolicy, L!laneBelongsOnSurface, L!NoCall,
                L!pageSubject
<1>4. (L!ArmIsServed)' /\ (L!AnswerIsOfTheShownItem)'
    BY <1>1 DEF LaneInv, L!ArmIsServed, L!NoQuestion, L!AnswerIsOfTheShownItem, L!aboutItem, L!ShownItems, L!shownRuns,
                         L!itemPage
<1>5. QED
    BY <1>2, <1>3, <1>4 DEF LaneInv

\* The invariant of the lanes holds, whatever the gateway becomes between the resolve of
\* a page, the expansion of its lane and the question.
THEOREM LaneInvHolds == WorkerSpec => [](which = "lanes" => LaneInv)
<1> DEFINE Inv == which = "lanes" => LaneInv
<1>1. ASSUME WorkerInit PROVE Inv
  <2>1. which = "lanes" => L!Init
    BY <1>1 DEF WorkerInit
  <2>2. QED
    BY <2>1, LanesInit
<1>2. ASSUME Inv, [WorkerNext]_all PROVE Inv'
  <2>1. CASE WorkerNext
    <3>1. which' = which /\ (which = "lanes" => L!Next)
      BY <2>1 DEF WorkerNext
    <3>2. ASSUME which = "lanes" PROVE LaneInv'
      BY <1>2, <3>1, <3>2, OpenStep, PickStep, SelectStep, PollStep, RunEndsStep, GatewayStep,
         ExpandStep, ResolvesStep, RosterStep, AgentRunStep DEF L!Next
    <3>3. QED
      BY <3>1, <3>2
  <2>2. CASE UNCHANGED all
    <3>1. which' = which
      BY <2>2 DEF all
    <3>2. UNCHANGED L!vars
      BY <2>2 DEF all, shared, ofLanes, L!vars
    <3>3. QED
      BY <1>2, <3>1, <3>2, LanesIdle
  <2>3. QED
    BY <1>2, <2>1, <2>2
<1>3. QED
    BY <1>1, <1>2, PTL DEF WorkerSpec

\* A question uses an arm that the build it rests on serves: an arm that is only preferred
\* the build whose roster was read for it, another the build the panel was opened on,
\* whichever roster reads failed (agents-capability.ts:191-276, handlers.ts:1128-1143).
THEOREM ArmIsServedHolds == WorkerSpec => []ArmIsServed
<1>1. (which = "lanes" => LaneInv) => ArmIsServed
    BY DEF LaneInv, ArmIsServed
<1>2. QED
    BY <1>1, LaneInvHolds, PTL

\* What a lane shows is about the item in the header, or about one that the index has
\* named alone since the panel was opened (handlers.ts:812-860).
THEOREM AnswerIsOfTheShownItemHolds == WorkerSpec => []AnswerIsOfTheShownItem
<1>1. (which = "lanes" => LaneInv) => AnswerIsOfTheShownItem
    BY DEF LaneInv, AnswerIsOfTheShownItem
<1>2. QED
    BY <1>1, LaneInvHolds, PTL

----------------------------------------------------------------------------
(* The service bindings.                                                   *)

BindTables == [Repos -> [service : Services \union {NoService}, status : {"nothing"} \union Services]]

BindMessages ==
    [kind : {"service-bind", "service-unbind", "service-bindings-list", "service-bindings-check",
             "deploy-preflight"},
     from : {"options", "panel"}, repo : Repos \union {NoService},
     service : Services \union {NoService}, pc : {"sent", "writing", "resolving", "replied"},
     gen : Nat, keep : BOOLEAN, mount : Nat,
     answer : {"none", "ok", "failed", "refused", "lost", "verdict", "unbound"},
     rows : BindTables, id : Nat]

OptionsPages ==
    [table : {"shown", "error"}, rows : BindTables, bindingsGeneration : Nat, checking : BOOLEAN,
     status : {"", "couldn't remove", "could not check", "changed", "couldn't update"},
     inbox : Seq(BindMessages)]

DeploySections ==
    [repo : Repos \union {NoService}, mount : Nat,
     shown : {"nothing", "asking", "form", "verdict", "refusal"}, inbox : Seq(BindMessages)]

BindTypes ==
    /\ bound \in [Repos -> Services \union {NoService}]
    /\ want \in [Repos -> Services \union {NoService}]
    /\ calls \in SUBSET BindMessages /\ IsFiniteSet(calls)
    /\ edits \in Seq(BindMessages)
    /\ options \in OptionsPages /\ panel \in DeploySections
    /\ unseen \in [repos : SUBSET Repos, failed : BOOLEAN]

\* A message is of its page, and a write names its repository.
Sound(m) ==
    /\ S!Writes(m) \/ m.from = "panel" => m.repo \in Repos
    /\ m.kind \in {"service-bindings-list", "service-bindings-check"} => m.from = "options"

\* What is under way: a removal is linked at once, a bind once it has been asked about.
CallFits(m) ==
    /\ Sound(m) /\ m.pc # "replied"
    /\ m.kind = "service-unbind" => m.pc = "writing"
    /\ m.kind = "service-bind" => m.pc \in {"sent", "writing"}
    /\ ~S!Writes(m) => m.pc # "writing"

ReplyFits(m, from) == Sound(m) /\ m.from = from /\ m.pc = "replied" /\ m.answer # "none"

CallsFit ==
    /\ \A m \in calls : CallFits(m)
    /\ \A m, n \in calls : m.id = n.id => m = n

InboxesFit ==
    /\ \A i \in DOMAIN options.inbox : ReplyFits(options.inbox[i], "options")
    /\ \A i \in DOMAIN panel.inbox : ReplyFits(panel.inbox[i], "panel")
    /\ panel.shown = "form" => panel.repo \in Repos

\* The writes that are linked are those at work, once each.
LinksFit ==
    /\ \A i \in DOMAIN edits : edits[i] \in calls /\ edits[i].pc = "writing"
    /\ \A i, j \in DOMAIN edits : edits[i] = edits[j] => i = j
    /\ \A m \in calls : m.pc = "writing" => \E i \in DOMAIN edits : edits[i] = m

\* The writes of a repository that are asked about, and those linked.
AskedAbout(under, r) == {m \in under : S!Writes(m) /\ m.pc = "sent" /\ m.repo = r}
LinkedFor(links, r) == {i \in DOMAIN links : links[i].repo = r}

\* What the links will leave a repository with.
Leaves(links, list, r, service) ==
    /\ LinkedFor(links, r) = {} => service = list[r]
    /\ \A i \in LinkedFor(links, r) :
          (\A j \in LinkedFor(links, r) : j <= i) => service = links[i].service

\* What a repository was last told is asked about, or linked last, or stored.
WordsFit ==
    \A r \in Repos \ contested :
        /\ \A m \in AskedAbout(calls, r) : want[r] = m.service
        /\ AskedAbout(calls, r) = {} => Leaves(edits, bound, r, want[r])

\* The writes of the Options page that are at work for a repository, and the replies to
\* them from a place in its inbox on.
PageWrites(under, r) == {m \in under : S!Writes(m) /\ m.from = "options" /\ m.repo = r}
WriteReplies(inbox, n, r) == {i \in DOMAIN inbox : i >= n /\ S!Writes(inbox[i]) /\ inbox[i].repo = r}
Owed(r, n) == PageWrites(calls, r) # {} \/ WriteReplies(options.inbox, n, r) # {}

\* The bindings are being listed.
Lists(m) == m.kind = "service-bindings-list"
Listed ==
    \/ \E m \in calls : Lists(m)
    \/ \E i \in DOMAIN options.inbox : Lists(options.inbox[i])

\* The repositories of which the table is to be right.
Watched == Repos \ (overtaken \union elsewhere)

\* A row is right, or its binding is read again, or its correction came to nothing.
RowsFit ==
    options.table = "shown" =>
        \A r \in Watched :
            options.rows[r].service = bound[r] \/ Owed(r, 1) \/ Listed \/ r \in unseen.repos

\* A check that the page would paint has read what is stored, and what the page has
\* under way since is of repositories it was overtaken in.
Checks(m) == m.kind = "service-bindings-check"
HasRead(m) == m.pc = "resolving" \/ (m.pc = "replied" /\ m.answer = "ok")
CheckFits(m) ==
    /\ m.gen <= options.bindingsGeneration
    /\ m.gen = options.bindingsGeneration /\ HasRead(m) =>
          /\ \A r \in Watched : m.rows[r].service = bound[r]
          /\ \A w \in calls : S!Writes(w) /\ w.from = "options" => w.repo \in overtaken
ChecksFit ==
    /\ \A m \in calls : Checks(m) => CheckFits(m)
    /\ \A i \in DOMAIN options.inbox : Checks(options.inbox[i]) => CheckFits(options.inbox[i])

\* A list is right but for what the page has been told, or will be, after it.
ListsFit ==
    \A i \in DOMAIN options.inbox :
        Lists(options.inbox[i]) /\ options.inbox[i].answer = "ok" =>
            \A r \in Watched : options.inbox[i].rows[r].service = bound[r] \/ Owed(r, i + 1)

\* What a correction left is painted by a list, by the check that follows it, which the
\* page paints or is told the failure of, or by the check of the write after it.
Follows(m) == Checks(m) /\ m.gen = options.bindingsGeneration /\ m.repo \in Repos
Pending(m) == m.from = "options" /\ (S!Writes(m) \/ Lists(m) \/ Follows(m))
UnseenFit ==
    unseen.repos # {} /\ options.table = "shown" =>
        \/ unseen.failed
        \/ \E m \in calls : Pending(m)
        \/ \E i \in DOMAIN options.inbox : Pending(options.inbox[i])

BindInv ==
    /\ BindTypes /\ CallsFit /\ InboxesFit /\ LinksFit /\ WordsFit
    /\ RowsFit /\ ChecksFit /\ ListsFit /\ UnseenFit

\* A list of bindings as a table.
LEMMA TableOf ==
    ASSUME NEW list \in [Repos -> Services \union {NoService}]
    PROVE  /\ S!rowsOf(list) \in BindTables
           /\ \A r \in Repos : S!rowsOf(list)[r].service = list[r]
BY DEF S!rowsOf, BindTables

\* A new message is none of those under way.
LEMMA NewMessage ==
    ASSUME BindTypes, NEW kind \in {"service-bind", "service-unbind", "service-bindings-list",
                                    "service-bindings-check", "deploy-preflight"},
           NEW from \in {"options", "panel"}
    PROVE  /\ S!Message(kind, from) \in BindMessages
           /\ S!Message(kind, from).kind = kind /\ S!Message(kind, from).from = from
           /\ S!Message(kind, from).repo = NoService /\ S!Message(kind, from).service = NoService
           /\ S!Message(kind, from).pc = "sent" /\ S!Message(kind, from).answer = "none"
           /\ S!Message(kind, from).gen = options.bindingsGeneration
           /\ \A m \in calls : m.id # S!Message(kind, from).id
<1> DEFINE c == Cardinality(calls)
           Used(n) == \E m \in calls : m.id = n
           id == CHOOSE n \in 0 .. c : ~Used(n)
<1>1. c \in Nat
    BY FS_CardinalityType DEF BindTypes
<1>2. \E n \in 0 .. c : ~Used(n)
  <2>1. SUFFICES ASSUME \A n \in 0 .. c : Used(n) PROVE FALSE
    OBVIOUS
  <2> DEFINE f == [n \in 0 .. c |-> CHOOSE m \in calls : m.id = n]
  <2>2. \A n \in 0 .. c : f[n] \in calls /\ f[n].id = n
    BY <2>1
  <2>3. f \in [0 .. c -> calls]
    BY <2>2
  <2> HIDE DEF f
  <2>4. f \in Injection(0 .. c, calls)
    BY <2>2, <2>3 DEF Injection, IsInjective
  <2>5. Cardinality(0 .. c) <= c
    BY <2>4, FS_Injection DEF BindTypes
  <2>6. Cardinality(0 .. c) = c + 1
    BY <1>1, FS_Interval
  <2>7. QED
    BY <1>1, <2>5, <2>6
<1>3. id \in 0 .. c /\ ~Used(id)
    BY <1>2
<1>4. S!Cardinality(calls) = c
    BY DEF S!Cardinality, Cardinality
<1>5. S!Message(kind, from) =
          [kind |-> kind, from |-> from, repo |-> NoService, service |-> NoService,
           pc |-> "sent", gen |-> options.bindingsGeneration, keep |-> FALSE,
           mount |-> panel.mount, answer |-> "none", rows |-> S!NoRows, id |-> id]
    BY <1>4 DEF S!Message
<1>6. S!NoRows \in BindTables
    BY TableOf DEF S!NoRows
<1>7. options.bindingsGeneration \in Nat /\ panel.mount \in Nat /\ id \in Nat
  <2>1. options.bindingsGeneration \in Nat
    BY DEF BindTypes, OptionsPages
  <2>2. panel.mount \in Nat
    BY DEF BindTypes, DeploySections
  <2>3. QED
    BY <1>1, <1>3, <2>1, <2>2
<1> HIDE DEF id
<1>8. QED
    BY <1>3, <1>5, <1>6, <1>7 DEF BindMessages

\* A finite set as a sequence has each of its elements.
LEMMA InSequence ==
    ASSUME NEW X, NEW T \in SUBSET X, IsFiniteSet(T)
    PROVE  /\ S!SetToSeq(T) \in Seq(X)
           /\ \A i \in DOMAIN S!SetToSeq(T) : S!SetToSeq(T)[i] \in T
           /\ \A x \in T : \E i \in DOMAIN S!SetToSeq(T) : S!SetToSeq(T)[i] = x
<1> DEFINE n == Cardinality(T)
<1>1. n \in Nat /\ ExistsBijection(1 .. n, T)
    BY FS_CardinalityType
<1>2. \E f \in [1 .. n -> T] : \A a, b \in DOMAIN f : f[a] = f[b] => a = b
    BY <1>1 DEF ExistsBijection, Bijection, Injection, IsInjective
<1>3. S!SetToSeq(T) = CHOOSE f \in [1 .. n -> T] : \A a, b \in DOMAIN f : f[a] = f[b] => a = b
  <2>1. S!Cardinality(T) = n
    BY DEF S!Cardinality, Cardinality
  <2>2. QED
    BY <2>1 DEF S!SetToSeq, S!IsInjective
<1> DEFINE s == S!SetToSeq(T)
<1>4. s \in [1 .. n -> T] /\ \A a, b \in DOMAIN s : s[a] = s[b] => a = b
    BY <1>2, <1>3
<1> HIDE DEF s
<1>5. s \in Injection(1 .. n, T)
    BY <1>4 DEF Injection, IsInjective
<1>6. Cardinality(1 .. n) = n
    BY <1>1, FS_Interval
<1>7. s \in Surjection(1 .. n, T)
    BY <1>5, <1>6, FS_Injection
<1>8. \A x \in T : \E i \in DOMAIN s : s[i] = x
    BY <1>4, <1>7 DEF Surjection
<1>9. s \in Seq(X) /\ \A i \in DOMAIN s : s[i] \in T
    BY <1>1, <1>4
<1>10. QED
    BY <1>8, <1>9 DEF s

\* Some places of a sequence have a last one.
LEMMA LastPlace ==
    ASSUME NEW X, NEW s \in Seq(X), NEW I \in SUBSET DOMAIN s, I # {}
    PROVE  S!Max(I) \in I /\ \A j \in I : j <= S!Max(I)
<1>1. Len(s) \in Nat /\ DOMAIN s = 1 .. Len(s)
    BY LenProperties
<1>2. I \in SUBSET Nat /\ IsFiniteSet(I) /\ Cardinality(I) \in Nat \ {0}
  <2>1. I \in SUBSET Nat /\ \A i \in I : i <= Len(s)
    BY <1>1
  <2>2. IsFiniteSet(I)
    BY <1>1, <2>1, FS_BoundedSetOfNaturals
  <2>3. QED
    BY <2>1, <2>2, FS_CardinalityType, FS_EmptySet
<1>3. \E i \in I : \A j \in I : j <= i
  <2>1. /\ \A T : RP!Cardinality(T) = Cardinality(T)
        /\ RP!IsFiniteSet(I)
    BY <1>2 DEF RP!Cardinality, RP!IsFiniteSet, Cardinality, IsFiniteSet
  <2>2. Cardinality(I) \in 1 .. Cardinality(I)
    BY <1>2
  <2>3. PICK i \in I : RP!Cardinality(RP!UpTo(I, i)) = Cardinality(I)
    BY <1>2, <2>1, <2>2, RunsAssumption, RP!NthExists
  <2>4. RP!UpTo(I, i) = {j \in I : j <= i}
    BY DEF RP!UpTo
  <2>5. {j \in I : j <= i} = I
    BY <1>2, <2>1, <2>3, <2>4, FS_Subset
  <2>6. QED
    BY <2>5
<1>4. \E i \in I : \A j \in I : i >= j
    BY <1>2, <1>3
<1>5. S!Max(I) \in I /\ \A j \in I : S!Max(I) >= j
    BY <1>4 DEF S!Max
<1>6. QED
    BY <1>2, <1>5

\* What a said shares with its message.
SameMessage(m, c) ==
    /\ m.kind = c.kind /\ m.from = c.from /\ m.repo = c.repo /\ m.service = c.service
    /\ m.gen = c.gen /\ m.id = c.id

\* The page as far as it is painted.
SamePage ==
    /\ options'.table = options.table /\ options'.rows = options.rows
    /\ options'.bindingsGeneration = options.bindingsGeneration

\* What it is to be answered.
LEMMA AnsweredBy ==
    ASSUME BindTypes, NEW c \in calls, NEW rows \in BindTables,
           NEW answer \in {"ok", "failed", "refused", "lost", "verdict", "unbound"},
           S!Answered(c, rows, answer)
    PROVE  \E said \in BindMessages :
              /\ SameMessage(said, c) /\ said.pc = "replied"
              /\ said.answer = answer /\ said.rows = rows
              /\ calls' = calls \ {c} /\ SamePage
              /\ c.from = "options" => /\ options'.inbox = Append(options.inbox, said)
                                       /\ panel' = panel
              /\ c.from = "panel" => /\ panel'.inbox = Append(panel.inbox, said)
                                     /\ options' = options
                                     /\ panel'.repo = panel.repo /\ panel'.shown = panel.shown
              /\ calls' \in SUBSET BindMessages /\ IsFiniteSet(calls')
              /\ options' \in OptionsPages /\ panel' \in DeploySections
<1> DEFINE said == [c EXCEPT !.pc = "replied", !.answer = answer, !.rows = rows]
<1>1. said \in BindMessages /\ c \in BindMessages
    BY DEF BindTypes, BindMessages
<1>2. SameMessage(said, c) /\ said.pc = "replied" /\ said.answer = answer /\ said.rows = rows
    BY <1>1 DEF SameMessage, BindMessages
<1>3. /\ calls' = calls \ {c}
      /\ c.from = "options" => /\ options' = [options EXCEPT !.inbox = Append(options.inbox, said)]
                               /\ panel' = panel
      /\ c.from = "panel" => /\ panel' = [panel EXCEPT !.inbox = Append(panel.inbox, said)]
                             /\ options' = options
    BY DEF S!Answered
<1> HIDE DEF said
<1>4. calls' \in SUBSET BindMessages /\ IsFiniteSet(calls')
    BY <1>3, FS_RemoveElement DEF BindTypes
<1>5. c.from = "options" \/ c.from = "panel"
    BY <1>1 DEF BindMessages
<1>6. ASSUME c.from = "options"
      PROVE  /\ options'.inbox = Append(options.inbox, said) /\ SamePage
             /\ options' \in OptionsPages /\ panel' \in DeploySections
  <2>1. options \in OptionsPages /\ panel \in DeploySections
    BY DEF BindTypes
  <2>2. Append(options.inbox, said) \in Seq(BindMessages)
    BY <1>1, <2>1, AppendProperties DEF OptionsPages
  <2>3. options' = [options EXCEPT !.inbox = Append(options.inbox, said)] /\ panel' = panel
    BY <1>3, <1>6
  <2>4. options' \in OptionsPages
    BY <2>1, <2>2, <2>3 DEF OptionsPages
  <2>5. options'.inbox = Append(options.inbox, said) /\ SamePage
    BY <2>1, <2>3 DEF OptionsPages, SamePage
  <2>6. QED
    BY <2>1, <2>3, <2>4, <2>5
<1>7. ASSUME c.from = "panel"
      PROVE  /\ panel'.inbox = Append(panel.inbox, said) /\ SamePage
             /\ panel'.repo = panel.repo /\ panel'.shown = panel.shown
             /\ options' \in OptionsPages /\ panel' \in DeploySections
  <2>1. options \in OptionsPages /\ panel \in DeploySections
    BY DEF BindTypes
  <2>2. Append(panel.inbox, said) \in Seq(BindMessages)
    BY <1>1, <2>1, AppendProperties DEF DeploySections
  <2>3. panel' = [panel EXCEPT !.inbox = Append(panel.inbox, said)] /\ options' = options
    BY <1>3, <1>7
  <2>4. panel' \in DeploySections
    BY <2>1, <2>2, <2>3 DEF DeploySections
  <2>5. /\ panel'.inbox = Append(panel.inbox, said)
        /\ panel'.repo = panel.repo /\ panel'.shown = panel.shown
    BY <2>1, <2>3 DEF DeploySections
  <2>6. QED
    BY <2>1, <2>3, <2>4, <2>5 DEF SamePage
<1>8. QED
    BY <1>1, <1>2, <1>3, <1>4, <1>5, <1>6, <1>7

\* What was told stands when neither the writes nor what is stored moves.
LEMMA WordsKept ==
    ASSUME WordsFit, want' = want, bound' = bound, edits' = edits, contested \subseteq contested',
           \A m : S!Writes(m) => (m \in calls' <=> m \in calls)
    PROVE  WordsFit'
<1>1. \A r : AskedAbout(calls', r) = AskedAbout(calls, r)
    BY DEF AskedAbout
<1> SUFFICES ASSUME NEW r \in Repos \ contested'
             PROVE  /\ \A m \in AskedAbout(calls', r) : want'[r] = m.service
                    /\ AskedAbout(calls', r) = {} => Leaves(edits', bound', r, want'[r])
    BY DEF WordsFit
<1>2. r \in Repos \ contested
    OBVIOUS
<1>3. QED
    BY <1>1, <1>2 DEF WordsFit

\* The links stand when none is added or done.
LEMMA LinksKept ==
    ASSUME CallsFit, CallsFit', LinksFit, edits' = edits,
           \A m : S!Writes(m) => (m \in calls' <=> m \in calls)
    PROVE  LinksFit'
<1>1. /\ \A m \in calls : m.pc = "writing" => S!Writes(m)
      /\ \A m \in calls' : m.pc = "writing" => S!Writes(m)
    BY DEF CallsFit, CallFits
<1>2. \A i \in DOMAIN edits : edits[i] \in calls' /\ edits[i].pc = "writing"
    BY <1>1 DEF LinksFit
<1>3. \A m \in calls' : m.pc = "writing" => \E i \in DOMAIN edits : edits[i] = m
    BY <1>1 DEF LinksFit
<1>4. QED
    BY <1>2, <1>3 DEF LinksFit

\* The table is no worse off for what does not concern its page.
LEMMA TableKept ==
    ASSUME BindInv, CallsFit', options' = options, unseen' = unseen,
           overtaken \subseteq overtaken', elsewhere \subseteq elsewhere',
           \A r \in Watched' : bound'[r] = bound[r],
           \A m : m.from = "options" => (m \in calls' <=> m \in calls)
    PROVE  RowsFit' /\ ChecksFit' /\ ListsFit' /\ UnseenFit'
<1>1. Watched' \subseteq Watched
    BY DEF Watched
<1>2. \A r, n : Owed(r, n)' <=> Owed(r, n)
  <2>1. \A r : PageWrites(calls', r) = PageWrites(calls, r)
    BY DEF PageWrites
  <2>2. QED
    BY <2>1 DEF Owed
<1>3. /\ \A m \in calls : Lists(m) \/ Checks(m) => m.from = "options"
      /\ \A m \in calls' : Lists(m) \/ Checks(m) => m.from = "options"
    BY DEF BindInv, CallsFit, CallFits, Sound, Lists, Checks
<1>4. Listed' <=> Listed
    BY <1>3 DEF Listed
<1>5. RowsFit'
    BY <1>1, <1>2, <1>4 DEF BindInv, RowsFit
<1>6. ASSUME NEW m, CheckFits(m) PROVE CheckFits(m)'
  <2>1. m.gen <= options'.bindingsGeneration
    BY <1>6 DEF CheckFits
  <2>2. ASSUME m.gen = options'.bindingsGeneration, HasRead(m)
        PROVE  /\ \A r \in Watched' : m.rows[r].service = bound'[r]
               /\ \A w \in calls' : S!Writes(w) /\ w.from = "options" => w.repo \in overtaken'
    BY <1>1, <1>6, <2>2 DEF CheckFits
  <2>3. QED
    BY <2>1, <2>2 DEF CheckFits
<1>7. ChecksFit'
    BY <1>3, <1>6 DEF BindInv, ChecksFit
<1>8. ListsFit'
    BY <1>1, <1>2 DEF BindInv, ListsFit
<1>9. \A m : Pending(m)' <=> Pending(m)
    BY DEF Pending, Follows
<1>10. UnseenFit'
    BY <1>9 DEF BindInv, UnseenFit, Pending
<1>11. QED
    BY <1>5, <1>7, <1>8, <1>10

\* The table is no worse off when a message of its page is answered.
LEMMA TableAnswered ==
    ASSUME BindInv, CallsFit', NEW c \in calls, NEW said \in BindMessages,
           c.from = "options", SameMessage(said, c), said.pc = "replied",
           calls' = calls \ {c}, SamePage, options'.inbox = Append(options.inbox, said),
           unseen' = unseen, overtaken \subseteq overtaken', elsewhere \subseteq elsewhere',
           \A r \in Watched' : bound'[r] = bound[r] \/ (S!Writes(c) /\ c.repo = r),
           Checks(c) /\ said.answer = "ok" =>
               c.pc = "resolving" /\ \A r \in Repos : said.rows[r].service = c.rows[r].service,
           Lists(c) /\ said.answer = "ok" => \A r \in Watched' : said.rows[r].service = bound'[r]
    PROVE  RowsFit' /\ ChecksFit' /\ ListsFit' /\ UnseenFit'
<1> DEFINE n == Len(options.inbox)
<1>1. Watched' \subseteq Watched
    BY DEF Watched
<1>2. /\ n \in Nat /\ DOMAIN options.inbox = 1 .. n /\ DOMAIN options'.inbox = 1 .. n + 1
      /\ \A i \in 1 .. n : options'.inbox[i] = options.inbox[i]
      /\ options'.inbox[n + 1] = said
  <2>1. options.inbox \in Seq(BindMessages)
    BY DEF BindInv, BindTypes, OptionsPages
  <2>2. options'.inbox \in Seq(BindMessages) /\ Len(options'.inbox) = n + 1
    BY <2>1, AppendProperties
  <2>3. QED
    BY <2>1, <2>2, AppendProperties, LenProperties
<1> HIDE DEF n
<1>3. /\ S!Writes(said) <=> S!Writes(c)
      /\ Lists(said) <=> Lists(c)
      /\ Checks(said) <=> Checks(c)
      /\ said.repo = c.repo /\ said.gen = c.gen /\ said.from = "options"
    BY DEF SameMessage, S!Writes, Lists, Checks
<1>4. ASSUME NEW r, NEW k \in 1 .. n + 1, Owed(r, k) \/ (S!Writes(c) /\ c.repo = r)
      PROVE  Owed(r, k)'
  <2>1. CASE S!Writes(c) /\ c.repo = r
    <3>1. n + 1 \in WriteReplies(options'.inbox, k, r)
      BY <1>2, <1>3, <2>1 DEF WriteReplies
    <3>2. QED
      BY <3>1 DEF Owed
  <2>2. CASE \E i \in WriteReplies(options.inbox, k, r) : TRUE
    <3>1. PICK i \in WriteReplies(options.inbox, k, r) : TRUE
      BY <2>2
    <3>2. i \in WriteReplies(options'.inbox, k, r)
      BY <1>2, <3>1 DEF WriteReplies
    <3>3. QED
      BY <3>2 DEF Owed
  <2>3. CASE \E m \in PageWrites(calls, r) : m # c
    <3>1. PICK m \in PageWrites(calls, r) : m # c
      BY <2>3
    <3>2. m \in PageWrites(calls', r)
      BY <3>1 DEF PageWrites
    <3>3. QED
      BY <3>2 DEF Owed
  <2>4. QED
    BY <1>4, <2>1, <2>2, <2>3 DEF Owed, PageWrites
<1>5. Listed => Listed'
  <2>1. ASSUME NEW m \in calls, Lists(m) PROVE Listed'
    BY <1>2, <1>3, <2>1 DEF Listed
  <2>2. ASSUME NEW i \in 1 .. n, Lists(options.inbox[i]) PROVE Listed'
    <3>1. i \in 1 .. n + 1
      BY <1>2
    <3>2. QED
      BY <1>2, <2>2, <3>1 DEF Listed
  <2>3. QED
    BY <1>2, <2>1, <2>2 DEF Listed
<1>6. RowsFit'
  <2> SUFFICES ASSUME options'.table = "shown", NEW r \in Watched'
               PROVE  options'.rows[r].service = bound'[r] \/ Owed(r, 1)' \/ Listed' \/ r \in unseen'.repos
    BY DEF RowsFit
  <2>1. options.rows[r].service = bound[r] \/ Owed(r, 1) \/ Listed \/ r \in unseen.repos
    BY <1>1 DEF BindInv, RowsFit, SamePage
  <2>2. 1 \in 1 .. n + 1
    BY <1>2
  <2>3. QED
    BY <1>4, <1>5, <2>1, <2>2 DEF SamePage
<1>7. ASSUME NEW m, CheckFits(m) PROVE CheckFits(m)'
  <2>1. m.gen <= options'.bindingsGeneration
    BY <1>7 DEF CheckFits, SamePage
  <2>2. ASSUME m.gen = options'.bindingsGeneration, HasRead(m)
        PROVE  /\ \A r \in Watched' : m.rows[r].service = bound'[r]
               /\ \A w \in calls' : S!Writes(w) /\ w.from = "options" => w.repo \in overtaken'
    <3>1. /\ \A r \in Watched : m.rows[r].service = bound[r]
          /\ \A w \in calls : S!Writes(w) /\ w.from = "options" => w.repo \in overtaken
      BY <1>7, <2>2 DEF CheckFits, SamePage
    <3>2. S!Writes(c) => c.repo \in overtaken'
      BY <3>1
    <3>3. QED
      BY <1>1, <3>1, <3>2 DEF Watched
  <2>3. QED
    BY <2>1, <2>2 DEF CheckFits
<1>8. Checks(said) => CheckFits(said)'
  <2>1. ASSUME Checks(said), HasRead(said), said.gen = options'.bindingsGeneration
        PROVE  /\ \A r \in Watched' : said.rows[r].service = bound'[r]
               /\ \A w \in calls' : S!Writes(w) /\ w.from = "options" => w.repo \in overtaken'
    <3>1. Checks(c) /\ CheckFits(c) /\ HasRead(c) /\ ~S!Writes(c)
          /\ \A r \in Repos : said.rows[r].service = c.rows[r].service
      BY <1>3, <2>1 DEF HasRead, BindInv, ChecksFit, Checks, S!Writes
    <3>2. CheckFits(c)'
      BY <1>7, <3>1
    <3>3. QED
      BY <1>3, <2>1, <3>1, <3>2 DEF CheckFits, Watched
  <2>2. ASSUME Checks(said) PROVE said.gen <= options'.bindingsGeneration
    <3>1. Checks(c) /\ CheckFits(c)
      BY <1>3, <2>2 DEF BindInv, ChecksFit
    <3>2. QED
      BY <1>3, <3>1 DEF CheckFits, SamePage
  <2>3. QED
    BY <2>1, <2>2 DEF CheckFits
<1>9. ChecksFit'
    BY <1>2, <1>7, <1>8 DEF BindInv, ChecksFit
<1>10. ListsFit'
  <2> SUFFICES ASSUME NEW i \in 1 .. n + 1, Lists(options'.inbox[i]), options'.inbox[i].answer = "ok",
                      NEW r \in Watched'
               PROVE  options'.inbox[i].rows[r].service = bound'[r] \/ Owed(r, i + 1)'
    BY <1>2 DEF ListsFit
  <2>1. CASE i = n + 1
    BY <1>2, <1>3, <2>1
  <2>2. CASE i \in 1 .. n
    <3>1. options.inbox[i].rows[r].service = bound[r] \/ Owed(r, i + 1)
      BY <1>1, <1>2, <2>2 DEF BindInv, ListsFit
    <3>2. i + 1 \in 1 .. n + 1
      BY <1>2, <2>2
    <3>3. QED
      BY <1>2, <1>4, <2>2, <3>1, <3>2
  <2>3. QED
    BY <1>2, <2>1, <2>2
<1>11. UnseenFit'
  <2> SUFFICES ASSUME unseen.repos # {}, options.table = "shown", ~unseen.failed
               PROVE  \/ \E m \in calls' : Pending(m)
                      \/ \E i \in DOMAIN options'.inbox : Pending(options'.inbox[i])
    BY DEF UnseenFit, SamePage, Pending, Follows
  <2>1. Pending(c) => Pending(said)
    BY <1>3 DEF Pending, Follows
  <2>2. CASE \E m \in calls : Pending(m)
    <3>1. PICK m \in calls : Pending(m)
      BY <2>2
    <3>2. CASE m # c
      BY <3>1, <3>2
    <3>3. CASE m = c
      <4>1. n + 1 \in 1 .. n + 1
        BY <1>2
      <4>2. Pending(options'.inbox[n + 1])
        BY <1>2, <2>1, <3>1, <3>3
      <4>3. QED
        BY <1>2, <4>1, <4>2
    <3>4. QED
      BY <3>2, <3>3
  <2>3. CASE \E i \in DOMAIN options.inbox : Pending(options.inbox[i])
    <3>1. PICK i \in 1 .. n : Pending(options.inbox[i])
      BY <1>2, <2>3
    <3>2. i \in 1 .. n + 1 /\ Pending(options'.inbox[i])
      BY <1>2, <3>1
    <3>3. QED
      BY <1>2, <3>2
  <2>4. QED
    BY <2>2, <2>3 DEF BindInv, UnseenFit
<1>12. QED
    BY <1>6, <1>9, <1>10, <1>11

\* What is under way, and the inboxes, are as they should be once a message is answered.
LEMMA CallsAnswered ==
    ASSUME BindInv, NEW c \in calls, NEW rows \in BindTables,
           NEW answer \in {"ok", "failed", "refused", "lost", "verdict", "unbound"},
           S!Answered(c, rows, answer)
    PROVE  /\ calls' = calls \ {c} /\ calls' \in SUBSET BindMessages /\ IsFiniteSet(calls')
           /\ options' \in OptionsPages /\ panel' \in DeploySections
           /\ CallsFit' /\ InboxesFit'
<1>1. PICK said \in BindMessages :
              /\ SameMessage(said, c) /\ said.pc = "replied"
              /\ said.answer = answer /\ said.rows = rows
              /\ calls' = calls \ {c} /\ SamePage
              /\ c.from = "options" => /\ options'.inbox = Append(options.inbox, said)
                                       /\ panel' = panel
              /\ c.from = "panel" => /\ panel'.inbox = Append(panel.inbox, said)
                                     /\ options' = options
                                     /\ panel'.repo = panel.repo /\ panel'.shown = panel.shown
              /\ calls' \in SUBSET BindMessages /\ IsFiniteSet(calls')
              /\ options' \in OptionsPages /\ panel' \in DeploySections
    BY AnsweredBy DEF BindInv
<1>2. CallsFit'
    BY <1>1 DEF BindInv, CallsFit, CallFits, Sound
<1>3. ReplyFits(said, c.from)
  <2>1. Sound(c)
    BY DEF BindInv, CallsFit, CallFits
  <2>2. Sound(said)
    BY <1>1, <2>1 DEF Sound, SameMessage, S!Writes
  <2>3. QED
    BY <1>1, <2>2 DEF ReplyFits, SameMessage
<1>4. InboxesFit'
  <2>1. /\ options.inbox \in Seq(BindMessages) /\ panel.inbox \in Seq(BindMessages)
        /\ c.from = "options" \/ c.from = "panel"
    BY DEF BindInv, BindTypes, OptionsPages, DeploySections, BindMessages
  <2>2. \A i \in DOMAIN options'.inbox : ReplyFits(options'.inbox[i], "options")
    <3>1. CASE c.from = "panel"
      BY <1>1, <3>1 DEF BindInv, InboxesFit
    <3>2. CASE c.from = "options"
      <4>1. /\ DOMAIN options'.inbox = 1 .. Len(options.inbox) + 1
            /\ DOMAIN options.inbox = 1 .. Len(options.inbox) /\ Len(options.inbox) \in Nat
            /\ \A i \in 1 .. Len(options.inbox) : options'.inbox[i] = options.inbox[i]
            /\ options'.inbox[Len(options.inbox) + 1] = said
        BY <1>1, <2>1, <3>2, AppendProperties, LenProperties
      <4>2. \A i \in 1 .. Len(options.inbox) : ReplyFits(options.inbox[i], "options")
        BY <4>1 DEF BindInv, InboxesFit
      <4>3. QED
        BY <1>3, <3>2, <4>1, <4>2
    <3>3. QED
      BY <2>1, <3>1, <3>2
  <2>3. \A i \in DOMAIN panel'.inbox : ReplyFits(panel'.inbox[i], "panel")
    <3>1. CASE c.from = "options"
      BY <1>1, <3>1 DEF BindInv, InboxesFit
    <3>2. CASE c.from = "panel"
      <4>1. /\ DOMAIN panel'.inbox = 1 .. Len(panel.inbox) + 1
            /\ DOMAIN panel.inbox = 1 .. Len(panel.inbox) /\ Len(panel.inbox) \in Nat
            /\ \A i \in 1 .. Len(panel.inbox) : panel'.inbox[i] = panel.inbox[i]
            /\ panel'.inbox[Len(panel.inbox) + 1] = said
        BY <1>1, <2>1, <3>2, AppendProperties, LenProperties
      <4>2. \A i \in 1 .. Len(panel.inbox) : ReplyFits(panel.inbox[i], "panel")
        BY <4>1 DEF BindInv, InboxesFit
      <4>3. QED
        BY <1>3, <3>2, <4>1, <4>2
    <3>3. QED
      BY <2>1, <3>1, <3>2
  <2>4. panel'.repo = panel.repo /\ panel'.shown = panel.shown
    BY <1>1, <2>1
  <2>5. QED
    BY <2>2, <2>3, <2>4 DEF BindInv, InboxesFit
<1>5. QED
    BY <1>1, <1>2, <1>4

\* The table stands when a message is answered, whoever sent it.
LEMMA TableStep ==
    ASSUME BindInv, NEW c \in calls, NEW rows \in BindTables,
           NEW answer \in {"ok", "failed", "refused", "lost", "verdict", "unbound"},
           S!Answered(c, rows, answer), unseen' = unseen,
           overtaken \subseteq overtaken', elsewhere \subseteq elsewhere',
           \A r \in Watched' : bound'[r] = bound[r] \/ (S!Writes(c) /\ c.repo = r /\ c.from = "options"),
           Checks(c) /\ answer = "ok" =>
               c.pc = "resolving" /\ \A r \in Repos : rows[r].service = c.rows[r].service,
           Lists(c) /\ answer = "ok" => \A r \in Watched' : rows[r].service = bound'[r]
    PROVE  RowsFit' /\ ChecksFit' /\ ListsFit' /\ UnseenFit'
<1>1. calls' = calls \ {c} /\ CallsFit'
    BY CallsAnswered
<1>2. PICK said \in BindMessages :
              /\ SameMessage(said, c) /\ said.pc = "replied"
              /\ said.answer = answer /\ said.rows = rows
              /\ calls' = calls \ {c} /\ SamePage
              /\ c.from = "options" => /\ options'.inbox = Append(options.inbox, said)
                                       /\ panel' = panel
              /\ c.from = "panel" => options' = options
    BY AnsweredBy DEF BindInv
<1>3. CASE c.from = "options"
    BY <1>1, <1>2, <1>3, TableAnswered
<1>4. CASE c.from = "panel"
    BY <1>1, <1>2, <1>4, TableKept
<1>5. c.from = "options" \/ c.from = "panel"
    BY DEF BindInv, BindTypes, BindMessages
<1>6. QED
    BY <1>3, <1>4, <1>5

\* A read of the bindings is answered, with them or with a failure.
LEMMA ReadStep ==
    ASSUME BindInv, NEW c \in calls, NEW rows \in BindTables,
           NEW answer \in {"ok", "failed", "verdict", "unbound"},
           S!Answered(c, rows, answer), ~S!Writes(c),
           UNCHANGED <<bound, edits, want, contested, overtaken, elsewhere, unseen>>,
           Checks(c) /\ answer = "ok" =>
               c.pc = "resolving" /\ \A r \in Repos : rows[r].service = c.rows[r].service,
           Lists(c) /\ answer = "ok" => \A r \in Repos : rows[r].service = bound[r]
    PROVE  BindInv'
<1>1. /\ calls' = calls \ {c} /\ calls' \in SUBSET BindMessages /\ IsFiniteSet(calls')
      /\ options' \in OptionsPages /\ panel' \in DeploySections
      /\ CallsFit' /\ InboxesFit'
    BY CallsAnswered
<1>2. BindTypes'
    BY <1>1 DEF BindInv, BindTypes
<1>3. \A m : S!Writes(m) => (m \in calls' <=> m \in calls)
    BY <1>1
<1>4. LinksFit'
    BY <1>1, <1>3, LinksKept DEF BindInv
<1>5. WordsFit'
    BY <1>3, WordsKept DEF BindInv
<1>6. RowsFit' /\ ChecksFit' /\ ListsFit' /\ UnseenFit'
  <2>1. Watched' = Watched /\ Watched \subseteq Repos
    BY DEF Watched
  <2>2. QED
    BY <2>1, TableStep
<1>7. QED
    BY <1>1, <1>2, <1>4, <1>5, <1>6 DEF BindInv

\* The bindings are listed.
LEMMA ListStep ==
    ASSUME BindInv, NEW c \in calls, S!handleServiceBindingsList(c)
    PROVE  BindInv'
<1>1. /\ ~S!Writes(c) /\ ~Checks(c) /\ c.rows \in BindTables
      /\ UNCHANGED <<bound, edits, want, contested, overtaken, elsewhere, unseen>>
    BY DEF S!handleServiceBindingsList, S!Writes, Checks, S!history, BindInv, BindTypes, BindMessages
<1>2. S!rowsOf(bound) \in BindTables /\ \A r \in Repos : S!rowsOf(bound)[r].service = bound[r]
    BY TableOf DEF BindInv, BindTypes
<1>3. CASE S!Answered(c, S!rowsOf(bound), "ok")
    BY <1>1, <1>2, <1>3, ReadStep
<1>4. CASE S!Answered(c, c.rows, "failed")
    BY <1>1, <1>4, ReadStep
<1>5. QED
    BY <1>3, <1>4 DEF S!handleServiceBindingsList, S!Replied

\* A check has asked about what it read.
LEMMA CheckedStep ==
    ASSUME BindInv, NEW c \in calls, S!handleServiceBindingsCheck(c)
    PROVE  BindInv'
<1>1. /\ ~S!Writes(c) /\ ~Lists(c) /\ c.rows \in BindTables /\ c.pc = "resolving"
      /\ UNCHANGED <<bound, edits, want, contested, overtaken, elsewhere, unseen>>
    BY DEF S!handleServiceBindingsCheck, S!Writes, Lists, S!history, BindInv, BindTypes, BindMessages
<1>2. PICK status \in [Repos -> {"nothing"} \union Services] :
          S!Answered(c, [r \in Repos |-> [c.rows[r] EXCEPT !.status = status[r]]], "ok")
    BY DEF S!handleServiceBindingsCheck
<1> DEFINE rows == [r \in Repos |-> [c.rows[r] EXCEPT !.status = status[r]]]
<1>3. rows \in BindTables /\ \A r \in Repos : rows[r].service = c.rows[r].service
    BY <1>1 DEF BindTables
<1>4. S!Answered(c, rows, "ok")
    BY <1>2
<1> HIDE DEF rows
<1>5. QED
    BY <1>1, <1>3, <1>4, ReadStep

\* The deploy section is told of the binding.
LEMMA PreflightStep ==
    ASSUME BindInv, NEW c \in calls, S!handleDeployPreflight(c)
    PROVE  BindInv'
<1>1. /\ ~S!Writes(c) /\ ~Lists(c) /\ ~Checks(c) /\ c.rows \in BindTables
      /\ UNCHANGED <<bound, edits, want, contested, overtaken, elsewhere, unseen>>
    BY DEF S!handleDeployPreflight, S!Writes, Lists, Checks, S!history, BindInv, BindTypes, BindMessages
<1>2. PICK answer \in {"failed", "verdict", "unbound"} : S!Answered(c, c.rows, answer)
    BY DEF S!handleDeployPreflight, S!Replied
<1>3. QED
    BY <1>1, <1>2, ReadStep

\* A message that is at work goes on.
LEMMA CallsContinue ==
    ASSUME BindInv, NEW c \in calls, NEW next \in BindMessages, SameMessage(next, c),
           CallFits(next), S!Continue(c, next)
    PROVE  /\ calls' = (calls \ {c}) \union {next} /\ options' = options /\ panel' = panel
           /\ calls' \in SUBSET BindMessages /\ IsFiniteSet(calls')
           /\ CallsFit' /\ InboxesFit'
<1>1. calls' = (calls \ {c}) \union {next} /\ options' = options /\ panel' = panel
    BY DEF S!Continue
<1>2. calls' \in SUBSET BindMessages /\ IsFiniteSet(calls')
    BY <1>1, FS_RemoveElement, FS_AddElement DEF BindInv, BindTypes
<1>3. CallsFit'
    BY <1>1 DEF BindInv, CallsFit, CallFits, Sound, SameMessage
<1>4. InboxesFit'
    BY <1>1 DEF BindInv, InboxesFit
<1>5. QED
    BY <1>1, <1>2, <1>3, <1>4

\* The table stands when a message goes on, if a check has read what is stored and what
\* the page has under way.
LEMMA TableContinues ==
    ASSUME BindInv, NEW c \in calls, NEW next \in BindMessages, SameMessage(next, c),
           calls' = (calls \ {c}) \union {next}, options' = options, unseen' = unseen,
           bound' = bound, overtaken \subseteq overtaken', elsewhere' = elsewhere,
           Checks(next) /\ HasRead(next) =>
               /\ \A r \in Repos : next.rows[r].service = bound[r]
               /\ \A w \in calls : S!Writes(w) /\ w.from = "options" => w.repo \in overtaken'
    PROVE  RowsFit' /\ ChecksFit' /\ ListsFit' /\ UnseenFit'
<1>1. Watched' \subseteq Watched /\ Watched \subseteq Repos
    BY DEF Watched
<1>2. /\ S!Writes(next) <=> S!Writes(c)
      /\ Lists(next) <=> Lists(c)
      /\ Checks(next) <=> Checks(c)
      /\ Pending(next) <=> Pending(c)
      /\ next.repo = c.repo /\ next.gen = c.gen /\ next.from = c.from
    BY DEF SameMessage, S!Writes, Lists, Checks, Pending, Follows
<1>3. \A r, n : Owed(r, n) => Owed(r, n)'
  <2> SUFFICES ASSUME NEW r, NEW m \in PageWrites(calls, r)
               PROVE  PageWrites(calls', r) # {}
    BY DEF Owed
  <2>1. CASE m = c
    <3>1. next \in PageWrites(calls', r)
      BY <1>2, <2>1 DEF PageWrites
    <3>2. QED
      BY <3>1
  <2>2. CASE m # c
    <3>1. m \in PageWrites(calls', r)
      BY <2>2 DEF PageWrites
    <3>2. QED
      BY <3>1
  <2>3. QED
    BY <2>1, <2>2
<1>4. Listed => Listed'
    BY <1>2 DEF Listed
<1>5. RowsFit'
    BY <1>1, <1>3, <1>4 DEF BindInv, RowsFit
<1>6. \A w \in calls' : S!Writes(w) /\ w.from = "options" =>
          \E v \in calls : S!Writes(v) /\ v.from = "options" /\ v.repo = w.repo
    BY <1>2
<1>7. ASSUME NEW m, CheckFits(m) PROVE CheckFits(m)'
    BY <1>1, <1>6, <1>7 DEF CheckFits
<1>8. Checks(next) => CheckFits(next)'
  <2>1. Checks(c) => next.gen <= options.bindingsGeneration
    BY <1>2 DEF BindInv, ChecksFit, CheckFits
  <2>2. QED
    BY <1>1, <1>2, <1>6, <2>1 DEF CheckFits
<1>9. ChecksFit'
    BY <1>7, <1>8 DEF BindInv, ChecksFit
<1>10. ListsFit'
    BY <1>1, <1>3 DEF BindInv, ListsFit
<1>11. UnseenFit'
  <2>1. \A m : Pending(m)' <=> Pending(m)
    BY DEF Pending, Follows
  <2>2. (\E m \in calls : Pending(m)) => \E m \in calls' : Pending(m)
    BY <1>2
  <2>3. QED
    BY <2>1, <2>2 DEF BindInv, UnseenFit, Pending, Follows
<1>12. QED
    BY <1>5, <1>9, <1>10, <1>11

\* A check reads the bindings.
LEMMA CheckReadsStep ==
    ASSUME BindInv, NEW c \in calls, S!CheckReads(c)
    PROVE  BindInv'
<1>1. /\ ~S!Writes(c) /\ ~Lists(c) /\ Checks(c) /\ c.pc = "sent" /\ c.rows \in BindTables
      /\ UNCHANGED <<bound, edits, want, contested, elsewhere, unseen>>
      /\ c \in BindMessages
    BY DEF S!CheckReads, S!Writes, Lists, Checks, BindInv, BindTypes, BindMessages
<1>2. S!rowsOf(bound) \in BindTables /\ \A r \in Repos : S!rowsOf(bound)[r].service = bound[r]
    BY TableOf DEF BindInv, BindTypes
<1>3. ASSUME S!Answered(c, c.rows, "failed"), overtaken' = overtaken PROVE BindInv'
    BY <1>1, <1>3, ReadStep
<1>4. ASSUME S!Continue(c, [c EXCEPT !.pc = "resolving", !.rows = S!rowsOf(bound)]),
             overtaken' = overtaken \union {w.repo : w \in {w \in calls :
                                                S!Writes(w) /\ w.from = "options"}}
      PROVE  BindInv'
  <2> DEFINE next == [c EXCEPT !.pc = "resolving", !.rows = S!rowsOf(bound)]
  <2>1. next \in BindMessages
    BY <1>1, <1>2 DEF BindMessages
  <2>2. SameMessage(next, c) /\ next.pc = "resolving" /\ next.rows = S!rowsOf(bound)
    BY <1>1 DEF SameMessage, BindMessages
  <2>3. S!Continue(c, next)
    BY <1>4
  <2> HIDE DEF next
  <2>4. CallFits(next)
    BY <1>1, <2>2 DEF BindInv, CallsFit, CallFits, Sound, SameMessage, S!Writes, Checks
  <2>5. /\ calls' = (calls \ {c}) \union {next} /\ options' = options /\ panel' = panel
        /\ calls' \in SUBSET BindMessages /\ IsFiniteSet(calls')
        /\ CallsFit' /\ InboxesFit'
    BY <2>1, <2>2, <2>3, <2>4, CallsContinue
  <2>6. ~S!Writes(next)
    BY <1>1, <2>2 DEF SameMessage, S!Writes
  <2>7. \A m : S!Writes(m) => (m \in calls' <=> m \in calls)
    BY <1>1, <2>5, <2>6
  <2>8. BindTypes'
    BY <1>1, <2>5 DEF BindInv, BindTypes
  <2>9. LinksFit'
    BY <1>1, <2>5, <2>7, LinksKept DEF BindInv
  <2>10. WordsFit'
    BY <1>1, <2>7, WordsKept DEF BindInv
  <2>11. RowsFit' /\ ChecksFit' /\ ListsFit' /\ UnseenFit'
    <3>1. \A w \in calls : S!Writes(w) /\ w.from = "options" => w.repo \in overtaken'
      BY <1>4
    <3>2. QED
      BY <1>1, <1>2, <1>4, <2>1, <2>2, <2>5, <3>1, TableContinues
  <2>12. QED
    BY <2>5, <2>8, <2>9, <2>10, <2>11 DEF BindInv
<1>5. QED
    BY <1>3, <1>4 DEF S!CheckReads, S!Replied

\* A bind that was asked about is linked on the chain.
LEMMA LinkStep ==
    ASSUME BindInv, NEW c \in calls, c.kind = "service-bind", c.pc = "sent",
           S!Continue(c, [c EXCEPT !.pc = "writing"]),
           edits' = Append(edits, [c EXCEPT !.pc = "writing"]),
           UNCHANGED <<bound, want, contested, overtaken, elsewhere, unseen>>
    PROVE  BindInv'
<1> DEFINE next == [c EXCEPT !.pc = "writing"]
<1>1. c \in BindMessages
    BY DEF BindInv, BindTypes
<1>2. next \in BindMessages
    BY <1>1 DEF BindMessages
<1>3. SameMessage(next, c) /\ next.pc = "writing"
    BY <1>1 DEF SameMessage, BindMessages
<1>4. S!Continue(c, next) /\ edits' = Append(edits, next)
    OBVIOUS
<1> HIDE DEF next
<1>5. S!Writes(c) /\ S!Writes(next) /\ c.repo \in Repos /\ next.repo = c.repo
    BY <1>3 DEF BindInv, CallsFit, CallFits, Sound, SameMessage, S!Writes
<1>6. CallFits(next)
    BY <1>3, <1>5 DEF BindInv, CallsFit, CallFits, Sound, SameMessage, S!Writes
<1>7. /\ calls' = (calls \ {c}) \union {next} /\ options' = options /\ panel' = panel
      /\ calls' \in SUBSET BindMessages /\ IsFiniteSet(calls')
      /\ CallsFit' /\ InboxesFit'
    BY <1>2, <1>3, <1>4, <1>6, CallsContinue
<1> DEFINE n == Len(edits)
<1>8. /\ edits' \in Seq(BindMessages) /\ n \in Nat
      /\ DOMAIN edits = 1 .. n /\ DOMAIN edits' = 1 .. n + 1
      /\ \A i \in 1 .. n : edits'[i] = edits[i]
      /\ edits'[n + 1] = next
  <2>1. edits \in Seq(BindMessages)
    BY DEF BindInv, BindTypes
  <2>2. edits' \in Seq(BindMessages) /\ Len(edits') = n + 1
    BY <1>2, <1>4, <2>1, AppendProperties
  <2>3. QED
    BY <1>2, <1>4, <2>1, <2>2, AppendProperties, LenProperties
<1> HIDE DEF n
<1>9. BindTypes'
    BY <1>7, <1>8 DEF BindInv, BindTypes
<1>10. \A i \in 1 .. n : edits[i] # next /\ edits[i] # c /\ edits[i] \in calls
  <2>1. \A i \in 1 .. n : edits[i] \in calls /\ edits[i].pc = "writing"
    BY <1>8 DEF BindInv, LinksFit
  <2>2. next \notin calls
    BY <1>3 DEF BindInv, CallsFit, SameMessage
  <2>3. QED
    BY <2>1, <2>2
<1>11. LinksFit'
  <2>1. \A i \in 1 .. n + 1 : edits'[i] \in calls' /\ edits'[i].pc = "writing"
    BY <1>3, <1>7, <1>8, <1>10 DEF BindInv, LinksFit
  <2>2. \A i, j \in 1 .. n + 1 : edits'[i] = edits'[j] => i = j
    BY <1>8, <1>10 DEF BindInv, LinksFit
  <2>3. \A m \in calls' : m.pc = "writing" => \E i \in 1 .. n + 1 : edits'[i] = m
    <3>1. n + 1 \in 1 .. n + 1 /\ \A i \in 1 .. n : i \in 1 .. n + 1
      BY <1>8
    <3>2. \A m \in calls : m.pc = "writing" => \E i \in 1 .. n : edits[i] = m
      BY <1>8 DEF BindInv, LinksFit
    <3>3. QED
      BY <1>7, <1>8, <3>1, <3>2
  <2>4. QED
    BY <1>8, <2>1, <2>2, <2>3 DEF LinksFit
<1>12. WordsFit'
  <2> SUFFICES ASSUME NEW r \in Repos \ contested
               PROVE  /\ \A m \in AskedAbout(calls', r) : want[r] = m.service
                      /\ AskedAbout(calls', r) = {} => Leaves(edits', bound, r, want[r])
    BY DEF WordsFit
  <2>1. \A m \in AskedAbout(calls, r) : want[r] = m.service
    BY DEF BindInv, WordsFit
  <2>2. AskedAbout(calls', r) \subseteq AskedAbout(calls, r)
    BY <1>3, <1>7 DEF AskedAbout
  <2>3. CASE r = c.repo
    <3>1. want[r] = next.service
      <4>1. c \in AskedAbout(calls, r)
        BY <1>5, <2>3 DEF AskedAbout
      <4>2. QED
        BY <1>3, <2>1, <4>1 DEF SameMessage
    <3>2. n + 1 \in LinkedFor(edits', r)
      BY <1>5, <1>8, <2>3 DEF LinkedFor
    <3>3. \A i \in LinkedFor(edits', r) : n + 1 <= i => i = n + 1
      BY <1>8 DEF LinkedFor
    <3>4. Leaves(edits', bound, r, want[r])
      BY <1>8, <3>1, <3>2, <3>3 DEF Leaves
    <3>5. QED
      BY <2>1, <2>2, <3>4
  <2>4. CASE r # c.repo
    <3>1. AskedAbout(calls', r) = AskedAbout(calls, r)
      BY <1>3, <1>5, <1>7, <2>4 DEF AskedAbout
    <3>2. LinkedFor(edits', r) = LinkedFor(edits, r)
      BY <1>5, <1>8, <2>4 DEF LinkedFor
    <3>3. AskedAbout(calls, r) = {} => Leaves(edits, bound, r, want[r])
      BY DEF BindInv, WordsFit
    <3>4. \A i \in LinkedFor(edits, r) : edits'[i] = edits[i]
      BY <1>8 DEF LinkedFor
    <3>5. QED
      BY <2>1, <3>1, <3>2, <3>3, <3>4 DEF Leaves
  <2>5. QED
    BY <2>3, <2>4
<1>13. RowsFit' /\ ChecksFit' /\ ListsFit' /\ UnseenFit'
  <2>1. ~Checks(next)
    BY <1>5 DEF Checks, S!Writes
  <2>2. QED
    BY <1>2, <1>3, <1>7, <2>1, TableContinues
<1>14. QED
    BY <1>7, <1>9, <1>11, <1>12, <1>13 DEF BindInv

\* A write that came to nothing leaves what the other links of its repository do.
LEMMA RefusedProperties ==
    ASSUME BindInv, NEW c \in calls, S!Writes(c), S!Refused(c), calls' = calls \ {c}
    PROVE  /\ want' \in [Repos -> Services \union {NoService}]
           /\ \A r \in Repos : r # c.repo => want'[r] = want[r]
           /\ AskedAbout(calls', c.repo) # {} => want' = want
           /\ LET linked == {i \in LinkedFor(edits, c.repo) : edits[i] # c}
              IN  AskedAbout(calls', c.repo) = {} =>
                      /\ linked = {} => want'[c.repo] = bound[c.repo]
                      /\ \A i \in linked : (\A j \in linked : j <= i) => want'[c.repo] = edits[i].service
<1> DEFINE linked == {i \in LinkedFor(edits, c.repo) : edits[i] # c}
           found == IF linked = {} THEN bound[c.repo] ELSE edits[S!Max(linked)].service
<1>1. /\ want \in [Repos -> Services \union {NoService}] /\ c.repo \in Repos
      /\ bound \in [Repos -> Services \union {NoService}] /\ edits \in Seq(BindMessages)
    BY DEF BindInv, BindTypes, CallsFit, CallFits, Sound
<1>2. linked = {i \in DOMAIN edits : edits[i] # c /\ edits[i].repo = c.repo}
    BY DEF LinkedFor
<1>3. (\E m \in calls \ {c} : S!Writes(m) /\ m.pc = "sent" /\ m.repo = c.repo)
          <=> AskedAbout(calls', c.repo) # {}
    BY DEF AskedAbout
<1>4. want' = IF AskedAbout(calls', c.repo) # {} THEN want ELSE [want EXCEPT ![c.repo] = found]
    BY <1>2, <1>3 DEF S!Refused
<1>5. linked # {} => S!Max(linked) \in linked /\ \A j \in linked : j <= S!Max(linked)
  <2>1. linked \in SUBSET DOMAIN edits
    BY <1>2
  <2> HIDE DEF linked
  <2>2. QED
    BY <1>1, <2>1, LastPlace
<1>6. DOMAIN edits \subseteq Nat /\ \A i \in DOMAIN edits : edits[i] \in BindMessages
  <2>1. DOMAIN edits = 1 .. Len(edits) /\ Len(edits) \in Nat
    BY <1>1, LenProperties
  <2>2. \A i \in 1 .. Len(edits) : edits[i] \in BindMessages
    BY <1>1, ElementOfSeq
  <2>3. QED
    BY <2>1, <2>2
<1>7. found \in Services \union {NoService}
  <2>1. ASSUME linked # {} PROVE edits[S!Max(linked)] \in BindMessages
    BY <1>2, <1>5, <1>6, <2>1
  <2>2. QED
    BY <1>1, <2>1 DEF BindMessages
<1>8. \A i \in linked : (\A j \in linked : j <= i) => i = S!Max(linked)
  <2> SUFFICES ASSUME NEW i \in linked, \A j \in linked : j <= i PROVE i = S!Max(linked)
    OBVIOUS
  <2>1. linked \subseteq Nat
    BY <1>2, <1>6
  <2>2. linked # {}
    OBVIOUS
  <2> HIDE DEF linked
  <2>3. S!Max(linked) \in linked /\ i <= S!Max(linked)
    BY <1>5, <2>2
  <2>4. S!Max(linked) <= i
    BY <2>3
  <2>5. i \in Nat /\ S!Max(linked) \in Nat
    BY <2>1, <2>3
  <2>6. QED
    BY <2>3, <2>4, <2>5
<1>9. \A i \in linked : (\A j \in linked : j <= i) => found = edits[i].service
    BY <1>8
<1>10. linked = {} => found = bound[c.repo]
    OBVIOUS
<1> HIDE DEF found
<1>11. /\ want' \in [Repos -> Services \union {NoService}]
       /\ \A r \in Repos : r # c.repo => want'[r] = want[r]
       /\ AskedAbout(calls', c.repo) # {} => want' = want
       /\ AskedAbout(calls', c.repo) = {} => want'[c.repo] = found
    BY <1>1, <1>4, <1>7
<1>12. QED
    BY <1>9, <1>10, <1>11

\* A bind that was asked about is refused.
LEMMA RefusedStep ==
    ASSUME BindInv, NEW c \in calls, c.kind = "service-bind", c.pc = "sent",
           S!Replied(c, "refused"), S!Refused(c),
           UNCHANGED <<bound, edits, contested, overtaken, elsewhere, unseen>>
    PROVE  BindInv'
<1>1. /\ c \in BindMessages /\ c.rows \in BindTables /\ S!Answered(c, c.rows, "refused")
      /\ S!Writes(c) /\ ~Checks(c) /\ ~Lists(c)
    BY DEF BindInv, BindTypes, BindMessages, S!Replied, S!Writes, Checks, Lists
<1>2. /\ calls' = calls \ {c} /\ calls' \in SUBSET BindMessages /\ IsFiniteSet(calls')
      /\ options' \in OptionsPages /\ panel' \in DeploySections
      /\ CallsFit' /\ InboxesFit'
    BY <1>1, CallsAnswered
<1> DEFINE linked == {i \in LinkedFor(edits, c.repo) : edits[i] # c}
<1>3. /\ want' \in [Repos -> Services \union {NoService}]
      /\ \A r \in Repos : r # c.repo => want'[r] = want[r]
      /\ AskedAbout(calls', c.repo) # {} => want' = want
      /\ AskedAbout(calls', c.repo) = {} =>
             /\ linked = {} => want'[c.repo] = bound[c.repo]
             /\ \A i \in linked : (\A j \in linked : j <= i) => want'[c.repo] = edits[i].service
    BY <1>1, <1>2, RefusedProperties
<1>4. linked = LinkedFor(edits, c.repo)
    BY DEF LinkedFor, BindInv, LinksFit
<1> HIDE DEF linked
<1>5. BindTypes'
    BY <1>2, <1>3 DEF BindInv, BindTypes
<1>6. LinksFit'
  <2>1. \A i \in DOMAIN edits : edits[i] \in calls' /\ edits[i].pc = "writing"
    BY <1>2 DEF BindInv, LinksFit
  <2>2. QED
    BY <1>2, <2>1 DEF BindInv, LinksFit
<1>7. WordsFit'
  <2> SUFFICES ASSUME NEW r \in Repos \ contested
               PROVE  /\ \A m \in AskedAbout(calls', r) : want'[r] = m.service
                      /\ AskedAbout(calls', r) = {} => Leaves(edits, bound, r, want'[r])
    BY DEF WordsFit
  <2>1. /\ \A m \in AskedAbout(calls, r) : want[r] = m.service
        /\ AskedAbout(calls, r) = {} => Leaves(edits, bound, r, want[r])
    BY DEF BindInv, WordsFit
  <2>2. AskedAbout(calls', r) \subseteq AskedAbout(calls, r)
    BY <1>2 DEF AskedAbout
  <2>3. CASE r # c.repo
    <3>1. AskedAbout(calls', r) = AskedAbout(calls, r)
      BY <1>2, <2>3 DEF AskedAbout
    <3>2. QED
      BY <1>3, <2>1, <2>3, <3>1
  <2>4. CASE r = c.repo /\ AskedAbout(calls', r) # {}
    BY <1>3, <2>1, <2>2, <2>4
  <2>5. CASE r = c.repo /\ AskedAbout(calls', r) = {}
    BY <1>3, <1>4, <2>5 DEF Leaves
  <2>6. QED
    BY <2>3, <2>4, <2>5
<1>8. RowsFit' /\ ChecksFit' /\ ListsFit' /\ UnseenFit'
    BY <1>1, TableStep
<1>9. QED
    BY <1>2, <1>5, <1>6, <1>7, <1>8 DEF BindInv

\* A bind is linked or refused.
LEMMA BindStep ==
    ASSUME BindInv, NEW c \in calls, S!handleServiceBind(c)
    PROVE  BindInv'
<1>1. /\ c.kind = "service-bind" /\ c.pc = "sent"
      /\ UNCHANGED <<bound, contested, overtaken, elsewhere, unseen>>
    BY DEF S!handleServiceBind
<1>2. ASSUME S!Continue(c, [c EXCEPT !.pc = "writing"]), want' = want,
             edits' = Append(edits, [c EXCEPT !.pc = "writing"])
      PROVE  BindInv'
    BY <1>1, <1>2, LinkStep
<1>3. ASSUME S!Replied(c, "refused"), S!Refused(c), edits' = edits PROVE BindInv'
    BY <1>1, <1>3, RefusedStep
<1>4. QED
    BY <1>2, <1>3 DEF S!handleServiceBind

\* The first link is a write at work, and the others are those behind it.
LEMMA FirstLink ==
    ASSUME BindInv, edits # <<>>
    PROVE  /\ Head(edits) \in calls /\ S!Writes(Head(edits)) /\ Head(edits).pc = "writing"
           /\ Head(edits).repo \in Repos /\ Head(edits) = edits[1]
           /\ Tail(edits) \in Seq(BindMessages) /\ Len(edits) \in Nat \ {0}
           /\ DOMAIN edits = 1 .. Len(edits) /\ DOMAIN Tail(edits) = 1 .. Len(edits) - 1
           /\ \A i \in 1 .. Len(edits) - 1 : Tail(edits)[i] = edits[i + 1]
           /\ \A i \in 2 .. Len(edits) : edits[i] # Head(edits)
<1>1. edits \in Seq(BindMessages)
    BY DEF BindInv, BindTypes
<1>2. /\ Tail(edits) \in Seq(BindMessages) /\ Len(edits) \in Nat \ {0}
      /\ DOMAIN edits = 1 .. Len(edits) /\ DOMAIN Tail(edits) = 1 .. Len(edits) - 1
      /\ \A i \in 1 .. Len(edits) - 1 : Tail(edits)[i] = edits[i + 1]
    BY <1>1, HeadTailProperties, LenProperties, EmptySeq
<1>3. Head(edits) = edits[1]
    BY <1>1
<1>4. Head(edits) \in calls /\ Head(edits).pc = "writing"
    BY <1>2, <1>3 DEF BindInv, LinksFit
<1>5. S!Writes(Head(edits)) /\ Head(edits).repo \in Repos
    BY <1>4 DEF BindInv, CallsFit, CallFits, Sound
<1>6. \A i \in 2 .. Len(edits) : edits[i] # Head(edits)
  <2>1. 1 \in DOMAIN edits
    BY <1>2
  <2>2. \A i \in 2 .. Len(edits) : i \in DOMAIN edits /\ i # 1
    BY <1>2
  <2>3. QED
    BY <1>3, <2>1, <2>2 DEF BindInv, LinksFit
<1>7. QED
    BY <1>2, <1>3, <1>4, <1>5, <1>6

\* Once the first link is done with, the links left are those behind it.
LEMMA LinksLeft ==
    ASSUME BindInv, edits # <<>>, calls' = calls \ {Head(edits)}, edits' = Tail(edits)
    PROVE  /\ LinksFit'
           /\ \A r : AskedAbout(calls', r) = AskedAbout(calls, r)
           /\ \A r : LinkedFor(edits', r) = {i \in 1 .. Len(edits) - 1 : edits[i + 1].repo = r}
<1>1. LinksFit'
  <2>1. \A i \in 1 .. Len(edits) - 1 : edits'[i] \in calls' /\ edits'[i].pc = "writing"
    BY FirstLink DEF BindInv, LinksFit
  <2>2. \A i, j \in 1 .. Len(edits) - 1 : edits'[i] = edits'[j] => i = j
    <3>1. \A i \in 1 .. Len(edits) - 1 : i + 1 \in DOMAIN edits /\ edits'[i] = edits[i + 1]
      BY FirstLink
    <3>2. \A i, j \in DOMAIN edits : edits[i] = edits[j] => i = j
      BY DEF BindInv, LinksFit
    <3>3. ASSUME NEW i \in 1 .. Len(edits) - 1, NEW j \in 1 .. Len(edits) - 1, edits'[i] = edits'[j]
          PROVE  i = j
      <4>1. i + 1 = j + 1
        BY <3>1, <3>2, <3>3
      <4>2. QED
        BY <4>1, FirstLink
    <3>4. QED
      BY <3>3
  <2>3. ASSUME NEW m \in calls', m.pc = "writing" PROVE \E i \in 1 .. Len(edits) - 1 : edits'[i] = m
    <3>1. PICK j \in DOMAIN edits : edits[j] = m
      BY <2>3 DEF BindInv, LinksFit
    <3>2. j \in 2 .. Len(edits)
      BY <3>1, FirstLink
    <3>3. j - 1 \in 1 .. Len(edits) - 1 /\ edits'[j - 1] = m
      BY <3>1, <3>2, FirstLink
    <3>4. QED
      BY <3>3
  <2>4. QED
    BY <2>1, <2>2, <2>3, FirstLink DEF LinksFit
<1>2. \A r : AskedAbout(calls', r) = AskedAbout(calls, r)
    BY FirstLink DEF AskedAbout
<1>3. \A r : LinkedFor(edits', r) = {i \in 1 .. Len(edits) - 1 : edits[i + 1].repo = r}
    BY FirstLink DEF LinkedFor
<1>4. QED
    BY <1>1, <1>2, <1>3

\* What the links leave a repository with is the same once the first has landed.
LEMMA LeavesLanded ==
    ASSUME BindInv, edits # <<>>, edits' = Tail(edits), calls' = calls \ {Head(edits)},
           bound' = [bound EXCEPT ![Head(edits).repo] = Head(edits).service],
           NEW r \in Repos, NEW service, Leaves(edits, bound, r, service)
    PROVE  Leaves(edits', bound', r, service)
<1> DEFINE n == Len(edits)
<1>1. LinkedFor(edits', r) = {i \in 1 .. n - 1 : edits[i + 1].repo = r}
    BY LinksLeft
<1>2. /\ n \in Nat \ {0} /\ DOMAIN edits = 1 .. n
      /\ \A i \in 1 .. n - 1 : edits'[i] = edits[i + 1]
      /\ Head(edits) = edits[1]
    BY FirstLink
<1>3. LinkedFor(edits, r) = {i \in 1 .. n : edits[i].repo = r}
    BY <1>2 DEF LinkedFor
<1> HIDE DEF n
<1>4. bound' = [bound EXCEPT ![edits[1].repo] = edits[1].service]
      /\ bound \in [Repos -> Services \union {NoService}]
    BY <1>2 DEF BindInv, BindTypes
<1>5. ASSUME LinkedFor(edits', r) = {} PROVE service = bound'[r]
  <2>1. \A i \in LinkedFor(edits, r) : i = 1
    <3>1. ASSUME NEW i \in 2 .. n, edits[i].repo = r PROVE FALSE
      <4>1. i - 1 \in 1 .. n - 1 /\ (i - 1) + 1 = i
        BY <1>2
      <4>2. i - 1 \in LinkedFor(edits', r)
        BY <1>1, <3>1, <4>1
      <4>3. QED
        BY <1>5, <4>2
    <3>2. QED
      BY <1>2, <1>3, <3>1
  <2>2. CASE edits[1].repo = r
    <3>1. 1 \in LinkedFor(edits, r)
      BY <1>2, <1>3, <2>2
    <3>2. \A j \in LinkedFor(edits, r) : j <= 1
      BY <2>1
    <3>3. service = edits[1].service
      BY <3>1, <3>2 DEF Leaves
    <3>4. QED
      BY <1>4, <2>2, <3>3
  <2>3. CASE edits[1].repo # r
    <3>1. LinkedFor(edits, r) = {}
      BY <1>3, <2>1, <2>3
    <3>2. QED
      BY <1>4, <2>3, <3>1 DEF Leaves
  <2>4. QED
    BY <2>2, <2>3
<1>6. ASSUME NEW i \in LinkedFor(edits', r), \A j \in LinkedFor(edits', r) : j <= i
      PROVE  service = edits'[i].service
  <2>1. i \in 1 .. n - 1 /\ edits[i + 1].repo = r /\ i + 1 \in LinkedFor(edits, r)
    BY <1>1, <1>2, <1>3
  <2>2. ASSUME NEW j \in LinkedFor(edits, r) PROVE j <= i + 1
    <3>1. CASE j = 1
      BY <2>1, <3>1
    <3>2. CASE j # 1
      <4>1. j - 1 \in 1 .. n - 1 /\ (j - 1) + 1 = j /\ edits[j].repo = r
        BY <1>2, <1>3, <3>2
      <4>2. j - 1 \in LinkedFor(edits', r)
        BY <1>1, <4>1
      <4>3. j - 1 <= i
        BY <1>6, <4>2
      <4>4. QED
        BY <2>1, <4>1, <4>3
    <3>3. QED
      BY <3>1, <3>2
  <2>3. service = edits[i + 1].service
    BY <2>1, <2>2 DEF Leaves
  <2>4. QED
    BY <1>2, <2>1, <2>3
<1>7. QED
    BY <1>5, <1>6 DEF Leaves

\* A write lands.
LEMMA LandStep ==
    ASSUME BindInv, edits # <<>>, bound' = S!Edited(Head(edits), bound),
           elsewhere' = IF Head(edits).from = "panel" THEN elsewhere \union {Head(edits).repo}
                        ELSE elsewhere,
           S!Replied(Head(edits), "ok"), edits' = Tail(edits),
           UNCHANGED <<want, contested, overtaken, unseen>>
    PROVE  BindInv'
<1> DEFINE c == Head(edits)
<1>1. /\ c \in calls /\ S!Writes(c) /\ c.pc = "writing" /\ c.repo \in Repos
      /\ edits' \in Seq(BindMessages)
    BY FirstLink
<1>2. /\ c \in BindMessages /\ c.rows \in BindTables /\ c.service \in Services \union {NoService}
      /\ c.from \in {"options", "panel"} /\ ~Checks(c) /\ ~Lists(c)
    BY <1>1 DEF BindInv, BindTypes, BindMessages, S!Writes, Checks, Lists
<1>3. /\ S!Answered(c, c.rows, "ok") /\ bound' = [bound EXCEPT ![c.repo] = c.service]
      /\ elsewhere' = IF c.from = "panel" THEN elsewhere \union {c.repo} ELSE elsewhere
    BY DEF S!Replied, S!Edited
<1> HIDE DEF c
<1>4. /\ calls' = calls \ {c} /\ calls' \in SUBSET BindMessages /\ IsFiniteSet(calls')
      /\ options' \in OptionsPages /\ panel' \in DeploySections
      /\ CallsFit' /\ InboxesFit'
    BY <1>1, <1>2, <1>3, CallsAnswered
<1>5. BindTypes'
    BY <1>1, <1>2, <1>3, <1>4 DEF BindInv, BindTypes
<1>6. LinksFit' /\ \A r : AskedAbout(calls', r) = AskedAbout(calls, r)
    BY <1>4, LinksLeft DEF c
<1>7. WordsFit'
  <2> SUFFICES ASSUME NEW r \in Repos \ contested
               PROVE  /\ \A m \in AskedAbout(calls', r) : want[r] = m.service
                      /\ AskedAbout(calls', r) = {} => Leaves(edits', bound', r, want[r])
    BY DEF WordsFit
  <2>1. /\ \A m \in AskedAbout(calls, r) : want[r] = m.service
        /\ AskedAbout(calls, r) = {} => Leaves(edits, bound, r, want[r])
    BY DEF BindInv, WordsFit
  <2>2. Leaves(edits, bound, r, want[r]) => Leaves(edits', bound', r, want[r])
    BY <1>3, <1>4, LeavesLanded DEF c
  <2>3. QED
    BY <1>6, <2>1, <2>2
<1>8. RowsFit' /\ ChecksFit' /\ ListsFit' /\ UnseenFit'
  <2>1. \A r \in Watched' : bound'[r] = bound[r] \/ (S!Writes(c) /\ c.repo = r /\ c.from = "options")
    BY <1>1, <1>2, <1>3 DEF Watched, BindInv, BindTypes
  <2>2. overtaken \subseteq overtaken' /\ elsewhere \subseteq elsewhere'
    BY <1>3
  <2>3. QED
    BY <1>1, <1>2, <1>3, <2>1, <2>2, TableStep
<1>9. QED
    BY <1>4, <1>5, <1>6, <1>7, <1>8 DEF BindInv

\* A write fails to land.
LEMMA FailStep ==
    ASSUME BindInv, edits # <<>>, S!Replied(Head(edits), "failed"), S!Refused(Head(edits)),
           edits' = Tail(edits), UNCHANGED <<bound, elsewhere, contested, overtaken, unseen>>
    PROVE  BindInv'
<1> DEFINE c == Head(edits)
           n == Len(edits)
           linked == {i \in LinkedFor(edits, c.repo) : edits[i] # c}
<1>1. /\ c \in calls /\ S!Writes(c) /\ c.pc = "writing" /\ c.repo \in Repos
      /\ edits' \in Seq(BindMessages) /\ n \in Nat \ {0} /\ c = edits[1]
      /\ DOMAIN edits = 1 .. n
      /\ \A i \in 1 .. n - 1 : edits'[i] = edits[i + 1]
      /\ \A i \in 2 .. n : edits[i] # c
    BY FirstLink
<1>2. /\ c \in BindMessages /\ c.rows \in BindTables /\ ~Checks(c) /\ ~Lists(c)
    BY <1>1 DEF BindInv, BindTypes, BindMessages, S!Writes, Checks, Lists
<1>3. S!Answered(c, c.rows, "failed") /\ S!Refused(c)
    BY DEF S!Replied
<1> HIDE DEF c, n
<1>4. /\ calls' = calls \ {c} /\ calls' \in SUBSET BindMessages /\ IsFiniteSet(calls')
      /\ options' \in OptionsPages /\ panel' \in DeploySections
      /\ CallsFit' /\ InboxesFit'
    BY <1>1, <1>2, <1>3, CallsAnswered
<1>5. /\ want' \in [Repos -> Services \union {NoService}]
      /\ \A r \in Repos : r # c.repo => want'[r] = want[r]
      /\ AskedAbout(calls', c.repo) # {} => want' = want
      /\ AskedAbout(calls', c.repo) = {} =>
             /\ linked = {} => want'[c.repo] = bound[c.repo]
             /\ \A i \in linked : (\A j \in linked : j <= i) => want'[c.repo] = edits[i].service
    BY <1>1, <1>3, <1>4, RefusedProperties
<1>6. BindTypes'
    BY <1>1, <1>4, <1>5 DEF BindInv, BindTypes
<1>7. /\ LinksFit'
      /\ \A r : AskedAbout(calls', r) = AskedAbout(calls, r)
      /\ \A r : LinkedFor(edits', r) = {i \in 1 .. n - 1 : edits[i + 1].repo = r}
    BY <1>4, LinksLeft DEF c, n
<1>8. linked = {i \in 2 .. n : edits[i].repo = c.repo}
    BY <1>1 DEF LinkedFor
<1> HIDE DEF linked
<1>9. WordsFit'
  <2> SUFFICES ASSUME NEW r \in Repos \ contested
               PROVE  /\ \A m \in AskedAbout(calls', r) : want'[r] = m.service
                      /\ AskedAbout(calls', r) = {} => Leaves(edits', bound, r, want'[r])
    BY DEF WordsFit
  <2>1. /\ \A m \in AskedAbout(calls, r) : want[r] = m.service
        /\ AskedAbout(calls, r) = {} => Leaves(edits, bound, r, want[r])
    BY DEF BindInv, WordsFit
  <2>2. CASE r # c.repo
    <3>1. LinkedFor(edits, r) = {i \in 2 .. n : edits[i].repo = r}
      BY <1>1, <2>2 DEF LinkedFor
    <3>2. ASSUME Leaves(edits, bound, r, want[r]) PROVE Leaves(edits', bound, r, want[r])
      <4>1. \A i \in LinkedFor(edits', r) : i + 1 \in LinkedFor(edits, r) /\ edits'[i] = edits[i + 1]
        BY <1>1, <1>7, <3>1
      <4>2. \A i \in LinkedFor(edits, r) : i - 1 \in LinkedFor(edits', r)
        <5>1. ASSUME NEW i \in 2 .. n, edits[i].repo = r PROVE i - 1 \in LinkedFor(edits', r)
          <6>1. i - 1 \in 1 .. n - 1 /\ (i - 1) + 1 = i
            BY <1>1
          <6>2. QED
            BY <1>7, <5>1, <6>1
        <5>2. QED
          BY <3>1, <5>1
      <4>3. LinkedFor(edits', r) = {} => LinkedFor(edits, r) = {}
        BY <4>2
      <4>4. ASSUME NEW i \in LinkedFor(edits', r), \A j \in LinkedFor(edits', r) : j <= i
            PROVE  want[r] = edits'[i].service
        <5>1. i \in Nat /\ \A j \in LinkedFor(edits, r) : j \in Nat
          BY <1>1, <1>7, <3>1
        <5>2. \A j \in LinkedFor(edits, r) : j - 1 <= i
          BY <4>2, <4>4
        <5>3. \A j \in LinkedFor(edits, r) : j <= i + 1
          BY <5>1, <5>2
        <5>4. QED
          BY <3>2, <4>1, <5>3 DEF Leaves
      <4>5. QED
        BY <3>2, <4>3, <4>4 DEF Leaves
    <3>3. QED
      BY <1>5, <1>7, <2>1, <2>2, <3>2
  <2>3. CASE r = c.repo /\ AskedAbout(calls', r) # {}
    BY <1>5, <1>7, <2>1, <2>3
  <2>4. CASE r = c.repo /\ AskedAbout(calls', r) = {}
    <3>1. \A i \in LinkedFor(edits', r) : i + 1 \in linked /\ edits'[i] = edits[i + 1] /\ i \in Nat
      BY <1>1, <1>7, <1>8, <2>4
    <3>2. \A i \in linked : i - 1 \in LinkedFor(edits', r) /\ i \in Nat
      <4>1. ASSUME NEW i \in 2 .. n, edits[i].repo = r PROVE i - 1 \in LinkedFor(edits', r)
        <5>1. i - 1 \in 1 .. n - 1 /\ (i - 1) + 1 = i
          BY <1>1
        <5>2. QED
          BY <1>7, <4>1, <5>1
      <4>2. QED
        BY <1>1, <1>8, <2>4, <4>1
    <3>3. LinkedFor(edits', r) = {} => want'[r] = bound[r]
      BY <1>5, <2>4, <3>2
    <3>4. ASSUME NEW i \in LinkedFor(edits', r), \A j \in LinkedFor(edits', r) : j <= i
          PROVE  want'[r] = edits'[i].service
      <4>1. \A j \in linked : j - 1 <= i
        BY <3>2, <3>4
      <4>2. \A j \in linked : j <= i + 1
        BY <3>1, <3>2, <4>1
      <4>3. QED
        BY <1>5, <2>4, <3>1, <4>2
    <3>5. QED
      BY <2>4, <3>3, <3>4 DEF Leaves
  <2>5. QED
    BY <2>2, <2>3, <2>4
<1>10. RowsFit' /\ ChecksFit' /\ ListsFit' /\ UnseenFit'
    BY <1>1, <1>2, <1>3, TableStep
<1>11. QED
    BY <1>4, <1>6, <1>7, <1>9, <1>10 DEF BindInv

\* The chain's first write lands or fails.
LEMMA WriteLandsStep ==
    ASSUME BindInv, S!WriteLands
    PROVE  BindInv'
<1>1. edits # <<>> /\ edits' = Tail(edits) /\ UNCHANGED <<contested, overtaken, unseen>>
    BY DEF S!WriteLands
<1>2. ASSUME bound' = S!Edited(Head(edits), bound), S!Replied(Head(edits), "ok"), want' = want,
             elsewhere' = IF Head(edits).from = "panel" THEN elsewhere \union {Head(edits).repo}
                          ELSE elsewhere
      PROVE  BindInv'
    BY <1>1, <1>2, LandStep
<1>3. ASSUME S!Replied(Head(edits), "failed"), S!Refused(Head(edits)),
             UNCHANGED <<bound, elsewhere>>
      PROVE  BindInv'
    BY <1>1, <1>3, FailStep
<1>4. QED
    BY <1>2, <1>3 DEF S!WriteLands

\* The answers that an evicted worker leaves a page without.
LEMMA LostAnswers ==
    ASSUME BindTypes, NEW from \in {"options", "panel"}
    PROVE  LET lost == S!SetToSeq({[c EXCEPT !.pc = "replied", !.answer = "lost"] :
                                      c \in {c \in calls : c.from = from}})
           IN  /\ lost \in Seq(BindMessages)
               /\ \A i \in DOMAIN lost :
                     /\ lost[i].pc = "replied" /\ lost[i].answer = "lost"
                     /\ \E c \in calls : c.from = from /\ SameMessage(lost[i], c)
               /\ \A c \in calls : c.from = from =>
                     \E i \in DOMAIN lost : SameMessage(lost[i], c)
<1> DEFINE mine == {c \in calls : c.from = from}
           Gone(c) == [c EXCEPT !.pc = "replied", !.answer = "lost"]
           gone == {Gone(c) : c \in mine}
<1>1. \A c \in mine : /\ Gone(c) \in BindMessages /\ SameMessage(Gone(c), c)
                      /\ Gone(c).pc = "replied" /\ Gone(c).answer = "lost"
  <2> SUFFICES ASSUME NEW c \in mine
               PROVE  /\ Gone(c) \in BindMessages /\ SameMessage(Gone(c), c)
                      /\ Gone(c).pc = "replied" /\ Gone(c).answer = "lost"
    OBVIOUS
  <2>1. c \in BindMessages
    BY DEF BindTypes
  <2>2. Gone(c) \in BindMessages
    BY <2>1 DEF BindMessages
  <2>3. SameMessage(Gone(c), c) /\ Gone(c).pc = "replied" /\ Gone(c).answer = "lost"
    BY <2>1 DEF BindMessages, SameMessage
  <2>4. QED
    BY <2>2, <2>3
<1>2. IsFiniteSet(gone)
  <2> DEFINE f == [c \in mine |-> Gone(c)]
  <2>1. f \in Surjection(mine, gone)
    BY DEF Surjection
  <2>2. IsFiniteSet(mine)
    BY FS_Subset DEF BindTypes
  <2> HIDE DEF f, mine, gone
  <2>3. QED
    BY <2>1, <2>2, FS_Surjection
<1>3. gone \in SUBSET BindMessages
    BY <1>1
<1>4. \A m \in gone : /\ m.pc = "replied" /\ m.answer = "lost"
                      /\ \E c \in calls : c.from = from /\ SameMessage(m, c)
    BY <1>1
<1>5. \A c \in calls : c.from = from => \E m \in gone : SameMessage(m, c)
    BY <1>1
<1> HIDE DEF gone
<1>6. /\ S!SetToSeq(gone) \in Seq(BindMessages)
      /\ \A i \in DOMAIN S!SetToSeq(gone) : S!SetToSeq(gone)[i] \in gone
      /\ \A m \in gone : \E i \in DOMAIN S!SetToSeq(gone) : S!SetToSeq(gone)[i] = m
    BY <1>2, <1>3, InSequence
<1> DEFINE lost == S!SetToSeq(gone)
<1>7. /\ lost \in Seq(BindMessages)
      /\ \A i \in DOMAIN lost :
            /\ lost[i].pc = "replied" /\ lost[i].answer = "lost"
            /\ \E c \in calls : c.from = from /\ SameMessage(lost[i], c)
      /\ \A c \in calls : c.from = from => \E i \in DOMAIN lost : SameMessage(lost[i], c)
    BY <1>4, <1>5, <1>6
<1>8. QED
    BY <1>7 DEF gone

\* The worker is evicted.
LEMMA EvictStep ==
    ASSUME BindInv, S!Evict
    PROVE  BindInv'
<1> DEFINE lost(from) == S!SetToSeq({[c EXCEPT !.pc = "replied", !.answer = "lost"] :
                                        c \in {c \in calls : c.from = from}})
<1>1. /\ calls' = {} /\ edits' = <<>> /\ UNCHANGED <<want, overtaken, unseen>>
      /\ contested' = contested \union {c.repo : c \in {c \in calls : S!Writes(c)}}
      /\ elsewhere' = elsewhere \union {c.repo : c \in {c \in calls : S!Writes(c) /\ c.from = "panel"}}
      /\ bound' \in {bound} \union (IF edits = <<>> THEN {} ELSE {S!Edited(Head(edits), bound)})
      /\ options' = [options EXCEPT !.inbox = options.inbox \o lost("options")]
      /\ panel' = [panel EXCEPT !.inbox = panel.inbox \o lost("panel")]
    BY DEF S!Evict
<1>2. \A from \in {"options", "panel"} :
          /\ lost(from) \in Seq(BindMessages)
          /\ \A i \in DOMAIN lost(from) :
                /\ lost(from)[i].pc = "replied" /\ lost(from)[i].answer = "lost"
                /\ \E c \in calls : c.from = from /\ SameMessage(lost(from)[i], c)
          /\ \A c \in calls : c.from = from => \E i \in DOMAIN lost(from) : SameMessage(lost(from)[i], c)
    BY LostAnswers DEF BindInv
<1> HIDE DEF lost
<1> DEFINE mine == lost("options")
           theirs == lost("panel")
           n == Len(options.inbox)
           k == Len(mine)
<1>3. options \in OptionsPages /\ panel \in DeploySections
    BY DEF BindInv, BindTypes
<1>4. /\ options'.inbox = options.inbox \o mine /\ SamePage
      /\ panel'.inbox = panel.inbox \o theirs
      /\ panel'.repo = panel.repo /\ panel'.shown = panel.shown
    BY <1>1, <1>3 DEF OptionsPages, DeploySections, SamePage
<1>5. /\ options.inbox \in Seq(BindMessages) /\ panel.inbox \in Seq(BindMessages)
      /\ mine \in Seq(BindMessages) /\ theirs \in Seq(BindMessages)
    BY <1>2, <1>3 DEF OptionsPages, DeploySections
<1>6. options' \in OptionsPages /\ panel' \in DeploySections
  <2>1. options'.inbox \in Seq(BindMessages) /\ panel'.inbox \in Seq(BindMessages)
    BY <1>4, <1>5, ConcatProperties
  <2>2. options' = [options EXCEPT !.inbox = options'.inbox] /\ panel' = [panel EXCEPT !.inbox = panel'.inbox]
    BY <1>1, <1>4
  <2>3. options' \in OptionsPages
    BY <1>3, <2>1, <2>2 DEF OptionsPages
  <2>4. panel' \in DeploySections
    BY <1>3, <2>1, <2>2 DEF DeploySections
  <2>5. QED
    BY <2>3, <2>4
<1>7. /\ \A i \in DOMAIN mine :
            /\ mine[i].pc = "replied" /\ mine[i].answer = "lost"
            /\ \E c \in calls : c.from = "options" /\ SameMessage(mine[i], c)
      /\ \A c \in calls : c.from = "options" => \E i \in DOMAIN mine : SameMessage(mine[i], c)
      /\ \A i \in DOMAIN theirs :
            /\ theirs[i].pc = "replied" /\ theirs[i].answer = "lost"
            /\ \E c \in calls : c.from = "panel" /\ SameMessage(theirs[i], c)
    BY <1>2
<1> HIDE DEF mine, theirs
<1>8. /\ n \in Nat /\ k \in Nat /\ DOMAIN mine = 1 .. k
      /\ DOMAIN options.inbox = 1 .. n /\ DOMAIN options'.inbox = 1 .. n + k
      /\ \A i \in 1 .. n : options'.inbox[i] = options.inbox[i]
      /\ \A i \in n + 1 .. n + k : i - n \in 1 .. k /\ options'.inbox[i] = mine[i - n]
      /\ \A i \in 1 .. k : i + n \in n + 1 .. n + k /\ options'.inbox[i + n] = mine[i]
  <2>1. n \in Nat /\ k \in Nat /\ DOMAIN mine = 1 .. k /\ DOMAIN options.inbox = 1 .. n
    BY <1>5, LenProperties
  <2>2. options'.inbox \in Seq(BindMessages) /\ Len(options'.inbox) = n + k
    BY <1>4, <1>5, ConcatProperties
  <2>3. DOMAIN options'.inbox = 1 .. n + k
    BY <2>2, LenProperties
  <2>4. \A i \in 1 .. n + k : options'.inbox[i] = IF i <= n THEN options.inbox[i] ELSE mine[i - n]
    BY <1>4, <1>5, ConcatProperties
  <2> HIDE DEF n, k
  <2>5. \A i \in 1 .. n : options'.inbox[i] = options.inbox[i]
    BY <2>1, <2>4
  <2>6. \A i \in n + 1 .. n + k : i - n \in 1 .. k /\ options'.inbox[i] = mine[i - n]
    BY <2>1, <2>4
  <2>7. \A i \in 1 .. k : i + n \in n + 1 .. n + k /\ options'.inbox[i + n] = mine[i]
    <3>1. ASSUME NEW i \in 1 .. k
          PROVE  i + n \in n + 1 .. n + k /\ (i + n) - n = i
      BY <2>1
    <3>2. QED
      BY <2>6, <3>1
  <2>8. QED
    BY <2>1, <2>3, <2>5, <2>6, <2>7
<1> HIDE DEF n, k
<1>9. BindTypes'
  <2>1. edits # <<>> => /\ S!Edited(Head(edits), bound) \in [Repos -> Services \union {NoService}]
    <3>1. ASSUME edits # <<>> PROVE Head(edits) \in BindMessages /\ Head(edits).repo \in Repos
      BY <3>1, FirstLink DEF BindInv, BindTypes
    <3>2. QED
      BY <3>1 DEF S!Edited, BindInv, BindTypes, BindMessages
  <2>2. bound' \in [Repos -> Services \union {NoService}]
    BY <1>1, <2>1 DEF BindInv, BindTypes
  <2>3. IsFiniteSet(calls') /\ edits' \in Seq(BindMessages)
    BY <1>1, FS_EmptySet
  <2>4. QED
    BY <1>1, <1>6, <2>2, <2>3 DEF BindInv, BindTypes
<1>10. CallsFit' /\ LinksFit'
    BY <1>1 DEF CallsFit, LinksFit
<1>11. \A m, c : c \in calls /\ SameMessage(m, c) /\ m.pc = "replied" /\ m.answer = "lost"
          => ReplyFits(m, c.from)
    BY DEF BindInv, CallsFit, CallFits, ReplyFits, Sound, SameMessage, S!Writes
<1>12. InboxesFit'
  <2>1. \A i \in 1 .. n + k : ReplyFits(options'.inbox[i], "options")
    <3>1. ASSUME NEW i \in 1 .. k PROVE ReplyFits(mine[i], "options")
      <4>1. mine[i].pc = "replied" /\ mine[i].answer = "lost"
        BY <1>7, <1>8
      <4>2. PICK c \in calls : c.from = "options" /\ SameMessage(mine[i], c)
        BY <1>7, <1>8
      <4>3. ReplyFits(mine[i], c.from)
        BY <1>11, <4>1, <4>2
      <4>4. QED
        BY <4>2, <4>3
    <3>2. \A i \in 1 .. n : ReplyFits(options.inbox[i], "options")
      BY <1>8 DEF BindInv, InboxesFit
    <3>3. \A i \in 1 .. n + k : i \in 1 .. n \/ i \in n + 1 .. n + k
      BY <1>8
    <3>4. QED
      BY <1>8, <3>1, <3>2, <3>3
  <2>2. \A i \in DOMAIN panel'.inbox : ReplyFits(panel'.inbox[i], "panel")
    <3>1. ASSUME NEW i \in DOMAIN panel'.inbox
          PROVE  \/ i \in DOMAIN panel.inbox /\ panel'.inbox[i] = panel.inbox[i]
                 \/ \E j \in DOMAIN theirs : panel'.inbox[i] = theirs[j]
      <4>1. /\ Len(panel.inbox) \in Nat /\ Len(theirs) \in Nat
            /\ DOMAIN panel.inbox = 1 .. Len(panel.inbox) /\ DOMAIN theirs = 1 .. Len(theirs)
            /\ DOMAIN panel'.inbox = 1 .. Len(panel.inbox) + Len(theirs)
        <5>1. panel'.inbox \in Seq(BindMessages) /\ Len(panel'.inbox) = Len(panel.inbox) + Len(theirs)
          BY <1>4, <1>5, ConcatProperties
        <5>2. QED
          BY <1>5, <5>1, LenProperties
      <4>2. panel'.inbox[i] = IF i <= Len(panel.inbox) THEN panel.inbox[i]
                              ELSE theirs[i - Len(panel.inbox)]
        BY <1>4, <1>5, <4>1, ConcatProperties
      <4>3. i <= Len(panel.inbox) \/ i - Len(panel.inbox) \in 1 .. Len(theirs)
        BY <4>1
      <4>4. QED
        BY <4>1, <4>2, <4>3
    <3>2. \A j \in DOMAIN theirs : ReplyFits(theirs[j], "panel")
      BY <1>7, <1>11
    <3>3. QED
      BY <3>1, <3>2 DEF BindInv, InboxesFit
  <2>3. QED
    BY <1>4, <1>8, <2>1, <2>2 DEF BindInv, InboxesFit
<1>13. WordsFit'
  <2> SUFFICES ASSUME NEW r \in Repos \ contested'
               PROVE  /\ \A m \in AskedAbout(calls', r) : want[r] = m.service
                      /\ AskedAbout(calls', r) = {} => Leaves(edits', bound', r, want[r])
    BY <1>1 DEF WordsFit
  <2>1. r \in Repos \ contested /\ \A c \in calls : S!Writes(c) => c.repo # r
    BY <1>1
  <2>2. AskedAbout(calls, r) = {} /\ AskedAbout(calls', r) = {}
    BY <1>1, <2>1 DEF AskedAbout
  <2>3. LinkedFor(edits, r) = {}
    BY <2>1 DEF LinkedFor, BindInv, CallsFit, CallFits, LinksFit
  <2>4. want[r] = bound[r]
    BY <2>1, <2>2, <2>3 DEF BindInv, WordsFit, Leaves
  <2>5. bound'[r] = bound[r]
    <3>1. ASSUME edits # <<>> PROVE S!Edited(Head(edits), bound)[r] = bound[r]
      <4>1. Head(edits).repo # r
        BY <2>1, <3>1, FirstLink
      <4>2. QED
        BY <4>1 DEF S!Edited, BindInv, BindTypes
    <3>2. QED
      BY <1>1, <3>1
  <2>6. LinkedFor(edits', r) = {}
    BY <1>1 DEF LinkedFor
  <2>7. QED
    BY <2>2, <2>4, <2>5, <2>6 DEF Leaves
<1>14. Watched' \subseteq Watched
    BY <1>1 DEF Watched
<1>16. ASSUME NEW c \in calls, c.from = "options"
       PROVE  \E i \in n + 1 .. n + k : SameMessage(options'.inbox[i], c)
  <2>1. PICK i \in 1 .. k : SameMessage(mine[i], c)
    BY <1>7, <1>8, <1>16
  <2>2. i + n \in n + 1 .. n + k /\ options'.inbox[i + n] = mine[i]
    BY <1>8, <2>1
  <2>3. QED
    BY <2>1, <2>2
<1>17. \A r \in Watched' : \/ bound'[r] = bound[r]
                           \/ PageWrites(calls, r) # {} /\ edits # <<>> /\ r = Head(edits).repo
  <2> SUFFICES ASSUME NEW r \in Watched', edits # <<>>, bound' = S!Edited(Head(edits), bound),
                      r = Head(edits).repo
               PROVE  PageWrites(calls, r) # {}
    <3>1. \A r \in Repos : edits # <<>> /\ r # Head(edits).repo =>
              S!Edited(Head(edits), bound)[r] = bound[r]
      BY DEF S!Edited, BindInv, BindTypes
    <3>2. Watched' \subseteq Repos
      BY DEF Watched
    <3>3. QED
      BY <1>1, <3>1, <3>2
  <2>1. Head(edits) \in calls /\ S!Writes(Head(edits))
    BY FirstLink
  <2>2. Head(edits).from # "panel"
    BY <1>1, <2>1 DEF Watched
  <2>3. Head(edits).from = "options"
    BY <2>1, <2>2 DEF BindInv, BindTypes, BindMessages
  <2>4. Head(edits) \in PageWrites(calls, r)
    BY <2>1, <2>3 DEF PageWrites
  <2>5. QED
    BY <2>4
<1>18. ASSUME NEW r, NEW j \in 1 .. n + 1, Owed(r, j) PROVE Owed(r, j)'
  <2>1. ASSUME NEW c \in PageWrites(calls, r) PROVE WriteReplies(options'.inbox, j, r) # {}
    <3>1. c \in calls /\ S!Writes(c) /\ c.from = "options" /\ c.repo = r
      BY <2>1 DEF PageWrites
    <3>2. PICK i \in n + 1 .. n + k : SameMessage(options'.inbox[i], c)
      BY <1>16, <3>1
    <3>3. i \in 1 .. n + k /\ i >= j
      BY <1>8, <1>18, <3>2
    <3>4. S!Writes(options'.inbox[i]) /\ options'.inbox[i].repo = r
      BY <3>1, <3>2 DEF SameMessage, S!Writes
    <3>5. i \in WriteReplies(options'.inbox, j, r)
      BY <1>8, <3>3, <3>4 DEF WriteReplies
    <3>6. QED
      BY <3>5
  <2>2. ASSUME NEW i \in WriteReplies(options.inbox, j, r) PROVE WriteReplies(options'.inbox, j, r) # {}
    <3>1. i \in 1 .. n /\ i \in 1 .. n + k
      BY <1>8, <2>2 DEF WriteReplies
    <3>2. i \in WriteReplies(options'.inbox, j, r)
      BY <1>8, <2>2, <3>1 DEF WriteReplies
    <3>3. QED
      BY <3>2
  <2>3. QED
    BY <1>18, <2>1, <2>2 DEF Owed
<1>19. \A i \in 1 .. n + k : \/ i \in 1 .. n /\ options'.inbox[i] = options.inbox[i]
                             \/ /\ options'.inbox[i].pc = "replied" /\ options'.inbox[i].answer = "lost"
                                /\ \E c \in calls : SameMessage(options'.inbox[i], c)
  <2> SUFFICES ASSUME NEW i \in n + 1 .. n + k
               PROVE  /\ options'.inbox[i].pc = "replied" /\ options'.inbox[i].answer = "lost"
                      /\ \E c \in calls : SameMessage(options'.inbox[i], c)
    BY <1>8
  <2>1. i - n \in DOMAIN mine /\ options'.inbox[i] = mine[i - n]
    BY <1>8
  <2>2. QED
    BY <1>7, <2>1
<1>20. Listed => Listed'
  <2>1. ASSUME NEW c \in calls, Lists(c) PROVE Listed'
    <3>1. c.from = "options"
      BY <2>1 DEF BindInv, CallsFit, CallFits, Sound, Lists
    <3>2. PICK i \in n + 1 .. n + k : SameMessage(options'.inbox[i], c)
      BY <1>16, <3>1
    <3>3. i \in DOMAIN options'.inbox
      BY <1>8, <3>2
    <3>4. QED
      BY <2>1, <3>2, <3>3 DEF Listed, SameMessage, Lists
  <2>2. ASSUME NEW i \in 1 .. n, Lists(options.inbox[i]) PROVE Listed'
    <3>1. i \in DOMAIN options'.inbox /\ options'.inbox[i] = options.inbox[i]
      BY <1>8
    <3>2. QED
      BY <2>2, <3>1 DEF Listed
  <2>3. QED
    BY <1>8, <2>1, <2>2 DEF Listed
<1>21. RowsFit'
  <2> SUFFICES ASSUME options'.table = "shown", NEW r \in Watched'
               PROVE  options'.rows[r].service = bound'[r] \/ Owed(r, 1)' \/ Listed' \/ r \in unseen'.repos
    BY DEF RowsFit
  <2>1. options.rows[r].service = bound[r] \/ Owed(r, 1) \/ Listed \/ r \in unseen.repos
    BY <1>4, <1>14 DEF BindInv, RowsFit, SamePage
  <2>2. 1 \in 1 .. n + 1
    BY <1>8
  <2>3. bound'[r] # bound[r] => Owed(r, 1)
    BY <1>17 DEF Owed
  <2>4. QED
    BY <1>1, <1>4, <1>18, <1>20, <2>1, <2>2, <2>3 DEF SamePage
<1>22. ChecksFit'
  <2>1. ASSUME NEW m, CheckFits(m) PROVE CheckFits(m)'
    <3>1. ASSUME m.gen = options.bindingsGeneration, HasRead(m), NEW r \in Watched'
          PROVE  m.rows[r].service = bound'[r]
      <4>1. /\ \A s \in Watched : m.rows[s].service = bound[s]
            /\ \A w \in calls : S!Writes(w) /\ w.from = "options" => w.repo \in overtaken
        BY <2>1, <3>1 DEF CheckFits
      <4>2. PageWrites(calls, r) = {}
        BY <1>14, <4>1 DEF PageWrites, Watched
      <4>3. QED
        BY <1>14, <1>17, <4>1, <4>2
    <3>2. m.gen <= options'.bindingsGeneration
      BY <1>4, <2>1 DEF CheckFits, SamePage
    <3>3. ASSUME m.gen = options'.bindingsGeneration, HasRead(m)
          PROVE  /\ \A r \in Watched' : m.rows[r].service = bound'[r]
                 /\ \A w \in calls' : S!Writes(w) /\ w.from = "options" => w.repo \in overtaken'
      BY <1>1, <1>4, <3>1, <3>3 DEF SamePage
    <3>4. QED
      BY <3>2, <3>3 DEF CheckFits
  <2>2. ASSUME NEW m, Checks(m), NEW c \in calls, SameMessage(m, c), m.pc = "replied", m.answer = "lost"
        PROVE  CheckFits(m)'
    <3>1. Checks(c) /\ m.gen = c.gen
      BY <2>2 DEF Checks, SameMessage
    <3>2. c.gen <= options.bindingsGeneration
      BY <3>1 DEF BindInv, ChecksFit, CheckFits
    <3>3. ~HasRead(m)
      BY <2>2 DEF HasRead
    <3>4. QED
      BY <1>4, <3>1, <3>2, <3>3 DEF CheckFits, SamePage
  <2>3. \A i \in 1 .. n : Checks(options.inbox[i]) => CheckFits(options.inbox[i])
    BY <1>8 DEF BindInv, ChecksFit
  <2>4. \A m \in calls' : Checks(m) => CheckFits(m)'
    BY <1>1
  <2>5. ASSUME NEW i \in 1 .. n + k, NEW m, m = options'.inbox[i], Checks(m) PROVE CheckFits(m)'
    <3>1. CASE i \in 1 .. n /\ m = options.inbox[i]
      <4>1. CheckFits(m)
        BY <2>3, <2>5, <3>1
      <4>2. QED
        BY <2>1, <4>1
    <3>2. CASE m.pc = "replied" /\ m.answer = "lost" /\ \E c \in calls : SameMessage(m, c)
      BY <2>2, <2>5, <3>2
    <3>3. QED
      BY <1>19, <2>5, <3>1, <3>2
  <2>6. QED
    BY <1>8, <2>4, <2>5 DEF ChecksFit
<1>23. ListsFit'
  <2> SUFFICES ASSUME NEW i \in 1 .. n + k, Lists(options'.inbox[i]), options'.inbox[i].answer = "ok",
                      NEW r \in Watched'
               PROVE  options'.inbox[i].rows[r].service = bound'[r] \/ Owed(r, i + 1)'
    BY <1>8 DEF ListsFit
  <2>1. i \in 1 .. n /\ options'.inbox[i] = options.inbox[i]
    BY <1>19
  <2>2. options.inbox[i].rows[r].service = bound[r] \/ Owed(r, i + 1)
    BY <1>8, <1>14, <2>1 DEF BindInv, ListsFit
  <2>3. i + 1 \in 1 .. n + 1
    BY <1>8, <2>1
  <2>4. bound'[r] # bound[r] => Owed(r, i + 1)
    BY <1>17 DEF Owed
  <2>5. QED
    BY <1>18, <2>1, <2>2, <2>3, <2>4
<1>24. UnseenFit'
  <2> SUFFICES ASSUME unseen.repos # {}, options.table = "shown", ~unseen.failed
               PROVE  \E i \in 1 .. n + k : Pending(options'.inbox[i])
    BY <1>1, <1>4, <1>8 DEF UnseenFit, SamePage, Pending, Follows
  <2>1. ASSUME NEW c \in calls, Pending(c) PROVE \E i \in 1 .. n + k : Pending(options'.inbox[i])
    <3>1. c.from = "options"
      BY <2>1 DEF Pending
    <3>2. PICK i \in n + 1 .. n + k : SameMessage(options'.inbox[i], c)
      BY <1>16, <3>1
    <3>3. Pending(options'.inbox[i])
      BY <2>1, <3>2 DEF SameMessage, Pending, Follows, Lists, Checks, S!Writes
    <3>4. i \in 1 .. n + k
      BY <1>8, <3>2
    <3>5. QED
      BY <3>3, <3>4
  <2>2. ASSUME NEW i \in 1 .. n, Pending(options.inbox[i])
        PROVE  \E j \in 1 .. n + k : Pending(options'.inbox[j])
    <3>1. i \in 1 .. n + k /\ Pending(options'.inbox[i])
      BY <1>8, <2>2
    <3>2. QED
      BY <3>1
  <2>3. QED
    BY <1>8, <2>1, <2>2 DEF BindInv, UnseenFit
<1>25. QED
    BY <1>9, <1>10, <1>12, <1>13, <1>21, <1>22, <1>23, <1>24 DEF BindInv

\* A new message is sent.
LEMMA CallsSent ==
    ASSUME BindInv, NEW m \in BindMessages, CallFits(m), \A c \in calls : c.id # m.id,
           calls' = calls \union {m}
    PROVE  CallsFit' /\ calls' \in SUBSET BindMessages /\ IsFiniteSet(calls') /\ m \notin calls
<1>1. calls' \in SUBSET BindMessages /\ IsFiniteSet(calls')
    BY FS_AddElement DEF BindInv, BindTypes
<1>2. CallsFit'
    BY DEF BindInv, CallsFit, CallFits, Sound
<1>3. QED
    BY <1>1, <1>2

\* The table stands when its page sends a write, which sets every check aside, or a check.
LEMMA TableSends ==
    ASSUME BindInv, NEW m \in BindMessages, m.from = "options", calls' = calls \union {m},
           options'.table = options.table, options'.rows = options.rows,
           options'.inbox = options.inbox,
           UNCHANGED <<bound, overtaken, elsewhere, unseen>>,
           \/ S!Writes(m) /\ options'.bindingsGeneration = options.bindingsGeneration + 1
           \/ /\ Checks(m) /\ m.pc = "sent" /\ m.gen = options.bindingsGeneration
              /\ options'.bindingsGeneration = options.bindingsGeneration
    PROVE  RowsFit' /\ ChecksFit' /\ ListsFit' /\ UnseenFit'
<1>1. Watched' = Watched
    BY DEF Watched
<1>2. \A r, n : Owed(r, n) => Owed(r, n)'
    BY DEF Owed, PageWrites
<1>3. Listed => Listed'
    BY DEF Listed
<1>4. RowsFit'
    BY <1>1, <1>2, <1>3 DEF BindInv, RowsFit
<1>5. options.bindingsGeneration \in Nat
    BY DEF BindInv, BindTypes, OptionsPages
<1>6. ASSUME NEW c, c.gen \in Nat, CheckFits(c) PROVE CheckFits(c)'
  <2>1. CASE S!Writes(m) /\ options'.bindingsGeneration = options.bindingsGeneration + 1
    <3>1. c.gen <= options.bindingsGeneration
      BY <1>6 DEF CheckFits
    <3>2. c.gen <= options'.bindingsGeneration /\ c.gen # options'.bindingsGeneration
      BY <1>5, <1>6, <2>1, <3>1
    <3>3. QED
      BY <3>2 DEF CheckFits
  <2>2. CASE Checks(m) /\ options'.bindingsGeneration = options.bindingsGeneration
    <3>1. ~S!Writes(m)
      BY <2>2 DEF Checks, S!Writes
    <3>2. QED
      BY <1>1, <1>6, <2>2, <3>1 DEF CheckFits
  <2>3. QED
    BY <2>1, <2>2
<1>7. Checks(m) => CheckFits(m)'
    BY <1>5 DEF CheckFits, HasRead, Checks, S!Writes
<1>8. ChecksFit'
  <2>1. \A c \in calls : c.gen \in Nat
    BY DEF BindInv, BindTypes, BindMessages
  <2>2. \A i \in DOMAIN options.inbox : options.inbox[i].gen \in Nat
    <3>1. options.inbox \in Seq(BindMessages)
      BY DEF BindInv, BindTypes, OptionsPages
    <3>2. \A i \in DOMAIN options.inbox : options.inbox[i] \in BindMessages
      BY <3>1, LenProperties, ElementOfSeq
    <3>3. QED
      BY <3>2 DEF BindMessages
  <2>3. QED
    BY <1>6, <1>7, <2>1, <2>2 DEF BindInv, ChecksFit
<1>9. ListsFit'
    BY <1>1, <1>2 DEF BindInv, ListsFit
<1>10. UnseenFit'
  <2>1. CASE S!Writes(m)
    BY <2>1 DEF UnseenFit, Pending
  <2>2. CASE options'.bindingsGeneration = options.bindingsGeneration
    BY <2>2 DEF BindInv, UnseenFit, Pending, Follows
  <2>3. QED
    BY <2>1, <2>2
<1>11. QED
    BY <1>4, <1>8, <1>9, <1>10

\* A bind that the user asks for is the last word about its repository.
LEMMA AskedWords ==
    ASSUME BindInv, NEW repo \in Repos, NEW service \in Services, S!Told(repo, service),
           NEW m \in BindMessages, m.kind = "service-bind", m.pc = "sent", m.repo = repo,
           m.service = service, calls' = calls \union {m}, edits' = edits, bound' = bound
    PROVE  want' \in [Repos -> Services \union {NoService}] /\ WordsFit'
<1>1. /\ want' = [want EXCEPT ![repo] = service]
      /\ want \in [Repos -> Services \union {NoService}]
      /\ contested \subseteq contested'
      /\ repo \notin contested' => ~ \E c \in calls : c.kind = "service-bind" /\ c.repo = repo
    BY DEF S!Told, BindInv, BindTypes
<1>2. S!Writes(m)
    BY DEF S!Writes
<1>3. WordsFit'
  <2> SUFFICES ASSUME NEW r \in Repos \ contested'
               PROVE  /\ \A c \in AskedAbout(calls', r) : want'[r] = c.service
                      /\ AskedAbout(calls', r) = {} => Leaves(edits, bound, r, want'[r])
    BY DEF WordsFit
  <2>1. CASE r = repo
    <3>1. AskedAbout(calls, r) = {}
      BY <1>1, <2>1 DEF AskedAbout, BindInv, CallsFit, CallFits, S!Writes
    <3>2. AskedAbout(calls', r) = {m}
      BY <1>2, <2>1, <3>1 DEF AskedAbout
    <3>3. QED
      BY <1>1, <2>1, <3>2
  <2>2. CASE r # repo
    <3>1. AskedAbout(calls', r) = AskedAbout(calls, r) /\ r \in Repos \ contested
      BY <1>1, <2>2 DEF AskedAbout
    <3>2. want'[r] = want[r]
      BY <1>1, <2>2
    <3>3. QED
      BY <3>1, <3>2 DEF BindInv, WordsFit
  <2>3. QED
    BY <2>1, <2>2
<1>4. QED
    BY <1>1, <1>3

\* What a write of the user's does to the page.
LEMMA PageTypes ==
    ASSUME BindTypes, options' = [options EXCEPT !.status = "", !.bindingsGeneration = @ + 1]
    PROVE  /\ options' \in OptionsPages /\ options'.inbox = options.inbox
           /\ options'.table = options.table /\ options'.rows = options.rows
           /\ options'.bindingsGeneration = options.bindingsGeneration + 1
<1>1. options \in OptionsPages
    BY DEF BindTypes
<1>2. options.bindingsGeneration + 1 \in Nat
  <2>1. options.bindingsGeneration \in Nat
    BY <1>1 DEF OptionsPages
  <2>2. QED
    BY <2>1
<1>3. options' \in OptionsPages
    BY <1>1, <1>2 DEF OptionsPages
<1>4. QED
    BY <1>1, <1>3 DEF OptionsPages

\* The user takes the correction of a row.
LEMMA CorrectStep ==
    ASSUME BindInv, NEW repo \in Repos, S!onCorrect(repo)
    PROVE  BindInv'
<1> DEFINE service == options.rows[repo].status
           m == [S!Message("service-bind", "options") EXCEPT !.repo = repo, !.service = service]
           new == S!Message("service-bind", "options")
<1>1. /\ service \in Services /\ S!Told(repo, service)
      /\ options' = [options EXCEPT !.status = "", !.bindingsGeneration = @ + 1]
      /\ calls' = calls \union {m}
      /\ UNCHANGED <<bound, edits, panel, overtaken, elsewhere, unseen>>
    BY DEF S!onCorrect, S!Sent
<1>2. /\ new \in BindMessages /\ new.kind = "service-bind" /\ new.from = "options"
      /\ new.pc = "sent" /\ \A c \in calls : c.id # new.id
    BY NewMessage DEF BindInv
<1>3. m = [new EXCEPT !.repo = repo, !.service = service]
    OBVIOUS
<1> HIDE DEF m, new, service
<1>4. m \in BindMessages
    BY <1>1, <1>2, <1>3 DEF BindMessages
<1>5. /\ m.kind = "service-bind" /\ m.from = "options" /\ m.pc = "sent" /\ m.repo = repo
      /\ m.service = service /\ m.id = new.id
    BY <1>2, <1>3 DEF BindMessages
<1>6. CallFits(m) /\ S!Writes(m)
    BY <1>5 DEF CallFits, Sound, S!Writes
<1>7. CallsFit' /\ calls' \in SUBSET BindMessages /\ IsFiniteSet(calls') /\ m \notin calls
    BY <1>1, <1>2, <1>4, <1>5, <1>6, CallsSent
<1>8. /\ options' \in OptionsPages /\ options'.inbox = options.inbox
      /\ options'.table = options.table /\ options'.rows = options.rows
      /\ options'.bindingsGeneration = options.bindingsGeneration + 1
    BY <1>1, PageTypes DEF BindInv
<1>9. want' \in [Repos -> Services \union {NoService}] /\ WordsFit'
    BY <1>1, <1>4, <1>5, AskedWords
<1>10. BindTypes'
    BY <1>1, <1>7, <1>8, <1>9 DEF BindInv, BindTypes
<1>11. InboxesFit'
    BY <1>1, <1>8 DEF BindInv, InboxesFit
<1>12. LinksFit'
    BY <1>1, <1>5 DEF BindInv, LinksFit
<1>13. RowsFit' /\ ChecksFit' /\ ListsFit' /\ UnseenFit'
    BY <1>1, <1>4, <1>5, <1>6, <1>8, TableSends
<1>14. QED
    BY <1>7, <1>9, <1>10, <1>11, <1>12, <1>13 DEF BindInv

\* The user binds the repository that the deploy section is about.
LEMMA SubmitStep ==
    ASSUME BindInv, NEW service \in Services, S!submitBind(service)
    PROVE  BindInv'
<1> DEFINE m == [S!Message("service-bind", "panel") EXCEPT !.repo = panel.repo, !.service = service]
           new == S!Message("service-bind", "panel")
<1>1. /\ S!Told(panel.repo, service) /\ calls' = calls \union {m}
      /\ UNCHANGED <<bound, edits, options, panel, overtaken, elsewhere, unseen>>
      /\ panel.shown = "form"
    BY DEF S!submitBind, S!Sent
<1>2. panel.repo \in Repos
    BY <1>1 DEF BindInv, InboxesFit
<1>3. /\ new \in BindMessages /\ new.kind = "service-bind" /\ new.from = "panel"
      /\ new.pc = "sent" /\ \A c \in calls : c.id # new.id
    BY NewMessage DEF BindInv
<1>4. m = [new EXCEPT !.repo = panel.repo, !.service = service]
    OBVIOUS
<1> HIDE DEF m, new
<1>5. m \in BindMessages
    BY <1>2, <1>3, <1>4 DEF BindMessages
<1>6. /\ m.kind = "service-bind" /\ m.from = "panel" /\ m.pc = "sent" /\ m.repo = panel.repo
      /\ m.service = service /\ m.id = new.id
    BY <1>3, <1>4 DEF BindMessages
<1>7. CallFits(m) /\ S!Writes(m)
    BY <1>2, <1>6 DEF CallFits, Sound, S!Writes
<1>8. CallsFit' /\ calls' \in SUBSET BindMessages /\ IsFiniteSet(calls') /\ m \notin calls
    BY <1>1, <1>3, <1>5, <1>6, <1>7, CallsSent
<1>9. want' \in [Repos -> Services \union {NoService}] /\ WordsFit'
    BY <1>1, <1>2, <1>5, <1>6, AskedWords
<1>10. BindTypes'
    BY <1>1, <1>8, <1>9 DEF BindInv, BindTypes
<1>11. InboxesFit'
    BY <1>1 DEF BindInv, InboxesFit
<1>12. LinksFit'
    BY <1>1, <1>6 DEF BindInv, LinksFit
<1>13. RowsFit' /\ ChecksFit' /\ ListsFit' /\ UnseenFit'
  <2>1. \A c : c.from = "options" => (c \in calls' <=> c \in calls)
    BY <1>1, <1>6
  <2>2. QED
    BY <1>1, <1>8, <2>1, TableKept
<1>14. QED
    BY <1>8, <1>9, <1>10, <1>11, <1>12, <1>13 DEF BindInv

\* The user removes a binding.
LEMMA UnbindStep ==
    ASSUME BindInv, NEW repo \in Repos, S!onUnbind(repo)
    PROVE  BindInv'
<1> DEFINE m == [S!Message("service-unbind", "options") EXCEPT !.repo = repo, !.pc = "writing"]
           new == S!Message("service-unbind", "options")
           n == Len(edits)
<1>1. /\ S!Told(repo, NoService) /\ calls' = calls \union {m} /\ edits' = Append(edits, m)
      /\ options' = [options EXCEPT !.status = "", !.bindingsGeneration = @ + 1]
      /\ UNCHANGED <<bound, panel, overtaken, elsewhere, unseen>>
    BY DEF S!onUnbind, S!Sent
<1>2. /\ new \in BindMessages /\ new.kind = "service-unbind" /\ new.from = "options"
      /\ new.service = NoService /\ \A c \in calls : c.id # new.id
    BY NewMessage DEF BindInv
<1>3. m = [new EXCEPT !.repo = repo, !.pc = "writing"]
    OBVIOUS
<1> HIDE DEF m, new
<1>4. m \in BindMessages
    BY <1>2, <1>3 DEF BindMessages
<1>5. /\ m.kind = "service-unbind" /\ m.from = "options" /\ m.pc = "writing" /\ m.repo = repo
      /\ m.service = NoService /\ m.id = new.id
    BY <1>2, <1>3 DEF BindMessages
<1>6. CallFits(m) /\ S!Writes(m)
    BY <1>5 DEF CallFits, Sound, S!Writes
<1>7. CallsFit' /\ calls' \in SUBSET BindMessages /\ IsFiniteSet(calls') /\ m \notin calls
    BY <1>1, <1>2, <1>4, <1>5, <1>6, CallsSent
<1>8. /\ options' \in OptionsPages /\ options'.inbox = options.inbox
      /\ options'.table = options.table /\ options'.rows = options.rows
      /\ options'.bindingsGeneration = options.bindingsGeneration + 1
    BY <1>1, PageTypes DEF BindInv
<1>9. /\ want' = [want EXCEPT ![repo] = NoService]
      /\ want \in [Repos -> Services \union {NoService}]
      /\ contested \subseteq contested'
      /\ repo \notin contested' => ~ \E c \in calls : c.kind = "service-bind" /\ c.repo = repo
    BY <1>1 DEF S!Told, BindInv, BindTypes
<1>10. /\ edits' \in Seq(BindMessages) /\ n \in Nat
       /\ DOMAIN edits = 1 .. n /\ DOMAIN edits' = 1 .. n + 1
       /\ \A i \in 1 .. n : edits'[i] = edits[i]
       /\ edits'[n + 1] = m
  <2>1. edits \in Seq(BindMessages)
    BY DEF BindInv, BindTypes
  <2>2. edits' \in Seq(BindMessages) /\ Len(edits') = n + 1
    BY <1>1, <1>4, <2>1, AppendProperties
  <2>3. QED
    BY <1>1, <1>4, <2>1, <2>2, AppendProperties, LenProperties
<1> HIDE DEF n
<1>11. BindTypes'
    BY <1>1, <1>7, <1>8, <1>9, <1>10 DEF BindInv, BindTypes
<1>12. InboxesFit'
    BY <1>1, <1>8 DEF BindInv, InboxesFit
<1>13. LinksFit'
  <2>1. \A i \in 1 .. n : edits[i] \in calls /\ edits[i].pc = "writing" /\ edits[i] # m
    BY <1>7, <1>10 DEF BindInv, LinksFit
  <2>2. \A i \in 1 .. n + 1 : edits'[i] \in calls' /\ edits'[i].pc = "writing"
    BY <1>1, <1>5, <1>10, <2>1
  <2>3. \A i, j \in 1 .. n + 1 : edits'[i] = edits'[j] => i = j
    BY <1>10, <2>1 DEF BindInv, LinksFit
  <2>4. \A c \in calls' : c.pc = "writing" => \E i \in 1 .. n + 1 : edits'[i] = c
    <3>1. n + 1 \in 1 .. n + 1 /\ \A i \in 1 .. n : i \in 1 .. n + 1
      BY <1>10
    <3>2. \A c \in calls : c.pc = "writing" => \E i \in 1 .. n : edits[i] = c
      BY <1>10 DEF BindInv, LinksFit
    <3>3. QED
      BY <1>1, <1>10, <3>1, <3>2
  <2>5. QED
    BY <1>10, <2>2, <2>3, <2>4 DEF LinksFit
<1>14. WordsFit'
  <2> SUFFICES ASSUME NEW r \in Repos \ contested'
               PROVE  /\ \A c \in AskedAbout(calls', r) : want'[r] = c.service
                      /\ AskedAbout(calls', r) = {} => Leaves(edits', bound, r, want'[r])
    BY <1>1 DEF WordsFit
  <2>1. AskedAbout(calls', r) = AskedAbout(calls, r)
    BY <1>1, <1>5 DEF AskedAbout
  <2>2. CASE r = repo
    <3>1. AskedAbout(calls, r) = {}
      BY <1>9, <2>2 DEF AskedAbout, BindInv, CallsFit, CallFits, S!Writes
    <3>2. n + 1 \in LinkedFor(edits', r)
      BY <1>5, <1>10, <2>2 DEF LinkedFor
    <3>3. \A i \in LinkedFor(edits', r) : n + 1 <= i => i = n + 1
      BY <1>10 DEF LinkedFor
    <3>4. want'[r] = m.service
      BY <1>5, <1>9, <2>2
    <3>5. Leaves(edits', bound, r, want'[r])
      BY <1>10, <3>2, <3>3, <3>4 DEF Leaves
    <3>6. QED
      BY <2>1, <3>1, <3>5
  <2>3. CASE r # repo
    <3>1. LinkedFor(edits', r) = LinkedFor(edits, r)
      BY <1>5, <1>10, <2>3 DEF LinkedFor
    <3>2. r \in Repos \ contested /\ want'[r] = want[r]
      BY <1>9, <2>3
    <3>3. /\ \A c \in AskedAbout(calls, r) : want[r] = c.service
          /\ AskedAbout(calls, r) = {} => Leaves(edits, bound, r, want[r])
      BY <3>2 DEF BindInv, WordsFit
    <3>4. \A i \in LinkedFor(edits, r) : edits'[i] = edits[i]
      BY <1>10 DEF LinkedFor
    <3>5. QED
      BY <2>1, <3>1, <3>2, <3>3, <3>4 DEF Leaves
  <2>4. QED
    BY <2>2, <2>3
<1>15. RowsFit' /\ ChecksFit' /\ ListsFit' /\ UnseenFit'
    BY <1>1, <1>4, <1>5, <1>6, <1>8, TableSends
<1>16. QED
    BY <1>7, <1>11, <1>12, <1>13, <1>14, <1>15 DEF BindInv

\* The user asks for a check.
LEMMA CheckAskedStep ==
    ASSUME BindInv, S!onCheckBindings
    PROVE  BindInv'
<1> DEFINE m == S!Message("service-bindings-check", "options")
<1>1. /\ options' = [options EXCEPT !.checking = TRUE] /\ calls' = calls \union {m}
      /\ UNCHANGED <<bound, edits, panel, want, contested, overtaken, elsewhere, unseen>>
    BY DEF S!onCheckBindings, S!Sent, S!history
<1>2. /\ m \in BindMessages /\ m.kind = "service-bindings-check" /\ m.from = "options"
      /\ m.pc = "sent" /\ m.gen = options.bindingsGeneration /\ \A c \in calls : c.id # m.id
    BY NewMessage DEF BindInv
<1> HIDE DEF m
<1>3. CallFits(m) /\ ~S!Writes(m) /\ Checks(m)
    BY <1>2 DEF CallFits, Sound, S!Writes, Checks
<1>4. CallsFit' /\ calls' \in SUBSET BindMessages /\ IsFiniteSet(calls') /\ m \notin calls
    BY <1>1, <1>2, <1>3, CallsSent
<1>5. options \in OptionsPages
    BY DEF BindInv, BindTypes
<1>6. /\ options' \in OptionsPages /\ options'.inbox = options.inbox
      /\ options'.table = options.table /\ options'.rows = options.rows
      /\ options'.bindingsGeneration = options.bindingsGeneration
    BY <1>1, <1>5 DEF OptionsPages
<1>7. BindTypes'
    BY <1>1, <1>4, <1>6 DEF BindInv, BindTypes
<1>8. InboxesFit'
    BY <1>1, <1>6 DEF BindInv, InboxesFit
<1>9. \A c : S!Writes(c) => (c \in calls' <=> c \in calls)
    BY <1>1, <1>3
<1>10. LinksFit'
    BY <1>1, <1>4, <1>9, LinksKept DEF BindInv
<1>11. WordsFit'
    BY <1>1, <1>9, WordsKept DEF BindInv
<1>12. RowsFit' /\ ChecksFit' /\ ListsFit' /\ UnseenFit'
    BY <1>1, <1>2, <1>3, <1>6, TableSends
<1>13. QED
    BY <1>4, <1>7, <1>8, <1>10, <1>11, <1>12 DEF BindInv

\* The panel asks about the binding of a page's repository.
LEMMA AsksAbout ==
    ASSUME BindInv, NEW m \in BindMessages, m.kind = "deploy-preflight", m.from = "panel",
           m.pc = "sent", m.repo \in Repos, \A c \in calls : c.id # m.id,
           calls' = calls \/ calls' = calls \union {m}, panel' \in DeploySections,
           UNCHANGED <<bound, edits, options, want, contested, overtaken, elsewhere, unseen>>,
           InboxesFit'
    PROVE  BindInv'
<1>1. CallFits(m) /\ ~S!Writes(m)
    BY DEF CallFits, Sound, S!Writes
<1>2. CallsFit' /\ calls' \in SUBSET BindMessages /\ IsFiniteSet(calls')
  <2>1. CASE calls' = calls \union {m}
    BY <1>1, <2>1, CallsSent
  <2>2. CASE calls' = calls
    BY <2>2 DEF BindInv, BindTypes, CallsFit
  <2>3. QED
    BY <2>1, <2>2
<1>3. BindTypes'
    BY <1>2 DEF BindInv, BindTypes
<1>4. \A c : S!Writes(c) \/ c.from = "options" => (c \in calls' <=> c \in calls)
    BY <1>1
<1>5. LinksFit'
    BY <1>2, <1>4, LinksKept DEF BindInv
<1>6. WordsFit'
    BY <1>4, WordsKept DEF BindInv
<1>7. RowsFit' /\ ChecksFit' /\ ListsFit' /\ UnseenFit'
    BY <1>2, <1>4, TableKept
<1>8. QED
    BY <1>2, <1>3, <1>5, <1>6, <1>7 DEF BindInv

\* The deploy section is mounted for another page.
LEMMA MountStep ==
    ASSUME BindInv, NEW repo \in Repos, S!mountDeploySection(repo)
    PROVE  BindInv'
<1> DEFINE new == S!Message("deploy-preflight", "panel")
           m == [new EXCEPT !.repo = repo, !.mount = panel.mount + 1]
<1>1. /\ panel' = [panel EXCEPT !.repo = repo, !.mount = @ + 1, !.shown = "asking"]
      /\ calls' = calls \union {m}
      /\ UNCHANGED <<bound, edits, options, want, contested, overtaken, elsewhere, unseen>>
    BY DEF S!mountDeploySection, S!Sent, S!history
<1>2. /\ new \in BindMessages /\ new.kind = "deploy-preflight" /\ new.from = "panel"
      /\ new.pc = "sent" /\ \A c \in calls : c.id # new.id
    BY NewMessage DEF BindInv
<1>3. panel \in DeploySections
    BY DEF BindInv, BindTypes
<1>4. panel.mount + 1 \in Nat
  <2>1. panel.mount \in Nat
    BY <1>3 DEF DeploySections
  <2>2. QED
    BY <2>1
<1> HIDE DEF new
<1>5. m \in BindMessages
    BY <1>2, <1>4 DEF BindMessages
<1>6. m.kind = "deploy-preflight" /\ m.from = "panel" /\ m.pc = "sent" /\ m.repo = repo /\ m.id = new.id
    BY <1>2 DEF BindMessages
<1> HIDE DEF m
<1>7. panel' \in DeploySections
    BY <1>1, <1>3, <1>4 DEF DeploySections
<1>8. panel'.inbox = panel.inbox /\ panel'.shown = "asking"
    BY <1>1, <1>3 DEF DeploySections
<1>9. InboxesFit'
    BY <1>1, <1>8 DEF BindInv, InboxesFit
<1>10. QED
    BY <1>1, <1>2, <1>5, <1>6, <1>7, <1>9, AsksAbout

\* The panel takes a reply.
LEMMA PanelReplyStep ==
    ASSUME BindInv, S!PanelReply
    PROVE  BindInv'
<1> DEFINE c == Head(panel.inbox)
           new == S!Message("deploy-preflight", "panel")
           m == [new EXCEPT !.repo = c.repo, !.mount = c.mount]
           shows == [verdict |-> "verdict", unbound |-> "form", refused |-> "form",
                     failed |-> IF c.kind = "service-bind" THEN "form" ELSE "refusal",
                     ok |-> panel.shown, lost |-> "refusal"]
<1>1. panel \in DeploySections /\ panel.inbox \in Seq(BindMessages) /\ panel.inbox # <<>>
    BY DEF BindInv, BindTypes, DeploySections, S!PanelReply
<1>2. /\ c \in BindMessages /\ c = panel.inbox[1] /\ Tail(panel.inbox) \in Seq(BindMessages)
      /\ 1 \in DOMAIN panel.inbox
      /\ \A i \in DOMAIN Tail(panel.inbox) :
            i + 1 \in DOMAIN panel.inbox /\ Tail(panel.inbox)[i] = panel.inbox[i + 1]
  <2>1. /\ Len(panel.inbox) \in Nat \ {0} /\ DOMAIN panel.inbox = 1 .. Len(panel.inbox)
        /\ DOMAIN Tail(panel.inbox) = 1 .. Len(panel.inbox) - 1
        /\ Tail(panel.inbox) \in Seq(BindMessages)
        /\ \A i \in 1 .. Len(panel.inbox) - 1 : Tail(panel.inbox)[i] = panel.inbox[i + 1]
    BY <1>1, HeadTailProperties, LenProperties, EmptySeq
  <2>2. c = panel.inbox[1] /\ c \in BindMessages
    BY <1>1, <2>1, HeadTailProperties
  <2>3. QED
    BY <2>1, <2>2
<1>3. ReplyFits(c, "panel") /\ c.repo \in Repos /\ c.answer # "none"
    BY <1>2 DEF BindInv, InboxesFit, ReplyFits, Sound
<1>4. /\ \/ panel' = [panel EXCEPT !.inbox = Tail(@)]
         \/ /\ panel' = [panel EXCEPT !.inbox = Tail(@), !.shown = shows[c.answer]]
            /\ c.repo = panel.repo
      /\ calls' = calls \/ calls' = calls \union {m}
      /\ UNCHANGED <<bound, edits, options, want, contested, overtaken, elsewhere, unseen>>
  <2>1. {[new EXCEPT !.repo = w.repo, !.mount = w.mount] :
            w \in {w \in {c} : w.kind = "service-bind" /\ w.answer = "ok" /\ w.repo = panel.repo}}
        \in {{}, {m}}
    OBVIOUS
  <2>2. QED
    BY <2>1 DEF S!PanelReply, S!Sent, S!history
<1>5. shows[c.answer] \in {"nothing", "asking", "form", "verdict", "refusal"}
  <2>1. c.answer \in {"ok", "failed", "refused", "lost", "verdict", "unbound"}
    BY <1>2, <1>3 DEF BindMessages
  <2>2. panel.shown \in {"nothing", "asking", "form", "verdict", "refusal"}
    BY <1>1 DEF DeploySections
  <2>3. QED
    BY <2>1, <2>2
<1> HIDE DEF shows
<1>6. /\ new \in BindMessages /\ new.kind = "deploy-preflight" /\ new.from = "panel"
      /\ new.pc = "sent" /\ \A d \in calls : d.id # new.id
    BY NewMessage DEF BindInv
<1> HIDE DEF new
<1>7. m \in BindMessages
    BY <1>2, <1>3, <1>6 DEF BindMessages
<1>8. m.kind = "deploy-preflight" /\ m.from = "panel" /\ m.pc = "sent" /\ m.repo = c.repo /\ m.id = new.id
    BY <1>6 DEF BindMessages
<1> HIDE DEF m
<1>9. panel' \in DeploySections
    BY <1>1, <1>2, <1>4, <1>5 DEF DeploySections
<1>10. /\ panel'.inbox = Tail(panel.inbox) /\ panel'.repo = panel.repo
       /\ panel'.shown = panel.shown \/ c.repo = panel.repo
    BY <1>1, <1>4 DEF DeploySections
<1>11. InboxesFit'
  <2>1. \A i \in DOMAIN panel'.inbox : ReplyFits(panel'.inbox[i], "panel")
    BY <1>2, <1>10 DEF BindInv, InboxesFit
  <2>2. panel'.shown = "form" => panel'.repo \in Repos
    BY <1>3, <1>10 DEF BindInv, InboxesFit
  <2>3. QED
    BY <1>4, <2>1, <2>2 DEF BindInv, InboxesFit
<1>12. QED
    BY <1>3, <1>4, <1>6, <1>7, <1>8, <1>9, <1>11, AsksAbout

\* The first reply of an inbox, and those behind it.
LEMMA FirstReply ==
    ASSUME BindInv, options.inbox # <<>>
    PROVE  /\ Head(options.inbox) \in BindMessages /\ Head(options.inbox) = options.inbox[1]
           /\ 1 \in DOMAIN options.inbox /\ Tail(options.inbox) \in Seq(BindMessages)
           /\ ReplyFits(Head(options.inbox), "options")
           /\ \A i \in DOMAIN Tail(options.inbox) :
                 /\ i \in Nat \ {0} /\ i + 1 \in DOMAIN options.inbox
                 /\ Tail(options.inbox)[i] = options.inbox[i + 1]
           /\ \A i \in DOMAIN options.inbox :
                 /\ i \in Nat \ {0}
                 /\ i # 1 => i - 1 \in DOMAIN Tail(options.inbox) /\ (i - 1) + 1 = i
<1>1. options.inbox \in Seq(BindMessages)
    BY DEF BindInv, BindTypes, OptionsPages
<1>2. /\ Len(options.inbox) \in Nat \ {0} /\ DOMAIN options.inbox = 1 .. Len(options.inbox)
      /\ DOMAIN Tail(options.inbox) = 1 .. Len(options.inbox) - 1
      /\ Tail(options.inbox) \in Seq(BindMessages)
      /\ \A i \in 1 .. Len(options.inbox) - 1 : Tail(options.inbox)[i] = options.inbox[i + 1]
    BY <1>1, HeadTailProperties, LenProperties, EmptySeq
<1>3. Head(options.inbox) = options.inbox[1] /\ Head(options.inbox) \in BindMessages
    BY <1>1, <1>2, HeadTailProperties
<1>4. ReplyFits(Head(options.inbox), "options")
    BY <1>2, <1>3 DEF BindInv, InboxesFit
<1>5. QED
    BY <1>2, <1>3, <1>4

\* The page sends one message that reads the bindings, or none.
AsksOnly ==
    /\ calls \subseteq calls'
    /\ \A m, n \in calls' \ calls : m = n
    /\ \A m \in calls' \ calls :
          /\ m \in BindMessages /\ CallFits(m) /\ \A c \in calls : c.id # m.id
          /\ ~S!Writes(m) /\ m.pc = "sent" /\ m.gen = options.bindingsGeneration

\* The page takes a reply.
LEMMA CallsTaken ==
    ASSUME BindInv, options.inbox # <<>>, AsksOnly,
           options' \in OptionsPages, options'.inbox = Tail(options.inbox),
           unseen' \in [repos : SUBSET Repos, failed : BOOLEAN],
           UNCHANGED <<bound, edits, panel, want, contested, overtaken, elsewhere>>,
           RowsFit', ChecksFit', ListsFit', UnseenFit'
    PROVE  BindInv'
<1>1. CallsFit' /\ calls' \in SUBSET BindMessages /\ IsFiniteSet(calls')
  <2>1. CASE calls' = calls
    BY <2>1 DEF BindInv, BindTypes, CallsFit
  <2>2. CASE calls' # calls
    <3>1. PICK m \in calls' : m \notin calls
      BY <2>2 DEF AsksOnly
    <3>2. calls' = calls \union {m}
      BY <3>1 DEF AsksOnly
    <3>3. m \in BindMessages /\ CallFits(m) /\ \A c \in calls : c.id # m.id
      BY <3>1 DEF AsksOnly
    <3>4. QED
      BY <3>2, <3>3, CallsSent
  <2>3. QED
    BY <2>1, <2>2
<1>2. BindTypes'
    BY <1>1 DEF BindInv, BindTypes
<1>3. InboxesFit'
    BY FirstReply DEF BindInv, InboxesFit
<1>4. \A m : S!Writes(m) => (m \in calls' <=> m \in calls)
    BY DEF AsksOnly
<1>5. LinksFit'
    BY <1>1, <1>4, LinksKept DEF BindInv
<1>6. WordsFit'
    BY <1>4, WordsKept DEF BindInv
<1>7. QED
    BY <1>1, <1>2, <1>3, <1>5, <1>6 DEF BindInv

\* What the table is owed by the replies behind the first.
LEMMA OwedBehind ==
    ASSUME BindInv, options.inbox # <<>>, options'.inbox = Tail(options.inbox),
           calls \subseteq calls'
    PROVE  /\ \A r, n : n \in Nat \ {0} /\ Owed(r, n + 1) => Owed(r, n)'
           /\ \A r : Owed(r, 1) => \/ Owed(r, 1)'
                                   \/ S!Writes(Head(options.inbox)) /\ Head(options.inbox).repo = r
           /\ Listed => Listed' \/ Lists(Head(options.inbox))
<1>1. ASSUME NEW r, NEW n \in Nat \ {0}, NEW i \in WriteReplies(options.inbox, n + 1, r)
      PROVE  i - 1 \in WriteReplies(options'.inbox, n, r)
  <2>1. i \in DOMAIN options.inbox /\ i \in Nat \ {0} /\ i >= n + 1
    BY <1>1, FirstReply DEF WriteReplies
  <2>2. i # 1 /\ i - 1 >= n
    BY <2>1
  <2>3. i - 1 \in DOMAIN options'.inbox /\ options'.inbox[i - 1] = options.inbox[i]
    BY <2>1, <2>2, FirstReply
  <2>4. QED
    BY <1>1, <2>2, <2>3 DEF WriteReplies
<1>2. \A r : PageWrites(calls, r) \subseteq PageWrites(calls', r)
    BY DEF PageWrites
<1>3. ASSUME NEW r, NEW n \in Nat \ {0}, Owed(r, n + 1) PROVE Owed(r, n)'
    BY <1>1, <1>2, <1>3 DEF Owed
<1>4. ASSUME NEW r, Owed(r, 1), ~(S!Writes(Head(options.inbox)) /\ Head(options.inbox).repo = r)
      PROVE  Owed(r, 1)'
  <2>1. ASSUME NEW i \in WriteReplies(options.inbox, 1, r) PROVE i \in WriteReplies(options.inbox, 1 + 1, r)
    <3>1. i # 1 /\ i \in Nat \ {0}
      BY <1>4, <2>1, FirstReply DEF WriteReplies
    <3>2. i >= 1 + 1
      BY <3>1
    <3>3. QED
      BY <2>1, <3>2 DEF WriteReplies
  <2>2. Owed(r, 1 + 1)
    BY <1>4, <2>1 DEF Owed
  <2>3. QED
    BY <1>3, <2>2
<1>5. ASSUME Listed, ~Lists(Head(options.inbox)) PROVE Listed'
  <2>1. ASSUME NEW i \in DOMAIN options.inbox, Lists(options.inbox[i]) PROVE Listed'
    <3>1. i # 1
      BY <1>5, <2>1, FirstReply
    <3>2. i - 1 \in DOMAIN options'.inbox /\ options'.inbox[i - 1] = options.inbox[i]
      BY <3>1, FirstReply
    <3>3. QED
      BY <2>1, <3>2 DEF Listed
  <2>2. QED
    BY <1>5, <2>1 DEF Listed
<1>6. QED
    BY <1>3, <1>4, <1>5

\* The checks and the lists under way are as good when a reply is taken, and what is
\* pending but for that reply.
LEMMA RepliesBehind ==
    ASSUME BindInv, options.inbox # <<>>, options'.inbox = Tail(options.inbox),
           options'.bindingsGeneration = options.bindingsGeneration,
           AsksOnly, UNCHANGED <<bound, overtaken, elsewhere>>
    PROVE  /\ ChecksFit' /\ ListsFit'
           /\ (\E m \in calls : Pending(m)) => \E m \in calls' : Pending(m)
           /\ (\E i \in DOMAIN options.inbox : Pending(options.inbox[i])) =>
                 \/ Pending(Head(options.inbox))
                 \/ \E i \in DOMAIN options'.inbox : Pending(options'.inbox[i])
<1>1. Watched' = Watched
    BY DEF Watched
<1>2. ASSUME NEW m, CheckFits(m) PROVE CheckFits(m)'
    BY <1>1, <1>2 DEF CheckFits, AsksOnly
<1>3. options.bindingsGeneration \in Nat
    BY DEF BindInv, BindTypes, OptionsPages
<1>4. \A m \in calls' \ calls : CheckFits(m)'
    BY <1>3 DEF CheckFits, HasRead, AsksOnly
<1>5. ChecksFit'
  <2>1. \A m \in calls' : Checks(m) => CheckFits(m)'
    BY <1>2, <1>4 DEF BindInv, ChecksFit
  <2>2. ASSUME NEW i \in DOMAIN options'.inbox, NEW m, m = options'.inbox[i], Checks(m)
        PROVE  CheckFits(m)'
    <3>1. i + 1 \in DOMAIN options.inbox /\ m = options.inbox[i + 1]
      BY <2>2, FirstReply
    <3>2. CheckFits(m)
      BY <2>2, <3>1 DEF BindInv, ChecksFit
    <3>3. QED
      BY <1>2, <3>2
  <2>3. QED
    BY <2>1, <2>2 DEF ChecksFit
<1>6. ListsFit'
  <2> SUFFICES ASSUME NEW i \in DOMAIN options'.inbox, Lists(options'.inbox[i]),
                      options'.inbox[i].answer = "ok", NEW r \in Watched'
               PROVE  options'.inbox[i].rows[r].service = bound'[r] \/ Owed(r, i + 1)'
    BY DEF ListsFit
  <2>1. i \in Nat \ {0} /\ i + 1 \in DOMAIN options.inbox /\ options'.inbox[i] = options.inbox[i + 1]
    BY FirstReply
  <2>2. options.inbox[i + 1].rows[r].service = bound[r] \/ Owed(r, (i + 1) + 1)
    BY <1>1, <2>1 DEF BindInv, ListsFit
  <2>3. i + 1 \in Nat \ {0}
    BY <2>1
  <2>4. Owed(r, (i + 1) + 1) => Owed(r, i + 1)'
    BY <2>3, OwedBehind DEF AsksOnly
  <2>5. QED
    BY <2>1, <2>2, <2>4
<1>7. ASSUME NEW i \in DOMAIN options.inbox, Pending(options.inbox[i]), ~Pending(Head(options.inbox))
      PROVE  \E j \in DOMAIN options'.inbox : Pending(options'.inbox[j])
  <2>1. i # 1
    BY <1>7, FirstReply
  <2>2. i - 1 \in DOMAIN options'.inbox /\ options'.inbox[i - 1] = options.inbox[i]
    BY <2>1, FirstReply
  <2>3. QED
    BY <1>7, <2>2
<1>8. QED
    BY <1>5, <1>6, <1>7 DEF AsksOnly

\* The page that comes of a reply.
LEMMA PageTaken ==
    ASSUME BindInv, options.inbox # <<>>, NEW page \in OptionsPages, page.inbox = options.inbox,
           NEW next, S!Taken(page, next)
    PROVE  /\ options' \in OptionsPages /\ options'.inbox = Tail(options.inbox)
           /\ options'.table = page.table /\ options'.rows = page.rows
           /\ options'.bindingsGeneration = page.bindingsGeneration
           /\ calls' = calls \union next
           /\ UNCHANGED <<bound, edits, panel, want, contested, overtaken, elsewhere>>
<1>1. /\ options' = [page EXCEPT !.inbox = Tail(options.inbox)]
      /\ calls' = calls \union next
      /\ UNCHANGED <<bound, edits, panel, want, contested, overtaken, elsewhere>>
    BY DEF S!Taken, S!Sent
<1>2. Tail(options.inbox) \in Seq(BindMessages)
    BY FirstReply
<1>3. options' \in OptionsPages
    BY <1>1, <1>2 DEF OptionsPages
<1>4. QED
    BY <1>1, <1>3 DEF OptionsPages

\* A list of the bindings is painted, or could not be had.
LEMMA RefreshStep ==
    ASSUME BindInv, options.inbox # <<>>, S!refreshBindings(Head(options.inbox))
    PROVE  BindInv'
<1> DEFINE c == Head(options.inbox)
<1>1. /\ c \in BindMessages /\ c = options.inbox[1] /\ 1 \in DOMAIN options.inbox
      /\ options \in OptionsPages /\ c.rows \in BindTables
    BY FirstReply DEF BindInv, BindTypes, BindMessages
<1>2. Lists(c)
    BY DEF S!refreshBindings, Lists
<1>3. unseen \in [repos : SUBSET Repos, failed : BOOLEAN]
    BY DEF BindInv, BindTypes
<1>4. ASSUME c.answer = "ok" PROVE BindInv'
  <2> DEFINE page == [options EXCEPT !.table = "shown", !.rows = c.rows]
  <2>1. S!Taken(page, {}) /\ unseen' = S!AllSeen
    BY <1>4 DEF S!refreshBindings
  <2>2. page \in OptionsPages
    BY <1>1 DEF OptionsPages
  <2>3. page.inbox = options.inbox /\ page.rows = c.rows /\ page.bindingsGeneration = options.bindingsGeneration
    BY <1>1 DEF OptionsPages
  <2> HIDE DEF page, c
  <2>4. /\ options' \in OptionsPages /\ options'.inbox = Tail(options.inbox)
        /\ options'.rows = c.rows
        /\ options'.bindingsGeneration = options.bindingsGeneration
        /\ calls' = calls /\ AsksOnly
        /\ UNCHANGED <<bound, edits, panel, want, contested, overtaken, elsewhere>>
    <3>1. /\ options' \in OptionsPages /\ options'.inbox = Tail(options.inbox)
          /\ options'.rows = c.rows
          /\ options'.bindingsGeneration = options.bindingsGeneration
          /\ calls' = calls \union {}
          /\ UNCHANGED <<bound, edits, panel, want, contested, overtaken, elsewhere>>
      BY <2>1, <2>2, <2>3, PageTaken
    <3>2. calls' = calls
      BY <3>1
    <3>3. AsksOnly
      BY <3>2 DEF AsksOnly
    <3>4. QED
      BY <3>1, <3>2, <3>3
  <2>5. ChecksFit' /\ ListsFit'
    BY <2>4, RepliesBehind
  <2>6. RowsFit'
    <3> SUFFICES ASSUME NEW r \in Watched' PROVE options'.rows[r].service = bound'[r] \/ Owed(r, 1)'
      BY DEF RowsFit
    <3>1. r \in Watched
      BY <2>4 DEF Watched
    <3>2. c.rows[r].service = bound[r] \/ Owed(r, 1 + 1)
      BY <1>1, <1>2, <1>4, <3>1 DEF BindInv, ListsFit
    <3>3. Owed(r, 1 + 1) => Owed(r, 1)'
      BY <2>4, OwedBehind
    <3>4. QED
      BY <2>4, <3>2, <3>3
  <2>7. UnseenFit' /\ unseen' \in [repos : SUBSET Repos, failed : BOOLEAN]
    BY <2>1 DEF UnseenFit, S!AllSeen
  <2>8. QED
    BY <2>4, <2>5, <2>6, <2>7, CallsTaken
<1>5. ASSUME c.answer # "ok" PROVE BindInv'
  <2> DEFINE page == [options EXCEPT !.table = "error"]
  <2>1. S!Taken(page, {}) /\ unseen' = unseen
    BY <1>5 DEF S!refreshBindings
  <2>2. page \in OptionsPages
    BY <1>1 DEF OptionsPages
  <2>3. /\ page.inbox = options.inbox /\ page.table = "error"
        /\ page.bindingsGeneration = options.bindingsGeneration
    BY <1>1 DEF OptionsPages
  <2> HIDE DEF page, c
  <2>4. /\ options' \in OptionsPages /\ options'.inbox = Tail(options.inbox)
        /\ options'.table = "error"
        /\ options'.bindingsGeneration = options.bindingsGeneration
        /\ calls' = calls /\ AsksOnly
        /\ UNCHANGED <<bound, edits, panel, want, contested, overtaken, elsewhere>>
    <3>1. /\ options' \in OptionsPages /\ options'.inbox = Tail(options.inbox)
          /\ options'.table = "error"
          /\ options'.bindingsGeneration = options.bindingsGeneration
          /\ calls' = calls \union {}
          /\ UNCHANGED <<bound, edits, panel, want, contested, overtaken, elsewhere>>
      BY <2>1, <2>2, <2>3, PageTaken
    <3>2. calls' = calls
      BY <3>1
    <3>3. AsksOnly
      BY <3>2 DEF AsksOnly
    <3>4. QED
      BY <3>1, <3>2, <3>3
  <2>5. ChecksFit' /\ ListsFit'
    BY <2>4, RepliesBehind
  <2>6. RowsFit' /\ UnseenFit'
    BY <2>4 DEF RowsFit, UnseenFit
  <2>7. QED
    BY <1>3, <2>1, <2>4, <2>5, <2>6, CallsTaken
<1>6. QED
    BY <1>4, <1>5

\* A removal is answered: the bindings are listed again.
LEMMA UnboundStep ==
    ASSUME BindInv, options.inbox # <<>>, S!Unbound(Head(options.inbox))
    PROVE  BindInv'
<1> DEFINE c == Head(options.inbox)
           m == S!Message("service-bindings-list", "options")
           page == IF c.answer = "ok" THEN options ELSE [options EXCEPT !.status = "couldn't remove"]
<1>1. options \in OptionsPages /\ unseen \in [repos : SUBSET Repos, failed : BOOLEAN]
    BY DEF BindInv, BindTypes
<1>2. S!Taken(page, {m}) /\ unseen' = unseen
    BY DEF S!Unbound
<1>3. page \in OptionsPages
    BY <1>1 DEF OptionsPages
<1>4. page.inbox = options.inbox /\ page.bindingsGeneration = options.bindingsGeneration
    BY <1>1 DEF OptionsPages
<1>5. /\ m \in BindMessages /\ m.kind = "service-bindings-list" /\ m.from = "options"
      /\ m.pc = "sent" /\ m.gen = options.bindingsGeneration /\ \A d \in calls : d.id # m.id
    BY NewMessage DEF BindInv
<1> HIDE DEF c, m, page
<1>6. CallFits(m) /\ ~S!Writes(m) /\ Lists(m)
    BY <1>5 DEF CallFits, Sound, S!Writes, Lists
<1>7. /\ options' \in OptionsPages /\ options'.inbox = Tail(options.inbox)
      /\ options'.bindingsGeneration = options.bindingsGeneration
      /\ m \in calls' /\ AsksOnly
      /\ UNCHANGED <<bound, edits, panel, want, contested, overtaken, elsewhere>>
  <2>1. /\ options' \in OptionsPages /\ options'.inbox = Tail(options.inbox)
        /\ options'.bindingsGeneration = options.bindingsGeneration
        /\ calls' = calls \union {m}
        /\ UNCHANGED <<bound, edits, panel, want, contested, overtaken, elsewhere>>
    BY <1>2, <1>3, <1>4, PageTaken
  <2>2. AsksOnly
    BY <1>5, <1>6, <2>1 DEF AsksOnly
  <2>3. QED
    BY <2>1, <2>2
<1>8. ChecksFit' /\ ListsFit'
    BY <1>7, RepliesBehind
<1>9. RowsFit' /\ UnseenFit'
    BY <1>5, <1>6, <1>7 DEF RowsFit, UnseenFit, Listed, Pending
<1>10. QED
    BY <1>1, <1>2, <1>7, <1>8, <1>9, CallsTaken

\* A correction is answered: the bindings are checked again.
LEMMA CorrectedStep ==
    ASSUME BindInv, options.inbox # <<>>, S!Corrected(Head(options.inbox))
    PROVE  BindInv'
<1> DEFINE c == Head(options.inbox)
           new == S!Message("service-bindings-check", "options")
           m == [new EXCEPT !.keep = c.answer # "ok", !.repo = c.repo]
           page == [options EXCEPT !.checking = TRUE,
                                   !.status = IF c.answer = "ok" THEN @ ELSE "couldn't update"]
<1>1. /\ options \in OptionsPages /\ unseen \in [repos : SUBSET Repos, failed : BOOLEAN]
      /\ c \in BindMessages
    BY FirstReply DEF BindInv, BindTypes
<1>2. c.repo \in Repos /\ S!Writes(c) /\ ~Lists(c)
  <2>1. S!Writes(c) /\ ~Lists(c)
    BY DEF S!Corrected, S!Writes, Lists
  <2>2. QED
    BY <2>1, FirstReply DEF ReplyFits, Sound
<1>3. S!Taken(page, {m}) /\ unseen' = [unseen EXCEPT !.repos = @ \union {c.repo}]
    BY DEF S!Corrected
<1>4. page \in OptionsPages
    BY <1>1 DEF OptionsPages
<1>5. /\ page.inbox = options.inbox /\ page.bindingsGeneration = options.bindingsGeneration
      /\ page.table = options.table /\ page.rows = options.rows
    BY <1>1 DEF OptionsPages
<1>6. /\ new \in BindMessages /\ new.kind = "service-bindings-check" /\ new.from = "options"
      /\ new.pc = "sent" /\ new.gen = options.bindingsGeneration /\ \A d \in calls : d.id # new.id
    BY NewMessage DEF BindInv
<1> HIDE DEF new
<1>7. m \in BindMessages
    BY <1>1, <1>2, <1>6 DEF BindMessages
<1>8. /\ m.kind = "service-bindings-check" /\ m.from = "options" /\ m.pc = "sent"
      /\ m.gen = options.bindingsGeneration /\ m.repo = c.repo /\ m.id = new.id
    BY <1>6 DEF BindMessages
<1> HIDE DEF c, m, page
<1>9. CallFits(m) /\ ~S!Writes(m) /\ Checks(m)
    BY <1>8 DEF CallFits, Sound, S!Writes, Checks
<1>10. /\ options' \in OptionsPages /\ options'.inbox = Tail(options.inbox)
       /\ options'.bindingsGeneration = options.bindingsGeneration
       /\ options'.table = options.table /\ options'.rows = options.rows
       /\ m \in calls' /\ AsksOnly
       /\ UNCHANGED <<bound, edits, panel, want, contested, overtaken, elsewhere>>
  <2>1. /\ options' \in OptionsPages /\ options'.inbox = Tail(options.inbox)
        /\ options'.bindingsGeneration = options.bindingsGeneration
        /\ options'.table = options.table /\ options'.rows = options.rows
        /\ calls' = calls \union {m}
        /\ UNCHANGED <<bound, edits, panel, want, contested, overtaken, elsewhere>>
    BY <1>3, <1>4, <1>5, PageTaken
  <2>2. AsksOnly
    BY <1>6, <1>7, <1>8, <1>9, <2>1 DEF AsksOnly
  <2>3. QED
    BY <2>1, <2>2
<1>11. /\ unseen' \in [repos : SUBSET Repos, failed : BOOLEAN]
       /\ unseen'.repos = unseen.repos \union {c.repo}
    BY <1>1, <1>2, <1>3
<1>12. ChecksFit' /\ ListsFit'
    BY <1>10, RepliesBehind
<1>13. RowsFit'
  <2> SUFFICES ASSUME options'.table = "shown", NEW r \in Watched'
               PROVE  options'.rows[r].service = bound'[r] \/ Owed(r, 1)' \/ Listed' \/ r \in unseen'.repos
    BY DEF RowsFit
  <2>1. r \in Watched
    BY <1>10 DEF Watched
  <2>2. options.rows[r].service = bound[r] \/ Owed(r, 1) \/ Listed \/ r \in unseen.repos
    BY <1>10, <2>1 DEF BindInv, RowsFit
  <2>3. /\ Owed(r, 1) => Owed(r, 1)' \/ c.repo = r
        /\ Listed => Listed'
    BY <1>2, <1>10, OwedBehind DEF c, AsksOnly
  <2>4. QED
    BY <1>10, <1>11, <2>2, <2>3
<1>14. UnseenFit'
  <2>1. m \in calls' /\ m.gen = options'.bindingsGeneration /\ m.repo \in Repos
    BY <1>2, <1>8, <1>10
  <2>2. QED
    BY <1>8, <1>9, <2>1 DEF UnseenFit, Pending, Follows
<1>15. QED
    BY <1>10, <1>11, <1>12, <1>13, <1>14, CallsTaken

\* A check is answered: it is painted, set aside, or said to have failed.
LEMMA CheckTakenStep ==
    ASSUME BindInv, options.inbox # <<>>, S!Checked(Head(options.inbox))
    PROVE  BindInv'
<1> DEFINE c == Head(options.inbox)
           page == [options EXCEPT !.checking = FALSE]
<1>1. /\ c \in BindMessages /\ c = options.inbox[1] /\ 1 \in DOMAIN options.inbox
      /\ options \in OptionsPages /\ c.rows \in BindTables /\ ReplyFits(c, "options")
      /\ unseen \in [repos : SUBSET Repos, failed : BOOLEAN]
    BY FirstReply DEF BindInv, BindTypes, BindMessages
<1>2. Checks(c) /\ ~Lists(c) /\ ~S!Writes(c)
    BY DEF S!Checked, Lists, Checks, S!Writes
<1>3. page \in OptionsPages
    BY <1>1 DEF OptionsPages
<1>4. /\ page.inbox = options.inbox /\ page.bindingsGeneration = options.bindingsGeneration
      /\ page.table = options.table /\ page.rows = options.rows
    BY <1>1 DEF OptionsPages
<1>5. \/ /\ c.answer # "ok" /\ S!Taken([page EXCEPT !.status = "could not check"], {})
         /\ unseen' = [unseen EXCEPT !.failed = @ \/ c.repo \in Repos]
      \/ /\ c.answer = "ok" /\ S!Superseded(c)
         /\ S!Taken(IF c.keep THEN page ELSE [page EXCEPT !.status = "changed"], {})
         /\ unseen' = unseen
      \/ /\ c.answer = "ok" /\ ~S!Superseded(c)
         /\ S!Taken([page EXCEPT !.table = "shown", !.rows = c.rows,
                                 !.status = IF c.keep THEN @ ELSE ""], {})
         /\ unseen' = S!AllSeen
    BY DEF S!Checked
<1> HIDE DEF c, page
\* What a check that is not painted leaves.
<1>6. ASSUME NEW next \in OptionsPages, next.inbox = options.inbox, next.table = options.table,
             next.rows = options.rows, next.bindingsGeneration = options.bindingsGeneration,
             S!Taken(next, {}), unseen' \in [repos : SUBSET Repos, failed : BOOLEAN],
             unseen'.repos = unseen.repos, unseen.failed => unseen'.failed,
             Follows(c) => unseen'.failed
      PROVE  BindInv'
  <2>1. /\ options' \in OptionsPages /\ options'.inbox = Tail(options.inbox)
        /\ options'.bindingsGeneration = options.bindingsGeneration
        /\ options'.table = options.table /\ options'.rows = options.rows
        /\ calls' = calls /\ AsksOnly
        /\ UNCHANGED <<bound, edits, panel, want, contested, overtaken, elsewhere>>
    <3>1. /\ options' \in OptionsPages /\ options'.inbox = Tail(options.inbox)
          /\ options'.bindingsGeneration = options.bindingsGeneration
          /\ options'.table = options.table /\ options'.rows = options.rows
          /\ calls' = calls \union {}
          /\ UNCHANGED <<bound, edits, panel, want, contested, overtaken, elsewhere>>
      BY <1>6, PageTaken
    <3>2. calls' = calls
      BY <3>1
    <3>3. AsksOnly
      BY <3>2 DEF AsksOnly
    <3>4. QED
      BY <3>1, <3>2, <3>3
  <2>2. /\ ChecksFit' /\ ListsFit'
        /\ (\E m \in calls : Pending(m)) => \E m \in calls' : Pending(m)
        /\ (\E i \in DOMAIN options.inbox : Pending(options.inbox[i])) =>
              \/ Pending(c)
              \/ \E i \in DOMAIN options'.inbox : Pending(options'.inbox[i])
    BY <2>1, RepliesBehind DEF c
  <2>3. RowsFit'
    <3> SUFFICES ASSUME options'.table = "shown", NEW r \in Watched'
                 PROVE  options'.rows[r].service = bound'[r] \/ Owed(r, 1)' \/ Listed' \/ r \in unseen'.repos
      BY DEF RowsFit
    <3>1. r \in Watched
      BY <2>1 DEF Watched
    <3>2. options.rows[r].service = bound[r] \/ Owed(r, 1) \/ Listed \/ r \in unseen.repos
      BY <2>1, <3>1 DEF BindInv, RowsFit
    <3>3. /\ Owed(r, 1) => Owed(r, 1)'
          /\ Listed => Listed'
      BY <1>2, <2>1, OwedBehind DEF c
    <3>4. QED
      BY <1>6, <2>1, <3>2, <3>3
  <2>4. UnseenFit'
    <3> SUFFICES ASSUME unseen.repos # {}, options.table = "shown", ~unseen'.failed
                 PROVE  \/ \E m \in calls' : Pending(m)
                        \/ \E i \in DOMAIN options'.inbox : Pending(options'.inbox[i])
      BY <1>6, <2>1 DEF UnseenFit, Pending, Follows
    <3>1. \/ \E m \in calls : Pending(m)
          \/ \E i \in DOMAIN options.inbox : Pending(options.inbox[i])
      BY <1>6 DEF BindInv, UnseenFit
    <3>2. ~Pending(c)
      BY <1>2, <1>6 DEF Pending
    <3>3. QED
      BY <2>2, <3>1, <3>2
  <2>5. QED
    BY <1>6, <2>1, <2>2, <2>3, <2>4, CallsTaken
<1>7. ASSUME c.answer # "ok", S!Taken([page EXCEPT !.status = "could not check"], {}),
             unseen' = [unseen EXCEPT !.failed = @ \/ c.repo \in Repos]
      PROVE  BindInv'
  <2> DEFINE next == [page EXCEPT !.status = "could not check"]
  <2>1. next \in OptionsPages
    BY <1>3 DEF OptionsPages
  <2>2. /\ next.inbox = options.inbox /\ next.table = options.table /\ next.rows = options.rows
        /\ next.bindingsGeneration = options.bindingsGeneration
    BY <1>3, <1>4 DEF OptionsPages
  <2>3. S!Taken(next, {})
    BY <1>7
  <2> HIDE DEF next
  <2>4. /\ unseen' \in [repos : SUBSET Repos, failed : BOOLEAN] /\ unseen'.repos = unseen.repos
        /\ unseen'.failed = (unseen.failed \/ c.repo \in Repos)
    <3>1. unseen.failed \in BOOLEAN /\ (c.repo \in Repos) \in BOOLEAN
      BY <1>1
    <3>2. QED
      BY <1>1, <1>7, <3>1
  <2>5. Follows(c) => c.repo \in Repos
    BY DEF Follows
  <2>6. QED
    BY <1>6, <2>1, <2>2, <2>3, <2>4, <2>5
<1>8. ASSUME c.answer = "ok", S!Superseded(c), unseen' = unseen,
             S!Taken(IF c.keep THEN page ELSE [page EXCEPT !.status = "changed"], {})
      PROVE  BindInv'
  <2> DEFINE next == IF c.keep THEN page ELSE [page EXCEPT !.status = "changed"]
  <2>1. next \in OptionsPages
    BY <1>3 DEF OptionsPages
  <2>2. /\ next.inbox = options.inbox /\ next.table = options.table /\ next.rows = options.rows
        /\ next.bindingsGeneration = options.bindingsGeneration
    BY <1>3, <1>4 DEF OptionsPages
  <2>3. S!Taken(next, {})
    BY <1>8
  <2> HIDE DEF next
  <2>4. ~Follows(c)
    BY <1>8 DEF Follows, S!Superseded
  <2>5. QED
    BY <1>1, <1>6, <1>8, <2>1, <2>2, <2>3, <2>4
<1>9. ASSUME c.answer = "ok", ~S!Superseded(c), unseen' = S!AllSeen,
             S!Taken([page EXCEPT !.table = "shown", !.rows = c.rows,
                                  !.status = IF c.keep THEN @ ELSE ""], {})
      PROVE  BindInv'
  <2> DEFINE next == [page EXCEPT !.table = "shown", !.rows = c.rows,
                                  !.status = IF c.keep THEN @ ELSE ""]
  <2>1. next \in OptionsPages
    BY <1>1, <1>3 DEF OptionsPages
  <2>2. /\ next.inbox = options.inbox /\ next.rows = c.rows
        /\ next.bindingsGeneration = options.bindingsGeneration
    BY <1>3, <1>4 DEF OptionsPages
  <2>3. S!Taken(next, {})
    BY <1>9
  <2> HIDE DEF next
  <2>4. /\ options' \in OptionsPages /\ options'.inbox = Tail(options.inbox)
        /\ options'.bindingsGeneration = options.bindingsGeneration
        /\ options'.rows = c.rows /\ calls' = calls /\ AsksOnly
        /\ UNCHANGED <<bound, edits, panel, want, contested, overtaken, elsewhere>>
    <3>1. /\ options' \in OptionsPages /\ options'.inbox = Tail(options.inbox)
          /\ options'.bindingsGeneration = options.bindingsGeneration
          /\ options'.rows = c.rows /\ calls' = calls \union {}
          /\ UNCHANGED <<bound, edits, panel, want, contested, overtaken, elsewhere>>
      BY <2>1, <2>2, <2>3, PageTaken
    <3>2. calls' = calls
      BY <3>1
    <3>3. AsksOnly
      BY <3>2 DEF AsksOnly
    <3>4. QED
      BY <3>1, <3>2, <3>3
  <2>5. ChecksFit' /\ ListsFit'
    BY <2>4, RepliesBehind
  <2>6. RowsFit'
    <3> SUFFICES ASSUME NEW r \in Watched' PROVE options'.rows[r].service = bound'[r]
      BY DEF RowsFit
    <3>1. r \in Watched
      BY <2>4 DEF Watched
    <3>2. CheckFits(c) /\ HasRead(c) /\ c.gen = options.bindingsGeneration
      BY <1>1, <1>2, <1>9 DEF BindInv, ChecksFit, HasRead, ReplyFits, S!Superseded
    <3>3. QED
      BY <2>4, <3>1, <3>2 DEF CheckFits
  <2>7. UnseenFit' /\ unseen' \in [repos : SUBSET Repos, failed : BOOLEAN]
    BY <1>9 DEF UnseenFit, S!AllSeen
  <2>8. QED
    BY <2>4, <2>5, <2>6, <2>7, CallsTaken
<1>10. QED
    BY <1>5, <1>7, <1>8, <1>9

\* The invariant of the bindings holds at first.
LEMMA BindingsInit ==
    ASSUME S!Init
    PROVE  BindInv
<1>1. /\ bound \in [Repos -> Services \union {NoService}] /\ edits = <<>> /\ calls = {}
      /\ options = [table |-> "shown", rows |-> S!rowsOf(bound), bindingsGeneration |-> 0,
                    checking |-> FALSE, status |-> "", inbox |-> <<>>]
      /\ panel = [repo |-> NoService, mount |-> 0, shown |-> "nothing", inbox |-> <<>>]
      /\ want = bound /\ unseen = S!AllSeen
    BY DEF S!Init
<1>2. S!rowsOf(bound) \in BindTables /\ \A r \in Repos : S!rowsOf(bound)[r].service = bound[r]
    BY <1>1, TableOf
<1>3. <<>> \in Seq(BindMessages) /\ DOMAIN <<>> = {} /\ 0 \in Nat
    BY EmptySeq
<1>4. options \in OptionsPages
    BY <1>1, <1>2, <1>3 DEF OptionsPages
<1>5. panel \in DeploySections
    BY <1>1, <1>3 DEF DeploySections
<1>6. /\ options.inbox = <<>> /\ panel.inbox = <<>> /\ options.rows = S!rowsOf(bound)
      /\ panel.shown = "nothing" /\ unseen.repos = {}
      /\ unseen \in [repos : SUBSET Repos, failed : BOOLEAN]
    BY <1>1 DEF S!AllSeen
<1>7. BindTypes
  <2>1. calls \in SUBSET BindMessages /\ edits \in Seq(BindMessages) /\ want \in [Repos -> Services \union {NoService}]
    BY <1>1, <1>3
  <2>2. IsFiniteSet(calls)
    BY <1>1, FS_EmptySet
  <2>3. QED
    BY <1>1, <1>4, <1>5, <1>6, <2>1, <2>2 DEF BindTypes
<1>8. CallsFit /\ InboxesFit /\ LinksFit
  <2>1. CallsFit
    BY <1>1 DEF CallsFit
  <2>2. panel.shown # "form"
    BY <1>6
  <2>3. InboxesFit
    BY <1>6, <1>3, <2>2 DEF InboxesFit
  <2>4. LinksFit
    BY <1>1, <1>3 DEF LinksFit
  <2>5. QED
    BY <2>1, <2>3, <2>4
<1>9. WordsFit
    BY <1>1, <1>3 DEF WordsFit, AskedAbout, Leaves, LinkedFor
<1>10. RowsFit
    BY <1>2, <1>6 DEF RowsFit, Watched
<1>11. ChecksFit /\ ListsFit /\ UnseenFit
    BY <1>1, <1>6, <1>3 DEF ChecksFit, ListsFit, UnseenFit
<1>12. QED
    BY <1>7, <1>8, <1>9, <1>10, <1>11 DEF BindInv

\* It holds on when nothing of the bindings moves.
LEMMA BindingsIdle ==
    ASSUME BindInv, UNCHANGED S!vars
    PROVE  BindInv'
<1>1. UNCHANGED <<bound, edits, calls, options, panel, want, contested, overtaken, elsewhere, unseen>>
    BY DEF S!vars, S!history
<1>2. BindTypes' /\ CallsFit' /\ InboxesFit' /\ LinksFit' /\ WordsFit'
    BY <1>1 DEF BindInv, BindTypes, CallsFit, InboxesFit, LinksFit, WordsFit
<1>3. RowsFit' /\ ChecksFit' /\ ListsFit' /\ UnseenFit'
    BY <1>1, <1>2, TableKept DEF Watched
<1>4. QED
    BY <1>2, <1>3 DEF BindInv

\* Every step of the bindings keeps it.
LEMMA BindingsStep ==
    ASSUME BindInv, S!Next
    PROVE  BindInv'
<1>1. ASSUME S!OptionsReply PROVE BindInv'
    BY <1>1, RefreshStep, UnboundStep, CheckTakenStep, CorrectedStep DEF S!OptionsReply
<1>2. ASSUME NEW c \in calls,
             \/ S!handleServiceBindingsList(c) \/ S!handleServiceBind(c) \/ S!CheckReads(c)
             \/ S!handleServiceBindingsCheck(c) \/ S!handleDeployPreflight(c)
      PROVE  BindInv'
    BY <1>2, ListStep, BindStep, CheckReadsStep, CheckedStep, PreflightStep
<1>3. QED
    BY <1>1, <1>2, WriteLandsStep, EvictStep, UnbindStep, CorrectStep, MountStep, CheckAskedStep,
       SubmitStep, PanelReplyStep DEF S!Next

\* The invariant of the bindings: whatever order the gateway answers in, and whenever the
\* user clicks on, what the page paints has read what the page had written, and what the
\* chain leaves is what was told last.
THEOREM BindInvHolds == WorkerSpec => [](which = "bindings" => BindInv)
<1> DEFINE Inv == which = "bindings" => BindInv
<1>1. ASSUME WorkerInit PROVE Inv
  <2>1. which = "bindings" => S!Init
    BY <1>1 DEF WorkerInit
  <2>2. QED
    BY <2>1, BindingsInit
<1>2. ASSUME Inv, [WorkerNext]_all PROVE Inv'
  <2>1. CASE WorkerNext
    <3>1. which' = which /\ (which = "bindings" => S!Next)
      BY <2>1 DEF WorkerNext
    <3>2. QED
      BY <1>2, <3>1, BindingsStep
  <2>2. CASE UNCHANGED all
    <3>1. which' = which
      BY <2>2 DEF all
    <3>2. UNCHANGED S!vars
      BY <2>2 DEF all, shared, ofBindings, S!vars, S!history
    <3>3. QED
      BY <1>2, <3>1, <3>2, BindingsIdle
  <2>3. QED
    BY <1>2, <2>1, <2>2
<1>3. QED
    BY <1>1, <1>2, PTL DEF WorkerSpec

\* Once the page has its answers its table shows what is stored, for any number of
\* clicks, failures and evictions: no check that was sent before a change of the page's
\* paints over it (options.ts:539-553, 610-646).
THEOREM TableIsCurrentHolds == WorkerSpec => []TableIsCurrent
<1>1. ASSUME BindInv PROVE S!TableIsCurrent
  <2> SUFFICES ASSUME S!OptionsSettled, options.table = "shown", NEW r \in Watched
               PROVE  options.rows[r].service = bound[r] \/ (unseen.failed /\ r \in unseen.repos)
    BY DEF S!TableIsCurrent, Watched
  <2>1. options.inbox = <<>> /\ ~ \E m \in calls : m.from = "options"
    BY DEF S!OptionsSettled
  <2>2. ~Owed(r, 1) /\ ~Listed
    BY <1>1, <2>1 DEF Owed, PageWrites, WriteReplies, Listed, Lists, BindInv, CallsFit, CallFits, Sound
  <2>3. options.rows[r].service = bound[r] \/ r \in unseen.repos
    BY <1>1, <2>2 DEF BindInv, RowsFit
  <2>4. unseen.repos # {} => unseen.failed
    BY <1>1, <2>1 DEF BindInv, UnseenFit, Pending
  <2>5. QED
    BY <2>3, <2>4
<1>2. (which = "bindings" => BindInv) => TableIsCurrent
    BY <1>1 DEF TableIsCurrent
<1>3. QED
    BY <1>2, BindInvHolds, PTL

\* A repository has the service it was last told to have, unless two writes of it were
\* under way at once or the worker was evicted with one (service-binding-store.ts:6-17).
THEOREM LastWordStandsHolds == WorkerSpec => []LastWordStands
<1>1. ASSUME BindInv PROVE S!LastWordStands
  <2> SUFFICES ASSUME NEW r \in Repos \ contested,
                      ~ \E c \in calls : S!Writes(c) /\ c.repo = r
               PROVE  bound[r] = want[r]
    BY DEF S!LastWordStands
  <2>1. AskedAbout(calls, r) = {}
    BY DEF AskedAbout
  <2>2. LinkedFor(edits, r) = {}
    BY <1>1 DEF LinkedFor, BindInv, CallsFit, CallFits, LinksFit
  <2>3. QED
    BY <1>1, <2>1, <2>2 DEF BindInv, WordsFit, Leaves
<1>2. (which = "bindings" => BindInv) => LastWordStands
    BY <1>1 DEF LastWordStands
<1>3. QED
    BY <1>2, BindInvHolds, PTL
============================================================================
