----------------------------- MODULE KeyedStore -----------------------------
(***************************************************************************)
(* One persisted store of the service worker, as the code builds it        *)
(* (keyed-store.ts, and the inline copies in clip-queue-store.ts and       *)
(* connection-store.ts): a storage key, a guarded read, and a promise      *)
(* chain that runs one read-modify-write at a time.                        *)
(*                                                                         *)
(* An edit is two awaits, a storage read and a storage write, and each is  *)
(* a step here: between them any other task of the worker may run, submit  *)
(* an edit of its own, or see the worker evicted.                          *)
(***************************************************************************)
EXTENDS StoreConstants, Naturals, Sequences

VARIABLES
    stored,     \* the raw contents of the storage key
    chain,      \* the edits linked on the chain; its head is the one running
    snapshot,   \* what the running edit read, NoSnapshot before its read
    settled     \* what became of each edit, as its caller sees it

vars == <<stored, chain, snapshot, settled>>

Outcome == {"new", "waiting", "resolved", "rejected", "gone"}

TypeOK ==
    /\ stored \in Raw
    /\ chain \in Seq(Ops)
    /\ snapshot \in Values \union {NoSnapshot}
    /\ settled \in [Ops -> Outcome]

\* Storage is external input: an earlier build or a hand edit may have left
\* anything there.
Init ==
    /\ stored \in Raw
    /\ chain = <<>>
    /\ snapshot = NoSnapshot
    /\ settled = [op \in Ops |-> "new"]

----------------------------------------------------------------------------
\* A call links its edit behind the last one.
Submit(op) ==
    /\ settled[op] = "new"
    /\ chain' = Append(chain, op)
    /\ settled' = [settled EXCEPT ![op] = "waiting"]
    /\ UNCHANGED <<stored, snapshot>>

\* A reader keeps what passes the guard and throws on nothing.
ReadGuarded == Guard[stored]

\* The head edit's storage read resolves.
Read ==
    /\ chain # <<>>
    /\ snapshot = NoSnapshot
    /\ snapshot' = ReadGuarded
    /\ UNCHANGED <<stored, chain, settled>>

\* Bug: the read is hoisted out of the chained work, and the next link starts
\* from what the last one read.
MutantSettleKeepsRead(how) ==
    /\ settled' = [settled EXCEPT ![Head(chain)] = how]
    /\ chain' = Tail(chain)
    /\ snapshot' = IF Len(chain) = 1 THEN NoSnapshot ELSE snapshot

\* Bug: a rejected link is not caught, and everything behind it waits on it.
MutantSettleWedges(how) ==
    /\ settled[Head(chain)] = "waiting"
    /\ settled' = [settled EXCEPT ![Head(chain)] = how]
    /\ chain' = IF how = "rejected" THEN chain ELSE Tail(chain)
    /\ snapshot' = NoSnapshot

\* The head link settles, resolved or rejected, and the next one starts.
Settle(how) ==
    /\ settled' = [settled EXCEPT ![Head(chain)] = how]
    /\ chain' = Tail(chain)
    /\ snapshot' = NoSnapshot

\* The head edit's storage write resolves.
Write ==
    /\ chain # <<>>
    /\ snapshot # NoSnapshot
    /\ stored' = Edit[Head(chain)][snapshot]
    /\ Settle("resolved")

\* Its read or its write rejects: the prior contents stand.
Fail ==
    /\ chain # <<>>
    /\ Settle("rejected")
    /\ UNCHANGED stored

\* The worker is evicted.  The chain is in memory only; a write already
\* issued may still reach the disk.
Evict ==
    /\ chain # <<>>
    /\ chain' = <<>>
    /\ snapshot' = NoSnapshot
    /\ settled' = [op \in Ops |->
                      IF settled[op] = "waiting" THEN "gone" ELSE settled[op]]
    /\ \/ UNCHANGED stored
       \/ snapshot # NoSnapshot /\ stored' = Edit[Head(chain)][snapshot]

Next ==
    \/ \E op \in Ops : Submit(op)
    \/ Read
    \/ Write
    \/ Fail
    \/ Evict

Spec == Init /\ [][Next]_vars

\* Storage calls settle, one way or the other; nobody has to make a call and
\* nothing has to fail or be evicted.
Fairness == WF_vars(Read) /\ WF_vars(Write \/ Fail)

----------------------------------------------------------------------------
\* From its read to its write, the running edit's snapshot is what storage
\* holds: no other edit has written in between.
SnapshotIsCurrent == snapshot # NoSnapshot => snapshot = Guard[stored]

\* The callers waiting are those linked on the chain, each once.
ChainHoldsTheWaiting ==
    /\ \A i \in 1 .. Len(chain) : settled[chain[i]] = "waiting"
    /\ \A i, j \in 1 .. Len(chain) : chain[i] = chain[j] => i = j
    /\ \A op \in Ops :
          settled[op] = "waiting" => \E i \in 1 .. Len(chain) : chain[i] = op

\* The single-writer guarantee (keyed-store.ts:49-60, "would otherwise both
\* read the same snapshot, and the second write would silently clobber the
\* first").  Inductive, with TypeOK.
SingleWriter == SnapshotIsCurrent /\ ChainHoldsTheWaiting

\* Every edit takes effect in the order of the calls, on the contents the one before
\* it left, at one instant, or not at all, and its caller is told so (the promise of
\* AtomicStore).
Edited(op, v) == Edit[op][v]
Atomic == INSTANCE AtomicStore
          WITH Edits <- Ops, Result <- Edited, value <- Guard[stored], pending <- chain

ImplementsAtomicStore == Atomic!Spec

\* A chain never wedges (keyed-store.ts, "would go silently read-only for
\* the life of the worker"): every call's promise settles, or the worker that
\* held it is gone.
CallSettles(op) == settled[op] = "waiting" ~> settled[op] \in {"resolved", "rejected", "gone"}

EveryCallSettles == \A op \in Ops : CallSettles(op)
=============================================================================
