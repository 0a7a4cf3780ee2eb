------------------------------ MODULE RunStore ------------------------------
(***************************************************************************)
(* The store of agent runs, as its writes leave it: at most one run per    *)
(* question, no more than MAX_STORED_RUNS of them, of which no more than   *)
(* MAX_STORED_TERM_RUNS are about a term.  Its writes run one at a time    *)
(* (KeyedStore), so each is one step here.                                 *)
(***************************************************************************)
EXTENDS RunConstants, LastWrites, Sequences, FiniteSets, SequencesExt

VARIABLES
    store,  \* the stored runs, the oldest write first
    lapsed  \* the runs whose entry is past its TTL

\* links: the run the attached links were resolved for.
Entries == [key : Keys, run : Runs, owner : Owners,
            kind : {"running", "done", "failed"}, links : Runs \union {NoRun}]

Stored == ToSet(store)

\* What getRun and listRunning find.
Cached(k) == {e \in Stored : e.key = k /\ e.run \notin lapsed}
Running == {e.run : e \in {e \in Stored : e.kind = "running" /\ e.run \notin lapsed}}

IsTerm(e) == e.key \in Terms

CutTerms(s) == KeepLast(s, {i \in DOMAIN s : IsTerm(s[i])}, MaxTerms)
CutAll(s) == KeepLast(s, DOMAIN s, MaxStored)

\* e as the latest write, in place of its question's last run.
Written(e) == Append(At(store, {i \in DOMAIN store : store[i].key # e.key}), e)

\* Bug: only the total is kept, and a term costs an item its place.
MutantPutOneBudget(e) == CutTerms(CutAll(Written(e)))

\* A run is stored in place of its question's last one; the terms are cut to
\* their own budget first, then all runs to theirs, the oldest write first.
Put(e) == CutAll(CutTerms(Written(e)))

\* Bug: links are attached to whatever run answers the question by now.
MutantAttach(k, r) ==
    LET found == {i \in DOMAIN store : store[i].key = k /\ store[i].kind = "done"}
    IN  IF found = {} THEN store
        ELSE Append(At(store, DOMAIN store \ found),
                    [store[CHOOSE i \in found : TRUE] EXCEPT !.links = r])

\* Links are attached to the run they were resolved for while it is still the
\* one stored, done and within its TTL; this counts as a write of the run.
Attach(k, r) ==
    LET found == {i \in DOMAIN store : /\ store[i].key = k /\ store[i].run = r
                                       /\ store[i].kind = "done" /\ r \notin lapsed}
    IN  IF found = {} THEN store
        ELSE Append(At(store, DOMAIN store \ found),
                    [store[CHOOSE i \in found : TRUE] EXCEPT !.links = r])

----------------------------------------------------------------------------
vars == <<store, lapsed>>

Init == store = <<>> /\ lapsed = {}

putRun(e) ==
    /\ e.links = NoRun
    /\ store' = Put(e)
    /\ lapsed' = lapsed \ {e.run}

putItemUrls(k, r) == store' = Attach(k, r) /\ UNCHANGED lapsed

clearRuns == store' = <<>> /\ UNCHANGED lapsed

Lapse(r) == lapsed' = lapsed \union {r} /\ UNCHANGED store

Next ==
    \/ \E e \in Entries : putRun(e)
    \/ \E k \in Keys, r \in Runs : putItemUrls(k, r)
    \/ clearRuns
    \/ \E r \in Runs : Lapse(r)

Spec == Init /\ [][Next]_vars

----------------------------------------------------------------------------
\* "An over-budget term must displace the oldest term, never the oldest item,
\* however recently that term was written" (agent-run-store.ts:316-319).  A write
\* takes its question's last run out; another run goes only when a budget is full,
\* from the terms alone if it is theirs, and it is the oldest; the rest stays.
EvictsOnly(e) ==
    LET others == {i \in DOMAIN store : store[i].key # e.key}
        terms == {i \in others : IsTerm(store[i])}
        pool == IF IsTerm(e) /\ Cardinality(terms) = MaxTerms THEN terms
                ELSE IF Cardinality(others) = MaxStored THEN others ELSE {}
        oldest == {i \in pool : \A j \in pool : i <= j}
    IN  ToSet(store') = {e} \union {store[i] : i \in others \ oldest}

EvictsInOrder == [][\A e \in Entries : putRun(e) => EvictsOnly(e)]_vars
=============================================================================
