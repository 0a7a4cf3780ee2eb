-------------------------- MODULE ConnectionStore --------------------------
(***************************************************************************)
(* The one stored connection and everyone who writes it: pairing, unpair,  *)
(* and the two marks that requests leave on it, "this token was rejected"  *)
(* and "a clip succeeded".  All of them go through one promise chain       *)
(* (connection-store.ts); the marks are read-modify-writes, pairing and    *)
(* unpair replace the record.                                              *)
(*                                                                         *)
(* A request reads the connection when it starts and is answered any time  *)
(* later, under whatever connection is stored by then.                     *)
(***************************************************************************)
EXTENDS Naturals, Sequences, ConnectionConstants

VARIABLES
    stored,     \* the connection record, with NoToken when there is none
    chain,      \* the writes linked on the chain; its head is the one running
    snapshot,   \* what the running mark read, NoToken while none has
    request,    \* where each request stands
    rejected,   \* the tokens the gateway no longer takes
    issued,     \* the tokens it has handed out
    intended,   \* whom the latest pair or unpair to take effect leaves paired
    lost        \* a write on the chain has failed or died with its worker

vars == <<stored, chain, snapshot, request, rejected, issued, intended, lost>>

Records == [token : Tokens \union {NoToken}, stale : BOOLEAN, clipped : BOOLEAN]

\* The record of a fresh pairing, and of none.
Fresh(t) == [token |-> t, stale |-> FALSE, clipped |-> FALSE]
Nothing == Fresh(NoToken)

\* The writes: setConnection, clearConnection, markStale, markClipSuccess.
Op(kind, t) == [kind |-> kind, token |-> t]
Replacing == {"set", "clear"}
Writes == [kind : {"set", "clear", "stale", "clipped"}, token : Tokens \union {NoToken}]

TypeOK ==
    /\ stored \in Records
    /\ chain \in Seq(Writes)
    /\ snapshot \in Records
    /\ request \in [Requests -> [pc    : {"new", "sent", "ok", "unauthorized", "done"},
                                 token : Tokens \union {NoToken}]]
    /\ rejected \subseteq issued
    /\ issued \subseteq Tokens
    /\ intended \in Tokens \union {NoToken}
    /\ lost \in BOOLEAN

Init ==
    /\ stored = Nothing
    /\ chain = <<>>
    /\ snapshot = Nothing
    /\ request = [r \in Requests |-> [pc |-> "new", token |-> NoToken]]
    /\ rejected = {} /\ issued = {}
    /\ intended = NoToken
    /\ lost = FALSE

----------------------------------------------------------------------------
Enqueue(op) == chain' = Append(chain, op)

\* Bug: a pairing writes its record without joining the chain.
MutantPair(t) ==
    /\ t \notin issued
    /\ issued' = issued \union {t}
    /\ stored' = Fresh(t)
    /\ intended' = t
    /\ UNCHANGED <<chain, snapshot, request, rejected, lost>>

\* The gateway confirms a pairing code and the new connection joins the chain.
Pair(t) ==
    /\ t \notin issued
    /\ issued' = issued \union {t}
    /\ Enqueue(Op("set", t))
    /\ UNCHANGED <<stored, snapshot, request, rejected, intended, lost>>

Unpair ==
    /\ Len(chain) < MaxChain
    /\ Enqueue(Op("clear", NoToken))
    /\ UNCHANGED <<stored, snapshot, request, rejected, issued, intended, lost>>

\* The gateway stops taking a token: revoked there, or replaced by a pairing.
Revoke(t) ==
    /\ t \in issued \ rejected
    /\ rejected' = rejected \union {t}
    /\ UNCHANGED <<stored, chain, snapshot, request, issued, intended, lost>>

\* A request reads the connection, beside the chain, and goes out.
Send(r) ==
    /\ request[r].pc = "new"
    /\ stored.token # NoToken
    /\ request' = [request EXCEPT ![r] = [pc |-> "sent", token |-> stored.token]]
    /\ UNCHANGED <<stored, chain, snapshot, rejected, issued, intended, lost>>

\* It is answered; other awaits pass before its mark is made.
Answer(r) ==
    /\ request[r].pc = "sent"
    /\ request' = [request EXCEPT ![r].pc = IF request[r].token \in rejected
                                            THEN "unauthorized" ELSE "ok"]
    /\ UNCHANGED <<stored, chain, snapshot, rejected, issued, intended, lost>>

\* Bug: a 401 is not carried to the store.
MutantMark(r) ==
    /\ request[r].pc \in {"ok", "unauthorized"}
    /\ request' = [request EXCEPT ![r].pc = "done"]
    /\ IF request[r].pc = "ok" THEN Enqueue(Op("clipped", NoToken)) ELSE UNCHANGED chain
    /\ UNCHANGED <<stored, snapshot, rejected, issued, intended, lost>>

\* A 401 marks the connection stale; a clip from the popup that was saved marks
\* its success, other requests mark nothing.
Mark(r) ==
    /\ request[r].pc \in {"ok", "unauthorized"}
    /\ request' = [request EXCEPT ![r].pc = "done"]
    /\ IF request[r].pc = "unauthorized"
       THEN Enqueue(Op("stale", NoToken))
       ELSE Enqueue(Op("clipped", NoToken)) \/ UNCHANGED chain
    /\ UNCHANGED <<stored, snapshot, rejected, issued, intended, lost>>

----------------------------------------------------------------------------
Running(kinds) == chain # <<>> /\ Head(chain).kind \in kinds

\* Bug: a link's read is made before it has waited for the one ahead.
MutantAdvance ==
    /\ chain' = Tail(chain)
    /\ snapshot' = IF Len(chain) = 1 THEN Nothing ELSE snapshot

\* The head link is through and the next one starts.
Advance ==
    /\ chain' = Tail(chain)
    /\ snapshot' = Nothing

\* The running mark reads the record; without one there is nothing to mark.
ReadRecord ==
    /\ Running({"stale", "clipped"})
    /\ snapshot = Nothing
    /\ IF stored.token = NoToken THEN Advance
                                 ELSE snapshot' = stored /\ UNCHANGED chain
    /\ UNCHANGED <<stored, request, rejected, issued, intended, lost>>

\* What a mark makes of the record it read.
Transform(kind, record) ==
    IF kind = "stale" THEN [record EXCEPT !.stale = TRUE]
                      ELSE [record EXCEPT !.clipped = TRUE, !.stale = FALSE]

\* ... and writes the record back, marked.
WriteRecord ==
    /\ Running({"stale", "clipped"})
    /\ snapshot # Nothing
    /\ stored' = Transform(Head(chain).kind, snapshot)
    /\ Advance
    /\ UNCHANGED <<request, rejected, issued, intended, lost>>

\* Pairing and unpair replace the record in one write.
Replace ==
    /\ Running(Replacing)
    /\ stored' = Fresh(Head(chain).token)
    /\ intended' = Head(chain).token
    /\ Advance
    /\ UNCHANGED <<request, rejected, issued, lost>>

\* A storage call of the running write rejects; the next one starts all the same.
Fail ==
    /\ chain # <<>>
    /\ Advance
    /\ lost' = TRUE
    /\ UNCHANGED <<stored, request, rejected, issued, intended>>

\* The worker is evicted, and the chain and every request in flight with it.
Evict ==
    /\ chain' = <<>>
    /\ snapshot' = Nothing
    /\ request' = [r \in Requests |->
                      IF request[r].pc = "new" THEN request[r]
                                               ELSE [request[r] EXCEPT !.pc = "done"]]
    /\ lost' = TRUE
    /\ UNCHANGED <<stored, rejected, issued, intended>>

Next ==
    \/ \E t \in Tokens : Pair(t) \/ Revoke(t)
    \/ Unpair
    \/ \E r \in Requests : Send(r) \/ Answer(r) \/ Mark(r)
    \/ ReadRecord
    \/ WriteRecord
    \/ Replace
    \/ Fail
    \/ Evict

Spec == Init /\ [][Next]_vars

\* Storage calls settle and an answered request goes on to its mark; nobody has
\* to pair, unpair or ask anything.
Fairness ==
    /\ WF_vars(ReadRecord \/ WriteRecord \/ Replace)
    /\ \A r \in Requests : WF_vars(Mark(r))

----------------------------------------------------------------------------
\* Whatever requests were in flight, the connection stored is the one the
\* latest pairing or unpair to be written left: no mark brings a replaced token
\* back, or a removed connection (connection-store.ts:30-39, "silently
\* reverted to the dead one").
LastGestureWins == stored.token = intended

\* What a write makes of the record; where nobody is paired there is nothing to mark.
Edited(op, record) ==
    IF op.kind \in Replacing THEN Fresh(op.token)
    ELSE IF record.token = NoToken THEN record ELSE Transform(op.kind, record)

\* Pairing, unpair and the marks take effect in the order in which they were linked,
\* each whole and on the record as the one before it left it (the promise of
\* SerialStore; connection-store.ts:22-49).
Serial == INSTANCE SerialStore
          WITH Edits <- Writes, Values <- Records, Result <- Edited,
               value <- stored, pending <- chain

ImplementsSerialStore == Serial!SerialSpec

\* Marks are not lost to each other: while a connection stands, that a clip has
\* succeeded stays known, whatever 401 arrives with it (connection-store.ts:26-29).
NoMarkLost ==
    [][stored.clipped /\ stored'.token = stored.token => stored'.clipped]_vars

\* A 401 is shown: the connection it was given for comes to be called stale, or
\* another one has taken its place, unless a write was lost on the way
\* (service-worker.ts:1188-1215, "the one place a 401 is noticed").  Of the replies
\* that carry the reason themselves: those that nest it are Answers'.
RejectionShows ==
    \A r \in Requests :
        request[r].pc = "unauthorized"
            ~> (stored.stale \/ stored.token # request[r].token \/ lost)
=============================================================================
