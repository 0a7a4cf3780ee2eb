----------------------- MODULE ConnectionStore_proofs -----------------------
(***************************************************************************)
(* Who wins among the writers of the connection record, for any tokens,    *)
(* any requests and a chain of any length.                                 *)
(***************************************************************************)
EXTENDS ConnectionStore, TLAPS

\* A running mark has read what the record still is: nobody else writes
\* between its read and its write.
SnapshotIsCurrent ==
    snapshot # Nothing =>
        /\ snapshot = stored
        /\ chain # <<>>
        /\ Head(chain).kind \notin Replacing

\* The record that stands for no connection carries no marks.
NothingIsBlank == stored.token = NoToken => stored = Nothing

\* A pairing on the chain brings a token that has been issued, and neither
\* stored nor linked before.
PairingsAreFresh ==
    /\ stored.token \in issued \union {NoToken}
    /\ \A i \in 1 .. Len(chain) :
          /\ chain[i].kind = "clear" => chain[i].token = NoToken
          /\ chain[i].kind = "set" => /\ chain[i].token \in issued
                                      /\ chain[i].token # stored.token
    /\ \A i, j \in 1 .. Len(chain) :
          /\ chain[i].kind = "set" /\ chain[j].kind = "set"
          /\ chain[i].token = chain[j].token
          => i = j

IInv ==
    /\ TypeOK
    /\ LastGestureWins
    /\ SnapshotIsCurrent
    /\ NothingIsBlank
    /\ PairingsAreFresh

\* Linking a write behind a chain of others keeps every old position.
LEMMA AppendPositions ==
    ASSUME NEW S, NEW s \in Seq(S), NEW e \in S
    PROVE  /\ Append(s, e) \in Seq(S)
           /\ Append(s, e) # <<>>
           /\ Len(s) \in Nat
           /\ Len(Append(s, e)) = Len(s) + 1
           /\ \A i \in 1 .. Len(s) : Append(s, e)[i] = s[i]
           /\ Append(s, e)[Len(s) + 1] = e
           /\ s # <<>> => Head(Append(s, e)) = Head(s)
  <1>1. /\ Append(s, e) \in Seq(S)
        /\ Len(s) \in Nat
        /\ Len(Append(s, e)) = Len(s) + 1
        /\ \A i \in 1 .. Len(s) : Append(s, e)[i] = s[i]
        /\ Append(s, e)[Len(s) + 1] = e
    OBVIOUS
  <1>2. Append(s, e) # <<>>
    BY <1>1
  <1>3. ASSUME s # <<>> PROVE Head(Append(s, e)) = Head(s)
    <2>1. 1 \in 1 .. Len(s) /\ Head(s) = s[1]
      BY <1>3
    <2>2. Head(Append(s, e)) = Append(s, e)[1]
      BY <1>1, <1>2
    <2> QED BY <1>1, <2>1, <2>2
  <1> QED BY <1>1, <1>2, <1>3

\* Dropping the head shifts every other position down by one.
LEMMA TailPositions ==
    ASSUME NEW S, NEW s \in Seq(S), s # <<>>
    PROVE  /\ Len(s) \in Nat \ {0}
           /\ Head(s) = s[1]
           /\ Head(s) \in S
           /\ Tail(s) \in Seq(S)
           /\ Len(Tail(s)) = Len(s) - 1
           /\ \A i \in 1 .. Len(Tail(s)) : Tail(s)[i] = s[i + 1]
  OBVIOUS

\* The record of no connection, and of a fresh one, is a record.
LEMMA FreshIsRecord ==
    /\ Nothing \in Records
    /\ \A t \in Tokens \union {NoToken} :
          Fresh(t) \in Records /\ Fresh(t).token = t /\ ~Fresh(t).clipped
  BY DEF Nothing, Fresh, Records

\* At start nobody is paired and nothing is linked.
LEMMA InitInv == Init => IInv
  <1> SUFFICES ASSUME Init PROVE IInv
    OBVIOUS
  <1>1. stored = Nothing /\ snapshot = Nothing /\ chain = <<>> /\ Len(chain) = 0
    BY DEF Init
  <1>2. stored.token = NoToken
    BY <1>1 DEF Nothing, Fresh
  <1>3. TypeOK
    <2>1. stored \in Records /\ snapshot \in Records /\ chain \in Seq(Writes)
      BY <1>1, FreshIsRecord
    <2>2. /\ rejected \subseteq issued /\ issued \subseteq Tokens
          /\ intended \in Tokens \union {NoToken} /\ lost \in BOOLEAN
          /\ request \in [Requests -> [pc    : {"new", "sent", "ok", "unauthorized", "done"},
                                       token : Tokens \union {NoToken}]]
      BY DEF Init
    <2> QED BY <2>1, <2>2 DEF TypeOK
  <1>4. LastGestureWins /\ SnapshotIsCurrent /\ NothingIsBlank
    BY <1>1, <1>2 DEF Init, LastGestureWins, SnapshotIsCurrent, NothingIsBlank
  <1>5. PairingsAreFresh
    BY <1>1, <1>2 DEF PairingsAreFresh
  <1> QED BY <1>3, <1>4, <1>5 DEF IInv

\* A mark that joins the chain disturbs nothing.
LEMMA LinkMark ==
    ASSUME IInv, NEW op \in Writes, op.kind \notin Replacing, Enqueue(op),
           UNCHANGED <<stored, snapshot, issued, intended>>
    PROVE  /\ chain' \in Seq(Writes)
           /\ LastGestureWins' /\ SnapshotIsCurrent' /\ NothingIsBlank'
           /\ PairingsAreFresh'
  <1>1. /\ chain' \in Seq(Writes) /\ chain' # <<>>
        /\ Len(chain) \in Nat /\ Len(chain') = Len(chain) + 1
        /\ \A i \in 1 .. Len(chain) : chain'[i] = chain[i]
        /\ chain'[Len(chain) + 1] = op
        /\ chain # <<>> => Head(chain') = Head(chain)
    BY AppendPositions DEF IInv, TypeOK, Enqueue
  <1>2. LastGestureWins' /\ SnapshotIsCurrent' /\ NothingIsBlank'
    BY <1>1 DEF IInv, LastGestureWins, SnapshotIsCurrent, NothingIsBlank
  <1>3. op.kind # "set" /\ op.kind # "clear"
    BY DEF Replacing
  <1>4. PairingsAreFresh'
    BY <1>1, <1>3 DEF IInv, PairingsAreFresh
  <1> QED BY <1>1, <1>2, <1>4

\* The head link is through, whatever it did with a token that is not linked
\* behind it: the pairings behind it are as fresh as they were.
LEMMA AdvanceInv ==
    ASSUME IInv, chain # <<>>, Advance, UNCHANGED issued,
           \/ stored'.token = stored.token
           \/ /\ Head(chain).kind \in Replacing
              /\ stored'.token = Head(chain).token
    PROVE  /\ chain' \in Seq(Writes)
           /\ snapshot' = Nothing
           /\ SnapshotIsCurrent'
           /\ PairingsAreFresh'
  <1>1. /\ chain' \in Seq(Writes)
        /\ Len(chain) \in Nat \ {0}
        /\ Head(chain) = chain[1]
        /\ Len(chain') = Len(chain) - 1
        /\ \A i \in 1 .. Len(chain') : chain'[i] = chain[i + 1]
    BY TailPositions DEF IInv, TypeOK, Advance
  <1>2. snapshot' = Nothing /\ SnapshotIsCurrent'
    BY DEF Advance, SnapshotIsCurrent
  <1>3. \A i \in 1 .. Len(chain') : i + 1 \in 1 .. Len(chain) /\ i + 1 # 1
    BY <1>1
  <1>4. stored'.token \in issued \union {NoToken}
    BY <1>1 DEF IInv, PairingsAreFresh, Replacing
  <1>5. ASSUME NEW i \in 1 .. Len(chain'), chain'[i].kind = "set"
        PROVE  chain'[i].token # stored'.token
    <2>1. /\ chain[i + 1].kind = "set"
          /\ i + 1 \in 1 .. Len(chain) /\ 1 \in 1 .. Len(chain) /\ i + 1 # 1
      BY <1>1, <1>3, <1>5
    <2>2. chain[i + 1].token # stored.token /\ chain[i + 1].token \in issued
      BY <2>1 DEF IInv, PairingsAreFresh
    <2>3. CASE stored'.token = stored.token
      BY <1>1, <2>2, <2>3
    <2>4. CASE Head(chain).kind = "set" /\ stored'.token = Head(chain).token
      <3>1. chain[1].token # chain[i + 1].token
        BY <1>1, <2>1, <2>4 DEF IInv, PairingsAreFresh
      <3> QED BY <1>1, <2>4, <3>1
    <2>5. CASE Head(chain).kind = "clear" /\ stored'.token = Head(chain).token
      <3>1. stored'.token = NoToken
        BY <1>1, <2>1, <2>5 DEF IInv, PairingsAreFresh
      <3>2. chain[i + 1].token # NoToken
        BY <2>2, ConnectionAssumption DEF IInv, TypeOK
      <3> QED BY <1>1, <3>1, <3>2
    <2> QED BY <2>3, <2>4, <2>5 DEF Replacing
  <1>6. \A i \in 1 .. Len(chain') :
           /\ chain'[i].kind = "clear" => chain'[i].token = NoToken
           /\ chain'[i].kind = "set" => chain'[i].token \in issued
    BY <1>1, <1>3 DEF IInv, PairingsAreFresh
  <1>7. ASSUME NEW i \in 1 .. Len(chain'), NEW j \in 1 .. Len(chain'),
               chain'[i].kind = "set", chain'[j].kind = "set",
               chain'[i].token = chain'[j].token
        PROVE  i = j
    <2>1. /\ i + 1 \in 1 .. Len(chain) /\ j + 1 \in 1 .. Len(chain)
          /\ chain'[i] = chain[i + 1] /\ chain'[j] = chain[j + 1]
      BY <1>1, <1>3
    <2>2. i + 1 = j + 1
      BY <1>7, <2>1 DEF IInv, PairingsAreFresh
    <2> QED BY <2>2
  <1>8. PairingsAreFresh'
    BY <1>4, <1>5, <1>6, <1>7 DEF PairingsAreFresh
  <1> QED BY <1>1, <1>2, <1>8

\* A pairing's token is new, so nothing on the chain and nothing stored has it.
LEMMA PairInv ==
    ASSUME IInv, NEW t \in Tokens, Pair(t)
    PROVE  IInv'
  <1> DEFINE op == Op("set", t)
  <1>1. op \in Writes /\ op.kind = "set" /\ op.token = t
    BY DEF Op, Writes
  <1>2. /\ chain' \in Seq(Writes) /\ chain' # <<>>
        /\ Len(chain) \in Nat /\ Len(chain') = Len(chain) + 1
        /\ \A i \in 1 .. Len(chain) : chain'[i] = chain[i]
        /\ chain'[Len(chain) + 1] = op
        /\ chain # <<>> => Head(chain') = Head(chain)
    BY <1>1, AppendPositions DEF IInv, TypeOK, Enqueue, Pair
  <1>3. t \notin issued /\ issued' = issued \union {t} /\ t # NoToken
    BY ConnectionAssumption DEF Pair
  <1>4. TypeOK'
    BY <1>2 DEF IInv, TypeOK, Pair
  <1>5. LastGestureWins' /\ SnapshotIsCurrent' /\ NothingIsBlank'
    BY <1>2 DEF IInv, LastGestureWins, SnapshotIsCurrent, NothingIsBlank, Pair
  <1>6. t # stored.token /\ stored' = stored
    BY <1>3 DEF IInv, PairingsAreFresh, Pair
  <1>7. \A i \in 1 .. Len(chain) : chain[i].kind = "set" => chain[i].token # t
    BY <1>3 DEF IInv, PairingsAreFresh
  <1>8. PairingsAreFresh'
    <2> HIDE DEF op
    <2>1. \A i \in 1 .. Len(chain') : i \in 1 .. Len(chain) \/ i = Len(chain) + 1
      BY <1>2
    <2>2. stored'.token \in issued' \union {NoToken}
      BY <1>3, <1>6 DEF IInv, PairingsAreFresh
    <2>3. \A i \in 1 .. Len(chain') :
             /\ chain'[i].kind = "clear" => chain'[i].token = NoToken
             /\ chain'[i].kind = "set" => /\ chain'[i].token \in issued'
                                          /\ chain'[i].token # stored'.token
      BY <1>1, <1>2, <1>3, <1>6, <2>1 DEF IInv, PairingsAreFresh
    <2>4. \A i, j \in 1 .. Len(chain') :
             /\ chain'[i].kind = "set" /\ chain'[j].kind = "set"
             /\ chain'[i].token = chain'[j].token
             => i = j
      BY <1>1, <1>2, <1>7, <2>1 DEF IInv, PairingsAreFresh
    <2> QED BY <2>2, <2>3, <2>4 DEF PairingsAreFresh
  <1> QED BY <1>4, <1>5, <1>8 DEF IInv

\* An unpair joins the chain.
LEMMA UnpairInv ==
    ASSUME IInv, Unpair
    PROVE  IInv'
  <1> DEFINE op == Op("clear", NoToken)
  <1>1. op \in Writes /\ op.kind = "clear" /\ op.token = NoToken
    BY DEF Op, Writes
  <1>2. /\ chain' \in Seq(Writes) /\ chain' # <<>>
        /\ Len(chain) \in Nat /\ Len(chain') = Len(chain) + 1
        /\ \A i \in 1 .. Len(chain) : chain'[i] = chain[i]
        /\ chain'[Len(chain) + 1] = op
        /\ chain # <<>> => Head(chain') = Head(chain)
    BY <1>1, AppendPositions DEF IInv, TypeOK, Enqueue, Unpair
  <1>3. TypeOK'
    BY <1>2 DEF IInv, TypeOK, Unpair
  <1>4. LastGestureWins' /\ SnapshotIsCurrent' /\ NothingIsBlank'
    BY <1>2 DEF IInv, LastGestureWins, SnapshotIsCurrent, NothingIsBlank, Unpair
  <1>5. PairingsAreFresh'
    <2> HIDE DEF op
    <2>1. stored' = stored /\ issued' = issued
      BY DEF Unpair
    <2> QED BY <1>1, <1>2, <2>1 DEF IInv, PairingsAreFresh
  <1> QED BY <1>3, <1>4, <1>5 DEF IInv

\* What a running mark writes is a record with the token it read.
LEMMA TransformKeepsToken ==
    ASSUME NEW r \in Records, NEW kind
    PROVE  /\ Transform(kind, r) \in Records
           /\ Transform(kind, r).token = r.token
           /\ r.clipped => Transform(kind, r).clipped
  BY DEF Transform, Records

\* Every step of the writers, the requests and the gateway keeps the invariant.
LEMMA StepInv == IInv /\ [Next]_vars => IInv'
  <1> SUFFICES ASSUME IInv, [Next]_vars PROVE IInv'
    OBVIOUS
  <1> USE DEF IInv
  <1>1. ASSUME NEW t \in Tokens, Pair(t) PROVE IInv'
    BY <1>1, PairInv
  <1>2. ASSUME NEW t \in Tokens, Revoke(t) PROVE IInv'
    BY <1>2 DEF Revoke, TypeOK, LastGestureWins, SnapshotIsCurrent, NothingIsBlank,
                PairingsAreFresh
  <1>3. CASE Unpair
    BY <1>3, UnpairInv
  <1>4. ASSUME NEW r \in Requests, Send(r) PROVE IInv'
    <2>1. TypeOK'
      BY <1>4 DEF Send, TypeOK, Records
    <2> QED BY <1>4, <2>1 DEF Send, LastGestureWins, SnapshotIsCurrent, NothingIsBlank,
                              PairingsAreFresh
  <1>5. ASSUME NEW r \in Requests, Answer(r) PROVE IInv'
    <2>1. TypeOK'
      BY <1>5 DEF Answer, TypeOK
    <2> QED BY <1>5, <2>1 DEF Answer, LastGestureWins, SnapshotIsCurrent,
                              NothingIsBlank, PairingsAreFresh
  <1>6. ASSUME NEW r \in Requests, Mark(r) PROVE IInv'
    <2>1. \A k \in {"stale", "clipped"} :
             Op(k, NoToken) \in Writes /\ Op(k, NoToken).kind \notin Replacing
      BY DEF Op, Writes, Replacing
    <2>2. UNCHANGED <<stored, snapshot, rejected, issued, intended, lost>>
      BY <1>6 DEF Mark
    <2>3. /\ chain' \in Seq(Writes)
          /\ LastGestureWins' /\ SnapshotIsCurrent' /\ NothingIsBlank'
          /\ PairingsAreFresh'
      <3>1. CASE Enqueue(Op("stale", NoToken))
        BY <2>1, <2>2, <3>1, LinkMark
      <3>2. CASE Enqueue(Op("clipped", NoToken))
        BY <2>1, <2>2, <3>2, LinkMark
      <3>3. CASE UNCHANGED chain
        BY <2>2, <3>3 DEF TypeOK, LastGestureWins, SnapshotIsCurrent, NothingIsBlank,
                          PairingsAreFresh
      <3> QED BY <1>6, <3>1, <3>2, <3>3 DEF Mark
    <2>4. TypeOK'
      BY <1>6, <2>2, <2>3 DEF Mark, TypeOK
    <2> QED BY <2>3, <2>4
  <1>7. CASE ReadRecord
    <2>1. UNCHANGED <<stored, request, rejected, issued, intended, lost>>
      BY <1>7 DEF ReadRecord
    <2>2. LastGestureWins' /\ NothingIsBlank'
      BY <2>1 DEF LastGestureWins, NothingIsBlank
    <2>3. CASE stored.token = NoToken
      <3>1. chain # <<>> /\ Advance
        BY <1>7, <2>3 DEF ReadRecord, Running
      <3>2. /\ chain' \in Seq(Writes) /\ snapshot' = Nothing
            /\ SnapshotIsCurrent' /\ PairingsAreFresh'
        BY <2>1, <3>1, AdvanceInv
      <3>3. TypeOK'
        BY <2>1, <3>2, FreshIsRecord DEF TypeOK
      <3> QED BY <2>2, <3>2, <3>3
    <2>4. CASE stored.token # NoToken
      <3>1. snapshot' = stored /\ chain' = chain /\ chain # <<>>
        BY <1>7, <2>4 DEF ReadRecord, Running
      <3>2. Head(chain).kind \notin Replacing
        BY <1>7 DEF ReadRecord, Running, Replacing
      <3>3. TypeOK'
        BY <2>1, <3>1 DEF TypeOK
      <3>4. SnapshotIsCurrent' /\ PairingsAreFresh'
        BY <2>1, <3>1, <3>2 DEF SnapshotIsCurrent, PairingsAreFresh
      <3> QED BY <2>2, <3>3, <3>4
    <2> QED BY <2>3, <2>4
  <1>8. CASE WriteRecord
    <2>1. /\ chain # <<>> /\ Advance /\ snapshot = stored
          /\ stored' = Transform(Head(chain).kind, stored)
          /\ UNCHANGED <<request, rejected, issued, intended, lost>>
      BY <1>8 DEF WriteRecord, Running, SnapshotIsCurrent
    <2>2. stored' \in Records /\ stored'.token = stored.token
      BY <2>1, TransformKeepsToken DEF TypeOK
    <2>3. /\ chain' \in Seq(Writes) /\ snapshot' = Nothing
          /\ SnapshotIsCurrent' /\ PairingsAreFresh'
      BY <2>1, <2>2, AdvanceInv
    <2>4. TypeOK'
      BY <2>1, <2>2, <2>3, FreshIsRecord DEF TypeOK
    <2>5. stored.token # NoToken
      BY <1>8, <2>1 DEF WriteRecord, NothingIsBlank
    <2> QED BY <2>1, <2>2, <2>3, <2>4, <2>5 DEF LastGestureWins, NothingIsBlank
  <1>9. CASE Replace
    <2>1. /\ chain # <<>> /\ Advance /\ Head(chain).kind \in Replacing
          /\ stored' = Fresh(Head(chain).token)
          /\ intended' = Head(chain).token
          /\ UNCHANGED <<request, rejected, issued, lost>>
      BY <1>9 DEF Replace, Running
    <2>2. Head(chain).token \in Tokens \union {NoToken}
      <3>1. Head(chain) \in Writes
        BY <2>1, TailPositions DEF TypeOK
      <3> QED BY <3>1 DEF Writes
    <2>3. stored' \in Records /\ stored'.token = Head(chain).token
      BY <2>1, <2>2, FreshIsRecord
    <2>4. /\ chain' \in Seq(Writes) /\ snapshot' = Nothing
          /\ SnapshotIsCurrent' /\ PairingsAreFresh'
      BY <2>1, <2>3, AdvanceInv
    <2>5. TypeOK'
      BY <2>1, <2>2, <2>3, <2>4, FreshIsRecord DEF TypeOK
    <2>6. NothingIsBlank'
      BY <2>1, <2>3 DEF NothingIsBlank, Nothing
    <2> QED BY <2>1, <2>3, <2>4, <2>5, <2>6 DEF LastGestureWins
  <1>10. CASE Fail
    <2>1. /\ chain # <<>> /\ Advance /\ lost' = TRUE
          /\ UNCHANGED <<stored, request, rejected, issued, intended>>
      BY <1>10 DEF Fail
    <2>2. /\ chain' \in Seq(Writes) /\ snapshot' = Nothing
          /\ SnapshotIsCurrent' /\ PairingsAreFresh'
      BY <2>1, AdvanceInv
    <2>3. TypeOK'
      BY <2>1, <2>2, FreshIsRecord DEF TypeOK
    <2> QED BY <2>1, <2>2, <2>3 DEF LastGestureWins, NothingIsBlank
  <1>11. CASE Evict
    <2>1. /\ chain' = <<>> /\ snapshot' = Nothing /\ lost' = TRUE
          /\ UNCHANGED <<stored, rejected, issued, intended>>
      BY <1>11 DEF Evict
    <2>2. TypeOK'
      BY <1>11, <2>1, FreshIsRecord DEF TypeOK, Evict
    <2> QED BY <2>1, <2>2 DEF LastGestureWins, SnapshotIsCurrent, NothingIsBlank,
                              PairingsAreFresh
  <1>12. CASE UNCHANGED vars
    BY <1>12 DEF TypeOK, LastGestureWins, SnapshotIsCurrent, NothingIsBlank,
                 PairingsAreFresh, vars
  <1> QED BY <1>1, <1>2, <1>3, <1>4, <1>5, <1>6, <1>7, <1>8, <1>9, <1>10, <1>11, <1>12
          DEF Next

\* The invariant holds throughout.
LEMMA SpecInv == Spec => []IInv
  BY InitInv, StepInv, PTL DEF Spec

\* Whatever is linked, read and written keeps its type; in particular a mark
\* leaves a whole record (connection-store.ts:51-66).
THEOREM TypeCorrect == Spec => []TypeOK
  <1>1. IInv => TypeOK
    BY DEF IInv
  <1> QED BY <1>1, SpecInv, PTL

\* However many requests are answered while users pair and unpair, the stored
\* connection is the one the latest gesture left (connection-store.ts:22-49).
THEOREM LastGestureHolds == Spec => []LastGestureWins
  <1>1. IInv => LastGestureWins
    BY DEF IInv
  <1> QED BY <1>1, SpecInv, PTL

\* One step from the invariant does not lose the mark of a successful clip
\* while the connection stands: marks read what is current, and a pairing never
\* brings the token back that is stored.
LEMMA StepKeepsMark ==
    IInv /\ [Next]_vars =>
        [stored.clipped /\ stored'.token = stored.token => stored'.clipped]_vars
  <1> SUFFICES ASSUME IInv, Next, stored.clipped, stored'.token = stored.token
               PROVE  stored'.clipped
    OBVIOUS
  <1> USE DEF IInv
  <1>1. CASE UNCHANGED stored
    BY <1>1
  <1>2. CASE WriteRecord
    <2>1. snapshot = stored /\ stored' = Transform(Head(chain).kind, stored)
      BY <1>2 DEF WriteRecord, SnapshotIsCurrent
    <2> QED BY <2>1, TransformKeepsToken DEF TypeOK
  <1>3. CASE Replace
    <2>1. /\ chain # <<>> /\ Head(chain).kind \in Replacing
          /\ stored' = Fresh(Head(chain).token)
      BY <1>3 DEF Replace, Running
    <2>2. Head(chain) = chain[1] /\ 1 \in 1 .. Len(chain) /\ Head(chain) \in Writes
      BY <2>1, TailPositions DEF TypeOK
    <2>3. stored'.token = Head(chain).token
      BY <2>1 DEF Fresh
    <2>4. Head(chain).kind = "clear" /\ stored.token = NoToken
      BY <2>1, <2>2, <2>3 DEF PairingsAreFresh, Replacing
    <2>5. ~stored.clipped
      BY <2>4 DEF NothingIsBlank, Nothing, Fresh
    <2> QED BY <2>5
  <1> QED BY <1>1, <1>2, <1>3
          DEF Next, Pair, Revoke, Unpair, Send, Answer, Mark, ReadRecord, Fail, Evict

\* That a clip has succeeded stays known while its connection stands, whatever
\* 401 is marked at the same time (connection-store.ts:26-29).
THEOREM NoMarkLostHolds == Spec => NoMarkLost
  BY SpecInv, StepKeepsMark, PTL DEF Spec, NoMarkLost

----------------------------------------------------------------------------
\* Whatever joins the chain joins it as a write of the serial store.
LEMMA LinkRefines ==
    ASSUME NEW op \in Writes, Enqueue(op), UNCHANGED stored
    PROVE  Serial!SerialNext
  BY DEF Enqueue, Serial!SerialNext, Serial!Link

\* Each step of the writers, the requests and the gateway is a step of the serial
\* store, or one that it cannot see.
LEMMA StepRefines == IInv /\ [Next]_vars => [Serial!SerialNext]_(Serial!serial)
  <1> SUFFICES ASSUME IInv, [Next]_vars
               PROVE  [Serial!SerialNext]_(Serial!serial)
    OBVIOUS
  <1>1. ASSUME NEW t \in Tokens, Pair(t) PROVE Serial!SerialNext
    <2>1. Op("set", t) \in Writes
      BY DEF Op, Writes
    <2> QED BY <1>1, <2>1, LinkRefines DEF Pair
  <1>2. CASE Unpair
    <2>1. Op("clear", NoToken) \in Writes
      BY DEF Op, Writes
    <2> QED BY <1>2, <2>1, LinkRefines DEF Unpair
  <1>3. ASSUME NEW r \in Requests, Mark(r)
        PROVE  [Serial!SerialNext]_(Serial!serial)
    <2>1. \A k \in {"stale", "clipped"} : Op(k, NoToken) \in Writes
      BY DEF Op, Writes
    <2>2. CASE UNCHANGED chain
      BY <1>3, <2>2 DEF Mark, Serial!serial
    <2>3. CASE \E k \in {"stale", "clipped"} : Enqueue(Op(k, NoToken))
      BY <1>3, <2>1, <2>3, LinkRefines DEF Mark
    <2> QED BY <1>3, <2>2, <2>3 DEF Mark
  <1>4. CASE ReadRecord
    <2>1. CASE stored.token = NoToken
      <3>1. chain # <<>> /\ chain' = Tail(chain) /\ UNCHANGED stored
        BY <1>4, <2>1 DEF ReadRecord, Running, Advance
      <3> QED BY <3>1 DEF Serial!SerialNext, Serial!Drop
    <2>2. CASE stored.token # NoToken
      BY <1>4, <2>2 DEF ReadRecord, Serial!serial
    <2> QED BY <2>1, <2>2
  <1>5. CASE WriteRecord
    <2>1. /\ chain # <<>> /\ chain' = Tail(chain) /\ Head(chain).kind \notin Replacing
          /\ stored' = Transform(Head(chain).kind, snapshot)
          /\ snapshot = stored /\ stored # Nothing
      BY <1>5 DEF WriteRecord, Running, Advance, Replacing, IInv, SnapshotIsCurrent
    <2>2. stored.token # NoToken
      BY <2>1 DEF IInv, NothingIsBlank
    <2>3. stored' = Edited(Head(chain), stored)
      BY <2>1, <2>2 DEF Edited
    <2> QED BY <2>1, <2>3 DEF Serial!SerialNext, Serial!Land
  <1>6. CASE Replace
    <2>1. /\ chain # <<>> /\ chain' = Tail(chain)
          /\ stored' = Edited(Head(chain), stored)
      BY <1>6 DEF Replace, Running, Advance, Edited
    <2> QED BY <2>1 DEF Serial!SerialNext, Serial!Land
  <1>7. CASE Fail
    BY <1>7 DEF Fail, Advance, Serial!SerialNext, Serial!Drop
  <1>8. CASE Evict
    BY <1>8 DEF Evict, Serial!SerialNext, Serial!Lose
  <1>9. CASE UNCHANGED <<stored, chain>>
    BY <1>9 DEF Serial!serial
  <1> QED BY <1>1, <1>2, <1>3, <1>4, <1>5, <1>6, <1>7, <1>8, <1>9
          DEF Next, Revoke, Send, Answer, vars

\* The chain of the connection record is a serial store: no write acts on a record
\* that another has changed since, and none overtakes another.
THEOREM ConnectionIsSerial == Spec => ImplementsSerialStore
  <1>1. Init => Serial!SerialInit
    BY FreshIsRecord DEF Init, Serial!SerialInit
  <1> QED BY <1>1, StepRefines, SpecInv, PTL
          DEF Spec, ImplementsSerialStore, Serial!SerialSpec
=============================================================================
