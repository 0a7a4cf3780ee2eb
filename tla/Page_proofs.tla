---------------------------- MODULE Page_proofs ----------------------------
(***************************************************************************)
(* What holds of the page's parts for any value of their constants.        *)
(*                                                                         *)
(* Each invariant is of one part (which), says nothing of a behaviour of   *)
(* another, and is kept since a step of the page is one of its part or     *)
(* leaves that part's variables alone.                                     *)
(***************************************************************************)
EXTENDS Page, SequenceTheorems, FiniteSetTheorems, TLAPS

----------------------------------------------------------------------------
(* The Options page's surfaces.                                            *)

Kinds == {"load", "add", "remove", "grant", "revoke"}
Stages == {"asked", "removed", "linked", "refresh", "built-in", "own"}
Seen == [ambient : SUBSET O!Patterns, access : SUBSET O!Rows]
Handlers == [n : Nat, kind : Kinds, row : O!Rows \union {"none"}, pc : Stages, seen : Seen]
OriginLinks == [n : Nat, row : O!Rows, on : BOOLEAN]
AmbientLinks == [n : Nat, pattern : O!Patterns, on : BOOLEAN, late : BOOLEAN]

OptionsType ==
    /\ granted \in SUBSET O!Patterns /\ ambient \in SUBSET O!Patterns
    /\ origins \in SUBSET O!Rows
    /\ chains \in [origins : Seq(OriginLinks), ambient : Seq(AmbientLinks)]
    /\ tasks \in SUBSET Handlers
    /\ DOMAIN screen \subseteq O!Rows
    /\ clicks \in Nat

\* A handler is where its kind can be, and of a row unless it loads the page.
HandlerFits(t) ==
    /\ t.pc = "removed" => t.kind = "revoke"
    /\ t.pc = "linked" => t.kind \in {"add", "remove", "revoke"}
    /\ t.kind # "load" => t.row \in O!Rows /\ t.n < clicks

\* A gesture is one handler's at most.
HandlersDiffer ==
    /\ \A t \in tasks : HandlerFits(t)
    /\ \A t, u \in tasks : t.kind # "load" /\ u.kind # "load" /\ t.n = u.n => t = u

\* The origins' chain has the links of handlers that add or remove a row.
OriginsFit ==
    \A i \in 1 .. Len(chains.origins) :
        /\ chains.origins[i].n < clicks
        /\ \A t \in tasks : t.kind # "load" /\ t.n = chains.origins[i].n => t.kind \in {"add", "remove"}

\* A gesture is one link's at most, and if a handler is at work for it, that is a
\* Revoke which waits for this link to switch its cue off.
LinkFits(i) ==
    LET link == chains.ambient[i]
    IN  /\ link.n < clicks
        /\ \A j \in 1 .. Len(chains.ambient) : chains.ambient[j].n = link.n => j = i
        /\ \A j \in 1 .. Len(chains.origins) : chains.origins[j].n # link.n
        /\ \A t \in tasks : t.kind # "load" /\ t.n = link.n =>
              t.kind = "revoke" /\ t.pc = "linked" /\ ~link.on /\ link.pattern = PatternOf[t.row]
AmbientFits == \A i \in 1 .. Len(chains.ambient) : LinkFits(i)

GesturesDiffer == HandlersDiffer /\ OriginsFit /\ AmbientFits

\* A Revoke of the pattern has not switched its cue off yet, and will not before the
\* link at i.
Pending(t, pattern, i) ==
    /\ t.kind = "revoke" /\ PatternOf[t.row] = pattern
    /\ \/ t.pc = "removed"
       \/ t.pc = "linked" /\ \E j \in 1 .. Len(chains.ambient) : j > i /\ chains.ambient[j].n = t.n

\* Where a cue is on without access a Revoke comes after.
CuesFollowed ==
    \A pattern \in ambient \ granted :
        pattern \in excused \/ \E t \in tasks : Pending(t, pattern, 0)

\* So does one where a link made with access is about to switch it on without.
LinksFollowed ==
    \A i \in 1 .. Len(chains.ambient) :
        LET link == chains.ambient[i]
        IN  link.on /\ ~link.late /\ link.pattern \notin granted =>
                \E t \in tasks : Pending(t, link.pattern, i)

RevokesFollow == CuesFollowed /\ LinksFollowed

OptionsInv == OptionsType /\ GesturesDiffer /\ RevokesFollow

\* What a first-in, first-out list of links becomes.
LEMMA Queues ==
    ASSUME NEW Links, NEW q \in Seq(Links)
    PROVE  /\ Len(q) \in Nat /\ \A i \in 1 .. Len(q) : q[i] \in Links
           /\ \A link \in Links :
                 /\ Append(q, link) \in Seq(Links) /\ Len(Append(q, link)) = Len(q) + 1
                 /\ Append(q, link)[Len(q) + 1] = link
                 /\ \A i \in 1 .. Len(q) : Append(q, link)[i] = q[i]
           /\ q # <<>> =>
                 /\ Tail(q) \in Seq(Links) /\ Len(Tail(q)) = Len(q) - 1 /\ Len(q) >= 1
                 /\ Head(q) = q[1] /\ Head(q) \in Links
                 /\ \A i \in 1 .. Len(q) - 1 : Tail(q)[i] = q[i + 1]
OBVIOUS

\* A handler's fields.
LEMMA HandlerFields ==
    ASSUME NEW t \in Handlers, NEW pc \in Stages, NEW seen \in Seen
    PROVE  /\ [t EXCEPT !.pc = pc] \in Handlers
           /\ [t EXCEPT !.pc = pc].n = t.n /\ [t EXCEPT !.pc = pc].kind = t.kind
           /\ [t EXCEPT !.pc = pc].row = t.row /\ [t EXCEPT !.pc = pc].pc = pc
           /\ [t EXCEPT !.pc = pc, !.seen = seen] \in Handlers
           /\ [t EXCEPT !.pc = pc, !.seen = seen].n = t.n
           /\ [t EXCEPT !.pc = pc, !.seen = seen].kind = t.kind
           /\ [t EXCEPT !.pc = pc, !.seen = seen].row = t.row
           /\ [t EXCEPT !.pc = pc, !.seen = seen].pc = pc
BY DEF Handlers

\* A handler that a gesture starts.
LEMMA NewHandler ==
    ASSUME clicks \in Nat, NEW kind \in Kinds, NEW row \in O!Rows \union {"none"}, NEW pc \in Stages
    PROVE  /\ O!Task(kind, row, pc) \in Handlers
           /\ O!Task(kind, row, pc).n = clicks /\ O!Task(kind, row, pc).kind = kind
           /\ O!Task(kind, row, pc).row = row /\ O!Task(kind, row, pc).pc = pc
BY DEF O!Task, O!Unread, Handlers, Seen

\* A handler goes on that switches no cue off, or it has just lost the access.
LEMMA HandlerMoves ==
    ASSUME OptionsInv, NEW t \in tasks, NEW new, t.pc \notin {"removed", "linked"},
           new.n = t.n, new.kind = t.kind, new.row = t.row, new.pc # "linked",
           new.pc = "removed" => new.kind = "revoke",
           tasks' = (tasks \ {t}) \union {new},
           chains' = chains, ambient' = ambient, excused' = excused, clicks' = clicks,
           \/ granted \subseteq granted'
           \/ granted' = granted \ {PatternOf[t.row]} /\ new.pc = "removed"
    PROVE  GesturesDiffer' /\ RevokesFollow'
<1>1. GesturesDiffer'
  <2>1. \A u \in tasks' : HandlerFits(u)'
    BY DEF OptionsInv, GesturesDiffer, HandlersDiffer, HandlerFits
  <2>2. \A u, v \in tasks' : u.kind # "load" /\ v.kind # "load" /\ u.n = v.n => u = v
    BY DEF OptionsInv, GesturesDiffer, HandlersDiffer
  <2>3. \A i \in 1 .. Len(chains.origins) :
           \A u \in tasks' : u.kind # "load" /\ u.n = chains.origins[i].n => u.kind \in {"add", "remove"}
    BY DEF OptionsInv, GesturesDiffer, OriginsFit
  <2>4. \A i \in 1 .. Len(chains.ambient) :
           \A u \in tasks' : u.kind # "load" /\ u.n = chains.ambient[i].n =>
              /\ u.kind = "revoke" /\ u.pc = "linked"
              /\ ~chains.ambient[i].on /\ chains.ambient[i].pattern = PatternOf[u.row]
    BY DEF OptionsInv, GesturesDiffer, AmbientFits, LinkFits
  <2>5. QED
    <3>1. HandlersDiffer' /\ OriginsFit'
      BY <2>1, <2>2, <2>3 DEF OptionsInv, GesturesDiffer, HandlersDiffer, OriginsFit
    <3>2. AmbientFits'
      BY <2>4 DEF OptionsInv, GesturesDiffer, AmbientFits, LinkFits
    <3>3. QED
      BY <3>1, <3>2 DEF GesturesDiffer
<1>2. \A u \in tasks : \A pattern, i : Pending(u, pattern, i) => u \in tasks' /\ Pending(u, pattern, i)'
    BY DEF Pending
<1>3. \A pattern, i : pattern \notin granted' /\ pattern \in granted => Pending(new, pattern, i)'
    BY DEF Pending
<1>4. new \in tasks'
    OBVIOUS
<1>5. \A pattern \in ambient' \ granted' :
         pattern \in excused' \/ \E u \in tasks' : Pending(u, pattern, 0)'
    BY <1>2, <1>3, <1>4 DEF OptionsInv, RevokesFollow, CuesFollowed, LinksFollowed
<1>6. ASSUME NEW i \in 1 .. Len(chains.ambient), chains.ambient[i].on, ~chains.ambient[i].late,
             chains.ambient[i].pattern \notin granted'
      PROVE  \E u \in tasks' : Pending(u, chains.ambient[i].pattern, i)'
    BY <1>2, <1>3, <1>4, <1>6 DEF OptionsInv, RevokesFollow, CuesFollowed, LinksFollowed
<1>7. QED
    BY <1>1, <1>5, <1>6 DEF RevokesFollow, CuesFollowed, LinksFollowed

\* A handler ends that switches no cue off.
LEMMA HandlerEnds ==
    ASSUME OptionsInv, NEW t \in tasks, t.pc \notin {"removed", "linked"}, tasks' = tasks \ {t},
           chains' = chains, ambient' = ambient, excused' = excused, clicks' = clicks, granted' = granted
    PROVE  GesturesDiffer' /\ RevokesFollow'
<1>1. GesturesDiffer'
  <2>1. \A u \in tasks' : HandlerFits(u)'
    BY DEF OptionsInv, GesturesDiffer, HandlersDiffer, HandlerFits
  <2>2. QED
    BY <2>1 DEF OptionsInv, GesturesDiffer, HandlersDiffer, OriginsFit, AmbientFits, LinkFits
<1>2. \A u \in tasks : \A pattern, i : Pending(u, pattern, i) => u \in tasks' /\ Pending(u, pattern, i)'
    BY DEF Pending
<1>3. QED
    BY <1>1, <1>2 DEF OptionsInv, RevokesFollow, CuesFollowed, LinksFollowed

\* What is known of a link on the ambient chain.
LEMMA LinkFacts ==
    ASSUME OptionsInv, NEW i \in 1 .. Len(chains.ambient)
    PROVE  /\ chains.ambient[i] \in AmbientLinks /\ chains.ambient[i].n \in Nat
           /\ chains.ambient[i].n < clicks
           /\ \A j \in 1 .. Len(chains.ambient) : chains.ambient[j].n = chains.ambient[i].n => j = i
           /\ \A j \in 1 .. Len(chains.origins) : chains.origins[j].n # chains.ambient[i].n
           /\ \A t \in tasks : t.kind # "load" /\ t.n = chains.ambient[i].n =>
                 /\ t.kind = "revoke" /\ t.pc = "linked"
                 /\ ~chains.ambient[i].on /\ chains.ambient[i].pattern = PatternOf[t.row]
<1>1. LinkFits(i)
    BY DEF OptionsInv, GesturesDiffer, AmbientFits
<1>2. chains.ambient \in Seq(AmbientLinks)
    BY DEF OptionsInv, OptionsType
<1>3. chains.ambient[i] \in AmbientLinks
    BY <1>2, Queues
<1>4. chains.ambient[i].n \in Nat
    BY <1>3 DEF AmbientLinks
<1>5. QED
    BY <1>1, <1>3, <1>4, Zenon DEF LinkFits

\* What is known of a link on the origins' chain.
LEMMA OriginFacts ==
    ASSUME OptionsInv, NEW i \in 1 .. Len(chains.origins)
    PROVE  /\ chains.origins[i] \in OriginLinks /\ chains.origins[i].n \in Nat
           /\ chains.origins[i].n < clicks
           /\ \A t \in tasks : t.kind # "load" /\ t.n = chains.origins[i].n => t.kind \in {"add", "remove"}
<1>1. chains.origins \in Seq(OriginLinks)
    BY DEF OptionsInv, OptionsType
<1>2. chains.origins[i] \in OriginLinks
    BY <1>1, Queues
<1>3. chains.origins[i].n \in Nat
    BY <1>2 DEF OriginLinks
<1>4. QED
    BY <1>2, <1>3 DEF OptionsInv, GesturesDiffer, OriginsFit

\* A gesture starts a handler, which may have a link on the origins' chain.
LEMMA HandlerStarts ==
    ASSUME OptionsInv, NEW kind \in {"add", "remove", "grant", "revoke"}, NEW row \in O!Rows,
           NEW pc \in Stages, pc # "removed", pc = "linked" => kind \in {"add", "remove"},
           clicks' = clicks + 1, tasks' = tasks \union {O!Task(kind, row, pc)},
           chains'.ambient = chains.ambient, ambient' = ambient, excused' = excused, granted' = granted,
           \/ chains'.origins = chains.origins
           \/ /\ pc = "linked"
              /\ \E on \in BOOLEAN : chains'.origins = Append(chains.origins, [n |-> clicks, row |-> row, on |-> on])
    PROVE  GesturesDiffer' /\ RevokesFollow'
<1> DEFINE new == O!Task(kind, row, pc)
<1>1. /\ new \in Handlers /\ new.n = clicks /\ new.kind = kind /\ new.row = row /\ new.pc = pc
      /\ clicks \in Nat /\ tasks' = tasks \union {new}
    BY NewHandler DEF OptionsInv, OptionsType, Kinds
<1> HIDE DEF new
<1>2. \A t \in tasks : HandlerFits(t) /\ (t.kind # "load" => t.n # clicks)
    BY <1>1 DEF OptionsInv, GesturesDiffer, HandlersDiffer, HandlerFits
<1>3. \A t \in tasks' : HandlerFits(t)'
    BY <1>1, <1>2 DEF HandlerFits, OptionsInv, OptionsType, Handlers
<1>4. \A t, u \in tasks' : t.kind # "load" /\ u.kind # "load" /\ t.n = u.n => t = u
    BY <1>1, <1>2 DEF OptionsInv, GesturesDiffer, HandlersDiffer
<1>5. /\ chains.origins \in Seq(OriginLinks) /\ chains.ambient \in Seq(AmbientLinks)
      /\ Len(chains.origins) \in Nat /\ Len(chains.ambient) \in Nat
    BY DEF OptionsInv, OptionsType
<1>6. \A i \in 1 .. Len(chains'.origins) :
         \/ /\ i \in 1 .. Len(chains.origins) /\ chains'.origins[i] = chains.origins[i]
         \/ chains'.origins[i].n = clicks /\ pc = "linked"
  <2>1. CASE chains'.origins = chains.origins
    BY <2>1
  <2>2. ASSUME NEW on \in BOOLEAN, pc = "linked",
               chains'.origins = Append(chains.origins, [n |-> clicks, row |-> row, on |-> on])
        PROVE  \A i \in 1 .. Len(chains'.origins) :
                  \/ /\ i \in 1 .. Len(chains.origins) /\ chains'.origins[i] = chains.origins[i]
                  \/ chains'.origins[i].n = clicks
    <3> DEFINE link == [n |-> clicks, row |-> row, on |-> on]
    <3>1. link \in OriginLinks /\ link.n = clicks
      BY <1>1 DEF OriginLinks
    <3> HIDE DEF link
    <3>2. chains'.origins = Append(chains.origins, link)
      BY <2>2 DEF link
    <3>3. QED
      BY <1>5, <3>1, <3>2, Queues
  <2>3. QED
    BY <2>1, <2>2
<1>7. \A i \in 1 .. Len(chains.origins) :
         /\ chains.origins[i].n < clicks /\ chains.origins[i].n \in Nat
         /\ \A t \in tasks : t.kind # "load" /\ t.n = chains.origins[i].n => t.kind \in {"add", "remove"}
    BY OriginFacts
<1>8. \A i \in 1 .. Len(chains.ambient) :
         /\ chains.ambient[i].n < clicks /\ chains.ambient[i].n \in Nat
         /\ \A j \in 1 .. Len(chains.ambient) : chains.ambient[j].n = chains.ambient[i].n => j = i
         /\ \A j \in 1 .. Len(chains.origins) : chains.origins[j].n # chains.ambient[i].n
    BY LinkFacts
<1>9. GesturesDiffer'
  <2>1. ASSUME NEW i \in 1 .. Len(chains'.origins)
        PROVE  /\ chains'.origins[i].n < clicks'
               /\ \A t \in tasks' : t.kind # "load" /\ t.n = chains'.origins[i].n => t.kind \in {"add", "remove"}
    <3>1. CASE i \in 1 .. Len(chains.origins) /\ chains'.origins[i] = chains.origins[i]
      BY <1>1, <1>7, <3>1
    <3>2. CASE chains'.origins[i].n = clicks /\ pc = "linked"
      BY <1>1, <1>2, <3>2
    <3>3. QED
      BY <1>6, <3>1, <3>2
  <2>2. ASSUME NEW i \in 1 .. Len(chains.ambient)
        PROVE  /\ chains.ambient[i].n < clicks'
               /\ \A j \in 1 .. Len(chains'.origins) : chains'.origins[j].n # chains.ambient[i].n
    <3>1. chains.ambient[i].n < clicks'
      BY <1>1, <1>8
    <3>2. ASSUME NEW j \in 1 .. Len(chains'.origins)
          PROVE  chains'.origins[j].n # chains.ambient[i].n
      <4>1. CASE j \in 1 .. Len(chains.origins) /\ chains'.origins[j] = chains.origins[j]
        BY <1>8, <4>1
      <4>2. CASE chains'.origins[j].n = clicks
        BY <1>1, <1>8, <4>2
      <4>3. QED
        BY <1>6, <4>1, <4>2
    <3>3. QED
      BY <3>1, <3>2
  <2>3. \A i \in 1 .. Len(chains.ambient) :
           \A t \in tasks' : t.kind # "load" /\ t.n = chains.ambient[i].n =>
              /\ t.kind = "revoke" /\ t.pc = "linked"
              /\ ~chains.ambient[i].on /\ chains.ambient[i].pattern = PatternOf[t.row]
    BY <1>1, <1>8, LinkFacts
  <2>4. QED
    <3>1. HandlersDiffer' /\ OriginsFit'
      BY <1>3, <1>4, <2>1 DEF HandlersDiffer, OriginsFit
    <3>2. AmbientFits'
      BY <1>8, <2>2, <2>3 DEF AmbientFits, LinkFits
    <3>3. QED
      BY <3>1, <3>2 DEF GesturesDiffer
<1>10. \A u \in tasks : \A pattern, i : Pending(u, pattern, i) => u \in tasks' /\ Pending(u, pattern, i)'
    BY DEF Pending
<1>11. RevokesFollow'
    BY <1>10 DEF OptionsInv, RevokesFollow, CuesFollowed, LinksFollowed
<1>12. QED
    BY <1>9, <1>11

\* A link is put at the end of the ambient chain by a gesture, or by the Revoke of it.
LEMMA LinkAdded ==
    ASSUME OptionsInv, NEW n \in Nat, NEW pattern \in O!Patterns, NEW on \in BOOLEAN,
           chains' = O!mutateAmbient(O!AmbientLink(n, pattern, on))
    PROVE  /\ chains' \in [origins : Seq(OriginLinks), ambient : Seq(AmbientLinks)]
           /\ chains'.origins = chains.origins
           /\ Len(chains'.ambient) = Len(chains.ambient) + 1 /\ Len(chains.ambient) \in Nat
           /\ \A i \in 1 .. Len(chains.ambient) : chains'.ambient[i] = chains.ambient[i]
           /\ LET link == chains'.ambient[Len(chains.ambient) + 1]
              IN  link.n = n /\ link.pattern = pattern /\ link.on = on /\ link.late = (pattern \notin granted)
<1> DEFINE link == O!AmbientLink(n, pattern, on)
<1>1. (pattern \notin granted) \in BOOLEAN
    BY Zenon
<1>2. /\ link \in AmbientLinks /\ link.n = n /\ link.pattern = pattern /\ link.on = on
      /\ link.late = (pattern \notin granted)
    BY <1>1 DEF O!AmbientLink, AmbientLinks
<1> HIDE DEF link
<1>3. chains' = [chains EXCEPT !.ambient = Append(chains.ambient, link)]
    BY DEF O!mutateAmbient, link
<1>4. chains \in [origins : Seq(OriginLinks), ambient : Seq(AmbientLinks)]
    BY DEF OptionsInv, OptionsType
<1>5. chains'.ambient = Append(chains.ambient, link) /\ chains'.origins = chains.origins
    BY <1>3, <1>4
<1>6. /\ Append(chains.ambient, link) \in Seq(AmbientLinks)
      /\ Len(chains'.ambient) = Len(chains.ambient) + 1 /\ Len(chains.ambient) \in Nat
      /\ \A i \in 1 .. Len(chains.ambient) : chains'.ambient[i] = chains.ambient[i]
      /\ chains'.ambient[Len(chains.ambient) + 1] = link
    BY <1>2, <1>4, <1>5, Queues
<1>7. chains' \in [origins : Seq(OriginLinks), ambient : Seq(AmbientLinks)]
    BY <1>3, <1>4, <1>6
<1>8. QED
    BY <1>2, <1>5, <1>6, <1>7

\* A cue is ticked or unticked, in a row painted with access.
LEMMA Toggled ==
    ASSUME OptionsInv, NEW row \in O!Rows, O!onAmbientChange(row)
    PROVE  OptionsInv'
<1>1. /\ clicks' = clicks + 1 /\ row \in DOMAIN screen /\ DOMAIN screen' = DOMAIN screen
      /\ chains' = O!mutateAmbient(O!AmbientLink(clicks, PatternOf[row], ~screen[row].on))
      /\ tasks' = tasks /\ excused' = excused
      /\ granted' = granted /\ ambient' = ambient /\ origins' = origins
    BY DEF O!onAmbientChange, O!Click, O!stores
<1>2. /\ PatternOf[row] \in O!Patterns /\ clicks \in Nat
      /\ chains.ambient \in Seq(AmbientLinks) /\ chains.origins \in Seq(OriginLinks)
    BY DEF O!Patterns, OptionsInv, OptionsType
<1>3. (~screen[row].on) \in BOOLEAN
    BY Zenon
<1>4. PICK on \in BOOLEAN : chains' = O!mutateAmbient(O!AmbientLink(clicks, PatternOf[row], on))
    BY <1>1, <1>3
<1> DEFINE last == Len(chains.ambient) + 1
<1>5. chains' \in [origins : Seq(OriginLinks), ambient : Seq(AmbientLinks)]
    BY <1>2, <1>4, LinkAdded
<1>6. /\ chains'.origins = chains.origins
      /\ Len(chains'.ambient) = last /\ Len(chains.ambient) \in Nat
      /\ \A i \in 1 .. Len(chains.ambient) : chains'.ambient[i] = chains.ambient[i]
      /\ chains'.ambient[last].n = clicks /\ chains'.ambient[last].pattern = PatternOf[row]
      /\ ~chains'.ambient[last].late => PatternOf[row] \in granted
    BY <1>2, <1>4, LinkAdded
<1> HIDE DEF last
<1>7. \A i \in 1 .. last : i = last \/ i \in 1 .. Len(chains.ambient)
    BY <1>6 DEF last
<1>8. last \notin 1 .. Len(chains.ambient) /\ last \in 1 .. last /\ 1 .. Len(chains.ambient) \subseteq 1 .. last
    BY <1>6 DEF last
<1>9. OptionsType'
    BY <1>1, <1>5 DEF OptionsInv, OptionsType
<1>10. \A t \in tasks : HandlerFits(t)'
    BY <1>1, <1>2 DEF OptionsInv, OptionsType, GesturesDiffer, HandlersDiffer, HandlerFits, Handlers
<1>11. \A t \in tasks : t.kind # "load" => t.n # clicks
    BY <1>2 DEF OptionsInv, GesturesDiffer, HandlersDiffer, HandlerFits
<1>12. \A i \in 1 .. Len(chains.origins) : chains.origins[i].n < clicks' /\ chains.origins[i].n # clicks
    BY <1>1, <1>2, OriginFacts
<1>13. \A i \in 1 .. Len(chains.ambient) : chains.ambient[i].n < clicks' /\ chains.ambient[i].n # clicks
    BY <1>1, <1>2, LinkFacts
<1>14. \A i \in 1 .. last :
          /\ chains'.ambient[i].n < clicks'
          /\ \A j \in 1 .. last : chains'.ambient[j].n = chains'.ambient[i].n => j = i
          /\ \A j \in 1 .. Len(chains.origins) : chains.origins[j].n # chains'.ambient[i].n
  <2>1. clicks < clicks'
    BY <1>1, <1>2
  <2>2. \A i \in 1 .. Len(chains.ambient) :
          /\ chains'.ambient[i].n < clicks' /\ chains'.ambient[i].n # clicks
          /\ \A j \in 1 .. Len(chains.ambient) : chains'.ambient[j].n = chains'.ambient[i].n => j = i
          /\ \A j \in 1 .. Len(chains.origins) : chains.origins[j].n # chains'.ambient[i].n
    BY <1>6, <1>13, LinkFacts
  <2>3. QED
    BY <1>6, <1>7, <1>12, <2>1, <2>2
<1>15. \A i \in 1 .. last : \A t \in tasks : t.kind # "load" /\ t.n = chains'.ambient[i].n =>
          /\ t.kind = "revoke" /\ t.pc = "linked"
          /\ ~chains'.ambient[i].on /\ chains'.ambient[i].pattern = PatternOf[t.row]
  <2>1. \A i \in 1 .. Len(chains.ambient) : \A t \in tasks :
          t.kind # "load" /\ t.n = chains'.ambient[i].n =>
          /\ t.kind = "revoke" /\ t.pc = "linked"
          /\ ~chains'.ambient[i].on /\ chains'.ambient[i].pattern = PatternOf[t.row]
    BY <1>6, LinkFacts
  <2>2. QED
    BY <1>6, <1>7, <1>11, <2>1
<1>16. GesturesDiffer'
  <2>1. HandlersDiffer'
    BY <1>1, <1>10 DEF OptionsInv, GesturesDiffer, HandlersDiffer
  <2>2. OriginsFit'
    BY <1>1, <1>6, <1>12 DEF OptionsInv, GesturesDiffer, OriginsFit
  <2>3. AmbientFits'
    BY <1>1, <1>6, <1>14, <1>15 DEF AmbientFits, LinkFits
  <2>4. QED
    BY <2>1, <2>2, <2>3 DEF GesturesDiffer
<1>17. \A u \in tasks : \A pattern, i : Pending(u, pattern, i) => Pending(u, pattern, i)'
    BY <1>6, <1>8 DEF Pending
<1>18. RevokesFollow'
  <2>1. CuesFollowed'
    BY <1>1, <1>17 DEF OptionsInv, RevokesFollow, CuesFollowed
  <2>2. ASSUME NEW i \in 1 .. Len(chains.ambient), chains'.ambient[i].on, ~chains'.ambient[i].late,
               chains'.ambient[i].pattern \notin granted'
        PROVE  \E u \in tasks' : Pending(u, chains.ambient[i].pattern, i)'
    <3>1. chains'.ambient[i] = chains.ambient[i]
      BY <1>6
    <3>2. \E u \in tasks : Pending(u, chains.ambient[i].pattern, i)
      BY <1>1, <2>2, <3>1 DEF OptionsInv, RevokesFollow, LinksFollowed
    <3>3. QED
      BY <1>1, <1>17, <3>1, <3>2
  <2>3. ~chains'.ambient[last].late => chains'.ambient[last].pattern \in granted'
    BY <1>1, <1>6
  <2>4. LinksFollowed'
    <3>1. SUFFICES ASSUME NEW i \in 1 .. last, chains'.ambient[i].on, ~chains'.ambient[i].late,
                          chains'.ambient[i].pattern \notin granted'
                   PROVE  \E u \in tasks' : Pending(u, chains.ambient[i].pattern, i)'
      BY <1>6, Zenon DEF LinksFollowed
    <3>2. QED
      BY <1>7, <2>2, <2>3, <3>1
  <2>5. QED
    BY <2>1, <2>4 DEF RevokesFollow
<1>19. QED
    BY <1>9, <1>16, <1>18 DEF OptionsInv

\* A Revoke whose access is gone switches the cue off.
LEMMA SwitchedOff ==
    ASSUME OptionsInv, NEW t \in tasks, O!SwitchOff(t)
    PROVE  OptionsInv'
<1> DEFINE new == [t EXCEPT !.pc = "linked"]
<1>1. /\ t.pc = "removed" /\ tasks' = (tasks \ {t}) \union {new} /\ clicks' = clicks
      /\ chains' = O!mutateAmbient(O!AmbientLink(t.n, PatternOf[t.row], FALSE))
      /\ screen' = screen /\ excused' = excused
      /\ granted' = granted /\ ambient' = ambient /\ origins' = origins
    BY DEF O!SwitchOff, O!Becomes, O!stores
<1>2. /\ t \in Handlers /\ t.kind = "revoke" /\ t.row \in O!Rows /\ t.n < clicks /\ clicks \in Nat /\ t.n \in Nat
      /\ chains.ambient \in Seq(AmbientLinks) /\ chains.origins \in Seq(OriginLinks)
    BY <1>1 DEF OptionsInv, OptionsType, GesturesDiffer, HandlersDiffer, HandlerFits, Handlers
<1>3. /\ new \in Handlers /\ new.n = t.n /\ new.kind = t.kind /\ new.row = t.row /\ new.pc = "linked"
    BY <1>2, HandlerFields DEF Stages, Handlers
<1> HIDE DEF new
<1>4. PatternOf[t.row] \in O!Patterns
    BY <1>2 DEF O!Patterns
<1> DEFINE last == Len(chains.ambient) + 1
<1>5. chains' \in [origins : Seq(OriginLinks), ambient : Seq(AmbientLinks)]
  <2>1. FALSE \in BOOLEAN
    OBVIOUS
  <2>2. QED
    BY <1>1, <1>2, <1>4, <2>1, LinkAdded
<1>6. /\ chains'.origins = chains.origins
      /\ Len(chains'.ambient) = last /\ Len(chains.ambient) \in Nat
      /\ \A i \in 1 .. Len(chains.ambient) : chains'.ambient[i] = chains.ambient[i]
      /\ chains'.ambient[last].n = t.n /\ ~chains'.ambient[last].on
      /\ chains'.ambient[last].pattern = PatternOf[t.row]
  <2>1. FALSE \in BOOLEAN
    OBVIOUS
  <2>2. QED
    BY <1>1, <1>2, <1>4, <2>1, LinkAdded
<1> HIDE DEF last
<1>7. \A i \in 1 .. last : i = last \/ i \in 1 .. Len(chains.ambient)
    BY <1>6 DEF last
<1>8. last \notin 1 .. Len(chains.ambient) /\ last \in 1 .. last /\ 1 .. Len(chains.ambient) \subseteq 1 .. last
      /\ \A i \in 1 .. Len(chains.ambient) : last > i
    BY <1>6 DEF last
<1>9. OptionsType'
    BY <1>1, <1>3, <1>5 DEF OptionsInv, OptionsType
<1>10. \A u \in tasks' : HandlerFits(u)'
    BY <1>1, <1>2, <1>3 DEF OptionsInv, GesturesDiffer, HandlersDiffer, HandlerFits
<1>11. \A u \in tasks : u # t /\ u.kind # "load" => u.n # t.n
    BY <1>2 DEF OptionsInv, GesturesDiffer, HandlersDiffer
<1>12. \A u, v \in tasks' : u.kind # "load" /\ v.kind # "load" /\ u.n = v.n => u = v
    BY <1>1, <1>2, <1>3, <1>11 DEF OptionsInv, GesturesDiffer, HandlersDiffer
<1>13. \A i \in 1 .. Len(chains.origins) : chains.origins[i].n # t.n
    BY <1>2 DEF OptionsInv, GesturesDiffer, OriginsFit
<1>14. \A i \in 1 .. Len(chains.ambient) : chains.ambient[i].n # t.n
    BY <1>1, <1>2, LinkFacts
<1>15. \A i \in 1 .. last :
          /\ chains'.ambient[i].n < clicks
          /\ \A j \in 1 .. last : chains'.ambient[j].n = chains'.ambient[i].n => j = i
          /\ \A j \in 1 .. Len(chains.origins) : chains.origins[j].n # chains'.ambient[i].n
  <2>1. \A i \in 1 .. Len(chains.ambient) :
          /\ chains'.ambient[i].n < clicks /\ chains'.ambient[i].n # t.n
          /\ \A j \in 1 .. Len(chains.ambient) : chains'.ambient[j].n = chains'.ambient[i].n => j = i
          /\ \A j \in 1 .. Len(chains.origins) : chains.origins[j].n # chains'.ambient[i].n
    BY <1>6, <1>14, LinkFacts
  <2>2. QED
    BY <1>2, <1>6, <1>7, <1>13, <2>1
<1>16. \A i \in 1 .. last : \A u \in tasks' : u.kind # "load" /\ u.n = chains'.ambient[i].n =>
          /\ u.kind = "revoke" /\ u.pc = "linked"
          /\ ~chains'.ambient[i].on /\ chains'.ambient[i].pattern = PatternOf[u.row]
  <2>1. \A i \in 1 .. Len(chains.ambient) : \A u \in tasks :
          u.kind # "load" /\ u.n = chains'.ambient[i].n =>
          /\ u.kind = "revoke" /\ u.pc = "linked"
          /\ ~chains'.ambient[i].on /\ chains'.ambient[i].pattern = PatternOf[u.row]
    BY <1>6, LinkFacts
  <2>2. \A i \in 1 .. Len(chains.ambient) : new.n # chains'.ambient[i].n
    BY <1>3, <1>6, <1>14
  <2>3. \A u \in tasks' : u = new \/ (u \in tasks /\ u # t)
    BY <1>1
  <2>4. QED
    BY <1>2, <1>3, <1>6, <1>7, <1>11, <2>1, <2>2, <2>3
<1>17. \A i \in 1 .. Len(chains.origins) :
          /\ chains.origins[i].n < clicks
          /\ \A u \in tasks' : u.kind # "load" /\ u.n = chains.origins[i].n => u.kind \in {"add", "remove"}
    BY <1>1, <1>3, <1>13 DEF OptionsInv, GesturesDiffer, OriginsFit
<1>18. GesturesDiffer'
  <2>1. HandlersDiffer'
    BY <1>10, <1>12, Zenon DEF HandlersDiffer
  <2>2. OriginsFit'
    BY <1>1, <1>6, <1>17, Zenon DEF OriginsFit
  <2>3. ASSUME NEW i \in 1 .. last PROVE LinkFits(i)'
    <3>1. /\ chains'.ambient[i].n < clicks
          /\ \A j \in 1 .. last : chains'.ambient[j].n = chains'.ambient[i].n => j = i
          /\ \A j \in 1 .. Len(chains.origins) : chains.origins[j].n # chains'.ambient[i].n
      BY <1>15, Zenon
    <3>2. \A u \in tasks' : u.kind # "load" /\ u.n = chains'.ambient[i].n =>
             /\ u.kind = "revoke" /\ u.pc = "linked"
             /\ ~chains'.ambient[i].on /\ chains'.ambient[i].pattern = PatternOf[u.row]
      BY <1>16, Zenon
    <3>3. QED
      BY <1>1, <1>6, <3>1, <3>2, Zenon DEF LinkFits
  <2>4. QED
    BY <1>6, <2>1, <2>2, <2>3, Zenon DEF GesturesDiffer, AmbientFits
<1>19. \A u \in tasks \ {t} : \A pattern, i : Pending(u, pattern, i) => Pending(u, pattern, i)'
    BY <1>6, <1>8 DEF Pending
<1>20. \A i \in 1 .. Len(chains.ambient) : Pending(new, PatternOf[t.row], i)'
    BY <1>2, <1>3, <1>6, <1>8 DEF Pending
<1>21. Pending(new, PatternOf[t.row], 0)'
    BY <1>2, <1>3, <1>6, <1>8 DEF Pending, last
<1>22. \A pattern, i : Pending(t, pattern, i) => pattern = PatternOf[t.row]
    BY DEF Pending
<1>23. \A pattern : \A i \in 0 .. Len(chains.ambient) :
          (\E u \in tasks : Pending(u, pattern, i)) => \E u \in tasks' : Pending(u, pattern, i)'
  <2>1. SUFFICES ASSUME NEW pattern, NEW i \in 0 .. Len(chains.ambient), NEW u \in tasks,
                        Pending(u, pattern, i)
                 PROVE  \E w \in tasks' : Pending(w, pattern, i)'
    OBVIOUS
  <2>2. CASE u # t
    BY <1>1, <1>19, <2>1, <2>2
  <2>3. CASE u = t
    <3>1. pattern = PatternOf[t.row] /\ new \in tasks'
      BY <1>1, <1>22, <2>1, <2>3
    <3>2. i = 0 \/ i \in 1 .. Len(chains.ambient)
      BY <1>6, <2>1
    <3>3. QED
      BY <1>20, <1>21, <3>1, <3>2
  <2>4. QED
    BY <2>2, <2>3
<1>24. RevokesFollow'
  <2>1. CuesFollowed'
    <3>1. 0 \in 0 .. Len(chains.ambient)
      BY <1>6
    <3>2. QED
      BY <1>1, <1>23, <3>1 DEF OptionsInv, RevokesFollow, CuesFollowed
  <2>2. ASSUME NEW i \in 1 .. Len(chains.ambient), chains'.ambient[i].on, ~chains'.ambient[i].late,
               chains'.ambient[i].pattern \notin granted'
        PROVE  \E u \in tasks' : Pending(u, chains.ambient[i].pattern, i)'
    <3>1. i \in 0 .. Len(chains.ambient)
      BY <1>6
    <3>2. QED
      <4>1. chains'.ambient[i] = chains.ambient[i]
        BY <1>6
      <4>2. \E u \in tasks : Pending(u, chains.ambient[i].pattern, i)
        BY <1>1, <2>2, <4>1 DEF OptionsInv, RevokesFollow, LinksFollowed
      <4>3. QED
        BY <1>23, <3>1, <4>1, <4>2
  <2>3. LinksFollowed'
    <3>1. SUFFICES ASSUME NEW i \in 1 .. last, chains'.ambient[i].on, ~chains'.ambient[i].late,
                          chains'.ambient[i].pattern \notin granted'
                   PROVE  \E u \in tasks' : Pending(u, chains.ambient[i].pattern, i)'
      BY <1>6, Zenon DEF LinksFollowed
    <3>2. QED
      BY <1>6, <1>7, <2>2, <3>1
  <2>4. QED
    BY <2>1, <2>3 DEF RevokesFollow
<1>25. QED
    BY <1>9, <1>18, <1>24 DEF OptionsInv

\* A link that runs, or rejects, frees the handler that waits for it, or ends it.
Frees(link) == tasks' = O!Released(link) \/ tasks' = tasks \ O!Waits(link)

\* A handler goes on, at another stage of the same gesture, or it ends.
LEMMA Freed ==
    ASSUME OptionsInv, NEW link, Frees(link), clicks' = clicks
    PROVE  /\ tasks' \in SUBSET Handlers /\ HandlersDiffer'
           /\ \A t \in tasks : t \in tasks' \/ (t.n = link.n /\ t.pc = "linked")
           /\ \A u \in tasks' : \/ u \in tasks /\ ~(u.n = link.n /\ u.pc = "linked")
                                \/ \E t \in tasks : /\ t.n = link.n /\ u.n = t.n /\ t.pc = "linked"
                                                    /\ u.kind = t.kind /\ u.row = t.row
<1> DEFINE free(t) == [t EXCEPT !.pc = "refresh"]
<1>1. ASSUME NEW t \in tasks
      PROVE  /\ t \in Handlers /\ free(t) \in Handlers
             /\ free(t).n = t.n /\ free(t).kind = t.kind /\ free(t).row = t.row /\ free(t).pc = "refresh"
  <2>1. t \in Handlers
    BY DEF OptionsInv, OptionsType
  <2>2. QED
    BY <2>1 DEF Handlers, Stages
<1>2. \A t \in tasks : t \in tasks' \/ (t.n = link.n /\ t.pc = "linked")
    BY DEF Frees, O!Released, O!Waits
<1>3. ASSUME NEW u \in tasks'
      PROVE  \/ u \in tasks /\ ~(u.n = link.n /\ u.pc = "linked")
             \/ \E t \in tasks : t.n = link.n /\ t.pc = "linked" /\ u = free(t)
    BY DEF Frees, O!Released, O!Waits
<1> HIDE DEF free
<1>4. ASSUME NEW u \in tasks'
      PROVE  /\ u \in Handlers /\ HandlerFits(u)'
             /\ \/ u \in tasks /\ ~(u.n = link.n /\ u.pc = "linked")
                \/ \E t \in tasks : /\ t.n = link.n /\ u.n = t.n /\ t.pc = "linked"
                                    /\ u.kind = t.kind /\ u.row = t.row
  <2>1. CASE u \in tasks /\ ~(u.n = link.n /\ u.pc = "linked")
    BY <1>1, <2>1 DEF HandlerFits, OptionsInv, GesturesDiffer, HandlersDiffer
  <2>2. ASSUME NEW t \in tasks, t.n = link.n, t.pc = "linked", u = free(t)
        PROVE  u \in Handlers /\ HandlerFits(u)' /\ u.n = t.n /\ u.kind = t.kind /\ u.row = t.row
    <3>1. HandlerFits(t) /\ free(t) \in Handlers /\ free(t).n = t.n /\ free(t).kind = t.kind
          /\ free(t).row = t.row /\ free(t).pc = "refresh"
      BY <1>1 DEF OptionsInv, GesturesDiffer, HandlersDiffer
    <3>2. QED
      BY <2>2, <3>1 DEF HandlerFits
  <2>3. QED
    BY <1>3, <2>1, <2>2
<1>5. ASSUME NEW u \in tasks', NEW v \in tasks', u.kind # "load", v.kind # "load", u.n = v.n
      PROVE  u = v
  <2>1. \A t, w \in tasks : t.kind # "load" /\ w.kind # "load" /\ t.n = w.n => t = w
    BY DEF OptionsInv, GesturesDiffer, HandlersDiffer
  <2>2. \A t \in tasks : free(t).n = t.n /\ free(t).kind = t.kind
    BY <1>1
  <2>3. /\ \/ u \in tasks /\ ~(u.n = link.n /\ u.pc = "linked")
           \/ \E t \in tasks : t.n = link.n /\ t.pc = "linked" /\ u = free(t)
        /\ \/ v \in tasks /\ ~(v.n = link.n /\ v.pc = "linked")
           \/ \E t \in tasks : t.n = link.n /\ t.pc = "linked" /\ v = free(t)
    BY <1>3
  <2>4. QED
    BY <1>5, <2>1, <2>2, <2>3
<1>6. HandlersDiffer'
    BY <1>4, <1>5 DEF HandlersDiffer
<1>7. QED
    BY <1>2, <1>4, <1>6

\* The first link of the origins' chain is done.
LEMMA OriginDone ==
    ASSUME OptionsInv, chains.origins # <<>>, Frees(Head(chains.origins)),
           chains' = [chains EXCEPT !.origins = Tail(@)],
           clicks' = clicks, ambient' = ambient, granted' = granted, excused' = excused,
           origins' \in SUBSET O!Rows, DOMAIN screen' \subseteq O!Rows
    PROVE  OptionsInv'
<1> DEFINE link == Head(chains.origins)
<1>1. /\ chains \in [origins : Seq(OriginLinks), ambient : Seq(AmbientLinks)]
      /\ chains.origins \in Seq(OriginLinks)
    BY DEF OptionsInv, OptionsType
<1>2. /\ chains'.ambient = chains.ambient /\ chains'.origins = Tail(chains.origins)
      /\ Tail(chains.origins) \in Seq(OriginLinks)
      /\ link = chains.origins[1] /\ 1 \in 1 .. Len(chains.origins)
      /\ Len(chains'.origins) = Len(chains.origins) - 1 /\ Len(chains.origins) \in Nat
      /\ \A i \in 1 .. Len(chains.origins) - 1 : chains'.origins[i] = chains.origins[i + 1]
    BY <1>1, Queues
<1> HIDE DEF link
<1>3. /\ tasks' \in SUBSET Handlers /\ HandlersDiffer'
      /\ \A t \in tasks : t \in tasks' \/ (t.n = link.n /\ t.pc = "linked")
      /\ \A u \in tasks' : u \in tasks \/ \E t \in tasks : u.n = t.n /\ u.kind = t.kind /\ t.n = link.n
    BY Freed DEF link
<1>4. OptionsType'
  <2>1. chains' \in [origins : Seq(OriginLinks), ambient : Seq(AmbientLinks)]
    BY <1>1, <1>2
  <2>2. QED
    BY <1>3, <2>1 DEF OptionsInv, OptionsType
<1>5. \A t \in tasks : t.kind # "load" /\ t.n = link.n => t.kind \in {"add", "remove"}
    BY <1>2, OriginFacts
<1>6. OriginsFit'
  <2>1. SUFFICES ASSUME NEW i \in 1 .. Len(chains.origins) - 1
                 PROVE  /\ chains.origins[i + 1].n < clicks
                        /\ \A t \in tasks' : t.kind # "load" /\ t.n = chains.origins[i + 1].n
                                             => t.kind \in {"add", "remove"}
    BY <1>2 DEF OriginsFit
  <2>2. i + 1 \in 1 .. Len(chains.origins)
    BY <1>2
  <2>3. /\ chains.origins[i + 1].n < clicks
        /\ \A t \in tasks : t.kind # "load" /\ t.n = chains.origins[i + 1].n => t.kind \in {"add", "remove"}
    BY <2>2, OriginFacts
  <2>4. QED
    BY <1>3, <2>3
<1>7. AmbientFits'
  <2>1. SUFFICES ASSUME NEW i \in 1 .. Len(chains.ambient) PROVE LinkFits(i)'
    BY <1>2 DEF AmbientFits
  <2>2. /\ chains.ambient[i].n < clicks
        /\ \A j \in 1 .. Len(chains.ambient) : chains.ambient[j].n = chains.ambient[i].n => j = i
        /\ \A j \in 1 .. Len(chains.origins) : chains.origins[j].n # chains.ambient[i].n
        /\ \A t \in tasks : t.kind # "load" /\ t.n = chains.ambient[i].n =>
              /\ t.kind = "revoke" /\ t.pc = "linked"
              /\ ~chains.ambient[i].on /\ chains.ambient[i].pattern = PatternOf[t.row]
    BY LinkFacts
  <2>3. \A j \in 1 .. Len(chains.origins) - 1 : chains'.origins[j].n # chains.ambient[i].n
    BY <1>2, <2>2
  <2>4. \A t \in tasks' : t.kind # "load" /\ t.n = chains.ambient[i].n => t \in tasks
    BY <1>2, <1>3, <2>2
  <2>5. QED
    BY <1>2, <2>2, <2>3, <2>4, Zenon DEF LinkFits
<1>8. \A t \in tasks : \A pattern, i : Pending(t, pattern, i) => t \in tasks' /\ Pending(t, pattern, i)'
    BY <1>2, <1>3, <1>5 DEF Pending
<1>9. RevokesFollow'
  <2>1. CuesFollowed'
    BY <1>8 DEF OptionsInv, RevokesFollow, CuesFollowed
  <2>2. LinksFollowed'
    BY <1>2, <1>8 DEF OptionsInv, RevokesFollow, LinksFollowed
  <2>3. QED
    BY <2>1, <2>2 DEF RevokesFollow
<1>10. QED
    BY <1>3, <1>4, <1>6, <1>7, <1>9 DEF OptionsInv, GesturesDiffer

\* The first link of the ambient chain is done: the Revokes that come after a later
\* link still do, and so do all those of another pattern.
LEMMA AmbientDone ==
    ASSUME OptionsInv, chains.ambient # <<>>, Frees(Head(chains.ambient)),
           chains' = [chains EXCEPT !.ambient = Tail(@)], clicks' = clicks, granted' = granted
    PROVE  /\ tasks' \in SUBSET Handlers /\ GesturesDiffer' /\ LinksFollowed'
           /\ chains' \in [origins : Seq(OriginLinks), ambient : Seq(AmbientLinks)]
           /\ Head(chains.ambient) = chains.ambient[1] /\ 1 \in 1 .. Len(chains.ambient)
           /\ \A t \in tasks : \A pattern :
                 \/ Pending(t, pattern, 1)
                 \/ Pending(t, pattern, 0) /\ (Head(chains.ambient).on \/ Head(chains.ambient).pattern # pattern)
                 => t \in tasks' /\ Pending(t, pattern, 0)'
<1> DEFINE link == Head(chains.ambient)
<1>1. /\ chains \in [origins : Seq(OriginLinks), ambient : Seq(AmbientLinks)]
      /\ chains.ambient \in Seq(AmbientLinks)
    BY DEF OptionsInv, OptionsType
<1>2. /\ chains'.origins = chains.origins /\ chains'.ambient = Tail(chains.ambient)
      /\ Tail(chains.ambient) \in Seq(AmbientLinks)
      /\ link = chains.ambient[1] /\ 1 \in 1 .. Len(chains.ambient)
      /\ Len(chains'.ambient) = Len(chains.ambient) - 1 /\ Len(chains.ambient) \in Nat
      /\ \A i \in 1 .. Len(chains.ambient) - 1 : chains'.ambient[i] = chains.ambient[i + 1]
    BY <1>1, Queues
<1> HIDE DEF link
<1>3. /\ tasks' \in SUBSET Handlers /\ HandlersDiffer'
      /\ \A t \in tasks : t \in tasks' \/ (t.n = link.n /\ t.pc = "linked")
      /\ \A u \in tasks' : u \in tasks \/ \E t \in tasks : u.n = t.n /\ u.kind = t.kind /\ t.n = link.n
    BY Freed DEF link
<1>4. chains' \in [origins : Seq(OriginLinks), ambient : Seq(AmbientLinks)]
    BY <1>1, <1>2
<1>5. \A i \in 1 .. Len(chains.ambient) - 1 :
          /\ i + 1 \in 1 .. Len(chains.ambient) /\ i + 1 # 1 /\ chains.ambient[i + 1].n # link.n
  <2>1. \A i \in 1 .. Len(chains.ambient) - 1 : i + 1 \in 1 .. Len(chains.ambient) /\ i + 1 # 1
    BY <1>2
  <2>2. QED
    BY <1>2, <2>1, LinkFacts
<1>6. OriginsFit'
  <2>1. \A i \in 1 .. Len(chains.origins) :
           /\ chains.origins[i].n < clicks
           /\ \A t \in tasks : t.kind # "load" /\ t.n = chains.origins[i].n => t.kind \in {"add", "remove"}
    BY OriginFacts
  <2>2. QED
    BY <1>2, <1>3, <2>1 DEF OriginsFit
<1>7. AmbientFits'
  <2>1. SUFFICES ASSUME NEW i \in 1 .. Len(chains.ambient) - 1 PROVE LinkFits(i)'
    BY <1>2 DEF AmbientFits
  <2>2. i + 1 \in 1 .. Len(chains.ambient) /\ chains.ambient[i + 1].n # link.n
    BY <1>5
  <2>3. /\ chains.ambient[i + 1].n < clicks
        /\ \A j \in 1 .. Len(chains.ambient) : chains.ambient[j].n = chains.ambient[i + 1].n => j = i + 1
        /\ \A j \in 1 .. Len(chains.origins) : chains.origins[j].n # chains.ambient[i + 1].n
        /\ \A t \in tasks : t.kind # "load" /\ t.n = chains.ambient[i + 1].n =>
              /\ t.kind = "revoke" /\ t.pc = "linked"
              /\ ~chains.ambient[i + 1].on /\ chains.ambient[i + 1].pattern = PatternOf[t.row]
    BY <2>2, LinkFacts
  <2>4. chains'.ambient[i] = chains.ambient[i + 1]
    BY <1>2
  <2>5. \A j \in 1 .. Len(chains.ambient) - 1 : chains'.ambient[j].n = chains'.ambient[i].n => j = i
    <3>1. SUFFICES ASSUME NEW j \in 1 .. Len(chains.ambient) - 1, chains.ambient[j + 1].n = chains.ambient[i + 1].n
                   PROVE  j = i
      BY <1>2, <2>4
    <3>2. j + 1 = i + 1
      BY <1>5, <2>3, <3>1
    <3>3. QED
      BY <1>2, <3>2
  <2>6. \A t \in tasks' : t.kind # "load" /\ t.n = chains.ambient[i + 1].n => t \in tasks
    BY <1>3, <2>2
  <2>7. QED
    BY <1>2, <2>3, <2>4, <2>5, <2>6, Zenon DEF LinkFits
<1>8. \A t \in tasks : t.kind = "revoke" /\ t.pc = "linked" /\ t.n = link.n =>
          ~link.on /\ link.pattern = PatternOf[t.row]
    BY <1>2, LinkFacts
<1>9. ASSUME NEW t \in tasks, NEW pattern, NEW i \in 1 .. Len(chains.ambient), Pending(t, pattern, i)
      PROVE  t \in tasks' /\ Pending(t, pattern, i - 1)'
  <2>1. CASE t.pc = "removed"
    BY <1>3, <1>9, <2>1 DEF Pending
  <2>2. CASE t.pc = "linked"
    <3>1. PICK j \in 1 .. Len(chains.ambient) : j > i /\ chains.ambient[j].n = t.n
      BY <1>9, <2>2 DEF Pending
    <3>2. /\ j - 1 \in 1 .. Len(chains.ambient) - 1 /\ j - 1 > i - 1 /\ (j - 1) + 1 = j
      BY <1>2, <3>1
    <3>3. t.n # link.n /\ chains'.ambient[j - 1].n = t.n
      BY <1>2, <1>5, <3>1, <3>2
    <3>4. QED
      BY <1>2, <1>3, <1>9, <3>2, <3>3 DEF Pending
  <2>3. QED
    BY <1>9, <2>1, <2>2 DEF Pending
<1>10. ASSUME NEW t \in tasks, NEW pattern, Pending(t, pattern, 0), link.on \/ link.pattern # pattern
       PROVE  Pending(t, pattern, 1)
  <2>1. CASE t.pc = "removed"
    BY <1>10, <2>1 DEF Pending
  <2>2. CASE t.pc = "linked"
    <3>1. PICK j \in 1 .. Len(chains.ambient) : chains.ambient[j].n = t.n
      BY <1>10, <2>2 DEF Pending
    <3>2. j # 1
      BY <1>2, <1>8, <1>10, <2>2, <3>1 DEF Pending
    <3>3. j > 1
      BY <3>2
    <3>4. QED
      BY <1>10, <2>2, <3>1, <3>3 DEF Pending
  <2>3. QED
    BY <1>10, <2>1, <2>2 DEF Pending
<1>11. LinksFollowed'
  <2>1. SUFFICES ASSUME NEW i \in 1 .. Len(chains.ambient) - 1, chains.ambient[i + 1].on,
                        ~chains.ambient[i + 1].late, chains.ambient[i + 1].pattern \notin granted
                 PROVE  \E t \in tasks' : Pending(t, chains.ambient[i].pattern, i)'
    BY <1>2 DEF LinksFollowed
  <2>2. i + 1 \in 1 .. Len(chains.ambient) /\ (i + 1) - 1 = i
    BY <1>2
  <2>3. PICK t \in tasks : Pending(t, chains.ambient[i + 1].pattern, i + 1)
    BY <2>1, <2>2 DEF OptionsInv, RevokesFollow, LinksFollowed
  <2>4. chains'.ambient[i] = chains.ambient[i + 1]
    BY <1>2
  <2>5. QED
    BY <1>9, <2>2, <2>3, <2>4
<1>12. \A t \in tasks : \A pattern : Pending(t, pattern, 1) => t \in tasks' /\ Pending(t, pattern, 0)'
  <2>1. 1 - 1 = 0
    OBVIOUS
  <2>2. QED
    BY <1>2, <1>9, <2>1
<1>13. QED
    BY <1>2, <1>3, <1>4, <1>6, <1>7, <1>10, <1>11, <1>12 DEF GesturesDiffer, link

\* The first link of the ambient chain runs.
LEMMA CueLands ==
    ASSUME OptionsInv, O!AmbientLands
    PROVE  OptionsInv'
<1> DEFINE link == Head(chains.ambient)
<1>1. /\ chains.ambient # <<>> /\ tasks' = O!Released(link)
      /\ chains' = [chains EXCEPT !.ambient = Tail(@)]
      /\ ambient' = IF link.on THEN ambient \union {link.pattern} ELSE ambient \ {link.pattern}
      /\ excused' = IF ~link.on THEN excused \ {link.pattern}
                    ELSE IF link.late THEN excused \union {link.pattern} ELSE excused
      /\ granted' = granted /\ origins' = origins /\ screen' = screen /\ clicks' = clicks
    BY DEF O!AmbientLands, O!setAmbientHost, O!Excuses
<1>2. /\ tasks' \in SUBSET Handlers /\ GesturesDiffer' /\ LinksFollowed'
      /\ chains' \in [origins : Seq(OriginLinks), ambient : Seq(AmbientLinks)]
      /\ link = chains.ambient[1] /\ 1 \in 1 .. Len(chains.ambient)
      /\ \A t \in tasks : \A pattern :
            \/ Pending(t, pattern, 1)
            \/ Pending(t, pattern, 0) /\ (link.on \/ link.pattern # pattern)
            => t \in tasks' /\ Pending(t, pattern, 0)'
  <2>1. Frees(link)
    BY <1>1 DEF Frees
  <2>2. QED
    BY <1>1, <2>1, AmbientDone
<1> HIDE DEF link
<1>3. link.pattern \in O!Patterns
  <2>1. link \in AmbientLinks
    BY <1>2, LinkFacts
  <2>2. QED
    BY <2>1 DEF AmbientLinks
<1>4. OptionsType'
  <2>1. ambient' \in SUBSET O!Patterns
    BY <1>1, <1>3 DEF OptionsInv, OptionsType
  <2>2. QED
    BY <1>1, <1>2, <2>1 DEF OptionsInv, OptionsType
<1>5. link.on /\ ~link.late /\ link.pattern \notin granted =>
         \E t \in tasks : Pending(t, link.pattern, 1)
    BY <1>2 DEF OptionsInv, RevokesFollow, LinksFollowed
<1>6. ASSUME NEW pattern \in ambient' \ granted', pattern \notin excused'
      PROVE  \E t \in tasks' : Pending(t, pattern, 0)'
  <2>1. CASE link.on /\ pattern = link.pattern
    <3>1. ~link.late
      BY <1>1, <1>6, <2>1
    <3>2. \E t \in tasks : Pending(t, pattern, 1)
      BY <1>1, <1>5, <1>6, <2>1, <3>1
    <3>3. QED
      BY <1>2, <3>2
  <2>2. CASE ~link.on \/ pattern # link.pattern
    <3>1. pattern \in ambient \ granted /\ pattern \notin excused /\ (link.on \/ link.pattern # pattern)
      BY <1>1, <1>6, <2>2
    <3>2. \E t \in tasks : Pending(t, pattern, 0)
      BY <3>1 DEF OptionsInv, RevokesFollow, CuesFollowed
    <3>3. QED
      BY <1>2, <3>1, <3>2
  <2>3. QED
    BY <2>1, <2>2
<1>7. CuesFollowed'
    BY <1>6 DEF CuesFollowed
<1>8. QED
    BY <1>2, <1>4, <1>7 DEF OptionsInv, RevokesFollow

\* The first link of a chain rejects.
LEMMA LinkRejects ==
    ASSUME OptionsInv, NEW chain \in {"origins", "ambient"}, O!LinkFails(chain)
    PROVE  OptionsInv'
<1>1. /\ chains[chain] # <<>> /\ Frees(Head(chains[chain]))
      /\ chains' = [chains EXCEPT ![chain] = Tail(@)]
      /\ excused' = IF chain = "ambient" /\ ~Head(chains[chain]).on
                    THEN excused \union {Head(chains[chain]).pattern} ELSE excused
      /\ granted' = granted /\ origins' = origins /\ ambient' = ambient
      /\ screen' = screen /\ clicks' = clicks
    BY DEF O!LinkFails, O!stores, Frees
<1>2. CASE chain = "origins"
    BY <1>1, <1>2, OriginDone DEF OptionsInv, OptionsType
<1>3. CASE chain = "ambient"
  <2> DEFINE link == Head(chains.ambient)
  <2>1. /\ chains.ambient # <<>> /\ Frees(link)
        /\ chains' = [chains EXCEPT !.ambient = Tail(@)]
        /\ excused' = IF ~link.on THEN excused \union {link.pattern} ELSE excused
    BY <1>1, <1>3
  <2>2. /\ tasks' \in SUBSET Handlers /\ GesturesDiffer' /\ LinksFollowed'
        /\ chains' \in [origins : Seq(OriginLinks), ambient : Seq(AmbientLinks)]
        /\ \A t \in tasks : \A pattern :
              Pending(t, pattern, 0) /\ (link.on \/ link.pattern # pattern)
              => t \in tasks' /\ Pending(t, pattern, 0)'
    BY <1>1, <2>1, AmbientDone
  <2> HIDE DEF link
  <2>3. OptionsType'
    BY <1>1, <2>2 DEF OptionsInv, OptionsType
  <2>4. ASSUME NEW pattern \in ambient' \ granted', pattern \notin excused'
        PROVE  \E t \in tasks' : Pending(t, pattern, 0)'
    <3>1. pattern \in ambient \ granted /\ pattern \notin excused /\ (link.on \/ link.pattern # pattern)
      BY <1>1, <2>1, <2>4
    <3>2. \E t \in tasks : Pending(t, pattern, 0)
      BY <3>1 DEF OptionsInv, RevokesFollow, CuesFollowed
    <3>3. QED
      BY <2>2, <3>1, <3>2
  <2>5. CuesFollowed'
    BY <2>4 DEF CuesFollowed
  <2>6. QED
    BY <2>2, <2>3, <2>5 DEF OptionsInv, RevokesFollow
<1>4. QED
    BY <1>2, <1>3

\* Access is withdrawn in the browser's settings.
LEMMA Withdrawn ==
    ASSUME OptionsInv, NEW gone \in O!Patterns, O!WithdrawnInSettings(gone)
    PROVE  OptionsInv'
<1> DEFINE later(i) == O!LateAfter(chains.ambient[i], gone)
<1>1. /\ granted' = granted \ {gone} /\ excused' = excused \union {gone}
      /\ chains' = [chains EXCEPT !.ambient = [i \in DOMAIN chains.ambient |-> later(i)]]
      /\ origins' = origins /\ ambient' = ambient /\ tasks' = tasks /\ screen' = screen /\ clicks' = clicks
    BY DEF O!WithdrawnInSettings
<1>2. chains \in [origins : Seq(OriginLinks), ambient : Seq(AmbientLinks)]
    BY DEF OptionsInv, OptionsType
<1>3. ASSUME NEW i \in 1 .. Len(chains.ambient)
      PROVE  /\ later(i) \in AmbientLinks /\ later(i).n = chains.ambient[i].n
             /\ later(i).on = chains.ambient[i].on /\ later(i).pattern = chains.ambient[i].pattern
             /\ ~later(i).late => ~chains.ambient[i].late /\ chains.ambient[i].pattern # gone
  <2>1. chains.ambient[i] \in AmbientLinks
    BY LinkFacts
  <2>2. (chains.ambient[i].late \/ chains.ambient[i].pattern = gone) \in BOOLEAN
    BY Zenon
  <2>3. later(i) = [chains.ambient[i] EXCEPT !.late = (chains.ambient[i].late \/ chains.ambient[i].pattern = gone)]
    BY <2>1 DEF AmbientLinks, O!LateAfter
  <2>4. QED
    BY <2>1, <2>2, <2>3 DEF AmbientLinks
<1> HIDE DEF later
<1>4. DOMAIN chains.ambient = 1 .. Len(chains.ambient) /\ Len(chains.ambient) \in Nat
    BY <1>2
<1>5. /\ chains'.ambient = [i \in 1 .. Len(chains.ambient) |-> later(i)]
      /\ chains'.origins = chains.origins
    BY <1>1, <1>2, <1>4
<1>6. /\ chains'.ambient \in Seq(AmbientLinks) /\ Len(chains'.ambient) = Len(chains.ambient)
      /\ \A i \in 1 .. Len(chains.ambient) : chains'.ambient[i] = later(i)
    BY <1>3, <1>4, <1>5
<1>7. chains' \in [origins : Seq(OriginLinks), ambient : Seq(AmbientLinks)]
  <2>1. chains' = [chains EXCEPT !.ambient = chains'.ambient]
    BY <1>1, <1>2
  <2>2. QED
    BY <1>2, <1>6, <2>1
<1>8. OptionsType'
    BY <1>1, <1>7 DEF OptionsInv, OptionsType
<1>9. HandlersDiffer'
    BY <1>1 DEF OptionsInv, GesturesDiffer, HandlersDiffer, HandlerFits
<1>10. OriginsFit'
    BY <1>1, <1>5 DEF OptionsInv, GesturesDiffer, OriginsFit
<1>11. ASSUME NEW i \in 1 .. Len(chains.ambient) PROVE LinkFits(i)'
  <2>1. /\ chains.ambient[i].n < clicks
        /\ \A j \in 1 .. Len(chains.ambient) : chains.ambient[j].n = chains.ambient[i].n => j = i
        /\ \A j \in 1 .. Len(chains.origins) : chains.origins[j].n # chains.ambient[i].n
        /\ \A t \in tasks : t.kind # "load" /\ t.n = chains.ambient[i].n =>
              /\ t.kind = "revoke" /\ t.pc = "linked"
              /\ ~chains.ambient[i].on /\ chains.ambient[i].pattern = PatternOf[t.row]
    BY LinkFacts
  <2>2. /\ chains'.ambient[i].n = chains.ambient[i].n /\ chains'.ambient[i].on = chains.ambient[i].on
        /\ chains'.ambient[i].pattern = chains.ambient[i].pattern
        /\ \A j \in 1 .. Len(chains.ambient) : chains'.ambient[j].n = chains.ambient[j].n
    BY <1>3, <1>6
  <2>3. QED
    BY <1>1, <1>5, <1>6, <2>1, <2>2, Zenon DEF LinkFits
<1>12. AmbientFits'
    BY <1>6, <1>11 DEF AmbientFits
<1>13. \A t \in tasks : \A pattern, i : Pending(t, pattern, i) => t \in tasks' /\ Pending(t, pattern, i)'
    BY <1>1, <1>3, <1>6 DEF Pending
<1>14. CuesFollowed'
    BY <1>1, <1>13 DEF OptionsInv, RevokesFollow, CuesFollowed
<1>15. LinksFollowed'
  <2>1. SUFFICES ASSUME NEW i \in 1 .. Len(chains.ambient), chains'.ambient[i].on,
                        ~chains'.ambient[i].late, chains'.ambient[i].pattern \notin granted'
                 PROVE  \E t \in tasks' : Pending(t, chains.ambient[i].pattern, i)'
    BY <1>6 DEF LinksFollowed
  <2>2. /\ chains.ambient[i].on /\ ~chains.ambient[i].late /\ chains.ambient[i].pattern \notin granted
        /\ chains'.ambient[i].pattern = chains.ambient[i].pattern
    BY <1>1, <1>3, <1>6, <2>1
  <2>3. \E t \in tasks : Pending(t, chains.ambient[i].pattern, i)
    BY <2>2 DEF OptionsInv, RevokesFollow, LinksFollowed
  <2>4. QED
    BY <1>13, <2>2, <2>3
<1>16. QED
    BY <1>8, <1>9, <1>10, <1>12, <1>14, <1>15 DEF OptionsInv, GesturesDiffer, RevokesFollow

\* A gesture that asks for a row to be added or removed, or the browser for access.
LEMMA GestureStarts ==
    ASSUME OptionsInv, NEW row \in O!Rows,
           O!addSurface(row) \/ O!Remove(row) \/ O!AskBrowser(row)
    PROVE  OptionsInv'
<1>1. /\ clicks \in Nat /\ chains \in [origins : Seq(OriginLinks), ambient : Seq(AmbientLinks)]
      /\ tasks \in SUBSET Handlers
    BY DEF OptionsInv, OptionsType
<1>2. /\ clicks' = clicks + 1 /\ ambient' = ambient /\ excused' = excused /\ granted' = granted
      /\ origins' = origins /\ screen' = screen
    BY DEF O!addSurface, O!Remove, O!AskBrowser, O!Click, O!stores
<1>3. \E kind \in {"add", "remove", "grant", "revoke"}, pc \in {"asked", "linked"} :
         /\ tasks' = tasks \union {O!Task(kind, row, pc)}
         /\ pc = "linked" => kind \in {"add", "remove"}
         /\ \/ chains' = chains
            \/ /\ pc = "linked"
               /\ \E on \in BOOLEAN :
                     chains' = [chains EXCEPT !.origins =
                                   Append(chains.origins, [n |-> clicks, row |-> row, on |-> on])]
  <2>1. CASE O!addSurface(row)
    BY <2>1 DEF O!addSurface
  <2>2. CASE O!Remove(row)
    BY <2>2 DEF O!Remove
  <2>3. CASE O!AskBrowser(row)
    <3>1. PICK kind \in {"grant", "revoke"} : tasks' = tasks \union {O!Task(kind, row, "asked")}
      BY <2>3 DEF O!AskBrowser
    <3>2. chains' = chains
      BY <2>3 DEF O!AskBrowser
    <3>3. QED
      BY <3>1, <3>2
  <2>4. QED
    BY <2>1, <2>2, <2>3
<1>4. PICK kind \in {"add", "remove", "grant", "revoke"}, pc \in {"asked", "linked"} :
         /\ tasks' = tasks \union {O!Task(kind, row, pc)}
         /\ pc = "linked" => kind \in {"add", "remove"}
         /\ \/ chains' = chains
            \/ /\ pc = "linked"
               /\ \E on \in BOOLEAN :
                     chains' = [chains EXCEPT !.origins =
                                   Append(chains.origins, [n |-> clicks, row |-> row, on |-> on])]
    BY <1>3
<1>5. /\ chains' \in [origins : Seq(OriginLinks), ambient : Seq(AmbientLinks)]
      /\ chains'.ambient = chains.ambient
      /\ \/ chains'.origins = chains.origins
         \/ /\ pc = "linked"
            /\ \E on \in BOOLEAN : chains'.origins = Append(chains.origins, [n |-> clicks, row |-> row, on |-> on])
  <2>1. CASE chains' = chains
    BY <1>1, <2>1
  <2>2. ASSUME pc = "linked", NEW on \in BOOLEAN,
               chains' = [chains EXCEPT !.origins =
                             Append(chains.origins, [n |-> clicks, row |-> row, on |-> on])]
        PROVE  /\ chains' \in [origins : Seq(OriginLinks), ambient : Seq(AmbientLinks)]
               /\ chains'.ambient = chains.ambient
               /\ chains'.origins = Append(chains.origins, [n |-> clicks, row |-> row, on |-> on])
    <3>1. Append(chains.origins, [n |-> clicks, row |-> row, on |-> on]) \in Seq(OriginLinks)
      BY <1>1 DEF OriginLinks
    <3>2. QED
      BY <1>1, <2>2, <3>1
  <2>3. QED
    BY <1>4, <2>1, <2>2
<1>6. O!Task(kind, row, pc) \in Handlers
    BY <1>1, NewHandler DEF Kinds, Stages
<1>7. OptionsType'
    BY <1>1, <1>2, <1>4, <1>5, <1>6 DEF OptionsInv, OptionsType
<1>8. GesturesDiffer' /\ RevokesFollow'
    BY <1>2, <1>4, <1>5, HandlerStarts DEF Stages
<1>9. QED
    BY <1>7, <1>8 DEF OptionsInv

\* The browser has answered, or the list is read again.
LEMMA HandlerGoesOn ==
    ASSUME OptionsInv, NEW t \in tasks,
           O!GrantAnswered(t) \/ O!RevokeAnswered(t) \/ O!ReadAmbient(t) \/ O!ReadBuiltIn(t)
    PROVE  OptionsInv'
<1>1. t \in Handlers /\ (t.kind # "load" => t.row \in O!Rows) /\ ambient \in SUBSET O!Patterns
    BY DEF OptionsInv, OptionsType, GesturesDiffer, HandlersDiffer, HandlerFits
<1>2. /\ chains' = chains /\ ambient' = ambient /\ excused' = excused /\ clicks' = clicks
      /\ origins' = origins /\ screen' = screen
    BY DEF O!GrantAnswered, O!RevokeAnswered, O!ReadAmbient, O!ReadBuiltIn, O!stores
<1>3. \E new \in Handlers :
         /\ t.pc \notin {"removed", "linked"}
         /\ new.n = t.n /\ new.kind = t.kind /\ new.row = t.row /\ new.pc # "linked"
         /\ new.pc = "removed" => new.kind = "revoke"
         /\ tasks' = (tasks \ {t}) \union {new}
         /\ \/ granted \subseteq granted'
            \/ granted' = granted \ {PatternOf[t.row]} /\ new.pc = "removed"
  <2>1. CASE O!GrantAnswered(t)
    <3> DEFINE new == [t EXCEPT !.pc = "refresh"]
    <3>1. /\ new \in Handlers /\ new.n = t.n /\ new.kind = t.kind /\ new.row = t.row /\ new.pc = "refresh"
      BY <1>1 DEF Handlers, Stages
    <3>2. t.pc = "asked" /\ tasks' = (tasks \ {t}) \union {new} /\ granted \subseteq granted'
      BY <2>1 DEF O!GrantAnswered, O!Becomes
    <3>3. QED
      BY <3>1, <3>2
  <2>2. CASE O!RevokeAnswered(t)
    <3>1. PICK pc \in {"removed", "refresh"} :
             /\ O!Becomes(t, pc) /\ t.pc = "asked" /\ t.kind = "revoke"
             /\ \/ granted' = granted
                \/ granted' = granted \ {PatternOf[t.row]} /\ pc = "removed"
      BY <2>2 DEF O!RevokeAnswered
    <3> DEFINE new == [t EXCEPT !.pc = pc]
    <3>2. /\ new \in Handlers /\ new.n = t.n /\ new.kind = t.kind /\ new.row = t.row /\ new.pc = pc
      BY <1>1, <3>1 DEF Handlers, Stages
    <3>3. tasks' = (tasks \ {t}) \union {new}
      BY <3>1 DEF O!Becomes
    <3>4. QED
      BY <3>1, <3>2, <3>3
  <2>3. CASE O!ReadAmbient(t)
    <3> DEFINE seen == [t.seen EXCEPT !.ambient = ambient]
               new == [t EXCEPT !.pc = "built-in", !.seen = seen]
    <3>1. t.seen \in Seen
      BY <1>1 DEF Handlers
    <3>2. seen \in Seen
      BY <1>1, <3>1 DEF Seen
    <3>3. /\ new \in Handlers /\ new.n = t.n /\ new.kind = t.kind /\ new.row = t.row /\ new.pc = "built-in"
      BY <1>1, <3>2 DEF Handlers, Stages
    <3>4. t.pc = "refresh" /\ tasks' = (tasks \ {t}) \union {new} /\ granted' = granted
      BY <2>3 DEF O!ReadAmbient, O!Reads, O!stores
    <3>5. QED
      BY <3>3, <3>4
  <2>4. CASE O!ReadBuiltIn(t)
    <3> DEFINE seen == [t.seen EXCEPT !.access = {row \in BuiltIn : PatternOf[row] \in granted}]
               new == [t EXCEPT !.pc = "own", !.seen = seen]
    <3>1. t.seen \in Seen
      BY <1>1 DEF Handlers
    <3>2. seen \in Seen
      BY <3>1 DEF Seen, O!Rows
    <3>3. /\ new \in Handlers /\ new.n = t.n /\ new.kind = t.kind /\ new.row = t.row /\ new.pc = "own"
      BY <1>1, <3>2 DEF Handlers, Stages
    <3>4. t.pc = "built-in" /\ tasks' = (tasks \ {t}) \union {new} /\ granted' = granted
      BY <2>4 DEF O!ReadBuiltIn, O!Reads, O!stores
    <3>5. QED
      BY <3>3, <3>4
  <2>5. QED
    BY <2>1, <2>2, <2>3, <2>4
<1>4. PICK new \in Handlers :
         /\ t.pc \notin {"removed", "linked"}
         /\ new.n = t.n /\ new.kind = t.kind /\ new.row = t.row /\ new.pc # "linked"
         /\ new.pc = "removed" => new.kind = "revoke"
         /\ tasks' = (tasks \ {t}) \union {new}
         /\ \/ granted \subseteq granted'
            \/ granted' = granted \ {PatternOf[t.row]} /\ new.pc = "removed"
    BY <1>3
<1>5. granted' \in SUBSET O!Patterns
  <2>1. \A row \in O!Rows : PatternOf[row] \in O!Patterns
    BY DEF O!Patterns
  <2>2. granted \in SUBSET O!Patterns
    BY DEF OptionsInv, OptionsType
  <2>3. granted' \in {granted, granted \ {PatternOf[t.row]}}
        \/ (t.kind = "grant" /\ granted' = granted \union {PatternOf[t.row]})
    BY DEF O!GrantAnswered, O!RevokeAnswered, O!ReadAmbient, O!ReadBuiltIn, O!stores
  <2>4. QED
    BY <1>1, <2>1, <2>2, <2>3
<1>6. OptionsType'
    BY <1>2, <1>4, <1>5 DEF OptionsInv, OptionsType
<1>7. GesturesDiffer' /\ RevokesFollow'
    BY <1>2, <1>4, HandlerMoves
<1>8. QED
    BY <1>6, <1>7 DEF OptionsInv

\* The list is painted, or is not since a read rejects.
LEMMA RefreshEnds ==
    ASSUME OptionsInv, NEW t \in tasks, O!Paint(t) \/ O!RefreshFails(t)
    PROVE  OptionsInv'
<1>1. /\ t.pc \notin {"removed", "linked"} /\ tasks' = tasks \ {t}
      /\ chains' = chains /\ ambient' = ambient /\ excused' = excused /\ clicks' = clicks
      /\ granted' = granted /\ origins' = origins
    BY DEF O!Paint, O!RefreshFails, O!stores
<1>2. DOMAIN screen' \subseteq O!Rows
    BY DEF O!Paint, O!RefreshFails, OptionsInv, OptionsType, O!Rows
<1>3. OptionsType'
    BY <1>1, <1>2 DEF OptionsInv, OptionsType
<1>4. GesturesDiffer' /\ RevokesFollow'
    BY <1>1, HandlerEnds
<1>5. QED
    BY <1>3, <1>4 DEF OptionsInv

\* A row is added or removed.
LEMMA RowLands ==
    ASSUME OptionsInv, O!OriginLands
    PROVE  OptionsInv'
<1>1. /\ chains.origins # <<>> /\ Frees(Head(chains.origins))
      /\ chains' = [chains EXCEPT !.origins = Tail(@)]
      /\ clicks' = clicks /\ ambient' = ambient /\ granted' = granted /\ excused' = excused
      /\ screen' = screen
      /\ origins' = IF Head(chains.origins).on THEN origins \union {Head(chains.origins).row}
                    ELSE origins \ {Head(chains.origins).row}
    BY DEF O!OriginLands, O!setOrigins, Frees
<1>2. chains.origins \in Seq(OriginLinks) /\ origins \in SUBSET O!Rows /\ DOMAIN screen \subseteq O!Rows
    BY DEF OptionsInv, OptionsType
<1>3. Head(chains.origins) \in OriginLinks
    BY <1>1, <1>2, Queues
<1>4. Head(chains.origins).row \in O!Rows
    BY <1>3 DEF OriginLinks
<1>5. QED
    BY <1>1, <1>2, <1>4, OriginDone

\* The page is opened, at first or again: no gesture is at work and no cue is on that is
\* neither granted nor excused.
JustOpened ==
    /\ chains = [origins |-> <<>>, ambient |-> <<>>] /\ tasks = {O!Loading} /\ screen = <<>>
    /\ clicks \in Nat /\ granted \in SUBSET O!Patterns /\ ambient \in SUBSET O!Patterns
    /\ origins \in SUBSET O!Rows /\ ambient \ granted \subseteq excused

\* That is a state the invariant allows.
LEMMA PageOpens == JustOpened => OptionsInv
<1> SUFFICES ASSUME JustOpened PROVE OptionsInv
    OBVIOUS
<1> USE DEF JustOpened
<1>1. /\ O!Loading \in Handlers /\ O!Loading.kind = "load" /\ O!Loading.pc = "refresh"
    BY DEF O!Loading, O!Task, O!Unread, Handlers, Kinds, Stages, Seen
<1>2. Len(chains.origins) = 0 /\ Len(chains.ambient) = 0
    OBVIOUS
<1>3. chains \in [origins : Seq(OriginLinks), ambient : Seq(AmbientLinks)]
    OBVIOUS
<1>4. DOMAIN screen \subseteq O!Rows
    OBVIOUS
<1>5. OptionsType
    BY <1>1, <1>3, <1>4 DEF OptionsType
<1>6. GesturesDiffer
    BY <1>1, <1>2 DEF GesturesDiffer, HandlersDiffer, HandlerFits, OriginsFit, AmbientFits
<1>7. RevokesFollow
    BY <1>2 DEF RevokesFollow, CuesFollowed, LinksFollowed
<1>8. QED
    BY <1>5, <1>6, <1>7 DEF OptionsInv

\* So it is after a step.
LEMMA PageReopens == JustOpened' => OptionsInv'
BY PageOpens, PTL

\* The page is closed and opened again.
LEMMA Reopened ==
    ASSUME OptionsInv, O!Reopen
    PROVE  OptionsInv'
<1>1. /\ granted \in SUBSET O!Patterns /\ ambient \in SUBSET O!Patterns /\ origins \in SUBSET O!Rows
      /\ chains.origins \in Seq(OriginLinks) /\ chains.ambient \in Seq(AmbientLinks) /\ clicks \in Nat
    BY DEF OptionsInv, OptionsType
<1>2. /\ chains' = [origins |-> <<>>, ambient |-> <<>>] /\ tasks' = {O!Loading} /\ screen' = <<>>
      /\ clicks' = clicks /\ ambient' \ granted' \subseteq excused' /\ granted' \subseteq granted
    BY DEF O!Reopen
<1>3. ambient' \in SUBSET O!Patterns
  <2>1. CASE chains.ambient # <<>>
    <3>1. Head(chains.ambient) \in AmbientLinks
      BY <1>1, <2>1, Queues
    <3>2. Head(chains.ambient).pattern \in O!Patterns
      BY <3>1 DEF AmbientLinks
    <3>3. QED
      BY <1>1, <3>2 DEF O!Reopen, O!setAmbientHost
  <2>2. CASE chains.ambient = <<>>
    BY <1>1, <2>2 DEF O!Reopen
  <2>3. QED
    BY <2>1, <2>2
<1>4. origins' \in SUBSET O!Rows
  <2>1. CASE chains.origins # <<>>
    <3>1. Head(chains.origins) \in OriginLinks
      BY <1>1, <2>1, Queues
    <3>2. Head(chains.origins).row \in O!Rows
      BY <3>1 DEF OriginLinks
    <3>3. QED
      BY <1>1, <3>2 DEF O!Reopen, O!setOrigins
  <2>2. CASE chains.origins = <<>>
    BY <1>1, <2>2 DEF O!Reopen
  <2>3. QED
    BY <2>1, <2>2
<1>5. tasks' = {O!Loading'}
    BY <1>2 DEF O!Loading, O!Task, O!Unread
<1>6. granted' \in SUBSET O!Patterns /\ clicks' \in Nat
    BY <1>1, <1>2
<1>7. JustOpened'
    BY <1>2, <1>3, <1>4, <1>5, <1>6 DEF JustOpened
<1>8. QED
    BY <1>7, PageReopens

\* It holds on when nothing of the list moves.
LEMMA OptionsIdle ==
    ASSUME OptionsInv, UNCHANGED O!vars
    PROVE  OptionsInv'
<1>1. UNCHANGED <<granted, origins, ambient, chains, tasks, screen, clicks, excused>>
    BY DEF O!vars, O!stores
<1>2. OptionsType' /\ GesturesDiffer'
    BY <1>1 DEF OptionsInv, OptionsType, GesturesDiffer, HandlersDiffer, HandlerFits,
                OriginsFit, AmbientFits, LinkFits
<1>3. RevokesFollow'
    BY <1>1 DEF OptionsInv, RevokesFollow, CuesFollowed, LinksFollowed, Pending
<1>4. QED
    BY <1>2, <1>3 DEF OptionsInv

\* The invariant of the Options page holds, however its handlers and its two chains
\* take turns and whatever is lost of them.
THEOREM OptionsInvHolds == Spec => [](which = "options" => OptionsInv)
<1> DEFINE Inv == which = "options" => OptionsInv
<1>1. ASSUME Init PROVE Inv
  <2>1. which = "options" => O!Init
    BY <1>1 DEF Init
  <2>2. ASSUME O!Init PROVE OptionsInv
    <3>1. JustOpened
      BY <2>2 DEF O!Init, O!Rows, JustOpened
    <3>2. QED
      BY <3>1, PageOpens
  <2>3. QED
    BY <2>1, <2>2
<1>2. ASSUME Inv, [Next]_vars PROVE Inv'
  <2>1. CASE Next
    <3>1. which' = which /\ (which = "options" => O!Next)
      BY <2>1 DEF Next
    <3>2. ASSUME which = "options" PROVE OptionsInv'
      <4>1. OptionsInv /\ O!Next
        BY <1>2, <3>1, <3>2
      <4>2. DOMAIN chains = {"origins", "ambient"}
        BY <4>1 DEF OptionsInv, OptionsType
      <4>3. ASSUME NEW row \in O!Rows,
                   \/ O!addSurface(row) \/ O!Remove(row) \/ O!AskBrowser(row) \/ O!onAmbientChange(row)
            PROVE  OptionsInv'
        BY <4>1, <4>3, GestureStarts, Toggled
      <4>4. ASSUME NEW t \in tasks,
                   \/ O!GrantAnswered(t) \/ O!RevokeAnswered(t) \/ O!SwitchOff(t)
                   \/ O!ReadAmbient(t) \/ O!ReadBuiltIn(t) \/ O!Paint(t) \/ O!RefreshFails(t)
            PROVE  OptionsInv'
        BY <4>1, <4>4, HandlerGoesOn, SwitchedOff, RefreshEnds
      <4>5. Own \subseteq O!Rows
        BY DEF O!Rows
      <4>6. QED
        BY <4>1, <4>2, <4>3, <4>4, <4>5, RowLands, CueLands, LinkRejects, Withdrawn, Reopened DEF O!Next
    <3>3. QED
      BY <3>1, <3>2
  <2>2. CASE UNCHANGED vars
    <3>1. which' = which
      BY <2>2 DEF vars
    <3>2. UNCHANGED O!vars
      BY <2>2 DEF vars, ofOptions, ofHeader, O!vars, O!stores
    <3>3. QED
      BY <1>2, <3>1, <3>2, OptionsIdle
  <2>3. QED
    BY <1>2, <2>1, <2>2
<1>3. QED
    BY <1>1, <1>2, PTL DEF Spec

\* A cue is stored as on only where there is page access, or a Revoke of it is on its
\* way to switch it off, or it is one of those excused (options.ts:466-474).
THEOREM AmbientNeedsGrantHolds == Spec => []AmbientNeedsGrant
<1>1. (which = "options" => OptionsInv) => AmbientNeedsGrant
    BY DEF AmbientNeedsGrant, O!AmbientNeedsGrant, OptionsInv, RevokesFollow, CuesFollowed, Pending
<1>2. QED
    BY <1>1, OptionsInvHolds, PTL

----------------------------------------------------------------------------
(* What the worker puts into a page.                                       *)

CuedItems == {ItemOf[u] : u \in Urls} \union {NoItem}
Deciding == {"asking", "resolving", "deciding"}
Showing == {"injecting", "calling", "noting"}
TabStates == [url : Urls, doc : Nat, gone : BOOLEAN]
DecisionRuns ==
    [url : Urls, item : CuedItems, gen : Nat, pc : Deciding \union Showing, seen : Nat,
     late : BOOLEAN, again : BOOLEAN]
PageCues == [item : CuedItems, at : Urls, late : BOOLEAN, again : BOOLEAN, ours : BOOLEAN]

SurfacesType ==
    /\ tab \in TabStates
    /\ nav \in [gen : Nat, due : BOOLEAN]
    /\ runs \in SUBSET DecisionRuns
    /\ cue \in PageCues
    /\ open \in BOOLEAN
    /\ intent \in [CueIntents -> {"none", "missed", "injected", "delivered", "lost", "dropped"}]

\* A generation is one run's at most, and none's while its debounce is on.
RunsDiffer ==
    /\ ~tab.gone => \A r \in runs : r.gen <= nav.gen /\ (nav.due => r.gen # nav.gen)
    /\ \A r, o \in runs : r.gen = o.gen => r = o

\* A run has a generation, and one that asked what was cued last has an item.
RunsAreNumbered ==
    /\ \A r \in runs : r.gen # 0 /\ (r.pc # "asking" => r.item # NoItem)
    /\ nav.due => nav.gen # 0

\* Of a tab that is gone there is neither a cue nor a memory.
NothingOfTheClosed ==
    tab.gone => /\ cue.item = NoItem /\ quiet = NoItem /\ lastCued = NoItem
                /\ nav = [gen |-> 0, due |-> FALSE]

\* A run that the latest navigation started is still for the item of the page; one on
\* its way to show its cue is, or knows that the tab has moved.
RunsFitThePage ==
    \A r \in runs :
        /\ r.pc = "deciding" /\ r.gen = nav.gen => ItemOf[tab.url] = r.item
        /\ r.pc \in {"injecting", "calling"} => ItemOf[tab.url] = r.item \/ r.late

\* The cue was for the item of the address it is watching.
CueFitsItsAddress == cue.item # NoItem => cue.item = ItemOf[cue.at] \/ cue.late

\* A run may still show its cue.
Live(r) ==
    \/ r.pc \in {"resolving", "deciding"} /\ r.gen = nav.gen
    \/ r.pc \in {"injecting", "calling"}

\* The worker has cued the item last, or is about to note that it has.
Claimed(item) == lastCued = item \/ \E r \in runs : r.pc = "noting" /\ r.item = item

\* A run that may still show an item that was cued, or is about to be, knows it.
OverlapsAreKnown ==
    /\ \A r, o \in runs : r # o /\ r.item = o.item /\ r.pc \in Showing /\ Live(o) => r.again /\ o.again
    /\ \A r \in runs : Live(r) /\ r.item = lastCued => r.again

\* What was sent away is what the worker cued.
QuietIsClaimed ==
    /\ cue.item # NoItem /\ cue.ours => Claimed(cue.item)
    /\ quiet # NoItem => Claimed(quiet)

\* What an intent found of the panel, or brought about, stands unless it was not alone.
IntentsStand ==
    \A i \in CueIntents \ crowded :
        /\ intent[i] = "missed" => ~open
        /\ intent[i] = "injected" => open
        /\ intent[i] # "lost"

SurfacesInv ==
    /\ SurfacesType /\ RunsDiffer /\ RunsAreNumbered /\ NothingOfTheClosed
    /\ RunsFitThePage /\ CueFitsItsAddress
    /\ OverlapsAreKnown /\ QuietIsClaimed /\ S!StaysQuiet /\ IntentsStand

\* A run of the decision goes on, and it is the one of its navigation still.
LEMMA RunMoves ==
    ASSUME SurfacesInv, NEW r \in runs, NEW new \in DecisionRuns,
           new.gen = r.gen, new.item = r.item, new.again = r.again, r.pc # "noting",
           new.pc \in {"resolving", "deciding"} => r.pc \in {"resolving", "deciding"},
           new.pc \in {"injecting", "calling"} =>
               r.pc \in {"injecting", "calling"} \/ (r.pc = "deciding" /\ r.gen = nav.gen),
           new.pc = "noting" => r.pc = "calling",
           runs' = (runs \ {r}) \union {new}, tab' = tab, nav' = nav, lastCued' = lastCued
    PROVE  /\ runs' \in SUBSET DecisionRuns /\ RunsDiffer' /\ RunsAreNumbered' /\ OverlapsAreKnown'
           /\ \A item : Claimed(item) => Claimed(item)'
<1>1. /\ runs' \in SUBSET DecisionRuns
      /\ \A x \in runs : x \in DecisionRuns /\ x.gen \in Nat /\ x.pc \in Deciding \union Showing
    BY DEF SurfacesInv, SurfacesType, DecisionRuns
<1>2. RunsDiffer' /\ RunsAreNumbered'
  <2>1. new.pc # "asking" => r.pc # "asking"
    BY DEF DecisionRuns, Deciding, Showing
  <2>2. QED
    BY <2>1 DEF SurfacesInv, RunsDiffer, RunsAreNumbered
<1>3. \A item : Claimed(item) => Claimed(item)'
    BY DEF Claimed
<1>4. Live(new)' => Live(r)
    BY DEF Live
<1>5. \A o \in runs : Live(o)' => Live(o)
    BY DEF Live
<1>6. \A x, o \in runs : x # o /\ x.item = o.item /\ x.pc \in Showing /\ Live(o) => x.again /\ o.again
    BY DEF SurfacesInv, OverlapsAreKnown
<1>7. ASSUME NEW x \in runs', NEW o \in runs', x # o, x.item = o.item, x.pc \in Showing, Live(o)'
      PROVE  x.again /\ o.again
  <2>1. CASE x # new
    <3>1. CASE o = new
      BY <1>4, <1>6, <1>7, <2>1, <3>1
    <3>2. CASE o # new
      BY <1>5, <1>6, <1>7, <2>1, <3>2
    <3>3. QED
      BY <3>1, <3>2
  <2>2. CASE x = new
    <3>1. o \in runs /\ o # r /\ Live(o) /\ o.item = r.item
      BY <1>5, <1>7, <2>2
    <3>2. CASE r.pc \in Showing
      BY <1>6, <2>2, <3>1, <3>2
    <3>3. CASE r.pc = "deciding" /\ r.gen = nav.gen
      <4>1. o.gen # nav.gen
        BY <3>1, <3>3 DEF SurfacesInv, RunsDiffer
      <4>2. o.pc \in Showing
        BY <3>1, <4>1 DEF Live, Showing
      <4>3. Live(r)
        BY <3>3 DEF Live
      <4>4. QED
        BY <1>6, <2>2, <3>1, <4>2, <4>3
    <3>4. QED
      BY <1>7, <2>2, <3>2, <3>3 DEF Showing
  <2>3. QED
    BY <2>1, <2>2
<1>8. ASSUME NEW x \in runs', Live(x)', x.item = lastCued' PROVE x.again
    BY <1>4, <1>5, <1>8 DEF SurfacesInv, OverlapsAreKnown
<1>9. OverlapsAreKnown'
    BY <1>7, <1>8 DEF OverlapsAreKnown
<1>10. QED
    BY <1>1, <1>2, <1>3, <1>9

\* A run ends without having cued anything.
LEMMA RunEnds ==
    ASSUME SurfacesInv, NEW r \in runs, r.pc # "noting",
           runs' = runs \ {r}, tab' = tab, nav' = nav, lastCued' = lastCued
    PROVE  /\ runs' \in SUBSET DecisionRuns /\ RunsDiffer' /\ RunsAreNumbered' /\ OverlapsAreKnown'
           /\ \A item : Claimed(item) => Claimed(item)'
<1>1. runs' \in SUBSET DecisionRuns
    BY DEF SurfacesInv, SurfacesType
<1>2. RunsDiffer' /\ RunsAreNumbered'
    BY DEF SurfacesInv, RunsDiffer, RunsAreNumbered
<1>3. \A item : Claimed(item) => Claimed(item)'
    BY DEF Claimed
<1>4. OverlapsAreKnown'
    BY DEF SurfacesInv, OverlapsAreKnown, Live
<1>5. QED
    BY <1>1, <1>2, <1>3, <1>4

\* A run that ends, or goes on without showing its cue.
LEMMA RunStep ==
    ASSUME SurfacesInv, NEW r \in runs,
           S!Resolve(r) \/ S!Decide(r) \/ S!InjectCue(r)
    PROVE  SurfacesInv'
<1>1. /\ r \in DecisionRuns /\ r.pc \in {"resolving", "deciding", "injecting"} /\ tab \in TabStates
    BY DEF S!Resolve, S!Decide, S!InjectCue, SurfacesInv, SurfacesType
<1>2. /\ tab' = tab /\ nav' = nav /\ lastCued' = lastCued /\ cue' = cue /\ open' = open
      /\ intent' = intent /\ quiet' = quiet /\ crowded' = crowded
    BY DEF S!Resolve, S!Decide, S!InjectCue, S!Idle, S!page, S!bounds, S!history
<1>3. \/ runs' = runs \ {r}
      \/ \E new \in DecisionRuns :
            /\ runs' = (runs \ {r}) \union {new}
            /\ new.gen = r.gen /\ new.item = r.item /\ new.again = r.again /\ new.late = r.late
            /\ \/ r.pc = "resolving" /\ new.pc = "deciding" /\ ItemOf[tab.url] = r.item
               \/ r.pc = "deciding" /\ new.pc = "injecting" /\ r.gen = nav.gen
               \/ r.pc = "injecting" /\ new.pc = "calling"
  <2>1. CASE S!Resolve(r)
    <3> DEFINE new == [r EXCEPT !.pc = "deciding"]
    <3>1. /\ new \in DecisionRuns /\ new.gen = r.gen /\ new.item = r.item /\ new.again = r.again
          /\ new.late = r.late /\ new.pc = "deciding"
      BY <1>1 DEF DecisionRuns, Deciding, Showing
    <3>2. \/ runs' = runs \ {r}
          \/ runs' = (runs \ {r}) \union {new} /\ r.pc = "resolving" /\ ItemOf[tab.url] = r.item
      BY <2>1 DEF S!Resolve, S!Becomes, S!Ends
    <3>3. QED
      BY <3>1, <3>2
  <2>2. CASE S!Decide(r)
    <3> DEFINE new == [r EXCEPT !.pc = "injecting"]
    <3>1. /\ new \in DecisionRuns /\ new.gen = r.gen /\ new.item = r.item /\ new.again = r.again
          /\ new.late = r.late /\ new.pc = "injecting"
      BY <1>1 DEF DecisionRuns, Deciding, Showing
    <3>2. \/ runs' = runs \ {r}
          \/ runs' = (runs \ {r}) \union {new} /\ r.pc = "deciding" /\ r.gen = nav.gen
      BY <2>2 DEF S!Decide, S!Superseded, S!Becomes, S!Ends
    <3>3. QED
      BY <3>1, <3>2
  <2>3. CASE S!InjectCue(r)
    <3> DEFINE new == [r EXCEPT !.pc = "calling", !.seen = tab.doc]
    <3>1. /\ new \in DecisionRuns /\ new.gen = r.gen /\ new.item = r.item /\ new.again = r.again
          /\ new.late = r.late /\ new.pc = "calling"
      BY <1>1 DEF DecisionRuns, TabStates, Deciding, Showing
    <3>2. \/ runs' = runs \ {r}
          \/ runs' = (runs \ {r}) \union {new} /\ r.pc = "injecting"
      BY <2>3 DEF S!InjectCue, S!Ends
    <3>3. QED
      BY <3>1, <3>2
  <2>4. QED
    BY <2>1, <2>2, <2>3
<1>4. /\ runs' \in SUBSET DecisionRuns /\ RunsDiffer' /\ RunsAreNumbered' /\ OverlapsAreKnown'
      /\ \A item : Claimed(item) => Claimed(item)'
  <2>1. CASE runs' = runs \ {r}
    BY <1>1, <1>2, <2>1, RunEnds
  <2>2. CASE runs' # runs \ {r}
    <3>1. PICK new \in DecisionRuns :
            /\ runs' = (runs \ {r}) \union {new}
            /\ new.gen = r.gen /\ new.item = r.item /\ new.again = r.again
            /\ \/ r.pc = "resolving" /\ new.pc = "deciding"
               \/ r.pc = "deciding" /\ new.pc = "injecting" /\ r.gen = nav.gen
               \/ r.pc = "injecting" /\ new.pc = "calling"
      BY <1>3, <2>2
    <3>2. QED
      BY <1>1, <1>2, <3>1, RunMoves
  <2>3. QED
    BY <2>1, <2>2
<1>5. RunsFitThePage'
  <2>1. \A o \in runs : /\ o.pc = "deciding" /\ o.gen = nav.gen => ItemOf[tab.url] = o.item
                        /\ o.pc \in {"injecting", "calling"} => ItemOf[tab.url] = o.item \/ o.late
    BY DEF SurfacesInv, RunsFitThePage
  <2>2. QED
    BY <1>2, <1>3, <2>1 DEF RunsFitThePage
<1>6. SurfacesType'
    BY <1>2, <1>4 DEF SurfacesInv, SurfacesType
<1>7. /\ NothingOfTheClosed' /\ CueFitsItsAddress' /\ QuietIsClaimed' /\ (S!StaysQuiet)'
      /\ IntentsStand'
    BY <1>2, <1>4 DEF SurfacesInv, NothingOfTheClosed, CueFitsItsAddress, QuietIsClaimed, S!StaysQuiet,
                      IntentsStand
<1>8. QED
    BY <1>4, <1>5, <1>6, <1>7 DEF SurfacesInv

\* The debounce is over and a run starts.
LEMMA RunStarts ==
    ASSUME SurfacesInv, S!runAmbient
    PROVE  SurfacesInv'
<1>1. /\ nav.due /\ nav' = [nav EXCEPT !.due = FALSE] /\ runs' = runs \union {S!Run(tab.url, nav.gen)}
      /\ tab' = tab /\ lastCued' = lastCued /\ cue' = cue /\ open' = open
      /\ intent' = intent /\ quiet' = quiet /\ crowded' = crowded
    BY DEF S!runAmbient, S!page, S!history
<1>2. tab \in TabStates /\ nav \in [gen : Nat, due : BOOLEAN]
    BY DEF SurfacesInv, SurfacesType
<1>3. PICK new \in DecisionRuns : new.gen = nav.gen /\ new.pc = "asking" /\ runs' = runs \union {new}
  <2>1. S!Run(tab.url, nav.gen) \in DecisionRuns
    BY <1>2 DEF S!Run, DecisionRuns, TabStates, CuedItems, Deciding
  <2>2. S!Run(tab.url, nav.gen).gen = nav.gen /\ S!Run(tab.url, nav.gen).pc = "asking"
    BY DEF S!Run
  <2>3. QED
    BY <1>1, <2>1, <2>2
<1>4. nav' \in [gen : Nat, due : BOOLEAN] /\ nav'.gen = nav.gen /\ ~nav'.due
    BY <1>1, <1>2
<1>5. SurfacesType'
    BY <1>1, <1>3, <1>4 DEF SurfacesInv, SurfacesType
<1>6. RunsDiffer' /\ RunsAreNumbered' /\ NothingOfTheClosed'
  <2>1. ~tab.gone
    BY <1>1 DEF SurfacesInv, NothingOfTheClosed
  <2>2. RunsDiffer'
    BY <1>1, <1>2, <1>3, <1>4, <2>1 DEF SurfacesInv, RunsDiffer
  <2>3. RunsAreNumbered'
    BY <1>1, <1>3, <1>4 DEF SurfacesInv, RunsAreNumbered
  <2>4. QED
    BY <1>1, <2>1, <2>2, <2>3 DEF NothingOfTheClosed
<1>7. RunsFitThePage'
    BY <1>1, <1>3, <1>4 DEF SurfacesInv, RunsFitThePage
<1>8. OverlapsAreKnown'
  <2>1. ~Live(new)' /\ new.pc \notin Showing
    BY <1>3 DEF Live, Showing
  <2>2. \A o \in runs : Live(o)' => Live(o)
    BY <1>4 DEF Live
  <2>3. QED
    BY <1>1, <1>3, <2>1, <2>2 DEF SurfacesInv, OverlapsAreKnown
<1>9. \A item : Claimed(item) => Claimed(item)'
    BY <1>1 DEF Claimed
<1>10. CueFitsItsAddress' /\ QuietIsClaimed' /\ (S!StaysQuiet)' /\ IntentsStand'
    BY <1>1, <1>9 DEF SurfacesInv, CueFitsItsAddress, QuietIsClaimed, S!StaysQuiet, IntentsStand
<1>11. QED
    BY <1>5, <1>6, <1>7, <1>8, <1>10 DEF SurfacesInv

\* A run asks what was cued last.
LEMMA RunAsks ==
    ASSUME SurfacesInv, NEW r \in runs, S!Ask(r)
    PROVE  SurfacesInv'
<1> DEFINE Rivals == {o \in runs : o.item = r.item /\ o.pc \in {"injecting", "calling", "noting"}}
           asker == [r EXCEPT !.pc = "resolving", !.again = Rivals # {}]
           told(o) == [o EXCEPT !.again = TRUE]
<1>1. /\ tab' = tab /\ nav' = nav /\ lastCued' = lastCued /\ cue' = cue /\ open' = open
      /\ intent' = intent /\ quiet' = quiet /\ crowded' = crowded /\ r.pc = "asking"
    BY DEF S!Ask, S!Idle, S!page, S!bounds, S!history
<1>2. CASE runs' = runs \ {r}
  <2>1. /\ runs' \in SUBSET DecisionRuns /\ RunsDiffer' /\ RunsAreNumbered' /\ OverlapsAreKnown'
        /\ \A item : Claimed(item) => Claimed(item)'
    BY <1>1, <1>2, RunEnds
  <2>2. SurfacesType' /\ RunsFitThePage'
    BY <1>1, <1>2, <2>1 DEF SurfacesInv, SurfacesType, RunsFitThePage
  <2>3. /\ NothingOfTheClosed' /\ CueFitsItsAddress' /\ QuietIsClaimed' /\ (S!StaysQuiet)'
        /\ IntentsStand'
    BY <1>1, <2>1 DEF SurfacesInv, NothingOfTheClosed, CueFitsItsAddress, QuietIsClaimed, S!StaysQuiet,
                      IntentsStand
  <2>4. QED
    BY <2>1, <2>2, <2>3 DEF SurfacesInv
<1>3. CASE /\ r.item \notin {NoItem, lastCued}
           /\ runs' = (runs \ ({r} \union Rivals)) \union {asker} \union {told(o) : o \in Rivals}
  <2>1. /\ \A o \in runs : o \in DecisionRuns
        /\ (Rivals # {}) \in BOOLEAN
    BY DEF SurfacesInv, SurfacesType
  <2>2. /\ asker \in DecisionRuns /\ asker.gen = r.gen /\ asker.item = r.item /\ asker.pc = "resolving"
        /\ Rivals # {} => asker.again
    BY <2>1 DEF DecisionRuns, Deciding
  <2>3. ASSUME NEW o \in runs
        PROVE  /\ told(o) \in DecisionRuns /\ told(o).gen = o.gen /\ told(o).item = o.item
               /\ told(o).pc = o.pc /\ told(o).late = o.late /\ told(o).again
    BY <2>1 DEF DecisionRuns
  <2>4. r \notin Rivals /\ Rivals \subseteq runs
    BY <1>1
  <2>5. \A o \in runs : o \in Rivals <=> o.item = r.item /\ o.pc \in Showing
    BY DEF Showing
  <2> HIDE DEF Rivals, asker, told
  <2>6. runs' = (runs \ ({r} \union Rivals)) \union {asker} \union {told(o) : o \in Rivals}
    BY <1>3
  <2>7. \A x \in runs' : \E o \in runs :
           /\ x.gen = o.gen /\ x.item = o.item
           /\ \/ x = o /\ o # r /\ o \notin Rivals
              \/ x = asker /\ o = r
              \/ x = told(o) /\ o \in Rivals
    BY <2>2, <2>3, <2>4, <2>6
  <2>8. \A x \in runs' :
           \/ x = asker
           \/ \E o \in runs \ {r} : /\ x.gen = o.gen /\ x.item = o.item /\ x.pc = o.pc /\ x.late = o.late
                                    /\ o.again => x.again
                                    /\ o \in Rivals => x.again
                                    /\ o \notin Rivals => x = o
    BY <2>3, <2>4, <2>6
  <2>9. RunsDiffer'
    <3>1. ~tab'.gone => \A x \in runs' : x.gen <= nav'.gen /\ (nav'.due => x.gen # nav'.gen)
      BY <1>1, <2>7 DEF SurfacesInv, RunsDiffer
    <3>2. \A o, q \in runs : o.gen = q.gen => o = q
      BY DEF SurfacesInv, RunsDiffer
    <3>3. \A x, y \in runs' : x.gen = y.gen => x = y
      BY <2>7, <2>4, <3>2
    <3>4. QED
      BY <3>1, <3>3 DEF RunsDiffer
  <2>10. SurfacesType'
    <3>1. runs' \in SUBSET DecisionRuns
      BY <2>1, <2>2, <2>3, <2>4, <2>6
    <3>2. QED
      BY <1>1, <3>1 DEF SurfacesInv, SurfacesType
  <2>11. RunsFitThePage'
    <3>1. \A o \in runs : /\ o.pc = "deciding" /\ o.gen = nav.gen => ItemOf[tab.url] = o.item
                          /\ o.pc \in {"injecting", "calling"} => ItemOf[tab.url] = o.item \/ o.late
      BY DEF SurfacesInv, RunsFitThePage
    <3>2. QED
      BY <1>1, <2>2, <2>8, <3>1 DEF RunsFitThePage
  <2>12. OverlapsAreKnown'
    <3>1. \A o, q \in runs : o # q /\ o.item = q.item /\ o.pc \in Showing /\ Live(q) => o.again /\ q.again
      BY DEF SurfacesInv, OverlapsAreKnown
    <3>2. \A o \in runs : Live(o) /\ o.item = lastCued => o.again
      BY DEF SurfacesInv, OverlapsAreKnown
    <3>3. ASSUME NEW x \in runs', NEW y \in runs', x # y, x.item = y.item, x.pc \in Showing, Live(y)'
          PROVE  x.again /\ y.again
      <4>1. PICK o \in runs \ {r} :
               /\ x.gen = o.gen /\ x.item = o.item /\ x.pc = o.pc
               /\ o.again => x.again
               /\ o \in Rivals => x.again
               /\ o \notin Rivals => x = o
        BY <2>2, <2>8, <3>3 DEF Showing
      <4>2. CASE y = asker
        <5>1. o \in Rivals
          BY <2>2, <2>5, <3>3, <4>1, <4>2
        <5>2. QED
          BY <2>2, <4>1, <4>2, <5>1
      <4>3. CASE y # asker
        <5>1. PICK q \in runs \ {r} :
                 /\ y.gen = q.gen /\ y.item = q.item /\ y.pc = q.pc
                 /\ q.again => y.again
                 /\ q \in Rivals => y.again
                 /\ q \notin Rivals => y = q
          BY <2>8, <4>3
        <5>2. Live(q)
          BY <1>1, <3>3, <5>1 DEF Live
        <5>3. CASE o = q
          BY <2>9, <3>3, <4>1, <5>1, <5>3 DEF RunsDiffer
        <5>4. CASE o # q
          BY <3>1, <3>3, <4>1, <5>1, <5>2, <5>4
        <5>5. QED
          BY <5>3, <5>4
      <4>4. QED
        BY <4>2, <4>3
    <3>4. ASSUME NEW x \in runs', Live(x)', x.item = lastCued' PROVE x.again
      <4>1. x # asker
        BY <1>1, <1>3, <2>2, <3>4
      <4>2. PICK o \in runs \ {r} :
               x.gen = o.gen /\ x.item = o.item /\ x.pc = o.pc /\ (o.again => x.again)
        BY <2>8, <4>1
      <4>3. QED
        BY <1>1, <3>2, <3>4, <4>2 DEF Live
    <3>5. QED
      BY <3>3, <3>4 DEF OverlapsAreKnown
  <2>13. \A item : Claimed(item) => Claimed(item)'
    <3>1. ASSUME NEW o \in runs, o.pc = "noting"
          PROVE  \E x \in runs' : x.pc = "noting" /\ x.item = o.item
      BY <1>1, <2>3, <2>6, <3>1
    <3>2. QED
      BY <1>1, <3>1 DEF Claimed
  <2>14. /\ NothingOfTheClosed' /\ CueFitsItsAddress' /\ QuietIsClaimed' /\ (S!StaysQuiet)'
         /\ IntentsStand'
    BY <1>1, <2>13 DEF SurfacesInv, NothingOfTheClosed, CueFitsItsAddress, QuietIsClaimed, S!StaysQuiet,
                       IntentsStand
  <2>15. RunsAreNumbered'
    <3>1. \A o \in runs : o.gen # 0 /\ (o.pc # "asking" => o.item # NoItem)
      BY DEF SurfacesInv, RunsAreNumbered
    <3>2. asker.item # NoItem /\ asker.gen # 0
      BY <1>3, <2>2, <3>1
    <3>3. \A x \in runs' : x.gen # 0 /\ (x.pc # "asking" => x.item # NoItem)
      BY <2>8, <3>1, <3>2
    <3>4. QED
      BY <1>1, <3>3 DEF SurfacesInv, RunsAreNumbered
  <2>16. QED
    BY <2>9, <2>10, <2>11, <2>12, <2>14, <2>15 DEF SurfacesInv
<1>4. QED
    BY <1>2, <1>3 DEF S!Ask, S!Ends

\* The cue is shown, or not where the panel is open or the document is gone.
LEMMA CueIsShown ==
    ASSUME SurfacesInv, NEW r \in runs, S!showCue(r)
    PROVE  SurfacesInv'
<1> DEFINE new == [r EXCEPT !.pc = "noting"]
           shown == [item |-> r.item, at |-> tab.url, late |-> r.late, again |-> r.again, ours |-> TRUE]
<1>1. /\ tab' = tab /\ nav' = nav /\ lastCued' = lastCued /\ open' = open
      /\ intent' = intent /\ quiet' = quiet /\ crowded' = crowded /\ r.pc = "calling"
    BY DEF S!showCue, S!bounds, S!history
<1>2. /\ \/ cue' \in {cue, shown} /\ runs' = (runs \ {r}) \union {new}
         \/ cue' = cue /\ runs' = runs \ {r}
      /\ cue' = cue \/ ~tab.gone
    BY DEF S!showCue, S!Becomes, S!Ends
<1>3. r \in DecisionRuns /\ tab \in TabStates /\ tab.url \in Urls
    BY DEF SurfacesInv, SurfacesType, TabStates
<1>4. /\ new \in DecisionRuns /\ new.gen = r.gen /\ new.item = r.item /\ new.again = r.again
      /\ new.pc = "noting"
    BY <1>3 DEF DecisionRuns, Showing
<1>5. /\ shown \in PageCues /\ shown.item = r.item /\ shown.at = tab.url /\ shown.late = r.late
      /\ shown.again = r.again
    BY <1>3 DEF DecisionRuns, PageCues
<1> HIDE DEF new, shown
<1>6. /\ runs' \in SUBSET DecisionRuns /\ RunsDiffer' /\ RunsAreNumbered' /\ OverlapsAreKnown'
      /\ \A item : Claimed(item) => Claimed(item)'
  <2>1. CASE runs' = runs \ {r}
    BY <1>1, <2>1, RunEnds
  <2>2. CASE runs' = (runs \ {r}) \union {new}
    <3>1. PICK n \in DecisionRuns :
             /\ n.gen = r.gen /\ n.item = r.item /\ n.again = r.again /\ n.pc = "noting"
             /\ runs' = (runs \ {r}) \union {n}
      BY <1>4, <2>2
    <3>2. QED
      BY <1>1, <3>1, RunMoves
  <2>3. QED
    BY <1>2, <2>1, <2>2
<1>7. SurfacesType'
  <2>1. cue' \in PageCues
    BY <1>2, <1>5 DEF SurfacesInv, SurfacesType
  <2>2. QED
    BY <1>1, <1>6, <2>1 DEF SurfacesInv, SurfacesType
<1>8. RunsFitThePage'
    BY <1>1, <1>2, <1>4 DEF SurfacesInv, RunsFitThePage
<1>9. CueFitsItsAddress'
  <2>1. ItemOf[tab.url] = r.item \/ r.late
    BY <1>1 DEF SurfacesInv, RunsFitThePage
  <2>2. QED
    BY <1>2, <1>5, <2>1 DEF SurfacesInv, CueFitsItsAddress
<1>10. QuietIsClaimed'
  <2>1. cue' = shown => Claimed(r.item)' \/ cue' = cue
    BY <1>2, <1>4 DEF Claimed
  <2>2. QED
    BY <1>1, <1>2, <1>5, <1>6, <2>1 DEF SurfacesInv, QuietIsClaimed
<1>11. (S!StaysQuiet)'
  <2>1. Claimed(r.item) => r.again
    <3>1. Live(r)
      BY <1>1 DEF Live
    <3>2. QED
      BY <1>1, <3>1 DEF SurfacesInv, OverlapsAreKnown, Claimed, Showing
  <2>2. cue' = shown /\ r.item # NoItem /\ r.item = quiet => r.again
    BY <2>1 DEF SurfacesInv, QuietIsClaimed
  <2>3. QED
    BY <1>1, <1>2, <1>5, <2>2 DEF SurfacesInv, S!StaysQuiet
<1>12. IntentsStand' /\ NothingOfTheClosed'
    BY <1>1, <1>2 DEF SurfacesInv, IntentsStand, NothingOfTheClosed
<1>13. QED
    BY <1>6, <1>7, <1>8, <1>9, <1>10, <1>11, <1>12 DEF SurfacesInv

\* What was cued is noted.
LEMMA CueIsNoted ==
    ASSUME SurfacesInv, NEW r \in runs, S!Note(r)
    PROVE  SurfacesInv'
<1>1. /\ tab' = tab /\ nav' = nav /\ open' = open
      /\ lastCued' = IF nav.gen # 0 THEN r.item ELSE lastCued
      /\ intent' = intent /\ crowded' = crowded /\ r.pc = "noting" /\ runs' = runs \ {r}
      /\ cue' = [cue EXCEPT !.ours = cue.ours /\ cue.item = r.item]
      /\ quiet' = IF quiet = r.item THEN quiet ELSE NoItem
    BY DEF S!Note, S!Noted, S!Ends, S!bounds
<1>2. cue \in PageCues /\ r \in DecisionRuns
    BY DEF SurfacesInv, SurfacesType
<1>3. (cue.ours /\ cue.item = r.item) \in BOOLEAN
    BY Zenon
<1>4. /\ cue' \in PageCues /\ cue'.item = cue.item /\ cue'.at = cue.at /\ cue'.late = cue.late
      /\ cue'.again = cue.again /\ (cue'.ours => cue.ours /\ cue.item = r.item)
    BY <1>1, <1>2, <1>3 DEF PageCues
<1>5. SurfacesType'
    BY <1>1, <1>4 DEF SurfacesInv, SurfacesType
<1>6. RunsDiffer' /\ RunsAreNumbered' /\ RunsFitThePage'
    BY <1>1 DEF SurfacesInv, RunsDiffer, RunsAreNumbered, RunsFitThePage
<1>a. ASSUME tab.gone
      PROVE  /\ NothingOfTheClosed' /\ QuietIsClaimed' /\ (S!StaysQuiet)'
             /\ \A o \in runs' : Live(o)' => o.item # lastCued'
  <2>1. /\ cue.item = NoItem /\ quiet = NoItem /\ lastCued = NoItem
        /\ nav = [gen |-> 0, due |-> FALSE]
    BY <1>a DEF SurfacesInv, NothingOfTheClosed
  <2>2. cue'.item = NoItem /\ quiet' = NoItem /\ lastCued' = NoItem
    BY <1>1, <1>4, <2>1
  <2>3. NothingOfTheClosed' /\ QuietIsClaimed' /\ (S!StaysQuiet)'
    BY <1>1, <2>1, <2>2 DEF NothingOfTheClosed, QuietIsClaimed, S!StaysQuiet
  <2>4. \A o \in runs' : Live(o)' => o.item # lastCued'
    BY <1>1, <2>2 DEF SurfacesInv, RunsAreNumbered, Live
  <2>5. QED
    BY <2>3, <2>4
<1>b. ASSUME ~tab.gone
      PROVE  lastCued' = r.item /\ NothingOfTheClosed'
  <2>1. nav.gen # 0
    <3>1. r.gen # 0 /\ r.gen <= nav.gen /\ r.gen \in Nat /\ nav.gen \in Nat
      BY <1>2, <1>b DEF SurfacesInv, SurfacesType, RunsDiffer, RunsAreNumbered, DecisionRuns
    <3>2. QED
      BY <3>1
  <2>2. lastCued' = r.item
    BY <1>1, <2>1
  <2>3. NothingOfTheClosed'
    BY <1>1, <1>b DEF NothingOfTheClosed
  <2>4. QED
    BY <2>2, <2>3
<1>7. CueFitsItsAddress'
    BY <1>4 DEF SurfacesInv, CueFitsItsAddress
<1>8. OverlapsAreKnown'
  <2>1. \A o \in runs' : Live(o)' => Live(o) /\ o # r
    BY <1>1 DEF Live
  <2>2. r.pc \in Showing
    BY <1>1 DEF Showing
  <2>3. \A o \in runs' : Live(o)' /\ o.item = lastCued' => o.again
    BY <1>1, <1>a, <1>b, <2>1, <2>2 DEF SurfacesInv, OverlapsAreKnown
  <2>4. QED
    BY <1>1, <2>1, <2>3 DEF SurfacesInv, OverlapsAreKnown
<1>9. ~tab.gone => QuietIsClaimed' /\ (S!StaysQuiet)'
  <2>1. ~tab.gone => Claimed(r.item)'
    BY <1>1, <1>b DEF Claimed
  <2>2. QED
    BY <1>1, <1>4, <2>1 DEF SurfacesInv, QuietIsClaimed, S!StaysQuiet
<1>10. QuietIsClaimed' /\ (S!StaysQuiet)' /\ NothingOfTheClosed'
    BY <1>a, <1>b, <1>9
<1>11. IntentsStand'
    BY <1>1 DEF SurfacesInv, IntentsStand
<1>12. QED
    BY <1>5, <1>6, <1>7, <1>8, <1>10, <1>11 DEF SurfacesInv

\* The tab moves on: what a run was about to show may be of the page before.
LEMMA TabMoves ==
    ASSUME SurfacesInv, NEW u \in Urls, S!Navigate(u)
    PROVE  SurfacesInv'
<1> DEFINE later(r) == [r EXCEPT !.late = r.late \/ r.pc \in {"injecting", "calling"}]
<1>1. /\ nav' = [gen |-> nav.gen + 1, due |-> TRUE] /\ runs' = {later(r) : r \in runs}
      /\ lastCued' = lastCued /\ intent' = intent /\ quiet' = quiet /\ ~tab.gone
    BY DEF S!Navigate
<1>2. /\ tab \in TabStates /\ nav \in [gen : Nat, due : BOOLEAN] /\ cue \in PageCues
      /\ open \in BOOLEAN
    BY DEF SurfacesInv, SurfacesType
<1>3. /\ tab' \in TabStates /\ ~tab'.gone
      /\ \/ cue' = cue /\ open' = open /\ crowded' = crowded
         \/ /\ cue' \in PageCues /\ cue'.item = NoItem /\ open' = FALSE
            /\ crowded' = crowded \union {i \in CueIntents : intent[i] # "none"}
  <2>1. CASE tab' = [tab EXCEPT !.url = u] /\ UNCHANGED <<cue, open, crowded>>
    BY <1>1, <1>2, <2>1 DEF TabStates
  <2>2. CASE /\ tab' = [tab EXCEPT !.url = u, !.doc = tab.doc + 1]
             /\ cue' = [S!NoCue EXCEPT !.at = u] /\ open' = FALSE
             /\ crowded' = crowded \union {i \in CueIntents : intent[i] # "none"}
    <3>1. cue' \in PageCues /\ cue'.item = NoItem
      BY <2>2 DEF S!NoCue, PageCues, CuedItems
    <3>2. tab' \in TabStates /\ ~tab'.gone
      <4>1. tab' = [tab EXCEPT !.url = u, !.doc = tab.doc + 1]
        BY <2>2
      <4>2. tab.doc + 1 \in Nat
        BY <1>2 DEF TabStates
      <4>3. tab' \in TabStates /\ tab'.gone = tab.gone
        BY <1>2, <4>1, <4>2 DEF TabStates
      <4>4. QED
        BY <1>1, <4>3
    <3>3. QED
      BY <2>2, <3>1, <3>2
  <2>3. QED
    BY <2>1, <2>2 DEF S!Navigate
<1>4. nav' \in [gen : Nat, due : BOOLEAN] /\ nav'.gen = nav.gen + 1
    BY <1>1, <1>2
<1>5. ASSUME NEW r \in runs
      PROVE  /\ later(r) \in DecisionRuns /\ later(r).gen = r.gen /\ later(r).item = r.item
             /\ later(r).pc = r.pc /\ later(r).again = r.again /\ r.gen \in Nat
             /\ r.pc \in {"injecting", "calling"} => later(r).late
             /\ r.gen # 0 /\ (r.pc # "asking" => r.item # NoItem)
  <2>1. r \in DecisionRuns /\ (r.late \/ r.pc \in {"injecting", "calling"}) \in BOOLEAN
    BY Zenon DEF SurfacesInv, SurfacesType
  <2>2. r.gen # 0 /\ (r.pc # "asking" => r.item # NoItem)
    BY DEF SurfacesInv, RunsAreNumbered
  <2>3. QED
    BY <2>1, <2>2 DEF DecisionRuns
<1> HIDE DEF later
<1>6. /\ runs' \in SUBSET DecisionRuns
      /\ \A x \in runs' : \E r \in runs :
            /\ x = later(r) /\ x.gen = r.gen /\ x.item = r.item /\ x.pc = r.pc /\ x.again = r.again
            /\ r.gen < nav'.gen /\ (r.pc \in {"injecting", "calling"} => x.late)
    BY <1>1, <1>2, <1>4, <1>5 DEF SurfacesInv, RunsDiffer
<1>7. SurfacesType'
    BY <1>1, <1>3, <1>4, <1>6 DEF SurfacesInv, SurfacesType
<1>8. RunsDiffer'
  <2>1. \A r, o \in runs : r.gen = o.gen => r = o
    BY DEF SurfacesInv, RunsDiffer
  <2>2. \A x \in runs' : x.gen < nav'.gen /\ x.gen \in Nat /\ nav'.gen \in Nat
    BY <1>4, <1>5, <1>6
  <2>3. \A x, y \in runs' : x.gen = y.gen => x = y
    BY <1>6, <2>1
  <2>4. QED
    BY <2>2, <2>3 DEF RunsDiffer
<1>9. RunsFitThePage'
  <2>1. \A x \in runs' : x.gen # nav'.gen /\ (x.pc \in {"injecting", "calling"} => x.late)
    BY <1>2, <1>4, <1>5, <1>6
  <2>2. QED
    BY <2>1 DEF RunsFitThePage
<1>10. CueFitsItsAddress'
    BY <1>3 DEF SurfacesInv, CueFitsItsAddress
<1>11. OverlapsAreKnown'
  <2>1. \A x \in runs' : \E r \in runs :
           /\ x = later(r) /\ x.item = r.item /\ x.pc = r.pc /\ x.again = r.again
           /\ Live(x)' => Live(r)
    BY <1>2, <1>4, <1>5, <1>6 DEF Live
  <2>2. \A r, o \in runs : r # o /\ r.item = o.item /\ r.pc \in Showing /\ Live(o) => r.again /\ o.again
    BY DEF SurfacesInv, OverlapsAreKnown
  <2>3. \A x, y \in runs' : x # y /\ x.item = y.item /\ x.pc \in Showing /\ Live(y)' => x.again /\ y.again
    BY <2>1, <2>2
  <2>4. \A x \in runs' : Live(x)' /\ x.item = lastCued' => x.again
    BY <1>1, <2>1 DEF SurfacesInv, OverlapsAreKnown
  <2>5. QED
    BY <2>3, <2>4 DEF OverlapsAreKnown
<1>12. \A item : Claimed(item) => Claimed(item)'
    BY <1>1, <1>5 DEF Claimed
<1>13. QuietIsClaimed' /\ (S!StaysQuiet)'
    BY <1>1, <1>3, <1>12 DEF SurfacesInv, QuietIsClaimed, S!StaysQuiet
<1>14. IntentsStand' /\ NothingOfTheClosed'
    BY <1>1, <1>3 DEF SurfacesInv, IntentsStand, NothingOfTheClosed
<1>15. RunsAreNumbered'
  <2>1. nav'.gen # 0
    BY <1>2, <1>4
  <2>2. \A x \in runs' : x.gen # 0 /\ (x.pc # "asking" => x.item # NoItem)
    BY <1>5, <1>6
  <2>3. QED
    BY <2>1, <2>2 DEF RunsAreNumbered
<1>16. QED
    BY <1>7, <1>8, <1>9, <1>10, <1>11, <1>13, <1>14, <1>15 DEF SurfacesInv

\* The tab is closed, and the worker remembers neither its cue nor its navigations.
LEMMA TabIsClosed ==
    ASSUME SurfacesInv, S!TabClosed
    PROVE  SurfacesInv'
<1>1. /\ tab' = [tab EXCEPT !.gone = TRUE] /\ nav' = [gen |-> 0, due |-> FALSE]
      /\ lastCued' = NoItem /\ cue' = S!NoCue /\ open' = FALSE /\ quiet' = NoItem
      /\ runs' = runs /\ crowded' = crowded
      /\ intent' = [i \in CueIntents |-> IF intent[i] \in {"missed", "injected"}
                                         THEN "dropped" ELSE intent[i]]
    BY DEF S!TabClosed
<1>2. tab \in TabStates
    BY DEF SurfacesInv, SurfacesType
<1>3. tab' \in TabStates /\ tab'.gone /\ tab'.url = tab.url
    BY <1>1, <1>2 DEF TabStates
<1>4. cue' \in PageCues /\ cue'.item = NoItem
    BY <1>1, <1>2 DEF S!NoCue, PageCues, CuedItems, TabStates
<1>5. nav' \in [gen : Nat, due : BOOLEAN] /\ nav'.gen = 0 /\ ~nav'.due
    BY <1>1
<1>6. SurfacesType'
    BY <1>1, <1>3, <1>4, <1>5 DEF SurfacesInv, SurfacesType
<1>7. RunsDiffer' /\ RunsAreNumbered' /\ NothingOfTheClosed'
    BY <1>1, <1>3, <1>4, <1>5 DEF SurfacesInv, RunsDiffer, RunsAreNumbered, NothingOfTheClosed
<1>8. \A r \in runs : r.gen # nav'.gen /\ (Live(r)' => Live(r) /\ r.item # NoItem)
    BY <1>5 DEF SurfacesInv, RunsAreNumbered, Live
<1>9. RunsFitThePage'
    BY <1>1, <1>3, <1>8 DEF SurfacesInv, RunsFitThePage
<1>10. OverlapsAreKnown'
    BY <1>1, <1>8 DEF SurfacesInv, OverlapsAreKnown
<1>11. CueFitsItsAddress' /\ QuietIsClaimed' /\ (S!StaysQuiet)'
    BY <1>1, <1>4 DEF CueFitsItsAddress, QuietIsClaimed, S!StaysQuiet
<1>12. IntentsStand'
    BY <1>1 DEF SurfacesInv, IntentsStand
<1>13. QED
    BY <1>6, <1>7, <1>9, <1>10, <1>11, <1>12 DEF SurfacesInv

\* The cue goes, since the page moved on or the panel is open, or by a click.
LEMMA CueGoes ==
    ASSUME SurfacesInv, S!CueTick \/ S!CueClick
    PROVE  SurfacesInv'
<1>1. /\ tab' = tab /\ nav' = nav /\ runs' = runs /\ lastCued' = lastCued /\ open' = open
      /\ intent' = intent /\ crowded' = crowded /\ cue' = S!NoCue
      /\ quiet' = quiet \/ (quiet' = cue.item /\ cue.item # NoItem /\ cue.ours)
    BY DEF S!CueTick, S!CueClick, S!worker, S!bounds, S!history
<1>2. cue' \in PageCues /\ cue'.item = NoItem
    BY <1>1 DEF SurfacesInv, SurfacesType, TabStates, S!NoCue, PageCues, CuedItems
<1>3. SurfacesType'
    BY <1>1, <1>2 DEF SurfacesInv, SurfacesType
<1>4. /\ RunsDiffer' /\ RunsAreNumbered' /\ RunsFitThePage' /\ OverlapsAreKnown' /\ IntentsStand'
      /\ NothingOfTheClosed'
    BY <1>1, <1>2 DEF SurfacesInv, RunsDiffer, RunsAreNumbered, RunsFitThePage, OverlapsAreKnown, Live,
                      IntentsStand, NothingOfTheClosed
<1>5. CueFitsItsAddress' /\ (S!StaysQuiet)'
    BY <1>2 DEF CueFitsItsAddress, S!StaysQuiet
<1>6. quiet' # NoItem => Claimed(quiet')
    BY <1>1 DEF SurfacesInv, QuietIsClaimed
<1>7. QuietIsClaimed'
    BY <1>1, <1>2, <1>6 DEF QuietIsClaimed, Claimed
<1>8. QED
    BY <1>3, <1>4, <1>5, <1>7 DEF SurfacesInv

\* The panel opens or closes, by the hotkey, the cue, a menu's intent or Escape.
LEMMA PanelStep ==
    ASSUME SurfacesInv,
           \/ S!showRelated \/ S!Escape \/ S!injectPanel
           \/ \E i \in CueIntents : S!deliverIntent(i)
    PROVE  SurfacesInv'
<1>1. /\ tab' = tab /\ nav' = nav /\ runs' = runs /\ lastCued' = lastCued /\ cue' = cue
      /\ quiet' = quiet
    BY DEF S!showRelated, S!Escape, S!injectPanel, S!deliverIntent, S!page, S!worker, S!bounds, S!history
<1>2. /\ open \in BOOLEAN
      /\ intent \in [CueIntents -> {"none", "missed", "injected", "delivered", "lost", "dropped"}]
      /\ \A i \in CueIntents : i \notin crowded =>
            /\ intent[i] = "missed" => ~open
            /\ intent[i] = "injected" => open
            /\ intent[i] # "lost"
    BY DEF SurfacesInv, SurfacesType, IntentsStand
<1>3. /\ open' \in BOOLEAN
      /\ intent' \in [CueIntents -> {"none", "missed", "injected", "delivered", "lost", "dropped"}]
      /\ \A i \in CueIntents : i \notin crowded' =>
            /\ intent'[i] = "missed" => ~open'
            /\ intent'[i] = "injected" => open'
            /\ intent'[i] # "lost"
  <2>1. CASE S!showRelated
    BY <1>2, <2>1 DEF S!showRelated, S!page, S!history
  <2>2. CASE S!Escape
    BY <1>2, <2>2 DEF S!Escape, S!worker
  <2>3. CASE S!injectPanel
    BY <1>2, <2>3 DEF S!injectPanel
  <2>4. ASSUME NEW i \in CueIntents, S!deliverIntent(i)
        PROVE  /\ open' \in BOOLEAN
               /\ intent' \in [CueIntents -> {"none", "missed", "injected", "delivered", "lost", "dropped"}]
               /\ \A j \in CueIntents : j \notin crowded' =>
                     /\ intent'[j] = "missed" => ~open'
                     /\ intent'[j] = "injected" => open'
                     /\ intent'[j] # "lost"
    <3>1. CASE intent[i] = "none"
      BY <1>2, <2>4, <3>1 DEF S!deliverIntent, S!Hook, S!page, S!history
    <3>2. CASE intent[i] = "missed"
      BY <1>2, <2>4, <3>2 DEF S!deliverIntent, S!Underway
    <3>3. CASE intent[i] = "injected"
      BY <1>2, <2>4, <3>3 DEF S!deliverIntent, S!Hook, S!page, S!history
    <3>4. QED
      BY <2>4, <3>1, <3>2, <3>3 DEF S!deliverIntent
  <2>5. QED
    BY <2>1, <2>2, <2>3, <2>4
<1>4. SurfacesType' /\ IntentsStand'
    BY <1>1, <1>3 DEF SurfacesInv, SurfacesType, IntentsStand
<1>5. /\ RunsDiffer' /\ RunsAreNumbered' /\ RunsFitThePage' /\ OverlapsAreKnown' /\ CueFitsItsAddress'
      /\ NothingOfTheClosed'
    BY <1>1 DEF SurfacesInv, RunsDiffer, RunsAreNumbered, RunsFitThePage, OverlapsAreKnown, Live,
                CueFitsItsAddress, NothingOfTheClosed
<1>6. QuietIsClaimed' /\ (S!StaysQuiet)'
    BY <1>1 DEF SurfacesInv, QuietIsClaimed, Claimed, S!StaysQuiet
<1>7. QED
    BY <1>4, <1>5, <1>6 DEF SurfacesInv

\* The worker is evicted, and remembers neither runs nor cues.
LEMMA WorkerIsEvicted ==
    ASSUME SurfacesInv, S!Evict
    PROVE  SurfacesInv'
<1>1. /\ tab' = tab /\ open' = open /\ crowded' = crowded
      /\ nav' = [gen |-> 0, due |-> FALSE] /\ runs' = {} /\ lastCued' = NoItem /\ quiet' = NoItem
      /\ cue' = [cue EXCEPT !.ours = FALSE]
      /\ intent' = [i \in CueIntents |-> IF intent[i] \in {"missed", "injected"}
                                         THEN "dropped" ELSE intent[i]]
    BY DEF S!Evict
<1>2. /\ cue' \in PageCues /\ cue'.item = cue.item /\ cue'.at = cue.at /\ cue'.late = cue.late /\ ~cue'.ours
    BY <1>1 DEF SurfacesInv, SurfacesType, PageCues
<1>3. SurfacesType'
    BY <1>1, <1>2 DEF SurfacesInv, SurfacesType
<1>4. /\ RunsDiffer' /\ RunsAreNumbered' /\ RunsFitThePage' /\ OverlapsAreKnown'
      /\ NothingOfTheClosed'
    BY <1>1, <1>2 DEF SurfacesInv, RunsDiffer, RunsAreNumbered, RunsFitThePage, OverlapsAreKnown,
                      NothingOfTheClosed
<1>5. CueFitsItsAddress' /\ QuietIsClaimed' /\ (S!StaysQuiet)'
    BY <1>1, <1>2 DEF SurfacesInv, CueFitsItsAddress, QuietIsClaimed, S!StaysQuiet
<1>6. IntentsStand'
    BY <1>1 DEF SurfacesInv, IntentsStand
<1>7. QED
    BY <1>3, <1>4, <1>5, <1>6 DEF SurfacesInv

\* The invariant of the surfaces holds at first.
LEMMA SurfacesInit ==
    ASSUME S!Init
    PROVE  SurfacesInv
<1>1. /\ tab \in TabStates /\ nav \in [gen : Nat, due : BOOLEAN] /\ runs = {}
      /\ cue = S!NoCue /\ open = FALSE /\ quiet = NoItem /\ intent = [i \in CueIntents |-> "none"]
      /\ ~tab.gone /\ ~nav.due
  <2>1. PICK u \in Urls : tab = [url |-> u, doc |-> 0, gone |-> FALSE]
    BY DEF S!Init
  <2>2. tab \in TabStates /\ ~tab.gone
    BY <2>1 DEF TabStates
  <2>3. nav = [gen |-> 0, due |-> FALSE] /\ runs = {} /\ cue = S!NoCue /\ open = FALSE
        /\ quiet = NoItem /\ intent = [i \in CueIntents |-> "none"]
    BY DEF S!Init
  <2>4. QED
    BY <2>2, <2>3
<1>2. cue \in PageCues /\ cue.item = NoItem
    BY <1>1 DEF S!NoCue, PageCues, CuedItems, TabStates
<1>3. SurfacesType
    BY <1>1, <1>2 DEF SurfacesType
<1>4. RunsDiffer /\ RunsAreNumbered /\ NothingOfTheClosed /\ RunsFitThePage /\ OverlapsAreKnown
    BY <1>1 DEF RunsDiffer, RunsAreNumbered, NothingOfTheClosed, RunsFitThePage, OverlapsAreKnown
<1>5. CueFitsItsAddress /\ QuietIsClaimed /\ S!StaysQuiet /\ IntentsStand
    BY <1>1, <1>2 DEF CueFitsItsAddress, QuietIsClaimed, S!StaysQuiet, IntentsStand
<1>6. QED
    BY <1>3, <1>4, <1>5 DEF SurfacesInv

\* It holds on when nothing of the surfaces moves.
LEMMA SurfacesIdle ==
    ASSUME SurfacesInv, UNCHANGED S!vars
    PROVE  SurfacesInv'
<1>1. UNCHANGED <<tab, nav, runs, lastCued, cue, open, intent, quiet, crowded>>
    BY DEF S!vars, S!page, S!worker, S!history
<1>2. SurfacesType' /\ IntentsStand'
    BY <1>1 DEF SurfacesInv, SurfacesType, IntentsStand
<1>3. /\ RunsDiffer' /\ RunsAreNumbered' /\ RunsFitThePage' /\ OverlapsAreKnown' /\ CueFitsItsAddress'
      /\ NothingOfTheClosed'
    BY <1>1 DEF SurfacesInv, RunsDiffer, RunsAreNumbered, RunsFitThePage, OverlapsAreKnown, Live,
                CueFitsItsAddress, NothingOfTheClosed
<1>4. QuietIsClaimed' /\ (S!StaysQuiet)'
    BY <1>1 DEF SurfacesInv, QuietIsClaimed, Claimed, S!StaysQuiet
<1>5. QED
    BY <1>2, <1>3, <1>4 DEF SurfacesInv

\* The invariant of the surfaces holds, wherever the tab goes between two scripts and
\* whenever the worker is evicted.
THEOREM SurfacesInvHolds == Spec => [](which = "surfaces" => SurfacesInv)
<1> DEFINE Inv == which = "surfaces" => SurfacesInv
<1>1. ASSUME Init PROVE Inv
  <2>1. which = "surfaces" => S!Init
    BY <1>1 DEF Init
  <2>2. QED
    BY <2>1, SurfacesInit
<1>2. ASSUME Inv, [Next]_vars PROVE Inv'
  <2>1. CASE Next
    <3>1. which' = which /\ (which = "surfaces" => S!Next)
      BY <2>1 DEF Next
    <3>2. ASSUME which = "surfaces" PROVE SurfacesInv'
      BY <1>2, <3>1, <3>2, TabMoves, RunStarts, RunAsks, RunStep, CueIsShown, CueIsNoted,
         CueGoes, PanelStep, WorkerIsEvicted, TabIsClosed DEF S!Next
    <3>3. QED
      BY <3>1, <3>2
  <2>2. CASE UNCHANGED vars
    <3>1. which' = which
      BY <2>2 DEF vars
    <3>2. UNCHANGED S!vars
      BY <2>2 DEF vars, ofSurfaces, S!vars, S!page, S!worker, S!bounds, S!history
    <3>3. QED
      BY <1>2, <3>1, <3>2, SurfacesIdle
  <2>3. QED
    BY <1>2, <2>1, <2>2
<1>3. QED
    BY <1>1, <1>2, PTL DEF Spec

\* A cue names the item of the page it is on, unless the tab slipped away while the
\* scripts went in (ambient.ts:87-95, service-worker.ts:1661-1677).
THEOREM CueIsOfThePageHolds == Spec => []CueIsOfThePage
<1>1. (which = "surfaces" => SurfacesInv) => CueIsOfThePage
    BY DEF CueIsOfThePage, S!CueIsOfThePage, SurfacesInv, CueFitsItsAddress
<1>2. QED
    BY <1>1, SurfacesInvHolds, PTL

\* A cue that was sent away stays away until another was cued, unless two decisions
\* overlapped (service-worker.ts:1651-1657, 1716-1724).
THEOREM StaysQuietHolds == Spec => []StaysQuiet
<1>1. (which = "surfaces" => SurfacesInv) => StaysQuiet
    BY DEF StaysQuiet, SurfacesInv
<1>2. QED
    BY <1>1, SurfacesInvHolds, PTL

\* A tab that was closed is forgotten, whichever run was on its way to cue it
\* (service-worker.ts:1716-1724, 1745-1753).
THEOREM ClosedTabIsForgottenHolds == Spec => []ClosedTabIsForgotten
<1>1. (which = "surfaces" => SurfacesInv) => ClosedTabIsForgotten
    BY DEF ClosedTabIsForgotten, S!ClosedTabIsForgotten, SurfacesInv, NothingOfTheClosed
<1>2. QED
    BY <1>1, SurfacesInvHolds, PTL

\* An intent reaches the panel it brings up, unless it was not alone (scripting.ts:85-102).
THEOREM IntentReachesPanelHolds == Spec => []IntentReachesPanel
<1>1. (which = "surfaces" => SurfacesInv) => IntentReachesPanel
    BY DEF IntentReachesPanel, S!IntentReachesPanel, SurfacesInv, IntentsStand
<1>2. QED
    BY <1>1, SurfacesInvHolds, PTL

----------------------------------------------------------------------------
(* The brief's composer.                                                   *)

PassagePages == {PageOf[p] : p \in Passages}
TabPages == Pages \union {ClosedTab}
Picks == [kind : {"tab"}, of : Tabs] \union [kind : {"passages"}, of : PassagePages]
Sources == [kind : {"tab", "passages"}, of : Tabs \union PassagePages,
            page : TabPages \union PassagePages, texts : SUBSET Passages]
TabLists == [named : [Tabs -> TabPages], held : SUBSET Passages, tabsAt : Nat, heldAt : Nat]
TabLoads == [pc : {"drop", "tabs", "held", "answer"}, drop : SUBSET Passages, seen : TabLists]
BriefStarts ==
    [pc : {"sent", "tabs", "fed"}, picks : SUBSET Picks, shown : SUBSET Sources,
     tabsAt : Nat, heldAt : Nat, named : [Tabs -> TabPages], fed : SUBSET Sources]

ComposerType ==
    /\ moves \in Nat
    /\ at \in [Tabs -> [page : TabPages, since : Nat]]
    /\ \A t \in Tabs : at[t].since <= moves
    /\ passage \in [Passages -> [is : {"new", "held", "gone"}, since : Nat]]
    /\ \A p \in Passages : passage[p].since <= moves
    /\ list \in TabLists /\ loads \in SUBSET TabLoads
    /\ selected \in SUBSET Picks /\ asked \in BOOLEAN
    /\ starts \in SUBSET BriefStarts

\* Where a tab has not moved since the list was read, it shows the page it was named by.
TabsStand(named, since) ==
    \A t \in Tabs : named[t] # ClosedTab /\ at[t].since <= since => at[t].page = named[t]

\* What the list does not have of a page it has passages of was collected later.
PassagesStand(l) ==
    \A p \in Passages :
        PageOf[p] \in C!Groups(l) /\ passage[p].is = "held" /\ p \notin l.held
        => passage[p].since > l.heldAt

ListFits(l) ==
    /\ l.tabsAt <= moves /\ l.heldAt <= moves
    /\ TabsStand(l.named, l.tabsAt) /\ PassagesStand(l)

\* The preview is of the list and the picks on the screen.
PreviewFits ==
    /\ selected \subseteq C!composerRows(list, whole)
    /\ preview = C!showPreview(list, selected, asked)

\* What a pick will be resolved to was shown, or is newer than the list.
PickWasShown(s, k) ==
    /\ k.kind = "tab" => \/ at[k.of].since > s.tabsAt
                         \/ \E o \in s.shown : o.kind = "tab" /\ o.page = at[k.of].page
    /\ k.kind = "passages" =>
         \E o \in s.shown :
            /\ o.kind = "passages" /\ o.page = k.of
            /\ \A p \in Passages : PageOf[p] = k.of /\ passage[p].is = "held" /\ p \notin o.texts
                                   => passage[p].since > s.heldAt

\* So is what was fed.
SourceWasShown(s, src) ==
    \/ src.kind = "tab" /\ at[src.of].since > s.tabsAt
    \/ \E o \in s.shown :
          /\ o.kind = src.kind /\ o.page = src.page
          /\ \A p \in src.texts \ o.texts : passage[p].since > s.heldAt

StartFits(s) ==
    /\ s.tabsAt <= moves /\ s.heldAt <= moves
    /\ TabsStand(s.named, s.tabsAt)
    /\ \A k \in s.picks : PickWasShown(s, k)
    /\ \A src \in s.fed : (src.kind = "tab" => src.of \in Tabs) /\ SourceWasShown(s, src)

ComposerInv ==
    /\ ComposerType /\ PreviewFits
    /\ ListFits(list) /\ \A l \in loads : ListFits(l.seen)
    /\ \A s \in starts : StartFits(s)

\* A tab that moves, and a passage that is collected, are newer than all that was read.
Grows ==
    /\ moves' \in Nat /\ moves <= moves'
    /\ \A t \in Tabs : at'[t].since \in Nat /\ (at'[t] = at[t] \/ at'[t].since > moves)
    /\ \A p \in Passages :
          /\ passage'[p].since \in Nat /\ passage[p].since <= passage'[p].since
          /\ passage'[p].is = "held" => passage[p].is = "held" \/ passage'[p].since > moves

\* What was read stays true in that sense.
LEMMA ListsAge ==
    ASSUME ComposerType, Grows, NEW l \in TabLists, ListFits(l)
    PROVE  ListFits(l)'
<1>1. /\ moves \in Nat /\ l.tabsAt \in Nat /\ l.heldAt \in Nat
      /\ \A t \in Tabs : at[t].since \in Nat
      /\ \A p \in Passages : passage[p].since \in Nat
    BY DEF ComposerType, TabLists
<1>2. l.tabsAt <= moves' /\ l.heldAt <= moves'
    BY <1>1 DEF ListFits, Grows
<1>3. TabsStand(l.named, l.tabsAt)'
  <2>1. ASSUME NEW t \in Tabs, l.named[t] # ClosedTab, at'[t].since <= l.tabsAt
        PROVE  at'[t].page = l.named[t]
    <3>1. at'[t] = at[t]
      BY <1>1, <2>1 DEF ListFits, Grows
    <3>2. QED
      BY <2>1, <3>1 DEF Grows, ListFits, TabsStand
  <2>2. QED
    BY <2>1 DEF TabsStand
<1>4. PassagesStand(l)'
  <2>1. ASSUME NEW p \in Passages, PageOf[p] \in C!Groups(l), passage'[p].is = "held", p \notin l.held
        PROVE  passage'[p].since > l.heldAt
    <3>1. passage'[p].since \in Nat /\ passage[p].since <= passage'[p].since
      BY DEF Grows
    <3>2. CASE passage[p].is = "held"
      BY <1>1, <2>1, <3>1, <3>2 DEF ListFits, PassagesStand
    <3>3. CASE passage'[p].since > moves
      BY <1>1, <3>1, <3>3 DEF ListFits
    <3>4. QED
      BY <2>1, <3>2, <3>3 DEF Grows
  <2>2. QED
    BY <2>1 DEF PassagesStand, C!Groups
<1>5. QED
    BY <1>2, <1>3, <1>4 DEF ListFits

\* So does what was shown.
LEMMA StartsAge ==
    ASSUME ComposerType, Grows, NEW s \in BriefStarts, StartFits(s)
    PROVE  StartFits(s)'
<1>1. /\ moves \in Nat /\ s.tabsAt \in Nat /\ s.heldAt \in Nat
      /\ \A t \in Tabs : at[t].since \in Nat
      /\ \A p \in Passages : passage[p].since \in Nat
      /\ s.tabsAt <= moves /\ s.heldAt <= moves /\ moves' \in Nat /\ moves <= moves'
    BY DEF ComposerType, BriefStarts, StartFits, Grows
<1>2. s.tabsAt <= moves' /\ s.heldAt <= moves'
    BY <1>1
<1>3. ASSUME NEW t \in Tabs
      PROVE  at'[t].since \in Nat /\ (at'[t] = at[t] \/ at'[t].since > s.tabsAt)
    BY <1>1 DEF Grows
<1>4. ASSUME NEW p \in Passages
      PROVE  /\ passage[p].since > s.heldAt => passage'[p].since > s.heldAt
             /\ passage'[p].is = "held" => passage[p].is = "held" \/ passage'[p].since > s.heldAt
    BY <1>1 DEF Grows
<1>5. TabsStand(s.named, s.tabsAt)'
  <2>1. ASSUME NEW t \in Tabs, s.named[t] # ClosedTab, at'[t].since <= s.tabsAt
        PROVE  at'[t].page = s.named[t]
    <3>1. at'[t] = at[t]
      BY <1>1, <1>3, <2>1 DEF Grows
    <3>2. QED
      BY <2>1, <3>1 DEF StartFits, TabsStand
  <2>2. QED
    BY <2>1 DEF TabsStand
<1>6. ASSUME NEW k \in s.picks PROVE PickWasShown(s, k)'
  <2>1. /\ k \in Picks /\ PickWasShown(s, k)
        /\ \A o \in s.shown : o.texts \subseteq Passages
    BY DEF StartFits, BriefStarts, Sources
  <2>2. k.kind = "tab" => \/ at'[k.of].since > s.tabsAt
                          \/ \E o \in s.shown : o.kind = "tab" /\ o.page = at'[k.of].page
    <3>1. k.kind = "tab" => k.of \in Tabs
      BY <2>1 DEF Picks
    <3>2. QED
      BY <1>3, <2>1, <3>1 DEF PickWasShown
  <2>3. k.kind = "passages" =>
          \E o \in s.shown :
             /\ o.kind = "passages" /\ o.page = k.of
             /\ \A p \in Passages : PageOf[p] = k.of /\ passage'[p].is = "held" /\ p \notin o.texts
                                    => passage'[p].since > s.heldAt
    BY <1>4, <2>1 DEF PickWasShown
  <2>4. QED
    BY <2>2, <2>3 DEF PickWasShown
<1>7. ASSUME NEW src \in s.fed
      PROVE  (src.kind = "tab" => src.of \in Tabs) /\ SourceWasShown(s, src)'
  <2>1. /\ src.texts \subseteq Passages /\ (src.kind = "tab" => src.of \in Tabs)
        /\ SourceWasShown(s, src)
    BY DEF StartFits, BriefStarts, Sources
  <2>2. CASE src.kind = "tab" /\ at[src.of].since > s.tabsAt
    BY <1>3, <2>1, <2>2 DEF SourceWasShown
  <2>3. CASE \E o \in s.shown :
               /\ o.kind = src.kind /\ o.page = src.page
               /\ \A p \in src.texts \ o.texts : passage[p].since > s.heldAt
    BY <1>4, <2>1, <2>3 DEF SourceWasShown
  <2>4. QED
    BY <2>1, <2>2, <2>3 DEF SourceWasShown
<1>8. QED
    BY <1>2, <1>5, <1>6, <1>7 DEF StartFits

\* Nothing that was read changes when neither a tab nor a passage does.
LEMMA WorldStands ==
    ASSUME ComposerType, UNCHANGED <<at, passage, moves>>
    PROVE  Grows
<1>1. (\A p \in Passages : passage[p].since \in Nat) /\ \A t \in Tabs : at[t].since \in Nat
    BY DEF ComposerType
<1>2. moves \in Nat
    BY DEF ComposerType
<1>3. QED
    BY <1>1, <1>2 DEF Grows

\* The world moves and the composer does not.
LEMMA WorldMoves ==
    ASSUME ComposerInv, Grows, ComposerType',
           UNCHANGED <<loads, list, whole, selected, asked, preview, starts>>
    PROVE  ComposerInv'
<1>1. list \in TabLists /\ (\A l \in loads : l.seen \in TabLists) /\ \A s \in starts : s \in BriefStarts
    BY DEF ComposerInv, ComposerType, TabLoads
<1>2. ListFits(list)'
    BY <1>1, ListsAge DEF ComposerInv
<1>3. \A l \in loads : ListFits(l.seen)'
    BY <1>1, ListsAge DEF ComposerInv
<1>4. \A s \in starts : StartFits(s)'
    BY <1>1, StartsAge DEF ComposerInv
<1>5. PreviewFits'
    BY DEF ComposerInv, PreviewFits, C!composerRows, C!TabPick, C!Lead, C!AsTab, C!Named, C!Groups,
           C!PassagesPick, C!showPreview, C!sourceFor, C!OnPage
<1>6. QED
    BY <1>2, <1>3, <1>4, <1>5 DEF ComposerInv

\* A row of the list is a tab that has been named, or a page with passages.
LEMMA RowFacts ==
    ASSUME NEW l \in TabLists, NEW w, NEW k \in C!composerRows(l, w)
    PROVE  /\ k \in Picks
           /\ k.kind = "tab" => k.of \in Tabs /\ l.named[k.of] # ClosedTab
           /\ k.kind = "passages" => k.of \in C!Groups(l)
<1>1. \/ \E page \in C!Named(l) : k = C!TabPick(l, page)
      \/ \E page \in C!Groups(l) : k = C!PassagesPick(page)
    BY DEF C!composerRows, C!AsTab
<1>2. ASSUME NEW page \in C!Named(l), k = C!TabPick(l, page)
      PROVE  k \in Picks /\ k.kind = "tab" /\ k.of \in Tabs /\ l.named[k.of] # ClosedTab
  <2>1. \E t \in Tabs : l.named[t] = page
    BY DEF C!Named
  <2>2. C!Lead(l, page) \in Tabs /\ l.named[C!Lead(l, page)] = page
    BY <2>1 DEF C!Lead
  <2>3. page # ClosedTab
    BY DEF C!Named
  <2>4. QED
    BY <1>2, <2>2, <2>3 DEF C!TabPick, Picks
<1>3. ASSUME NEW page \in C!Groups(l), k = C!PassagesPick(page)
      PROVE  k \in Picks /\ k.kind = "passages" /\ k.of \in C!Groups(l)
  <2>1. page \in PassagePages
    BY DEF C!Groups, PassagePages, TabLists
  <2>2. QED
    BY <1>3, <2>1 DEF C!PassagesPick, Picks
<1>4. QED
    BY <1>1, <1>2, <1>3

\* The source that a pick stands for.
LEMMA SourceFacts ==
    ASSUME NEW l, l.named \in [Tabs -> TabPages], l.held \in SUBSET Passages, NEW k \in Picks
    PROVE  /\ C!sourceFor(k, l) \in Sources /\ C!sourceFor(k, l).kind = k.kind
           /\ C!sourceFor(k, l).of = k.of
           /\ k.kind = "tab" => /\ k.of \in Tabs /\ C!sourceFor(k, l).page = l.named[k.of]
                                /\ C!sourceFor(k, l).texts = {}
           /\ k.kind = "passages" => /\ C!sourceFor(k, l).page = k.of
                                     /\ C!sourceFor(k, l).texts = {p \in l.held : PageOf[p] = k.of}
           /\ k.kind \in {"tab", "passages"}
<1>1. CASE k.kind = "tab"
  <2>1. k.of \in Tabs /\ l.named[k.of] \in TabPages
    BY <1>1 DEF Picks
  <2>2. QED
    BY <1>1, <2>1 DEF C!sourceFor, Sources
<1>2. CASE k.kind = "passages"
  <2>1. k.of \in PassagePages /\ {p \in l.held : PageOf[p] = k.of} \in SUBSET Passages
    BY <1>2 DEF Picks
  <2>2. QED
    BY <1>2, <2>1 DEF C!sourceFor, C!OnPage, Sources
<1>3. QED
    BY <1>1, <1>2 DEF Picks

\* The list is drawn from what was read.
LEMMA Painted ==
    ASSUME NEW l \in TabLists, NEW w, NEW ticks, C!paint(l, w, ticks), asked \in BOOLEAN
    PROVE  /\ list' = l /\ asked' = asked /\ selected' \in SUBSET Picks /\ PreviewFits'
<1>1. /\ list' = l /\ whole' = w \intersect C!Named(l) /\ asked' = asked
      /\ selected' = ticks \intersect C!composerRows(l, whole')
      /\ preview' = C!showPreview(l, selected', asked)
    BY DEF C!paint, C!Drawn
<1>2. C!composerRows(l, whole') \subseteq Picks
    BY RowFacts
<1>3. /\ selected' \subseteq C!composerRows(list', whole')
      /\ preview' = C!showPreview(list', selected', asked')
    BY <1>1
<1>4. PreviewFits'
    BY <1>3 DEF PreviewFits
<1>5. QED
    BY <1>1, <1>2, <1>4

\* What was read and shown stays so when neither a tab nor a passage moves.
LEMMA Unmoved ==
    ASSUME UNCHANGED <<at, passage, moves>>
    PROVE  /\ \A l : ListFits(l) => ListFits(l)'
           /\ \A s : StartFits(s) => StartFits(s)'
<1>1. \A l : ListFits(l) => ListFits(l)'
    BY DEF ListFits, TabsStand, PassagesStand, C!Groups
<1>2. \A s : StartFits(s) => StartFits(s)'
    BY DEF StartFits, TabsStand, PickWasShown, SourceWasShown
<1>3. QED
    BY <1>1, <1>2

\* The composer's own steps leave its invariant to what they change.
LEMMA OwnStep ==
    ASSUME ComposerInv, UNCHANGED <<at, passage, moves>>,
           \A l \in loads' : l \in TabLoads /\ ListFits(l.seen),
           list' \in TabLists, ListFits(list'), selected' \in SUBSET Picks, asked' \in BOOLEAN,
           PreviewFits', \A s \in starts' : s \in BriefStarts /\ StartFits(s)
    PROVE  ComposerInv'
<1>1. ComposerType'
    BY DEF ComposerInv, ComposerType
<1>2. \A l \in loads' : ListFits(l.seen)'
    BY Unmoved
<1>3. \A s \in starts' : StartFits(s)'
    BY Unmoved
<1>4. ListFits(list)'
    BY DEF ListFits, TabsStand, PassagesStand, C!Groups
<1>5. QED
    BY <1>1, <1>2, <1>3, <1>4 DEF ComposerInv

\* The preview stays as it is with the list and the picks.
LEMMA PreviewStands ==
    ASSUME PreviewFits, UNCHANGED <<list, whole, selected, asked, preview>>
    PROVE  PreviewFits'
BY DEF PreviewFits, C!composerRows, C!TabPick, C!Lead, C!AsTab, C!Named, C!Groups,
       C!PassagesPick, C!showPreview, C!sourceFor, C!OnPage

\* What the invariant says of its parts.
LEMMA Parts ==
    ASSUME ComposerInv
    PROVE  /\ \A l \in loads : l \in TabLoads /\ ListFits(l.seen)
           /\ list \in TabLists /\ ListFits(list) /\ selected \in SUBSET Picks /\ asked \in BOOLEAN
           /\ PreviewFits
           /\ \A s \in starts : s \in BriefStarts /\ StartFits(s)
BY DEF ComposerInv, ComposerType

\* A tab moves on or is closed, a passage is collected.
LEMMA WorldSteps ==
    ASSUME ComposerInv,
           \/ \E t \in Tabs, page \in TabPages : C!Navigate(t, page)
           \/ \E p \in Passages : C!collectPassage(p)
    PROVE  ComposerInv'
<1>1. /\ moves' = moves + 1 /\ moves \in Nat
      /\ UNCHANGED <<loads, list, whole, selected, asked, preview, starts>>
    BY DEF C!Navigate, C!collectPassage, C!Move, C!screen, ComposerInv, ComposerType
<1>2. /\ at \in [Tabs -> [page : TabPages, since : Nat]] /\ (\A t \in Tabs : at[t].since <= moves)
      /\ passage \in [Passages -> [is : {"new", "held", "gone"}, since : Nat]]
      /\ \A p \in Passages : passage[p].since <= moves
    BY DEF ComposerInv, ComposerType
<1>3. CASE \E t \in Tabs, page \in TabPages : C!Navigate(t, page)
  <2>1. PICK t \in Tabs, page \in TabPages :
           at' = [at EXCEPT ![t] = [page |-> page, since |-> moves + 1]] /\ passage' = passage
    BY <1>3 DEF C!Navigate
  <2>2. /\ at' \in [Tabs -> [page : TabPages, since : Nat]]
        /\ \A u \in Tabs : /\ at'[u].since \in Nat /\ at'[u].since <= moves'
                           /\ at'[u] = at[u] \/ at'[u].since > moves
    BY <1>1, <1>2, <2>1
  <2>3. \A p \in Passages : passage[p].since \in Nat /\ passage[p].since <= moves'
    BY <1>1, <1>2
  <2>4. Grows
    BY <1>1, <2>1, <2>2, <2>3 DEF Grows
  <2>5. ComposerType'
    BY <1>1, <1>2, <2>1, <2>2, <2>3 DEF ComposerInv, ComposerType
  <2>6. QED
    BY <1>1, <2>4, <2>5, WorldMoves
<1>4. CASE \E p \in Passages : C!collectPassage(p)
  <2>1. PICK p \in Passages :
           passage' = [passage EXCEPT ![p] = [is |-> "held", since |-> moves + 1]] /\ at' = at
    BY <1>4 DEF C!collectPassage
  <2>2. /\ passage' \in [Passages -> [is : {"new", "held", "gone"}, since : Nat]]
        /\ \A q \in Passages : /\ passage'[q].since \in Nat /\ passage'[q].since <= moves'
                               /\ passage[q].since <= passage'[q].since
                               /\ passage'[q] = passage[q] \/ passage'[q].since > moves
    BY <1>1, <1>2, <2>1
  <2>3. \A t \in Tabs : at[t].since \in Nat /\ at[t].since <= moves'
    BY <1>1, <1>2
  <2>4. Grows
    BY <1>1, <2>1, <2>2, <2>3 DEF Grows
  <2>5. ComposerType'
    BY <1>1, <1>2, <2>1, <2>2, <2>3 DEF ComposerInv, ComposerType
  <2>6. QED
    BY <1>1, <2>4, <2>5, WorldMoves
<1>5. QED
    BY <1>3, <1>4

\* Passages are dropped: none is newer for it.
LEMMA Dropped ==
    ASSUME ComposerType, NEW ps, passage' = C!Without(ps), UNCHANGED <<at, moves>>
    PROVE  /\ Grows
           /\ passage' \in [Passages -> [is : {"new", "held", "gone"}, since : Nat]]
           /\ \A p \in Passages : passage'[p].since <= moves'
<1>1. /\ moves \in Nat /\ \A t \in Tabs : at[t].since \in Nat
      /\ passage \in [Passages -> [is : {"new", "held", "gone"}, since : Nat]]
      /\ \A p \in Passages : passage[p].since <= moves
    BY DEF ComposerType
<1>2. \A p \in Passages : /\ passage'[p].since = passage[p].since
                          /\ passage'[p].is = "held" => passage[p].is = "held"
    BY <1>1 DEF C!Without
<1>3. passage' \in [Passages -> [is : {"new", "held", "gone"}, since : Nat]]
  <2>1. \A p \in Passages :
           [passage[p] EXCEPT !.is = "gone"] \in [is : {"new", "held", "gone"}, since : Nat]
    BY <1>1
  <2>2. QED
    BY <1>1, <2>1 DEF C!Without
<1>4. Grows
    BY <1>1, <1>2 DEF Grows
<1>5. QED
    BY <1>1, <1>2, <1>3, <1>4

\* A step that drops passages and leaves the list on the screen as it is.
LEMMA DropStep ==
    ASSUME ComposerInv, NEW ps, passage' = C!Without(ps) \/ passage' = passage, UNCHANGED <<at, moves>>,
           UNCHANGED <<list, whole, selected, asked, preview>>,
           \A l \in loads' : l \in loads \/ (l \in TabLoads /\ ListFits(l.seen)),
           \A s \in starts' : s \in starts
    PROVE  ComposerInv'
<1>1. Grows /\ passage' \in [Passages -> [is : {"new", "held", "gone"}, since : Nat]]
      /\ \A p \in Passages : passage'[p].since <= moves'
  <2>1. CASE passage' = passage
    BY <2>1, WorldStands DEF ComposerInv, ComposerType
  <2>2. CASE passage' = C!Without(ps)
    BY <2>2, Dropped DEF ComposerInv
  <2>3. QED
    BY <2>1, <2>2
<1>2. ComposerType'
    BY <1>1, Parts DEF ComposerInv, ComposerType
<1>3. \A l \in loads' : ListFits(l.seen)'
  <2>1. \A l \in loads' : l.seen \in TabLists /\ ListFits(l.seen)
    BY Parts DEF TabLoads
  <2>2. QED
    BY <1>1, <2>1, ListsAge DEF ComposerInv
<1>4. \A s \in starts' : StartFits(s)'
    BY <1>1, Parts, StartsAge DEF ComposerInv
<1>5. ListFits(list)'
  <2>1. \A l \in TabLists : ListFits(l) => ListFits(l)'
    BY <1>1, ListsAge DEF ComposerInv
  <2>2. PICK l \in TabLists : l = list /\ ListFits(l)
    BY Parts
  <2>3. ListFits(l)' /\ list' = l
    BY <2>1, <2>2
  <2>4. QED
    BY <2>3 DEF ListFits, TabsStand, PassagesStand, C!Groups
<1>6. PreviewFits'
    BY Parts, PreviewStands
<1>7. QED
    BY <1>2, <1>3, <1>4, <1>5, <1>6 DEF ComposerInv

\* An answer that has yet to be read says nothing.
LEMMA NothingRead ==
    ASSUME ComposerType, NEW drop \in SUBSET Passages
    PROVE  C!Load(drop) \in TabLoads /\ ListFits(C!Load(drop).seen)
<1>1. C!Nothing \in TabLists
    BY DEF C!Nothing, TabLists, TabPages
<1>2. C!Load(drop) \in TabLoads /\ C!Load(drop).seen = C!Nothing
    BY <1>1 DEF C!Load, TabLoads
<1>3. ListFits(C!Nothing)
  <2>1. C!Nothing.tabsAt = 0 /\ C!Nothing.heldAt = 0 /\ C!Nothing.held = {}
        /\ \A t \in Tabs : C!Nothing.named[t] = ClosedTab
    BY DEF C!Nothing
  <2>2. C!Groups(C!Nothing) = {} /\ moves \in Nat
    BY <2>1 DEF C!Groups, ComposerType
  <2>3. TabsStand(C!Nothing.named, C!Nothing.tabsAt) /\ PassagesStand(C!Nothing)
    BY <2>1, <2>2 DEF TabsStand, PassagesStand
  <2>4. QED
    BY <2>1, <2>2, <2>3 DEF ListFits
<1>4. QED
    BY <1>2, <1>3

\* The list is asked for again, after a removal or without.
LEMMA ListIsAsked ==
    ASSUME ComposerInv, (\E ps \in C!Removals : C!mutate(ps)) \/ C!Focus
    PROVE  ComposerInv'
<1>1. \E drop \in SUBSET Passages : loads' = loads \union {C!Load(drop)}
  <2>1. C!Removals \subseteq SUBSET Passages
    BY Parts DEF C!Removals, TabLists
  <2>2. {} \in SUBSET Passages
    OBVIOUS
  <2>3. QED
    BY <2>1, <2>2 DEF C!mutate, C!Focus
<1>2. UNCHANGED <<at, passage, moves, list, whole, selected, asked, preview, starts>>
    BY DEF C!mutate, C!Focus, C!world, C!screen
<1>3. \A l \in loads' : l \in loads \/ (l \in TabLoads /\ ListFits(l.seen))
    BY <1>1, NothingRead DEF ComposerInv
<1>4. QED
    BY <1>2, <1>3, DropStep

\* The worker drops what it was told to, or does not, and reads on.
LEMMA DropIsServed ==
    ASSUME ComposerInv, NEW l \in loads, C!DropLands(l)
    PROVE  ComposerInv'
<1>1. /\ passage' = C!Without(l.drop) \/ passage' = passage
      /\ loads' = (loads \ {l}) \union {C!Load({})}
      /\ UNCHANGED <<at, moves, list, whole, selected, asked, preview, starts>>
    BY DEF C!DropLands, C!Goes, C!screen
<1>2. C!Load({}) \in TabLoads /\ ListFits(C!Load({}).seen)
    BY NothingRead DEF ComposerInv
<1>3. QED
    BY <1>1, <1>2, DropStep

\* The worker reads the tabs.
LEMMA TabsAreRead ==
    ASSUME ComposerInv, NEW l \in loads, C!TabsRead(l)
    PROVE  ComposerInv'
<1>1. UNCHANGED <<at, passage, moves, list, whole, selected, asked, preview, starts>>
    BY DEF C!TabsRead, C!world, C!screen
<1>2. PICK named \in C!listTabs :
         loads' = (loads \ {l}) \union
                  {[l EXCEPT !.pc = "held", !.seen.named = named, !.seen.tabsAt = moves]}
    BY DEF C!TabsRead, C!Goes
<1> DEFINE seen == [l.seen EXCEPT !.named = named, !.tabsAt = moves]
           new == [l EXCEPT !.pc = "held", !.seen = seen]
<1>3. /\ l \in TabLoads /\ l.seen \in TabLists /\ ListFits(l.seen) /\ moves \in Nat
    BY Parts DEF ComposerInv, ComposerType, TabLoads
<1>4. /\ named \in [Tabs -> TabPages]
      /\ \A t \in Tabs : named[t] # ClosedTab => at[t].page = named[t]
    BY DEF C!listTabs, ComposerInv, ComposerType, TabPages
<1>5. /\ seen \in TabLists /\ seen.named = named /\ seen.tabsAt = moves
      /\ seen.held = l.seen.held /\ seen.heldAt = l.seen.heldAt
    BY <1>3, <1>4 DEF TabLists
<1>6. new \in TabLoads /\ new.seen = seen
    BY <1>3, <1>5 DEF TabLoads
<1>7. loads' = (loads \ {l}) \union {new}
    BY <1>2, <1>3 DEF TabLoads, TabLists
<1> HIDE DEF seen, new
<1>8. ListFits(seen)
  <2>1. TabsStand(seen.named, seen.tabsAt)
    BY <1>4, <1>5 DEF TabsStand
  <2>2. PassagesStand(seen)
    BY <1>3, <1>5 DEF ListFits, PassagesStand, C!Groups
  <2>3. QED
    BY <1>3, <1>5, <2>1, <2>2 DEF ListFits
<1>9. \A m \in loads' : m \in loads \/ (m \in TabLoads /\ ListFits(m.seen))
    BY <1>6, <1>7, <1>8
<1>10. QED
    BY <1>1, <1>9, DropStep

\* The worker reads the passages.
LEMMA PassagesAreRead ==
    ASSUME ComposerInv, NEW l \in loads, C!PassagesRead(l)
    PROVE  ComposerInv'
<1>1. UNCHANGED <<at, passage, moves, list, whole, selected, asked, preview, starts>>
    BY DEF C!PassagesRead, C!world, C!screen
<1>2. loads' = (loads \ {l}) \union
               {[l EXCEPT !.pc = "answer", !.seen.held = C!Held, !.seen.heldAt = moves]}
    BY DEF C!PassagesRead, C!Goes
<1> DEFINE seen == [l.seen EXCEPT !.held = C!Held, !.heldAt = moves]
           new == [l EXCEPT !.pc = "answer", !.seen = seen]
<1>3. /\ l \in TabLoads /\ l.seen \in TabLists /\ ListFits(l.seen) /\ moves \in Nat
    BY Parts DEF ComposerInv, ComposerType, TabLoads
<1>4. C!Held \in SUBSET Passages /\ \A p \in Passages : passage[p].is = "held" => p \in C!Held
    BY DEF C!Held
<1>5. /\ seen \in TabLists /\ seen.held = C!Held /\ seen.heldAt = moves
      /\ seen.named = l.seen.named /\ seen.tabsAt = l.seen.tabsAt
    BY <1>3, <1>4 DEF TabLists
<1>6. new \in TabLoads /\ new.seen = seen
    BY <1>3, <1>5 DEF TabLoads
<1>7. loads' = (loads \ {l}) \union {new}
    BY <1>2, <1>3 DEF TabLoads, TabLists
<1> HIDE DEF seen, new
<1>8. ListFits(seen)
  <2>1. TabsStand(seen.named, seen.tabsAt)
    BY <1>3, <1>5 DEF ListFits
  <2>2. PassagesStand(seen)
    BY <1>4, <1>5 DEF PassagesStand
  <2>3. QED
    BY <1>3, <1>5, <2>1, <2>2 DEF ListFits
<1>9. \A m \in loads' : m \in loads \/ (m \in TabLoads /\ ListFits(m.seen))
    BY <1>6, <1>7, <1>8
<1>10. QED
    BY <1>1, <1>9, DropStep

\* The worker does not answer.
LEMMA LoadIsLost ==
    ASSUME ComposerInv, NEW l \in loads, C!LoadFails(l)
    PROVE  ComposerInv'
<1>1. loads' = loads \ {l} /\ UNCHANGED <<at, passage, moves, list, whole, selected, asked, preview, starts>>
    BY DEF C!LoadFails, C!world, C!screen
<1>2. QED
    BY <1>1, DropStep

\* An answer lands, in whatever order, or a page is switched to its tab or back: the
\* list is drawn again, and the preview with it.
LEMMA ListIsDrawn ==
    ASSUME ComposerInv, (\E l \in loads : C!loadTabs(l)) \/ (\E page \in Pages : C!toggleWholePage(page))
    PROVE  ComposerInv'
<1>1. \E l \in TabLists : \E w, ticks :
         ListFits(l) /\ C!paint(l, w, ticks) /\ loads' \subseteq loads
  <2>1. ASSUME NEW l \in loads, C!loadTabs(l)
        PROVE  l.seen \in TabLists /\ ListFits(l.seen) /\ C!paint(l.seen, whole, selected) /\ loads' \subseteq loads
    BY <2>1, Parts DEF C!loadTabs, TabLoads
  <2>2. ASSUME NEW page \in Pages, C!toggleWholePage(page)
        PROVE  \E w, ticks : C!paint(list, w, ticks) /\ loads' \subseteq loads
    BY <2>2 DEF C!toggleWholePage
  <2>3. list \in TabLists /\ ListFits(list)
    BY Parts
  <2>4. QED
    BY <2>1, <2>2, <2>3
<1>2. PICK l \in TabLists : \E w, ticks : ListFits(l) /\ C!paint(l, w, ticks) /\ loads' \subseteq loads
    BY <1>1
<1>3. list' = l /\ asked' = asked /\ selected' \in SUBSET Picks /\ PreviewFits'
    BY <1>2, Painted, Parts
<1>4. UNCHANGED <<at, passage, moves, starts>>
    BY DEF C!loadTabs, C!toggleWholePage, C!world
<1>5. QED
    BY <1>2, <1>3, <1>4, Parts, OwnStep

\* A row is ticked or unticked, or a question is typed or deleted.
LEMMA PreviewIsShown ==
    ASSUME ComposerInv, (\E pick \in C!composerRows(list, whole) : C!Tick(pick)) \/ C!Ask
    PROVE  ComposerInv'
<1>1. UNCHANGED <<at, passage, moves, loads, list, whole, starts>>
    BY DEF C!Tick, C!Ask, C!world
<1>2. selected \subseteq C!composerRows(list, whole) /\ C!composerRows(list, whole) \subseteq Picks
      /\ asked \in BOOLEAN
    BY Parts, RowFacts DEF PreviewFits
<1>3. /\ selected' \subseteq C!composerRows(list, whole) /\ asked' \in BOOLEAN
      /\ preview' = C!showPreview(list, selected', asked')
  <2>1. ASSUME NEW pick \in C!composerRows(list, whole), C!Tick(pick)
        PROVE  /\ selected' \subseteq C!composerRows(list, whole) /\ asked' = asked
               /\ preview' = C!showPreview(list, selected', asked)
    BY <1>2, <2>1 DEF C!Tick
  <2>2. ASSUME C!Ask
        PROVE  /\ selected' = selected /\ asked' \in BOOLEAN
               /\ preview' = C!showPreview(list, selected, asked')
    <3>1. C!pickedRows = selected
      BY <1>2 DEF C!pickedRows
    <3>2. QED
      BY <1>2, <2>2, <3>1 DEF C!Ask
  <2>3. QED
    BY <1>2, <2>1, <2>2
<1>4. /\ selected' \subseteq C!composerRows(list', whole')
      /\ preview' = C!showPreview(list', selected', asked')
    BY <1>1, <1>3
<1>5. PreviewFits'
    BY <1>4 DEF PreviewFits
<1>6. list' \in TabLists /\ ListFits(list')
    BY <1>1, Parts
<1>7. selected' \in SUBSET Picks
    BY <1>2, <1>3
<1>8. QED
    BY <1>1, <1>3, <1>5, <1>6, <1>7, Parts, OwnStep

\* Run is clicked: what is picked was shown.
LEMMA RunIsClicked ==
    ASSUME ComposerInv, C!Run
    PROVE  ComposerInv'
<1> DEFINE new == [pc |-> "sent", picks |-> C!pickedRows, shown |-> preview, tabsAt |-> list.tabsAt,
                   heldAt |-> list.heldAt, named |-> C!Nothing.named, fed |-> {}]
<1>1. /\ UNCHANGED <<at, passage, moves, loads, list, whole, selected, asked, preview>>
      /\ asked /\ starts' = starts \union {new}
    BY DEF C!Run, C!isBriefStartRequest, C!world, C!screen
<1>2. /\ list \in TabLists /\ ListFits(list) /\ selected \subseteq C!composerRows(list, whole)
      /\ preview = {C!sourceFor(k, list) : k \in selected}
    BY <1>1, Parts DEF PreviewFits, C!showPreview
<1>3. C!pickedRows = selected
    BY <1>2 DEF C!pickedRows
<1>4. \A k \in selected : /\ k \in Picks
                          /\ k.kind = "tab" => k.of \in Tabs /\ list.named[k.of] # ClosedTab
                          /\ k.kind = "passages" => k.of \in C!Groups(list)
    BY <1>2, RowFacts
<1>5. /\ list.named \in [Tabs -> TabPages] /\ list.held \in SUBSET Passages
      /\ list.tabsAt \in Nat /\ list.heldAt \in Nat
    BY <1>2 DEF TabLists
<1>6. \A k \in selected :
         /\ C!sourceFor(k, list) \in Sources /\ C!sourceFor(k, list).kind = k.kind
         /\ k.kind = "tab" => C!sourceFor(k, list).page = list.named[k.of]
         /\ k.kind = "passages" => /\ C!sourceFor(k, list).page = k.of
                                   /\ C!sourceFor(k, list).texts = {p \in list.held : PageOf[p] = k.of}
    BY <1>4, <1>5, SourceFacts
<1>7. C!Nothing.named \in [Tabs -> TabPages] /\ \A t \in Tabs : C!Nothing.named[t] = ClosedTab
    BY DEF C!Nothing, TabPages
<1>8. /\ new \in BriefStarts /\ new.picks = selected /\ new.shown = preview
      /\ new.tabsAt = list.tabsAt /\ new.heldAt = list.heldAt
      /\ new.named = C!Nothing.named /\ new.fed = {}
    BY <1>2, <1>3, <1>4, <1>5, <1>6, <1>7 DEF BriefStarts
<1> HIDE DEF new
<1>9. StartFits(new)
  <2>1. TabsStand(new.named, new.tabsAt)
    BY <1>7, <1>8 DEF TabsStand
  <2>2. ASSUME NEW k \in selected PROVE PickWasShown(new, k)
    <3>1. C!sourceFor(k, list) \in new.shown
      BY <1>2, <1>8
    <3>2. k.kind = "tab" => \/ at[k.of].since > new.tabsAt
                            \/ \E o \in new.shown : o.kind = "tab" /\ o.page = at[k.of].page
      <4>1. ASSUME k.kind = "tab", ~(at[k.of].since > list.tabsAt)
            PROVE  C!sourceFor(k, list).kind = "tab" /\ C!sourceFor(k, list).page = at[k.of].page
        <5>1. k.of \in Tabs /\ at[k.of].since \in Nat
          BY <1>4, <4>1 DEF ComposerInv, ComposerType
        <5>2. at[k.of].since <= list.tabsAt
          BY <1>5, <4>1, <5>1
        <5>3. QED
          BY <1>2, <1>4, <1>6, <4>1, <5>1, <5>2 DEF ListFits, TabsStand
      <4>2. QED
        BY <1>8, <3>1, <4>1
    <3>3. k.kind = "passages" =>
            \E o \in new.shown :
               /\ o.kind = "passages" /\ o.page = k.of
               /\ \A p \in Passages : PageOf[p] = k.of /\ passage[p].is = "held" /\ p \notin o.texts
                                      => passage[p].since > new.heldAt
      <4>1. ASSUME k.kind = "passages",
                   NEW p \in Passages, PageOf[p] = k.of, passage[p].is = "held",
                   p \notin C!sourceFor(k, list).texts
            PROVE  passage[p].since > list.heldAt
        BY <1>2, <1>4, <1>6, <4>1 DEF ListFits, PassagesStand
      <4>2. QED
        BY <1>6, <1>8, <3>1, <4>1
    <3>4. QED
      BY <3>2, <3>3 DEF PickWasShown
  <2>3. QED
    BY <1>2, <1>8, <2>1, <2>2 DEF StartFits, ListFits
<1>10. list' \in TabLists /\ ListFits(list')
    BY <1>1, <1>2
<1>11. PreviewFits'
    BY <1>1, Parts, PreviewStands
<1>12. QED
    BY <1>1, <1>8, <1>9, <1>10, <1>11, Parts, OwnStep

\* The starts go on, and the composer's screen stays as it is.
LEMMA StartsGoOn ==
    ASSUME ComposerInv,
           UNCHANGED <<at, passage, moves, loads, list, whole, selected, asked, preview>>,
           \A s \in starts' : s \in starts \/ (s \in BriefStarts /\ StartFits(s))
    PROVE  ComposerInv'
<1>1. list' \in TabLists /\ ListFits(list')
    BY Parts
<1>2. PreviewFits'
    BY Parts, PreviewStands
<1>3. QED
    BY <1>1, <1>2, Parts, OwnStep

\* The worker reads the tabs that a start names.
LEMMA StartIsServed ==
    ASSUME ComposerInv, NEW s \in starts, C!StartReadsTabs(s)
    PROVE  ComposerInv'
<1>1. UNCHANGED <<at, passage, moves, loads, list, whole, selected, asked, preview>>
    BY DEF C!StartReadsTabs, C!world, C!screen
<1>2. s \in BriefStarts /\ StartFits(s)
    BY Parts
<1>3. CASE starts' = starts \ {s}
    BY <1>1, <1>3, StartsGoOn
<1>4. CASE \E named \in C!listTabs : starts' = (starts \ {s}) \union {[s EXCEPT !.pc = "tabs", !.named = named]}
  <2>1. PICK named \in C!listTabs : starts' = (starts \ {s}) \union {[s EXCEPT !.pc = "tabs", !.named = named]}
    BY <1>4
  <2> DEFINE new == [s EXCEPT !.pc = "tabs", !.named = named]
  <2>2. /\ named \in [Tabs -> TabPages]
        /\ \A t \in Tabs : named[t] # ClosedTab => at[t].page = named[t]
    BY DEF C!listTabs, ComposerInv, ComposerType, TabPages
  <2>3. /\ new \in BriefStarts /\ new.named = named /\ new.tabsAt = s.tabsAt /\ new.heldAt = s.heldAt
        /\ new.picks = s.picks /\ new.shown = s.shown /\ new.fed = s.fed
    BY <1>2, <2>2 DEF BriefStarts
  <2> HIDE DEF new
  <2>4. TabsStand(new.named, new.tabsAt)
    BY <2>2, <2>3 DEF TabsStand
  <2>5. StartFits(new)
    BY <1>2, <2>3, <2>4 DEF StartFits, PickWasShown, SourceWasShown
  <2>6. starts' = (starts \ {s}) \union {new}
    BY <2>1 DEF new
  <2>7. QED
    BY <1>1, <2>3, <2>5, <2>6, StartsGoOn
<1>5. QED
  <2>1. \/ starts' = starts \ {s}
        \/ \E named \in C!listTabs : starts' = (starts \ {s}) \union {[s EXCEPT !.pc = "tabs", !.named = named]}
    BY DEF C!StartReadsTabs, C!Becomes
  <2>2. QED
    BY <1>3, <1>4, <2>1

\* The worker resolves the picks of a start against the tabs and passages of then.
LEMMA PicksAreResolved ==
    ASSUME ComposerInv, NEW s \in starts, C!handleBriefStart(s)
    PROVE  ComposerInv'
<1>1. UNCHANGED <<at, passage, moves, loads, list, whole, selected, asked, preview>>
    BY DEF C!handleBriefStart, C!world, C!screen
<1>2. s \in BriefStarts /\ StartFits(s)
    BY Parts
<1>3. ASSUME NEW src \in C!resolvePick(s)
      PROVE  src \in Sources /\ (src.kind = "tab" => src.of \in Tabs) /\ SourceWasShown(s, src)
  <2> DEFINE now == [named |-> s.named, held |-> C!Held]
  <2>1. PICK k \in s.picks :
           /\ src = C!sourceFor(k, now) /\ src.page # ClosedTab
           /\ src.kind = "passages" => src.texts # {}
    BY <1>3 DEF C!resolvePick
  <2>2. k \in Picks /\ s.named \in [Tabs -> TabPages] /\ C!Held \in SUBSET Passages
    BY <1>2 DEF BriefStarts, C!Held
  <2>3. now.named = s.named /\ now.held = C!Held
    OBVIOUS
  <2> HIDE DEF now
  <2>4. /\ src \in Sources /\ src.kind = k.kind /\ src.of = k.of /\ k.kind \in {"tab", "passages"}
        /\ k.kind = "tab" => k.of \in Tabs /\ src.page = s.named[k.of] /\ src.texts = {}
        /\ k.kind = "passages" => src.page = k.of /\ src.texts = {p \in C!Held : PageOf[p] = k.of}
    <3>1. /\ now.named \in [Tabs -> TabPages] /\ now.held \in SUBSET Passages
      BY <2>2, <2>3
    <3>2. QED
      BY <2>1, <2>2, <2>3, <3>1, SourceFacts
  <2>5. PickWasShown(s, k)
    BY <1>2 DEF StartFits
  <2>6. CASE k.kind = "tab"
    <3>1. CASE at[k.of].since > s.tabsAt
      BY <2>4, <2>6, <3>1 DEF SourceWasShown
    <3>2. CASE ~(at[k.of].since > s.tabsAt)
      <4>1. at[k.of].since \in Nat /\ s.tabsAt \in Nat
        BY <1>2, <2>4, <2>6 DEF ComposerInv, ComposerType, BriefStarts
      <4>2. at[k.of].since <= s.tabsAt
        BY <3>2, <4>1
      <4>3. at[k.of].page = src.page
        BY <1>2, <2>1, <2>4, <2>6, <4>2 DEF StartFits, TabsStand
      <4>4. \E o \in s.shown : o.kind = "tab" /\ o.page = src.page
        BY <2>5, <2>6, <3>2, <4>3 DEF PickWasShown
      <4>5. QED
        BY <2>4, <2>6, <4>4 DEF SourceWasShown
    <3>3. QED
      BY <2>4, <2>6, <3>1, <3>2
  <2>7. CASE k.kind = "passages"
    <3>1. \A p \in src.texts : p \in Passages /\ PageOf[p] = k.of /\ passage[p].is = "held"
      BY <2>4, <2>7 DEF C!Held
    <3>2. QED
      BY <2>4, <2>5, <2>7, <3>1 DEF PickWasShown, SourceWasShown
  <2>8. QED
    BY <2>4, <2>6, <2>7
<1>4. CASE starts' = starts \ {s}
    BY <1>1, <1>4, StartsGoOn
<1>5. CASE \E picked \in C!pickSources(C!resolvePick(s)) :
              starts' = (starts \ {s}) \union {[s EXCEPT !.pc = "fed", !.fed = picked]}
  <2>1. PICK picked \in SUBSET C!resolvePick(s) :
           starts' = (starts \ {s}) \union {[s EXCEPT !.pc = "fed", !.fed = picked]}
    BY <1>5 DEF C!pickSources
  <2> DEFINE new == [s EXCEPT !.pc = "fed", !.fed = picked]
  <2>2. picked \in SUBSET Sources
    BY <1>3
  <2>3. /\ new \in BriefStarts /\ new.named = s.named /\ new.tabsAt = s.tabsAt /\ new.heldAt = s.heldAt
        /\ new.picks = s.picks /\ new.shown = s.shown /\ new.fed = picked
    BY <1>2, <2>2 DEF BriefStarts
  <2> HIDE DEF new
  <2>4. \A src \in new.fed : (src.kind = "tab" => src.of \in Tabs) /\ SourceWasShown(new, src)
    BY <1>3, <2>3 DEF SourceWasShown
  <2>5. StartFits(new)
    BY <1>2, <2>3, <2>4 DEF StartFits, PickWasShown
  <2>6. starts' = (starts \ {s}) \union {new}
    BY <2>1 DEF new
  <2>7. QED
    BY <1>1, <2>3, <2>5, <2>6, StartsGoOn
<1>6. QED
  <2>1. \/ starts' = starts \ {s}
        \/ \E picked \in C!pickSources(C!resolvePick(s)) :
              starts' = (starts \ {s}) \union {[s EXCEPT !.pc = "fed", !.fed = picked]}
    BY DEF C!handleBriefStart, C!Becomes
  <2>2. QED
    BY <1>4, <1>5, <2>1

\* What was sent is forgotten, or is not.
LEMMA FedIsForgotten ==
    ASSUME ComposerInv, NEW s \in starts, C!forgetFed(s)
    PROVE  ComposerInv'
<1>1. /\ passage' = C!Without(UNION {src.texts : src \in s.fed}) \/ passage' = passage
      /\ starts' = starts \ {s}
      /\ UNCHANGED <<at, moves, loads, list, whole, selected, asked, preview>>
    BY DEF C!forgetFed, C!Becomes, C!screen
<1>2. \A l \in loads' : l \in loads
    BY <1>1
<1>3. QED
    BY <1>1, <1>2, DropStep

\* The invariant of the composer holds at first.
LEMMA ComposerInit ==
    ASSUME C!Init
    PROVE  ComposerInv
<1>1. /\ at \in [Tabs -> [page : Pages, since : {0}]]
      /\ passage \in [Passages -> [is : {"new", "held"}, since : {0}]]
      /\ loads = {C!Load({})} /\ list = C!Nothing /\ whole = {} /\ selected = {} /\ asked = FALSE
      /\ preview = {} /\ starts = {} /\ moves = 0
    BY DEF C!Init
<1>2. C!Nothing \in TabLists /\ C!Load({}) \in TabLoads /\ C!Load({}).seen = C!Nothing
    BY DEF C!Nothing, C!Load, TabLists, TabPages, TabLoads
<1>3. ComposerType
  <2>1. /\ at \in [Tabs -> [page : TabPages, since : Nat]] /\ \A t \in Tabs : at[t].since <= moves
    BY <1>1 DEF TabPages
  <2>2. /\ passage \in [Passages -> [is : {"new", "held", "gone"}, since : Nat]]
        /\ \A p \in Passages : passage[p].since <= moves
    BY <1>1
  <2>3. QED
    BY <1>1, <1>2, <2>1, <2>2 DEF ComposerType
<1>4. ListFits(list) /\ \A l \in loads : ListFits(l.seen)
    BY <1>1, <1>2, <1>3, NothingRead
<1>5. PreviewFits
    BY <1>1 DEF PreviewFits, C!showPreview
<1>6. QED
    BY <1>1, <1>3, <1>4, <1>5 DEF ComposerInv

\* The invariant of the composer holds, however the tabs move, the passages come and go,
\* and the answers overtake each other.
THEOREM ComposerInvHolds == Spec => [](which = "composer" => ComposerInv)
<1> DEFINE Inv == which = "composer" => ComposerInv
<1>1. ASSUME Init PROVE Inv
  <2>1. which = "composer" => C!Init
    BY <1>1 DEF Init
  <2>2. QED
    BY <2>1, ComposerInit
<1>2. ASSUME Inv, [Next]_vars PROVE Inv'
  <2>1. CASE Next
    <3>1. which' = which /\ (which = "composer" => C!Next)
      BY <2>1 DEF Next
    <3>2. ASSUME which = "composer" PROVE ComposerInv'
      <4>1. ComposerInv /\ C!Next
        BY <1>2, <3>1, <3>2
      <4>2. QED
        BY <4>1, WorldSteps, ListIsAsked, DropIsServed, TabsAreRead, PassagesAreRead, LoadIsLost,
           ListIsDrawn, PreviewIsShown, RunIsClicked, StartIsServed, PicksAreResolved, FedIsForgotten
           DEF C!Next, TabPages
    <3>3. QED
      BY <3>1, <3>2
  <2>2. CASE UNCHANGED vars
    <3>1. which' = which
      BY <2>2 DEF vars
    <3>2. UNCHANGED <<at, passage, moves, loads, list, whole, selected, asked, preview, starts>>
      BY <2>2 DEF vars, ofComposer
    <3>3. QED
      BY <1>2, <3>1, <3>2, StartsGoOn
  <2>3. QED
    BY <1>2, <2>1, <2>2
<1>3. QED
    BY <1>1, <1>2, PTL DEF Spec

\* A brief is made of what its preview showed at the click, but for what is newer than
\* the list (preview.ts:286-288).
THEOREM WhatLeavesWasShownHolds == Spec => []WhatLeavesWasShown
<1>1. (which = "composer" => ComposerInv) => WhatLeavesWasShown
    BY DEF WhatLeavesWasShown, C!WhatLeavesWasShown, ComposerInv, StartFits, SourceWasShown
<1>2. QED
    BY <1>1, ComposerInvHolds, PTL

----------------------------------------------------------------------------
(* The panel's lanes.                                                      *)

PanelMessages ==
    [kind : {"resolve", "related", "run", "state", "check", "intent"}, gen : Nat, seq : Nat,
     lane : L!Lanes, subject : L!Subjects, intent : L!Intents \union {L!NoIntent},
     then : BOOLEAN, previous : Urls]

Panels ==
    [pinnedUrl : Urls, pinnedItem : L!Items \union {L!Unknown},
     header : {"loading", "subject", "ambiguous", "nothing"}, chosen : BOOLEAN,
     offered : SUBSET L!Lanes, lastCheckedUrl : Urls, navAway : BOOLEAN, recogniseSeq : Nat,
     generation : Nat, term : L!TermStates, relatedSelection : L!TermStates,
     relatedShown : L!TermStates \union {"nothing"},
     laneState : [L!Lanes -> {"collapsed", "running", "done", "failed"}],
     answer : [L!Lanes -> L!Subjects \union {L!NoSubject}], laneOpen : [L!Lanes -> BOOLEAN],
     laneInFlight : SUBSET L!Lanes, lanePollTimers : SUBSET L!Lanes,
     pendingIntent : L!Intents \union {L!NoIntent}, intentSeq : Nat, closed : BOOLEAN,
     out : SUBSET PanelMessages]

\* A message of the page that the panel describes is about that page.
MessagesFit(p) ==
    \A m \in p.out :
        /\ m.gen <= p.generation
        /\ m.gen = p.generation /\ m.kind \in {"run", "state"} => m.subject.page = p.pinnedUrl

\* A lane that shows an answer shows one about the page.
LanesFit(p) == \A l \in L!Lanes : p.laneState[l] = "done" => p.answer[l].page = p.pinnedUrl

\* The runs under way that the panel waits for.
Running(p, l) == {m \in p.out : m.kind = "run" /\ m.lane = l /\ m.gen = p.generation}

\* A lane has one of them at most, and is in flight then.
FlightsFit(p) ==
    \A l \in L!Lanes :
        /\ l \notin p.laneInFlight => Running(p, l) = {}
        /\ \A m, n \in Running(p, l) : m = n

ClosedFits(p) == p.closed => p.lanePollTimers = {} /\ p.pendingIntent = L!NoIntent

PanelFits(p) ==
    /\ p \in Panels /\ IsFiniteSet(p.out)
    /\ MessagesFit(p) /\ LanesFit(p) /\ FlightsFit(p) /\ ClosedFits(p)

\* An intent that may still be carried out when the answer about the tab's item comes.
Awaited(p) == {m \in p.out : m.kind = "intent" /\ m.gen = p.generation /\ m.seq = p.intentSeq}

\* What may still be carried out is one intent, and later than the last that was: it
\* waits for the header, or for the tab's item.
IntentsInOrder(p, last, latest) ==
    /\ \A m \in p.out : m.kind = "intent" => m.seq <= p.intentSeq
    /\ p.pendingIntent # L!NoIntent =>
         /\ last < p.pendingIntent.id /\ p.pendingIntent.id <= latest
         /\ p.header = "loading" /\ Awaited(p) = {}
    /\ \A m \in Awaited(p) : last < m.intent.id /\ m.intent.id <= latest
    /\ \A m, n \in Awaited(p) : m = n

\* The intent that was carried out last; none was if it is 0.
LastOf(ids) == IF ids = <<>> THEN 0 ELSE ids[Len(ids)]

\* Each came later than the one before it.
Increasing(ids) == \A i, j \in DOMAIN ids : i < j => ids[i] < ids[j]

LanesInv ==
    /\ tab \in Urls /\ gestures \in Nat
    /\ applied \in Seq(Nat) /\ Increasing(applied) /\ LastOf(applied) <= gestures
    /\ PanelFits(panel) /\ IntentsInOrder(panel, LastOf(applied), gestures)

\* The panel is drawn up anew, or changed in what no message of a lane is about.
LEMMA PanelStands ==
    ASSUME NEW p, PanelFits(p), NEW q \in Panels, IsFiniteSet(q.out),
           q.generation = p.generation, q.pinnedUrl = p.pinnedUrl, q.laneInFlight = p.laneInFlight,
           \A m \in q.out : m \in p.out \/ (/\ m.gen = p.generation /\ m.kind # "run"
                                            /\ m.kind = "state" => m.subject.page = p.pinnedUrl),
           LanesFit(q), ClosedFits(q)
    PROVE  PanelFits(q)
<1>1. p.generation \in Nat
    BY DEF PanelFits, Panels
<1>2. MessagesFit(q)
    BY <1>1 DEF PanelFits, MessagesFit
<1>3. \A l \in L!Lanes : Running(q, l) \subseteq Running(p, l)
    BY DEF Running
<1>4. FlightsFit(q)
    BY <1>3 DEF PanelFits, FlightsFit
<1>5. QED
    BY <1>2, <1>4 DEF PanelFits

\* The order of the intents is about few parts of the panel.
LEMMA OrderStands ==
    ASSUME NEW p, NEW q, NEW last, NEW latest, IntentsInOrder(p, last, latest),
           q.generation = p.generation, q.pendingIntent = p.pendingIntent,
           q.intentSeq = p.intentSeq, q.header = p.header,
           \A m \in q.out : m.kind = "intent" => m \in p.out
    PROVE  IntentsInOrder(q, last, latest)
<1>1. Awaited(q) \subseteq Awaited(p)
    BY DEF Awaited
<1>2. QED
    BY <1>1 DEF IntentsInOrder

\* A message that is no run is sent.
LEMMA MessageSent ==
    ASSUME NEW p, PanelFits(p), NEW m \in PanelMessages, m.gen = p.generation, m.kind # "run",
           m.kind = "state" => m.subject.page = p.pinnedUrl
    PROVE  /\ PanelFits(L!Send(p, m)) /\ L!Send(p, m).out = p.out \union {m}
           /\ L!Send(p, m).generation = p.generation /\ L!Send(p, m).pendingIntent = p.pendingIntent
           /\ L!Send(p, m).intentSeq = p.intentSeq /\ L!Send(p, m).header = p.header
<1> DEFINE q == L!Send(p, m)
<1>1. p \in Panels /\ p.out \union {m} \in SUBSET PanelMessages
    BY DEF PanelFits, Panels
<1>2. /\ q \in Panels /\ q.out = p.out \union {m} /\ q.generation = p.generation
      /\ q.pinnedUrl = p.pinnedUrl /\ q.laneInFlight = p.laneInFlight
      /\ q.pendingIntent = p.pendingIntent /\ q.intentSeq = p.intentSeq /\ q.header = p.header
      /\ q.laneState = p.laneState /\ q.answer = p.answer /\ q.closed = p.closed
      /\ q.lanePollTimers = p.lanePollTimers
    BY <1>1 DEF L!Send, Panels
<1> HIDE DEF q
<1>3. IsFiniteSet(q.out)
    BY <1>2, FS_AddElement DEF PanelFits
<1>4. LanesFit(q) /\ ClosedFits(q)
    BY <1>2 DEF PanelFits, LanesFit, ClosedFits
<1>5. PanelFits(q)
    BY <1>2, <1>3, <1>4, PanelStands
<1>6. QED
    BY <1>2, <1>5 DEF q

\* What a message of the panel's own is.
LEMMA MessageFacts ==
    ASSUME NEW p \in Panels, NEW kind \in {"resolve", "related", "run", "state", "check", "intent"}
    PROVE  /\ L!Message(kind, p) \in PanelMessages /\ L!Message(kind, p).kind = kind
           /\ L!Message(kind, p).gen = p.generation /\ L!Message(kind, p).seq = 0
           /\ L!Message(kind, p).subject.page = p.pinnedUrl
<1>1. p.generation \in Nat /\ p.pinnedUrl \in Urls /\ p.lastCheckedUrl \in Urls
    BY DEF Panels
<1>2. [L!NoSubject EXCEPT !.page = p.pinnedUrl] = [page |-> p.pinnedUrl, term |-> "none"]
    BY DEF L!NoSubject
<1>3. [page |-> p.pinnedUrl, term |-> "none"] \in L!Subjects
    BY <1>1 DEF L!Subjects, L!TermStates
<1>4. QED
    BY <1>1, <1>2, <1>3 DEF L!Message, PanelMessages, L!Lanes

\* The header is asked for.
LEMMA HeaderAsked ==
    ASSUME NEW p, PanelFits(p), NEW last, NEW latest, IntentsInOrder(p, last, latest), NEW then \in BOOLEAN
    PROVE  PanelFits(L!loadHeader(p, then)) /\ IntentsInOrder(L!loadHeader(p, then), last, latest)
<1> DEFINE m == [L!Message("resolve", p) EXCEPT !.then = then]
<1>1. p \in Panels
    BY DEF PanelFits
<1>2. m \in PanelMessages /\ m.kind = "resolve" /\ m.gen = p.generation
    BY <1>1, MessageFacts DEF PanelMessages
<1> HIDE DEF m
<1>3. L!loadHeader(p, then) = L!Send(p, m)
    BY DEF L!loadHeader, m
<1>4. QED
    BY <1>2, <1>3, MessageSent, OrderStands

\* Related is asked for.
LEMMA RelatedAsked ==
    ASSUME NEW p, PanelFits(p), NEW last, NEW latest, IntentsInOrder(p, last, latest)
    PROVE  PanelFits(L!loadRelated(p)) /\ IntentsInOrder(L!loadRelated(p), last, latest)
<1> DEFINE base == L!Message("related", p)
           m == [base EXCEPT !.subject.term = p.relatedSelection]
<1>1. p \in Panels /\ p.relatedSelection \in L!TermStates
    BY DEF PanelFits, Panels
<1>2. base \in PanelMessages /\ base.kind = "related" /\ base.gen = p.generation
    BY <1>1, MessageFacts
<1> HIDE DEF base
<1>3. [base.subject EXCEPT !.term = p.relatedSelection] \in L!Subjects
    BY <1>1, <1>2 DEF PanelMessages, L!Subjects
<1>4. m \in PanelMessages /\ m.kind = "related" /\ m.gen = p.generation
    BY <1>2, <1>3 DEF PanelMessages
<1> HIDE DEF m
<1>5. L!loadRelated(p) = L!Send(p, m)
    BY DEF L!loadRelated, m, base
<1>6. QED
    BY <1>4, <1>5, MessageSent, OrderStands

\* The panel's modules count as this one does.
LEMMA LanesCount == ASSUME NEW X PROVE L!Cardinality(X) = Cardinality(X)
BY DEF L!Cardinality, Cardinality

\* A lane is asked: its run is the only one it waits for.
LEMMA RunSent ==
    ASSUME NEW p, PanelFits(p), NEW last, NEW latest, IntentsInOrder(p, last, latest), NEW l \in L!Lanes
    PROVE  PanelFits(L!sendAgentRun(p, l)) /\ IntentsInOrder(L!sendAgentRun(p, l), last, latest)
<1> DEFINE base == L!Message("run", p)
           seq == L!Cardinality({m \in p.out : m.kind = "run" /\ m.lane = l})
           subject == L!laneRequestInput(l, p)
           new == [base EXCEPT !.lane = l, !.subject = subject, !.seq = seq]
           going == [p EXCEPT !.laneInFlight = @ \union {l}, !.laneState[l] = "running"]
           q == L!Send(going, new)
<1>1. CASE l \in p.laneInFlight \/ ~L!laneCanRun(l, p)
    BY <1>1 DEF L!sendAgentRun
<1>2. CASE l \notin p.laneInFlight /\ L!laneCanRun(l, p)
  <2>14. L!sendAgentRun(p, l) = q
    BY <1>2 DEF L!sendAgentRun
  <2>1. p \in Panels /\ p.generation \in Nat /\ p.pinnedUrl \in Urls /\ p.term \in L!TermStates
        /\ p.out \in SUBSET PanelMessages /\ IsFiniteSet(p.out) /\ p.laneInFlight \in SUBSET L!Lanes
        /\ p.laneState \in [L!Lanes -> {"collapsed", "running", "done", "failed"}]
    BY DEF PanelFits, Panels
  <2>2. seq \in Nat
    BY <2>1, FS_Subset, FS_CardinalityType, LanesCount
  <2>3. subject \in L!Subjects /\ subject.page = p.pinnedUrl
    BY <2>1 DEF L!laneRequestInput, L!Subjects, L!TermStates
  <2>4. base \in PanelMessages /\ base.kind = "run" /\ base.gen = p.generation
    BY <2>1, MessageFacts
  <2> HIDE DEF base, seq, subject
  <2>5. /\ new \in PanelMessages /\ new.kind = "run" /\ new.gen = p.generation
        /\ new.lane = l /\ new.subject.page = p.pinnedUrl
    BY <2>2, <2>3, <2>4 DEF PanelMessages
  <2> HIDE DEF new
  <2>6. /\ going \in Panels /\ going.out = p.out /\ going.generation = p.generation
        /\ going.pinnedUrl = p.pinnedUrl /\ going.laneInFlight = p.laneInFlight \union {l}
        /\ going.pendingIntent = p.pendingIntent /\ going.intentSeq = p.intentSeq
        /\ going.header = p.header /\ going.answer = p.answer /\ going.closed = p.closed
        /\ going.lanePollTimers = p.lanePollTimers
        /\ going.laneState = [p.laneState EXCEPT ![l] = "running"]
    BY <2>1 DEF Panels
  <2> HIDE DEF going
  <2>7. going.out \union {new} \in SUBSET PanelMessages
    BY <2>1, <2>5, <2>6
  <2>8. /\ q \in Panels /\ q.out = p.out \union {new} /\ q.generation = p.generation
        /\ q.pinnedUrl = p.pinnedUrl /\ q.laneInFlight = p.laneInFlight \union {l}
        /\ q.pendingIntent = p.pendingIntent /\ q.intentSeq = p.intentSeq /\ q.header = p.header
        /\ q.laneState = [p.laneState EXCEPT ![l] = "running"] /\ q.answer = p.answer
        /\ q.closed = p.closed /\ q.lanePollTimers = p.lanePollTimers
    BY <2>6, <2>7 DEF L!Send, Panels
  <2> HIDE DEF q
  <2>9. IsFiniteSet(q.out)
    BY <2>1, <2>8, FS_AddElement
  <2>10. MessagesFit(q)
    BY <2>1, <2>5, <2>8 DEF PanelFits, MessagesFit
  <2>11. LanesFit(q) /\ ClosedFits(q)
    BY <2>1, <2>8 DEF PanelFits, LanesFit, ClosedFits
  <2>12. FlightsFit(q)
    <3>1. Running(p, l) = {}
      BY <1>2 DEF PanelFits, FlightsFit
    <3>2. Running(q, l) \subseteq Running(p, l) \union {new}
      BY <2>8 DEF Running
    <3>3. \A k \in L!Lanes : k # l => Running(q, k) \subseteq Running(p, k)
      BY <2>5, <2>8 DEF Running
    <3>4. QED
      BY <2>8, <3>1, <3>2, <3>3 DEF PanelFits, FlightsFit
  <2>13. IntentsInOrder(q, last, latest)
    BY <2>5, <2>8, OrderStands
  <2>15. QED
    BY <2>8, <2>9, <2>10, <2>11, <2>12, <2>13, <2>14 DEF PanelFits
<1>3. QED
    BY <1>1, <1>2

\* A lane is opened or closed on the screen.
LEMMA LaneOpened ==
    ASSUME NEW p, PanelFits(p), NEW last, NEW latest, IntentsInOrder(p, last, latest),
           NEW l \in L!Lanes, NEW to \in BOOLEAN
    PROVE  LET q == [p EXCEPT !.laneOpen[l] = to]
           IN  PanelFits(q) /\ IntentsInOrder(q, last, latest)
<1> DEFINE q == [p EXCEPT !.laneOpen[l] = to]
<1>1. p \in Panels /\ p.laneOpen \in [L!Lanes -> BOOLEAN] /\ IsFiniteSet(p.out)
    BY DEF PanelFits, Panels
<1>2. /\ q \in Panels /\ q.out = p.out /\ q.generation = p.generation
      /\ q.pinnedUrl = p.pinnedUrl /\ q.laneInFlight = p.laneInFlight
      /\ q.pendingIntent = p.pendingIntent /\ q.intentSeq = p.intentSeq /\ q.header = p.header
      /\ q.laneState = p.laneState /\ q.answer = p.answer /\ q.closed = p.closed
      /\ q.lanePollTimers = p.lanePollTimers
    BY <1>1 DEF Panels
<1> HIDE DEF q
<1>3. LanesFit(q) /\ ClosedFits(q) /\ IsFiniteSet(q.out)
    BY <1>1, <1>2 DEF PanelFits, LanesFit, ClosedFits
<1>4. PanelFits(q) /\ IntentsInOrder(q, last, latest)
    BY <1>2, <1>3, PanelStands, OrderStands
<1>5. QED
    BY <1>4 DEF q

\* A lane is told what became of its run; it may poll unless the panel is closed.
LEMMA LaneTold ==
    ASSUME NEW p, PanelFits(p), NEW last, NEW latest, IntentsInOrder(p, last, latest),
           NEW l \in L!Lanes, NEW state \in {"collapsed", "running", "done", "failed"},
           NEW subject \in L!Subjects, subject.page = p.pinnedUrl, ~p.closed
    PROVE  PanelFits(L!Told(p, l, state, subject)) /\ IntentsInOrder(L!Told(p, l, state, subject), last, latest)
<1> DEFINE answer == IF state = "done" THEN subject ELSE L!NoSubject
           timers == IF state = "running" THEN p.lanePollTimers \union {l} ELSE p.lanePollTimers
           q == L!Told(p, l, state, subject)
<1>1. /\ p \in Panels /\ IsFiniteSet(p.out) /\ p.lanePollTimers \in SUBSET L!Lanes
      /\ p.laneState \in [L!Lanes -> {"collapsed", "running", "done", "failed"}]
      /\ p.answer \in [L!Lanes -> L!Subjects \union {L!NoSubject}]
    BY DEF PanelFits, Panels
<1>2. answer \in L!Subjects \union {L!NoSubject} /\ timers \in SUBSET L!Lanes
      /\ (state = "done" => answer.page = p.pinnedUrl)
    BY <1>1
<1>3. q = [p EXCEPT !.laneState[l] = state, !.answer[l] = answer, !.lanePollTimers = timers]
    BY DEF L!Told
<1> HIDE DEF answer, timers, q
<1>4. [p.laneState EXCEPT ![l] = state] \in [L!Lanes -> {"collapsed", "running", "done", "failed"}]
      /\ [p.answer EXCEPT ![l] = answer] \in [L!Lanes -> L!Subjects \union {L!NoSubject}]
    BY <1>1, <1>2
<1>5. /\ q \in Panels /\ q.out = p.out /\ q.generation = p.generation
      /\ q.pinnedUrl = p.pinnedUrl /\ q.laneInFlight = p.laneInFlight
      /\ q.pendingIntent = p.pendingIntent /\ q.intentSeq = p.intentSeq /\ q.header = p.header
      /\ q.laneState = [p.laneState EXCEPT ![l] = state]
      /\ q.answer = [p.answer EXCEPT ![l] = answer] /\ q.closed = p.closed
    BY <1>1, <1>2, <1>3, <1>4 DEF Panels
<1>6. LanesFit(q) /\ ClosedFits(q) /\ IsFiniteSet(q.out)
    BY <1>1, <1>2, <1>5 DEF PanelFits, LanesFit, ClosedFits
<1>7. PanelFits(q) /\ IntentsInOrder(q, last, latest)
    BY <1>5, <1>6, PanelStands, OrderStands
<1>8. QED
    BY <1>7 DEF q

\* What is changed is neither of the lanes nor of the intents.
LEMMA AsideSet ==
    ASSUME NEW p, PanelFits(p), NEW last, NEW latest, IntentsInOrder(p, last, latest),
           NEW q \in Panels, q.out = p.out, q.generation = p.generation, q.pinnedUrl = p.pinnedUrl,
           q.laneInFlight = p.laneInFlight, q.laneState = p.laneState, q.answer = p.answer,
           q.lanePollTimers = p.lanePollTimers, q.closed = p.closed,
           q.pendingIntent = p.pendingIntent, q.intentSeq = p.intentSeq, q.header = p.header
    PROVE  PanelFits(q) /\ IntentsInOrder(q, last, latest)
<1>1. IsFiniteSet(q.out) /\ LanesFit(q) /\ ClosedFits(q)
    BY DEF PanelFits, LanesFit, ClosedFits
<1>2. QED
    BY <1>1, PanelStands, OrderStands

\* A selection is carried out.
LEMMA SelectionApplied ==
    ASSUME NEW p, PanelFits(p), NEW last, NEW latest, IntentsInOrder(p, last, latest),
           NEW i \in L!Intents, i.kind \in {"define", "related"}
    PROVE  /\ PanelFits(L!applySelection(p, i))
           /\ IntentsInOrder(L!applySelection(p, i), last, latest)
<1> DEFINE q == [p EXCEPT !.term = i.term]
           r == L!expandLane(q, "glossary")
           s == [q EXCEPT !.relatedSelection = i.term]
<1>1. p \in Panels /\ i.term \in L!TermStates
    BY DEF PanelFits, L!Intents, L!TermStates
<1>2. PanelFits(q) /\ IntentsInOrder(q, last, latest)
  <2>1. /\ q \in Panels /\ q.out = p.out /\ q.generation = p.generation /\ q.pinnedUrl = p.pinnedUrl
        /\ q.laneInFlight = p.laneInFlight /\ q.laneState = p.laneState /\ q.answer = p.answer
        /\ q.lanePollTimers = p.lanePollTimers /\ q.closed = p.closed
        /\ q.pendingIntent = p.pendingIntent /\ q.intentSeq = p.intentSeq /\ q.header = p.header
    BY <1>1 DEF Panels
  <2> HIDE DEF q
  <2>2. QED
    BY <2>1, AsideSet
<1> HIDE DEF q
<1>3. PanelFits(r) /\ IntentsInOrder(r, last, latest)
    BY <1>2, LaneOpened DEF L!expandLane, L!Lanes
<1> HIDE DEF r
<1>4. PanelFits(s) /\ IntentsInOrder(s, last, latest)
  <2>1. /\ s \in Panels /\ s.out = q.out /\ s.generation = q.generation /\ s.pinnedUrl = q.pinnedUrl
        /\ s.laneInFlight = q.laneInFlight /\ s.laneState = q.laneState /\ s.answer = q.answer
        /\ s.lanePollTimers = q.lanePollTimers /\ s.closed = q.closed
        /\ s.pendingIntent = q.pendingIntent /\ s.intentSeq = q.intentSeq /\ s.header = q.header
    BY <1>1, <1>2 DEF PanelFits, Panels
  <2> HIDE DEF s
  <2>2. QED
    BY <1>2, <2>1, AsideSet
<1> HIDE DEF s
<1>5. L!applySelection(p, i) = IF i.kind = "define" THEN L!sendAgentRun(r, "glossary") ELSE L!loadRelated(s)
    BY DEF L!applySelection, q, r, s
<1>6. QED
    BY <1>3, <1>4, <1>5, RunSent, RelatedAsked DEF L!Lanes

\* A lane that was asked for is opened, and asked if it has nothing to show.
LEMMA LaneIntentApplied ==
    ASSUME NEW p, PanelFits(p), NEW last, NEW latest, IntentsInOrder(p, last, latest), NEW l \in L!Lanes
    PROVE  /\ PanelFits(L!applyLaneIntent(p, l))
           /\ IntentsInOrder(L!applyLaneIntent(p, l), last, latest)
<1> DEFINE q == L!expandLane(p, l)
<1>1. PanelFits(q) /\ IntentsInOrder(q, last, latest)
    BY LaneOpened DEF L!expandLane
<1>2. L!applyLaneIntent(p, l) \in {p, q, L!sendAgentRun(q, l)}
    BY DEF L!applyLaneIntent
<1> HIDE DEF q
<1>3. QED
    BY <1>1, <1>2, RunSent

\* An intent starts to wait for the header, or stops to.
LEMMA IntentParked ==
    ASSUME NEW p, PanelFits(p), NEW last, NEW latest, IntentsInOrder(p, last, latest),
           NEW i \in L!Intents \union {L!NoIntent},
           i # L!NoIntent => /\ last < i.id /\ i.id <= latest /\ ~p.closed
                             /\ p.header = "loading" /\ Awaited(p) = {}
    PROVE  LET q == [p EXCEPT !.pendingIntent = i]
           IN  PanelFits(q) /\ IntentsInOrder(q, last, latest)
<1> DEFINE q == [p EXCEPT !.pendingIntent = i]
<1>1. p \in Panels /\ IsFiniteSet(p.out)
    BY DEF PanelFits
<1>2. /\ q \in Panels /\ q.out = p.out /\ q.generation = p.generation /\ q.pinnedUrl = p.pinnedUrl
      /\ q.laneInFlight = p.laneInFlight /\ q.laneState = p.laneState /\ q.answer = p.answer
      /\ q.lanePollTimers = p.lanePollTimers /\ q.closed = p.closed
      /\ q.pendingIntent = i /\ q.intentSeq = p.intentSeq /\ q.header = p.header
    BY <1>1 DEF Panels
<1> HIDE DEF q
<1>3. IsFiniteSet(q.out) /\ LanesFit(q) /\ ClosedFits(q)
    BY <1>1, <1>2 DEF PanelFits, LanesFit, ClosedFits
<1>4. PanelFits(q)
    BY <1>2, <1>3, PanelStands
<1>5. Awaited(q) = Awaited(p)
    BY <1>2 DEF Awaited
<1>6. IntentsInOrder(q, last, latest)
    BY <1>2, <1>5 DEF IntentsInOrder
<1>7. QED
    BY <1>4, <1>6 DEF q

\* An intent that is next in line is carried out, and was the last to be, or waits for
\* the header; none that came before is awaited any more.
LEMMA IntentApplied ==
    ASSUME NEW p, PanelFits(p), NEW last, NEW latest, IntentsInOrder(p, last, latest),
           NEW i \in L!Intents, last < i.id, i.id <= latest, ~p.closed, Awaited(p) = {},
           p.pendingIntent = L!NoIntent \/ p.pendingIntent.id < i.id,
           last \in Nat, latest \in Nat
    PROVE  /\ PanelFits(L!applyOnPinnedItem(p, i))
           /\ IntentsInOrder(L!applyOnPinnedItem(p, i),
                             IF L!CarriesOut(p, i) THEN i.id ELSE last, latest)
<1>1. i.id \in Nat
    BY DEF L!Intents
<1>2. ASSUME NEW q, PanelFits(q), IntentsInOrder(q, last, latest), Awaited(q) = {},
             q.pendingIntent = L!NoIntent
      PROVE  IntentsInOrder(q, i.id, latest)
    BY <1>2 DEF IntentsInOrder
<1>3. CASE i.kind \in {"define", "related"}
  <2> DEFINE q == [p EXCEPT !.pendingIntent = L!NoIntent]
  <2>1. PanelFits(q) /\ IntentsInOrder(q, last, latest)
    BY IntentParked
  <2>2. q.pendingIntent = L!NoIntent /\ Awaited(q) = {}
    BY DEF PanelFits, Panels, Awaited
  <2>3. L!applyOnPinnedItem(p, i) = L!applySelection(q, i) /\ L!CarriesOut(p, i)
    BY <1>3 DEF L!applyOnPinnedItem, L!CarriesOut
  <2> HIDE DEF q
  <2>4. IntentsInOrder(q, i.id, latest)
    BY <1>2, <2>1, <2>2
  <2>5. QED
    BY <1>3, <2>1, <2>3, <2>4, SelectionApplied
<1>4. CASE i.kind \notin {"define", "related"} /\ p.header = "loading"
  <2>1. L!applyOnPinnedItem(p, i) = [p EXCEPT !.pendingIntent = i] /\ ~L!CarriesOut(p, i)
    BY <1>4 DEF L!applyOnPinnedItem, L!CarriesOut
  <2>2. QED
    BY <1>4, <2>1, IntentParked
<1>5. CASE i.kind \notin {"define", "related"} /\ p.header # "loading"
  <2>1. /\ \/ L!applyOnPinnedItem(p, i) = p
           \/ \E l \in L!Lanes : L!applyOnPinnedItem(p, i) = L!applyLaneIntent(p, l)
        /\ L!CarriesOut(p, i) /\ p.pendingIntent = L!NoIntent
    BY <1>5 DEF L!applyOnPinnedItem, L!CarriesOut, IntentsInOrder
  <2>2. IntentsInOrder(p, i.id, latest)
    BY <1>2, <2>1
  <2>3. QED
    BY <2>1, <2>2, LaneIntentApplied
<1>6. QED
    BY <1>3, <1>4, <1>5

\* An intent arrives that is later than all others: it is carried out on the page the
\* panel is pinned to, or the tab's item is asked for first.
LEMMA IntentArrives ==
    ASSUME NEW p, PanelFits(p), NEW last \in Nat, NEW latest \in Nat, IntentsInOrder(p, last, latest),
           NEW i \in L!Intents, last < i.id, i.id <= latest, ~p.closed, tab \in Urls,
           p.pendingIntent = L!NoIntent \/ p.pendingIntent.id < i.id
    PROVE  /\ PanelFits(L!applyIntent(p, i))
           /\ IntentsInOrder(L!applyIntent(p, i),
                             IF tab = p.pinnedUrl /\ L!CarriesOut(p, i) THEN i.id ELSE last, latest)
<1> DEFINE q == [p EXCEPT !.intentSeq = @ + 1]
           r == [q EXCEPT !.pendingIntent = L!NoIntent]
           m == [L!Message("intent", q) EXCEPT !.seq = q.intentSeq, !.intent = i, !.subject.page = tab]
<1>1. L!applyIntent(p, i) = IF tab = p.pinnedUrl THEN L!applyOnPinnedItem(q, i) ELSE L!Send(r, m)
    BY DEF L!applyIntent
<1>2. p \in Panels /\ p.intentSeq \in Nat /\ IsFiniteSet(p.out) /\ p.out \in SUBSET PanelMessages
    BY DEF PanelFits, Panels
<1>3. /\ q \in Panels /\ q.out = p.out /\ q.generation = p.generation /\ q.pinnedUrl = p.pinnedUrl
      /\ q.laneInFlight = p.laneInFlight /\ q.laneState = p.laneState /\ q.answer = p.answer
      /\ q.lanePollTimers = p.lanePollTimers /\ q.closed = p.closed
      /\ q.pendingIntent = p.pendingIntent /\ q.intentSeq = p.intentSeq + 1 /\ q.header = p.header
    BY <1>2 DEF Panels
<1> HIDE DEF q
<1>4. IsFiniteSet(q.out) /\ LanesFit(q) /\ ClosedFits(q)
    BY <1>2, <1>3 DEF PanelFits, LanesFit, ClosedFits
<1>5. PanelFits(q)
    BY <1>3, <1>4, PanelStands
<1>6. \A x \in q.out : x.kind = "intent" => x.seq \in Nat /\ x.seq < q.intentSeq
    BY <1>2, <1>3 DEF IntentsInOrder, PanelMessages
<1>7. Awaited(q) = {}
    BY <1>2, <1>3, <1>6 DEF Awaited
<1>8. IntentsInOrder(q, last, latest)
    BY <1>2, <1>3, <1>6, <1>7 DEF IntentsInOrder, PanelMessages
<1>9. CASE tab = p.pinnedUrl
  <2>1. L!CarriesOut(q, i) = L!CarriesOut(p, i)
    BY <1>3 DEF L!CarriesOut
  <2>2. QED
    BY <1>1, <1>3, <1>5, <1>7, <1>8, <1>9, <2>1, IntentApplied
<1>10. CASE tab # p.pinnedUrl
  <2>1. PanelFits(r) /\ IntentsInOrder(r, last, latest)
    BY <1>5, <1>8, IntentParked
  <2>2. /\ r \in Panels /\ r.out = q.out /\ r.generation = q.generation /\ r.intentSeq = q.intentSeq
        /\ r.pendingIntent = L!NoIntent /\ r.header = q.header
    BY <1>3 DEF Panels
  <2> HIDE DEF r
  <2> DEFINE base == L!Message("intent", q)
  <2>3. base \in PanelMessages /\ base.kind = "intent" /\ base.gen = q.generation
    BY <1>3, MessageFacts
  <2> HIDE DEF base
  <2>4. [base.subject EXCEPT !.page = tab] \in L!Subjects
    BY <2>3 DEF PanelMessages, L!Subjects
  <2>5. m = [base EXCEPT !.seq = q.intentSeq, !.intent = i, !.subject.page = tab]
    BY DEF base
  <2> HIDE DEF m
  <2>6. m \in PanelMessages /\ m.kind = "intent" /\ m.gen = q.generation /\ m.seq = q.intentSeq
        /\ m.intent = i
    <3> DEFINE subject == [base.subject EXCEPT !.page = tab]
    <3>1. m = [base EXCEPT !.seq = q.intentSeq, !.intent = i, !.subject = subject]
      BY <2>5
    <3>2. subject \in L!Subjects /\ q.intentSeq \in Nat /\ i \in L!Intents \union {L!NoIntent}
      BY <1>2, <1>3, <2>4
    <3> HIDE DEF subject
    <3>3. m \in PanelMessages
      BY <2>3, <3>1, <3>2 DEF PanelMessages
    <3>4. QED
      BY <2>3, <3>1, <3>3 DEF PanelMessages
  <2> DEFINE s == L!Send(r, m)
  <2>7. /\ PanelFits(s) /\ s.out = r.out \union {m} /\ s.generation = r.generation
        /\ s.pendingIntent = r.pendingIntent /\ s.intentSeq = r.intentSeq
    BY <2>1, <2>2, <2>6, MessageSent
  <2> HIDE DEF s
  <2>8. Awaited(s) = {m}
    BY <1>7, <2>2, <2>6, <2>7 DEF Awaited
  <2>9. \A x \in s.out : x.kind = "intent" => x.seq <= s.intentSeq
    BY <1>3, <1>2, <1>6, <2>2, <2>6, <2>7
  <2>10. IntentsInOrder(s, last, latest)
    BY <2>2, <2>6, <2>7, <2>8, <2>9 DEF IntentsInOrder
  <2>11. QED
    BY <1>1, <1>10, <2>7, <2>10 DEF s
<1>11. QED
    BY <1>9, <1>10

\* The page is read anew: no message under way is about what the panel describes now.
LEMMA PageReread ==
    ASSUME NEW p \in Panels, IsFiniteSet(p.out), MessagesFit(p), NEW last, NEW latest, tab \in Urls,
           \A m \in p.out : m.kind = "intent" => m.seq <= p.intentSeq,
           p.pendingIntent # L!NoIntent => last < p.pendingIntent.id /\ p.pendingIntent.id <= latest
    PROVE  PanelFits(L!reread(p)) /\ IntentsInOrder(L!reread(p), last, latest)
<1> DEFINE q == [L!Fresh(tab) EXCEPT !.generation = p.generation + 1, !.out = p.out,
                   !.recogniseSeq = p.recogniseSeq, !.intentSeq = p.intentSeq,
                   !.pendingIntent = p.pendingIntent]
<1>1. L!reread(p) = L!loadHeader(q, TRUE)
    BY DEF L!reread
<1>2. /\ p.generation \in Nat /\ p.out \in SUBSET PanelMessages /\ p.recogniseSeq \in Nat
      /\ p.intentSeq \in Nat /\ p.pendingIntent \in L!Intents \union {L!NoIntent}
    BY DEF Panels
<1>3. L!Fresh(tab) \in Panels
    BY DEF L!Fresh, Panels, L!NoSubject, L!TermStates, L!Intents
<1> DEFINE f == L!Fresh(tab)
<1>12. f \in Panels
    BY <1>3
<1>13. q = [f EXCEPT !.generation = p.generation + 1, !.out = p.out,
                     !.recogniseSeq = p.recogniseSeq, !.intentSeq = p.intentSeq,
                     !.pendingIntent = p.pendingIntent]
    OBVIOUS
<1>14. f.laneState = [l \in L!Lanes |-> "collapsed"] /\ f.lanePollTimers = {}
      /\ f.laneInFlight = {} /\ f.closed = FALSE /\ f.header = "loading"
    BY DEF L!Fresh
<1> HIDE DEF f, q
<1>15. q \in Panels
  <2> DEFINE g == p.generation + 1
             q1 == [f EXCEPT !.generation = g, !.out = p.out, !.recogniseSeq = p.recogniseSeq]
  <2>1. g \in Nat
    BY <1>2
  <2>2. q = [q1 EXCEPT !.intentSeq = p.intentSeq, !.pendingIntent = p.pendingIntent]
    BY <1>13
  <2> HIDE DEF g
  <2>3. q1 \in Panels
    BY <1>2, <1>12, <2>1 DEF Panels
  <2> HIDE DEF q1
  <2>4. QED
    BY <1>2, <2>2, <2>3 DEF Panels
<1>5. /\ q \in Panels /\ q.out = p.out /\ q.generation = p.generation + 1
      /\ q.laneInFlight = {} /\ q.laneState = [l \in L!Lanes |-> "collapsed"]
      /\ q.lanePollTimers = {} /\ ~q.closed /\ q.header = "loading"
      /\ q.pendingIntent = p.pendingIntent /\ q.intentSeq = p.intentSeq
    BY <1>2, <1>12, <1>13, <1>14, <1>15 DEF Panels
<1>6. \A m \in q.out : m.gen \in Nat /\ m.gen < q.generation
    BY <1>2, <1>5 DEF MessagesFit, PanelMessages
<1>7. MessagesFit(q) /\ LanesFit(q) /\ ClosedFits(q)
    BY <1>2, <1>5, <1>6 DEF MessagesFit, LanesFit, ClosedFits
<1>8. Awaited(q) = {} /\ \A l : Running(q, l) = {}
    BY <1>2, <1>5, <1>6 DEF Awaited, Running
<1>9. PanelFits(q)
    BY <1>5, <1>7, <1>8 DEF PanelFits, FlightsFit
<1>10. IntentsInOrder(q, last, latest)
    BY <1>5, <1>8 DEF IntentsInOrder
<1>11. QED
    BY <1>1, <1>9, <1>10, HeaderAsked

\* A gesture more is used: what is in order stays so.
LEMMA OrderGrows ==
    ASSUME NEW p \in Panels, NEW last \in Nat, NEW latest \in Nat, IntentsInOrder(p, last, latest)
    PROVE  IntentsInOrder(p, last, latest + 1)
<1>1. p.pendingIntent \in L!Intents \union {L!NoIntent} /\ p.out \in SUBSET PanelMessages
    BY DEF Panels
<1>2. \A i \in L!Intents \union {L!NoIntent} : i.id \in Nat
    BY DEF L!Intents, L!NoIntent
<1>3. \A m \in Awaited(p) : m.intent \in L!Intents \union {L!NoIntent}
    BY <1>1 DEF Awaited, PanelMessages
<1>4. QED
    BY <1>1, <1>2, <1>3 DEF IntentsInOrder

\* An intent later than the last is carried out.
LEMMA OneMore ==
    ASSUME NEW ids \in Seq(Nat), Increasing(ids), NEW n \in Nat, LastOf(ids) < n
    PROVE  /\ Append(ids, n) \in Seq(Nat) /\ Increasing(Append(ids, n))
           /\ LastOf(Append(ids, n)) = n
<1> DEFINE more == Append(ids, n)
<1>1. /\ more \in Seq(Nat) /\ Len(more) = Len(ids) + 1 /\ more # <<>> /\ more[Len(more)] = n
      /\ Len(ids) \in Nat /\ DOMAIN ids = 1 .. Len(ids) /\ DOMAIN more = 1 .. Len(more)
      /\ \A i \in 1 .. Len(ids) : more[i] = ids[i] /\ ids[i] \in Nat
  <2>1. /\ more \in Seq(Nat) /\ more # <<>> /\ Len(more) = Len(ids) + 1
        /\ more[Len(ids) + 1] = n /\ \A i \in 1 .. Len(ids) : more[i] = ids[i]
    <3>1. /\ more \in Seq(Nat) /\ more # <<>> /\ Len(more) = Len(ids) + 1
          /\ more[Len(ids) + 1] = n
      BY AppendProperties
    <3>2. ASSUME NEW i \in 1 .. Len(ids) PROVE more[i] = ids[i]
      BY AppendProperties
    <3> HIDE DEF more
    <3>3. QED
      BY <3>1, <3>2
  <2> HIDE DEF more
  <2>2. Len(ids) \in Nat /\ DOMAIN ids = 1 .. Len(ids) /\ DOMAIN more = 1 .. Len(more)
    BY <2>1, LenProperties
  <2>3. \A i \in 1 .. Len(ids) : ids[i] \in Nat
    BY ElementOfSeq
  <2>4. QED
    BY <2>1, <2>2, <2>3
<1> HIDE DEF more
<1>2. ASSUME NEW i \in 1 .. Len(ids) PROVE ids[i] < n
  <2>1. ids # <<>> /\ Len(ids) \in 1 .. Len(ids) /\ LastOf(ids) = ids[Len(ids)]
    <3>1. Len(ids) \in 1 .. Len(ids)
      BY <1>1
    <3>2. ids # <<>>
      BY <3>1, EmptySeq
    <3>3. QED
      BY <3>1, <3>2 DEF LastOf
  <2>2. i < Len(ids) => ids[i] < ids[Len(ids)]
    BY <1>1, <2>1 DEF Increasing
  <2>3. i = Len(ids) \/ i < Len(ids)
    <3>1. Len(ids) \in Nat
      BY <1>1
    <3>2. QED
      BY <3>1
  <2>4. ids[i] \in Nat /\ ids[Len(ids)] \in Nat
    BY <1>1, <2>1
  <2>5. QED
    BY <2>1, <2>2, <2>3, <2>4
<1>3. ASSUME NEW i \in DOMAIN more, NEW j \in DOMAIN more, i < j PROVE more[i] < more[j]
  <2>1. i \in 1 .. Len(ids)
    BY <1>1, <1>3
  <2>2. CASE j \in 1 .. Len(ids)
    BY <1>1, <1>3, <2>1, <2>2 DEF Increasing
  <2>3. CASE j \notin 1 .. Len(ids)
    <3>1. j = Len(more)
      BY <1>1, <2>3
    <3>2. QED
      BY <1>1, <1>2, <2>1, <3>1
  <2>4. QED
    BY <2>2, <2>3
<1>4. Increasing(more) /\ LastOf(more) = n
    BY <1>1, <1>3 DEF Increasing, LastOf
<1>5. QED
    BY <1>1, <1>4 DEF more

\* What is known of the panel's parts.
LEMMA LanesFacts ==
    ASSUME LanesInv
    PROVE  /\ panel \in Panels /\ PanelFits(panel) /\ IntentsInOrder(panel, LastOf(applied), gestures)
           /\ tab \in Urls /\ gestures \in Nat /\ applied \in Seq(Nat) /\ Increasing(applied)
           /\ LastOf(applied) \in Nat /\ LastOf(applied) <= gestures
           /\ panel.generation \in Nat /\ panel.out \in SUBSET PanelMessages
<1>1. LastOf(applied) \in Nat
    BY DEF LanesInv, LastOf
<1>2. QED
    BY <1>1 DEF LanesInv, PanelFits, Panels

\* An answer is taken out of what is under way.
LEMMA AnswerTaken ==
    ASSUME LanesInv, NEW m \in panel.out
    PROVE  /\ PanelFits(L!Take(m)) /\ IntentsInOrder(L!Take(m), LastOf(applied), gestures)
           /\ L!Take(m) \in Panels /\ L!Take(m).out = panel.out \ {m}
           /\ L!Take(m).generation = panel.generation /\ L!Take(m).pinnedUrl = panel.pinnedUrl
           /\ L!Take(m).closed = panel.closed /\ L!Take(m).pendingIntent = panel.pendingIntent
           /\ L!Take(m).header = panel.header /\ L!Take(m).intentSeq = panel.intentSeq
           /\ L!Take(m).laneInFlight = panel.laneInFlight
<1> DEFINE q == L!Take(m)
<1>1. panel \in Panels /\ panel.out \in SUBSET PanelMessages /\ IsFiniteSet(panel.out)
    BY DEF LanesInv, PanelFits, Panels
<1>2. /\ q \in Panels /\ q.out = panel.out \ {m} /\ q.generation = panel.generation
      /\ q.pinnedUrl = panel.pinnedUrl /\ q.laneInFlight = panel.laneInFlight
      /\ q.laneState = panel.laneState /\ q.answer = panel.answer
      /\ q.lanePollTimers = panel.lanePollTimers /\ q.closed = panel.closed
      /\ q.pendingIntent = panel.pendingIntent /\ q.intentSeq = panel.intentSeq
      /\ q.header = panel.header
    BY <1>1 DEF L!Take, Panels
<1> HIDE DEF q
<1>3. IsFiniteSet(q.out)
    BY <1>1, <1>2, FS_Subset
<1>4. LanesFit(q) /\ ClosedFits(q)
    BY <1>2 DEF LanesInv, PanelFits, LanesFit, ClosedFits
<1>5. PanelFits(q)
    BY <1>2, <1>3, <1>4, PanelStands DEF LanesInv
<1>6. IntentsInOrder(q, LastOf(applied), gestures)
    BY <1>2, OrderStands DEF LanesInv
<1>7. QED
    BY <1>2, <1>5, <1>6 DEF q

\* A header lands, and the intent that waited for it is carried out, or the tab's item
\* is asked for.
LEMMA HeaderLands ==
    ASSUME NEW p, PanelFits(p), NEW last \in Nat, NEW latest \in Nat, IntentsInOrder(p, last, latest),
           tab \in Urls,
           NEW q \in Panels, q.out = p.out, q.generation = p.generation, q.pinnedUrl = p.pinnedUrl,
           q.laneInFlight = p.laneInFlight, q.laneState = p.laneState, q.answer = p.answer,
           q.lanePollTimers = p.lanePollTimers, q.closed = p.closed,
           q.pendingIntent = p.pendingIntent, q.intentSeq = p.intentSeq, q.header # "loading"
    PROVE  /\ PanelFits(L!releaseParked(q))
           /\ IntentsInOrder(L!releaseParked(q),
                             IF L!Parked(q) /\ tab = q.pinnedUrl THEN q.pendingIntent.id ELSE last, latest)
           /\ L!Parked(q) => last < q.pendingIntent.id /\ q.pendingIntent.id <= latest
<1>1. IsFiniteSet(q.out) /\ LanesFit(q) /\ ClosedFits(q)
    BY DEF PanelFits, LanesFit, ClosedFits
<1>2. PanelFits(q)
    BY <1>1, PanelStands
<1>3. Awaited(q) = Awaited(p)
    BY DEF Awaited
<1>4. CASE L!Parked(q)
  <2> DEFINE r == [q EXCEPT !.pendingIntent = L!NoIntent]
             i == q.pendingIntent
  <2>1. i \in L!Intents /\ last < i.id /\ i.id <= latest /\ ~q.closed /\ Awaited(p) = {}
    BY <1>4 DEF Panels, L!Parked, IntentsInOrder
  <2>2. /\ r \in Panels /\ r.out = p.out /\ r.generation = p.generation /\ r.pinnedUrl = p.pinnedUrl
        /\ r.laneInFlight = p.laneInFlight /\ r.laneState = p.laneState /\ r.answer = p.answer
        /\ r.lanePollTimers = p.lanePollTimers /\ r.closed = q.closed
        /\ r.pendingIntent = L!NoIntent /\ r.intentSeq = p.intentSeq /\ r.header # "loading"
    BY DEF Panels
  <2>3. L!releaseParked(q) = L!applyIntent(r, i)
    BY <1>4 DEF L!releaseParked
  <2> HIDE DEF r, i
  <2>4. IsFiniteSet(r.out) /\ LanesFit(r) /\ ClosedFits(r)
    BY <2>2 DEF PanelFits, LanesFit, ClosedFits
  <2>5. PanelFits(r)
    BY <2>2, <2>4, PanelStands
  <2>6. Awaited(r) = {}
    BY <2>1, <2>2 DEF Awaited
  <2>7. IntentsInOrder(r, last, latest)
    BY <2>2, <2>6 DEF IntentsInOrder
  <2>8. L!CarriesOut(r, i)
    BY <2>2 DEF L!CarriesOut
  <2>9. /\ PanelFits(L!applyIntent(r, i))
        /\ IntentsInOrder(L!applyIntent(r, i), IF tab = r.pinnedUrl /\ L!CarriesOut(r, i) THEN i.id ELSE last, latest)
    BY <2>1, <2>2, <2>5, <2>7, IntentArrives
  <2>10. QED
    BY <1>4, <2>1, <2>2, <2>3, <2>8, <2>9 DEF i
<1>5. CASE ~L!Parked(q)
  <2>1. q.pendingIntent = L!NoIntent /\ L!releaseParked(q) = q
    BY <1>1, <1>5 DEF L!Parked, L!releaseParked, ClosedFits
  <2>2. IntentsInOrder(q, last, latest)
    BY <1>3, <2>1 DEF IntentsInOrder
  <2>3. QED
    BY <1>2, <1>5, <2>1, <2>2
<1>6. QED
    BY <1>4, <1>5

\* What a step has to show, if it carries out no intent.
LEMMA PanelMoves ==
    ASSUME LanesInv, tab' = tab \/ tab' \in Urls, applied' = applied,
           gestures' = gestures \/ gestures' = gestures + 1,
           PanelFits(panel)', IntentsInOrder(panel', LastOf(applied), gestures)
    PROVE  LanesInv'
<1>1. IntentsInOrder(panel', LastOf(applied), gestures')
    BY LanesFacts, OrderGrows DEF PanelFits
<1>2. QED
    BY <1>1, LanesFacts DEF LanesInv

\* The panel is mounted.
LEMMA LanesInit == L!Init => LanesInv
<1> SUFFICES ASSUME L!Init PROVE LanesInv
    OBVIOUS
<1>1. PICK t \in L!TermStates : panel = L!loadHeader([L!Fresh(tab) EXCEPT !.term = t], TRUE)
    BY DEF L!Init
<1>2. tab \in Urls /\ gestures = 0 /\ applied = <<>>
    BY DEF L!Init
<1> DEFINE f == L!Fresh(tab)
           q == [f EXCEPT !.term = t]
<1>3. f \in Panels
    BY <1>2 DEF L!Fresh, Panels, L!NoSubject, L!TermStates, L!Intents
<1>4. /\ f.laneState = [l \in L!Lanes |-> "collapsed"] /\ f.out = {} /\ f.closed = FALSE
      /\ f.pendingIntent = L!NoIntent
    BY DEF L!Fresh
<1> HIDE DEF f
<1>5. /\ q \in Panels /\ q.out = {} /\ q.laneState = [l \in L!Lanes |-> "collapsed"]
      /\ q.closed = FALSE /\ q.pendingIntent = L!NoIntent
    BY <1>3, <1>4 DEF Panels
<1>6. panel = L!loadHeader(q, TRUE)
    BY <1>1 DEF f
<1> HIDE DEF q
<1>7. PanelFits(q)
    BY <1>5, FS_EmptySet DEF PanelFits, MessagesFit, LanesFit, FlightsFit, Running, ClosedFits
<1>8. IntentsInOrder(q, 0, 0)
    BY <1>5 DEF IntentsInOrder, Awaited
<1>9. PanelFits(panel) /\ IntentsInOrder(panel, 0, 0)
    BY <1>6, <1>7, <1>8, HeaderAsked, Zenon
<1>10. QED
    BY <1>2, <1>9 DEF LanesInv, LastOf, Increasing

\* The tab moves: the panel knows nothing of it yet.
LEMMA TabMovesOn ==
    ASSUME LanesInv, NEW u \in Urls, L!Navigate(u)
    PROVE  LanesInv'
<1>1. tab' \in Urls /\ UNCHANGED <<panel, gestures, applied>>
    BY DEF L!Navigate
<1>2. PanelFits(panel)'
    BY <1>1, LanesFacts
<1>3. QED
    BY <1>1, <1>2, LanesFacts, PanelMoves

\* The answer about the header comes, late or not.
LEMMA HeaderAnswered ==
    ASSUME LanesInv, NEW m \in panel.out, L!Resolved(m)
    PROVE  LanesInv'
<1> DEFINE related(p) == IF m.then THEN L!loadRelated(p) ELSE p
<1>1. UNCHANGED <<tab, gestures>>
    BY DEF L!Resolved
<1>2. CASE L!IsStale(panel, m)
  <2>1. panel' = related(L!Take(m)) /\ applied' = applied
    BY <1>2 DEF L!Resolved
  <2>2. PanelFits(related(L!Take(m))) /\ IntentsInOrder(related(L!Take(m)), LastOf(applied), gestures)
    BY AnswerTaken, RelatedAsked
  <2>3. QED
    BY <1>1, <2>1, <2>2, PanelMoves
<1>3. CASE ~L!IsStale(panel, m)
  <2>1. ASSUME NEW q, panel' = related(L!releaseParked(q)),
               applied' = IF L!Parked(q) /\ tab = q.pinnedUrl THEN Append(applied, q.pendingIntent.id) ELSE applied,
               q \in Panels, q.out = L!Take(m).out, q.generation = L!Take(m).generation,
               q.pinnedUrl = L!Take(m).pinnedUrl, q.laneInFlight = L!Take(m).laneInFlight,
               q.laneState = L!Take(m).laneState, q.answer = L!Take(m).answer,
               q.lanePollTimers = L!Take(m).lanePollTimers, q.closed = L!Take(m).closed,
               q.pendingIntent = L!Take(m).pendingIntent, q.intentSeq = L!Take(m).intentSeq,
               q.header # "loading"
        PROVE  LanesInv'
    <3> DEFINE n == q.pendingIntent.id
               done == L!Parked(q) /\ tab = q.pinnedUrl
    <3>1. /\ PanelFits(L!releaseParked(q))
          /\ IntentsInOrder(L!releaseParked(q), IF done THEN n ELSE LastOf(applied), gestures)
          /\ L!Parked(q) => LastOf(applied) < n /\ n <= gestures
      BY <2>1, AnswerTaken, HeaderLands, LanesFacts
    <3>2. n \in Nat
      BY <2>1 DEF Panels, L!Intents, L!NoIntent
    <3>3. applied' = IF done THEN Append(applied, n) ELSE applied
      BY <2>1
    <3>4. done => L!Parked(q)
      OBVIOUS
    <3> HIDE DEF n, done
    <3>5. /\ applied' \in Seq(Nat) /\ Increasing(applied') /\ LastOf(applied') <= gestures
          /\ LastOf(applied') = IF done THEN n ELSE LastOf(applied)
      BY <3>1, <3>2, <3>3, <3>4, OneMore, LanesFacts
    <3>6. PanelFits(panel') /\ IntentsInOrder(panel', LastOf(applied'), gestures)
      BY <2>1, <3>1, <3>5, RelatedAsked
    <3>7. QED
      BY <1>1, <3>5, <3>6, LanesFacts DEF LanesInv
  <2>2. L!Take(m) \in Panels /\ m.subject.page \in Urls
    BY AnswerTaken, LanesFacts DEF PanelMessages, L!Subjects
  <2>3. CASE \E header \in {"subject", "ambiguous", "nothing"}, offered \in {L!Lanes, {}} :
                LET q == [L!Take(m) EXCEPT !.header = header, !.offered = offered,
                                           !.pinnedItem = ItemOf[m.subject.page]]
                IN  /\ panel' = related(L!releaseParked(q))
                    /\ applied' = IF L!Parked(q) /\ tab = q.pinnedUrl THEN Append(applied, q.pendingIntent.id) ELSE applied
    <3>1. PICK header \in {"subject", "ambiguous", "nothing"}, offered \in {L!Lanes, {}} :
                LET q == [L!Take(m) EXCEPT !.header = header, !.offered = offered,
                                           !.pinnedItem = ItemOf[m.subject.page]]
                IN  /\ panel' = related(L!releaseParked(q))
                    /\ applied' = IF L!Parked(q) /\ tab = q.pinnedUrl THEN Append(applied, q.pendingIntent.id) ELSE applied
      BY <2>3
    <3> DEFINE p == L!Take(m)
               q == [p EXCEPT !.header = header, !.offered = offered,
                              !.pinnedItem = ItemOf[m.subject.page]]
    <3>2. /\ panel' = related(L!releaseParked(q))
          /\ applied' = IF L!Parked(q) /\ tab = q.pinnedUrl THEN Append(applied, q.pendingIntent.id) ELSE applied
      BY <3>1
    <3>3. p \in Panels /\ ItemOf[m.subject.page] \in L!Items \union {L!Unknown}
      BY <2>2 DEF L!Items
    <3> HIDE DEF p
    <3>4. /\ q \in Panels /\ q.out = p.out /\ q.generation = p.generation
          /\ q.pinnedUrl = p.pinnedUrl /\ q.laneInFlight = p.laneInFlight
          /\ q.laneState = p.laneState /\ q.answer = p.answer
          /\ q.lanePollTimers = p.lanePollTimers /\ q.closed = p.closed
          /\ q.pendingIntent = p.pendingIntent /\ q.intentSeq = p.intentSeq
          /\ q.header # "loading"
      BY <3>3 DEF Panels
    <3> HIDE DEF q, related
    <3>5. QED
      BY <2>1, <3>2, <3>4 DEF p
  <2>4. CASE LET q == [L!Take(m) EXCEPT !.header = "nothing"]
             IN  /\ panel' = related(L!releaseParked(q))
                 /\ applied' = IF L!Parked(q) /\ tab = q.pinnedUrl THEN Append(applied, q.pendingIntent.id) ELSE applied
    <3> DEFINE p == L!Take(m)
               q == [p EXCEPT !.header = "nothing"]
    <3>1. /\ panel' = related(L!releaseParked(q))
          /\ applied' = IF L!Parked(q) /\ tab = q.pinnedUrl THEN Append(applied, q.pendingIntent.id) ELSE applied
      BY <2>4
    <3>2. p \in Panels
      BY <2>2
    <3> HIDE DEF p
    <3>3. /\ q \in Panels /\ q.out = p.out /\ q.generation = p.generation
          /\ q.pinnedUrl = p.pinnedUrl /\ q.laneInFlight = p.laneInFlight
          /\ q.laneState = p.laneState /\ q.answer = p.answer
          /\ q.lanePollTimers = p.lanePollTimers /\ q.closed = p.closed
          /\ q.pendingIntent = p.pendingIntent /\ q.intentSeq = p.intentSeq
          /\ q.header # "loading"
      BY <3>2 DEF Panels
    <3> HIDE DEF q, related
    <3>4. QED
      BY <2>1, <3>1, <3>3 DEF p
  <2>5. QED
    BY <1>3, <2>3, <2>4 DEF L!Resolved
<1>4. QED
    BY <1>2, <1>3

\* An answer that is too late, or changes nothing that matters here.
LEMMA AnswerAside ==
    ASSUME LanesInv, NEW m \in panel.out, NEW q \in Panels, panel' = q, UNCHANGED <<tab, gestures, applied>>,
           q.out = L!Take(m).out, q.generation = L!Take(m).generation,
           q.pinnedUrl = L!Take(m).pinnedUrl, q.laneInFlight = L!Take(m).laneInFlight,
           q.laneState = L!Take(m).laneState, q.answer = L!Take(m).answer,
           q.lanePollTimers = L!Take(m).lanePollTimers, q.closed = L!Take(m).closed,
           q.pendingIntent = L!Take(m).pendingIntent, q.intentSeq = L!Take(m).intentSeq,
           q.header = L!Take(m).header
    PROVE  LanesInv'
<1> DEFINE p == L!Take(m)
<1>1. PanelFits(p) /\ IntentsInOrder(p, LastOf(applied), gestures)
    BY AnswerTaken
<1> HIDE DEF p
<1>2. PanelFits(q) /\ IntentsInOrder(q, LastOf(applied), gestures)
    BY <1>1, AsideSet DEF p
<1>3. QED
    BY <1>2, PanelMoves

\* The answer is dropped.
LEMMA AnswerDropped ==
    ASSUME LanesInv, NEW m \in panel.out, panel' = L!Take(m), UNCHANGED <<tab, gestures, applied>>
    PROVE  LanesInv'
BY AnswerTaken, PanelMoves

\* Related lands.
LEMMA RelatedLands ==
    ASSUME LanesInv, NEW m \in panel.out, L!RelatedAnswered(m)
    PROVE  LanesInv'
<1>1. UNCHANGED <<tab, gestures, applied>>
    BY DEF L!RelatedAnswered
<1>2. CASE L!IsStale(panel, m)
    BY <1>1, <1>2, AnswerDropped DEF L!RelatedAnswered
<1>3. CASE ~L!IsStale(panel, m)
  <2> DEFINE p == L!Take(m)
             q == [p EXCEPT !.relatedShown = m.subject.term]
  <2>1. panel' = q
    BY <1>3 DEF L!RelatedAnswered
  <2>2. p \in Panels /\ m.subject.term \in L!TermStates
    BY AnswerTaken, LanesFacts DEF PanelMessages, L!Subjects
  <2> HIDE DEF p
  <2>3. /\ q \in Panels /\ q.out = p.out /\ q.generation = p.generation
        /\ q.pinnedUrl = p.pinnedUrl /\ q.laneInFlight = p.laneInFlight
        /\ q.laneState = p.laneState /\ q.answer = p.answer
        /\ q.lanePollTimers = p.lanePollTimers /\ q.closed = p.closed
        /\ q.pendingIntent = p.pendingIntent /\ q.intentSeq = p.intentSeq /\ q.header = p.header
    BY <2>2 DEF Panels
  <2> HIDE DEF q
  <2>4. QED
    BY <1>1, <2>1, <2>3, AnswerAside DEF p
<1>4. QED
    BY <1>2, <1>3

\* An answer of a lane that is not too late is about the page.
LEMMA LaneAnswerFacts ==
    ASSUME LanesInv, NEW m \in panel.out, m.kind \in {"run", "state"}, ~L!IsStale(panel, m)
    PROVE  /\ m.lane \in L!Lanes /\ m.subject \in L!Subjects /\ m.subject.page = panel.pinnedUrl
           /\ m.gen = panel.generation /\ ~panel.closed
<1>1. m \in PanelMessages
    BY LanesFacts
<1>2. m.gen = panel.generation /\ ~panel.closed
    BY DEF L!IsStale
<1>3. QED
    BY <1>1, <1>2 DEF PanelMessages, LanesInv, PanelFits, MessagesFit

\* The answer to a run frees its lane.
LEMMA RunLands ==
    ASSUME LanesInv, NEW m \in panel.out, L!RunAnswered(m)
    PROVE  LanesInv'
<1>1. UNCHANGED <<tab, gestures, applied>> /\ m.kind = "run"
    BY DEF L!RunAnswered
<1>2. CASE L!IsStale(panel, m)
    BY <1>1, <1>2, AnswerDropped DEF L!RunAnswered
<1>3. CASE ~L!IsStale(panel, m)
  <2> DEFINE p == L!Take(m)
             flights == p.laneInFlight \ {m.lane}
             q == [p EXCEPT !.laneInFlight = flights]
  <2>1. \E state \in {"running", "done", "failed"} : panel' = L!Told(q, m.lane, state, m.subject)
    BY <1>3 DEF L!RunAnswered
  <2>2. /\ m.lane \in L!Lanes /\ m.subject \in L!Subjects /\ m.subject.page = panel.pinnedUrl
        /\ m.gen = panel.generation /\ ~panel.closed
    BY <1>1, <1>3, LaneAnswerFacts
  <2>3. /\ PanelFits(p) /\ IntentsInOrder(p, LastOf(applied), gestures) /\ p \in Panels
        /\ p.out = panel.out \ {m} /\ p.generation = panel.generation
        /\ p.pinnedUrl = panel.pinnedUrl /\ p.closed = panel.closed
        /\ p.laneInFlight = panel.laneInFlight
    BY AnswerTaken
  <2> HIDE DEF p
  <2>4. flights \in SUBSET L!Lanes
    BY <2>3 DEF Panels
  <2> HIDE DEF flights
  <2>5. /\ q \in Panels /\ q.out = p.out /\ q.generation = p.generation
        /\ q.pinnedUrl = p.pinnedUrl /\ q.laneInFlight = flights
        /\ q.laneState = p.laneState /\ q.answer = p.answer
        /\ q.lanePollTimers = p.lanePollTimers /\ q.closed = p.closed
        /\ q.pendingIntent = p.pendingIntent /\ q.intentSeq = p.intentSeq /\ q.header = p.header
    BY <2>3, <2>4 DEF Panels
  <2> HIDE DEF q
  <2>6. IsFiniteSet(q.out) /\ MessagesFit(q) /\ LanesFit(q) /\ ClosedFits(q)
    BY <2>3, <2>5 DEF PanelFits, MessagesFit, LanesFit, ClosedFits
  <2>7. FlightsFit(q)
    <3>1. \A l \in L!Lanes : Running(q, l) = Running(panel, l) \ {m}
      BY <2>3, <2>5 DEF Running
    <3>2. m \in Running(panel, m.lane)
      BY <1>1, <2>2 DEF Running
    <3>3. \A l \in L!Lanes : /\ l \notin panel.laneInFlight => Running(panel, l) = {}
                             /\ \A x, z \in Running(panel, l) : x = z
      BY DEF LanesInv, PanelFits, FlightsFit
    <3>4. Running(q, m.lane) = {}
      BY <2>2, <3>1, <3>2, <3>3
    <3>5. QED
      BY <2>3, <2>5, <3>1, <3>3, <3>4 DEF FlightsFit, flights
  <2>8. PanelFits(q) /\ IntentsInOrder(q, LastOf(applied), gestures)
    BY <2>3, <2>5, <2>6, <2>7, OrderStands DEF PanelFits
  <2>9. PanelFits(panel') /\ IntentsInOrder(panel', LastOf(applied), gestures)
    BY <2>1, <2>2, <2>3, <2>5, <2>8, LaneTold
  <2>10. QED
    BY <1>1, <2>9, PanelMoves
<1>4. QED
    BY <1>2, <1>3

\* The answer to a poll, or none.
LEMMA PollLands ==
    ASSUME LanesInv, NEW m \in panel.out, L!StateAnswered(m)
    PROVE  LanesInv'
<1>1. UNCHANGED <<tab, gestures, applied>> /\ m.kind = "state"
    BY DEF L!StateAnswered
<1>2. CASE panel' = L!Take(m)
    BY <1>1, <1>2, AnswerDropped
<1>3. CASE panel' # L!Take(m)
  <2>1. ~L!IsStale(panel, m)
    BY <1>3 DEF L!StateAnswered
  <2>2. \E state \in {"running", "done", "failed", "collapsed"} :
           panel' = L!Told(L!Take(m), m.lane, state, m.subject)
    BY <1>3 DEF L!StateAnswered
  <2>3. PanelFits(panel') /\ IntentsInOrder(panel', LastOf(applied), gestures)
    BY <1>1, <2>1, <2>2, LaneAnswerFacts, AnswerTaken, LaneTold
  <2>4. QED
    BY <1>1, <2>3, PanelMoves
<1>4. QED
    BY <1>2, <1>3

\* The tab's address was looked up, or could not be.
LEMMA CheckLands ==
    ASSUME LanesInv, NEW m \in panel.out, L!CheckAnswered(m)
    PROVE  LanesInv'
<1> DEFINE p == L!Take(m)
<1>1. UNCHANGED <<tab, gestures, applied>>
    BY DEF L!CheckAnswered
<1>2. CASE panel' = p
    BY <1>1, <1>2, AnswerDropped
<1>3. CASE panel' = [p EXCEPT !.navAway = ItemOf[m.subject.page] # panel.pinnedItem]
  <2> DEFINE away == ItemOf[m.subject.page] # panel.pinnedItem
             q == [p EXCEPT !.navAway = away]
  <2>1. p \in Panels /\ away \in BOOLEAN
    BY AnswerTaken
  <2>2. panel' = q
    BY <1>3
  <2> HIDE DEF p, away
  <2>3. /\ q \in Panels /\ q.out = p.out /\ q.generation = p.generation
        /\ q.pinnedUrl = p.pinnedUrl /\ q.laneInFlight = p.laneInFlight
        /\ q.laneState = p.laneState /\ q.answer = p.answer
        /\ q.lanePollTimers = p.lanePollTimers /\ q.closed = p.closed
        /\ q.pendingIntent = p.pendingIntent /\ q.intentSeq = p.intentSeq /\ q.header = p.header
    BY <2>1 DEF Panels
  <2> HIDE DEF q
  <2>4. QED
    BY <1>1, <2>2, <2>3, AnswerAside DEF p
<1>4. CASE panel' = [p EXCEPT !.lastCheckedUrl = m.previous]
  <2> DEFINE q == [p EXCEPT !.lastCheckedUrl = m.previous]
  <2>1. p \in Panels /\ m.previous \in Urls
    BY AnswerTaken, LanesFacts DEF PanelMessages
  <2>2. panel' = q
    BY <1>4
  <2> HIDE DEF p
  <2>3. /\ q \in Panels /\ q.out = p.out /\ q.generation = p.generation
        /\ q.pinnedUrl = p.pinnedUrl /\ q.laneInFlight = p.laneInFlight
        /\ q.laneState = p.laneState /\ q.answer = p.answer
        /\ q.lanePollTimers = p.lanePollTimers /\ q.closed = p.closed
        /\ q.pendingIntent = p.pendingIntent /\ q.intentSeq = p.intentSeq /\ q.header = p.header
    BY <2>1 DEF Panels
  <2> HIDE DEF q
  <2>4. QED
    BY <1>1, <2>2, <2>3, AnswerAside DEF p
<1>5. QED
  <2>1. \/ panel' = p
        \/ panel' = [p EXCEPT !.navAway = ItemOf[m.subject.page] # panel.pinnedItem]
        \/ panel' = [p EXCEPT !.lastCheckedUrl = m.previous]
    BY DEF L!CheckAnswered
  <2>2. QED
    BY <1>2, <1>3, <1>4, <2>1

\* The tab's item was asked for: is it the pinned one after all?
LEMMA IntentLands ==
    ASSUME LanesInv, NEW m \in panel.out, L!IntentAnswered(m)
    PROVE  LanesInv'
<1> DEFINE p == L!Take(m)
<1>1. UNCHANGED <<tab, gestures>> /\ m.kind = "intent"
    BY DEF L!IntentAnswered
<1>2. CASE L!IsStale(panel, m) \/ m.seq # panel.intentSeq
  <2>1. panel' = p /\ applied' = applied
    BY <1>2 DEF L!IntentAnswered
  <2>2. QED
    BY <1>1, <2>1, AnswerDropped
<1>3. CASE ~(L!IsStale(panel, m) \/ m.seq # panel.intentSeq)
  <2>1. m \in Awaited(panel) /\ ~panel.closed
    BY <1>1, <1>3 DEF Awaited, L!IsStale
  <2>2. /\ PanelFits(p) /\ IntentsInOrder(p, LastOf(applied), gestures) /\ p \in Panels
        /\ p.out = panel.out \ {m} /\ p.generation = panel.generation
        /\ p.closed = panel.closed /\ p.pendingIntent = panel.pendingIntent
        /\ p.intentSeq = panel.intentSeq /\ p.header = panel.header
    BY AnswerTaken
  <2>3. /\ panel.pendingIntent = L!NoIntent
        /\ LastOf(applied) < m.intent.id /\ m.intent.id <= gestures
    BY <2>1 DEF LanesInv, IntentsInOrder
  <2>4. m.intent \in L!Intents
    <3>1. m.intent \in L!Intents \union {L!NoIntent}
      BY LanesFacts DEF PanelMessages
    <3>2. m.intent # L!NoIntent
      BY <2>3, LanesFacts DEF L!NoIntent
    <3>3. QED
      BY <3>1, <3>2
  <2>5. Awaited(p) = {}
    <3>1. Awaited(p) = Awaited(panel) \ {m}
      BY <2>2 DEF Awaited
    <3>2. QED
      BY <2>1, <3>1 DEF LanesInv, IntentsInOrder
  <2>6. CASE /\ panel' = L!applyOnPinnedItem(p, m.intent)
             /\ applied' = IF L!CarriesOut(panel, m.intent) THEN Append(applied, m.intent.id) ELSE applied
    <3>1. L!CarriesOut(panel, m.intent) = L!CarriesOut(p, m.intent)
      BY <2>2 DEF L!CarriesOut
    <3>2. m.intent.id \in Nat
      BY <2>4 DEF L!Intents
    <3>3. /\ applied' \in Seq(Nat) /\ Increasing(applied') /\ LastOf(applied') <= gestures
          /\ LastOf(applied') = IF L!CarriesOut(p, m.intent) THEN m.intent.id ELSE LastOf(applied)
      BY <2>3, <2>6, <3>1, <3>2, OneMore, LanesFacts
    <3>4. PanelFits(panel') /\ IntentsInOrder(panel', LastOf(applied'), gestures)
      <4>1. /\ PanelFits(L!applyOnPinnedItem(p, m.intent))
            /\ IntentsInOrder(L!applyOnPinnedItem(p, m.intent),
                              IF L!CarriesOut(p, m.intent) THEN m.intent.id ELSE LastOf(applied), gestures)
        BY <2>1, <2>2, <2>3, <2>4, <2>5, LanesFacts, IntentApplied
      <4>2. QED
        BY <2>6, <3>3, <4>1
    <3>5. QED
      BY <1>1, <3>3, <3>4, LanesFacts DEF LanesInv
  <2>7. CASE panel' = L!reread([p EXCEPT !.pendingIntent = m.intent]) /\ applied' = applied
    <3> DEFINE q == [p EXCEPT !.pendingIntent = m.intent]
    <3>1. /\ q \in Panels /\ q.out = p.out /\ q.generation = p.generation
          /\ q.intentSeq = p.intentSeq /\ q.pendingIntent = m.intent
      BY <2>2, <2>4 DEF Panels
    <3>2. panel' = L!reread(q)
      BY <2>7
    <3> HIDE DEF p, q
    <3>3. IsFiniteSet(q.out) /\ MessagesFit(q)
      <4>1. IsFiniteSet(q.out)
        BY <2>2, <3>1 DEF PanelFits
      <4>2. \A x \in q.out : x.gen <= q.generation
        BY <2>2, <3>1 DEF PanelFits, MessagesFit
      <4>3. q.pinnedUrl = p.pinnedUrl
        BY <2>2 DEF q, Panels
      <4>4. QED
        BY <2>2, <3>1, <4>1, <4>3 DEF PanelFits, MessagesFit
    <3>4. \A x \in q.out : x.kind = "intent" => x.seq <= q.intentSeq
      BY <2>2, <3>1 DEF IntentsInOrder
    <3>5. PanelFits(panel') /\ IntentsInOrder(panel', LastOf(applied), gestures)
      BY <2>3, <3>1, <3>2, <3>3, <3>4, LanesFacts, PageReread
    <3>6. QED
      BY <1>1, <2>7, <3>5, PanelMoves
  <2>8. QED
    BY <1>3, <2>6, <2>7 DEF L!IntentAnswered
<1>4. QED
    BY <1>2, <1>3

\* A lane's timer asks what became of its run.
LEMMA LanePolls ==
    ASSUME LanesInv, NEW l \in L!Lanes, L!pollLane(l)
    PROVE  LanesInv'
<1> DEFINE timers == panel.lanePollTimers \ {l}
           q == [panel EXCEPT !.lanePollTimers = timers]
           base == L!Message("state", panel)
           subject == L!laneRequestInput(l, panel)
           m == [base EXCEPT !.lane = l, !.subject = subject]
<1>1. panel' = L!Send(q, m) /\ UNCHANGED <<tab, gestures, applied>>
    BY DEF L!pollLane
<1>2. /\ panel \in Panels /\ IsFiniteSet(panel.out) /\ timers \in SUBSET L!Lanes
      /\ panel.pinnedUrl \in Urls /\ panel.term \in L!TermStates
    BY DEF LanesInv, PanelFits, Panels
<1>3. panel.closed => timers = {}
    BY DEF LanesInv, PanelFits, ClosedFits
<1>4. subject \in L!Subjects /\ subject.page = panel.pinnedUrl
    BY <1>2 DEF L!laneRequestInput, L!Subjects, L!TermStates
<1>5. base \in PanelMessages /\ base.kind = "state" /\ base.gen = panel.generation
    BY <1>2, MessageFacts
<1> HIDE DEF timers, base, subject
<1>6. m \in PanelMessages /\ m.kind = "state" /\ m.gen = panel.generation /\ m.subject.page = panel.pinnedUrl
    BY <1>4, <1>5 DEF PanelMessages
<1> HIDE DEF m
<1>7. /\ q \in Panels /\ q.out = panel.out /\ q.generation = panel.generation
      /\ q.pinnedUrl = panel.pinnedUrl /\ q.laneInFlight = panel.laneInFlight
      /\ q.laneState = panel.laneState /\ q.answer = panel.answer
      /\ q.lanePollTimers = timers /\ q.closed = panel.closed
      /\ q.pendingIntent = panel.pendingIntent /\ q.intentSeq = panel.intentSeq /\ q.header = panel.header
    BY <1>2 DEF Panels
<1> HIDE DEF q
<1>8. IsFiniteSet(q.out) /\ LanesFit(q) /\ ClosedFits(q)
    BY <1>2, <1>3, <1>7 DEF LanesInv, PanelFits, LanesFit, ClosedFits
<1>9. PanelFits(q) /\ IntentsInOrder(q, LastOf(applied), gestures)
    BY <1>7, <1>8, LanesFacts, PanelStands, OrderStands
<1>10. PanelFits(panel') /\ IntentsInOrder(panel', LastOf(applied), gestures)
    BY <1>1, <1>6, <1>7, <1>9, MessageSent, OrderStands
<1>11. QED
    BY <1>1, <1>10, PanelMoves

\* The tab's address is looked up.
LEMMA TabChecked ==
    ASSUME LanesInv, L!checkNavigation
    PROVE  LanesInv'
<1> DEFINE seq == panel.recogniseSeq + 1
           q == [panel EXCEPT !.recogniseSeq = seq, !.lastCheckedUrl = tab]
           base == L!Message("check", q)
           m == [base EXCEPT !.seq = q.recogniseSeq, !.subject.page = tab,
                             !.previous = panel.lastCheckedUrl]
<1>1. panel' = L!Send(q, m) /\ UNCHANGED <<tab, gestures, applied>>
    BY DEF L!checkNavigation
<1>2. panel \in Panels /\ seq \in Nat /\ tab \in Urls /\ panel.lastCheckedUrl \in Urls
    BY DEF LanesInv, PanelFits, Panels
<1> HIDE DEF seq
<1>3. /\ q \in Panels /\ q.out = panel.out /\ q.generation = panel.generation
      /\ q.pinnedUrl = panel.pinnedUrl /\ q.laneInFlight = panel.laneInFlight
      /\ q.laneState = panel.laneState /\ q.answer = panel.answer
      /\ q.lanePollTimers = panel.lanePollTimers /\ q.closed = panel.closed
      /\ q.pendingIntent = panel.pendingIntent /\ q.intentSeq = panel.intentSeq /\ q.header = panel.header
    BY <1>2 DEF Panels
<1> HIDE DEF q
<1>4. PanelFits(q) /\ IntentsInOrder(q, LastOf(applied), gestures)
    BY <1>3, LanesFacts, AsideSet
<1>5. base \in PanelMessages /\ base.kind = "check" /\ base.gen = q.generation
    BY <1>3, MessageFacts
<1> HIDE DEF base
<1>6. m \in PanelMessages /\ m.kind = "check" /\ m.gen = q.generation
  <2> DEFINE subject == [base.subject EXCEPT !.page = tab]
  <2>1. subject \in L!Subjects
    BY <1>2, <1>5 DEF PanelMessages, L!Subjects
  <2>2. m = [base EXCEPT !.seq = q.recogniseSeq, !.subject = subject, !.previous = panel.lastCheckedUrl]
    OBVIOUS
  <2>3. q.recogniseSeq \in Nat
    BY <1>3 DEF Panels
  <2> HIDE DEF m, subject
  <2>4. m \in PanelMessages
    BY <1>2, <1>5, <2>1, <2>2, <2>3 DEF PanelMessages
  <2>5. QED
    BY <1>5, <2>2, <2>4 DEF PanelMessages
<1> HIDE DEF m
<1>7. PanelFits(panel') /\ IntentsInOrder(panel', LastOf(applied), gestures)
    BY <1>1, <1>4, <1>6, MessageSent, OrderStands
<1>8. QED
    BY <1>1, <1>7, PanelMoves

\* A gesture that carries out no intent of the worker's.
LEMMA GestureMoves ==
    ASSUME LanesInv, L!Gesture, UNCHANGED <<tab, applied>>,
           PanelFits(panel'), IntentsInOrder(panel', LastOf(applied), gestures)
    PROVE  LanesInv'
BY PanelMoves DEF L!Gesture

\* A lane is opened or closed, or asked again.
LEMMA LaneToggled ==
    ASSUME LanesInv, NEW l \in L!Lanes, L!onLaneToggle(l) \/ L!Rerun(l)
    PROVE  LanesInv'
<1>1. CASE L!Rerun(l)
    BY <1>1, LanesFacts, RunSent, GestureMoves DEF L!Rerun
<1>2. CASE L!onLaneToggle(l)
  <2> DEFINE to == ~panel.laneOpen[l]
             q == [panel EXCEPT !.laneOpen[l] = to]
  <2>1. L!Gesture /\ UNCHANGED <<tab, applied>>
        /\ panel' = IF q.laneOpen[l] /\ q.laneState[l] = "collapsed" THEN L!sendAgentRun(q, l) ELSE q
    BY <1>2 DEF L!onLaneToggle
  <2>2. to \in BOOLEAN
    OBVIOUS
  <2> HIDE DEF to
  <2>3. PanelFits(q) /\ IntentsInOrder(q, LastOf(applied), gestures)
    BY <2>2, LanesFacts, LaneOpened
  <2>4. \/ panel' = q
        \/ panel' = L!sendAgentRun(q, l)
    BY <2>1
  <2> HIDE DEF q
  <2>5. QED
    BY <2>1, <2>3, <2>4, RunSent, GestureMoves
<1>3. QED
    BY <1>1, <1>2

\* A candidate is picked, and Related asked for.
LEMMA CandidatePicked ==
    ASSUME LanesInv, L!Pick
    PROVE  LanesInv'
<1> DEFINE q == [panel EXCEPT !.chosen = TRUE]
<1>1. L!Gesture /\ UNCHANGED <<tab, applied>> /\ panel' = L!loadRelated(q)
    BY DEF L!Pick
<1>2. panel \in Panels
    BY LanesFacts
<1>3. /\ q \in Panels /\ q.out = panel.out /\ q.generation = panel.generation
      /\ q.pinnedUrl = panel.pinnedUrl /\ q.laneInFlight = panel.laneInFlight
      /\ q.laneState = panel.laneState /\ q.answer = panel.answer
      /\ q.lanePollTimers = panel.lanePollTimers /\ q.closed = panel.closed
      /\ q.pendingIntent = panel.pendingIntent /\ q.intentSeq = panel.intentSeq /\ q.header = panel.header
    BY <1>2 DEF Panels
<1> HIDE DEF q
<1>4. PanelFits(q) /\ IntentsInOrder(q, LastOf(applied), gestures)
    BY <1>3, LanesFacts, AsideSet
<1>5. QED
    BY <1>1, <1>4, RelatedAsked, GestureMoves

\* The user has the page read anew; what waits for a header goes on waiting.
LEMMA RereadClicked ==
    ASSUME LanesInv, L!RereadClick
    PROVE  LanesInv'
<1>1. L!Gesture /\ UNCHANGED <<tab, applied>> /\ panel' = L!reread(panel)
    BY DEF L!RereadClick
<1>2. PanelFits(panel') /\ IntentsInOrder(panel', LastOf(applied), gestures)
    BY <1>1, LanesFacts, PageReread DEF PanelFits, IntentsInOrder
<1>3. QED
    BY <1>1, <1>2, GestureMoves

\* An intent comes, later than all others.
LEMMA IntentComes ==
    ASSUME LanesInv, NEW kind, NEW t, L!Intent(kind, t)
    PROVE  LanesInv'
<1> DEFINE i == [kind |-> kind, term |-> t, id |-> gestures']
<1>1. /\ L!Gesture /\ UNCHANGED tab /\ i \in L!Intents /\ panel' = L!applyIntent(panel, i)
      /\ applied' = IF tab = panel.pinnedUrl /\ L!CarriesOut(panel, i) THEN Append(applied, i.id) ELSE applied
    BY DEF L!Intent
<1>2. gestures' = gestures + 1 /\ ~panel.closed /\ i.id = gestures'
    BY <1>1 DEF L!Gesture
<1> HIDE DEF i
<1>3. gestures' \in Nat /\ LastOf(applied) < i.id /\ i.id <= gestures'
    BY <1>2, LanesFacts
<1>4. IntentsInOrder(panel, LastOf(applied), gestures')
    BY <1>2, LanesFacts, OrderGrows
<1>5. panel.pendingIntent = L!NoIntent \/ panel.pendingIntent.id < i.id
  <2>1. panel.pendingIntent \in L!Intents \union {L!NoIntent}
    BY LanesFacts DEF Panels
  <2>2. panel.pendingIntent.id \in Nat
    BY <2>1 DEF L!Intents, L!NoIntent
  <2>3. panel.pendingIntent # L!NoIntent => panel.pendingIntent.id <= gestures
    BY DEF LanesInv, IntentsInOrder
  <2>4. QED
    BY <1>2, <2>2, <2>3, LanesFacts
<1> DEFINE done == tab = panel.pinnedUrl /\ L!CarriesOut(panel, i)
<1>6. /\ PanelFits(panel')
      /\ IntentsInOrder(panel', IF done THEN i.id ELSE LastOf(applied), gestures')
    BY <1>1, <1>2, <1>3, <1>4, <1>5, LanesFacts, IntentArrives
<1>7. /\ applied' \in Seq(Nat) /\ Increasing(applied') /\ LastOf(applied') <= gestures'
      /\ LastOf(applied') = IF done THEN i.id ELSE LastOf(applied)
  <2>1. applied' = IF done THEN Append(applied, i.id) ELSE applied
    BY <1>1
  <2>2. i.id \in Nat
    BY <1>2, <1>3
  <2> HIDE DEF done
  <2>3. QED
    BY <1>2, <1>3, <2>1, <2>2, OneMore, LanesFacts
<1>8. QED
    BY <1>1, <1>3, <1>6, <1>7, LanesFacts DEF LanesInv

\* The panel is closed: it polls nothing, and nothing waits for its header.
LEMMA PanelClosed ==
    ASSUME LanesInv, L!stopAgentPolls
    PROVE  LanesInv'
<1> DEFINE q == [panel EXCEPT !.closed = TRUE, !.pendingIntent = L!NoIntent, !.lanePollTimers = {}]
<1>1. L!Gesture /\ UNCHANGED <<tab, applied>> /\ panel' = q
    BY DEF L!stopAgentPolls
<1>2. panel \in Panels /\ IsFiniteSet(panel.out)
    BY DEF LanesInv, PanelFits
<1>3. /\ q \in Panels /\ q.out = panel.out /\ q.generation = panel.generation
      /\ q.pinnedUrl = panel.pinnedUrl /\ q.laneInFlight = panel.laneInFlight
      /\ q.laneState = panel.laneState /\ q.answer = panel.answer
      /\ q.lanePollTimers = {} /\ q.pendingIntent = L!NoIntent
      /\ q.intentSeq = panel.intentSeq /\ q.header = panel.header
    BY <1>2 DEF Panels
<1> HIDE DEF q
<1>4. IsFiniteSet(q.out) /\ LanesFit(q) /\ ClosedFits(q)
    BY <1>2, <1>3 DEF LanesInv, PanelFits, LanesFit, ClosedFits
<1>5. PanelFits(q)
    BY <1>3, <1>4, LanesFacts, PanelStands
<1>6. Awaited(q) = Awaited(panel)
    BY <1>3 DEF Awaited
<1>7. IntentsInOrder(q, LastOf(applied), gestures)
    BY <1>3, <1>6, LanesFacts DEF IntentsInOrder
<1>8. QED
    BY <1>1, <1>5, <1>7, GestureMoves

\* Every step of the lanes keeps the invariant.
LEMMA LanesNext == LanesInv /\ L!Next => LanesInv'
<1> SUFFICES ASSUME LanesInv, L!Next PROVE LanesInv'
    OBVIOUS
<1>1. CASE \E u \in Urls : L!Navigate(u)
    BY <1>1, TabMovesOn
<1>2. CASE \E m \in panel.out : L!Answer(m)
    BY <1>2, HeaderAnswered, RelatedLands, RunLands, PollLands, CheckLands, IntentLands DEF L!Answer
<1>3. CASE \E l \in L!Lanes : L!pollLane(l) \/ L!onLaneToggle(l) \/ L!Rerun(l)
    BY <1>3, LanePolls, LaneToggled
<1>4. CASE L!checkNavigation \/ L!Pick \/ L!RereadClick \/ L!stopAgentPolls
    BY <1>4, TabChecked, CandidatePicked, RereadClicked, PanelClosed
<1>5. CASE \E kind \in {"define", "related", "focus"} \union L!Lanes, t \in L!TermStates : L!Intent(kind, t)
    BY <1>5, IntentComes
<1>6. QED
    BY <1>1, <1>2, <1>3, <1>4, <1>5 DEF L!Next

\* The invariant of the lanes holds, in whatever order the answers come, or if they
\* never do.
THEOREM LanesInvHolds == Spec => [](which = "lanes" => LanesInv)
<1> DEFINE Inv == which = "lanes" => LanesInv
<1>1. ASSUME Init PROVE Inv
  <2>1. which = "lanes" => L!Init
    BY <1>1 DEF Init
  <2>2. QED
    BY <2>1, LanesInit
<1>2. ASSUME Inv, [Next]_vars PROVE Inv'
  <2>1. CASE Next
    <3>1. which' = which /\ (which = "lanes" => L!Next)
      BY <2>1 DEF Next
    <3>2. QED
      BY <1>2, <3>1, LanesNext
  <2>2. CASE UNCHANGED vars
    <3>1. UNCHANGED <<which, tab, panel, gestures, applied>>
      BY <2>2 DEF vars, ofLanes
    <3>2. LanesInv => LanesInv'
      BY <3>1 DEF LanesInv, PanelFits, MessagesFit, LanesFit, FlightsFit, Running, ClosedFits, IntentsInOrder, Awaited
    <3>3. QED
      BY <1>2, <3>1, <3>2
  <2>3. QED
    BY <1>2, <2>1, <2>2
<1>3. QED
    BY <1>1, <1>2, PTL DEF Spec

\* A lane never shows the answer about a page the panel has stopped describing
\* (panel-in-page.ts:548-554).
THEOREM AnswersThisPageHolds == Spec => []AnswersThisPage
<1>1. (which = "lanes" => LanesInv) => AnswersThisPage
    BY DEF AnswersThisPage, L!AnswersThisPage, LanesInv, PanelFits, LanesFit
<1>2. QED
    BY <1>1, LanesInvHolds, PTL

\* One run of a lane is in flight for the page shown, and a closed panel polls nothing
\* (panel-in-page.ts:732-763).
THEOREM NoStrayWorkHolds == Spec => []NoStrayWork
<1>1. ASSUME LanesInv PROVE L!NoStrayWork
  <2>1. ASSUME NEW l \in L!Lanes PROVE L!Cardinality(Running(panel, l)) <= 1
    <3>1. \A m, n \in Running(panel, l) : m = n
      BY <1>1 DEF LanesInv, PanelFits, FlightsFit
    <3>2. CASE Running(panel, l) = {}
      BY <3>2, FS_EmptySet, LanesCount
    <3>3. CASE Running(panel, l) # {}
      <4>1. PICK m : m \in Running(panel, l)
        BY <3>3
      <4>2. Running(panel, l) = {m}
        BY <3>1, <4>1
      <4>3. Cardinality({m}) = 1
        BY FS_Singleton
      <4>4. QED
        BY <4>2, <4>3, LanesCount
    <3>4. QED
      BY <3>2, <3>3
  <2>2. L!OneRunInFlight
    BY <2>1 DEF L!OneRunInFlight, Running
  <2>3. L!ClosedMeansQuiet
    BY <1>1 DEF L!ClosedMeansQuiet, LanesInv, PanelFits, ClosedFits
  <2>4. QED
    BY <2>2, <2>3 DEF L!NoStrayWork
<1>2. (which = "lanes" => LanesInv) => NoStrayWork
    BY <1>1 DEF NoStrayWork
<1>3. QED
    BY <1>2, LanesInvHolds, PTL

\* An intent is carried out at most once, and never after one that came later
\* (panel-in-page.ts:719-731, 1944-1951).
THEOREM LastIntentWinsHolds == Spec => []LastIntentWins
<1>1. (which = "lanes" => LanesInv) => LastIntentWins
    BY DEF LastIntentWins, L!LastIntentWins, LanesInv, Increasing
<1>2. QED
    BY <1>1, LanesInvHolds, PTL

----------------------------------------------------------------------------
(* The panel's header.                                                     *)

HeaderKinds == {"loading", "error", "service", "needs-scope", "file", "resolved", "captured",
                "ambiguous", "not-indexed", "unrecognised"}
HeaderStates == [kind : HeaderKinds, fetchable : BOOLEAN, why : {"none"}]
StillWorking == [H!Header("fetch-retry") EXCEPT !.why = "still-working"]
RateLimited == [H!Header("fetch-retry") EXCEPT !.why = "rate-limited"]
Blocked == H!Header("fetch-blocked")
FetchStates ==
    {H!NoState, H!Header("fetching"), H!Header("error"), StillWorking, RateLimited, Blocked}

HeaderMessages ==
    [kind : {"resolve", "fetch", "capture", "capturing", "clip"}, gen : Nat, url : Addresses, id : Nat]

HeaderPanels ==
    [pinnedUrl : Addresses, pinned : BOOLEAN, header : HeaderStates, chosen : BOOLEAN,
     generation : Nat, navAway : BOOLEAN, fetchSent : BOOLEAN, fetchState : FetchStates,
     fetchPreview : BOOLEAN, captureState : {H!NoState, H!Header("error")},
     captureRefusal : BOOLEAN, pendingCapture : Addresses \union {H!NoPage},
     capturePreview : BOOLEAN, capturing : BOOLEAN, out : SUBSET HeaderMessages]

\* The messages that the panel still waits for.
Awaits(p, kinds) == {m \in p.out : m.kind \in kinds /\ m.gen = p.generation}
Resolves(p) == Awaits(p, {"resolve"})
Fetches(p) == Awaits(p, {"fetch"})
Captures(p) == Awaits(p, {"capture", "capturing", "clip"})
Lone(messages) == \A m, n \in messages : m = n

\* What a provider was asked for the page described, and may still be at work on.
AtWork(p, asks) == {m \in asks : m.gen = p.generation}

\* What is under way for the page, and the copy of it, are of its address.
ClipsFit(p) ==
    /\ \A m \in p.out : m.gen <= p.generation /\ (m.gen = p.generation => m.url = p.pinnedUrl)
    /\ p.pendingCapture \in {H!NoPage, p.pinnedUrl}

\* A fetch was sent once only, and is under way or at work.
FetchesFit(p, asks) ==
    /\ \A m \in asks : m.gen \in Nat /\ m.gen <= p.generation
    /\ Lone(Fetches(p)) /\ Lone(AtWork(p, asks))
    /\ Fetches(p) = {} \/ AtWork(p, asks) = {}
    /\ ~p.fetchSent => Fetches(p) = {} /\ AtWork(p, asks) = {}

\* A capture goes on one step after the other.
CapturesFit(p) ==
    /\ Lone(Captures(p))
    /\ ~p.capturing => Captures(p) = {} /\ ~p.capturePreview
    /\ p.capturePreview => Captures(p) = {}

\* A capture is under way or was refused.
Captured(p) == p.capturing \/ p.captureRefusal

\* The button to fetch may be offered: the page can be fetched, as far as is known.
Fetchable(p) == p.header = H!NotIndexed(TRUE)

\* A capture and the fetch before it are one after the other.
TurnsFit(p) ==
    /\ Captured(p) => ~p.fetchPreview /\ p.fetchState \in {H!NoState, Blocked}
    /\ Fetchable(p) /\ p.fetchState # Blocked => ~Captured(p)
    /\ p.captureRefusal => ~p.capturing /\ p.captureState = H!NoState
    /\ ~p.fetchSent => \/ p.fetchState = H!NoState
                       \/ p.fetchState = RateLimited /\ Fetchable(p) /\ Resolves(p) = {}
    /\ p.fetchSent => p.fetchState # RateLimited
    /\ p.fetchPreview => p.fetchState \in {H!NoState, RateLimited} /\ Fetches(p) = {}
    /\ p.fetchPreview /\ ~p.fetchSent => Fetchable(p) /\ Resolves(p) = {}
    /\ Fetches(p) # {} => /\ p.fetchState = H!Header("fetching") /\ Fetchable(p)
                          /\ Resolves(p) = {}
    /\ ~p.fetchSent => Lone(Resolves(p))
    /\ ~p.fetchSent /\ Resolves(p) # {} =>
          /\ ~Captured(p)
          /\ p.captureState = H!Header("error") \/ p.header.kind = "loading"

OfPreview == {"send fetch", "cancel fetch", "re-read"}

\* What is on the screen is what the panel would paint, or the preview of a fetch that
\* was turned away; where nothing but an answer can help, there is nothing to click.
ScreenFits(p, s) ==
    /\ s = H!paint(p) \/ s \subseteq OfPreview
    /\ p.captureRefusal => s = H!paint(p)
    /\ p.fetchPreview => s \subseteq OfPreview
    /\ s \intersect {"send fetch", "cancel fetch"} # {} =>
          s \subseteq OfPreview /\ ~Captured(p) /\ (p.fetchPreview \/ p.fetchSent)
    /\ s \intersect {"send capture", "cancel capture"} # {} => p.capturePreview
    /\ Fetches(p) # {} \/ (~p.fetchSent /\ Resolves(p) # {}) => s \subseteq {"re-read"}

HeaderInv ==
    /\ tab \in Addresses /\ panel \in HeaderPanels /\ IsFiniteSet(panel.out)
    /\ ClipsFit(panel) /\ FetchesFit(panel, provider) /\ CapturesFit(panel) /\ TurnsFit(panel)
    /\ ScreenFits(panel, screen)

\* The states of a header tell each other apart.
LEMMA StateFacts ==
    /\ H!NoState.kind = "null" /\ H!Header("fetching").kind = "fetching"
    /\ H!Header("error").kind = "error" /\ Blocked.kind = "fetch-blocked"
    /\ StillWorking.kind = "fetch-retry" /\ StillWorking.why = "still-working"
    /\ RateLimited.kind = "fetch-retry" /\ RateLimited.why = "rate-limited"
    /\ H!Header("loading").kind = "loading"
    /\ H!NotIndexed(TRUE).kind = "not-indexed" /\ H!NotIndexed(TRUE).fetchable = TRUE
    /\ H!NotIndexed(FALSE).kind = "not-indexed" /\ H!NotIndexed(FALSE).fetchable = FALSE
    /\ \A kind \in HeaderKinds : H!Header(kind) \in HeaderStates /\ H!Header(kind).kind = kind
    /\ \A b \in BOOLEAN : H!NotIndexed(b) \in HeaderStates
    /\ \A h \in HeaderStates : h.kind = "not-indexed" /\ h.fetchable => h = H!NotIndexed(TRUE)
BY DEF H!NoState, H!Header, H!NotIndexed, Blocked, StillWorking, RateLimited, HeaderStates, HeaderKinds

\* The controls of a header.
LEMMA ControlFacts ==
    ASSUME NEW h
    PROVE  /\ H!renderHeader(h) \subseteq {"fetch", "try again", "check again", "choose",
                                           "save a copy", "update this copy"}
           /\ "fetch" \in H!renderHeader(h) => h.kind = "not-indexed" /\ h.fetchable
           /\ "try again" \in H!renderHeader(h) => h.kind = "fetch-retry" /\ h.why = "rate-limited"
           /\ "check again" \in H!renderHeader(h) => h.kind = "fetch-retry" /\ h.why = "still-working"
           /\ "choose" \in H!renderHeader(h) => h.kind = "ambiguous"
           /\ "save a copy" \in H!renderHeader(h) <=> H!offersCapture(h)
           /\ "update this copy" \in H!renderHeader(h) <=> h.kind = "captured"
BY DEF H!renderHeader

\* A header on which the user can do nothing.
LEMMA NoControls ==
    ASSUME NEW h, h.kind \in {"null", "error", "loading", "fetching"}
    PROVE  H!renderHeader(h) = {}
BY ControlFacts DEF H!offersCapture

\* What the panel is painted from.
LEMMA PaintFacts ==
    ASSUME NEW p \in HeaderPanels
    PROVE  /\ p.fetchPreview => H!paint(p) \subseteq OfPreview
           /\ H!paint(p) \intersect {"send fetch", "cancel fetch"} # {} => p.fetchPreview
           /\ H!paint(p) \intersect {"send capture", "cancel capture"} # {} => p.capturePreview
           /\ H!paint(p) \intersect {"fetch", "try again", "check again", "choose",
                                     "save a copy", "update this copy"}
                \subseteq H!renderHeader(H!shownHeader(p))
           /\ H!paint(p) \intersect {"fetch", "try again", "check again", "choose",
                                     "save a copy", "update this copy"} # {} =>
                ~p.fetchPreview /\ ~(p.capturePreview /\ p.pendingCapture # H!NoPage)
           /\ ~p.fetchPreview /\ ~(p.capturePreview /\ p.pendingCapture # H!NoPage) =>
                /\ H!renderHeader(H!shownHeader(p)) \subseteq H!paint(p)
                /\ H!paint(p) \subseteq H!renderHeader(H!shownHeader(p)) \union {"re-read"}
BY ControlFacts DEF H!paint, OfPreview

\* What is shown, and which part of the panel it is.
LEMMA ShownFacts ==
    ASSUME NEW p \in HeaderPanels
    PROVE  LET h == H!shownHeader(p)
           IN  /\ p.captureState # H!NoState => h.kind = "error"
               /\ p.captureState = H!NoState /\ p.fetchState # H!NoState => h = p.fetchState
               /\ p.captureState = H!NoState /\ p.fetchState = H!NoState =>
                    h = p.header \/ (h.kind = "chosen" /\ p.header.kind = "ambiguous")
<1>1. p.captureState \in {H!NoState, H!Header("error")}
    BY DEF HeaderPanels
<1>2. H!Header("chosen").kind = "chosen"
    BY DEF H!Header
<1>3. QED
    BY <1>1, <1>2, StateFacts DEF H!shownHeader

\* What a click on a control of the header says of the panel.
LEMMA ClickFacts ==
    ASSUME NEW p \in HeaderPanels
    PROVE  /\ "fetch" \in H!paint(p) =>
                ~p.fetchPreview /\ p.captureState = H!NoState /\ p.fetchState = H!NoState /\ Fetchable(p)
           /\ "try again" \in H!paint(p) =>
                ~p.fetchPreview /\ p.captureState = H!NoState /\ p.fetchState = RateLimited
           /\ "check again" \in H!paint(p) => p.fetchState = StillWorking
           /\ H!paint(p) \intersect {"save a copy", "update this copy"} # {} =>
                /\ ~p.fetchPreview /\ p.captureState = H!NoState
                /\ p.fetchState = Blocked \/ (p.fetchState = H!NoState /\ ~Fetchable(p))
<1> DEFINE h == H!shownHeader(p)
<1>1. /\ p.captureState # H!NoState => h.kind = "error"
      /\ p.captureState = H!NoState /\ p.fetchState # H!NoState => h = p.fetchState
      /\ p.captureState = H!NoState /\ p.fetchState = H!NoState =>
           h = p.header \/ (h.kind = "chosen" /\ p.header.kind = "ambiguous")
    BY ShownFacts
<1>2. p.fetchState \in FetchStates /\ p.header \in HeaderStates /\ p.header.kind \in HeaderKinds
    BY DEF HeaderPanels, HeaderStates
<1> HIDE DEF h
<1>3. h.kind = "not-indexed" /\ h.fetchable =>
         p.captureState = H!NoState /\ p.fetchState = H!NoState /\ Fetchable(p)
    BY <1>1, <1>2, StateFacts DEF FetchStates, Fetchable
<1>4. h.kind = "fetch-retry" => p.captureState = H!NoState /\ p.fetchState = h
    BY <1>1, <1>2, StateFacts DEF FetchStates, HeaderKinds
<1>5. h.kind = "fetch-retry" =>
         /\ h.why = "rate-limited" => h = RateLimited
         /\ h.why = "still-working" => h = StillWorking
    BY <1>2, <1>4, StateFacts DEF FetchStates
<1>6. H!offersCapture(h) \/ h.kind = "captured" =>
         /\ p.captureState = H!NoState
         /\ p.fetchState = Blocked \/ (p.fetchState = H!NoState /\ ~Fetchable(p))
    BY <1>1, <1>2, StateFacts DEF FetchStates, HeaderKinds, H!offersCapture, Fetchable
<1>7. /\ H!paint(p) \intersect {"fetch", "try again", "check again", "choose",
                                "save a copy", "update this copy"} \subseteq H!renderHeader(h)
      /\ H!paint(p) \intersect {"fetch", "try again", "check again", "choose",
                                "save a copy", "update this copy"} # {} => ~p.fetchPreview
    BY PaintFacts DEF h
<1>8. QED
    BY <1>3, <1>4, <1>5, <1>6, <1>7, ControlFacts

\* The header counts as this module does.
LEMMA HeaderCount == ASSUME NEW X PROVE H!Cardinality(X) = Cardinality(X)
BY DEF H!Cardinality, Cardinality

HeaderFits(p, asks) ==
    /\ p \in HeaderPanels /\ IsFiniteSet(p.out)
    /\ ClipsFit(p) /\ FetchesFit(p, asks) /\ CapturesFit(p) /\ TurnsFit(p)

\* A message gets a number that none of its kind has.
LEMMA HeaderMessage ==
    ASSUME NEW p \in HeaderPanels, IsFiniteSet(p.out),
           NEW kind \in {"resolve", "fetch", "capture", "capturing", "clip"}
    PROVE  /\ H!Message(kind, p) \in HeaderMessages /\ H!Message(kind, p) \notin p.out
           /\ H!Message(kind, p).kind = kind /\ H!Message(kind, p).gen = p.generation
           /\ H!Message(kind, p).url = p.pinnedUrl
<1> DEFINE c == Cardinality(p.out)
           Used(n) == \E m \in p.out : m.kind = kind /\ m.gen = p.generation /\ m.id = n
           id == CHOOSE n \in 0 .. c : ~Used(n)
<1>1. c \in Nat /\ p.generation \in Nat /\ p.pinnedUrl \in Addresses
    BY FS_CardinalityType DEF HeaderPanels
<1>2. \E n \in 0 .. c : ~Used(n)
  <2>1. SUFFICES ASSUME \A n \in 0 .. c : Used(n) PROVE FALSE
    OBVIOUS
  <2> DEFINE f == [n \in 0 .. c |-> CHOOSE m \in p.out : m.id = n]
  <2>2. \A n \in 0 .. c : f[n] \in p.out /\ f[n].id = n
    BY <2>1
  <2>3. f \in [0 .. c -> p.out]
    BY <2>2
  <2> HIDE DEF f
  <2>4. f \in Injection(0 .. c, p.out)
    BY <2>2, <2>3 DEF Injection, IsInjective
  <2>5. Cardinality(0 .. c) <= c
    BY <2>4, FS_Injection
  <2>6. Cardinality(0 .. c) = c + 1
    BY <1>1, FS_Interval
  <2>7. QED
    BY <1>1, <2>5, <2>6
<1>3. id \in 0 .. c /\ ~Used(id)
    BY <1>2
<1>4. H!Message(kind, p) = [kind |-> kind, gen |-> p.generation, url |-> p.pinnedUrl, id |-> id]
    BY HeaderCount DEF H!Message
<1> HIDE DEF id
<1>5. QED
    BY <1>1, <1>3, <1>4 DEF HeaderMessages

\* What is painted is what the panel can do.
LEMMA HeaderPainted ==
    ASSUME NEW p, NEW asks, HeaderFits(p, asks)
    PROVE  ScreenFits(p, H!paint(p))
<1> DEFINE s == H!paint(p)
           h == H!shownHeader(p)
<1>1. /\ p \in HeaderPanels /\ TurnsFit(p) /\ CapturesFit(p)
      /\ p.fetchState \in FetchStates /\ p.captureState \in {H!NoState, H!Header("error")}
    BY DEF HeaderFits, HeaderPanels
<1>2. /\ p.fetchPreview => s \subseteq OfPreview
      /\ s \intersect {"send fetch", "cancel fetch"} # {} => p.fetchPreview
      /\ s \intersect {"send capture", "cancel capture"} # {} => p.capturePreview
      /\ ~p.fetchPreview /\ ~(p.capturePreview /\ p.pendingCapture # H!NoPage) =>
           s \subseteq H!renderHeader(h) \union {"re-read"}
    BY <1>1, PaintFacts
<1>3. ASSUME Fetches(p) # {} \/ (~p.fetchSent /\ Resolves(p) # {})
      PROVE  s \subseteq {"re-read"}
  <2>1. ~p.fetchPreview
    BY <1>1, <1>3 DEF TurnsFit
  <2>2. ~p.capturePreview
    BY <1>1, <1>3, StateFacts DEF TurnsFit, CapturesFit, Captured
  <2>3. h.kind \in {"null", "error", "loading", "fetching"}
    <3>1. CASE p.captureState # H!NoState
      BY <1>1, <3>1, ShownFacts
    <3>2. CASE p.captureState = H!NoState /\ Fetches(p) # {}
      BY <1>1, <3>2, ShownFacts, StateFacts DEF TurnsFit
    <3>3. CASE p.captureState = H!NoState /\ Fetches(p) = {}
      <4>1. p.header.kind = "loading" /\ p.fetchState = H!NoState
        BY <1>1, <1>3, <3>3, StateFacts DEF TurnsFit
      <4>2. QED
        BY <1>1, <3>3, <4>1, ShownFacts
    <3>4. QED
      BY <3>1, <3>2, <3>3
  <2>4. H!renderHeader(h) = {}
    BY <2>3, NoControls
  <2> HIDE DEF s, h
  <2>5. QED
    BY <1>2, <2>1, <2>2, <2>4
<1> HIDE DEF s, h
<1>4. s \intersect {"send fetch", "cancel fetch"} # {} => p.fetchPreview /\ ~Captured(p)
    BY <1>1, <1>2 DEF TurnsFit
<1>5. ScreenFits(p, s)
    BY <1>2, <1>3, <1>4 DEF ScreenFits, s
<1>6. QED
    BY <1>5 DEF s

\* A turn that paints.
LEMMA HeaderBecomes ==
    ASSUME tab' \in Addresses, HeaderFits(panel', provider'), screen' = H!paint(panel')
    PROVE  HeaderInv'
<1>1. ScreenFits(panel', screen')
    BY HeaderPainted
<1>2. QED
    BY <1>1 DEF HeaderInv, HeaderFits

\* What the user sees of the panel is the same.
SameFace(p, q) ==
    /\ q.header = p.header /\ q.chosen = p.chosen /\ q.navAway = p.navAway
    /\ q.fetchState = p.fetchState /\ q.fetchPreview = p.fetchPreview
    /\ q.captureState = p.captureState /\ q.capturePreview = p.capturePreview
    /\ q.pendingCapture = p.pendingCapture

\* A turn that does not paint, and need not.
LEMMA HeaderUnseen ==
    ASSUME HeaderInv, tab' \in Addresses, HeaderFits(panel', provider'), screen' = screen,
           SameFace(panel, panel'), panel'.fetchSent = panel.fetchSent,
           panel'.capturing = panel.capturing, panel'.captureRefusal = panel.captureRefusal,
           Fetches(panel') \subseteq Fetches(panel),
           ~panel.fetchSent => Resolves(panel') \subseteq Resolves(panel)
    PROVE  HeaderInv'
<1>1. H!paint(panel') = H!paint(panel)
    BY DEF SameFace, H!paint, H!shownHeader
<1>2. Captured(panel') = Captured(panel)
    BY DEF Captured
<1>3. ScreenFits(panel', screen')
    BY <1>1, <1>2 DEF HeaderInv, ScreenFits, SameFace
<1>4. QED
    BY <1>3 DEF HeaderInv, HeaderFits

\* What is known of the header's parts.
LEMMA HeaderFacts ==
    ASSUME HeaderInv
    PROVE  /\ HeaderFits(panel, provider) /\ ScreenFits(panel, screen) /\ tab \in Addresses
           /\ panel \in HeaderPanels /\ IsFiniteSet(panel.out) /\ panel.out \in SUBSET HeaderMessages
           /\ panel.generation \in Nat /\ panel.fetchState \in FetchStates
    BY DEF HeaderInv, HeaderFits, HeaderPanels

\* An answer is taken out of what is under way.
LEMMA HeaderTakes ==
    ASSUME HeaderInv, NEW m \in panel.out
    PROVE  LET q == H!Take(m)
           IN  /\ HeaderFits(q, provider) /\ q.out = panel.out \ {m} /\ SameFace(panel, q)
               /\ q.generation = panel.generation /\ q.pinnedUrl = panel.pinnedUrl
               /\ q.pinned = panel.pinned /\ q.fetchSent = panel.fetchSent
               /\ q.capturing = panel.capturing /\ q.captureRefusal = panel.captureRefusal
               /\ Resolves(q) = Resolves(panel) \ {m} /\ Fetches(q) = Fetches(panel) \ {m}
               /\ Captures(q) = Captures(panel) \ {m}
<1> DEFINE q == H!Take(m)
<1>1. panel \in HeaderPanels /\ panel.out \in SUBSET HeaderMessages /\ IsFiniteSet(panel.out)
    BY HeaderFacts
<1>2. /\ q \in HeaderPanels /\ q.out = panel.out \ {m}
      /\ q.generation = panel.generation /\ q.pinnedUrl = panel.pinnedUrl
      /\ q.pinned = panel.pinned /\ q.fetchSent = panel.fetchSent
      /\ q.capturing = panel.capturing /\ q.captureRefusal = panel.captureRefusal
    BY <1>1 DEF H!Take, HeaderPanels
<1>3. SameFace(panel, q)
    BY <1>1 DEF H!Take, HeaderPanels, SameFace
<1> HIDE DEF q
<1>4. IsFiniteSet(q.out)
    BY <1>1, <1>2, FS_Subset
<1>5. /\ Resolves(q) = Resolves(panel) \ {m} /\ Fetches(q) = Fetches(panel) \ {m}
      /\ Captures(q) = Captures(panel) \ {m} /\ AtWork(q, provider) = AtWork(panel, provider)
    BY <1>2 DEF Resolves, Fetches, Captures, Awaits, AtWork
<1>6. ClipsFit(q)
    BY <1>2, <1>3 DEF HeaderInv, ClipsFit, SameFace
<1>7. FetchesFit(q, provider)
    BY <1>2, <1>5 DEF HeaderInv, FetchesFit, Lone
<1>8. CapturesFit(q)
    BY <1>2, <1>3, <1>5 DEF HeaderInv, CapturesFit, Lone, SameFace
<1>9. TurnsFit(q)
    BY <1>2, <1>3, <1>5 DEF HeaderInv, TurnsFit, Captured, Fetchable, Lone, SameFace
<1>10. HeaderFits(q, provider)
    BY <1>2, <1>4, <1>6, <1>7, <1>8, <1>9 DEF HeaderFits
<1>11. QED
    BY <1>2, <1>3, <1>5, <1>10 DEF q

\* Fields of the panel are set, and nothing is sent.
LEMMA FieldsSet ==
    ASSUME NEW p, NEW asks, HeaderFits(p, asks), NEW q \in HeaderPanels, q.out = p.out,
           q.generation = p.generation, q.pinnedUrl = p.pinnedUrl,
           q.pendingCapture \in {H!NoPage, p.pinnedUrl},
           ~q.fetchSent => Fetches(p) = {} /\ AtWork(p, asks) = {},
           ~q.capturing => Captures(p) = {} /\ ~q.capturePreview,
           q.capturePreview => Captures(p) = {}
    PROVE  /\ Resolves(q) = Resolves(p) /\ Fetches(q) = Fetches(p) /\ Captures(q) = Captures(p)
           /\ AtWork(q, asks) = AtWork(p, asks)
           /\ TurnsFit(q) => HeaderFits(q, asks)
<1>1. /\ Resolves(q) = Resolves(p) /\ Fetches(q) = Fetches(p) /\ Captures(q) = Captures(p)
      /\ AtWork(q, asks) = AtWork(p, asks)
    BY DEF Resolves, Fetches, Captures, Awaits, AtWork
<1>2. IsFiniteSet(q.out) /\ ClipsFit(q)
    BY DEF HeaderFits, ClipsFit
<1>3. FetchesFit(q, asks)
    BY <1>1 DEF HeaderFits, FetchesFit
<1>4. CapturesFit(q)
    BY <1>1 DEF HeaderFits, CapturesFit
<1>5. QED
    BY <1>1, <1>2, <1>3, <1>4 DEF HeaderFits

\* What is sent: a message of the page described.
LEMMA HeaderSends ==
    ASSUME NEW p \in HeaderPanels, IsFiniteSet(p.out), ClipsFit(p),
           NEW m \in HeaderMessages, m.gen = p.generation, m.url = p.pinnedUrl
    PROVE  LET q == H!Send(p, m)
           IN  /\ q \in HeaderPanels /\ IsFiniteSet(q.out) /\ ClipsFit(q) /\ SameFace(p, q)
               /\ q.generation = p.generation /\ q.fetchSent = p.fetchSent
               /\ q.capturing = p.capturing /\ q.captureRefusal = p.captureRefusal
               /\ Resolves(q) = IF m.kind = "resolve" THEN Resolves(p) \union {m} ELSE Resolves(p)
               /\ Fetches(q) = IF m.kind = "fetch" THEN Fetches(p) \union {m} ELSE Fetches(p)
               /\ Captures(q) = IF m.kind \in {"capture", "capturing", "clip"}
                                THEN Captures(p) \union {m} ELSE Captures(p)
               /\ \A asks : AtWork(q, asks) = AtWork(p, asks)
<1> DEFINE q == H!Send(p, m)
<1>1. p.out \union {m} \in SUBSET HeaderMessages
    BY DEF HeaderPanels
<1>2. /\ q \in HeaderPanels /\ q.out = p.out \union {m}
      /\ q.generation = p.generation /\ q.pinnedUrl = p.pinnedUrl /\ q.fetchSent = p.fetchSent
      /\ q.capturing = p.capturing /\ q.captureRefusal = p.captureRefusal
    BY <1>1 DEF H!Send, HeaderPanels
<1>3. SameFace(p, q)
    BY DEF H!Send, HeaderPanels, SameFace
<1> HIDE DEF q
<1>4. IsFiniteSet(q.out)
    BY <1>2, FS_AddElement
<1>5. p.generation \in Nat
    BY DEF HeaderPanels
<1>6. ClipsFit(q)
    BY <1>2, <1>3, <1>5 DEF ClipsFit, SameFace
<1>7. Resolves(q) = IF m.kind = "resolve" THEN Resolves(p) \union {m} ELSE Resolves(p)
    BY <1>2 DEF Resolves, Awaits
<1>8. Fetches(q) = IF m.kind = "fetch" THEN Fetches(p) \union {m} ELSE Fetches(p)
    BY <1>2 DEF Fetches, Awaits
<1>9. Captures(q) = IF m.kind \in {"capture", "capturing", "clip"}
                    THEN Captures(p) \union {m} ELSE Captures(p)
    BY <1>2 DEF Captures, Awaits
<1>10. \A asks : AtWork(q, asks) = AtWork(p, asks)
    BY <1>2 DEF AtWork
<1>11. QED
    BY <1>2, <1>3, <1>4, <1>6, <1>7, <1>8, <1>9, <1>10 DEF q

\* The header is asked for: after a fetch, or when nothing can be clicked.
LEMMA HeaderLoads ==
    ASSUME NEW p, NEW asks, HeaderFits(p, asks), Fetches(p) = {},
           ~p.fetchSent => /\ Resolves(p) = {} /\ ~Captured(p) /\ ~p.fetchPreview /\ p.fetchState = H!NoState
                           /\ p.captureState = H!Header("error") \/ p.header.kind = "loading"
    PROVE  LET q == H!loadHeader(p)
           IN  /\ HeaderFits(q, asks) /\ SameFace(p, q) /\ q.generation = p.generation
               /\ q.fetchSent = p.fetchSent /\ q.capturing = p.capturing
               /\ q.captureRefusal = p.captureRefusal /\ Fetches(q) = {}
<1> DEFINE m == H!Message("resolve", p)
           q == H!Send(p, m)
<1>1. p \in HeaderPanels /\ IsFiniteSet(p.out) /\ ClipsFit(p)
    BY DEF HeaderFits
<1>2. m \in HeaderMessages /\ m.kind = "resolve" /\ m.gen = p.generation /\ m.url = p.pinnedUrl
    BY <1>1, HeaderMessage
<1>3. H!loadHeader(p) = q
    BY DEF H!loadHeader
<1> HIDE DEF m
<1>4. /\ q \in HeaderPanels /\ IsFiniteSet(q.out) /\ ClipsFit(q) /\ SameFace(p, q)
      /\ q.generation = p.generation /\ q.fetchSent = p.fetchSent
      /\ q.capturing = p.capturing /\ q.captureRefusal = p.captureRefusal
      /\ Resolves(q) = Resolves(p) \union {m} /\ Fetches(q) = Fetches(p) /\ Captures(q) = Captures(p)
      /\ AtWork(q, asks) = AtWork(p, asks)
    BY <1>1, <1>2, HeaderSends
<1> HIDE DEF q
<1>5. FetchesFit(q, asks)
    BY <1>4 DEF HeaderFits, FetchesFit
<1>6. CapturesFit(q)
    BY <1>4 DEF HeaderFits, CapturesFit, SameFace
<1>7. p.fetchState \in FetchStates
    BY <1>1 DEF HeaderPanels
<1>8. TurnsFit(q)
  <2>1. TurnsFit(p)
    BY DEF HeaderFits
  <2>2. Captured(q) = Captured(p) /\ Fetchable(q) = Fetchable(p)
    BY <1>4 DEF Captured, Fetchable, SameFace
  <2>3. CASE p.fetchSent
    BY <1>4, <2>1, <2>2, <2>3 DEF TurnsFit, SameFace
  <2>4. CASE ~p.fetchSent
    <3>1. Lone(Resolves(q))
      BY <1>4, <2>4 DEF Lone
    <3>2. QED
      BY <1>4, <2>1, <2>2, <2>4, <3>1 DEF TurnsFit, SameFace
  <2>5. QED
    BY <2>3, <2>4
<1>9. QED
    BY <1>3, <1>4, <1>5, <1>6, <1>8 DEF HeaderFits

\* A panel that has just been drawn up for a page, whatever is under way for another.
LEMMA HeaderAnew ==
    ASSUME NEW q \in HeaderPanels, IsFiniteSet(q.out), NEW asks,
           \A m \in q.out : m.gen < q.generation, \A m \in asks : m.gen \in Nat /\ m.gen < q.generation,
           q.header = H!Header("loading"), ~q.fetchSent, q.fetchState = H!NoState, ~q.fetchPreview,
           ~q.captureRefusal, q.pendingCapture = H!NoPage, ~q.capturePreview, ~q.capturing
    PROVE  HeaderFits(H!loadHeader(q), asks)
<1>1. q.generation \in Nat /\ q.out \in SUBSET HeaderMessages
    BY DEF HeaderPanels
<1>2. \A m \in q.out : m.gen \in Nat
    BY <1>1 DEF HeaderMessages
<1>3. \A m \in q.out : m.gen <= q.generation /\ m.gen # q.generation
    BY <1>1, <1>2
<1>4. Resolves(q) = {} /\ Fetches(q) = {} /\ Captures(q) = {}
    BY <1>3 DEF Resolves, Fetches, Captures, Awaits
<1>5. AtWork(q, asks) = {} /\ \A m \in asks : m.gen \in Nat /\ m.gen <= q.generation
    BY <1>1 DEF AtWork
<1>6. ClipsFit(q) /\ FetchesFit(q, asks) /\ CapturesFit(q)
    BY <1>3, <1>4, <1>5 DEF ClipsFit, FetchesFit, CapturesFit, Lone
<1>7. TurnsFit(q)
    BY <1>4, StateFacts DEF TurnsFit, Captured, Fetchable, Lone
<1>8. HeaderFits(q, asks)
    BY <1>6, <1>7 DEF HeaderFits
<1>9. QED
    BY <1>4, <1>8, HeaderLoads, StateFacts DEF Captured

\* The panel is mounted.
LEMMA HeaderInit == H!Init => HeaderInv
<1> SUFFICES ASSUME H!Init PROVE HeaderInv
    OBVIOUS
<1>1. /\ tab \in Addresses /\ panel = H!loadHeader(H!Fresh(tab)) /\ screen = H!paint(panel)
      /\ provider = {}
    BY DEF H!Init
<1> DEFINE q == H!Fresh(tab)
<1>2. q \in HeaderPanels
  <2>1. H!Header("loading") \in HeaderStates
    BY StateFacts DEF HeaderKinds
  <2>2. QED
    BY <1>1, <2>1 DEF H!Fresh, HeaderPanels, FetchStates
<1>3. /\ q.out = {} /\ q.header = H!Header("loading") /\ q.fetchSent = FALSE
      /\ q.fetchState = H!NoState /\ q.fetchPreview = FALSE
      /\ q.captureRefusal = FALSE /\ q.pendingCapture = H!NoPage
      /\ q.capturePreview = FALSE /\ q.capturing = FALSE
    BY DEF H!Fresh
<1> HIDE DEF q
<1>4. IsFiniteSet(q.out)
    BY <1>3, FS_EmptySet
<1>5. HeaderFits(H!loadHeader(q), {})
    BY <1>2, <1>3, <1>4, HeaderAnew
<1>6. HeaderFits(panel, provider)
    BY <1>1, <1>5 DEF q
<1>7. ScreenFits(panel, screen)
    BY <1>1, <1>6, HeaderPainted
<1>8. QED
    BY <1>1, <1>6, <1>7 DEF HeaderInv, HeaderFits

\* The tab moves, and the panel paints, or not.
LEMMA HeaderIdles ==
    ASSUME HeaderInv, (\E u \in Addresses : H!Navigate(u)) \/ H!Repaint
    PROVE  HeaderInv'
<1>1. CASE \E u \in Addresses : H!Navigate(u)
    BY <1>1 DEF H!Navigate, HeaderInv, HeaderFits
<1>2. CASE H!Repaint
    BY <1>2, HeaderFacts, HeaderBecomes DEF H!Repaint
<1>3. QED
    BY <1>1, <1>2

\* The watcher finds the tab elsewhere, or back.
LEMMA HeaderWatches ==
    ASSUME HeaderInv, H!checkNavigation
    PROVE  HeaderInv'
<1> DEFINE away == ~panel.navAway
           q == [panel EXCEPT !.navAway = away]
<1>1. panel' = q /\ screen' = H!paint(panel') /\ UNCHANGED <<tab, provider>>
    BY DEF H!checkNavigation
<1>2. panel \in HeaderPanels /\ away \in BOOLEAN
    BY HeaderFacts
<1> HIDE DEF away
<1>3. /\ q \in HeaderPanels /\ q.out = panel.out /\ q.generation = panel.generation
      /\ q.pinnedUrl = panel.pinnedUrl /\ q.pendingCapture = panel.pendingCapture
      /\ q.fetchSent = panel.fetchSent /\ q.capturing = panel.capturing
      /\ q.capturePreview = panel.capturePreview /\ q.fetchPreview = panel.fetchPreview
      /\ q.fetchState = panel.fetchState /\ q.captureState = panel.captureState
      /\ q.captureRefusal = panel.captureRefusal /\ q.header = panel.header
    BY <1>2 DEF HeaderPanels
<1> HIDE DEF q
<1>4. /\ Resolves(q) = Resolves(panel) /\ Fetches(q) = Fetches(panel)
      /\ TurnsFit(q) => HeaderFits(q, provider)
  <2>1. /\ q.pendingCapture \in {H!NoPage, panel.pinnedUrl}
        /\ ~q.fetchSent => Fetches(panel) = {} /\ AtWork(panel, provider) = {}
        /\ ~q.capturing => Captures(panel) = {} /\ ~q.capturePreview
        /\ q.capturePreview => Captures(panel) = {}
    BY <1>3 DEF HeaderInv, ClipsFit, FetchesFit, CapturesFit
  <2>2. QED
    BY <1>3, <2>1, HeaderFacts, FieldsSet
<1>5. TurnsFit(q)
    BY <1>3, <1>4 DEF HeaderInv, TurnsFit, Captured, Fetchable
<1>6. QED
    BY <1>1, <1>4, <1>5, HeaderFacts, HeaderBecomes

\* An answer that is too late is dropped.
LEMMA HeaderDrops ==
    ASSUME HeaderInv, NEW m \in panel.out, panel' = H!Take(m), UNCHANGED <<tab, screen, provider>>
    PROVE  HeaderInv'
<1> DEFINE q == H!Take(m)
<1>1. /\ HeaderFits(q, provider) /\ SameFace(panel, q)
      /\ q.fetchSent = panel.fetchSent
      /\ q.capturing = panel.capturing /\ q.captureRefusal = panel.captureRefusal
      /\ Resolves(q) = Resolves(panel) \ {m} /\ Fetches(q) = Fetches(panel) \ {m}
    BY HeaderTakes
<1>2. panel' = q
    OBVIOUS
<1> HIDE DEF q
<1>3. QED
    BY <1>1, <1>2, HeaderFacts, HeaderUnseen

\* A header settles: the page can be fetched only if it was not.
LEMMA HeaderSettles ==
    ASSUME HeaderInv, NEW m \in Resolves(panel), NEW q \in HeaderPanels,
           q.out = H!Take(m).out, q.generation = panel.generation, q.pinnedUrl = panel.pinnedUrl,
           q.header = H!NotIndexed(TRUE) => ~panel.fetchSent, q.fetchSent = panel.fetchSent,
           q.fetchState \in {panel.fetchState, H!NoState}, q.fetchPreview = panel.fetchPreview,
           q.captureState \in {panel.captureState, H!NoState},
           q.captureRefusal = panel.captureRefusal, q.pendingCapture = panel.pendingCapture,
           q.capturePreview = panel.capturePreview, q.capturing = panel.capturing
    PROVE  HeaderFits(q, provider)
<1> DEFINE p == H!Take(m)
<1>1. m \in panel.out
    BY DEF Resolves, Awaits
<1>2. /\ HeaderFits(p, provider) /\ p.generation = panel.generation /\ p.pinnedUrl = panel.pinnedUrl
      /\ Resolves(p) = Resolves(panel) \ {m} /\ Fetches(p) = Fetches(panel) \ {m}
      /\ Captures(p) = Captures(panel) \ {m} /\ p.fetchSent = panel.fetchSent
      /\ p.capturing = panel.capturing /\ p.capturePreview = panel.capturePreview
      /\ p.pendingCapture = panel.pendingCapture
    BY <1>1, HeaderTakes DEF SameFace
<1>3. q.out = p.out
    OBVIOUS
<1> HIDE DEF p
<1>4. /\ q.pendingCapture \in {H!NoPage, p.pinnedUrl}
      /\ ~q.fetchSent => Fetches(p) = {} /\ AtWork(p, provider) = {}
      /\ ~q.capturing => Captures(p) = {} /\ ~q.capturePreview
      /\ q.capturePreview => Captures(p) = {}
    BY <1>2 DEF HeaderFits, ClipsFit, FetchesFit, CapturesFit
<1>5. /\ Resolves(q) = Resolves(panel) \ {m} /\ Fetches(q) = Fetches(panel) \ {m}
      /\ TurnsFit(q) => HeaderFits(q, provider)
    BY <1>2, <1>3, <1>4, FieldsSet
<1>6. TurnsFit(panel) /\ Resolves(panel) # {}
    BY DEF HeaderInv
<1>7. Fetches(panel) = {}
    BY <1>6 DEF TurnsFit
<1>8. ~panel.fetchSent => /\ Resolves(q) = {} /\ panel.fetchState = H!NoState
                          /\ ~Captured(panel) /\ ~panel.fetchPreview
    BY <1>5, <1>6 DEF TurnsFit, Lone
<1>9. Captured(q) = Captured(panel)
    BY DEF Captured
<1>10. H!NoState # RateLimited /\ H!NoState # Blocked
    BY StateFacts
<1>11. TurnsFit(q)
    BY <1>5, <1>6, <1>7, <1>8, <1>9, <1>10 DEF TurnsFit, Fetchable, Lone
<1>12. QED
    BY <1>5, <1>11

\* What a header is read from an answer as.
LEMMA AnswerFacts ==
    ASSUME NEW url \in Addresses, NEW answer \in H!handleResolve(url), NEW sent \in BOOLEAN
    PROVE  /\ H!headerFrom(answer, sent) \in HeaderStates
           /\ H!headerFrom(answer, sent) = H!NotIndexed(TRUE) => ~sent
<1>1. answer \in HeaderKinds \union {"fetchable"}
    BY PageAssumption DEF H!handleResolve, HeaderKinds
<1>2. CASE answer \in {"not-indexed", "fetchable"}
  <2> DEFINE b == answer = "fetchable" /\ ~sent
  <2>1. H!headerFrom(answer, sent) = H!NotIndexed(b) /\ b \in BOOLEAN
    BY <1>2 DEF H!headerFrom
  <2>2. b => ~sent
    OBVIOUS
  <2> HIDE DEF b
  <2>3. b = TRUE \/ b = FALSE
    BY <2>1
  <2>4. QED
    BY <2>1, <2>2, <2>3, StateFacts
<1>3. CASE answer \notin {"not-indexed", "fetchable"}
  <2>1. H!headerFrom(answer, sent) = H!Header(answer) /\ answer \in HeaderKinds
    BY <1>1, <1>3 DEF H!headerFrom
  <2>2. QED
    BY <1>3, <2>1, StateFacts
<1>4. QED
    BY <1>2, <1>3

\* The answer about the header comes, or none.
LEMMA HeaderResolved ==
    ASSUME HeaderInv, NEW m \in panel.out, H!Resolved(m)
    PROVE  HeaderInv'
<1> DEFINE p == H!Take(m)
<1>1. UNCHANGED <<tab, provider>> /\ m.kind = "resolve"
    BY DEF H!Resolved
<1>2. CASE H!Dropped(m)
    BY <1>1, <1>2, HeaderDrops DEF H!Dropped, H!Unseen
<1>3. CASE ~H!Outdated(m)
  <2>1. m \in Resolves(panel) /\ m.url \in Addresses /\ panel.fetchSent \in BOOLEAN
    BY <1>1, <1>3, HeaderFacts DEF H!Outdated, Resolves, Awaits, HeaderMessages, HeaderPanels
  <2>2. /\ p \in HeaderPanels /\ p.generation = panel.generation /\ p.pinnedUrl = panel.pinnedUrl
        /\ p.fetchSent = panel.fetchSent /\ p.capturing = panel.capturing
        /\ p.captureRefusal = panel.captureRefusal /\ p.fetchState = panel.fetchState
        /\ p.fetchPreview = panel.fetchPreview /\ p.captureState = panel.captureState
        /\ p.capturePreview = panel.capturePreview /\ p.pendingCapture = panel.pendingCapture
    BY HeaderTakes DEF HeaderFits, SameFace
  <2>3. CASE \E answer \in H!handleResolve(m.url) :
                H!Becomes(H!Settled(p, H!headerFrom(answer, panel.fetchSent)))
    <3>1. PICK answer \in H!handleResolve(m.url) :
             H!Becomes(H!Settled(p, H!headerFrom(answer, panel.fetchSent)))
      BY <2>3
    <3> DEFINE h == H!headerFrom(answer, panel.fetchSent)
               fetch == IF h.kind = "not-indexed" THEN p.fetchState ELSE H!NoState
               capture == IF h.kind \in {"captured", "resolved", "ambiguous", "needs-scope"}
                          THEN H!NoState ELSE p.captureState
               q == [p EXCEPT !.header = h, !.pinned = TRUE, !.fetchState = fetch, !.captureState = capture]
    <3>2. panel' = q /\ screen' = H!paint(panel')
      BY <3>1 DEF H!Becomes, H!Settled
    <3>3. h \in HeaderStates /\ (h = H!NotIndexed(TRUE) => ~panel.fetchSent)
      BY <2>1, AnswerFacts
    <3>4. fetch \in {panel.fetchState, H!NoState} /\ capture \in {panel.captureState, H!NoState}
      BY <2>2
    <3>5. H!NoState \in FetchStates /\ panel.fetchState \in FetchStates
          /\ panel.captureState \in {H!NoState, H!Header("error")}
      BY HeaderFacts DEF FetchStates, HeaderPanels
    <3>6. p.out = H!Take(m).out
      OBVIOUS
    <3> HIDE DEF p, h, fetch, capture
    <3>7. /\ q \in HeaderPanels /\ q.out = p.out /\ q.generation = p.generation
          /\ q.pinnedUrl = p.pinnedUrl /\ q.header = h /\ q.fetchSent = p.fetchSent
          /\ q.fetchState = fetch /\ q.fetchPreview = p.fetchPreview
          /\ q.captureState = capture /\ q.captureRefusal = p.captureRefusal
          /\ q.pendingCapture = p.pendingCapture /\ q.capturePreview = p.capturePreview
          /\ q.capturing = p.capturing
      BY <2>2, <3>3, <3>4, <3>5 DEF HeaderPanels
    <3> HIDE DEF q
    <3>8. HeaderFits(q, provider)
      BY <2>1, <2>2, <3>3, <3>4, <3>6, <3>7, HeaderSettles
    <3>9. QED
      BY <1>1, <3>2, <3>8, HeaderFacts, HeaderBecomes
  <2>4. CASE H!Becomes([p EXCEPT !.header = H!Header("error"), !.fetchState = H!NoState])
    <3> DEFINE q == [p EXCEPT !.header = H!Header("error"), !.fetchState = H!NoState]
    <3>1. panel' = q /\ screen' = H!paint(panel')
      BY <2>4 DEF H!Becomes
    <3>2. H!NoState \in FetchStates /\ H!Header("error") \in HeaderStates
          /\ H!Header("error") # H!NotIndexed(TRUE)
      BY StateFacts DEF FetchStates, HeaderKinds
    <3>3. p.out = H!Take(m).out
      OBVIOUS
    <3> HIDE DEF p
    <3>4. /\ q \in HeaderPanels /\ q.out = p.out /\ q.generation = p.generation
          /\ q.pinnedUrl = p.pinnedUrl /\ q.header = H!Header("error") /\ q.fetchSent = p.fetchSent
          /\ q.fetchState = H!NoState /\ q.fetchPreview = p.fetchPreview
          /\ q.captureState = p.captureState /\ q.captureRefusal = p.captureRefusal
          /\ q.pendingCapture = p.pendingCapture /\ q.capturePreview = p.capturePreview
          /\ q.capturing = p.capturing
      BY <2>2, <3>2 DEF HeaderPanels
    <3> HIDE DEF q
    <3>5. HeaderFits(q, provider)
      BY <2>1, <2>2, <3>2, <3>3, <3>4, HeaderSettles
    <3>6. QED
      BY <1>1, <3>1, <3>5, HeaderFacts, HeaderBecomes
  <2>5. QED
    BY <1>3, <2>3, <2>4 DEF H!Resolved, H!Dropped
<1>4. QED
    BY <1>2, <1>3 DEF H!Resolved

\* What a fetch comes to is one of the states of a fetch.
LEMMA OutcomeFacts ==
    ASSUME NEW answer \in H!FetchAnswers, answer # "indexed"
    PROVE  /\ H!fetchOutcomeHeader(answer) \in FetchStates
           /\ H!fetchOutcomeHeader(answer) = RateLimited <=> answer = "rate-limited"
<1>1. CASE answer = "timeout"
  <2>1. H!fetchOutcomeHeader(answer) = StillWorking
    BY <1>1 DEF H!fetchOutcomeHeader, StillWorking
  <2>2. QED
    BY <1>1, <2>1, StateFacts DEF FetchStates
<1>2. CASE answer = "rate-limited"
  <2>1. H!fetchOutcomeHeader(answer) = RateLimited
    BY <1>2 DEF H!fetchOutcomeHeader, RateLimited
  <2>2. QED
    BY <1>2, <2>1 DEF FetchStates
<1>3. CASE answer = "unreachable"
  <2>1. H!fetchOutcomeHeader(answer) = H!Header("error")
    BY <1>3 DEF H!fetchOutcomeHeader
  <2>2. QED
    BY <1>3, <2>1, StateFacts DEF FetchStates
<1>4. CASE answer \notin {"timeout", "rate-limited", "unreachable"}
  <2>1. H!fetchOutcomeHeader(answer) = Blocked
    BY <1>4 DEF H!fetchOutcomeHeader, H!FetchAnswers, Blocked
  <2>2. QED
    BY <1>4, <2>1, StateFacts DEF FetchStates
<1>5. QED
    BY <1>1, <1>2, <1>3, <1>4

\* A provider was asked, for another page or when nothing else is under way.
LEMMA ProviderAsked ==
    ASSUME NEW p, NEW asks, HeaderFits(p, asks), NEW m, m.gen \in Nat, m.gen <= p.generation,
           m.gen = p.generation => p.fetchSent /\ Fetches(p) = {} /\ AtWork(p, asks) = {}
    PROVE  HeaderFits(p, asks \union {m})
<1>1. AtWork(p, asks \union {m}) = IF m.gen = p.generation THEN AtWork(p, asks) \union {m}
                                   ELSE AtWork(p, asks)
    BY DEF AtWork
<1>2. FetchesFit(p, asks)
    BY DEF HeaderFits
<1>3. CASE m.gen # p.generation
    BY <1>1, <1>2, <1>3 DEF HeaderFits, FetchesFit
<1>4. CASE m.gen = p.generation
  <2>1. AtWork(p, asks \union {m}) = {m} /\ Lone({m})
    BY <1>1, <1>4 DEF Lone
  <2>2. FetchesFit(p, asks \union {m})
    BY <1>2, <1>4, <2>1 DEF FetchesFit
  <2>3. QED
    BY <2>2 DEF HeaderFits
<1>5. QED
    BY <1>3, <1>4

\* The answer to the fetch that is under way for the page.
LEMMA HeaderFetchEnds ==
    ASSUME HeaderInv, NEW m \in Fetches(panel)
    PROVE  /\ m \in panel.out /\ m.gen = panel.generation /\ m.gen \in Nat
           /\ Fetches(panel) = {m} /\ AtWork(panel, provider) = {} /\ Resolves(panel) = {}
           /\ panel.fetchSent /\ ~panel.fetchPreview /\ ~Captured(panel) /\ Fetchable(panel)
           /\ screen \subseteq {"re-read"}
<1>1. m \in panel.out /\ m.gen = panel.generation /\ m.gen \in Nat
    BY HeaderFacts DEF Fetches, Awaits
<1>2. Fetches(panel) = {m} /\ AtWork(panel, provider) = {} /\ panel.fetchSent
    BY DEF HeaderInv, FetchesFit, Lone
<1>3. panel.fetchState = H!Header("fetching") /\ Fetchable(panel) /\ Resolves(panel) = {}
    BY <1>2 DEF HeaderInv, TurnsFit
<1>4. ~panel.fetchPreview /\ ~Captured(panel)
    BY <1>2, <1>3, StateFacts DEF HeaderInv, TurnsFit
<1>5. screen \subseteq {"re-read"}
    BY <1>2 DEF HeaderInv, ScreenFits
<1>6. QED
    BY <1>1, <1>2, <1>3, <1>4, <1>5

\* The answer to a fetch comes, or none.
LEMMA HeaderFetched ==
    ASSUME HeaderInv, NEW m \in panel.out, H!Fetched(m)
    PROVE  HeaderInv'
<1> DEFINE p == H!Take(m)
<1>1. PICK answer \in H!FetchAnswers :
         /\ IF H!Outdated(m) THEN H!Unseen(p)
            ELSE IF answer = "indexed"
                 THEN H!Unseen(H!loadHeader([p EXCEPT !.fetchState = H!NoState]))
                 ELSE H!Becomes([p EXCEPT
                          !.fetchState = H!fetchOutcomeHeader(answer),
                          !.fetchSent = IF H!MayFetchAgain(answer) THEN FALSE ELSE @])
         /\ provider' = IF answer \in {"timeout", "unreachable"}
                        THEN provider \union {m} ELSE provider
    BY DEF H!Fetched
<1>2. m.kind = "fetch" /\ tab' = tab
    BY DEF H!Fetched
<1>3. /\ HeaderFits(p, provider) /\ p.out = panel.out \ {m} /\ SameFace(panel, p)
      /\ p.generation = panel.generation /\ p.pinnedUrl = panel.pinnedUrl
      /\ p.fetchSent = panel.fetchSent
      /\ p.capturing = panel.capturing /\ p.captureRefusal = panel.captureRefusal
      /\ Resolves(p) = Resolves(panel) \ {m} /\ Fetches(p) = Fetches(panel) \ {m}
      /\ Captures(p) = Captures(panel) \ {m}
    BY HeaderTakes
<1>4. m.gen \in Nat /\ m.gen <= p.generation
    BY <1>3, HeaderFacts DEF HeaderMessages, HeaderInv, ClipsFit
<1> HIDE DEF p
<1>5. CASE H!Outdated(m)
  <2>1. panel' = p /\ screen' = screen
    BY <1>1, <1>5 DEF H!Unseen
  <2>2. m.gen # p.generation
    BY <1>3, <1>5 DEF H!Outdated
  <2>3. HeaderFits(p, provider')
    BY <1>1, <1>3, <1>4, <2>2, ProviderAsked
  <2>4. QED
    BY <1>2, <1>3, <2>1, <2>3, HeaderFacts, HeaderUnseen
<1>6. CASE ~H!Outdated(m)
  <2>1. m \in Fetches(panel)
    BY <1>2, <1>6 DEF H!Outdated, Fetches, Awaits
  <2>2. /\ m.gen = panel.generation /\ Fetches(panel) = {m} /\ AtWork(panel, provider) = {}
        /\ Resolves(panel) = {} /\ panel.fetchSent /\ ~panel.fetchPreview /\ ~Captured(panel)
        /\ Fetchable(panel) /\ screen \subseteq {"re-read"}
    BY <2>1, HeaderFetchEnds
  <2>3. /\ Fetches(p) = {} /\ AtWork(p, provider) = {} /\ Resolves(p) = {} /\ p.fetchSent
        /\ ~p.fetchPreview /\ ~Captured(p) /\ Fetchable(p)
    BY <1>3, <2>2 DEF AtWork, Captured, Fetchable, SameFace
  <2>4. p \in HeaderPanels /\ ClipsFit(p) /\ CapturesFit(p) /\ TurnsFit(p)
    BY <1>3 DEF HeaderFits
  <2>5. CASE answer = "indexed"
    <3> DEFINE q == [p EXCEPT !.fetchState = H!NoState]
               r == H!loadHeader(q)
    <3>1. panel' = r /\ screen' = screen /\ provider' = provider
      BY <1>1, <1>6, <2>5 DEF H!Unseen
    <3>2. H!NoState \in FetchStates
      BY DEF FetchStates
    <3>3. /\ q \in HeaderPanels /\ q.out = p.out /\ q.generation = p.generation
          /\ q.pinnedUrl = p.pinnedUrl /\ q.pendingCapture = p.pendingCapture
          /\ q.fetchSent = p.fetchSent /\ q.capturing = p.capturing
          /\ q.capturePreview = p.capturePreview /\ q.fetchPreview = p.fetchPreview
          /\ q.fetchState = H!NoState /\ q.captureState = p.captureState
          /\ q.captureRefusal = p.captureRefusal /\ q.header = p.header
      BY <2>4, <3>2 DEF HeaderPanels
    <3> HIDE DEF q
    <3>4. /\ q.pendingCapture \in {H!NoPage, p.pinnedUrl}
          /\ ~q.capturing => Captures(p) = {} /\ ~q.capturePreview
          /\ q.capturePreview => Captures(p) = {}
      BY <2>4, <3>3 DEF ClipsFit, CapturesFit
    <3>5. /\ Fetches(q) = Fetches(p) /\ Resolves(q) = Resolves(p)
          /\ TurnsFit(q) => HeaderFits(q, provider)
      BY <1>3, <2>3, <3>3, <3>4, FieldsSet
    <3>6. TurnsFit(q)
      BY <2>3, <2>4, <3>3, <3>5, StateFacts DEF TurnsFit, Captured, Fetchable
    <3>7. /\ HeaderFits(r, provider) /\ SameFace(q, r) /\ r.captureRefusal = q.captureRefusal
      BY <2>3, <3>3, <3>5, <3>6, HeaderLoads
    <3> HIDE DEF r
    <3>8. ~r.captureRefusal /\ ~r.fetchPreview
      BY <2>3, <3>3, <3>7 DEF Captured, SameFace
    <3>9. ScreenFits(r, screen)
      BY <2>2, <3>8 DEF ScreenFits, OfPreview
    <3>10. QED
      BY <1>2, <3>1, <3>7, <3>9, HeaderFacts DEF HeaderInv, HeaderFits
  <2>6. CASE answer # "indexed"
    <3> DEFINE state == H!fetchOutcomeHeader(answer)
               sent == IF H!MayFetchAgain(answer) THEN FALSE ELSE p.fetchSent
               q == [p EXCEPT !.fetchState = state, !.fetchSent = sent]
    <3>1. panel' = q /\ screen' = H!paint(panel')
      BY <1>1, <1>6, <2>6 DEF H!Becomes
    <3>2. state \in FetchStates /\ (state = RateLimited <=> answer = "rate-limited")
      BY <2>6, OutcomeFacts
    <3>3. sent = (answer # "rate-limited")
      BY <2>3, <2>4 DEF H!MayFetchAgain, HeaderPanels
    <3>4. sent \in BOOLEAN
      BY <3>3
    <3> HIDE DEF state, sent
    <3>5. /\ q \in HeaderPanels /\ q.out = p.out /\ q.generation = p.generation
          /\ q.pinnedUrl = p.pinnedUrl /\ q.pendingCapture = p.pendingCapture
          /\ q.fetchSent = sent /\ q.capturing = p.capturing
          /\ q.capturePreview = p.capturePreview /\ q.fetchPreview = p.fetchPreview
          /\ q.fetchState = state /\ q.captureState = p.captureState
          /\ q.captureRefusal = p.captureRefusal /\ q.header = p.header
      BY <2>4, <3>2, <3>4 DEF HeaderPanels
    <3> HIDE DEF q
    <3>6. HeaderFits(p, provider')
      BY <1>1, <1>3, <1>4, <2>3, ProviderAsked
    <3>7. ~q.fetchSent => AtWork(p, provider') = {}
      BY <1>1, <2>3, <3>3, <3>5
    <3>8. /\ q.pendingCapture \in {H!NoPage, p.pinnedUrl}
          /\ ~q.capturing => Captures(p) = {} /\ ~q.capturePreview
          /\ q.capturePreview => Captures(p) = {}
      BY <2>4, <3>5 DEF ClipsFit, CapturesFit
    <3>9. /\ Fetches(q) = Fetches(p) /\ Resolves(q) = Resolves(p)
          /\ TurnsFit(q) => HeaderFits(q, provider')
      BY <2>3, <3>5, <3>6, <3>7, <3>8, FieldsSet
    <3>10. TurnsFit(q)
      BY <2>3, <2>4, <3>2, <3>3, <3>5, <3>9, StateFacts DEF TurnsFit, Captured, Fetchable, Lone
    <3>11. QED
      BY <1>2, <3>1, <3>9, <3>10, HeaderFacts, HeaderBecomes
  <2>7. QED
    BY <2>5, <2>6
<1>7. QED
    BY <1>5, <1>6

\* The step of a capture that is under way for the page.
LEMMA CaptureUnderWay ==
    ASSUME HeaderInv, NEW m \in Captures(panel)
    PROVE  /\ m \in panel.out /\ m \in HeaderMessages /\ m.gen = panel.generation
           /\ m.url = panel.pinnedUrl
           /\ Captures(panel) = {m} /\ Fetches(panel) = {} /\ (~panel.fetchSent => Resolves(panel) = {})
           /\ panel.capturing = TRUE /\ panel.capturePreview = FALSE /\ panel.captureRefusal = FALSE
           /\ panel.fetchPreview = FALSE /\ panel.fetchState \in {H!NoState, Blocked}
           /\ Fetchable(panel) => panel.fetchState = Blocked
<1>1. m \in panel.out /\ m \in HeaderMessages /\ m.gen = panel.generation
    BY HeaderFacts DEF Captures, Awaits
<1>2. m.url = panel.pinnedUrl
    BY <1>1 DEF HeaderInv, ClipsFit
<1>3. Captures(panel) = {m} /\ panel.capturing /\ ~panel.capturePreview
    BY DEF HeaderInv, CapturesFit, Lone
<1>4. ~panel.captureRefusal /\ ~panel.fetchPreview /\ panel.fetchState \in {H!NoState, Blocked}
    BY <1>3 DEF HeaderInv, TurnsFit, Captured
<1>5. Fetchable(panel) => panel.fetchState = Blocked
    BY <1>3 DEF HeaderInv, TurnsFit, Captured
<1>6. Fetches(panel) = {}
    BY <1>4, StateFacts DEF HeaderInv, TurnsFit
<1>7. ~panel.fetchSent => Resolves(panel) = {}
    BY <1>3 DEF HeaderInv, TurnsFit, Captured
<1>8. panel.capturing \in BOOLEAN /\ panel.capturePreview \in BOOLEAN
      /\ panel.captureRefusal \in BOOLEAN /\ panel.fetchPreview \in BOOLEAN
    BY HeaderFacts DEF HeaderPanels
<1>9. QED
    BY <1>1, <1>2, <1>3, <1>4, <1>5, <1>6, <1>7, <1>8

\* A step of a capture ends, and what it came to is noted.
LEMMA CaptureTurn ==
    ASSUME HeaderInv, NEW m \in Captures(panel), NEW q \in HeaderPanels,
           q.out = H!Take(m).out, q.generation = panel.generation, q.pinnedUrl = panel.pinnedUrl,
           q.header = panel.header, q.fetchSent = panel.fetchSent,
           q.fetchState = panel.fetchState, q.fetchPreview = panel.fetchPreview,
           q.pendingCapture \in {H!NoPage, panel.pinnedUrl}, ~q.capturing => ~q.capturePreview,
           q.captureRefusal => ~q.capturing /\ q.captureState = H!NoState
    PROVE  /\ HeaderFits(q, provider) /\ Captures(q) = {} /\ Fetches(q) = {}
           /\ ~q.fetchSent => Resolves(q) = {}
<1> DEFINE p == H!Take(m)
<1>1. /\ m \in panel.out /\ Captures(panel) = {m} /\ Fetches(panel) = {}
      /\ ~panel.fetchSent => Resolves(panel) = {}
      /\ panel.fetchPreview = FALSE /\ panel.fetchState \in {H!NoState, Blocked}
      /\ Fetchable(panel) => panel.fetchState = Blocked
    BY CaptureUnderWay
<1>2. /\ HeaderFits(p, provider) /\ p.generation = panel.generation /\ p.pinnedUrl = panel.pinnedUrl
      /\ Resolves(p) = Resolves(panel) \ {m} /\ Fetches(p) = Fetches(panel) \ {m}
      /\ Captures(p) = Captures(panel) \ {m} /\ p.fetchSent = panel.fetchSent
    BY <1>1, HeaderTakes
<1>3. q.out = p.out
    OBVIOUS
<1> HIDE DEF p
<1>4. ~q.fetchSent => Fetches(p) = {} /\ AtWork(p, provider) = {}
    BY <1>2 DEF HeaderFits, FetchesFit
<1>5. /\ Resolves(q) = Resolves(p) /\ Fetches(q) = Fetches(p) /\ Captures(q) = Captures(p)
      /\ TurnsFit(q) => HeaderFits(q, provider)
    BY <1>1, <1>2, <1>3, <1>4, FieldsSet
<1>6. Captures(q) = {} /\ Fetches(q) = {} /\ (~q.fetchSent => Resolves(q) = {})
    BY <1>1, <1>2, <1>5
<1>7. Fetchable(q) = Fetchable(panel)
    BY DEF Fetchable
<1>8. TurnsFit(panel)
    BY DEF HeaderInv
<1>9. TurnsFit(q)
    BY <1>1, <1>6, <1>7, <1>8, StateFacts DEF TurnsFit, Lone
<1>10. QED
    BY <1>5, <1>6, <1>9

\* The next step of a capture is begun.
LEMMA CaptureSent ==
    ASSUME NEW p, NEW asks, HeaderFits(p, asks), Captures(p) = {}, p.capturing, ~p.capturePreview,
           NEW m \in HeaderMessages, m.kind \in {"capture", "capturing", "clip"},
           m.gen = p.generation, m.url = p.pinnedUrl
    PROVE  LET q == H!Send(p, m)
           IN  /\ HeaderFits(q, asks) /\ SameFace(p, q) /\ q.fetchSent = p.fetchSent
               /\ q.capturing = p.capturing /\ q.captureRefusal = p.captureRefusal
               /\ Resolves(q) = Resolves(p) /\ Fetches(q) = Fetches(p)
<1> DEFINE q == H!Send(p, m)
<1>1. p \in HeaderPanels /\ IsFiniteSet(p.out) /\ ClipsFit(p)
    BY DEF HeaderFits
<1>2. /\ q \in HeaderPanels /\ IsFiniteSet(q.out) /\ ClipsFit(q) /\ SameFace(p, q)
      /\ q.generation = p.generation /\ q.fetchSent = p.fetchSent
      /\ q.capturing = p.capturing /\ q.captureRefusal = p.captureRefusal
      /\ Resolves(q) = Resolves(p) /\ Fetches(q) = Fetches(p) /\ Captures(q) = Captures(p) \union {m}
      /\ AtWork(q, asks) = AtWork(p, asks)
    BY <1>1, HeaderSends
<1> HIDE DEF q
<1>3. FetchesFit(q, asks)
    BY <1>2 DEF HeaderFits, FetchesFit
<1>4. CapturesFit(q)
    BY <1>2 DEF CapturesFit, SameFace, Lone
<1>5. TurnsFit(q)
    BY <1>2 DEF HeaderFits, TurnsFit, SameFace, Captured, Fetchable
<1>6. QED
    BY <1>2, <1>3, <1>4, <1>5 DEF HeaderFits, q

\* A message of a page before is sent on: the panel no longer waits for it.
LEMMA OldSent ==
    ASSUME NEW p, NEW asks, HeaderFits(p, asks), NEW m \in HeaderMessages,
           m.gen <= p.generation, m.gen # p.generation
    PROVE  LET q == H!Send(p, m)
           IN  /\ HeaderFits(q, asks) /\ SameFace(p, q) /\ q.fetchSent = p.fetchSent
               /\ q.capturing = p.capturing /\ q.captureRefusal = p.captureRefusal
               /\ Resolves(q) = Resolves(p) /\ Fetches(q) = Fetches(p)
<1> DEFINE q == H!Send(p, m)
<1>1. p \in HeaderPanels /\ IsFiniteSet(p.out) /\ ClipsFit(p)
    BY DEF HeaderFits
<1>2. p.out \union {m} \in SUBSET HeaderMessages
    BY <1>1 DEF HeaderPanels
<1>3. /\ q \in HeaderPanels /\ q.out = p.out \union {m}
      /\ q.generation = p.generation /\ q.pinnedUrl = p.pinnedUrl /\ q.fetchSent = p.fetchSent
      /\ q.capturing = p.capturing /\ q.captureRefusal = p.captureRefusal
    BY <1>1, <1>2 DEF H!Send, HeaderPanels
<1>4. SameFace(p, q)
    BY <1>1 DEF H!Send, HeaderPanels, SameFace
<1> HIDE DEF q
<1>5. IsFiniteSet(q.out)
    BY <1>1, <1>3, FS_AddElement
<1>6. /\ Resolves(q) = Resolves(p) /\ Fetches(q) = Fetches(p) /\ Captures(q) = Captures(p)
      /\ AtWork(q, asks) = AtWork(p, asks)
    BY <1>3 DEF Resolves, Fetches, Captures, Awaits, AtWork
<1>7. ClipsFit(q)
    BY <1>1, <1>3, <1>4 DEF ClipsFit, SameFace
<1>8. FetchesFit(q, asks)
    BY <1>3, <1>6 DEF HeaderFits, FetchesFit
<1>9. CapturesFit(q)
    BY <1>3, <1>4, <1>6 DEF HeaderFits, CapturesFit, SameFace
<1>10. TurnsFit(q)
    BY <1>3, <1>4, <1>6 DEF HeaderFits, TurnsFit, SameFace, Captured, Fetchable
<1>11. QED
    BY <1>3, <1>4, <1>5, <1>6, <1>7, <1>8, <1>9, <1>10 DEF HeaderFits, q

\* A capture is refused, or fails.
LEMMA CaptureRefused ==
    ASSUME HeaderInv, NEW m \in Captures(panel), H!Becomes(H!Refused(H!Take(m))),
           UNCHANGED <<tab, provider>>
    PROVE  HeaderInv'
<1> DEFINE p == H!Take(m)
           q == [p EXCEPT !.captureState = H!NoState, !.captureRefusal = TRUE, !.capturing = FALSE]
<1>1. panel' = q /\ screen' = H!paint(panel')
    BY DEF H!Becomes, H!Refused
<1>2. m \in panel.out /\ panel.capturePreview = FALSE /\ panel.fetchPreview = FALSE
    BY CaptureUnderWay
<1>3. /\ p \in HeaderPanels /\ p.generation = panel.generation /\ p.pinnedUrl = panel.pinnedUrl
      /\ p.fetchSent = panel.fetchSent /\ p.header = panel.header
      /\ p.fetchState = panel.fetchState /\ p.fetchPreview = panel.fetchPreview
      /\ p.capturePreview = panel.capturePreview /\ p.pendingCapture = panel.pendingCapture
    BY <1>2, HeaderTakes DEF HeaderFits, SameFace
<1>4. p.out = H!Take(m).out
    OBVIOUS
<1> HIDE DEF p
<1>5. /\ q \in HeaderPanels /\ q.out = p.out /\ q.generation = p.generation
      /\ q.pinnedUrl = p.pinnedUrl /\ q.header = p.header /\ q.fetchSent = p.fetchSent
      /\ q.fetchState = p.fetchState /\ q.fetchPreview = p.fetchPreview
      /\ q.captureState = H!NoState /\ q.captureRefusal = TRUE /\ q.capturing = FALSE
      /\ q.pendingCapture = p.pendingCapture /\ q.capturePreview = p.capturePreview
    BY <1>3 DEF HeaderPanels
<1> HIDE DEF q
<1>6. panel.pendingCapture \in {H!NoPage, panel.pinnedUrl}
    BY DEF HeaderInv, ClipsFit
<1>7. HeaderFits(q, provider)
    BY <1>2, <1>3, <1>4, <1>5, <1>6, CaptureTurn
<1>8. QED
    BY <1>1, <1>7, HeaderFacts, HeaderBecomes

\* The clip of a capture is sent.
LEMMA ClipSent ==
    ASSUME NEW p, NEW asks, HeaderFits(p, asks), Captures(p) = {}, p.capturing, ~p.capturePreview
    PROVE  HeaderFits(H!sendCapturedClip(p), asks)
<1>1. CASE p.pendingCapture = H!NoPage
    BY <1>1 DEF H!sendCapturedClip
<1>2. CASE p.pendingCapture # H!NoPage
  <2> DEFINE q == [p EXCEPT !.captureState = H!Header("error")]
             n == H!Message("clip", p)
             m == [n EXCEPT !.url = p.pendingCapture]
  <2>1. H!sendCapturedClip(p) = H!Send(q, m)
    BY <1>2 DEF H!sendCapturedClip
  <2>2. p \in HeaderPanels /\ IsFiniteSet(p.out) /\ p.pendingCapture = p.pinnedUrl
        /\ p.pinnedUrl \in Addresses
    BY <1>2 DEF HeaderFits, ClipsFit, HeaderPanels
  <2>3. n \in HeaderMessages /\ n.kind = "clip" /\ n.gen = p.generation /\ n.url = p.pinnedUrl
    BY <2>2, HeaderMessage
  <2> HIDE DEF n
  <2>4. m \in HeaderMessages /\ m.kind = "clip" /\ m.gen = p.generation /\ m.url = p.pinnedUrl
    BY <2>2, <2>3 DEF HeaderMessages
  <2> HIDE DEF m
  <2>5. /\ q \in HeaderPanels /\ q.out = p.out /\ q.generation = p.generation
        /\ q.pinnedUrl = p.pinnedUrl /\ q.pendingCapture = p.pendingCapture
        /\ q.fetchSent = p.fetchSent /\ q.capturing = p.capturing
        /\ q.capturePreview = p.capturePreview /\ q.fetchPreview = p.fetchPreview
        /\ q.fetchState = p.fetchState /\ q.captureState = H!Header("error")
        /\ q.captureRefusal = p.captureRefusal /\ q.header = p.header
    BY <2>2 DEF HeaderPanels
  <2> HIDE DEF q
  <2>6. ~q.fetchSent => Fetches(p) = {} /\ AtWork(p, asks) = {}
    BY <2>5 DEF HeaderFits, FetchesFit
  <2>7. q.pendingCapture \in {H!NoPage, p.pinnedUrl}
    BY <2>2, <2>5
  <2>8. /\ Resolves(q) = Resolves(p) /\ Fetches(q) = Fetches(p) /\ Captures(q) = Captures(p)
        /\ TurnsFit(q) => HeaderFits(q, asks)
    BY <2>5, <2>6, <2>7, FieldsSet
  <2>9. ~q.captureRefusal
    BY <2>5 DEF HeaderFits, TurnsFit
  <2>10. TurnsFit(q)
    BY <2>5, <2>8, <2>9 DEF HeaderFits, TurnsFit, Captured, Fetchable
  <2>11. QED
    BY <2>1, <2>4, <2>5, <2>8, <2>10, CaptureSent
<1>3. QED
    BY <1>1, <1>2

\* The worker is about to read the page, or refuses to.
LEMMA HeaderCaptureBegins ==
    ASSUME HeaderInv, NEW m \in panel.out, H!CaptureBegins(m)
    PROVE  HeaderInv'
<1> DEFINE p == H!Take(m)
           n == [m EXCEPT !.kind = "capturing"]
<1>1. m.kind = "capture" /\ UNCHANGED <<tab, provider>>
    BY DEF H!CaptureBegins
<1>2. CASE H!Dropped(m)
    BY <1>1, <1>2, HeaderDrops DEF H!Dropped, H!Unseen
<1>3. CASE ~H!Outdated(m) /\ H!Becomes(H!Refused(H!Take(m)))
  <2>1. m \in Captures(panel)
    BY <1>1, <1>3 DEF H!Outdated, Captures, Awaits
  <2>2. QED
    BY <1>1, <1>3, <2>1, CaptureRefused
<1>4. CASE H!Unseen(H!Send(p, n))
  <2> DEFINE q == H!Send(p, n)
  <2>1. panel' = q /\ screen' = screen
    BY <1>4 DEF H!Unseen
  <2>2. /\ HeaderFits(p, provider) /\ SameFace(panel, p) /\ p.generation = panel.generation
        /\ p.pinnedUrl = panel.pinnedUrl /\ p.fetchSent = panel.fetchSent
        /\ p.capturing = panel.capturing /\ p.captureRefusal = panel.captureRefusal
        /\ Resolves(p) = Resolves(panel) \ {m} /\ Fetches(p) = Fetches(panel) \ {m}
        /\ Captures(p) = Captures(panel) \ {m}
    BY HeaderTakes
  <2>3. m \in HeaderMessages
    BY HeaderFacts
  <2>4. n \in HeaderMessages /\ n.kind = "capturing" /\ n.gen = m.gen /\ n.url = m.url
    BY <2>3 DEF HeaderMessages
  <2>5. m.gen <= p.generation /\ (m.gen = p.generation => m.url = p.pinnedUrl)
    BY <2>2 DEF HeaderInv, ClipsFit
  <2> HIDE DEF p, n
  <2>6. /\ HeaderFits(q, provider) /\ SameFace(p, q) /\ q.fetchSent = p.fetchSent
        /\ q.capturing = p.capturing /\ q.captureRefusal = p.captureRefusal
        /\ Resolves(q) = Resolves(p) /\ Fetches(q) = Fetches(p)
    <3>1. CASE m.gen # p.generation
      BY <2>2, <2>4, <2>5, <3>1, OldSent
    <3>2. CASE m.gen = p.generation
      <4>1. m \in Captures(panel)
        BY <1>1, <2>2, <3>2 DEF Captures, Awaits
      <4>2. Captures(panel) = {m} /\ panel.capturing /\ ~panel.capturePreview
        BY <4>1, CaptureUnderWay
      <4>3. Captures(p) = {} /\ p.capturing /\ ~p.capturePreview
        BY <2>2, <4>2 DEF SameFace
      <4>4. QED
        BY <2>2, <2>4, <2>5, <3>2, <4>3, CaptureSent
    <3>3. QED
      BY <3>1, <3>2
  <2> HIDE DEF q
  <2>7. SameFace(panel, q)
    BY <2>2, <2>6 DEF SameFace
  <2>8. QED
    BY <1>1, <2>1, <2>2, <2>6, <2>7, HeaderFacts, HeaderUnseen
<1>5. QED
    BY <1>2, <1>3, <1>4 DEF H!CaptureBegins

\* The page was read: it is shown or sent, or the copy is refused.
LEMMA HeaderCaptureEnds ==
    ASSUME HeaderInv, NEW m \in panel.out, H!CaptureEnds(m)
    PROVE  HeaderInv'
<1> DEFINE p == H!Take(m)
           q == [p EXCEPT !.pendingCapture = tab, !.captureState = H!NoState]
           r == [q EXCEPT !.capturePreview = TRUE]
<1>1. m.kind = "capturing" /\ UNCHANGED <<tab, provider>>
    BY DEF H!CaptureEnds
<1>2. CASE H!Dropped(m)
    BY <1>1, <1>2, HeaderDrops DEF H!Dropped, H!Unseen
<1>3. CASE ~H!Outdated(m)
  <2>1. m \in Captures(panel)
    BY <1>1, <1>3 DEF H!Outdated, Captures, Awaits
  <2>2. CASE H!Becomes(H!Refused(p))
    BY <1>1, <2>1, <2>2, CaptureRefused
  <2>3. CASE /\ ~H!UrlChanged(m.url, tab)
             /\ H!Becomes(r) \/ H!Becomes(H!sendCapturedClip(q))
    <3>1. /\ m \in panel.out /\ m.url = panel.pinnedUrl /\ panel.capturing = TRUE
          /\ panel.capturePreview = FALSE /\ panel.captureRefusal = FALSE
      BY <2>1, CaptureUnderWay
    <3>2. tab = panel.pinnedUrl /\ tab \in Addresses
      BY <2>3, <3>1, HeaderFacts DEF H!UrlChanged
    <3>3. /\ p \in HeaderPanels /\ p.generation = panel.generation /\ p.pinnedUrl = panel.pinnedUrl
          /\ p.fetchSent = panel.fetchSent /\ p.header = panel.header
          /\ p.fetchState = panel.fetchState /\ p.fetchPreview = panel.fetchPreview
          /\ p.capturePreview = FALSE /\ p.capturing = TRUE /\ p.captureRefusal = FALSE
      BY <3>1, HeaderTakes DEF HeaderFits, SameFace
    <3>4. p.out = H!Take(m).out
      OBVIOUS
    <3> HIDE DEF p
    <3>5. /\ q \in HeaderPanels /\ q.out = p.out /\ q.generation = p.generation
          /\ q.pinnedUrl = p.pinnedUrl /\ q.header = p.header /\ q.fetchSent = p.fetchSent
          /\ q.fetchState = p.fetchState /\ q.fetchPreview = p.fetchPreview
          /\ q.pendingCapture = tab /\ q.captureState = H!NoState /\ q.capturePreview = FALSE
          /\ q.capturing = TRUE /\ q.captureRefusal = FALSE
      BY <3>2, <3>3 DEF HeaderPanels
    <3>6. CASE H!Becomes(r)
      <4>1. panel' = r /\ screen' = H!paint(panel')
        BY <3>6 DEF H!Becomes
      <4> HIDE DEF q
      <4>2. /\ r \in HeaderPanels /\ r.out = q.out /\ r.generation = q.generation
            /\ r.pinnedUrl = q.pinnedUrl /\ r.header = q.header /\ r.fetchSent = q.fetchSent
            /\ r.fetchState = q.fetchState /\ r.fetchPreview = q.fetchPreview
            /\ r.pendingCapture = q.pendingCapture /\ r.capturing = TRUE /\ r.captureRefusal = FALSE
        BY <3>5 DEF HeaderPanels
      <4> HIDE DEF r
      <4>3. HeaderFits(r, provider)
        BY <2>1, <3>2, <3>3, <3>4, <3>5, <4>2, CaptureTurn
      <4>4. QED
        BY <1>1, <4>1, <4>3, HeaderFacts, HeaderBecomes
    <3>7. CASE H!Becomes(H!sendCapturedClip(q))
      <4> HIDE DEF q
      <4>1. HeaderFits(q, provider) /\ Captures(q) = {}
        BY <2>1, <3>2, <3>3, <3>4, <3>5, CaptureTurn
      <4>2. HeaderFits(H!sendCapturedClip(q), provider)
        BY <3>5, <4>1, ClipSent
      <4>3. QED
        BY <1>1, <3>7, <4>2, HeaderFacts, HeaderBecomes DEF H!Becomes
    <3>8. QED
      BY <2>3, <3>6, <3>7
  <2>4. \/ H!Becomes(H!Refused(p))
        \/ /\ ~H!UrlChanged(m.url, tab)
           /\ H!Becomes(r) \/ H!Becomes(H!sendCapturedClip(q))
    BY <1>3 DEF H!CaptureEnds, H!Dropped
  <2>5. QED
    BY <2>2, <2>3, <2>4
<1>4. QED
    BY <1>2, <1>3 DEF H!CaptureEnds

\* The clip was saved, queued or refused.
LEMMA HeaderClipped ==
    ASSUME HeaderInv, NEW m \in panel.out, H!Clipped(m)
    PROVE  HeaderInv'
<1> DEFINE p == H!Take(m)
           q == [p EXCEPT !.captureState = H!Header("error"), !.pendingCapture = H!NoPage,
                          !.capturePreview = FALSE, !.capturing = FALSE]
           r == [p EXCEPT !.captureState = H!Header("error"), !.capturing = FALSE]
<1>1. m.kind = "clip" /\ UNCHANGED <<tab, provider>>
    BY DEF H!Clipped
<1>2. CASE H!Dropped(m)
    BY <1>1, <1>2, HeaderDrops DEF H!Dropped, H!Unseen
<1>3. CASE ~H!Outdated(m)
  <2>1. m \in Captures(panel)
    BY <1>1, <1>3 DEF H!Outdated, Captures, Awaits
  <2>2. CASE H!Becomes(H!Refused(p))
    BY <1>1, <2>1, <2>2, CaptureRefused
  <2>3. /\ m \in panel.out /\ panel.fetchPreview = FALSE /\ panel.capturePreview = FALSE
        /\ panel.captureRefusal = FALSE /\ panel.fetchState \in {H!NoState, Blocked}
        /\ panel.pendingCapture \in {H!NoPage, panel.pinnedUrl}
    BY <2>1, CaptureUnderWay DEF HeaderInv, ClipsFit
  <2>4. /\ p \in HeaderPanels /\ p.generation = panel.generation /\ p.pinnedUrl = panel.pinnedUrl
        /\ p.fetchSent = panel.fetchSent /\ p.header = panel.header
        /\ p.fetchState = panel.fetchState /\ p.fetchPreview = panel.fetchPreview
        /\ p.pendingCapture = panel.pendingCapture /\ p.capturePreview = panel.capturePreview
        /\ p.captureRefusal = panel.captureRefusal
    BY <2>3, HeaderTakes DEF HeaderFits, SameFace
  <2>5. p.out = H!Take(m).out
    OBVIOUS
  <2>6. \/ H!Becomes(H!Refused(p)) \/ H!Becomes(H!loadHeader(q)) \/ H!Becomes(r)
    BY <1>3 DEF H!Clipped, H!Dropped
  <2> HIDE DEF p
  <2>7. CASE H!Becomes(H!loadHeader(q))
    <3>1. /\ q \in HeaderPanels /\ q.out = p.out /\ q.generation = p.generation
          /\ q.pinnedUrl = p.pinnedUrl /\ q.header = p.header /\ q.fetchSent = p.fetchSent
          /\ q.fetchState = p.fetchState /\ q.fetchPreview = p.fetchPreview
          /\ q.pendingCapture = H!NoPage /\ q.captureState = H!Header("error")
          /\ q.capturePreview = FALSE /\ q.capturing = FALSE /\ q.captureRefusal = FALSE
      BY <2>3, <2>4 DEF HeaderPanels
    <3> HIDE DEF q
    <3>2. /\ HeaderFits(q, provider) /\ Captures(q) = {} /\ Fetches(q) = {}
          /\ ~q.fetchSent => Resolves(q) = {}
      BY <2>1, <2>4, <2>5, <3>1, CaptureTurn
    <3>3. ~q.fetchSent => q.fetchState = H!NoState
      BY <2>3, <2>4, <3>1, <3>2, StateFacts DEF HeaderFits, TurnsFit
    <3>4. HeaderFits(H!loadHeader(q), provider)
      BY <2>3, <2>4, <3>1, <3>2, <3>3, HeaderLoads DEF Captured
    <3>5. QED
      BY <1>1, <2>7, <3>4, HeaderFacts, HeaderBecomes DEF H!Becomes
  <2>8. CASE H!Becomes(r)
    <3>1. /\ r \in HeaderPanels /\ r.out = p.out /\ r.generation = p.generation
          /\ r.pinnedUrl = p.pinnedUrl /\ r.header = p.header /\ r.fetchSent = p.fetchSent
          /\ r.fetchState = p.fetchState /\ r.fetchPreview = p.fetchPreview
          /\ r.pendingCapture = p.pendingCapture /\ r.captureState = H!Header("error")
          /\ r.capturePreview = p.capturePreview /\ r.capturing = FALSE
          /\ r.captureRefusal = p.captureRefusal
      BY <2>4 DEF HeaderPanels
    <3> HIDE DEF r
    <3>2. HeaderFits(r, provider)
      BY <2>1, <2>3, <2>4, <2>5, <3>1, CaptureTurn
    <3>3. QED
      BY <1>1, <2>8, <3>2, HeaderFacts, HeaderBecomes DEF H!Becomes
  <2>9. QED
    BY <2>2, <2>6, <2>7, <2>8
<1>4. QED
    BY <1>2, <1>3 DEF H!Clipped

\* A click on the panel: what stays, and that what was clicked was on the screen.
LEMMA ClickLeaves ==
    ASSUME HeaderInv, NEW control, H!Click(control)
    PROVE  /\ control \in screen /\ UNCHANGED <<tab, provider>> /\ tab' \in Addresses
           /\ control \notin OfPreview => control \in H!paint(panel)
    BY HeaderFacts DEF H!Click, ScreenFits

\* The fields that a click sets, where nothing is sent, and the capture's are as before.
LEMMA FetchFieldsSet ==
    ASSUME HeaderInv, NEW q \in HeaderPanels, q.out = panel.out,
           q.generation = panel.generation, q.pinnedUrl = panel.pinnedUrl,
           q.header = panel.header, q.fetchSent = panel.fetchSent,
           q.fetchState = panel.fetchState, q.captureState = panel.captureState,
           q.captureRefusal = panel.captureRefusal, q.pendingCapture = panel.pendingCapture,
           q.capturePreview = panel.capturePreview, q.capturing = panel.capturing,
           q.fetchPreview => \/ panel.fetchPreview
                             \/ /\ ~Captured(panel) /\ panel.fetchState \in {H!NoState, RateLimited}
                                /\ Fetches(panel) = {}
                                /\ ~panel.fetchSent => Fetchable(panel) /\ Resolves(panel) = {}
    PROVE  HeaderFits(q, provider)
<1>1. HeaderFits(panel, provider)
    BY HeaderFacts
<1>2. /\ q.pendingCapture \in {H!NoPage, panel.pinnedUrl}
      /\ ~q.fetchSent => Fetches(panel) = {} /\ AtWork(panel, provider) = {}
      /\ ~q.capturing => Captures(panel) = {} /\ ~q.capturePreview
      /\ q.capturePreview => Captures(panel) = {}
    BY DEF HeaderInv, ClipsFit, FetchesFit, CapturesFit
<1>3. /\ Resolves(q) = Resolves(panel) /\ Fetches(q) = Fetches(panel)
      /\ TurnsFit(q) => HeaderFits(q, provider)
    BY <1>1, <1>2, FieldsSet
<1>4. Captured(q) = Captured(panel) /\ Fetchable(q) = Fetchable(panel)
    BY DEF Captured, Fetchable
<1>5. TurnsFit(panel)
    BY <1>1 DEF HeaderFits
<1>6. TurnsFit(q)
    BY <1>3, <1>4, <1>5 DEF TurnsFit
<1>7. QED
    BY <1>3, <1>6

\* The button to fetch, and the one to try again, show what will be sent.
LEMMA HeaderFetchAction ==
    ASSUME HeaderInv, H!handleFetchAction
    PROVE  HeaderInv'
<1>1. TurnsFit(panel) /\ panel \in HeaderPanels
    BY HeaderFacts DEF HeaderFits
<1>2. CASE /\ H!Click("fetch") \/ H!Click("try again")
           /\ IF panel.header.kind = "not-indexed" THEN H!Becomes([panel EXCEPT !.fetchPreview = TRUE])
              ELSE H!Unseen(panel)
  <2>1. UNCHANGED <<tab, provider>>
    BY <1>2 DEF H!Click
  <2>2. CASE H!Unseen(panel)
    BY <2>1, <2>2 DEF H!Unseen, HeaderInv
  <2>3. CASE H!Becomes([panel EXCEPT !.fetchPreview = TRUE])
    <3> DEFINE q == [panel EXCEPT !.fetchPreview = TRUE]
    <3>1. panel' = q /\ screen' = H!paint(panel')
      BY <2>3 DEF H!Becomes
    <3>2. /\ q \in HeaderPanels /\ q.out = panel.out /\ q.generation = panel.generation
          /\ q.pinnedUrl = panel.pinnedUrl /\ q.header = panel.header
          /\ q.fetchSent = panel.fetchSent /\ q.fetchState = panel.fetchState
          /\ q.captureState = panel.captureState /\ q.captureRefusal = panel.captureRefusal
          /\ q.pendingCapture = panel.pendingCapture /\ q.capturePreview = panel.capturePreview
          /\ q.capturing = panel.capturing
      BY <1>1 DEF HeaderPanels
    <3> HIDE DEF q
    <3>3. ASSUME H!Click("fetch") PROVE HeaderFits(q, provider)
      <4>1. "fetch" \in H!paint(panel)
        BY <3>3, ClickLeaves DEF OfPreview
      <4>2. panel.captureState = H!NoState /\ panel.fetchState = H!NoState /\ Fetchable(panel)
        BY <1>1, <4>1, ClickFacts
      <4>3. ~Captured(panel) /\ Fetches(panel) = {}
        BY <1>1, <4>2, StateFacts DEF TurnsFit
      <4>4. ~panel.fetchSent => Resolves(panel) = {}
        BY <1>1, <4>2, StateFacts DEF TurnsFit, Fetchable
      <4>5. QED
        BY <3>2, <4>2, <4>3, <4>4, FetchFieldsSet
    <3>4. ASSUME H!Click("try again") PROVE HeaderFits(q, provider)
      <4>1. "try again" \in H!paint(panel)
        BY <3>4, ClickLeaves DEF OfPreview
      <4>2. panel.fetchState = RateLimited
        BY <1>1, <4>1, ClickFacts
      <4>3. ~Captured(panel) /\ Fetches(panel) = {} /\ Fetchable(panel) /\ Resolves(panel) = {}
        BY <1>1, <4>2, StateFacts DEF TurnsFit
      <4>4. QED
        BY <3>2, <4>2, <4>3, FetchFieldsSet
    <3>5. HeaderFits(q, provider)
      BY <1>2, <3>3, <3>4
    <3>6. QED
      BY <2>1, <3>1, <3>5, HeaderFacts, HeaderBecomes
  <2>4. QED
    BY <1>2, <2>2, <2>3
<1>3. CASE H!Click("check again") /\ H!Unseen(H!loadHeader(panel))
  <2> DEFINE q == H!loadHeader(panel)
  <2>1. panel' = q /\ screen' = screen /\ UNCHANGED <<tab, provider>>
    BY <1>3 DEF H!Unseen, H!Click
  <2>2. "check again" \in H!paint(panel)
    BY <1>3, ClickLeaves DEF OfPreview
  <2>3. panel.fetchState = StillWorking
    BY <1>1, <2>2, ClickFacts
  <2>4. panel.fetchSent /\ Fetches(panel) = {}
    BY <1>1, <2>3, StateFacts DEF TurnsFit
  <2>5. /\ HeaderFits(q, provider) /\ SameFace(panel, q) /\ q.fetchSent = panel.fetchSent
        /\ q.capturing = panel.capturing /\ q.captureRefusal = panel.captureRefusal /\ Fetches(q) = {}
    BY <2>4, HeaderFacts, HeaderLoads
  <2> HIDE DEF q
  <2>6. QED
    BY <2>1, <2>4, <2>5, HeaderFacts, HeaderUnseen
<1>4. QED
  BY <1>2, <1>3 DEF H!handleFetchAction

\* The preview of a fetch is taken away.
LEMMA PreviewTaken ==
    ASSUME HeaderInv
    PROVE  LET q == [panel EXCEPT !.fetchPreview = FALSE]
           IN  /\ HeaderFits(q, provider) /\ q.fetchPreview = FALSE /\ q.fetchSent = panel.fetchSent
               /\ q.header = panel.header /\ q.capturing = panel.capturing
               /\ q.captureRefusal = panel.captureRefusal /\ q.capturePreview = panel.capturePreview
               /\ q.out = panel.out /\ q.generation = panel.generation
<1> DEFINE q == [panel EXCEPT !.fetchPreview = FALSE]
<1>1. panel \in HeaderPanels
    BY HeaderFacts
<1>2. /\ q \in HeaderPanels /\ q.out = panel.out /\ q.generation = panel.generation
      /\ q.pinnedUrl = panel.pinnedUrl /\ q.header = panel.header
      /\ q.fetchSent = panel.fetchSent /\ q.fetchState = panel.fetchState
      /\ q.captureState = panel.captureState /\ q.captureRefusal = panel.captureRefusal
      /\ q.pendingCapture = panel.pendingCapture /\ q.capturePreview = panel.capturePreview
      /\ q.capturing = panel.capturing /\ q.fetchPreview = FALSE
    BY <1>1 DEF HeaderPanels
<1> HIDE DEF q
<1>3. HeaderFits(q, provider)
    BY <1>2, FetchFieldsSet
<1>4. QED
    BY <1>2, <1>3 DEF q

\* The fetch of a page is sent, the first time or after one that did not leave.
LEMMA FetchSent ==
    ASSUME NEW p, NEW asks, HeaderFits(p, asks), ~p.fetchSent, Fetchable(p), ~Captured(p),
           ~p.fetchPreview, Resolves(p) = {}
    PROVE  HeaderFits(H!sendFetch(p), asks)
<1> DEFINE q == [p EXCEPT !.fetchSent = TRUE, !.fetchState = H!Header("fetching")]
           m == H!Message("fetch", p)
           r == H!Send(q, m)
<1>1. p \in HeaderPanels /\ IsFiniteSet(p.out) /\ ClipsFit(p)
    BY DEF HeaderFits
<1>2. H!sendFetch(p) = r
    BY StateFacts DEF H!sendFetch, Fetchable
<1>3. m \in HeaderMessages /\ m.kind = "fetch" /\ m.gen = p.generation /\ m.url = p.pinnedUrl
    BY <1>1, HeaderMessage
<1>4. H!Header("fetching") \in FetchStates
    BY DEF FetchStates
<1> HIDE DEF m
<1>5. /\ q \in HeaderPanels /\ q.out = p.out /\ q.generation = p.generation
      /\ q.pinnedUrl = p.pinnedUrl /\ q.pendingCapture = p.pendingCapture
      /\ q.fetchSent = TRUE /\ q.capturing = p.capturing
      /\ q.capturePreview = p.capturePreview /\ q.fetchPreview = p.fetchPreview
      /\ q.fetchState = H!Header("fetching") /\ q.captureState = p.captureState
      /\ q.captureRefusal = p.captureRefusal /\ q.header = p.header
    BY <1>1, <1>4 DEF HeaderPanels
<1> HIDE DEF q
<1>6. /\ r \in HeaderPanels /\ IsFiniteSet(r.out) /\ ClipsFit(r) /\ SameFace(q, r)
      /\ r.generation = q.generation /\ r.fetchSent = q.fetchSent
      /\ r.capturing = q.capturing /\ r.captureRefusal = q.captureRefusal
      /\ Resolves(r) = Resolves(q) /\ Fetches(r) = Fetches(q) \union {m} /\ Captures(r) = Captures(q)
      /\ AtWork(r, asks) = AtWork(q, asks)
  <2>1. IsFiniteSet(q.out) /\ ClipsFit(q)
    BY <1>1, <1>5 DEF ClipsFit
  <2>2. QED
    BY <1>3, <1>5, <2>1, HeaderSends
<1>7. /\ Resolves(q) = Resolves(p) /\ Fetches(q) = Fetches(p) /\ Captures(q) = Captures(p)
      /\ AtWork(q, asks) = AtWork(p, asks)
    BY <1>5 DEF Resolves, Fetches, Captures, Awaits, AtWork
<1> HIDE DEF r
<1>8. Fetches(p) = {} /\ AtWork(p, asks) = {}
    BY DEF HeaderFits, FetchesFit
<1>9. Fetches(r) = {m} /\ AtWork(r, asks) = {} /\ Resolves(r) = {} /\ r.fetchSent = TRUE
    BY <1>5, <1>6, <1>7, <1>8
<1>10. FetchesFit(r, asks)
    BY <1>5, <1>6, <1>9 DEF HeaderFits, FetchesFit, Lone
<1>11. CapturesFit(r)
    BY <1>5, <1>6, <1>7 DEF HeaderFits, CapturesFit, SameFace
<1>12. /\ r.fetchState = H!Header("fetching") /\ Fetchable(r) /\ ~Captured(r) /\ ~r.fetchPreview
    BY <1>5, <1>6 DEF SameFace, Fetchable, Captured
<1>13. TurnsFit(r)
    BY <1>9, <1>12, StateFacts DEF TurnsFit, Captured
<1>14. QED
    BY <1>2, <1>6, <1>10, <1>11, <1>13 DEF HeaderFits

\* What the preview showed is sent, or turned away.
LEMMA HeaderConfirms ==
    ASSUME HeaderInv, H!confirmFetch
    PROVE  HeaderInv'
<1> DEFINE p == [panel EXCEPT !.fetchPreview = FALSE]
<1>1. /\ H!Click("send fetch")
      /\ IF H!sendFetch(p) = p THEN H!Unseen(p) ELSE H!Becomes(H!sendFetch(p))
    BY DEF H!confirmFetch
<1>2. "send fetch" \in screen /\ UNCHANGED <<tab, provider>> /\ tab' \in Addresses
    BY <1>1, ClickLeaves
<1>3. screen \subseteq OfPreview /\ ~Captured(panel) /\ (panel.fetchPreview \/ panel.fetchSent)
    BY <1>2 DEF HeaderInv, ScreenFits
<1>4. /\ HeaderFits(p, provider) /\ p.fetchPreview = FALSE /\ p.fetchSent = panel.fetchSent
      /\ p.header = panel.header /\ p.capturing = panel.capturing
      /\ p.captureRefusal = panel.captureRefusal /\ p.capturePreview = panel.capturePreview
      /\ p.out = panel.out /\ p.generation = panel.generation
    BY PreviewTaken
<1> HIDE DEF p
<1>5. ~Captured(p) /\ Fetches(p) = Fetches(panel) /\ Resolves(p) = Resolves(panel)
    BY <1>3, <1>4 DEF Captured, Fetches, Resolves, Awaits
<1>6. ~panel.fetchSent => Fetchable(panel) /\ Resolves(panel) = {}
    BY <1>3 DEF HeaderInv, TurnsFit
<1>7. CASE panel.fetchSent
  <2>1. H!sendFetch(p) = p
    BY <1>4, <1>7 DEF H!sendFetch
  <2>2. panel' = p /\ screen' = screen
    BY <1>1, <2>1 DEF H!Unseen
  <2>3. ScreenFits(p, screen)
    BY <1>3, <1>4, <1>5, <1>7 DEF HeaderInv, ScreenFits, Captured
  <2>4. QED
    BY <1>2, <1>4, <2>2, <2>3 DEF HeaderInv, HeaderFits
<1>8. CASE ~panel.fetchSent
  <2>1. Fetchable(p) /\ Resolves(p) = {}
    BY <1>4, <1>5, <1>6, <1>8 DEF Fetchable
  <2>2. HeaderFits(H!sendFetch(p), provider)
    BY <1>4, <1>5, <1>8, <2>1, FetchSent
  <2>3. H!sendFetch(p) # p
    <3> DEFINE q == [p EXCEPT !.fetchSent = TRUE, !.fetchState = H!Header("fetching")]
    <3>1. p \in HeaderPanels
      BY <1>4 DEF HeaderFits
    <3>2. q.fetchSent = TRUE /\ H!sendFetch(p) = H!Send(q, H!Message("fetch", p))
      BY <1>4, <1>8, <2>1, <3>1, StateFacts DEF H!sendFetch, Fetchable, HeaderPanels
    <3>3. H!Header("fetching") \in FetchStates
      BY DEF FetchStates
    <3>4. q \in HeaderPanels
      BY <3>1, <3>3 DEF HeaderPanels
    <3> HIDE DEF q
    <3>5. H!Send(q, H!Message("fetch", p)).fetchSent = q.fetchSent
      BY <3>4 DEF H!Send, HeaderPanels
    <3>6. QED
      BY <1>4, <1>8, <3>2, <3>5
  <2>4. panel' = H!sendFetch(p) /\ screen' = H!paint(panel')
    BY <1>1, <2>3 DEF H!Becomes
  <2>5. QED
    BY <1>2, <2>2, <2>4, HeaderBecomes
<1>9. QED
  BY <1>7, <1>8

\* The preview of a fetch is closed.
LEMMA HeaderCancels ==
    ASSUME HeaderInv, H!cancelFetchPreview
    PROVE  HeaderInv'
<1>1. HeaderFits([panel EXCEPT !.fetchPreview = FALSE], provider)
    BY PreviewTaken
<1>2. QED
    BY <1>1, HeaderFacts, HeaderBecomes DEF H!cancelFetchPreview, H!Click, H!Becomes

\* A copy of the page is asked for.
LEMMA HeaderCaptures ==
    ASSUME HeaderInv, H!runCapture
    PROVE  HeaderInv'
<1> DEFINE q == [panel EXCEPT !.capturing = TRUE, !.captureRefusal = FALSE,
                              !.captureState = H!Header("error")]
           m == H!Message("capture", panel)
           r == H!Send(q, m)
<1>1. /\ H!Click("save a copy") \/ H!Click("update this copy")
      /\ IF panel.capturing THEN H!Unseen(panel) ELSE H!Becomes(H!sendCapture(panel))
    BY DEF H!runCapture
<1>2. UNCHANGED <<tab, provider>> /\ tab' \in Addresses
    BY <1>1, ClickLeaves
<1>3. screen \intersect {"save a copy", "update this copy"} # {}
      /\ H!paint(panel) \intersect {"save a copy", "update this copy"} # {}
    BY <1>1, ClickLeaves DEF OfPreview
<1>4. panel \in HeaderPanels /\ IsFiniteSet(panel.out) /\ HeaderFits(panel, provider) /\ TurnsFit(panel)
      /\ panel.fetchSent \in BOOLEAN
    BY HeaderFacts DEF HeaderFits, HeaderPanels
<1>5. /\ ~panel.fetchPreview /\ panel.captureState = H!NoState
      /\ panel.fetchState = Blocked \/ (panel.fetchState = H!NoState /\ ~Fetchable(panel))
    BY <1>3, <1>4, ClickFacts
<1>6. Fetches(panel) = {} /\ (~panel.fetchSent => Resolves(panel) = {})
    BY <1>3 DEF HeaderInv, ScreenFits
<1>7. CASE panel.capturing
    BY <1>1, <1>2, <1>7 DEF H!Unseen, HeaderInv
<1>8. CASE ~panel.capturing
  <2>1. panel' = r /\ screen' = H!paint(panel')
    BY <1>1, <1>8 DEF H!Becomes, H!sendCapture
  <2>2. m \in HeaderMessages /\ m.kind = "capture" /\ m.gen = panel.generation /\ m.url = panel.pinnedUrl
    BY <1>4, HeaderMessage
  <2> HIDE DEF m
  <2>3. /\ q \in HeaderPanels /\ q.out = panel.out /\ q.generation = panel.generation
        /\ q.pinnedUrl = panel.pinnedUrl /\ q.pendingCapture = panel.pendingCapture
        /\ q.fetchSent = panel.fetchSent /\ q.capturing = TRUE
        /\ q.capturePreview = panel.capturePreview /\ q.fetchPreview = panel.fetchPreview
        /\ q.fetchState = panel.fetchState /\ q.captureState = H!Header("error")
        /\ q.captureRefusal = FALSE /\ q.header = panel.header
    BY <1>4 DEF HeaderPanels
  <2> HIDE DEF q
  <2>4. Captures(panel) = {} /\ ~panel.capturePreview
        /\ panel.pendingCapture \in {H!NoPage, panel.pinnedUrl}
    BY <1>8 DEF HeaderInv, CapturesFit, ClipsFit
  <2>5. ~panel.fetchSent => Fetches(panel) = {} /\ AtWork(panel, provider) = {}
    BY DEF HeaderInv, FetchesFit
  <2>6. /\ Resolves(q) = Resolves(panel) /\ Fetches(q) = Fetches(panel) /\ Captures(q) = Captures(panel)
        /\ TurnsFit(q) => HeaderFits(q, provider)
    BY <1>4, <2>3, <2>4, <2>5, FieldsSet
  <2>7. TurnsFit(q)
    BY <1>4, <1>5, <1>6, <2>3, <2>6 DEF TurnsFit, Fetchable, Captured
  <2>8. HeaderFits(r, provider)
    BY <2>2, <2>3, <2>4, <2>6, <2>7, CaptureSent
  <2>9. QED
    BY <1>2, <2>1, <2>8, HeaderBecomes
<1>9. QED
  BY <1>7, <1>8

\* The copy that was shown is sent.
LEMMA HeaderConfirmsCapture ==
    ASSUME HeaderInv, H!confirmCapture
    PROVE  HeaderInv'
<1> DEFINE q == [panel EXCEPT !.capturePreview = FALSE]
<1>1. H!Click("send capture") /\ H!Becomes(H!sendCapturedClip(q))
    BY DEF H!confirmCapture
<1>2. "send capture" \in screen /\ UNCHANGED <<tab, provider>> /\ tab' \in Addresses
    BY <1>1, ClickLeaves
<1>3. panel.capturePreview
    BY <1>2 DEF HeaderInv, ScreenFits
<1>4. panel \in HeaderPanels /\ HeaderFits(panel, provider)
    BY HeaderFacts
<1>5. Captures(panel) = {} /\ panel.capturing /\ panel.pendingCapture \in {H!NoPage, panel.pinnedUrl}
    BY <1>3 DEF HeaderInv, CapturesFit, ClipsFit
<1>6. /\ q \in HeaderPanels /\ q.out = panel.out /\ q.generation = panel.generation
      /\ q.pinnedUrl = panel.pinnedUrl /\ q.pendingCapture = panel.pendingCapture
      /\ q.fetchSent = panel.fetchSent /\ q.capturing = panel.capturing
      /\ q.capturePreview = FALSE /\ q.fetchPreview = panel.fetchPreview
      /\ q.fetchState = panel.fetchState /\ q.captureState = panel.captureState
      /\ q.captureRefusal = panel.captureRefusal /\ q.header = panel.header
    BY <1>4 DEF HeaderPanels
<1> HIDE DEF q
<1>7. ~q.fetchSent => Fetches(panel) = {} /\ AtWork(panel, provider) = {}
    BY <1>6 DEF HeaderInv, FetchesFit
<1>8. /\ Resolves(q) = Resolves(panel) /\ Fetches(q) = Fetches(panel) /\ Captures(q) = Captures(panel)
      /\ TurnsFit(q) => HeaderFits(q, provider)
    BY <1>4, <1>5, <1>6, <1>7, FieldsSet
<1>9. TurnsFit(q)
    BY <1>6, <1>8 DEF HeaderInv, TurnsFit, Captured, Fetchable
<1>10. HeaderFits(H!sendCapturedClip(q), provider)
    BY <1>5, <1>6, <1>8, <1>9, ClipSent
<1>11. QED
    BY <1>1, <1>2, <1>10, HeaderBecomes DEF H!Becomes

\* The copy that was shown is dropped.
LEMMA HeaderDropsCapture ==
    ASSUME HeaderInv, H!cancelCapturePreview
    PROVE  HeaderInv'
<1> DEFINE q == [panel EXCEPT !.pendingCapture = H!NoPage, !.capturePreview = FALSE,
                              !.capturing = FALSE]
<1>1. H!Click("cancel capture") /\ H!Becomes(q)
    BY DEF H!cancelCapturePreview
<1>2. "cancel capture" \in screen /\ UNCHANGED <<tab, provider>> /\ tab' \in Addresses
    BY <1>1, ClickLeaves
<1>3. panel.capturePreview
    BY <1>2 DEF HeaderInv, ScreenFits
<1>4. panel \in HeaderPanels /\ HeaderFits(panel, provider)
    BY HeaderFacts
<1>5. Captures(panel) = {} /\ panel.capturing
    BY <1>3 DEF HeaderInv, CapturesFit
<1>6. /\ q \in HeaderPanels /\ q.out = panel.out /\ q.generation = panel.generation
      /\ q.pinnedUrl = panel.pinnedUrl /\ q.pendingCapture = H!NoPage
      /\ q.fetchSent = panel.fetchSent /\ q.capturing = FALSE
      /\ q.capturePreview = FALSE /\ q.fetchPreview = panel.fetchPreview
      /\ q.fetchState = panel.fetchState /\ q.captureState = panel.captureState
      /\ q.captureRefusal = panel.captureRefusal /\ q.header = panel.header
    BY <1>4 DEF HeaderPanels
<1> HIDE DEF q
<1>7. ~q.fetchSent => Fetches(panel) = {} /\ AtWork(panel, provider) = {}
    BY <1>6 DEF HeaderInv, FetchesFit
<1>8. /\ Resolves(q) = Resolves(panel) /\ Fetches(q) = Fetches(panel)
      /\ TurnsFit(q) => HeaderFits(q, provider)
    BY <1>4, <1>5, <1>6, <1>7, FieldsSet
<1>9. ~panel.captureRefusal
    BY <1>5 DEF HeaderInv, TurnsFit
<1>10. TurnsFit(q)
    BY <1>5, <1>6, <1>8, <1>9 DEF HeaderInv, TurnsFit, Captured, Fetchable
<1>11. QED
    BY <1>1, <1>2, <1>8, <1>10, HeaderBecomes DEF H!Becomes

\* One of several items is chosen.
LEMMA HeaderChooses ==
    ASSUME HeaderInv, H!Choose
    PROVE  HeaderInv'
<1> DEFINE q == [panel EXCEPT !.chosen = TRUE]
<1>1. H!Click("choose") /\ H!Becomes(q)
    BY DEF H!Choose
<1>2. UNCHANGED <<tab, provider>> /\ tab' \in Addresses
    BY <1>1, ClickLeaves
<1>3. panel \in HeaderPanels
    BY HeaderFacts
<1>4. /\ q \in HeaderPanels /\ q.out = panel.out /\ q.generation = panel.generation
      /\ q.pinnedUrl = panel.pinnedUrl /\ q.header = panel.header
      /\ q.fetchSent = panel.fetchSent /\ q.fetchState = panel.fetchState
      /\ q.captureState = panel.captureState /\ q.captureRefusal = panel.captureRefusal
      /\ q.pendingCapture = panel.pendingCapture /\ q.capturePreview = panel.capturePreview
      /\ q.capturing = panel.capturing /\ q.fetchPreview = panel.fetchPreview
    BY <1>3 DEF HeaderPanels
<1> HIDE DEF q
<1>5. HeaderFits(q, provider)
    BY <1>4, FetchFieldsSet
<1>6. QED
    BY <1>1, <1>2, <1>5, HeaderBecomes DEF H!Becomes

\* The panel is drawn up again for the page that the tab shows.
LEMMA HeaderRereads ==
    ASSUME HeaderInv, H!Reread
    PROVE  HeaderInv'
<1> DEFINE fresh == H!Fresh(tab)
           next == panel.generation + 1
           q == [fresh EXCEPT !.generation = next, !.out = panel.out]
<1>1. H!Click("re-read") /\ H!Becomes(H!loadHeader(q))
    BY DEF H!Reread, H!reread
<1>2. UNCHANGED <<tab, provider>> /\ tab' \in Addresses
    BY <1>1, ClickLeaves
<1>3. tab \in Addresses /\ panel.generation \in Nat /\ panel.out \in SUBSET HeaderMessages
      /\ IsFiniteSet(panel.out)
    BY HeaderFacts
<1>4. fresh \in HeaderPanels
  <2>1. H!Header("loading") \in HeaderStates
    BY StateFacts DEF HeaderKinds
  <2>2. QED
    BY <1>3, <2>1 DEF H!Fresh, HeaderPanels, FetchStates
<1>5. /\ fresh.header = H!Header("loading") /\ fresh.fetchSent = FALSE
      /\ fresh.fetchState = H!NoState /\ fresh.fetchPreview = FALSE
      /\ fresh.captureRefusal = FALSE /\ fresh.pendingCapture = H!NoPage
      /\ fresh.capturePreview = FALSE /\ fresh.capturing = FALSE
    BY DEF H!Fresh
<1> HIDE DEF fresh
<1>6. next \in Nat /\ next > panel.generation
    BY <1>3
<1> HIDE DEF next
<1>7. /\ q \in HeaderPanels /\ q.out = panel.out /\ q.generation = next
      /\ q.header = fresh.header /\ q.fetchSent = fresh.fetchSent
      /\ q.fetchState = fresh.fetchState /\ q.fetchPreview = fresh.fetchPreview
      /\ q.captureRefusal = fresh.captureRefusal /\ q.pendingCapture = fresh.pendingCapture
      /\ q.capturePreview = fresh.capturePreview /\ q.capturing = fresh.capturing
    BY <1>3, <1>4, <1>6 DEF HeaderPanels
<1> HIDE DEF q
<1>8. \A m \in panel.out : m.gen \in Nat /\ m.gen <= panel.generation
    BY <1>3 DEF HeaderInv, ClipsFit, HeaderMessages
<1>9. \A m \in provider : m.gen \in Nat /\ m.gen <= panel.generation
    BY DEF HeaderInv, FetchesFit
<1>10. /\ \A m \in q.out : m.gen < q.generation
      /\ \A m \in provider : m.gen \in Nat /\ m.gen < q.generation
    BY <1>3, <1>7, <1>8, <1>9, <1>6
<1>11. HeaderFits(H!loadHeader(q), provider)
    BY <1>3, <1>5, <1>7, <1>10, HeaderAnew
<1>12. QED
    BY <1>1, <1>2, <1>11, HeaderBecomes DEF H!Becomes

\* Every step of the header keeps what is known of it.
LEMMA HeaderNext ==
    ASSUME HeaderInv, H!Next
    PROVE  HeaderInv'
<1>1. CASE (\E u \in Addresses : H!Navigate(u)) \/ H!Repaint
    BY <1>1, HeaderIdles
<1>2. CASE H!checkNavigation
    BY <1>2, HeaderWatches
<1>3. CASE \E m \in panel.out : \/ H!Resolved(m) \/ H!Fetched(m) \/ H!Clipped(m)
                                \/ H!CaptureBegins(m) \/ H!CaptureEnds(m)
    BY <1>3, HeaderResolved, HeaderFetched, HeaderClipped, HeaderCaptureBegins, HeaderCaptureEnds
<1>4. CASE H!handleFetchAction \/ H!confirmFetch \/ H!cancelFetchPreview
    BY <1>4, HeaderFetchAction, HeaderConfirms, HeaderCancels
<1>5. CASE H!runCapture \/ H!confirmCapture \/ H!cancelCapturePreview
    BY <1>5, HeaderCaptures, HeaderConfirmsCapture, HeaderDropsCapture
<1>6. CASE H!Choose \/ H!Reread
    BY <1>6, HeaderChooses, HeaderRereads
<1>7. QED
    BY <1>1, <1>2, <1>3, <1>4, <1>5, <1>6 DEF H!Next

\* The invariant of the header holds, whichever controls are clicked and in whatever
\* order the answers come.
THEOREM HeaderInvHolds == Spec => [](which = "header" => HeaderInv)
<1> DEFINE Inv == which = "header" => HeaderInv
<1>1. ASSUME Init PROVE Inv
  <2>1. which = "header" => H!Init
    BY <1>1 DEF Init
  <2>2. QED
    BY <2>1, HeaderInit
<1>2. ASSUME Inv, [Next]_vars PROVE Inv'
  <2>1. CASE Next
    <3>1. which' = which /\ (which = "header" => H!Next)
      BY <2>1 DEF Next
    <3>2. QED
      BY <1>2, <3>1, HeaderNext
  <2>2. CASE UNCHANGED vars
    <3>1. UNCHANGED <<which, tab, panel, screen, provider>>
      BY <2>2 DEF vars, ofHeader
    <3>2. HeaderInv => HeaderInv'
      BY <3>1 DEF HeaderInv
    <3>3. QED
      BY <1>2, <3>1, <3>2
  <2>3. QED
    BY <1>2, <2>1, <2>2
<1>3. QED
    BY <1>1, <1>2, PTL DEF Spec

\* One fetch at a time is at work for the page described: none is sent while an earlier
\* one may still be (panel-in-page.ts:559-578).
THEOREM OneFetchAtATimeHolds == Spec => []OneFetchAtATime
<1>1. ASSUME NEW X, Lone(X) PROVE H!Cardinality(X) \in {0, 1} /\ (X = {} => H!Cardinality(X) = 0)
  <2>1. CASE X = {}
    BY <2>1, FS_EmptySet, HeaderCount
  <2>2. CASE X # {}
    <3>1. PICK m : m \in X
      BY <2>2
    <3>2. X = {m}
      BY <1>1, <3>1 DEF Lone
    <3>3. Cardinality({m}) = 1
      BY FS_Singleton
    <3>4. QED
      BY <2>2, <3>2, <3>3, HeaderCount
  <2>3. QED
    BY <2>1, <2>2
<1>2. ASSUME HeaderInv PROVE H!OneFetchAtATime
  <2>1. /\ {m \in panel.out : m.kind = "fetch" /\ H!Now(m)} = Fetches(panel)
        /\ {m \in provider : H!Now(m)} = AtWork(panel, provider)
    BY DEF Fetches, Awaits, AtWork, H!Now
  <2>2. /\ Lone(Fetches(panel)) /\ Lone(AtWork(panel, provider))
        /\ Fetches(panel) = {} \/ AtWork(panel, provider) = {}
    BY <1>2 DEF HeaderInv, FetchesFit
  <2>3. /\ H!Cardinality(Fetches(panel)) \in {0, 1} /\ H!Cardinality(AtWork(panel, provider)) \in {0, 1}
        /\ H!Cardinality(Fetches(panel)) = 0 \/ H!Cardinality(AtWork(panel, provider)) = 0
    BY <1>1, <2>2
  <2>4. H!Cardinality(Fetches(panel)) + H!Cardinality(AtWork(panel, provider)) <= 1
    BY <2>3
  <2>5. QED
    BY <2>1, <2>4 DEF H!OneFetchAtATime
<1>3. (which = "header" => HeaderInv) => OneFetchAtATime
    BY <1>2 DEF OneFetchAtATime
<1>4. QED
    BY <1>3, HeaderInvHolds, PTL

\* A clip of the panel is a copy of the page that it describes, wherever the tab goes
\* meanwhile (capture-tab.ts:48-61).
THEOREM ClipIsOfThePageHolds == Spec => []ClipIsOfThePage
<1>1. (which = "header" => HeaderInv) => ClipIsOfThePage
    BY DEF ClipIsOfThePage, H!ClipIsOfThePage, H!Now, HeaderInv, ClipsFit
<1>2. QED
    BY <1>1, HeaderInvHolds, PTL

\* A capture that was refused can be tried again: nothing takes the offer off the
\* screen (panel-in-page.ts:630-651).
THEOREM RefusalLeavesOfferHolds == Spec => []RefusalLeavesOffer
<1>1. ASSUME HeaderInv, panel.captureRefusal,
             H!offersCapture(panel.header) \/ H!offersCapture(panel.fetchState)
                \/ panel.header.kind = "captured"
      PROVE  screen \intersect {"save a copy", "update this copy"} # {}
  <2> DEFINE h == H!shownHeader(panel)
  <2>1. panel \in HeaderPanels
    BY <1>1, HeaderFacts
  <2>2. screen = H!paint(panel)
    BY <1>1 DEF HeaderInv, ScreenFits
  <2>3. ~panel.capturing /\ panel.captureState = H!NoState /\ ~panel.fetchPreview
        /\ panel.fetchState \in {H!NoState, Blocked}
    BY <1>1 DEF HeaderInv, TurnsFit, Captured
  <2>4. ~panel.capturePreview
    BY <1>1, <2>3 DEF HeaderInv, CapturesFit
  <2>5. H!renderHeader(h) \subseteq H!paint(panel)
    BY <2>1, <2>3, <2>4, PaintFacts
  <2>6. H!offersCapture(h) \/ h.kind = "captured"
    <3>1. CASE panel.fetchState = Blocked
      <4>1. h = Blocked
        BY <2>1, <2>3, <3>1, ShownFacts, StateFacts
      <4>2. QED
        BY <4>1, StateFacts DEF H!offersCapture
    <3>2. CASE panel.fetchState = H!NoState
      <4>1. h = panel.header \/ panel.header.kind = "ambiguous"
        BY <2>1, <2>3, <3>2, ShownFacts
      <4>2. ~H!offersCapture(panel.fetchState)
        BY <3>2, StateFacts DEF H!offersCapture
      <4>3. H!offersCapture(panel.header) \/ panel.header.kind = "captured"
        BY <1>1, <4>2
      <4>4. panel.header.kind # "ambiguous"
        BY <4>3 DEF H!offersCapture
      <4> HIDE DEF h
      <4>5. QED
        BY <4>1, <4>3, <4>4
    <3>3. QED
      BY <2>3, <3>1, <3>2
  <2>7. H!renderHeader(h) \intersect {"save a copy", "update this copy"} # {}
    BY <2>6, ControlFacts
  <2>8. QED
    BY <2>2, <2>5, <2>7
<1>2. HeaderInv => H!RefusalLeavesOffer
    BY <1>1 DEF H!RefusalLeavesOffer
<1>3. (which = "header" => HeaderInv) => RefusalLeavesOffer
    BY <1>2 DEF RefusalLeavesOffer
<1>4. QED
    BY <1>3, HeaderInvHolds, PTL

=============================================================================
