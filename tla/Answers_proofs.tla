---------------------------- MODULE Answers_proofs ----------------------------
(***************************************************************************)
(* Whatever the gateway answers, a reply says nothing that it did not, and *)
(* the page that asked takes the reply for one.                            *)
(*                                                                         *)
(* A client's result is fair to the answer it was made of (Fair): a        *)
(* failure has a reason that the answer stands for, a value is of a good   *)
(* answer, and as the pages expect it.  A handler's reply to a request is  *)
(* then honest (Honest), and what is kept of a lane between two requests   *)
(* is told by the answers that are kept with it (LaneIsTold).              *)
(***************************************************************************)
EXTENDS Worker, SequenceTheorems, FiniteSetTheorems, TLAPS

----------------------------------------------------------------------------
(* Answers.                                                                *)

\* An answer as evidence.
By(route, w) == [route |-> route, answer |-> w]

\* A client's failure has one of its reasons, the answer stands for it, there is no
\* value with it, and only a whole account of a refusal is handed on.
FailsFairly(route, w, r, reasons) ==
    /\ r.ok \in BOOLEAN
    /\ r.ok => r.reason = ""
    /\ ~r.ok => r.reason \in reasons /\ A!Backs(By(route, w), r.reason) /\ r.value = A!Null
    /\ r.gap # A!Null => w = A!Answer("403", A!Body("scopes", "")) /\ A!isScopeGap(r.gap)

\* What it read is of a good answer, and as the pages expect it.
Brings(w, r, shapes) ==
    r.ok => A!ResOk(w) /\ w.body.is \in A!Backing(r.value.is) /\ A!Fits(r.value, shapes)

\* The statuses of the answers, and the bodies that come with a refusal.
LEMMA AnswerIsOne ==
    ASSUME NEW route, NEW w \in A!Answers(route)
    PROVE  /\ w.status \in {"refused", "aborted", "200", "202", "400", "401", "403", "404", "410",
                            "413", "429", "500", "503"}
           /\ w = A!Answer(w.status, w.body)
           /\ A!Silent(w) <=> w.status \in {"refused", "aborted"}
           /\ w.status = "403" => w.body \in A!RefusalBodies
<1>1. CASE w \in {A!Refused, A!Aborted}
    BY <1>1 DEF A!Refused, A!Aborted, A!Answer, A!Silent
<1>2. CASE w \notin {A!Refused, A!Aborted}
  <2>1. \/ w \in [status : {"200", "202"}, body : A!GoodBodies(route) \union {A!Null, A!Stall}]
        \/ w \in [status : {"403"}, body : A!RefusalBodies]
        \/ w \in [status : {"413"}, body : {A!Body("run_capacity", ""), A!Null}]
        \/ w \in [status : {"400", "401", "404", "410", "429", "500", "503"}, body : {A!Null}]
      BY <1>2 DEF A!Answers
  <2>2. QED
      BY <1>2, <2>1 DEF A!Refused, A!Aborted, A!Answer, A!Silent
<1>3. QED
    BY <1>1, <1>2

\* A reader takes a body as it is, or not at all.
LEMMA ReadFits ==
    ASSUME NEW b, NEW strict, A!Read(b, strict) # A!Null
    PROVE  A!Read(b, strict) = b /\ A!Fits(b, strict)
BY DEF A!Read, A!Fits

\* The bodies that most values are made of are of the value's own name.
LEMMA MostAreTheirOwn ==
    ASSUME NEW is, is \notin {"clipped", "linked", "reachable", "discovered", "unfetchable", "agrees",
                              "disagrees"}
    PROVE  is \in A!Backing(is)
BY Zenon DEF A!Backing

\* The others, and what else may become of one.
LEMMA OthersAreMadeOf ==
    /\ "found" \in A!Backing("clipped") /\ "found" \in A!Backing("indexed")
    /\ "accepted" \in A!Backing("running") /\ "collecting" \in A!Backing("running")
    /\ "items" \in A!Backing("linked") /\ "not_found" \in A!Backing("unfetchable")
    /\ "ok" \in A!Backing("reachable") /\ "ok" \in A!Backing("discovered")
    /\ "same" \in A!Backing("agrees") /\ "another" \in A!Backing("disagrees")
    /\ "several" \in A!Backing("ambiguous")
BY Zenon DEF A!Backing

\* What a client may make of an answer.
Fair(route, w, r, reasons, shapes) == FailsFairly(route, w, r, reasons) /\ Brings(w, r, shapes)

\* A failure with a reason that the answer stands for is fair.
LEMMA NoIsFair ==
    ASSUME NEW route, NEW w, NEW reasons, NEW shapes, NEW reason \in reasons,
           A!Backs(By(route, w), reason)
    PROVE  Fair(route, w, A!No(reason), reasons, shapes)
BY DEF Fair, FailsFairly, Brings, A!No

\* So is that a gateway was not there, where none was heard.
LEMMA UnreachableIsFair ==
    ASSUME NEW route, NEW w \in A!Answers(route), NEW reasons, NEW shapes,
           "unreachable" \in reasons, A!Silent(w)
    PROVE  Fair(route, w, A!No("unreachable"), reasons, shapes)
<1>1. w.status \in {"refused", "aborted"}
    BY AnswerIsOne
<1>2. A!Backs(By(route, w), "unreachable")
    BY <1>1 DEF A!Backs, By
<1>3. QED
    BY <1>2, NoIsFair

\* So is an error of the gateway's, where the answer is no refusal of the token.
LEMMA ServerErrorIsFair ==
    ASSUME NEW route, NEW w \in A!Answers(route), NEW reasons, NEW shapes,
           "server_error" \in reasons, ~A!Silent(w),
           w.status = "401" => route \in A!Open, w.status = "403" => route \in A!Unscoped
    PROVE  Fair(route, w, A!No("server_error"), reasons, shapes)
<1>1. w.status \notin {"refused", "aborted"}
    BY AnswerIsOne
<1>2. A!Backs(By(route, w), "server_error")
    BY <1>1 DEF A!Backs, By
<1>3. QED
    BY <1>2, NoIsFair

\* What was read of a good answer is its value, and what cannot be read the gateway's
\* error.
LEMMA ParsedIsFair ==
    ASSUME NEW route, NEW w, NEW reasons, NEW shapes, NEW value,
           NEW failure \in reasons \intersect {"server_error", "malformed"}, A!ResOk(w),
           value # A!Null => w.body.is \in A!Backing(value.is) /\ A!Fits(value, shapes)
    PROVE  Fair(route, w, A!Parsed(value, failure), reasons, shapes)
<1>1. CASE value = A!Null
  <2>1. A!Backs(By(route, w), failure)
      BY DEF A!Backs, By, A!ResOk
  <2>2. QED
      BY <1>1, <2>1, NoIsFair DEF A!Parsed
<1>2. CASE value # A!Null
    BY <1>2 DEF A!Parsed, A!Ok, Fair, FailsFairly, Brings
<1>3. QED
    BY <1>1, <1>2

\* The account of a missing scope is whole, or there is none.
LEMMA ScopeRefusalIsFair ==
    ASSUME NEW route, NEW w \in A!Answers(route), NEW reasons, NEW shapes,
           "insufficient_scope" \in reasons, w.status = "403"
    PROVE  Fair(route, w, A!scopeRefusal(w), reasons, shapes)
<1>1. w = A!Answer("403", w.body) /\ w.body \in A!RefusalBodies
    BY AnswerIsOne
<1>2. A!Backs(By(route, w), "insufficient_scope")
    BY DEF A!Backs, By
<1> DEFINE gap == A!parseScopeGap(A!readJson(w.body))
<1>3. ASSUME gap # A!Null
      PROVE  w.body = A!Body("scopes", "") /\ A!isScopeGap(gap)
  <2> DEFINE members == [scopes |-> {"required", "granted"}]
             b == A!readJson(w.body)
  <2>1. A!Fits(b, members) /\ gap = b
      BY <1>3, ReadFits DEF A!parseScopeGap
  <2>2. b.is = "scopes" /\ b.odd \notin {"required", "granted"}
      BY <2>1 DEF A!Fits
  <2>3. b = w.body
      BY <2>2 DEF A!readJson, A!Null, A!Body
  <2>4. w.body.is = "scopes" /\ w.body.odd \notin {"required", "granted"}
      BY <2>2, <2>3
  <2>5. w.body \in {A!Body("scopes", ""), A!Body("scopes", "required"), A!Body("scopes", "granted"),
                    A!Null, A!Stall}
      BY <1>1 DEF A!RefusalBodies
  <2>6. /\ A!Body("scopes", "required").odd = "required"
        /\ A!Body("scopes", "granted").odd = "granted"
        /\ A!Null.is = "null" /\ A!Stall.is = "stall"
      BY DEF A!Body, A!Null, A!Stall
  <2>7. QED
      BY <2>1, <2>4, <2>5, <2>6 DEF A!isScopeGap
<1>4. /\ A!scopeRefusal(w).ok = FALSE
      /\ A!scopeRefusal(w).reason = "insufficient_scope"
      /\ A!scopeRefusal(w).value = A!Null
      /\ A!scopeRefusal(w).gap = gap
    BY Zenon DEF A!scopeRefusal, A!No
<1> HIDE DEF gap
<1>5. QED
    BY <1>1, <1>2, <1>3, <1>4 DEF Fair, FailsFairly, Brings

\* What most clients make of the answers that are not good.
LEMMA ScopedFailureIsFair ==
    ASSUME NEW route, NEW w \in A!Answers(route), NEW reasons, NEW shapes,
           {"unauthorized", "insufficient_scope", "unsupported", "server_error"} \subseteq reasons,
           ~A!Silent(w), route \notin A!Open
    PROVE  Fair(route, w, A!scopedRouteFailure(w), reasons, shapes)
<1>1. w.status = "401" => Fair(route, w, A!No("unauthorized"), reasons, shapes)
    BY NoIsFair DEF A!Backs, By
<1>2. w.status = "403" => Fair(route, w, A!scopeRefusal(w), reasons, shapes)
    BY ScopeRefusalIsFair
<1>3. w.status = "404" => Fair(route, w, A!No("unsupported"), reasons, shapes)
    BY NoIsFair DEF A!Backs, By
<1>4. w.status # "401" /\ w.status # "403" => Fair(route, w, A!No("server_error"), reasons, shapes)
    BY ServerErrorIsFair
<1>5. QED
    BY Zenon, <1>1, <1>2, <1>3, <1>4 DEF A!scopedRouteFailure

\* What drops the odd member keeps the body's name, and leaves none it would drop.
LEMMA DroppedIs ==
    ASSUME NEW b, NEW lax
    PROVE  /\ A!Dropped(b, lax).is = b.is
           /\ \/ A!Dropped(b, lax).odd = ""
              \/ A!Dropped(b, lax).odd = b.odd /\ b.odd \notin lax
BY DEF A!Dropped, A!Body

\* A body that was waited for to no end is none.
LEMMA ReadJsonIs ==
    ASSUME NEW b, A!readJson(b).is # "null"
    PROVE  A!readJson(b) = b
BY DEF A!readJson, A!Null, A!Body

\* What is read when the odd member is dropped first, and of what.
LEMMA DroppedRead ==
    ASSUME NEW b, NEW lax, NEW strict, A!Read(A!Dropped(b, lax), strict) # A!Null
    PROVE  /\ A!Read(A!Dropped(b, lax), strict).is = b.is
           /\ b.is \in DOMAIN strict
           /\ A!Read(A!Dropped(b, lax), strict).odd \notin strict[b.is]
           /\ \/ A!Read(A!Dropped(b, lax), strict).odd = ""
              \/ A!Read(A!Dropped(b, lax), strict).odd \notin lax
<1> DEFINE d == A!Dropped(b, lax)
<1>1. A!Read(d, strict) = d /\ A!Fits(d, strict)
    BY ReadFits
<1>2. d.is = b.is /\ (d.odd = "" \/ (d.odd = b.odd /\ b.odd \notin lax))
    BY DroppedIs
<1>3. QED
    BY <1>1, <1>2 DEF A!Fits

\* A body whose name is not of the few is of its own name's.
Few == {"clipped", "linked", "reachable", "discovered", "unfetchable", "agrees", "disagrees"}

\* What such a body is made of.
LEMMA FitsIsItsOwn ==
    ASSUME NEW b, NEW shapes, A!Fits(b, shapes), Few \intersect DOMAIN shapes = {}
    PROVE  b.is \in A!Backing(b.is)
<1>1. b.is \notin Few
    BY DEF A!Fits
<1>2. QED
    BY <1>1, MostAreTheirOwn DEF Few
(* What each client makes of its answers.                                  *)

\* A body of one of a few shapes, read as it is.
LEMMA ReadIsOwn ==
    ASSUME NEW b, NEW shapes, A!Read(b, shapes) # A!Null, Few \intersect DOMAIN shapes = {}
    PROVE  b.is \in A!Backing(A!Read(b, shapes).is) /\ A!Fits(A!Read(b, shapes), shapes)
BY ReadFits, FitsIsItsOwn

PairReasons == {"unreachable", "server_error", "pairing_failed"}
PairShapes == [paired |-> {"token", "label"}]

\* A token, or why there is none.
LEMMA ConfirmPairIsFair ==
    ASSUME NEW w \in A!Answers("pairConfirm")
    PROVE  Fair("pairConfirm", w, A!confirmPair(w), PairReasons, PairShapes)
<1> DEFINE F(r) == Fair("pairConfirm", w, r, PairReasons, PairShapes)
<1>1. A!Silent(w) => F(A!No("unreachable"))
    BY UnreachableIsFair DEF PairReasons
<1>2. w.status = "200" => F(A!Parsed(A!Read(w.body, [paired |-> {"token", "label"}]), "server_error"))
  <2>1. ASSUME A!Read(w.body, [paired |-> {"token", "label"}]) # A!Null
        PROVE  /\ w.body.is \in A!Backing(A!Read(w.body, [paired |-> {"token", "label"}]).is)
               /\ A!Fits(A!Read(w.body, [paired |-> {"token", "label"}]), PairShapes)
      BY <2>1, ReadIsOwn DEF PairShapes, Few
  <2>2. QED
      BY <2>1, ParsedIsFair DEF PairReasons, A!ResOk
<1>3. w.status = "403" => F(A!No("pairing_failed"))
    BY NoIsFair DEF A!Backs, By, PairReasons
<1>4. ~A!Silent(w) /\ w.status # "200" /\ w.status # "403" => F(A!No("server_error"))
    BY ServerErrorIsFair DEF PairReasons, A!Open, A!Unscoped
<1>5. QED
    BY Zenon, <1>1, <1>2, <1>3, <1>4 DEF A!confirmPair

ClipReasons == {"unreachable", "server_error", "unauthorized", "invalid_request", "payload_too_large",
                "rate_limited"}
ClipShapes == [created |-> {}, updated |-> {}]

\* That a clip is saved, or why it is not.
LEMMA PostClipIsFair ==
    ASSUME NEW w \in A!Answers("ingest")
    PROVE  Fair("ingest", w, A!postClip(w), ClipReasons, ClipShapes)
<1> DEFINE F(r) == Fair("ingest", w, r, ClipReasons, ClipShapes)
<1>1. A!Silent(w) => F(A!No("unreachable"))
    BY UnreachableIsFair DEF ClipReasons
<1>2. w.status = "200" => F(A!Parsed(A!Read(w.body, [created |-> {}, updated |-> {}]), "server_error"))
  <2>1. ASSUME A!Read(w.body, [created |-> {}, updated |-> {}]) # A!Null
        PROVE  /\ w.body.is \in A!Backing(A!Read(w.body, [created |-> {}, updated |-> {}]).is)
               /\ A!Fits(A!Read(w.body, [created |-> {}, updated |-> {}]), ClipShapes)
      BY <2>1, ReadIsOwn DEF ClipShapes, Few
  <2>2. QED
      BY <2>1, ParsedIsFair DEF ClipReasons, A!ResOk
<1>3. w.status = "401" => F(A!No("unauthorized"))
    BY NoIsFair DEF A!Backs, By, ClipReasons, A!Open
<1>4. w.status = "400" => F(A!No("invalid_request"))
    BY NoIsFair DEF A!Backs, By, ClipReasons
<1>5. w.status = "413" => F(A!No("payload_too_large"))
    BY NoIsFair DEF A!Backs, By, ClipReasons
<1>6. w.status = "429" => F(A!No("rate_limited"))
    BY NoIsFair DEF A!Backs, By, ClipReasons
<1>7. ~A!Silent(w) /\ w.status # "200" /\ w.status # "401" /\ w.status # "400" /\ w.status # "413"
      /\ w.status # "429" => F(A!No("server_error"))
    BY ServerErrorIsFair DEF ClipReasons, A!Open, A!Unscoped
<1>8. QED
    BY Zenon, <1>1, <1>2, <1>3, <1>4, <1>5, <1>6, <1>7 DEF A!postClip
RelatedReasons == {"unreachable", "unauthorized", "server_error"}
RelatedShapes == [items |-> {"items", "id", "type", "modified_at"}]

\* Hits, of documented types and dates.
LEMMA RelatedFits ==
    ASSUME NEW b, A!parseRelated(b) # A!Null
    PROVE  b.is \in A!Backing(A!parseRelated(b).is) /\ A!Fits(A!parseRelated(b), RelatedShapes)
<1> DEFINE r == A!parseRelated(b)
           lax == {"type", "modified_at"}
           strict == [items |-> {"items", "id"}]
<1>1. A!parseRelatedHit.lax = lax /\ [items |-> {"items"} \union A!parseRelatedHit.strict] = strict
    BY DEF A!parseRelatedHit
<1>2. r = A!Read(A!Dropped(b, lax), strict)
    BY Zenon, <1>1 DEF A!parseRelated
<1> r # A!Null
    OBVIOUS
<1> HIDE DEF r, lax, strict
<1>3. /\ r.is = b.is /\ b.is \in DOMAIN strict /\ r.odd \notin strict[b.is]
      /\ r.odd = "" \/ r.odd \notin lax
    BY <1>2, DroppedRead
<1>4. r.is = "items" /\ r.odd \notin {"items", "id"}
  <2>1. b.is = "items"
      BY <1>3 DEF strict
  <2>2. r.odd \notin strict["items"]
      BY <1>3, <2>1
  <2>3. QED
      BY <1>3, <2>1, <2>2 DEF strict
<1>5. r.odd \notin {"items", "id", "type", "modified_at"}
    BY <1>3, <1>4 DEF lax
<1>6. A!Fits(r, RelatedShapes)
    BY <1>4, <1>5 DEF A!Fits, RelatedShapes
<1>7. QED
    BY <1>3, <1>6, FitsIsItsOwn DEF r, Few, RelatedShapes

\* Hits, or why there are none.
LEMMA PostRelatedIsFair ==
    ASSUME NEW w \in A!Answers("related")
    PROVE  Fair("related", w, A!postRelated(w), RelatedReasons, RelatedShapes)
<1> DEFINE F(r) == Fair("related", w, r, RelatedReasons, RelatedShapes)
<1>1. A!Silent(w) => F(A!No("unreachable"))
    BY UnreachableIsFair DEF RelatedReasons
<1>2. w.status = "200" => F(A!Parsed(A!parseRelated(w.body), "server_error"))
  <2>1. ASSUME A!parseRelated(w.body) # A!Null
        PROVE  /\ w.body.is \in A!Backing(A!parseRelated(w.body).is)
               /\ A!Fits(A!parseRelated(w.body), RelatedShapes)
      BY <2>1, RelatedFits
  <2>2. QED
      BY <2>1, ParsedIsFair DEF RelatedReasons, A!ResOk
<1>3. w.status = "401" => F(A!No("unauthorized"))
    BY NoIsFair DEF A!Backs, By, RelatedReasons, A!Open
<1>4. ~A!Silent(w) /\ w.status # "200" /\ w.status # "401" => F(A!No("server_error"))
    BY ServerErrorIsFair DEF RelatedReasons, A!Open, A!Unscoped
<1>5. QED
    BY Zenon, <1>1, <1>2, <1>3, <1>4 DEF A!postRelated

\* What a client of a scoped route may fail for.
ScopedReasons ==
    {"unreachable", "unauthorized", "insufficient_scope", "unsupported", "server_error"}
ResolveShapes ==
    [found |-> A!CandidateMembers \union {"modified_at", "matchKind"}, not_indexed |-> {"fetchable"},
     unresolvable_url |-> {"fetchable"},
     ambiguous |-> A!CandidateMembers \union {"fetchable", "truncated"}]

\* An item, candidates or a miss, whole.
LEMMA ResolveBodyFits ==
    ASSUME NEW b, A!parseResolveBody(b) # A!Null
    PROVE  b.is \in A!Backing(A!parseResolveBody(b).is) /\ A!Fits(A!parseResolveBody(b), ResolveShapes)
<1>1. A!parseResolveBody(b) = A!Read(b, ResolveShapes)
    BY Zenon DEF A!parseResolveBody, A!parseItem, A!parseCandidate, ResolveShapes, A!CandidateMembers
<1>2. QED
    BY <1>1, ReadIsOwn DEF ResolveShapes, Few

\* What the gateway has of a page, or why it does not say.
LEMMA ResolveItemIsFair ==
    ASSUME NEW w \in A!Answers("resolve")
    PROVE  Fair("resolve", w, A!resolveItem(w), ScopedReasons, ResolveShapes)
<1> DEFINE F(r) == Fair("resolve", w, r, ScopedReasons, ResolveShapes)
<1>1. A!Silent(w) => F(A!No("unreachable"))
    BY UnreachableIsFair DEF ScopedReasons
<1>2. w.status = "200" => F(A!Parsed(A!parseResolveBody(w.body), "server_error"))
  <2>1. ASSUME A!parseResolveBody(w.body) # A!Null
        PROVE  /\ w.body.is \in A!Backing(A!parseResolveBody(w.body).is)
               /\ A!Fits(A!parseResolveBody(w.body), ResolveShapes)
      BY <2>1, ResolveBodyFits
  <2>2. QED
      BY <2>1, ParsedIsFair DEF ScopedReasons, A!ResOk
<1>3. ~A!Silent(w) /\ w.status # "200" => F(A!scopedRouteFailure(w))
    BY ScopedFailureIsFair DEF ScopedReasons, A!Open
<1>4. QED
    BY Zenon, <1>1, <1>2, <1>3 DEF A!resolveItem

FileShapes == [found |-> {"path"}, miss |-> {"reason", "repo"}, unsupported |-> {}]
FileIsFair(w, r) ==
    FailsFairly("resolveFile", w, r, ScopedReasons) /\ (r.ok => A!Fits(r.value, FileShapes))

\* A file's outcome is one its pages know, and its failures are fair.
LEMMA ResolveFileIsFair ==
    ASSUME NEW w \in A!Answers("resolveFile")
    PROVE  /\ FailsFairly("resolveFile", w, A!resolveFile(w), ScopedReasons)
           /\ A!resolveFile(w).ok => A!Fits(A!resolveFile(w).value, FileShapes)
<1> SUFFICES FileIsFair(w, A!resolveFile(w))
    BY DEF FileIsFair
<1>1. ASSUME NEW r, Fair("resolveFile", w, r, ScopedReasons, FileShapes)
      PROVE  FileIsFair(w, r)
    BY <1>1 DEF Fair, Brings, FileIsFair
<1>2. A!Silent(w) => FileIsFair(w, A!No("unreachable"))
    BY <1>1, UnreachableIsFair DEF ScopedReasons
<1>3. w.status = "200" => FileIsFair(w, A!Parsed(A!parseFileResolution(w.body), "server_error"))
  <2>1. ASSUME A!parseFileResolution(w.body) # A!Null
        PROVE  /\ w.body.is \in A!Backing(A!parseFileResolution(w.body).is)
               /\ A!Fits(A!parseFileResolution(w.body), [found |-> {"path"}, miss |-> {"reason", "repo"}])
      BY <2>1, ReadIsOwn DEF A!parseFileResolution, Few
  <2>2. ASSUME NEW b, A!Fits(b, [found |-> {"path"}, miss |-> {"reason", "repo"}])
        PROVE  A!Fits(b, FileShapes)
      BY <2>2 DEF A!Fits, FileShapes
  <2>3. QED
      BY <1>1, <2>1, <2>2, ParsedIsFair DEF ScopedReasons, A!ResOk
<1>4. FileIsFair(w, A!Ok(A!Body("unsupported", "")))
    BY DEF FileIsFair, FailsFairly, A!Ok, A!Fits, A!Body, FileShapes
<1>5. ~A!Silent(w) /\ w.status # "200" => FileIsFair(w, A!scopedRouteFailure(w))
    BY <1>1, ScopedFailureIsFair DEF ScopedReasons, A!Open
<1>6. QED
    BY Zenon, <1>2, <1>3, <1>4, <1>5 DEF A!resolveFile

FetchReasons == ScopedReasons \union {"timeout"}
FetchShapes ==
    [indexed |-> {"itemId"}, unfetchable |-> {}, not_configured |-> {}, rate_limited |-> {}]

\* An outcome of a fetch as the panel knows it.
LEMMA FetchBodyFits ==
    ASSUME NEW b, A!parseFetchBody(b) # A!Null
    PROVE  b.is \in A!Backing(A!parseFetchBody(b).is) /\ A!Fits(A!parseFetchBody(b), FetchShapes)
<1> DEFINE read == [indexed |-> {"itemId"}, not_found |-> {}, not_configured |-> {}, rate_limited |-> {}]
           r == A!Read(b, read)
<1>1. A!parseFetchBody(b) = IF r.is = "not_found" THEN A!Body("unfetchable", "") ELSE r
    BY DEF A!parseFetchBody
<1>2. r # A!Null
  <2>1. A!Null.is = "null"
      BY DEF A!Null, A!Body
  <2>2. QED
      BY <1>1, <2>1
<1>3. r = b /\ b.is \in DOMAIN read /\ b.odd \notin read[b.is]
    BY <1>2, ReadFits DEF A!Fits
<1>4. CASE r.is = "not_found"
  <2>1. A!Body("unfetchable", "").is = "unfetchable" /\ A!Body("unfetchable", "").odd = ""
      BY DEF A!Body
  <2>2. A!parseFetchBody(b).is = "unfetchable" /\ A!parseFetchBody(b).odd = ""
      BY <1>1, <1>4, <2>1
  <2>3. ASSUME NEW v, v.is = "unfetchable"
        PROVE  A!Fits(v, FetchShapes)
      BY <2>3 DEF A!Fits, FetchShapes
  <2>4. QED
      BY <2>2, <2>3, <1>3, <1>4, OthersAreMadeOf
<1>5. CASE r.is # "not_found"
  <2>1. A!parseFetchBody(b) = b
      BY <1>1, <1>3, <1>5
  <2>2. A!Fits(b, FetchShapes)
      BY <1>3, <1>5 DEF A!Fits, FetchShapes
  <2>3. b.is \in {"indexed", "not_configured", "rate_limited"}
      BY <1>3, <1>5
  <2>4. QED
      BY <2>1, <2>2, <2>3, MostAreTheirOwn
<1>6. QED
    BY <1>4, <1>5

\* A fetch's outcome, or why there is none.
LEMMA FetchItemIsFair ==
    ASSUME NEW w \in A!Answers("itemsFetch")
    PROVE  Fair("itemsFetch", w, A!fetchItem(w), FetchReasons, FetchShapes)
<1> DEFINE F(r) == Fair("itemsFetch", w, r, FetchReasons, FetchShapes)
<1>1. w = A!Aborted => F(A!No("timeout"))
    BY NoIsFair DEF A!Backs, By, FetchReasons, A!Aborted, A!Answer
<1>2. w = A!Refused => F(A!No("unreachable"))
    BY UnreachableIsFair DEF A!Silent, FetchReasons, ScopedReasons
<1>3. w.status = "200" => F(A!Parsed(A!parseFetchBody(w.body), "server_error"))
  <2>1. ASSUME A!parseFetchBody(w.body) # A!Null
        PROVE  /\ w.body.is \in A!Backing(A!parseFetchBody(w.body).is)
               /\ A!Fits(A!parseFetchBody(w.body), FetchShapes)
      BY <2>1, FetchBodyFits
  <2>2. QED
      BY <2>1, ParsedIsFair DEF FetchReasons, ScopedReasons, A!ResOk
<1>4. w # A!Aborted /\ w # A!Refused /\ w.status # "200" => F(A!scopedRouteFailure(w))
    BY ScopedFailureIsFair DEF FetchReasons, ScopedReasons, A!Open, A!Silent
<1>5. QED
    BY Zenon, <1>1, <1>2, <1>3, <1>4 DEF A!fetchItem

\* The same where the odd member is dropped first.
LEMMA DroppedIsOwn ==
    ASSUME NEW b, NEW lax, NEW shapes, A!Read(A!Dropped(b, lax), shapes) # A!Null,
           Few \intersect DOMAIN shapes = {}
    PROVE  /\ b.is \in A!Backing(A!Read(A!Dropped(b, lax), shapes).is)
           /\ A!Fits(A!Read(A!Dropped(b, lax), shapes), shapes)
<1>1. A!Fits(A!Read(A!Dropped(b, lax), shapes), shapes)
    BY ReadFits
<1>2. A!Read(A!Dropped(b, lax), shapes).is = b.is
    BY DroppedRead
<1>3. QED
    BY <1>1, <1>2, FitsIsItsOwn

\* A run is accepted, or there is no slot, or the failure is fair.
AcceptedShapes == [accepted |-> {"runId"}]
InvokeIsFair(w, r) ==
    \/ Fair("agents", w, r, ScopedReasons, AcceptedShapes)
    \/ w.status = "429" /\ r = A!No("busy")

\* What becomes of a request for a run.
LEMMA InvokeAgentIsFair ==
    ASSUME NEW w \in A!Answers("agents")
    PROVE  InvokeIsFair(w, A!invokeAgent(w))
<1> DEFINE body == A!Read(w.body, [accepted |-> {"runId"}])
<1>1. A!Silent(w) => InvokeIsFair(w, A!No("unreachable"))
    BY UnreachableIsFair DEF InvokeIsFair, ScopedReasons
<1>2. w.status = "202" => InvokeIsFair(w, A!Parsed(body, "server_error"))
  <2>1. ASSUME body # A!Null
        PROVE  /\ w.body.is \in A!Backing(body.is)
               /\ A!Fits(body, AcceptedShapes)
      BY <2>1, ReadIsOwn DEF AcceptedShapes, Few
  <2>2. QED
      BY <2>1, ParsedIsFair DEF InvokeIsFair, ScopedReasons, A!ResOk
<1>3. w.status = "429" => InvokeIsFair(w, A!No("busy"))
    BY DEF InvokeIsFair
<1>4. ~A!Silent(w) => InvokeIsFair(w, A!scopedRouteFailure(w))
    BY ScopedFailureIsFair DEF InvokeIsFair, ScopedReasons, A!Open
<1>5. QED
    BY Zenon, <1>1, <1>2, <1>3, <1>4 DEF A!invokeAgent

RunReasons == ScopedReasons \union {"stale"}
RunShapes == [running |-> {}, done |-> {"brief"}, failed |-> {"failureReason"}]

\* What a run has come to.
LEMMA AgentRunBodyFits ==
    ASSUME NEW b, A!parseAgentRunBody(b) # A!Null
    PROVE  b.is \in A!Backing(A!parseAgentRunBody(b).is) /\ A!Fits(A!parseAgentRunBody(b), RunShapes)
<1>1. A!parseAgentRunBody(b) = A!Read(b, RunShapes)
    BY Zenon DEF A!parseAgentRunBody, RunShapes
<1>2. QED
    BY <1>1, ReadIsOwn DEF RunShapes, Few

\* What a run has come to, or why the gateway does not say.
LEMMA GetAgentRunIsFair ==
    ASSUME NEW w \in A!Answers("agentRuns")
    PROVE  Fair("agentRuns", w, A!getAgentRun(w), RunReasons, RunShapes)
<1> DEFINE F(r) == Fair("agentRuns", w, r, RunReasons, RunShapes)
<1>1. A!Silent(w) => F(A!No("unreachable"))
    BY UnreachableIsFair DEF RunReasons, ScopedReasons
<1>2. w.status = "200" => F(A!Parsed(A!parseAgentRunBody(w.body), "server_error"))
  <2>1. ASSUME A!parseAgentRunBody(w.body) # A!Null
        PROVE  /\ w.body.is \in A!Backing(A!parseAgentRunBody(w.body).is)
               /\ A!Fits(A!parseAgentRunBody(w.body), RunShapes)
      BY <2>1, AgentRunBodyFits
  <2>2. QED
      BY <2>1, ParsedIsFair DEF RunReasons, ScopedReasons, A!ResOk
<1>3. w.status \in {"404", "410"} => F(A!No("stale"))
    BY NoIsFair DEF A!Backs, By, RunReasons
<1>4. ~A!Silent(w) /\ w.status # "200" => F(A!scopedRouteFailure(w))
    BY ScopedFailureIsFair DEF RunReasons, ScopedReasons, A!Open
<1>5. QED
    BY Zenon, <1>1, <1>2, <1>3, <1>4 DEF A!getAgentRun

\* Links come of a good answer.
LEMMA ResolveItemIdsIsFair ==
    ASSUME NEW w, A!resolveItemIds(w).ok
    PROVE  A!ResOk(w) /\ w.body.is = "items"
<1> DEFINE lax == {"foreign"}
           strict == [items |-> {"items", "row"}]
           items == A!Read(A!Dropped(w.body, lax), strict)
<1>1. A!No("unsupported").ok = FALSE /\ A!No("forbidden").ok = FALSE /\ A!No("failed").ok = FALSE
    BY DEF A!No
<1>2. w.status = "200" /\ A!Parsed(A!parseResolveIdsBody(w.body), "failed").ok
    BY Zenon, <1>1 DEF A!resolveItemIds
<1>3. items # A!Null
    BY <1>1, <1>2 DEF A!Parsed, A!parseResolveIdsBody
<1> HIDE DEF lax, strict
<1>4. w.body.is \in DOMAIN strict
    BY <1>3, DroppedRead
<1>5. QED
    BY <1>2, <1>4 DEF A!ResOk, strict

\* A scoped read within its timer.
ReadReasons == ScopedReasons \union {"rate_limited"}

\* What such a read makes of an answer.
LEMMA ScopedGetIsFair ==
    ASSUME NEW route, NEW w \in A!Answers(route), NEW value, NEW shapes, route \notin A!Open,
           value # A!Null => w.body.is \in A!Backing(value.is) /\ A!Fits(value, shapes)
    PROVE  Fair(route, w, A!scopedGet(w, value), ReadReasons, shapes)
<1> DEFINE F(r) == Fair(route, w, r, ReadReasons, shapes)
<1>1. A!Silent(w) => F(A!No("unreachable"))
    BY UnreachableIsFair DEF ReadReasons, ScopedReasons
<1>2. w.status = "200" => F(A!Parsed(value, "server_error"))
    BY ParsedIsFair DEF ReadReasons, ScopedReasons, A!ResOk
<1>3. w.status = "429" => F(A!No("rate_limited"))
    BY NoIsFair DEF A!Backs, By, ReadReasons
<1>4. ~A!Silent(w) /\ w.status # "200" => F(A!scopedRouteFailure(w))
    BY ScopedFailureIsFair DEF ReadReasons, ScopedReasons
<1>5. QED
    BY Zenon, <1>1, <1>2, <1>3, <1>4 DEF A!scopedGet

WindowShapes == [rows |-> {"rows", "rowsTotal", "rowsTruncated"} \union A!isEgressRow]
VerdictShapes == [intact |-> {"ok"}, broken |-> {"ok"}]
ProofShapes == [proof |-> {"digest", "sigB64", "rowsTotal"}]
ServiceShapes ==
    [same |-> A!Resolved.service, another |-> A!Resolved.service, several |-> A!Resolved.service,
     unclaimed |-> {"candidates", "ambiguous"}]

\* A window of the log.
LEMMA WindowFits ==
    ASSUME NEW b, A!parseEgressWindow(b) # A!Null
    PROVE  b.is \in A!Backing(A!parseEgressWindow(b).is) /\ A!Fits(A!parseEgressWindow(b), WindowShapes)
<1>1. A!parseEgressWindow(b) = A!Read(b, WindowShapes)
    BY Zenon DEF A!parseEgressWindow, WindowShapes
<1>2. QED
    BY <1>1, ReadIsOwn DEF WindowShapes, Few

\* A verdict on the log.
LEMMA VerdictFits ==
    ASSUME NEW b, A!parseVerdict(b) # A!Null
    PROVE  b.is \in A!Backing(A!parseVerdict(b).is) /\ A!Fits(A!parseVerdict(b), VerdictShapes)
<1>1. A!parseVerdict(b) = A!Read(A!Dropped(b, {"brokenAt", "verifiedRows", "reason"}), VerdictShapes)
    BY Zenon DEF A!parseVerdict, VerdictShapes
<1>2. QED
    BY <1>1, DroppedIsOwn DEF VerdictShapes, Few

\* A proof of a window.
LEMMA ProofFits ==
    ASSUME NEW b, A!parseProof(b) # A!Null
    PROVE  b.is \in A!Backing(A!parseProof(b).is) /\ A!Fits(A!parseProof(b), ProofShapes)
<1>1. A!parseProof(b) = A!Read(A!Dropped(b, {"completeness"}), ProofShapes)
    BY Zenon DEF A!parseProof, ProofShapes
<1>2. QED
    BY <1>1, DroppedIsOwn DEF ProofShapes, Few

\* What a repository resolves to.
LEMMA ServiceFits ==
    ASSUME NEW b, A!parseServiceResolution(b) # A!Null
    PROVE  b.is \in A!Backing(A!parseServiceResolution(b).is) /\ A!Fits(A!parseServiceResolution(b), ServiceShapes)
<1>1. A!parseServiceResolution(b) = A!Read(b, ServiceShapes)
    BY Zenon DEF A!parseServiceResolution, ServiceShapes
<1>2. QED
    BY <1>1, ReadIsOwn DEF ServiceShapes, Few

\* What is read of a body that may never end is read of that body.
LEMMA ReadJsonBacks ==
    ASSUME NEW b, NEW value, NEW shapes, A!readJson(b).is \in A!Backing(value.is),
           A!Fits(value, shapes), "null" \notin A!Backing(value.is)
    PROVE  b.is \in A!Backing(value.is) /\ A!Fits(value, shapes)
BY ReadJsonIs

\* Nothing is made of a null, but a null.
LEMMA NullMakesNull ==
    ASSUME NEW is, "null" \in A!Backing(is)
    PROVE  is = "null"
BY Zenon DEF A!Backing

\* A window of the log, or why there is none.
LEMMA ListEgressIsFair ==
    ASSUME NEW w \in A!Answers("egress")
    PROVE  Fair("egress", w, A!listEgress(w), ReadReasons, WindowShapes)
<1> DEFINE value == A!parseEgressWindow(A!readJson(w.body))
<1>1. ASSUME value # A!Null
      PROVE  /\ w.body.is \in A!Backing(value.is)
             /\ A!Fits(value, WindowShapes)
  <2>1. A!readJson(w.body).is \in A!Backing(value.is) /\ A!Fits(value, WindowShapes)
      BY <1>1, WindowFits
  <2>2. value.is # "null"
      BY <2>1 DEF A!Fits, WindowShapes
  <2>3. QED
      BY <2>1, <2>2, ReadJsonBacks, NullMakesNull
<1>2. QED
    BY <1>1, ScopedGetIsFair DEF A!listEgress, A!Open

\* A verdict, or why there is none.
LEMMA VerifyEgressIsFair ==
    ASSUME NEW w \in A!Answers("egressVerify")
    PROVE  Fair("egressVerify", w, A!verifyEgress(w), ReadReasons, VerdictShapes)
<1> DEFINE value == A!parseVerdict(A!readJson(w.body))
<1>1. ASSUME value # A!Null
      PROVE  /\ w.body.is \in A!Backing(value.is)
             /\ A!Fits(value, VerdictShapes)
  <2>1. A!readJson(w.body).is \in A!Backing(value.is) /\ A!Fits(value, VerdictShapes)
      BY <1>1, VerdictFits
  <2>2. value.is # "null"
      BY <2>1 DEF A!Fits, VerdictShapes
  <2>3. QED
      BY <2>1, <2>2, ReadJsonBacks, NullMakesNull
<1>2. QED
    BY <1>1, ScopedGetIsFair DEF A!verifyEgress, A!Open

\* A proof, or why there is none.
LEMMA ProveEgressWindowIsFair ==
    ASSUME NEW w \in A!Answers("egressProve")
    PROVE  Fair("egressProve", w, A!proveEgressWindow(w), ReadReasons, ProofShapes)
<1> DEFINE value == A!parseProof(A!readJson(w.body))
<1>1. ASSUME value # A!Null
      PROVE  /\ w.body.is \in A!Backing(value.is)
             /\ A!Fits(value, ProofShapes)
  <2>1. A!readJson(w.body).is \in A!Backing(value.is) /\ A!Fits(value, ProofShapes)
      BY <1>1, ProofFits
  <2>2. value.is # "null"
      BY <2>1 DEF A!Fits, ProofShapes
  <2>3. QED
      BY <2>1, <2>2, ReadJsonBacks, NullMakesNull
<1>2. QED
    BY <1>1, ScopedGetIsFair DEF A!proveEgressWindow, A!Open

\* What a repository resolves to, or why it is not known.
LEMMA FetchServiceResolutionIsFair ==
    ASSUME NEW w \in A!Answers("servicesResolve")
    PROVE  Fair("servicesResolve", w, A!fetchServiceResolution(w), ReadReasons, ServiceShapes)
<1> DEFINE value == A!parseServiceResolution(A!readJson(w.body))
<1>1. ASSUME value # A!Null
      PROVE  /\ w.body.is \in A!Backing(value.is)
             /\ A!Fits(value, ServiceShapes)
  <2>1. A!readJson(w.body).is \in A!Backing(value.is) /\ A!Fits(value, ServiceShapes)
      BY <1>1, ServiceFits
  <2>2. value.is # "null"
      BY <2>1 DEF A!Fits, ServiceShapes
  <2>3. QED
      BY <2>1, <2>2, ReadJsonBacks, NullMakesNull
<1>2. QED
    BY <1>1, ScopedGetIsFair DEF A!fetchServiceResolution, A!Open

\* The public reads of a deploy.
JsonReasons == {"unreachable", "server_error", "malformed"}

\* What such a read makes of an answer.
LEMMA GetJsonIsFair ==
    ASSUME NEW route, NEW w \in A!Answers(route), NEW value, NEW shapes,
           route \in {"preflightDeploy", "metricsDora"},
           value # A!Null => w.body.is \in A!Backing(value.is) /\ A!Fits(value, shapes)
    PROVE  Fair(route, w, A!getJson(w, value), JsonReasons, shapes)
<1> DEFINE F(r) == Fair(route, w, r, JsonReasons, shapes)
<1>1. A!Silent(w) => F(A!No("unreachable"))
    BY UnreachableIsFair DEF JsonReasons
<1>2. ~A!Silent(w) => F(A!No("server_error"))
    BY ServerErrorIsFair DEF JsonReasons, A!Open, A!Unscoped
<1>3. A!ResOk(w) => F(A!Parsed(value, "malformed"))
    BY ParsedIsFair DEF JsonReasons
<1>4. QED
    BY Zenon, <1>1, <1>2, <1>3 DEF A!getJson

PreflightShapes ==
    [verdict |-> {"verdict", "service"} \union A!parseCheck.strict, unknown_service |-> {}]
MetricsShapes == [metrics |-> {"service", "computed_at"} \union A!parseMetricValue.strict]
SeriesShapes == [series |-> {"service", "metric", "window", "points"} \union A!parsePoint]

\* A verdict on a deploy.
LEMMA PreflightFits ==
    ASSUME NEW b, A!parseDeployPreflight(b) # A!Null
    PROVE  b.is \in A!Backing(A!parseDeployPreflight(b).is) /\ A!Fits(A!parseDeployPreflight(b), PreflightShapes)
<1>1. A!parseDeployPreflight(b) = A!Read(A!Dropped(b, A!parseCheck.lax), PreflightShapes)
    BY Zenon DEF A!parseDeployPreflight, PreflightShapes
<1>2. QED
    BY <1>1, DroppedIsOwn DEF PreflightShapes, Few

\* A service's metrics.
LEMMA MetricsFits ==
    ASSUME NEW b, A!parseDoraMetrics(b) # A!Null
    PROVE  b.is \in A!Backing(A!parseDoraMetrics(b).is) /\ A!Fits(A!parseDoraMetrics(b), MetricsShapes)
<1>1. A!parseDoraMetrics(b) = A!Read(A!Dropped(b, A!parseMetricValue.lax), MetricsShapes)
    BY Zenon DEF A!parseDoraMetrics, MetricsShapes
<1>2. QED
    BY <1>1, DroppedIsOwn DEF MetricsShapes, Few

\* A metric's series.
LEMMA SeriesFits ==
    ASSUME NEW b, A!parseStatsSeries(b) # A!Null
    PROVE  b.is \in A!Backing(A!parseStatsSeries(b).is) /\ A!Fits(A!parseStatsSeries(b), SeriesShapes)
<1>1. A!parseStatsSeries(b) = A!Read(A!Dropped(b, A!parseMetricValue.lax), SeriesShapes)
    BY Zenon DEF A!parseStatsSeries, SeriesShapes
<1>2. QED
    BY <1>1, DroppedIsOwn DEF SeriesShapes, Few

\* A verdict on a deploy, or why there is none.
LEMMA FetchPreflightIsFair ==
    ASSUME NEW w \in A!Answers("preflightDeploy")
    PROVE  Fair("preflightDeploy", w, A!fetchPreflight(w), JsonReasons, PreflightShapes)
<1> DEFINE value == A!parseDeployPreflight(A!readJson(w.body))
<1>1. ASSUME value # A!Null
      PROVE  /\ w.body.is \in A!Backing(value.is)
             /\ A!Fits(value, PreflightShapes)
  <2>1. A!readJson(w.body).is \in A!Backing(value.is) /\ A!Fits(value, PreflightShapes)
      BY <1>1, PreflightFits
  <2>2. value.is # "null"
      BY <2>1 DEF A!Fits, PreflightShapes
  <2>3. QED
      BY <2>1, <2>2, ReadJsonBacks, NullMakesNull
<1>2. QED
    BY <1>1, GetJsonIsFair DEF A!fetchPreflight

\* Metrics, or why there are none.
LEMMA FetchDoraMetricsIsFair ==
    ASSUME NEW w \in A!Answers("metricsDora")
    PROVE  Fair("metricsDora", w, A!fetchDoraMetrics(w), JsonReasons, MetricsShapes)
<1> DEFINE value == A!parseDoraMetrics(A!readJson(w.body))
<1>1. ASSUME value # A!Null
      PROVE  /\ w.body.is \in A!Backing(value.is)
             /\ A!Fits(value, MetricsShapes)
  <2>1. A!readJson(w.body).is \in A!Backing(value.is) /\ A!Fits(value, MetricsShapes)
      BY <1>1, MetricsFits
  <2>2. value.is # "null"
      BY <2>1 DEF A!Fits, MetricsShapes
  <2>3. QED
      BY <2>1, <2>2, ReadJsonBacks, NullMakesNull
<1>2. QED
    BY <1>1, GetJsonIsFair DEF A!fetchDoraMetrics

StatsReasons == JsonReasons \union {"unsupported", "refused"}

\* A series, or why there is none; of a body without end, that the gateway is away.
LEMMA FetchStatsSeriesIsFair ==
    ASSUME NEW w \in A!Answers("metricsStats")
    PROVE  Fair("metricsStats", w, A!fetchStatsSeries(w), StatsReasons, SeriesShapes)
<1> DEFINE F(r) == Fair("metricsStats", w, r, StatsReasons, SeriesShapes)
<1>1. A!Silent(w) => F(A!No("unreachable"))
    BY UnreachableIsFair DEF StatsReasons, JsonReasons
<1>2. w.status = "404" => F(A!No("unsupported"))
    BY NoIsFair DEF A!Backs, By, StatsReasons
<1>3. w.status = "400" => F(A!No("refused"))
    BY NoIsFair DEF A!Backs, By, StatsReasons
<1>4. ~A!Silent(w) => F(A!No("server_error"))
    BY ServerErrorIsFair DEF StatsReasons, JsonReasons, A!Open, A!Unscoped
<1>5. A!ResOk(w) /\ w.body = A!Stall => F(A!No("unreachable"))
    BY NoIsFair DEF A!Backs, By, StatsReasons, JsonReasons
<1>6. A!ResOk(w) => F(A!Parsed(A!parseStatsSeries(w.body), "malformed"))
  <2>1. ASSUME A!parseStatsSeries(w.body) # A!Null
        PROVE  /\ w.body.is \in A!Backing(A!parseStatsSeries(w.body).is)
               /\ A!Fits(A!parseStatsSeries(w.body), SeriesShapes)
      BY <2>1, SeriesFits
  <2>2. QED
      BY <2>1, ParsedIsFair DEF StatsReasons, JsonReasons
<1>7. QED
    BY Zenon, <1>1, <1>2, <1>3, <1>4, <1>5, <1>6 DEF A!fetchStatsSeries

\* What the routes of a brief may fail for.
BriefReasons ==
    {"unreachable", "insufficient_scope", "not_found", "disabled", "unauthorized", "expired",
     "rate_limited", "busy", "server_error"}
CreatedShapes == [created |-> {"id", "expected"}]
BriefShapes == [collecting |-> {}, running |-> {}, done |-> A!isBriefReport, failed |-> {}]
SavedShapes == [saved |-> {"itemId"}]

\* The failures that they have in common.
LEMMA CommonErrorIsFair ==
    ASSUME NEW route, NEW w \in A!Answers(route), NEW shapes, route \notin A!Open,
           ~A!Silent(w), w.status # "403"
    PROVE  Fair(route, w, A!No(A!commonError(w)), BriefReasons, shapes)
<1> DEFINE F(reason) == Fair(route, w, A!No(reason), BriefReasons, shapes)
<1>1. w.status = "401" => F("unauthorized")
    BY NoIsFair DEF A!Backs, By, BriefReasons
<1>2. w.status = "410" => F("expired")
    BY NoIsFair DEF A!Backs, By, BriefReasons
<1>3. w.status = "429" => F("rate_limited")
    BY NoIsFair DEF A!Backs, By, BriefReasons
<1>4. w.status = "503" => F("busy")
    BY NoIsFair DEF A!Backs, By, BriefReasons
<1>5. w.status # "401" => F("server_error")
    BY ServerErrorIsFair DEF BriefReasons
<1>6. QED
    BY Zenon, <1>1, <1>2, <1>3, <1>4, <1>5 DEF A!commonError

\* Those of all but a brief's creation.
LEMMA RouteErrorIsFair ==
    ASSUME NEW route, NEW w \in A!Answers(route), NEW shapes, route \notin A!Open
    PROVE  Fair(route, w, A!routeError(w), BriefReasons, shapes)
<1> DEFINE F(r) == Fair(route, w, r, BriefReasons, shapes)
<1>1. A!Silent(w) => F(A!No("unreachable"))
    BY UnreachableIsFair DEF BriefReasons
<1>2. w.status = "403" => F(A!No("insufficient_scope"))
    BY NoIsFair DEF A!Backs, By, BriefReasons
<1>3. w.status = "404" => F(A!No("not_found"))
    BY NoIsFair DEF A!Backs, By, BriefReasons
<1>4. ~A!Silent(w) /\ w.status # "403" => F(A!No(A!commonError(w)))
    BY CommonErrorIsFair
<1>5. QED
    BY Zenon, <1>1, <1>2, <1>3, <1>4 DEF A!routeError

\* How a brief stands.
LEMMA BriefBodyFits ==
    ASSUME NEW b, A!parseBriefBody(b) # A!Null
    PROVE  b.is \in A!Backing(A!parseBriefBody(b).is) /\ A!Fits(A!parseBriefBody(b), BriefShapes)
<1>1. A!parseBriefBody(b) = A!Read(A!Dropped(b, {"failureReason"}), BriefShapes)
    BY Zenon DEF A!parseBriefBody, BriefShapes
<1>2. QED
    BY <1>1, DroppedIsOwn DEF BriefShapes, Few

\* A brief, or why there is none.
LEMMA CreateBriefIsFair ==
    ASSUME NEW w \in A!Answers("briefCreate")
    PROVE  Fair("briefCreate", w, A!createBrief(w), BriefReasons, CreatedShapes)
<1> DEFINE F(r) == Fair("briefCreate", w, r, BriefReasons, CreatedShapes)
<1>1. A!Silent(w) => F(A!No("unreachable"))
    BY UnreachableIsFair DEF BriefReasons
<1>2. w.status = "200" => F(A!Parsed(A!Read(w.body, [created |-> {"id", "expected"}]), "server_error"))
  <2>1. ASSUME A!Read(w.body, [created |-> {"id", "expected"}]) # A!Null
        PROVE  /\ w.body.is \in A!Backing(A!Read(w.body, [created |-> {"id", "expected"}]).is)
               /\ A!Fits(A!Read(w.body, [created |-> {"id", "expected"}]), CreatedShapes)
      BY <2>1, ReadIsOwn DEF CreatedShapes, Few
  <2>2. QED
      BY <2>1, ParsedIsFair DEF BriefReasons, A!ResOk
<1>3. w.status = "403" => F(A!scopeRefusal(w))
    BY ScopeRefusalIsFair DEF BriefReasons
<1>4. w.status = "404" => F(A!No("disabled"))
    BY NoIsFair DEF A!Backs, By, BriefReasons
<1>5. ~A!Silent(w) /\ w.status # "403" => F(A!No(A!commonError(w)))
    BY CommonErrorIsFair DEF A!Open
<1>6. QED
    BY Zenon, <1>1, <1>2, <1>3, <1>4, <1>5 DEF A!createBrief

\* How a brief stands, or why it is not known.
LEMMA GetBriefIsFair ==
    ASSUME NEW w \in A!Answers("briefGet")
    PROVE  Fair("briefGet", w, A!getBrief(w), BriefReasons, BriefShapes)
<1> DEFINE F(r) == Fair("briefGet", w, r, BriefReasons, BriefShapes)
<1>1. w.status = "200" => F(A!Parsed(A!parseBriefBody(w.body), "server_error"))
  <2>1. ASSUME A!parseBriefBody(w.body) # A!Null
        PROVE  /\ w.body.is \in A!Backing(A!parseBriefBody(w.body).is)
               /\ A!Fits(A!parseBriefBody(w.body), BriefShapes)
      BY <2>1, BriefBodyFits
  <2>2. QED
      BY <2>1, ParsedIsFair DEF BriefReasons, A!ResOk
<1>2. TRUE => F(A!routeError(w))
    BY RouteErrorIsFair DEF A!Open
<1>3. QED
    BY Zenon, <1>1, <1>2 DEF A!getBrief

\* That a brief is saved, or why it is not.
LEMMA SaveBriefIsFair ==
    ASSUME NEW w \in A!Answers("briefSave")
    PROVE  Fair("briefSave", w, A!saveBrief(w), BriefReasons, SavedShapes)
<1> DEFINE F(r) == Fair("briefSave", w, r, BriefReasons, SavedShapes)
<1>1. w.status = "200" => F(A!Parsed(A!Read(w.body, [saved |-> {"itemId"}]), "server_error"))
  <2>1. ASSUME A!Read(w.body, [saved |-> {"itemId"}]) # A!Null
        PROVE  /\ w.body.is \in A!Backing(A!Read(w.body, [saved |-> {"itemId"}]).is)
               /\ A!Fits(A!Read(w.body, [saved |-> {"itemId"}]), SavedShapes)
      BY <2>1, ReadIsOwn DEF SavedShapes, Few
  <2>2. QED
      BY <2>1, ParsedIsFair DEF BriefReasons, A!ResOk
<1>2. TRUE => F(A!routeError(w))
    BY RouteErrorIsFair DEF A!Open
<1>3. QED
    BY Zenon, <1>1, <1>2 DEF A!saveBrief

\* That a brief is started is nothing but its status; a failure is fair.
LEMMA RunBriefIsFair ==
    ASSUME NEW w \in A!Answers("briefRun"), ~A!runBrief(w).ok
    PROVE  FailsFairly("briefRun", w, A!runBrief(w), BriefReasons)
<1>1. Fair("briefRun", w, A!routeError(w), BriefReasons, BriefShapes)
    BY RouteErrorIsFair DEF A!Open
<1>2. A!runBrief(w) = A!routeError(w)
    BY DEF A!runBrief, A!Ok
<1>3. QED
    BY <1>1, <1>2 DEF Fair

\* The types of a request's variables.
AnswersType ==
    /\ ask = [kind |-> ask.kind, about |-> ask.about]
    /\ ask.kind \in A!Kinds /\ ask.about \in A!Abouts(ask.kind)
    /\ paired \in BOOLEAN
    /\ heard = [route \in A!Routes |-> heard[route]]
    /\ \A route \in A!Routes : heard[route] \in Seq(A!Answers(route))

\* What NothingIsMadeUp asks of a reply.
Grounded(r) ==
    /\ r.reason \notin {""} /\ ~A!OwnReason(r) => \E e \in A!Evidence : A!Backs(e, r.reason)
    /\ r.ok /\ ~A!OwnValue(r) =>
            \E e \in A!Evidence : A!ResOk(e.answer) /\ e.answer.body.is \in A!Backing(r.value.is)
    /\ r.gap # A!Null => \E e \in A!Evidence : e.answer = A!Answer("403", A!Body("scopes", ""))

Honest(r) == A!Understood(r) /\ Grounded(r)

\* Replies by their members.
LEMMA ReplyIs ==
    ASSUME NEW kind, NEW r
    PROVE  /\ A!Reply(kind, r).kind = kind /\ A!Reply(kind, r).ok = r.ok
           /\ A!Reply(kind, r).reason = r.reason /\ A!Reply(kind, r).value = r.value
           /\ A!Reply(kind, r).gap = r.gap /\ A!Reply(kind, r).side = A!Null
BY DEF A!Reply

\* The same of a refusal.
LEMMA RefuseIs ==
    ASSUME NEW kind, NEW reason
    PROVE  /\ A!Refuse(kind, reason).kind = kind /\ ~A!Refuse(kind, reason).ok
           /\ A!Refuse(kind, reason).reason = reason /\ A!Refuse(kind, reason).value = A!Null
           /\ A!Refuse(kind, reason).gap = A!Null /\ A!Refuse(kind, reason).side = A!Null
BY DEF A!Refuse

\* The routes by name.
LEMMA RoutesAre ==
    {"pairConfirm", "health", "connectors", "ingest", "related", "resolve", "resolveFile",
     "resolveIds", "itemsFetch", "agents", "agentRuns", "items", "preflightDeploy",
     "servicesResolve", "metricsDora", "metricsStats", "egress", "egressVerify", "egressProve",
     "briefCreate", "briefFeed", "briefRun", "briefGet", "briefSave"} \subseteq A!Routes
BY DEF A!Routes, A!Documented

\* The last answer of a route is one of its answers, and evidence.
LEMMA LastIsEvidence ==
    ASSUME AnswersType, NEW route \in A!Routes, A!Times(route) # 0
    PROVE  A!Last(route) \in A!Answers(route) /\ By(route, A!Last(route)) \in A!Evidence
<1>1. heard[route] \in Seq(A!Answers(route)) /\ Len(heard[route]) # 0
    BY DEF AnswersType, A!Times
<1>2. Len(heard[route]) \in 1 .. Len(heard[route])
    BY <1>1
<1>3. A!Last(route) = heard[route][Len(heard[route])]
    BY DEF A!Last, A!Times
<1>4. A!Last(route) \in A!Answers(route)
    BY <1>1, <1>2, <1>3
<1>5. By(route, A!Last(route)) \in
          {[route |-> route, answer |-> heard[route][i]] : i \in 1 .. A!Times(route)}
    BY <1>2, <1>3 DEF By, A!Times
<1>6. QED
    BY <1>4, <1>5 DEF A!Evidence

\* A fair result makes a grounded reply.
LEMMA ReplyIsGrounded ==
    ASSUME NEW kind, NEW route, NEW w, NEW r, NEW reasons, NEW shapes,
           By(route, w) \in A!Evidence, Fair(route, w, r, reasons, shapes)
    PROVE  Grounded(A!Reply(kind, r))
<1> DEFINE e == By(route, w)
<1>1. e.answer = w
    BY DEF By
<1>2. r.reason # "" => A!Backs(e, r.reason)
    BY DEF Fair, FailsFairly
<1>3. r.ok => A!ResOk(e.answer) /\ e.answer.body.is \in A!Backing(r.value.is)
    BY <1>1 DEF Fair, Brings
<1>4. r.gap # A!Null => e.answer = A!Answer("403", A!Body("scopes", ""))
    BY <1>1 DEF Fair, FailsFairly
<1> DEFINE x == A!Reply(kind, r)
<1>5. x.reason = r.reason /\ x.ok = r.ok /\ x.value = r.value /\ x.gap = r.gap
    BY ReplyIs
<1> HIDE DEF x, e
<1>6. x.reason # "" => \E f \in A!Evidence : A!Backs(f, x.reason)
    BY <1>2, <1>5 DEF e
<1>7. x.ok => \E f \in A!Evidence : A!ResOk(f.answer) /\ f.answer.body.is \in A!Backing(x.value.is)
    BY <1>3, <1>5 DEF e
<1>8. x.gap # A!Null => \E f \in A!Evidence : f.answer = A!Answer("403", A!Body("scopes", ""))
    BY <1>4, <1>5 DEF e
<1>9. QED
    BY <1>6, <1>7, <1>8 DEF Grounded, x

\* A refusal of the worker's own is grounded.
LEMMA OwnIsGrounded ==
    ASSUME NEW kind, NEW reason,
           \/ reason \in A!OwnReasons
           \/ reason = "unreachable" /\ kind \in {"deploy-preflight", "service-bind"} /\ ~paired
           \/ reason = "expired" /\ ask.about = "lapsed"
           \/ reason = "unsupported" /\ ask.about = "no urn"
    PROVE  Grounded(A!Refuse(kind, reason))
<1> DEFINE r == A!Refuse(kind, reason)
<1>1. r.kind = kind /\ ~r.ok /\ r.reason = reason /\ r.gap = A!Null
    BY DEF A!Refuse
<1> HIDE DEF r
<1>2. A!OwnReason(r)
    BY <1>1 DEF A!OwnReason
<1>3. QED
    BY <1>1, <1>2 DEF Grounded, r

\* Some replies their pages tell by the kind alone.
LEMMA KindIsEnough ==
    ASSUME NEW r, r.kind \in {"pair", "clip", "discover", "egress-verify", "egress-prove",
                              "running", "done", "failed", "save-failed"}
    PROVE  A!Understood(r)
BY DEF A!Understood, A!isReplyFor

\* A refusal of what needs a pairing is understood.
LEMMA NotPairedIsSound ==
    ASSUME NEW kind \in {"clip", "related", "resolve", "fetch", "service-bindings-check", "dora-metrics",
                         "metrics-stats", "egress-window", "egress-verify", "egress-prove"}
    PROVE  Honest(A!Refuse(kind, "not_paired"))
<1> DEFINE r == A!Refuse(kind, "not_paired")
<1>1. r.kind = kind /\ ~r.ok /\ r.reason = "not_paired" /\ r.gap = A!Null
    BY RefuseIs
<1>2. Grounded(r)
    BY OwnIsGrounded DEF A!OwnReasons
<1> HIDE DEF r
<1>3. A!Understood(r)
    BY <1>1 DEF A!Understood, A!isReplyFor, A!isRelatedResponse, A!isResolveResponse, A!isFetchResponse,
                A!NoGapOr, A!isServiceBindingsCheckResponse, A!isDoraMetricsResponse,
                A!DORA_READ_FAILURES, A!STATS_READ_FAILURES, A!isMetricsStatsResponse
<1>4. QED
    BY <1>2, <1>3 DEF Honest, r
(* What each handler replies, once it calls no more.                       *)

\* A clip.
LEMMA ClipReplies ==
    ASSUME AnswersType, A!handleClip.kind # "call"
    PROVE  Honest(A!handleClip)
<1> DEFINE w == A!Last("ingest")
<1>1. CASE ~paired
    BY <1>1, NotPairedIsSound DEF A!handleClip, A!IfPaired
<1>2. CASE paired
  <2>1. A!Times("ingest") # 0 /\ A!handleClip = A!Reply("clip", A!postClip(w))
      BY <1>2 DEF A!handleClip, A!IfPaired, A!After, A!Call
  <2>2. w \in A!Answers("ingest") /\ By("ingest", w) \in A!Evidence
      BY <2>1, RoutesAre, LastIsEvidence
  <2> HIDE DEF w
  <2>3. Grounded(A!Reply("clip", A!postClip(w)))
      BY <2>2, PostClipIsFair, ReplyIsGrounded
  <2>4. A!Understood(A!Reply("clip", A!postClip(w)))
      BY ReplyIs, KindIsEnough
  <2>5. QED
      BY <2>1, <2>3, <2>4 DEF Honest
<1>3. QED
    BY <1>1, <1>2

\* Related items.
LEMMA RelatedReplies ==
    ASSUME AnswersType, A!handleRelated.kind # "call"
    PROVE  Honest(A!handleRelated)
<1> DEFINE w == A!Last("related")
<1>1. CASE ~paired
    BY <1>1, NotPairedIsSound DEF A!handleRelated, A!IfPaired
<1>2. CASE paired
  <2>1. A!Times("related") # 0 /\ A!handleRelated = A!Reply("related", A!postRelated(w))
      BY <1>2 DEF A!handleRelated, A!IfPaired, A!After, A!Call
  <2>2. w \in A!Answers("related") /\ By("related", w) \in A!Evidence
      BY <2>1, RoutesAre, LastIsEvidence
  <2> HIDE DEF w
  <2>3. Grounded(A!Reply("related", A!postRelated(w)))
      BY <2>2, PostRelatedIsFair, ReplyIsGrounded
  <2>4. A!Understood(A!Reply("related", A!postRelated(w)))
    <3> DEFINE r == A!postRelated(w)
               x == A!Reply("related", r)
    <3>1. x.kind = "related" /\ x.ok = r.ok /\ x.reason = r.reason /\ x.value = r.value /\ x.gap = r.gap
        BY DEF A!Reply
    <3>2. r.ok => A!Fits(r.value, RelatedShapes)
        BY <2>2, PostRelatedIsFair DEF Fair, Brings
    <3> HIDE DEF x, r
    <3>3. A!isRelatedResponse(x)
        BY <3>1, <3>2 DEF A!isRelatedResponse, RelatedShapes
    <3>4. QED
        BY <3>3 DEF A!Understood, x, r
  <2>5. QED
      BY <2>1, <2>3, <2>4 DEF Honest
<1>3. QED
    BY <1>1, <1>2

\* What a parser has read it reads again.
LEMMA ReadTwice ==
    ASSUME NEW v, NEW lax, NEW shapes, A!Fits(v, shapes), "null" \notin DOMAIN shapes,
           \A s \in DOMAIN shapes : "" \notin shapes[s]
    PROVE  A!Read(A!Dropped(v, lax), shapes) # A!Null
<1> DEFINE d == A!Dropped(v, lax)
<1>1. d.is = v.is /\ (d.odd = "" \/ d.odd = v.odd)
    BY DroppedIs
<1>2. A!Null.is = "null"
    BY DEF A!Null, A!Body
<1> HIDE DEF d
<1>3. A!Read(d, shapes) = d /\ d.is # "null"
    BY <1>1 DEF A!Read, A!Fits
<1>4. QED
    BY <1>2, <1>3 DEF d

\* Metrics too.
LEMMA MetricsTwice ==
    ASSUME NEW v, A!Fits(v, MetricsShapes)
    PROVE  A!parseDoraMetrics(v) # A!Null
<1>1. A!parseDoraMetrics(v) = A!Read(A!Dropped(v, A!parseMetricValue.lax), MetricsShapes)
    BY Zenon DEF A!parseDoraMetrics, MetricsShapes
<1>2. "null" \notin DOMAIN MetricsShapes /\ \A s \in DOMAIN MetricsShapes : "" \notin MetricsShapes[s]
  <2>1. /\ DOMAIN MetricsShapes = {"metrics"}
        /\ MetricsShapes["metrics"] = {"service", "computed_at"} \union A!parseMetricValue.strict
      BY DEF MetricsShapes
  <2>2. A!parseMetricValue.strict = {"value", "unit", "sample", "gap"}
      BY DEF A!parseMetricValue
  <2>3. "" \notin MetricsShapes["metrics"]
      BY <2>1, <2>2
  <2>4. "null" \notin DOMAIN MetricsShapes
      BY <2>1
  <2>5. ASSUME NEW s \in DOMAIN MetricsShapes
        PROVE  "" \notin MetricsShapes[s]
      BY <2>1, <2>3
  <2>6. QED
      BY <2>4, <2>5
<1>3. QED
    BY <1>1, <1>2, ReadTwice

\* And a series.
LEMMA SeriesTwice ==
    ASSUME NEW v, A!Fits(v, SeriesShapes)
    PROVE  A!parseStatsSeries(v) # A!Null
<1>1. A!parseStatsSeries(v) = A!Read(A!Dropped(v, A!parseMetricValue.lax), SeriesShapes)
    BY Zenon DEF A!parseStatsSeries, SeriesShapes
<1>2. "null" \notin DOMAIN SeriesShapes /\ \A s \in DOMAIN SeriesShapes : "" \notin SeriesShapes[s]
  <2>1. /\ DOMAIN SeriesShapes = {"series"}
        /\ SeriesShapes["series"] = {"service", "metric", "window", "points"} \union A!parsePoint
      BY DEF SeriesShapes
  <2>2. A!parseMetricValue.strict = {"value", "unit", "sample", "gap"}
      BY DEF A!parseMetricValue
  <2>3. "" \notin SeriesShapes["series"]
      BY <2>1, <2>2 DEF A!parsePoint
  <2>4. "null" \notin DOMAIN SeriesShapes
      BY <2>1
  <2>5. ASSUME NEW s \in DOMAIN SeriesShapes
        PROVE  "" \notin SeriesShapes[s]
      BY <2>1, <2>3
  <2>6. QED
      BY <2>4, <2>5
<1>3. QED
    BY <1>1, <1>2, ReadTwice

\* And a verdict on a deploy.
LEMMA PreflightTwice ==
    ASSUME NEW v, A!Fits(v, PreflightShapes)
    PROVE  A!parseDeployPreflight(v) # A!Null
<1>1. A!parseDeployPreflight(v) = A!Read(A!Dropped(v, A!parseCheck.lax), PreflightShapes)
    BY Zenon DEF A!parseDeployPreflight, PreflightShapes
<1>2. "null" \notin DOMAIN PreflightShapes /\ \A s \in DOMAIN PreflightShapes : "" \notin PreflightShapes[s]
  <2>1. /\ DOMAIN PreflightShapes = {"verdict", "unknown_service"}
        /\ PreflightShapes["verdict"] = {"verdict", "service"} \union A!parseCheck.strict
        /\ PreflightShapes["unknown_service"] = {}
      BY DEF PreflightShapes
  <2>2. A!parseCheck.strict = {"count", "findings", "gap"}
      BY DEF A!parseCheck
  <2>3. "" \notin PreflightShapes["verdict"] /\ "" \notin PreflightShapes["unknown_service"]
      BY <2>1, <2>2
  <2>4. "null" \notin DOMAIN PreflightShapes
      BY <2>1
  <2>5. ASSUME NEW s \in DOMAIN PreflightShapes
        PROVE  "" \notin PreflightShapes[s]
      BY <2>1, <2>3
  <2>6. QED
      BY <2>4, <2>5
<1>3. QED
    BY <1>1, <1>2, ReadTwice

\* A service's metrics.
LEMMA DoraReplies ==
    ASSUME AnswersType, A!handleDoraMetrics.kind # "call"
    PROVE  Honest(A!handleDoraMetrics)
<1> DEFINE w == A!Last("metricsDora")
<1>1. CASE ~paired
    BY <1>1, NotPairedIsSound DEF A!handleDoraMetrics, A!IfPaired
<1>2. CASE paired
  <2>1. A!Times("metricsDora") # 0 /\ A!handleDoraMetrics = A!Reply("dora-metrics", A!fetchDoraMetrics(w))
      BY <1>2 DEF A!handleDoraMetrics, A!IfPaired, A!After, A!Call
  <2>2. w \in A!Answers("metricsDora") /\ By("metricsDora", w) \in A!Evidence
      BY <2>1, RoutesAre, LastIsEvidence
  <2> HIDE DEF w
  <2>3. Grounded(A!Reply("dora-metrics", A!fetchDoraMetrics(w)))
      BY <2>2, FetchDoraMetricsIsFair, ReplyIsGrounded
  <2>4. A!Understood(A!Reply("dora-metrics", A!fetchDoraMetrics(w)))
    <3> DEFINE r == A!fetchDoraMetrics(w)
               x == A!Reply("dora-metrics", r)
    <3>1. x.kind = "dora-metrics" /\ x.ok = r.ok /\ x.reason = r.reason /\ x.value = r.value /\ x.gap = r.gap
        BY DEF A!Reply
    <3>2. /\ r.ok => A!parseDoraMetrics(r.value) # A!Null
          /\ ~r.ok => r.reason \in JsonReasons
        BY <2>2, FetchDoraMetricsIsFair, MetricsTwice DEF Fair, Brings, FailsFairly
    <3> HIDE DEF x, r
    <3>3. A!isDoraMetricsResponse(x)
        BY <3>1, <3>2 DEF A!isDoraMetricsResponse, A!DORA_READ_FAILURES, JsonReasons
    <3>4. QED
        BY <3>3 DEF A!Understood, x, r
  <2>5. QED
      BY <2>1, <2>3, <2>4 DEF Honest
<1>3. QED
    BY <1>1, <1>2

\* A metric's series.
LEMMA StatsReplies ==
    ASSUME AnswersType, A!handleMetricsStats.kind # "call"
    PROVE  Honest(A!handleMetricsStats)
<1> DEFINE w == A!Last("metricsStats")
<1>1. CASE ~paired
    BY <1>1, NotPairedIsSound DEF A!handleMetricsStats, A!IfPaired
<1>2. CASE paired
  <2>1. A!Times("metricsStats") # 0 /\ A!handleMetricsStats = A!Reply("metrics-stats", A!fetchStatsSeries(w))
      BY <1>2 DEF A!handleMetricsStats, A!IfPaired, A!After, A!Call
  <2>2. w \in A!Answers("metricsStats") /\ By("metricsStats", w) \in A!Evidence
      BY <2>1, RoutesAre, LastIsEvidence
  <2> HIDE DEF w
  <2>3. Grounded(A!Reply("metrics-stats", A!fetchStatsSeries(w)))
      BY <2>2, FetchStatsSeriesIsFair, ReplyIsGrounded
  <2>4. A!Understood(A!Reply("metrics-stats", A!fetchStatsSeries(w)))
    <3> DEFINE r == A!fetchStatsSeries(w)
               x == A!Reply("metrics-stats", r)
    <3>1. x.kind = "metrics-stats" /\ x.ok = r.ok /\ x.reason = r.reason /\ x.value = r.value /\ x.gap = r.gap
        BY DEF A!Reply
    <3>2. /\ r.ok => A!parseStatsSeries(r.value) # A!Null
          /\ ~r.ok => r.reason \in StatsReasons
        BY <2>2, FetchStatsSeriesIsFair, SeriesTwice DEF Fair, Brings, FailsFairly
    <3> HIDE DEF x, r
    <3>3. A!isMetricsStatsResponse(x)
        BY <3>1, <3>2 DEF A!isMetricsStatsResponse, A!DORA_READ_FAILURES,
              A!STATS_READ_FAILURES, JsonReasons, StatsReasons
    <3>4. QED
        BY <3>3 DEF A!Understood, x, r
  <2>5. QED
      BY <2>1, <2>3, <2>4 DEF Honest
<1>3. QED
    BY <1>1, <1>2

\* A verdict on the log.
LEMMA VerifyReplies ==
    ASSUME AnswersType, A!handleEgressVerify.kind # "call"
    PROVE  Honest(A!handleEgressVerify)
<1> DEFINE w == A!Last("egressVerify")
<1>1. CASE ~paired
    BY <1>1, NotPairedIsSound DEF A!handleEgressVerify, A!IfPaired
<1>2. CASE paired
  <2>1. A!Times("egressVerify") # 0 /\ A!handleEgressVerify = A!Reply("egress-verify", A!verifyEgress(w))
      BY <1>2 DEF A!handleEgressVerify, A!IfPaired, A!After, A!Call
  <2>2. w \in A!Answers("egressVerify") /\ By("egressVerify", w) \in A!Evidence
      BY <2>1, RoutesAre, LastIsEvidence
  <2> HIDE DEF w
  <2>3. Grounded(A!Reply("egress-verify", A!verifyEgress(w)))
      BY <2>2, VerifyEgressIsFair, ReplyIsGrounded
  <2>4. A!Understood(A!Reply("egress-verify", A!verifyEgress(w)))
      BY ReplyIs, KindIsEnough
  <2>5. QED
      BY <2>1, <2>3, <2>4 DEF Honest
<1>3. QED
    BY <1>1, <1>2

\* A proof of a window.
LEMMA ProveReplies ==
    ASSUME AnswersType, A!handleEgressProve.kind # "call"
    PROVE  Honest(A!handleEgressProve)
<1> DEFINE w == A!Last("egressProve")
<1>1. CASE ~paired
    BY <1>1, NotPairedIsSound DEF A!handleEgressProve, A!IfPaired
<1>2. CASE paired
  <2>1. A!Times("egressProve") # 0 /\ A!handleEgressProve = A!Reply("egress-prove", A!proveEgressWindow(w))
      BY <1>2 DEF A!handleEgressProve, A!IfPaired, A!After, A!Call
  <2>2. w \in A!Answers("egressProve") /\ By("egressProve", w) \in A!Evidence
      BY <2>1, RoutesAre, LastIsEvidence
  <2> HIDE DEF w
  <2>3. Grounded(A!Reply("egress-prove", A!proveEgressWindow(w)))
      BY <2>2, ProveEgressWindowIsFair, ReplyIsGrounded
  <2>4. A!Understood(A!Reply("egress-prove", A!proveEgressWindow(w)))
      BY ReplyIs, KindIsEnough
  <2>5. QED
      BY <2>1, <2>3, <2>4 DEF Honest
<1>3. QED
    BY <1>1, <1>2

\* A body without an odd member is of one of a few shapes.
LEMMA WholeFits ==
    ASSUME NEW b, NEW shapes, NEW is \in DOMAIN shapes, b.is = is, b.odd = "", "" \notin shapes[is]
    PROVE  A!Fits(b, shapes)
BY DEF A!Fits

\* A plain value is grounded that is the worker's own, or of a good answer.
LEMMA PlainIsGrounded ==
    ASSUME NEW r, NEW is, r.reason = "", r.gap = A!Null, r.value.is = is,
           \/ is \in A!OwnValues
           \/ is \in {"not_indexed", "unfetchable"} /\ ask.about # "item"
           \/ \E e \in A!Evidence : A!ResOk(e.answer) /\ e.answer.body.is \in A!Backing(is)
    PROVE  Grounded(r)
<1>1. A!OwnValue(r) \/ \E e \in A!Evidence : A!ResOk(e.answer) /\ e.answer.body.is \in A!Backing(r.value.is)
    BY DEF A!OwnValue
<1>2. QED
    BY <1>1 DEF Grounded

\* A token.
LEMMA PairReplies ==
    ASSUME AnswersType, A!handlePair.kind # "call"
    PROVE  Honest(A!handlePair)
<1> DEFINE w == A!Last("pairConfirm")
<1>1. CASE ask.about = "elsewhere"
  <2>1. A!handlePair = A!Refuse("pair", "bad_origin")
      BY <1>1 DEF A!handlePair
  <2>2. Grounded(A!Refuse("pair", "bad_origin"))
      BY OwnIsGrounded DEF A!OwnReasons
  <2>3. A!Understood(A!Refuse("pair", "bad_origin"))
      BY KindIsEnough DEF A!Refuse
  <2>4. QED
      BY <2>1, <2>2, <2>3 DEF Honest
<1>2. CASE ask.about # "elsewhere"
  <2>1. A!Times("pairConfirm") # 0 /\ A!handlePair = A!Reply("pair", A!confirmPair(w))
      BY <1>2 DEF A!handlePair, A!After, A!Call
  <2>2. w \in A!Answers("pairConfirm") /\ By("pairConfirm", w) \in A!Evidence
      BY <2>1, RoutesAre, LastIsEvidence
  <2> HIDE DEF w
  <2>3. Grounded(A!Reply("pair", A!confirmPair(w)))
      BY <2>2, ConfirmPairIsFair, ReplyIsGrounded
  <2>4. A!Understood(A!Reply("pair", A!confirmPair(w)))
      BY ReplyIs, KindIsEnough
  <2>5. QED
      BY <2>1, <2>3, <2>4 DEF Honest
<1>3. QED
    BY <1>1, <1>2

\* Whether a page was clipped.
LEMMA ClipLookupReplies ==
    ASSUME AnswersType, A!handleClipLookup.kind # "call"
    PROVE  Honest(A!handleClipLookup)
<1> DEFINE w == A!Last("resolve")
           is == IF ask.about = "clip" THEN "clipped" ELSE "indexed"
           plain(name) == A!Reply("clip-lookup", A!Ok(A!Body(name, "")))
<1>1. ASSUME NEW name \in {"none", "clipped", "indexed"}
      PROVE  A!Understood(plain(name))
  <2> DEFINE r == plain(name)
             shapes == [none |-> {}, clipped |-> {"modified_at"}, indexed |-> {"modified_at"}]
  <2>1. r.kind = "clip-lookup" /\ r.value.is = name /\ r.value.odd = ""
      BY DEF A!Reply, A!Ok, A!Body
  <2>2. name \in DOMAIN shapes /\ "" \notin shapes[name]
    <3>1. /\ DOMAIN shapes = {"none", "clipped", "indexed"}
          /\ "" \notin shapes["none"] /\ "" \notin shapes["clipped"] /\ "" \notin shapes["indexed"]
        OBVIOUS
    <3> HIDE DEF shapes
    <3>2. QED
        BY <1>1, <3>1
  <2> HIDE DEF r
  <2>3. A!isClipLookupResponse(r)
      BY <2>1, <2>2 DEF A!isClipLookupResponse, A!Fits
  <2>4. QED
      BY <2>3 DEF A!Understood, r
<1>2. Grounded(plain("none"))
  <2> DEFINE r == plain("none")
  <2>1. r.reason = "" /\ r.gap = A!Null /\ r.value.is = "none"
      BY DEF A!Reply, A!Ok, A!Body
  <2> HIDE DEF r
  <2>2. Grounded(r)
      BY <2>1, PlainIsGrounded DEF A!OwnValues
  <2>3. QED
      BY <2>2 DEF r
<1>3. CASE A!handleClipLookup = plain("none")
    BY <1>1, <1>2, <1>3 DEF Honest
<1>4. CASE A!handleClipLookup # plain("none")
  <2>1. /\ A!Times("resolve") # 0 /\ A!resolveItem(w).value.is = "found"
        /\ A!handleClipLookup = plain(is)
      BY <1>4 DEF A!handleClipLookup, A!After, A!Call
  <2>2. w \in A!Answers("resolve") /\ By("resolve", w) \in A!Evidence
      BY <2>1, RoutesAre, LastIsEvidence
  <2> HIDE DEF w
  <2>3. A!resolveItem(w).ok
    <3>1. A!Null.is = "null"
        BY DEF A!Null, A!Body
    <3>2. Fair("resolve", w, A!resolveItem(w), ScopedReasons, ResolveShapes)
        BY <2>2, ResolveItemIsFair
    <3>3. QED
        BY <2>1, <3>1, <3>2 DEF Fair, FailsFairly
  <2>4. A!ResOk(w) /\ w.body.is \in A!Backing("found")
      BY <2>1, <2>2, <2>3, ResolveItemIsFair DEF Fair, Brings
  <2>5. w.body.is = "found"
      BY Zenon, <2>4 DEF A!Backing
  <2>6. is \in {"clipped", "indexed"}
      OBVIOUS
  <2>7. By("resolve", w).answer = w
      BY DEF By
  <2>8. \E e \in A!Evidence : A!ResOk(e.answer) /\ e.answer.body.is \in A!Backing(is)
      BY <2>2, <2>4, <2>5, <2>6, <2>7, OthersAreMadeOf
  <2> HIDE DEF is
  <2>9. Grounded(plain(is))
    <3> DEFINE r == plain(is)
    <3>1. r.reason = "" /\ r.gap = A!Null /\ r.value.is = is
        BY DEF A!Reply, A!Ok, A!Body
    <3> HIDE DEF r
    <3>2. Grounded(r)
        BY <2>8, <3>1, PlainIsGrounded
    <3>3. QED
        BY <3>2 DEF r
  <2>10. QED
      BY <1>1, <2>1, <2>6, <2>9 DEF Honest
<1>5. QED
    BY <1>3, <1>4

\* Whether a page is recognised.
LEMMA RecogniseReplies == Honest(A!handleRecognise)
<1> DEFINE is == IF ask.about = "unrecognised" THEN "unrecognised" ELSE "recognised"
           r == A!Reply("recognition", A!Ok(A!Body(is, "")))
<1>1. A!handleRecognise = r
    BY DEF A!handleRecognise
<1>2. is \in {"unrecognised", "recognised"}
    OBVIOUS
<1> HIDE DEF is
<1>3. /\ r.kind = "recognition" /\ r.value.is = is /\ r.value.odd = "" /\ r.reason = ""
      /\ r.gap = A!Null
    BY DEF A!Reply, A!Ok, A!Body
<1> DEFINE shapes == [recognised |-> {}, unrecognised |-> {}]
<1>4. is \in DOMAIN shapes /\ "" \notin shapes[is]
  <2>1. /\ DOMAIN shapes = {"recognised", "unrecognised"}
        /\ "" \notin shapes["recognised"] /\ "" \notin shapes["unrecognised"]
      OBVIOUS
  <2> HIDE DEF shapes
  <2>2. QED
      BY <1>2, <2>1
<1> HIDE DEF r
<1>5. A!isRecognitionResponse(r)
    BY <1>3, <1>4 DEF A!isRecognitionResponse, A!Fits
<1>6. Grounded(r)
    BY <1>2, <1>3, PlainIsGrounded DEF A!OwnValues
<1>7. QED
    BY <1>1, <1>5, <1>6 DEF Honest, A!Understood

\* A reply with what a fair client made has no gap, or a whole one.
LEMMA GapIsWhole ==
    ASSUME NEW kind, NEW route, NEW w, NEW r, NEW reasons, FailsFairly(route, w, r, reasons)
    PROVE  A!NoGapOr(A!Reply(kind, r))
BY DEF FailsFairly, A!NoGapOr, A!Reply

\* A fetch.
LEMMA FetchReplies ==
    ASSUME AnswersType, A!handleFetch.kind # "call"
    PROVE  Honest(A!handleFetch)
<1> DEFINE w == A!Last("itemsFetch")
<1>1. CASE ask.about \in {"unrecognised", "home"}
  <2> DEFINE r == A!Reply("fetch", A!Ok(A!Body("unfetchable", "")))
  <2>1. A!handleFetch = r
      BY <1>1 DEF A!handleFetch
  <2>2. /\ r.kind = "fetch" /\ r.value.is = "unfetchable" /\ r.value.odd = "" /\ r.reason = ""
        /\ r.gap = A!Null
      BY DEF A!Reply, A!Ok, A!Body
  <2> HIDE DEF r
  <2>3. ASSUME NEW v, v.is = "unfetchable"
        PROVE  A!isFetchOutcome(v)
      BY <2>3 DEF A!isFetchOutcome, A!Fits
  <2>4. A!isFetchResponse(r)
      BY <2>2, <2>3 DEF A!isFetchResponse, A!NoGapOr
  <2>5. Grounded(r)
      BY <1>1, <2>2, PlainIsGrounded
  <2>6. QED
      BY <2>1, <2>4, <2>5 DEF Honest, A!Understood
<1>2. CASE ask.about \notin {"unrecognised", "home"} /\ ~paired
    BY <1>2, NotPairedIsSound DEF A!handleFetch, A!IfPaired
<1>3. CASE ask.about \notin {"unrecognised", "home"} /\ paired
  <2>1. A!Times("itemsFetch") # 0 /\ A!handleFetch = A!Reply("fetch", A!fetchItem(w))
      BY <1>3 DEF A!handleFetch, A!IfPaired, A!After, A!Call
  <2>2. w \in A!Answers("itemsFetch") /\ By("itemsFetch", w) \in A!Evidence
      BY <2>1, RoutesAre, LastIsEvidence
  <2> HIDE DEF w
  <2>3. Grounded(A!Reply("fetch", A!fetchItem(w)))
      BY <2>2, FetchItemIsFair, ReplyIsGrounded
  <2>4. A!Understood(A!Reply("fetch", A!fetchItem(w)))
    <3> DEFINE r == A!fetchItem(w)
               x == A!Reply("fetch", r)
    <3>1. x.kind = "fetch" /\ x.ok = r.ok /\ x.value = r.value
        BY DEF A!Reply
    <3>2. A!NoGapOr(x)
        BY <2>2, FetchItemIsFair, GapIsWhole DEF Fair
    <3>3. r.ok => A!Fits(r.value, FetchShapes)
        BY <2>2, FetchItemIsFair DEF Fair, Brings
    <3> HIDE DEF x, r
    <3>4. A!isFetchResponse(x)
        BY <3>1, <3>2, <3>3 DEF A!isFetchResponse, A!isFetchOutcome, FetchShapes
    <3>5. QED
        BY <3>4 DEF A!Understood, x, r
  <2>5. QED
      BY <2>1, <2>3, <2>4 DEF Honest
<1>4. QED
    BY <1>1, <1>2, <1>3

\* A page without an item is told what rides along.
LEMMA NotIndexedIsSound ==
    ASSUME NEW side, ask.about # "item",
           side = A!Null \/ A!isConnectorHealth(side) \/ A!isFileResolution(side)
    PROVE  Honest(A!NotIndexed(side))
<1> DEFINE r == A!NotIndexed(side)
<1>1. r.kind = "resolve" /\ r.ok = TRUE /\ r.reason = "" /\ r.gap = A!Null /\ r.side = side
    BY Zenon DEF A!NotIndexed, A!Reply, A!Ok
<1>2. r.value = A!Body("not_indexed", "")
    BY Zenon DEF A!NotIndexed, A!Reply, A!Ok
<1> HIDE DEF r
<1>3. r.value.is = "not_indexed" /\ r.value.odd = ""
  <2>1. A!Body("not_indexed", "").is = "not_indexed" /\ A!Body("not_indexed", "").odd = ""
      BY DEF A!Body
  <2>2. QED
      BY <1>2, <2>1
<1>4. ASSUME NEW v, v.is = "not_indexed", v.odd = ""
      PROVE  A!isResolveOutcome(v)
  <2>1. "not_indexed" \in DOMAIN ResolveShapes /\ "" \notin ResolveShapes["not_indexed"]
      BY DEF ResolveShapes
  <2>2. A!Fits(v, ResolveShapes)
      BY <1>4, <2>1, WholeFits
  <2>3. QED
      BY Zenon, <2>2 DEF A!isResolveOutcome, ResolveShapes, A!isResolvedItem, A!isCandidate,
                         A!CandidateMembers
<1>5. A!isResolveResponse(r)
    BY <1>1, <1>3, <1>4 DEF A!isResolveResponse, A!NoGapOr
<1>6. Grounded(r)
    BY <1>1, <1>3, PlainIsGrounded
<1>7. QED
    BY <1>5, <1>6 DEF Honest, A!Understood, r

\* A connector's health is of the pages' closed list.
LEMMA ConnectorStateIsKnown ==
    ASSUME NEW health
    PROVE  A!isConnectorHealth(A!connectorStateFor(health))
<1>1. ASSUME NEW is \in {"unknown", "not_configured", "known"}
      PROVE  A!isConnectorHealth(A!Body(is, ""))
  <2> DEFINE v == A!Body(is, "")
             shapes == [known |-> {"state", "lastSuccessfulSync"}, not_configured |-> {}, unknown |-> {}]
  <2>1. v.is = is /\ v.odd = ""
      BY DEF A!Body
  <2>2. is \in DOMAIN shapes /\ "" \notin shapes[is]
    <3>1. /\ DOMAIN shapes = {"known", "not_configured", "unknown"}
          /\ "" \notin shapes["known"] /\ "" \notin shapes["not_configured"]
          /\ "" \notin shapes["unknown"]
        OBVIOUS
    <3> HIDE DEF shapes
    <3>2. QED
        BY <1>1, <3>1
  <2> HIDE DEF v
  <2>3. QED
      BY <2>1, <2>2 DEF A!isConnectorHealth, A!Fits, v
<1>2. /\ A!isConnectorHealth(A!Body("unknown", ""))
      /\ A!isConnectorHealth(A!Body("not_configured", ""))
      /\ A!isConnectorHealth(A!Body("known", ""))
    BY <1>1
<1>3. QED
    BY Zenon, <1>2 DEF A!connectorStateFor

\* A file is looked up, or not.
LEMMA FileSurfaceReplies ==
    ASSUME AnswersType, ask.about # "item", A!resolveFileSurface.kind # "call"
    PROVE  Honest(A!resolveFileSurface)
<1> DEFINE w == A!Last("resolveFile")
           r == A!resolveFile(w)
           none == A!Body("unsupported", "")
<1>1. A!isFileResolution(none)
  <2>1. none.is = "unsupported" /\ none.odd = ""
      BY DEF A!Body
  <2>2. "unsupported" \in DOMAIN FileShapes /\ "" \notin FileShapes["unsupported"]
      BY DEF FileShapes
  <2> HIDE DEF none
  <2>3. A!Fits(none, FileShapes)
      BY <2>1, <2>2, WholeFits
  <2>4. QED
      BY <2>3 DEF A!isFileResolution, FileShapes
<1> HIDE DEF none
<1>2. CASE ask.about = "no coordinate"
    BY <1>1, <1>2, NotIndexedIsSound DEF A!resolveFileSurface, none
<1>3. CASE ask.about # "no coordinate"
  <2>1. /\ A!Times("resolveFile") # 0
        /\ r.reason = "insufficient_scope" => A!resolveFileSurface = A!Reply("resolve", r)
        /\ r.reason # "insufficient_scope" /\ r.ok => A!resolveFileSurface = A!NotIndexed(r.value)
        /\ r.reason # "insufficient_scope" /\ ~r.ok => A!resolveFileSurface = A!NotIndexed(none)
      BY <1>3 DEF A!resolveFileSurface, A!After, A!Call, none
  <2>2. w \in A!Answers("resolveFile") /\ By("resolveFile", w) \in A!Evidence
      BY <2>1, RoutesAre, LastIsEvidence
  <2> HIDE DEF w
  <2>3. FailsFairly("resolveFile", w, r, ScopedReasons) /\ (r.ok => A!Fits(r.value, FileShapes))
      BY <2>2, ResolveFileIsFair
  <2> HIDE DEF r
  <2>4. CASE r.reason = "insufficient_scope"
    <3>1. ~r.ok
        BY <2>3, <2>4 DEF FailsFairly
    <3>2. Fair("resolveFile", w, r, ScopedReasons, FileShapes)
        BY <2>3, <3>1 DEF Fair, Brings
    <3>3. Grounded(A!Reply("resolve", r))
        BY <2>2, <3>2, ReplyIsGrounded
    <3>4. A!Reply("resolve", r).kind = "resolve" /\ ~A!Reply("resolve", r).ok
        BY <3>1 DEF A!Reply
    <3>5. A!NoGapOr(A!Reply("resolve", r))
        BY <2>3, GapIsWhole
    <3>6. QED
        BY <2>1, <2>4, <3>3, <3>4, <3>5 DEF Honest, A!Understood, A!isResolveResponse
  <2>5. CASE r.reason # "insufficient_scope" /\ r.ok
    <3>1. A!isFileResolution(r.value)
        BY <2>3, <2>5 DEF A!isFileResolution, FileShapes
    <3>2. QED
        BY <2>1, <2>5, <3>1, NotIndexedIsSound
  <2>6. CASE r.reason # "insufficient_scope" /\ ~r.ok
      BY <1>1, <2>1, <2>6, NotIndexedIsSound
  <2>7. QED
      BY <2>4, <2>5, <2>6
<1>4. QED
    BY <1>2, <1>3

\* What the gateway has of a page.
LEMMA ResolveReplies ==
    ASSUME AnswersType, A!handleResolve.kind # "call",
           ask.about \in {"item", "home", "file", "no coordinate", "unrecognised"}
    PROVE  Honest(A!handleResolve)
<1> DEFINE F(x) == x.kind # "call" => Honest(x)
           home == IF A!Times("connectors") = 0 THEN A!Call("connectors")
                   ELSE A!NotIndexed(A!connectorStateFor(A!getConnectors(A!Last("connectors"))))
           item == IF A!Times("resolve") = 0 THEN A!Call("resolve")
                   ELSE A!Reply("resolve", A!resolveItem(A!Last("resolve")))
<1>1. ask.about = "unrecognised" => F(A!NotIndexed(A!Null))
    BY NotIndexedIsSound
<1>2. F(A!Refuse("resolve", "not_paired"))
    BY NotPairedIsSound
<1>3. ask.about = "home" => F(home)
    BY NotIndexedIsSound, ConnectorStateIsKnown DEF A!Call
<1>4. ask.about \in {"file", "no coordinate"} => F(A!resolveFileSurface)
    BY FileSurfaceReplies
<1>5. F(item)
  <2> DEFINE w == A!Last("resolve")
  <2>1. CASE A!Times("resolve") = 0
      BY <2>1 DEF A!Call
  <2>2. CASE A!Times("resolve") # 0
    <3>1. w \in A!Answers("resolve") /\ By("resolve", w) \in A!Evidence
        BY <2>2, RoutesAre, LastIsEvidence
    <3> HIDE DEF w
    <3>2. Grounded(A!Reply("resolve", A!resolveItem(w)))
        BY <3>1, ResolveItemIsFair, ReplyIsGrounded
    <3>3. A!Understood(A!Reply("resolve", A!resolveItem(w)))
      <4> DEFINE r == A!resolveItem(w)
                 x == A!Reply("resolve", r)
      <4>1. x.kind = "resolve" /\ x.ok = r.ok /\ x.value = r.value /\ x.side = A!Null
          BY DEF A!Reply
      <4>2. A!NoGapOr(x)
          BY <3>1, ResolveItemIsFair, GapIsWhole DEF Fair
      <4>3. r.ok => A!Fits(r.value, ResolveShapes)
          BY <3>1, ResolveItemIsFair DEF Fair, Brings
      <4>4. A!Fits(r.value, ResolveShapes) => A!isResolveOutcome(r.value)
          BY Zenon DEF A!isResolveOutcome, ResolveShapes, A!isResolvedItem, A!isCandidate, A!CandidateMembers
      <4> HIDE DEF x, r
      <4>5. A!isResolveResponse(x)
          BY <4>1, <4>2, <4>3, <4>4 DEF A!isResolveResponse
      <4>6. QED
          BY <4>5 DEF A!Understood, x, r
    <3>4. QED
        BY <2>2, <3>2, <3>3 DEF Honest, w
  <2>3. QED
      BY <2>1, <2>2
<1> HIDE DEF F
<1>6. F(A!handleResolve)
    BY Zenon, <1>1, <1>2, <1>3, <1>4, <1>5 DEF A!handleResolve, A!IfPaired, A!After
<1>7. QED
    BY <1>6 DEF F

\* A gateway that is well said so.
LEMMA ProbeHealthIs ==
    ASSUME NEW w, A!probeHealth(w)
    PROVE  A!ResOk(w) /\ w.body.is = "ok"
<1> DEFINE shapes == [ok |-> {"status"}]
<1>1. A!ResOk(w) /\ A!Read(w.body, shapes) # A!Null
    BY DEF A!probeHealth
<1>2. w.body.is \in DOMAIN shapes
    BY <1>1, ReadFits DEF A!Fits
<1>3. QED
    BY <1>1, <1>2

\* The first of the connection's states, and the others.
LEMMA ConnectionReplies ==
    ASSUME AnswersType, A!handleConnectionStatus.kind # "call"
    PROVE  Honest(A!handleConnectionStatus)
<1> DEFINE w == A!Last("health")
           status(is) == A!Reply("connection", A!Ok(A!Body(is, "")))
<1>1. ASSUME NEW is \in {"unpaired", "reachable", "unreachable"},
             is = "reachable" => \E e \in A!Evidence : A!ResOk(e.answer) /\ e.answer.body.is = "ok"
      PROVE  Honest(status(is))
  <2> DEFINE r == status(is)
             shapes == [unpaired |-> {}, reachable |-> {}, unreachable |-> {}]
  <2>1. r.kind = "connection" /\ r.reason = "" /\ r.gap = A!Null /\ r.value.is = is /\ r.value.odd = ""
      BY DEF A!Reply, A!Ok, A!Body
  <2> HIDE DEF r
  <2>2. is \in DOMAIN shapes /\ "" \notin shapes[is]
    <3>1. /\ DOMAIN shapes = {"unpaired", "reachable", "unreachable"}
          /\ "" \notin shapes["unpaired"] /\ "" \notin shapes["reachable"]
          /\ "" \notin shapes["unreachable"]
        OBVIOUS
    <3> HIDE DEF shapes
    <3>2. QED
        BY <1>1, <3>1
  <2>3. A!isConnectionResponse(r)
      BY <2>1, <2>2 DEF A!isConnectionResponse, A!Fits
  <2>4. Grounded(r)
      BY <1>1, <2>1, PlainIsGrounded, OthersAreMadeOf DEF A!OwnValues
  <2>5. QED
      BY <2>3, <2>4 DEF Honest, A!Understood, r
<1>2. CASE ~paired
    BY <1>1, <1>2 DEF A!handleConnectionStatus
<1>3. CASE paired
  <2>1. /\ A!Times("health") # 0
        /\ A!handleConnectionStatus = status(IF A!probeHealth(w) THEN "reachable" ELSE "unreachable")
      BY <1>3 DEF A!handleConnectionStatus, A!After, A!Call
  <2>2. w \in A!Answers("health") /\ By("health", w) \in A!Evidence /\ By("health", w).answer = w
      BY <2>1, RoutesAre, LastIsEvidence DEF By
  <2> HIDE DEF w
  <2>3. A!probeHealth(w) => \E e \in A!Evidence : A!ResOk(e.answer) /\ e.answer.body.is = "ok"
      BY <2>2, ProbeHealthIs
  <2> HIDE DEF status
  <2>4. QED
      BY <1>1, <2>1, <2>3
<1>4. QED
    BY <1>2, <1>3

\* A gateway is found that is well.
LEMMA DiscoverReplies ==
    ASSUME AnswersType, A!handleDiscover.kind # "call"
    PROVE  Honest(A!handleDiscover)
<1> DEFINE w == A!Last("health")
           found(is) == A!Reply("discover", A!Ok(A!Body(is, "")))
           F(x) == x.kind # "call" => Honest(x)
<1>1. ASSUME NEW is, \/ is = "none"
                     \/ \E e \in A!Evidence : A!ResOk(e.answer) /\ e.answer.body.is \in A!Backing(is)
      PROVE  F(found(is))
  <2> DEFINE r == found(is)
  <2>1. r.kind = "discover" /\ r.reason = "" /\ r.gap = A!Null /\ r.value.is = is
      BY DEF A!Reply, A!Ok, A!Body
  <2> HIDE DEF r
  <2>2. Grounded(r)
      BY <1>1, <2>1, PlainIsGrounded DEF A!OwnValues
  <2>3. A!Understood(r)
      BY <2>1 DEF A!Understood, A!isReplyFor
  <2>4. QED
      BY <2>2, <2>3 DEF Honest, r
<1>2. F(A!Call("health"))
    BY DEF A!Call
<1>3. A!Times("health") # 0 /\ A!probeHealth(w) => F(found("discovered"))
  <2> SUFFICES ASSUME A!Times("health") # 0, A!probeHealth(w)
               PROVE  F(found("discovered"))
      OBVIOUS
  <2>1. By("health", w) \in A!Evidence /\ By("health", w).answer = w
      BY RoutesAre, LastIsEvidence DEF By
  <2>2. \E e \in A!Evidence : A!ResOk(e.answer) /\ e.answer.body.is \in A!Backing("discovered")
      BY <2>1, ProbeHealthIs, OthersAreMadeOf
  <2>3. QED
      BY <1>1, <2>2
<1>4. F(found("none"))
    BY <1>1
<1> HIDE DEF F
<1>5. F(A!handleDiscover)
    BY Zenon, <1>2, <1>3, <1>4 DEF A!handleDiscover, A!After
<1>6. QED
    BY <1>5 DEF F

\* What is removed here needs no gateway.
LEMMA UnbindReplies == Honest(A!handleServiceUnbind)
<1> DEFINE r == A!handleServiceUnbind
<1>1. r.kind = "service-bind" /\ r.ok = TRUE /\ r.reason = "" /\ r.gap = A!Null /\ r.value.is = "null"
    BY DEF A!handleServiceUnbind, A!Reply, A!Ok, A!Null, A!Body
<1> HIDE DEF r
<1>2. A!isServiceBindResponse(r)
    BY <1>1 DEF A!isServiceBindResponse
<1>3. Grounded(r)
    BY <1>1, PlainIsGrounded DEF A!OwnValues
<1>4. QED
    BY <1>2, <1>3 DEF Honest, A!Understood, r

\* Nor does the table.
LEMMA ListReplies == Honest(A!handleServiceBindingsList)
<1> DEFINE r == A!handleServiceBindingsList
           shapes == [bindings |-> {}]
<1>1. /\ r.kind = "service-bindings-list" /\ r.ok = TRUE /\ r.reason = "" /\ r.gap = A!Null
      /\ r.value.is = "bindings" /\ r.value.odd = ""
    BY DEF A!handleServiceBindingsList, A!Reply, A!Ok, A!Body
<1>2. "bindings" \in DOMAIN shapes /\ "" \notin shapes["bindings"]
    OBVIOUS
<1> HIDE DEF r
<1>3. A!Fits(r.value, shapes)
    BY <1>1, <1>2, WholeFits
<1>4. A!isServiceBindingsListResponse(r)
    BY <1>1, <1>3 DEF A!isServiceBindingsListResponse
<1>5. Grounded(r)
    BY <1>1, PlainIsGrounded DEF A!OwnValues
<1>6. QED
    BY <1>4, <1>5 DEF Honest, A!Understood, r

\* A window of the log, with the markers that parse.
LEMMA WindowReplies ==
    ASSUME AnswersType, A!handleEgressWindow.kind # "call"
    PROVE  Honest(A!handleEgressWindow)
<1> DEFINE w == A!Last("egress")
           r == A!listEgress(w)
           y == A!Reply("egress-window", r)
           x == [y EXCEPT !.value = A!splitOutcomes(@)]
<1>1. CASE ~paired
    BY <1>1, NotPairedIsSound DEF A!handleEgressWindow, A!IfPaired
<1>2. CASE paired
  <2>1. A!Times("egress") # 0 /\ A!handleEgressWindow = x
      BY <1>2 DEF A!handleEgressWindow, A!IfPaired, A!After, A!Call
  <2>2. w \in A!Answers("egress") /\ By("egress", w) \in A!Evidence
      BY <2>1, RoutesAre, LastIsEvidence
  <2> HIDE DEF w
  <2>3. Fair("egress", w, r, ReadReasons, WindowShapes)
      BY <2>2, ListEgressIsFair
  <2> HIDE DEF r
  <2>4. Grounded(y)
      BY <2>2, <2>3, ReplyIsGrounded
  <2>5. /\ y.kind = "egress-window" /\ y.ok = r.ok /\ y.reason = r.reason /\ y.value = r.value
        /\ y.gap = r.gap
      BY DEF A!Reply
  <2>6. /\ x.kind = y.kind /\ x.ok = y.ok /\ x.reason = y.reason /\ x.gap = y.gap
        /\ x.value = A!splitOutcomes(y.value)
      BY Zenon DEF A!Reply
  <2> HIDE DEF x, y
  <2>7. /\ x.value.is = r.value.is
        /\ x.value.odd = "" \/ (x.value.odd = r.value.odd /\ r.value.odd # "outcome")
    <3> DEFINE d == A!Dropped(r.value, {"outcome"})
    <3>1. x.value = d
        BY <2>5, <2>6 DEF A!splitOutcomes
    <3>2. d.is = r.value.is /\ (d.odd = "" \/ (d.odd = r.value.odd /\ r.value.odd # "outcome"))
        BY DEF A!Dropped, A!Body
    <3> HIDE DEF d
    <3>3. QED
        BY <3>1, <3>2
  <2>8. Grounded(x)
      BY <2>4, <2>5, <2>6, <2>7 DEF Grounded, A!OwnReason, A!OwnValue
  <2>9. CASE ~r.ok
      BY <2>1, <2>5, <2>6, <2>8, <2>9 DEF Honest, A!Understood, A!isReplyFor
  <2>10. CASE r.ok
    <3> DEFINE shown == [rows |-> {"rows", "rowsTruncated", "outcome"}]
    <3>1. r.value.is = "rows" /\ r.value.odd \notin WindowShapes["rows"]
      <4>1. A!Fits(r.value, WindowShapes)
          BY <2>3, <2>10 DEF Fair, Brings
      <4>2. DOMAIN WindowShapes = {"rows"}
          BY DEF WindowShapes
      <4>3. QED
          BY <4>1, <4>2 DEF A!Fits
    <3>2. WindowShapes["rows"] = {"rows", "rowsTotal", "rowsTruncated"} \union A!isEgressRow
        BY DEF WindowShapes
    <3>3. x.value.odd \notin {"rows", "rowsTruncated", "outcome"}
        BY <2>7, <3>1, <3>2
    <3>4. x.value.is = "rows"
        BY <2>7, <3>1
    <3>5. A!Fits(x.value, shown)
      <4>1. DOMAIN shown = {"rows"} /\ shown["rows"] = {"rows", "rowsTruncated", "outcome"}
          OBVIOUS
      <4> HIDE DEF shown
      <4>2. QED
          BY <3>3, <3>4, <4>1 DEF A!Fits
    <3>6. A!isEgressWindowSuccess(x)
        BY <2>5, <2>6, <2>10, <3>5 DEF A!isEgressWindowSuccess
    <3>7. QED
        BY <2>1, <2>8, <3>6 DEF Honest, A!Understood
  <2>11. QED
      BY <2>3, <2>9, <2>10
<1>3. QED
    BY <1>1, <1>2

\* A refusal of a brief is grounded that is the worker's own, and its page knows it.
LEMMA BriefRefusalIsSound ==
    ASSUME NEW kind \in {"failed", "save-failed"}, NEW reason,
           reason \in A!OwnReasons \/ (reason = "expired" /\ ask.about = "lapsed")
    PROVE  Honest(A!Refuse(kind, reason))
<1>1. Grounded(A!Refuse(kind, reason))
    BY OwnIsGrounded
<1>2. A!Understood(A!Refuse(kind, reason))
    BY DEF A!Refuse, A!Understood, A!isReplyFor
<1>3. QED
    BY <1>1, <1>2 DEF Honest

\* What a client made of a brief's answer is sound under each of a brief's kinds.
LEMMA BriefReplyIsSound ==
    ASSUME NEW kind \in {"running", "done", "failed", "save-failed"}, NEW route, NEW w, NEW r,
           NEW reasons, NEW shapes, By(route, w) \in A!Evidence, Fair(route, w, r, reasons, shapes)
    PROVE  Honest(A!Reply(kind, r))
<1>1. Grounded(A!Reply(kind, r))
    BY ReplyIsGrounded
<1>2. A!Understood(A!Reply(kind, r))
    BY DEF A!Reply, A!Understood, A!isReplyFor
<1>3. QED
    BY <1>1, <1>2 DEF Honest

\* A report is saved.
LEMMA SaveReplies ==
    ASSUME AnswersType, A!handleBriefSave.kind # "call"
    PROVE  Honest(A!handleBriefSave)
<1> DEFINE w == A!Last("briefSave")
           r == A!saveBrief(w)
           F(x) == x.kind # "call" => Honest(x)
<1>1. F(A!Refuse("save-failed", "not_paired"))
    BY BriefRefusalIsSound DEF A!OwnReasons
<1>2. ask.about = "lapsed" => F(A!Refuse("save-failed", "expired"))
    BY BriefRefusalIsSound
<1>3. F(A!Call("briefSave"))
    BY DEF A!Call
<1>4. A!Times("briefSave") # 0 => F(A!Reply("done", r)) /\ F(A!Reply("save-failed", r))
  <2> SUFFICES ASSUME A!Times("briefSave") # 0
               PROVE  Honest(A!Reply("done", r)) /\ Honest(A!Reply("save-failed", r))
      OBVIOUS
  <2>1. w \in A!Answers("briefSave") /\ By("briefSave", w) \in A!Evidence
      BY RoutesAre, LastIsEvidence
  <2> HIDE DEF w
  <2>2. Fair("briefSave", w, r, BriefReasons, SavedShapes)
      BY <2>1, SaveBriefIsFair
  <2>3. QED
      BY <2>1, <2>2, BriefReplyIsSound
<1> HIDE DEF F
<1>5. F(A!handleBriefSave)
    BY Zenon, <1>1, <1>2, <1>3, <1>4 DEF A!handleBriefSave, A!After
<1>6. QED
    BY <1>5 DEF F

\* How a run stands is told by the page it goes to.
LEMMA SettleRunIsSound ==
    ASSUME NEW w \in A!Answers("briefGet"), By("briefGet", w) \in A!Evidence
    PROVE  Honest(A!settleRun(A!getBrief(w)))
<1> DEFINE r == A!getBrief(w)
<1>1. Fair("briefGet", w, r, BriefReasons, BriefShapes)
    BY GetBriefIsFair
<1> HIDE DEF r
<1>2. Honest(A!Reply("failed", r)) /\ Honest(A!Reply("done", r)) /\ Honest(A!Reply("running", r))
    BY <1>1, BriefReplyIsSound
<1>3. r.value.is = "failed" => Honest(A!Refuse("failed", "synthesis_failed"))
  <2> SUFFICES ASSUME r.value.is = "failed"
               PROVE  Honest(A!Refuse("failed", "synthesis_failed"))
      OBVIOUS
  <2>0. r.ok
    <3>1. A!Null.is = "null"
        BY DEF A!Null, A!Body
    <3>2. QED
        BY <1>1, <3>1 DEF Fair, FailsFairly
  <2> DEFINE x == A!Refuse("failed", "synthesis_failed")
  <2>1. x.kind = "failed" /\ ~x.ok /\ x.reason = "synthesis_failed" /\ x.gap = A!Null
      BY DEF A!Refuse
  <2>2. A!Backs(By("briefGet", w), "synthesis_failed")
      BY <1>1, <2>0 DEF Fair, Brings, A!ResOk, A!Backs, By
  <2> HIDE DEF x
  <2>3. Grounded(x)
      BY <2>1, <2>2 DEF Grounded
  <2>4. A!Understood(x)
      BY <2>1 DEF A!Understood, A!isReplyFor
  <2>5. QED
      BY <2>3, <2>4 DEF Honest, x
<1>4. ~r.ok \/ r.value.is = "failed" \/ r.value.is = "done" \/ r.value.is \in {"collecting", "running"}
  <2>1. r.ok => r.value.is \in DOMAIN BriefShapes
      BY <1>1 DEF Fair, Brings, A!Fits
  <2>2. QED
      BY <2>1 DEF BriefShapes
<1>5. Honest(A!settleRun(r))
    BY Zenon, <1>2, <1>3, <1>4 DEF A!settleRun
<1>6. QED
    BY <1>5 DEF r

\* A brief is started.
LEMMA StartReplies ==
    ASSUME AnswersType, A!handleBriefStart.kind # "call"
    PROVE  Honest(A!handleBriefStart)
<1> DEFINE F(x) == x.kind # "call" => Honest(x)
           made == A!createBrief(A!Last("briefCreate"))
           begun == A!runBrief(A!Last("briefRun"))
           got == A!settleRun(A!getBrief(A!Last("briefGet")))
           run == IF A!Times("briefRun") = 0 THEN A!Call("briefRun")
                  ELSE IF begun.ok THEN IF A!Times("briefGet") = 0 THEN A!Call("briefGet") ELSE got
                  ELSE A!Reply("failed", begun)
<1>1. /\ F(A!Refuse("failed", "not_paired")) /\ F(A!Refuse("failed", "no_sources"))
      /\ F(A!Refuse("failed", "no_sources_captured"))
    BY BriefRefusalIsSound DEF A!OwnReasons
<1>2. F(A!Call("briefCreate")) /\ F(A!Call("briefFeed")) /\ F(A!Call("briefRun")) /\ F(A!Call("briefGet"))
    BY DEF A!Call
<1>3. A!Times("briefCreate") # 0 => F(A!Reply("failed", made))
  <2> DEFINE w == A!Last("briefCreate")
  <2> SUFFICES ASSUME A!Times("briefCreate") # 0
               PROVE  Honest(A!Reply("failed", A!createBrief(w)))
      OBVIOUS
  <2>1. w \in A!Answers("briefCreate") /\ By("briefCreate", w) \in A!Evidence
      BY RoutesAre, LastIsEvidence
  <2> HIDE DEF w
  <2>2. Fair("briefCreate", w, A!createBrief(w), BriefReasons, CreatedShapes)
      BY <2>1, CreateBriefIsFair
  <2>3. QED
      BY <2>1, <2>2, BriefReplyIsSound
<1>4. A!Times("briefRun") # 0 /\ ~begun.ok => F(A!Reply("failed", begun))
  <2> DEFINE w == A!Last("briefRun")
             r == A!runBrief(w)
  <2> SUFFICES ASSUME A!Times("briefRun") # 0, ~r.ok
               PROVE  Honest(A!Reply("failed", r))
      OBVIOUS
  <2>1. w \in A!Answers("briefRun") /\ By("briefRun", w) \in A!Evidence
      BY RoutesAre, LastIsEvidence
  <2> HIDE DEF w
  <2>2. Fair("briefRun", w, r, BriefReasons, BriefShapes)
      BY <2>1, RunBriefIsFair DEF Fair, Brings
  <2>3. QED
      BY <2>1, <2>2, BriefReplyIsSound
<1>5. A!Times("briefGet") # 0 => F(got)
  <2> DEFINE w == A!Last("briefGet")
  <2> SUFFICES ASSUME A!Times("briefGet") # 0
               PROVE  Honest(A!settleRun(A!getBrief(w)))
      OBVIOUS
  <2>1. w \in A!Answers("briefGet") /\ By("briefGet", w) \in A!Evidence
      BY RoutesAre, LastIsEvidence
  <2>2. QED
      BY <2>1, SettleRunIsSound
<1> HIDE DEF F, made, begun, got
<1>6. F(run)
    BY <1>2, <1>4, <1>5
<1> HIDE DEF run
<1>7. F(A!feedAll(run))
    BY Zenon, <1>1, <1>2, <1>6 DEF A!feedAll
<1>8. F(A!handleBriefStart)
    BY Zenon, <1>1, <1>2, <1>3, <1>7 DEF A!handleBriefStart, A!After, run, begun, got, made
<1>9. QED
    BY <1>8 DEF F

\* What a check of a binding may come to.
Checked(r) ==
    /\ r.ok \in BOOLEAN
    /\ r.ok => r.reason = ""
    /\ ~r.ok => /\ r.reason \in ReadReasons /\ r.value.is = "null"
                /\ \/ r.reason = "unsupported" /\ ask.about = "no urn"
                   \/ \E e \in A!Evidence : A!Backs(e, r.reason)
    /\ r.ok => /\ r.value.is \in {"same", "another", "several", "unclaimed"}
               /\ \E e \in A!Evidence : A!ResOk(e.answer) /\ e.answer.body.is = r.value.is

\* A row tells how its binding stands, or why it was not checked.
LEMMA RowIsSound ==
    ASSUME NEW r, Checked(r)
    PROVE  Honest(A!Row(r))
<1> DEFINE x == A!Row(r)
           shapes == [agrees |-> {}, disagrees |-> {"service"}, unclaimed |-> {},
                      ambiguous |-> {"candidates"}, unchecked |-> {}]
           status == CASE ~r.ok -> "unchecked"
                       [] r.value.is = "same" -> "agrees"
                       [] r.value.is = "another" -> "disagrees"
                       [] r.value.is = "several" -> "ambiguous"
                       [] r.value.is = "unclaimed" -> "unclaimed"
<1>1. x.kind = "service-bindings-check" /\ x.ok = TRUE /\ x.gap = A!Null /\ x.reason = r.reason
    BY Zenon DEF A!Row, A!Reply
<1>2. /\ ~r.ok => x.value = A!Body("unchecked", "")
      /\ r.ok /\ r.value.is = "same" => x.value = A!Body("agrees", "")
      /\ r.ok /\ r.value.is = "another" => x.value = A!Body("disagrees", "")
      /\ r.ok /\ r.value.is = "several" => x.value = A!Body("ambiguous", "")
      /\ r.ok /\ r.value.is = "unclaimed" => x.value = A!Body("unclaimed", "")
  <2>1. x.value = A!Body(status, "")
      BY Zenon DEF A!Row, A!Reply
  <2>2. /\ ~r.ok => status = "unchecked"
        /\ r.ok /\ r.value.is = "same" => status = "agrees"
        /\ r.ok /\ r.value.is = "another" => status = "disagrees"
        /\ r.ok /\ r.value.is = "several" => status = "ambiguous"
        /\ r.ok /\ r.value.is = "unclaimed" => status = "unclaimed"
    <3>0. ~r.ok => r.value.is = "null"
        BY DEF Checked
    <3>1. ~r.ok => status = "unchecked"
        BY Zenon, <3>0
    <3>2. r.ok /\ r.value.is = "same" => status = "agrees"
        BY Zenon
    <3>3. r.ok /\ r.value.is = "another" => status = "disagrees"
        BY Zenon
    <3>4. r.ok /\ r.value.is = "several" => status = "ambiguous"
        BY Zenon
    <3>5. r.ok /\ r.value.is = "unclaimed" => status = "unclaimed"
        BY Zenon
    <3>6. QED
        BY <3>1, <3>2, <3>3, <3>4, <3>5
  <2> HIDE DEF x, status
  <2>3. QED
      BY <2>1, <2>2
<1> HIDE DEF x
<1>3. ASSUME NEW is \in {"unchecked", "agrees", "disagrees", "ambiguous", "unclaimed"},
             x.value = A!Body(is, "")
      PROVE  x.value.is = is /\ A!Fits(x.value, shapes)
  <2>1. A!Body(is, "").is = is /\ A!Body(is, "").odd = ""
      BY DEF A!Body
  <2>2. /\ DOMAIN shapes = {"unchecked", "agrees", "disagrees", "ambiguous", "unclaimed"}
        /\ "" \notin shapes["unchecked"] /\ "" \notin shapes["agrees"]
        /\ "" \notin shapes["disagrees"] /\ "" \notin shapes["ambiguous"]
        /\ "" \notin shapes["unclaimed"]
      OBVIOUS
  <2> HIDE DEF shapes
  <2>3. is \in DOMAIN shapes /\ "" \notin shapes[is]
      BY <1>3, <2>2
  <2>4. x.value.is = is /\ x.value.odd = ""
      BY <1>3, <2>1
  <2>5. QED
      BY <2>3, <2>4, WholeFits
<1>4. CASE ~r.ok
  <2>1. x.value.is = "unchecked" /\ A!Fits(x.value, shapes)
      BY <1>2, <1>3, <1>4
  <2>2. A!isServiceBindingsCheckResponse(x)
      BY <1>1, <1>4, <2>1 DEF A!isServiceBindingsCheckResponse, A!isBindingCheckStatus, ReadReasons,
                              ScopedReasons, A!CHECK_UNCHECKED_REASONS, Checked
  <2>3. Grounded(x)
      BY <1>1, <1>4, <2>1 DEF Grounded, A!OwnReason, A!OwnValue, A!OwnValues, Checked
  <2>4. QED
      BY <2>2, <2>3 DEF Honest, A!Understood, x
<1>5. CASE r.ok
  <2>1. /\ x.value.is # "unchecked" /\ A!Fits(x.value, shapes)
        /\ r.value.is \in A!Backing(x.value.is)
    <3>1. r.value.is = "same" => x.value.is = "agrees" /\ A!Fits(x.value, shapes)
        BY <1>2, <1>3, <1>5
    <3>2. r.value.is = "another" => x.value.is = "disagrees" /\ A!Fits(x.value, shapes)
        BY <1>2, <1>3, <1>5
    <3>3. r.value.is = "several" => x.value.is = "ambiguous" /\ A!Fits(x.value, shapes)
        BY <1>2, <1>3, <1>5
    <3>4. r.value.is = "unclaimed" => x.value.is = "unclaimed" /\ A!Fits(x.value, shapes)
        BY <1>2, <1>3, <1>5
    <3>5. "unclaimed" \in A!Backing("unclaimed")
        BY MostAreTheirOwn
    <3>6. QED
        BY <1>5, <3>1, <3>2, <3>3, <3>4, <3>5, OthersAreMadeOf DEF Checked
  <2>2. A!isServiceBindingsCheckResponse(x)
      BY <1>1, <2>1 DEF A!isServiceBindingsCheckResponse, A!isBindingCheckStatus
  <2>3. Grounded(x)
      BY <1>1, <1>5, <2>1 DEF Grounded, Checked
  <2>4. QED
      BY <2>2, <2>3 DEF Honest, A!Understood, x
<1>6. QED
    BY <1>4, <1>5 DEF Checked

\* A table's bindings are checked.
LEMMA CheckReplies ==
    ASSUME AnswersType, A!handleServiceBindingsCheck.kind # "call"
    PROVE  Honest(A!handleServiceBindingsCheck)
<1> DEFINE w == A!Last("servicesResolve")
<1>1. CASE ~paired
    BY <1>1, NotPairedIsSound DEF A!handleServiceBindingsCheck, A!IfPaired
<1>2. CASE paired /\ ask.about = "no urn"
  <2> DEFINE r == A!No("unsupported")
  <2>1. ~r.ok /\ r.ok \in BOOLEAN /\ r.reason = "unsupported" /\ r.value.is = "null"
      BY DEF A!No, A!Null, A!Body
  <2>2. A!handleServiceBindingsCheck = A!Row(r)
      BY <1>2 DEF A!handleServiceBindingsCheck, A!IfPaired
  <2> HIDE DEF r
  <2>3. Checked(r)
      BY <1>2, <2>1 DEF Checked, ReadReasons, ScopedReasons
  <2>4. QED
      BY <2>2, <2>3, RowIsSound
<1>3. CASE paired /\ ask.about # "no urn"
  <2> DEFINE r == A!fetchServiceResolution(w)
  <2>1. A!Times("servicesResolve") # 0 /\ A!handleServiceBindingsCheck = A!Row(r)
      BY <1>3 DEF A!handleServiceBindingsCheck, A!IfPaired, A!After, A!Call
  <2>2. /\ w \in A!Answers("servicesResolve") /\ By("servicesResolve", w) \in A!Evidence
        /\ By("servicesResolve", w).answer = w
      BY <2>1, RoutesAre, LastIsEvidence DEF By
  <2> HIDE DEF w
  <2>3. Fair("servicesResolve", w, r, ReadReasons, ServiceShapes)
      BY <2>2, FetchServiceResolutionIsFair
  <2> HIDE DEF r
  <2>4. ~r.ok => /\ r.reason \in ReadReasons /\ r.value.is = "null"
                 /\ \E e \in A!Evidence : A!Backs(e, r.reason)
    <3>1. A!Null.is = "null"
        BY DEF A!Null, A!Body
    <3>2. QED
        BY <2>2, <2>3, <3>1 DEF Fair, FailsFairly
  <2>5. r.ok => /\ r.value.is \in {"same", "another", "several", "unclaimed"}
                /\ \E e \in A!Evidence : A!ResOk(e.answer) /\ e.answer.body.is = r.value.is
    <3> SUFFICES ASSUME r.ok
                 PROVE  /\ r.value.is \in {"same", "another", "several", "unclaimed"}
                        /\ \E e \in A!Evidence : A!ResOk(e.answer) /\ e.answer.body.is = r.value.is
        OBVIOUS
    <3>1. r.value.is \in DOMAIN ServiceShapes /\ A!ResOk(w) /\ w.body.is \in A!Backing(r.value.is)
        BY <2>3 DEF Fair, Brings, A!Fits
    <3>2. r.value.is \in {"same", "another", "several", "unclaimed"}
        BY <3>1 DEF ServiceShapes
    <3>3. \A is \in {"same", "another", "several", "unclaimed"} : A!Backing(is) = {is}
        BY Zenon DEF A!Backing
    <3>4. w.body.is = r.value.is
        BY <3>1, <3>2, <3>3
    <3>5. QED
        BY <2>2, <3>1, <3>2, <3>4
  <2>6. r.ok \in BOOLEAN /\ (r.ok => r.reason = "")
      BY <2>3 DEF Fair, FailsFairly
  <2>7. Checked(r)
      BY <2>4, <2>5, <2>6 DEF Checked
  <2>8. QED
      BY <2>1, <2>7, RowIsSound
<1>4. QED
    BY <1>1, <1>2, <1>3

\* A deploy whose service is not known.
LEMMA ResolutionIsSound ==
    ASSUME NEW r, r.gap # A!Null => /\ A!isScopeGap(r.gap)
                                    /\ \E e \in A!Evidence : e.answer = A!Answer("403", A!Body("scopes", ""))
    PROVE  Honest(A!resolutionFor(r))
<1> DEFINE x == A!resolutionFor(r)
           shapes == [resolved |-> A!Resolved.service, ambiguous |-> A!Resolved.service,
                      unclaimed |-> {}, forbidden |-> {}, silent |-> {}]
           K(b) == A!Fits(b, shapes)
<1>1. /\ x.kind = "deploy-preflight" /\ x.ok = FALSE /\ x.reason = "unbound"
      /\ x.gap = r.gap
    BY Zenon DEF A!resolutionFor, A!Refuse
<1>2. ASSUME NEW is \in {"resolved", "ambiguous", "unclaimed", "forbidden", "silent"}
      PROVE  K(A!Body(is, ""))
  <2> DEFINE b == A!Body(is, "")
  <2>1. b.is = is /\ b.odd = ""
      BY DEF A!Body
  <2>2. /\ DOMAIN shapes = {"resolved", "ambiguous", "unclaimed", "forbidden", "silent"}
        /\ shapes["resolved"] = A!Resolved.service /\ shapes["ambiguous"] = A!Resolved.service
        /\ shapes["unclaimed"] = {} /\ shapes["forbidden"] = {} /\ shapes["silent"] = {}
      OBVIOUS
  <2>3. "" \notin A!Resolved.service
      BY DEF A!Resolved
  <2> HIDE DEF b, shapes
  <2>4. is \in DOMAIN shapes /\ "" \notin shapes[is]
      BY <1>2, <2>2, <2>3
  <2>5. A!Fits(b, shapes)
      BY <2>1, <2>4, WholeFits
  <2>6. QED
      BY <2>5 DEF b
<1> HIDE DEF shapes
<1>3. /\ K(A!Body("resolved", "")) /\ K(A!Body("ambiguous", "")) /\ K(A!Body("unclaimed", ""))
      /\ K(A!Body("forbidden", "")) /\ K(A!Body("silent", ""))
    BY <1>2
<1> HIDE DEF K
<1>4. K(x.side)
    BY Zenon, <1>3 DEF A!resolutionFor, A!Refuse
<1> HIDE DEF x
<1>5. A!Fits(x.side, shapes)
    BY <1>4 DEF K
<1>6. A!isServiceResolutionOutcome(x)
    BY <1>1, <1>5 DEF A!isServiceResolutionOutcome, shapes, A!NoGapOr
<1>7. A!isDeployPreflightResponse(x)
    BY <1>1, <1>6 DEF A!isDeployPreflightResponse, A!DEPLOY_REFUSALS
<1>8. Grounded(x)
    BY <1>1 DEF Grounded, A!OwnReason, A!OwnReasons
<1>9. QED
    BY <1>7, <1>8 DEF Honest, A!Understood, x

\* Without a pairing a deploy is out of reach.
LEMMA UnreachableIsSound ==
    ASSUME ~paired, NEW kind \in {"deploy-preflight", "service-bind"}
    PROVE  Honest(A!Refuse(kind, "unreachable"))
<1> DEFINE x == A!Refuse(kind, "unreachable")
<1>1. x.kind = kind /\ ~x.ok /\ x.reason = "unreachable"
    BY DEF A!Refuse
<1>2. Grounded(x)
    BY OwnIsGrounded
<1> HIDE DEF x
<1>3. A!Understood(x)
    BY <1>1 DEF A!Understood, A!isDeployPreflightResponse, A!isServiceBindResponse, A!DEPLOY_REFUSALS
<1>4. QED
    BY <1>2, <1>3 DEF Honest, x

\* The ref of a verdict has a basis.
LEMMA BasisIsKnown ==
    ASSUME ask.about \in {"page ref", "item", "branch", "neither"}, A!targetRefFor.kind # "call"
    PROVE  A!isRefBasis(A!Body(A!targetRefFor.is, ""))
<1> DEFINE G(x) == x.kind = "call" \/ x.is \in {"page", "default_branch", "none"}
           basis(is) == [kind |-> "basis", is |-> is]
           shapes == [page |-> {}, default_branch |-> {}, none |-> {}]
<1>1. G(basis("page")) /\ G(basis("default_branch")) /\ G(basis("none")) /\ G(A!Call("items"))
    BY DEF A!Call
<1>2. G(basis(IF A!fetchItemBranch(A!Last("items")).value = A!Null THEN "default_branch" ELSE "page"))
    BY <1>1
<1> HIDE DEF G
<1>3. G(A!targetRefFor)
    BY Zenon, <1>1, <1>2 DEF A!targetRefFor, A!After
<1> DEFINE is == A!targetRefFor.is
           b == A!Body(is, "")
<1>4. is \in {"page", "default_branch", "none"}
    BY <1>3 DEF G
<1>5. b.is = is /\ b.odd = ""
    BY DEF A!Body
<1>6. /\ DOMAIN shapes = {"page", "default_branch", "none"}
      /\ "" \notin shapes["page"] /\ "" \notin shapes["default_branch"] /\ "" \notin shapes["none"]
    OBVIOUS
<1>7. A!Fits(b, shapes) => A!isRefBasis(b)
    BY DEF A!isRefBasis
<1> HIDE DEF is, b, shapes
<1>8. is \in DOMAIN shapes /\ "" \notin shapes[is]
    BY <1>4, <1>6
<1>9. A!isRefBasis(b)
    BY <1>5, <1>7, <1>8, WholeFits
<1>10. QED
    BY <1>9 DEF b, is

\* A verdict on a deploy.
LEMMA DeployReplies ==
    ASSUME AnswersType, A!handleDeployPreflight.kind # "call",
           ask.about \in {"page ref", "item", "branch", "neither", "unbound", "no urn"}
    PROVE  Honest(A!handleDeployPreflight)
<1> DEFINE F(x) == x.kind # "call" => Honest(x)
           r == A!fetchPreflight(A!Last("preflightDeploy"))
           y == A!Reply("deploy-preflight", r)
           verdict == [y EXCEPT !.side = A!Body(A!targetRefFor.is, "")]
           s == A!fetchServiceResolution(A!Last("servicesResolve"))
<1>1. ~paired => F(A!Refuse("deploy-preflight", "unreachable"))
    BY UnreachableIsSound
<1>2. F(A!resolutionFor(A!No("unsupported")))
  <2>1. A!No("unsupported").gap = A!Null
      BY DEF A!No
  <2>2. QED
      BY <2>1, ResolutionIsSound
<1>3. F(A!Call("servicesResolve")) /\ F(A!Call("preflightDeploy"))
    BY DEF A!Call
<1>4. A!targetRefFor.kind = "call" => F(A!targetRefFor)
    OBVIOUS
<1>5. A!Times("servicesResolve") # 0 => F(A!resolutionFor(s))
  <2> DEFINE w == A!Last("servicesResolve")
  <2> SUFFICES ASSUME A!Times("servicesResolve") # 0
               PROVE  Honest(A!resolutionFor(A!fetchServiceResolution(w)))
      OBVIOUS
  <2>1. /\ w \in A!Answers("servicesResolve") /\ By("servicesResolve", w) \in A!Evidence
        /\ By("servicesResolve", w).answer = w
      BY RoutesAre, LastIsEvidence DEF By
  <2> HIDE DEF w
  <2>2. Fair("servicesResolve", w, A!fetchServiceResolution(w), ReadReasons, ServiceShapes)
      BY <2>1, FetchServiceResolutionIsFair
  <2>3. QED
      BY <2>1, <2>2, ResolutionIsSound DEF Fair, FailsFairly
<1>6. /\ A!Times("preflightDeploy") # 0 /\ A!targetRefFor.kind # "call"
      /\ ask.about \in {"page ref", "item", "branch", "neither"}
      => F(verdict)
  <2> DEFINE w == A!Last("preflightDeploy")
  <2> SUFFICES ASSUME A!Times("preflightDeploy") # 0, A!targetRefFor.kind # "call",
                      ask.about \in {"page ref", "item", "branch", "neither"}
               PROVE  Honest(verdict)
      OBVIOUS
  <2>1. w \in A!Answers("preflightDeploy") /\ By("preflightDeploy", w) \in A!Evidence
      BY RoutesAre, LastIsEvidence
  <2>2. Fair("preflightDeploy", w, r, JsonReasons, PreflightShapes)
      BY <2>1, FetchPreflightIsFair
  <2> HIDE DEF w, r
  <2>3. Grounded(y)
      BY <2>1, <2>2, ReplyIsGrounded
  <2>4. /\ y.kind = "deploy-preflight" /\ y.ok = r.ok /\ y.reason = r.reason /\ y.value = r.value
        /\ y.gap = r.gap
      BY DEF A!Reply
  <2>5. /\ verdict.kind = y.kind /\ verdict.ok = y.ok /\ verdict.reason = y.reason
        /\ verdict.value = y.value /\ verdict.gap = y.gap
        /\ verdict.side = A!Body(A!targetRefFor.is, "")
      BY Zenon DEF A!Reply
  <2>6. A!isRefBasis(verdict.side)
      BY <2>5, BasisIsKnown
  <2> HIDE DEF verdict, y
  <2>7. Grounded(verdict)
      BY <2>3, <2>5 DEF Grounded, A!OwnReason, A!OwnValue
  <2>8. /\ r.ok => A!parseDeployPreflight(r.value) # A!Null
        /\ ~r.ok => r.reason \in JsonReasons
      BY <2>2, PreflightTwice DEF Fair, Brings, FailsFairly
  <2>9. A!isDeployPreflightResponse(verdict)
      BY <2>4, <2>5, <2>6, <2>8 DEF A!isDeployPreflightResponse, A!DEPLOY_REFUSALS, JsonReasons
  <2>10. QED
      BY <2>7, <2>9 DEF Honest, A!Understood
<1>7. /\ paired /\ ~(ask.about = "no urn") /\ ~(ask.about = "unbound")
      => ask.about \in {"page ref", "item", "branch", "neither"}
    OBVIOUS
<1> HIDE DEF F
<1>8. F(A!handleDeployPreflight)
    BY Zenon, <1>1, <1>2, <1>3, <1>4, <1>5, <1>6, <1>7 DEF A!handleDeployPreflight, A!After
<1>9. QED
    BY <1>8 DEF F

\* A service is bound that a check knows.
LEMMA BindReplies ==
    ASSUME AnswersType, A!handleServiceBind.kind # "call"
    PROVE  Honest(A!handleServiceBind)
<1> DEFINE w == A!Last("preflightDeploy")
           r == A!fetchPreflight(w)
           x == A!Refuse("service-bind", "unknown_service")
           y == A!Reply("service-bind", r)
<1>1. CASE ~paired
    BY <1>1, UnreachableIsSound DEF A!handleServiceBind
<1>2. CASE paired
  <2>1. /\ A!Times("preflightDeploy") # 0
        /\ r.value.is = "unknown_service" => A!handleServiceBind = x
        /\ r.value.is # "unknown_service" => A!handleServiceBind = y
      BY <1>2 DEF A!handleServiceBind, A!After, A!Call
  <2>2. w \in A!Answers("preflightDeploy") /\ By("preflightDeploy", w) \in A!Evidence
      BY <2>1, RoutesAre, LastIsEvidence
  <2> HIDE DEF w
  <2>3. Fair("preflightDeploy", w, r, JsonReasons, PreflightShapes)
      BY <2>2, FetchPreflightIsFair
  <2> HIDE DEF r
  <2>4. CASE r.value.is = "unknown_service"
    <3>1. A!Null.is = "null"
        BY DEF A!Null, A!Body
    <3>2. r.ok
        BY <2>3, <2>4, <3>1 DEF Fair, FailsFairly
    <3>3. A!Backs(By("preflightDeploy", w), "unknown_service")
        BY <2>3, <3>2 DEF Fair, Brings, A!ResOk, A!Backs, By
    <3>4. x.kind = "service-bind" /\ ~x.ok /\ x.reason = "unknown_service" /\ x.gap = A!Null
        BY DEF A!Refuse
    <3> HIDE DEF x
    <3>5. Grounded(x)
        BY <2>2, <3>3, <3>4 DEF Grounded
    <3>6. A!isServiceBindResponse(x)
        BY <3>4 DEF A!isServiceBindResponse
    <3>7. QED
        BY <2>1, <2>4, <3>5, <3>6 DEF Honest, A!Understood
  <2>5. CASE r.value.is # "unknown_service"
    <3>1. Grounded(y)
        BY <2>2, <2>3, ReplyIsGrounded
    <3>2. y.kind = "service-bind" /\ y.ok = r.ok /\ y.reason = r.reason
        BY DEF A!Reply
    <3>3. ~r.ok => r.reason \in JsonReasons
        BY <2>3 DEF Fair, FailsFairly
    <3> HIDE DEF y
    <3>4. A!isServiceBindResponse(y)
        BY <3>2, <3>3 DEF A!isServiceBindResponse, JsonReasons
    <3>5. QED
        BY <2>1, <2>5, <3>1, <3>4 DEF Honest, A!Understood
  <2>6. QED
      BY <2>4, <2>5
<1>3. QED
    BY <1>1, <1>2

(* The invariant of the requests.                                          *)

\* The stored state of a lane as its panels expect it.
LaneShapes ==
    [collapsed |-> {}, running |-> {"runId"}, done |-> A!LaneMembers,
     linked |-> A!LaneMembers \union {"row", "foreign"}]

\* A lane's state has come of the answers that are told with it.
LaneIsTold(state, of) ==
    /\ state.ok \in BOOLEAN
    /\ state.ok =>
        /\ state.reason = "" /\ state.gap = A!Null /\ A!Fits(state.value, LaneShapes)
        /\ state.value.is # "collapsed" =>
            \E e \in of : A!ResOk(e.answer) /\ e.answer.body.is \in A!Backing(state.value.is)
    /\ ~state.ok =>
        /\ state.reason \in A!AGENT_ERRORS /\ state.value = A!Null
        /\ state.reason \in A!OwnReasons \/ \E e \in of : A!Backs(e, state.reason)
        /\ state.gap # A!Null => /\ A!isScopeGap(state.gap)
                                 /\ \E e \in of : e.answer = A!Answer("403", A!Body("scopes", ""))

ToldAnswers == {told[i] : i \in DOMAIN told}

\* While a lane's run goes on, what is told is its acceptance and the last poll.
RunIsTold ==
    lane.value.is = "running" =>
        /\ lane = A!Ok(A!Body("running", ""))
        /\ \/ told = <<told[1]>>
           \/ /\ told = <<told[1], told[2]>>
              /\ \E w \in A!Answers("agentRuns") : told[2] = By("agentRuns", w)
        /\ told[1].route = "agents"
        /\ A!ResOk(told[1].answer) /\ told[1].answer.body.is = "accepted"

AnswersInv ==
    /\ AnswersType
    /\ LaneIsTold(lane, ToldAnswers)
    /\ RunIsTold
    /\ \/ told = <<>> \/ told = <<told[1]>> \/ told = <<told[1], told[2]>>
       \/ told = <<told[1], told[2], told[3]>>
    /\ reply = A!NoReply /\ ask.kind = "agent-run" /\ A!Times("agents") # 0 =>
            lane.value.is \notin {"running", "done", "linked"}
    /\ A!RepliesAreUnderstood
    /\ A!NothingIsMadeUp

\* A lane's reply by its members.
LEMMA LaneReplyIs ==
    ASSUME NEW state
    PROVE  /\ A!LaneReply(state).kind = "agent-state" /\ A!LaneReply(state).ok = TRUE
           /\ A!LaneReply(state).reason = state.reason /\ A!LaneReply(state).gap = state.gap
           /\ state.ok => A!LaneReply(state).value = state.value
           /\ ~state.ok => A!LaneReply(state).value = A!Body("failed", "")
BY Zenon DEF A!LaneReply, A!Reply

\* A reply with a lane's state is understood and grounded where the state is told.
LEMMA LaneReplyIsHonest ==
    ASSUME NEW state, NEW of, LaneIsTold(state, of), of \subseteq A!Evidence
    PROVE  Honest(A!LaneReply(state))
<1> DEFINE x == A!LaneReply(state)
           shapes == [collapsed |-> {}, running |-> {"runId"}, done |-> A!LaneMembers,
                      linked |-> A!LaneMembers \union {"row", "foreign"}, failed |-> {}]
<1>1. /\ x.kind = "agent-state" /\ x.ok = TRUE /\ x.reason = state.reason /\ x.gap = state.gap
      /\ state.ok => x.value = state.value
      /\ ~state.ok => x.value = A!Body("failed", "")
    BY LaneReplyIs
<1> HIDE DEF x
<1>2. CASE state.ok
  <2>1. /\ x.reason = "" /\ x.gap = A!Null /\ A!Fits(x.value, LaneShapes)
        /\ x.value.is # "collapsed" =>
              \E e \in A!Evidence : A!ResOk(e.answer) /\ e.answer.body.is \in A!Backing(x.value.is)
      BY <1>1, <1>2 DEF LaneIsTold
  <2>2. x.value.is \in {"collapsed", "running", "done", "linked"} /\ A!Fits(x.value, shapes)
    <3>1. /\ DOMAIN LaneShapes = {"collapsed", "running", "done", "linked"}
          /\ DOMAIN shapes = {"collapsed", "running", "done", "linked", "failed"}
        BY DEF LaneShapes
    <3>2. /\ LaneShapes["collapsed"] = shapes["collapsed"] /\ LaneShapes["running"] = shapes["running"]
          /\ LaneShapes["done"] = shapes["done"] /\ LaneShapes["linked"] = shapes["linked"]
        BY DEF LaneShapes
    <3> HIDE DEF shapes
    <3>3. QED
        BY <2>1, <3>1, <3>2 DEF A!Fits
  <2>3. A!isAgentStateResponse(x)
      BY <1>1, <2>2 DEF A!isAgentStateResponse, A!isLaneState
  <2>4. Grounded(x)
      BY <2>1 DEF Grounded, A!OwnValue, A!OwnValues
  <2>5. QED
      BY <2>3, <2>4 DEF Honest, A!Understood, x
<1>3. CASE ~state.ok
  <2>1. x.value.is = "failed" /\ x.value.odd = ""
    <3>1. A!Body("failed", "").is = "failed" /\ A!Body("failed", "").odd = ""
        BY DEF A!Body
    <3>2. QED
        BY <1>1, <1>3, <3>1
  <2>2. A!Fits(x.value, shapes)
    <3>1. "failed" \in DOMAIN shapes /\ "" \notin shapes["failed"]
        OBVIOUS
    <3> HIDE DEF shapes
    <3>2. QED
        BY <2>1, <3>1, WholeFits
  <2>3. /\ x.reason \in A!AGENT_ERRORS
        /\ x.reason \in A!OwnReasons \/ \E e \in A!Evidence : A!Backs(e, x.reason)
        /\ x.gap # A!Null => /\ A!isScopeGap(x.gap)
                             /\ \E e \in A!Evidence : e.answer = A!Answer("403", A!Body("scopes", ""))
      BY <1>1, <1>3 DEF LaneIsTold
  <2>4. A!isAgentStateResponse(x)
      BY <1>1, <2>2, <2>3 DEF A!isAgentStateResponse, A!isLaneState, A!isAgentError, A!NoGapOr
  <2>5. Grounded(x)
      BY <2>1, <2>3 DEF Grounded, A!OwnValue, A!OwnValues, A!OwnReason
  <2>6. QED
      BY <2>4, <2>5 DEF Honest, A!Understood, x
<1>4. QED
    BY <1>2, <1>3

\* A reason of the worker's own is a lane's state as it is.
LEMMA OwnIsTold ==
    ASSUME NEW of, NEW reason \in {"no_term", "not_resolved", "not_paired"}
    PROVE  LaneIsTold(A!No(reason), of)
BY DEF LaneIsTold, A!No, A!AGENT_ERRORS, A!OwnReasons

\* So is a client's failure.
LEMMA FailureIsTold ==
    ASSUME NEW of, NEW route, NEW w, NEW r, NEW reasons, FailsFairly(route, w, r, reasons), ~r.ok,
           reasons \subseteq A!AGENT_ERRORS, By(route, w) \in of
    PROVE  LaneIsTold(r, of)
<1>1. By(route, w).answer = w
    BY DEF By
<1>2. QED
    BY <1>1 DEF LaneIsTold, FailsFairly

\* The reasons of the clients a lane asks are a lane's.
LEMMA LaneReasons == ScopedReasons \subseteq A!AGENT_ERRORS /\ RunReasons \subseteq A!AGENT_ERRORS
BY DEF ScopedReasons, RunReasons, A!AGENT_ERRORS

\* What a lane is about is found first.
LEMMA ResolveForAgentReplies ==
    ASSUME AnswersType, NEW step, step.kind # "call" => Honest(step),
           A!resolveForAgent(step).kind # "call",
           ask.about \in {"item", "item, picked", "home", "file", "no coordinate", "unrecognised",
                          "term", "no term"}
    PROVE  Honest(A!resolveForAgent(step))
<1> DEFINE F(x) == x.kind # "call" => Honest(x)
           r == A!resolveItem(A!Last("resolve"))
           item == IF A!Times("resolve") = 0 THEN A!Call("resolve") ELSE A!resolveItemLane(r, step)
<1>1. /\ F(A!LaneReply(A!No("no_term"))) /\ F(A!LaneReply(A!No("not_resolved")))
      /\ F(A!LaneReply(A!No("not_paired")))
    BY OwnIsTold, LaneReplyIsHonest
<1>2. F(step)
    OBVIOUS
<1>3. F(A!Call("resolve"))
    BY DEF A!Call
<1>4. A!Times("resolve") # 0 /\ ~r.ok => F(A!LaneReply(r))
  <2> DEFINE w == A!Last("resolve")
  <2> SUFFICES ASSUME A!Times("resolve") # 0, ~A!resolveItem(w).ok
               PROVE  Honest(A!LaneReply(A!resolveItem(w)))
      OBVIOUS
  <2>1. w \in A!Answers("resolve") /\ By("resolve", w) \in A!Evidence
      BY RoutesAre, LastIsEvidence
  <2> HIDE DEF w
  <2>2. FailsFairly("resolve", w, A!resolveItem(w), ScopedReasons)
      BY <2>1, ResolveItemIsFair DEF Fair
  <2>3. LaneIsTold(A!resolveItem(w), A!Evidence)
      BY <2>1, <2>2, FailureIsTold, LaneReasons
  <2>4. QED
      BY <2>3, LaneReplyIsHonest
<1> HIDE DEF F, r
<1>5. A!Times("resolve") # 0 => F(A!resolveItemLane(r, step))
    BY Zenon, <1>1, <1>2, <1>4 DEF A!resolveItemLane
<1>6. F(item)
    BY <1>3, <1>5
<1> HIDE DEF item
<1>7. \/ ask.about = "no term" \/ ask.about = "unrecognised"
      \/ ask.about \notin {"no term", "unrecognised"} /\ ~paired
      \/ ask.about = "no coordinate" /\ paired
      \/ ask.about \in {"term", "home", "file"} /\ paired
      \/ ask.about \in {"item", "item, picked"} /\ paired
    OBVIOUS
<1>8. F(A!resolveForAgent(step))
    BY Zenon, <1>1, <1>2, <1>6, <1>7 DEF A!resolveForAgent, A!After, item, r
<1>9. QED
    BY <1>8 DEF F

\* A run that was accepted is one that goes on.
LEMMA AcceptedIsTold ==
    ASSUME NEW of, NEW w \in A!Answers("agents"), A!invokeAgent(w).ok, By("agents", w) \in of
    PROVE  /\ LaneIsTold(A!Ok(A!Body("running", "")), of)
           /\ A!ResOk(w) /\ w.body.is = "accepted"
<1> DEFINE r == A!invokeAgent(w)
           b == A!Body("running", "")
           state == A!Ok(b)
<1>1. InvokeIsFair(w, r)
    BY InvokeAgentIsFair
<1>2. A!No("busy").ok = FALSE
    BY DEF A!No
<1> HIDE DEF r
<1>3. Fair("agents", w, r, ScopedReasons, AcceptedShapes) /\ r.ok
    BY <1>1, <1>2 DEF InvokeIsFair, r
<1>4. A!ResOk(w) /\ w.body.is \in A!Backing(r.value.is) /\ r.value.is = "accepted"
  <2>1. DOMAIN AcceptedShapes = {"accepted"}
      BY DEF AcceptedShapes
  <2>2. QED
      BY <1>3, <2>1 DEF Fair, Brings, A!Fits
<1>5. A!Backing("accepted") = {"accepted"}
    BY Zenon DEF A!Backing
<1>6. state.ok = TRUE /\ state.reason = "" /\ state.value = b /\ state.gap = A!Null
    BY DEF A!Ok
<1>7. b.is = "running" /\ b.odd = ""
    BY DEF A!Body
<1> HIDE DEF state, b
<1>8. A!Fits(b, LaneShapes)
  <2>1. "running" \in DOMAIN LaneShapes /\ "" \notin LaneShapes["running"]
      BY DEF LaneShapes
  <2>2. QED
      BY <1>7, <2>1, WholeFits
<1>9. By("agents", w).answer = w
    BY DEF By
<1>10. LaneIsTold(state, of)
    BY <1>4, <1>5, <1>6, <1>7, <1>8, <1>9, OthersAreMadeOf DEF LaneIsTold
<1>11. w.body.is = "accepted"
    BY <1>4, <1>5
<1>12. LaneIsTold(A!Ok(A!Body("running", "")), of)
    BY <1>10 DEF state, b
<1>13. QED
    BY <1>4, <1>11, <1>12

\* A run is asked for, once more when there was no slot.
LEMMA InvokeReplies ==
    ASSUME AnswersType, A!invokeWithRetry.kind # "call"
    PROVE  Honest(A!invokeWithRetry)
<1> DEFINE F(x) == x.kind # "call" => Honest(x)
           w == A!Last("agents")
           r == A!invokeAgent(w)
<1>1. F(A!Call("agents"))
    BY DEF A!Call
<1>2. A!Times("agents") # 0 => /\ w \in A!Answers("agents") /\ By("agents", w) \in A!Evidence
                               /\ InvokeIsFair(w, r)
    BY RoutesAre, LastIsEvidence, InvokeAgentIsFair
<1> HIDE DEF w
<1>3. A!Times("agents") # 0 /\ r.ok => F(A!LaneReply(A!Ok(A!Body("running", ""))))
    BY <1>2, AcceptedIsTold, LaneReplyIsHonest
<1> HIDE DEF r
<1>4. A!No("busy").ok = FALSE /\ A!No("busy").reason = "busy"
    BY DEF A!No
<1>5. A!Times("agents") # 0 /\ r.reason = "busy" => F(A!LaneReply(A!No("server_error")))
  <2> SUFFICES ASSUME A!Times("agents") # 0, r.reason = "busy"
               PROVE  Honest(A!LaneReply(A!No("server_error")))
      BY DEF F
  <2>1. w.status = "429"
      BY <1>2 DEF InvokeIsFair, Fair, FailsFairly, ScopedReasons
  <2>2. Fair("agents", w, A!No("server_error"), ScopedReasons, AcceptedShapes)
    <3>1. ~A!Silent(w)
        BY <1>2, <2>1, AnswerIsOne
    <3>2. QED
        BY <1>2, <2>1, <3>1, ServerErrorIsFair DEF ScopedReasons
  <2>3. ~A!No("server_error").ok
      BY DEF A!No
  <2>4. LaneIsTold(A!No("server_error"), A!Evidence)
      BY <1>2, <2>2, <2>3, FailureIsTold, LaneReasons DEF Fair
  <2>5. QED
      BY <2>4, LaneReplyIsHonest
<1>6. A!Times("agents") # 0 /\ ~r.ok /\ r.reason # "busy" => F(A!LaneReply(r))
  <2> SUFFICES ASSUME A!Times("agents") # 0, ~r.ok, r.reason # "busy"
               PROVE  Honest(A!LaneReply(r))
      BY DEF F
  <2>1. Fair("agents", w, r, ScopedReasons, AcceptedShapes)
      BY <1>2, <1>4 DEF InvokeIsFair
  <2>2. LaneIsTold(r, A!Evidence)
      BY <1>2, <2>1, FailureIsTold, LaneReasons DEF Fair
  <2>3. QED
      BY <2>2, LaneReplyIsHonest
<1> HIDE DEF F
<1>7. F(A!invokeWithRetry)
    BY Zenon, <1>1, <1>3, <1>5, <1>6 DEF A!invokeWithRetry, A!After, r, w
<1>8. QED
    BY <1>7 DEF F

\* What is told of a lane is evidence for its panels.
LEMMA ToldIsEvidence ==
    ASSUME ask.kind \in {"agent-run", "agent-state"}
    PROVE  ToldAnswers \subseteq A!Evidence
<1> SUFFICES ASSUME NEW i \in DOMAIN told PROVE told[i] \in A!Evidence
    BY DEF ToldAnswers
<1>1. told[i] \in {told[j] : j \in DOMAIN told}
    OBVIOUS
<1>2. told[i] \in (IF ask.kind \in {"agent-run", "agent-state"} THEN {told[j] : j \in DOMAIN told} ELSE {})
    BY <1>1
<1>3. QED
    BY Zenon, <1>2 DEF A!Evidence

\* A lane is asked for, or shown as it is.
LEMMA AgentReplies ==
    ASSUME AnswersType, LaneIsTold(lane, ToldAnswers),
           ask.kind \in {"agent-run", "agent-state"},
           ask.about \in {"item", "item, picked", "home", "file", "no coordinate", "unrecognised",
                          "term", "no term"}
    PROVE  /\ A!handleAgentRun.kind # "call" => Honest(A!handleAgentRun)
           /\ A!handleAgentState.kind # "call" => Honest(A!handleAgentState)
<1>1. ToldAnswers \subseteq A!Evidence
    BY ToldIsEvidence
<1>2. Honest(A!LaneReply(lane))
    BY <1>1, LaneReplyIsHonest
<1>3. CASE lane.value.is \in {"running", "done", "linked"}
    BY <1>2, <1>3, ResolveForAgentReplies DEF A!handleAgentRun, A!handleAgentState
<1>4. CASE lane.value.is \notin {"running", "done", "linked"}
    BY <1>2, <1>4, InvokeReplies, ResolveForAgentReplies DEF A!handleAgentRun, A!handleAgentState
<1>5. QED
    BY <1>3, <1>4
----------------------------------------------------------------------------
(* Every handler.                                                          *)

\* What the pages of a request may be about.
LEMMA AboutsAre ==
    /\ A!Abouts("resolve") = {"item", "home", "file", "no coordinate", "unrecognised"}
    /\ A!Abouts("agent-run") = {"item", "item, picked", "home", "file", "no coordinate",
                                "unrecognised", "term", "no term"}
    /\ A!Abouts("agent-state") = A!Abouts("agent-run")
    /\ A!Abouts("deploy-preflight") = {"page ref", "item", "branch", "neither", "unbound", "no urn"}
BY Zenon DEF A!Abouts

\* A handler that does not ask on replies with what is understood and was said.
LEMMA HandlerReplies ==
    ASSUME AnswersType, LaneIsTold(lane, ToldAnswers), A!handler(ask.kind).kind # "call"
    PROVE  Honest(A!handler(ask.kind))
<1> DEFINE F(x) == x.kind # "call" => Honest(x)
<1>1. /\ F(A!handlePair) /\ F(A!handleClip) /\ F(A!handleClipLookup) /\ F(A!handleRelated)
      /\ F(A!handleRecognise) /\ F(A!handleFetch)
    BY PairReplies, ClipReplies, ClipLookupReplies, RelatedReplies, RecogniseReplies, FetchReplies
<1>2. /\ F(A!handleConnectionStatus) /\ F(A!handleDiscover) /\ F(A!handleServiceBind)
      /\ F(A!handleServiceUnbind) /\ F(A!handleServiceBindingsList)
      /\ F(A!handleServiceBindingsCheck)
    BY ConnectionReplies, DiscoverReplies, BindReplies, UnbindReplies, ListReplies, CheckReplies
<1>3. /\ F(A!handleDoraMetrics) /\ F(A!handleMetricsStats) /\ F(A!handleEgressWindow)
      /\ F(A!handleEgressVerify) /\ F(A!handleEgressProve)
      /\ F(A!handleBriefStart) /\ F(A!handleBriefSave)
    BY DoraReplies, StatsReplies, WindowReplies, VerifyReplies, ProveReplies, StartReplies, SaveReplies
<1>4. ask.kind \in A!Kinds /\ ask.about \in A!Abouts(ask.kind)
    BY DEF AnswersType
<1>5. ask.kind = "resolve" => F(A!handleResolve)
    BY <1>4, AboutsAre, ResolveReplies
<1>6. ask.kind = "deploy-preflight" => F(A!handleDeployPreflight)
    BY <1>4, AboutsAre, DeployReplies
<1>7. /\ ask.kind = "agent-run" => F(A!handleAgentRun)
      /\ ask.kind = "agent-state" => F(A!handleAgentState)
    BY <1>4, AboutsAre, AgentReplies
<1> HIDE DEF F
<1>8. \/ ask.kind = "pair" \/ ask.kind = "clip" \/ ask.kind = "clip-lookup" \/ ask.kind = "related"
      \/ ask.kind = "recognition" \/ ask.kind = "resolve" \/ ask.kind = "fetch"
      \/ ask.kind = "agent-run" \/ ask.kind = "agent-state" \/ ask.kind = "connection"
      \/ ask.kind = "discover" \/ ask.kind = "deploy-preflight" \/ ask.kind = "service-bind"
      \/ ask.kind = "service-unbind" \/ ask.kind = "service-bindings-list"
      \/ ask.kind = "service-bindings-check" \/ ask.kind = "dora-metrics"
      \/ ask.kind = "metrics-stats" \/ ask.kind = "egress-window" \/ ask.kind = "egress-verify"
      \/ ask.kind = "egress-prove" \/ ask.kind = "brief-start" \/ ask.kind = "brief-save"
    BY <1>4 DEF A!Kinds
<1>9. F(A!handler(ask.kind))
    BY Zenon, <1>1, <1>2, <1>3, <1>5, <1>6, <1>7, <1>8 DEF A!handler
<1>10. QED
    BY <1>9 DEF F

\* The answer of a route whose handler rejected is understood.
LEMMA CatchReplyIsUnderstood ==
    ASSUME NEW kind \in A!Kinds
    PROVE  A!Understood(A!catchReply(kind))
<1> DEFINE F(r) == A!Understood(r)
           none == A!Reply(kind, A!Ok(A!Body("none", "")))
           unpaired == A!Reply(kind, A!Ok(A!Body("unpaired", "")))
           failed == A!LaneReply(A!No("server_error"))
<1>1. kind = "clip-lookup" => F(none)
  <2>1. none.kind = kind /\ none.value.is = "none" /\ none.value.odd = ""
      BY DEF A!Reply, A!Ok, A!Body
  <2> DEFINE shapes == [none |-> {}, clipped |-> {"modified_at"}, indexed |-> {"modified_at"}]
  <2>4. "none" \in DOMAIN shapes /\ "" \notin shapes["none"]
      OBVIOUS
  <2> HIDE DEF none, shapes
  <2>5. A!Fits(none.value, shapes)
      BY <2>1, <2>4, WholeFits
  <2>2. A!Fits(none.value, [none |-> {}, clipped |-> {"modified_at"}, indexed |-> {"modified_at"}])
      BY <2>5 DEF shapes
  <2>3. QED
      BY <2>1, <2>2 DEF A!Understood, A!isClipLookupResponse
<1>2. kind = "connection" => F(unpaired)
  <2>1. unpaired.kind = kind /\ unpaired.value.is = "unpaired" /\ unpaired.value.odd = ""
      BY DEF A!Reply, A!Ok, A!Body
  <2> DEFINE shapes == [unpaired |-> {}, reachable |-> {}, unreachable |-> {}]
  <2>4. "unpaired" \in DOMAIN shapes /\ "" \notin shapes["unpaired"]
      OBVIOUS
  <2> HIDE DEF unpaired, shapes
  <2>5. A!Fits(unpaired.value, shapes)
      BY <2>1, <2>4, WholeFits
  <2>2. A!Fits(unpaired.value, [unpaired |-> {}, reachable |-> {}, unreachable |-> {}])
      BY <2>5 DEF shapes
  <2>3. QED
      BY <2>1, <2>2 DEF A!Understood, A!isConnectionResponse
<1>3. F(failed)
  <2> DEFINE shapes == [collapsed |-> {}, running |-> {"runId"}, done |-> A!LaneMembers,
                        linked |-> A!LaneMembers \union {"row", "foreign"}, failed |-> {}]
  <2>1. A!No("server_error").ok = FALSE /\ A!No("server_error").reason = "server_error"
        /\ A!No("server_error").gap = A!Null
      BY DEF A!No
  <2>2. /\ failed.kind = "agent-state" /\ failed.reason = "server_error" /\ failed.gap = A!Null
        /\ failed.value = A!Body("failed", "")
      BY <2>1, LaneReplyIs
  <2>3. A!Body("failed", "").is = "failed" /\ A!Body("failed", "").odd = ""
      BY DEF A!Body
  <2>4. "failed" \in DOMAIN shapes /\ "" \notin shapes["failed"]
      OBVIOUS
  <2> HIDE DEF shapes, failed
  <2>5. failed.value.is = "failed" /\ failed.value.odd = ""
      BY <2>2, <2>3
  <2>6. A!Fits(failed.value, shapes)
      BY <2>4, <2>5, WholeFits
  <2>7. A!isAgentError(failed.reason)
      BY <2>2 DEF A!isAgentError, A!AGENT_ERRORS
  <2>8. A!isAgentStateResponse(failed)
      BY <2>2, <2>6, <2>7 DEF A!isAgentStateResponse, A!isLaneState, A!NoGapOr, shapes
  <2>9. QED
      BY <2>8 DEF A!Understood
<1>4. ASSUME NEW of, \/ of \in {"service-bind", "failed"}
                     \/ of = kind /\ of \notin {"clip-lookup", "agent-run", "agent-state", "connection",
                                                "service-unbind", "brief-start", "brief-save"}
      PROVE  F(A!Refuse(of, "server_error"))
  <2> DEFINE r == A!Refuse(of, "server_error")
  <2>1. r.kind = of /\ ~r.ok /\ r.reason = "server_error" /\ r.gap = A!Null
      BY DEF A!Refuse
  <2> HIDE DEF r
  <2>2. of \in {"service-bind", "failed", "pair", "clip", "related", "recognition", "resolve", "fetch",
                "discover", "deploy-preflight", "service-bindings-list", "service-bindings-check",
                "dora-metrics", "metrics-stats", "egress-window", "egress-verify", "egress-prove"}
      BY <1>4 DEF A!Kinds
  <2>3. A!Understood(r)
      BY <2>1, <2>2 DEF A!Understood, A!isReplyFor, A!isServiceBindResponse, A!isRelatedResponse,
            A!isRecognitionResponse, A!isResolveResponse, A!isFetchResponse, A!NoGapOr,
            A!isDeployPreflightResponse, A!DEPLOY_REFUSALS, A!isServiceBindingsListResponse,
            A!isServiceBindingsCheckResponse, A!isDoraMetricsResponse, A!DORA_READ_FAILURES,
            A!isMetricsStatsResponse, A!STATS_READ_FAILURES
  <2>4. QED
      BY <2>3 DEF r
<1>5. /\ F(A!Refuse("service-bind", "server_error")) /\ F(A!Refuse("failed", "server_error"))
      /\ kind # "clip-lookup" /\ kind \notin {"agent-run", "agent-state"} /\ kind # "connection"
         /\ kind # "service-unbind" /\ kind \notin {"brief-start", "brief-save"}
         => F(A!Refuse(kind, "server_error"))
    BY <1>4
<1> HIDE DEF F
<1>6. F(A!catchReply(kind))
    BY Zenon, <1>1, <1>2, <1>3, <1>5 DEF A!catchReply, none, unpaired, failed
<1>7. QED
    BY <1>6 DEF F

\* A lane is running once its run was accepted.
LEMMA RunningIsAccepted ==
    ASSUME A!Times("agents") # 0, lane.value.is \notin {"running", "done", "linked"},
           A!handleAgentRun.kind # "call", A!handleAgentRun.value.is = "running",
           ask.about \in {"item", "item, picked", "home", "file", "no coordinate", "unrecognised",
                          "term", "no term"}
    PROVE  /\ A!handleAgentRun = A!LaneReply(A!Ok(A!Body("running", "")))
           /\ A!invokeAgent(A!Last("agents")).ok
<1> DEFINE w == A!Last("agents")
           r == A!invokeAgent(w)
           F(x) == x.kind # "call" /\ x.value.is = "running" =>
                       x = A!LaneReply(A!Ok(A!Body("running", ""))) /\ r.ok
           step == A!invokeWithRetry
           found == A!resolveItem(A!Last("resolve"))
           item == IF A!Times("resolve") = 0 THEN A!Call("resolve") ELSE A!resolveItemLane(found, step)
<1>1. ASSUME NEW state, ~state.ok
      PROVE  F(A!LaneReply(state))
  <2>1. A!LaneReply(state).value = A!Body("failed", "")
      BY <1>1, LaneReplyIs
  <2>2. A!Body("failed", "").is = "failed"
      BY DEF A!Body
  <2>3. QED
      BY <2>1, <2>2
<1>2. F(A!Call("agents")) /\ F(A!Call("resolve"))
    BY DEF A!Call
<1>3. /\ ~A!No("server_error").ok /\ ~A!No("no_term").ok /\ ~A!No("not_resolved").ok
      /\ ~A!No("not_paired").ok
    BY DEF A!No
<1>4. /\ F(A!LaneReply(A!No("server_error"))) /\ F(A!LaneReply(A!No("no_term")))
      /\ F(A!LaneReply(A!No("not_resolved"))) /\ F(A!LaneReply(A!No("not_paired")))
    BY <1>1, <1>3
<1>5. r.ok => F(A!LaneReply(A!Ok(A!Body("running", ""))))
    OBVIOUS
<1>6. (~r.ok => F(A!LaneReply(r))) /\ (~found.ok => F(A!LaneReply(found)))
    BY <1>1
<1> HIDE DEF F, r, found, w
<1>7. F(step)
    BY Zenon, <1>2, <1>4, <1>5, <1>6 DEF A!invokeWithRetry, A!After, r, w
<1> HIDE DEF step
<1>8. F(A!resolveItemLane(found, step))
    BY Zenon, <1>4, <1>6, <1>7 DEF A!resolveItemLane
<1>9. F(item)
    BY <1>2, <1>8
<1> HIDE DEF item
<1>10. \/ ask.about = "no term" \/ ask.about = "unrecognised"
       \/ ask.about \notin {"no term", "unrecognised"} /\ ~paired
       \/ ask.about = "no coordinate" /\ paired
       \/ ask.about \in {"term", "home", "file"} /\ paired
       \/ ask.about \in {"item", "item, picked"} /\ paired
    OBVIOUS
<1>11. F(A!resolveForAgent(step))
    BY Zenon, <1>4, <1>7, <1>9, <1>10 DEF A!resolveForAgent, A!After, item, found
<1>12. A!handleAgentRun = A!resolveForAgent(step)
    BY DEF A!handleAgentRun, step
<1>13. QED
    BY <1>11, <1>12 DEF F, r, w

\* A run is not asked for where one is, or was.
LEMMA RunIsKept ==
    ASSUME lane.value.is \in {"running", "done", "linked"}, A!handleAgentRun.kind = "call",
           ask.about \in {"item", "item, picked", "home", "file", "no coordinate", "unrecognised",
                          "term", "no term"}
    PROVE  A!handleAgentRun.route # "agents"
<1> DEFINE F(x) == x.kind = "call" => x.route # "agents"
           step == A!LaneReply(lane)
           found == A!resolveItem(A!Last("resolve"))
           item == IF A!Times("resolve") = 0 THEN A!Call("resolve") ELSE A!resolveItemLane(found, step)
<1>1. ASSUME NEW state PROVE F(A!LaneReply(state))
    BY LaneReplyIs
<1>2. F(A!Call("resolve"))
    BY DEF A!Call
<1>3. /\ F(step) /\ F(A!LaneReply(found)) /\ F(A!LaneReply(A!No("no_term")))
      /\ F(A!LaneReply(A!No("not_resolved"))) /\ F(A!LaneReply(A!No("not_paired")))
    BY <1>1
<1> HIDE DEF F, found, step
<1>4. F(A!resolveItemLane(found, step))
    BY Zenon, <1>3 DEF A!resolveItemLane
<1>5. F(item)
    BY <1>2, <1>4
<1> HIDE DEF item
<1>6. \/ ask.about = "no term" \/ ask.about = "unrecognised"
      \/ ask.about \notin {"no term", "unrecognised"} /\ ~paired
      \/ ask.about = "no coordinate" /\ paired
      \/ ask.about \in {"term", "home", "file"} /\ paired
      \/ ask.about \in {"item", "item, picked"} /\ paired
    OBVIOUS
<1>7. F(A!resolveForAgent(step))
    BY Zenon, <1>3, <1>5, <1>6 DEF A!resolveForAgent, A!After, item, found
<1>8. A!handleAgentRun = A!resolveForAgent(step)
    BY DEF A!handleAgentRun, step
<1>9. QED
    BY <1>7, <1>8 DEF F

----------------------------------------------------------------------------
(* The invariant, step by step.                                            *)

\* A plain state of a lane is as its panels expect it.
LEMMA PlainStateFits ==
    ASSUME NEW is \in {"collapsed", "running", "done", "linked"}
    PROVE  A!Fits(A!Body(is, ""), LaneShapes)
<1> DEFINE b == A!Body(is, "")
<1>1. b.is = is /\ b.odd = ""
    BY DEF A!Body
<1>2. DOMAIN LaneShapes = {"collapsed", "running", "done", "linked"}
    BY DEF LaneShapes
<1>3. /\ "" \notin LaneShapes["collapsed"] /\ "" \notin LaneShapes["running"]
      /\ "" \notin LaneShapes["done"] /\ "" \notin LaneShapes["linked"]
    BY DEF LaneShapes, A!LaneMembers
<1> HIDE DEF b
<1>4. A!Fits(b, LaneShapes)
    BY <1>1, <1>2, <1>3, WholeFits
<1>5. QED
    BY <1>4 DEF b

\* Such a state is told where a good answer says so.
LEMMA PlainStateIsTold ==
    ASSUME NEW is \in {"collapsed", "running", "done", "linked"}, NEW of,
           is # "collapsed" => \E e \in of : A!ResOk(e.answer) /\ e.answer.body.is \in A!Backing(is)
    PROVE  LaneIsTold(A!Ok(A!Body(is, "")), of)
<1> DEFINE b == A!Body(is, "")
           state == A!Ok(b)
<1>1. state.ok = TRUE /\ state.reason = "" /\ state.value = b /\ state.gap = A!Null
    BY DEF A!Ok
<1>2. b.is = is /\ A!Fits(b, LaneShapes)
    BY PlainStateFits DEF A!Body
<1> HIDE DEF state, b
<1>3. LaneIsTold(state, of)
    BY <1>1, <1>2 DEF LaneIsTold
<1>4. QED
    BY <1>3 DEF state, b

\* What is told stays told when more is.
LEMMA MoreIsTold ==
    ASSUME NEW state, NEW of, NEW more, of \subseteq more, LaneIsTold(state, of)
    PROVE  LaneIsTold(state, more)
BY DEF LaneIsTold

\* A failure of a lane has no value.
LEMMA NoIs ==
    ASSUME NEW reason
    PROVE  /\ A!No(reason).ok = FALSE /\ A!No(reason).reason = reason /\ A!No(reason).gap = A!Null
           /\ A!No(reason).value = A!Null /\ A!No(reason).value.is = "null"
<1>1. A!Null.is = "null"
    BY DEF A!Null, A!Body
<1>2. QED
    BY <1>1 DEF A!No

\* The members of a short sequence.
LEMMA OneTold ==
    /\ \A x : {<<x>>[i] : i \in DOMAIN <<x>>} = {x}
    /\ \A x, y : {<<x, y>>[i] : i \in DOMAIN <<x, y>>} = {x, y}
<1>1. \A x : DOMAIN <<x>> = {1} /\ <<x>>[1] = x
    OBVIOUS
<1>2. \A x, y : DOMAIN <<x, y>> = {1, 2} /\ <<x, y>>[1] = x /\ <<x, y>>[2] = y
    OBVIOUS
<1>3. QED
    BY <1>1, <1>2

\* The invariant holds at first.
LEMMA AnswersInit == A!Init => AnswersInv
<1> SUFFICES ASSUME A!Init PROVE AnswersInv
    OBVIOUS
<1>1. /\ paired \in BOOLEAN /\ heard = A!Unheard /\ told = <<>> /\ reply = A!NoReply
      /\ lane = A!Ok(A!Body("collapsed", ""))
    BY DEF A!Init
<1>2. PICK k \in A!Kinds : ask \in {[kind |-> k, about |-> a] : a \in A!Abouts(k)}
    BY DEF A!Init
<1>9. ask = [kind |-> ask.kind, about |-> ask.about] /\ ask.kind = k /\ ask.about \in A!Abouts(k)
    BY <1>2
<1>10. /\ heard = [route \in A!Routes |-> heard[route]]
       /\ \A route \in A!Routes : heard[route] = <<>>
    BY <1>1 DEF A!Unheard
<1>3. AnswersType
  <2>4. \A T : <<>> \in Seq(T)
      OBVIOUS
  <2>1. \A route \in A!Routes : heard[route] \in Seq(A!Answers(route))
      BY <1>10, <2>4
  <2>2. ask.kind \in A!Kinds /\ ask.about \in A!Abouts(ask.kind)
      BY <1>9
  <2>3. QED
      BY <1>1, <1>9, <1>10, <2>1, <2>2 DEF AnswersType
<1>4. lane.ok = TRUE /\ lane.value.is = "collapsed"
    BY <1>1 DEF A!Ok, A!Body
<1>5. LaneIsTold(lane, ToldAnswers)
    BY <1>1, PlainStateIsTold
<1>6. RunIsTold
    BY <1>4 DEF RunIsTold
<1>7. A!RepliesAreUnderstood /\ A!NothingIsMadeUp
    BY <1>1 DEF A!RepliesAreUnderstood, A!NothingIsMadeUp
<1>8. QED
    BY <1>1, <1>3, <1>4, <1>5, <1>6, <1>7 DEF AnswersInv

\* A call is answered.
LEMMA HearStep == AnswersInv /\ A!Hear => AnswersInv'
<1> SUFFICES ASSUME AnswersInv, A!Hear PROVE AnswersInv'
    OBVIOUS
<1> DEFINE called == A!handler(ask.kind).route
<1>1. /\ UNCHANGED <<ask, paired, reply, lane, told, stale, rejected>>
      /\ reply = A!NoReply /\ A!handler(ask.kind).kind = "call"
    BY DEF A!Hear, A!Pending
<1>2. PICK w \in A!Answers(called) : heard' = [heard EXCEPT ![called] = Append(@, w)]
    BY DEF A!Hear
<1> HIDE DEF called
<1>3. AnswersType
    BY DEF AnswersInv
<1>4. ASSUME NEW route \in A!Routes
      PROVE  heard'[route] = IF route = called THEN Append(heard[route], w) ELSE heard[route]
    BY <1>2, <1>3 DEF AnswersType
<1>5. heard' = [route \in A!Routes |-> heard'[route]]
    BY <1>2, <1>3 DEF AnswersType
<1>6. \A route \in A!Routes : heard'[route] \in Seq(A!Answers(route))
    BY <1>2, <1>3, <1>4 DEF AnswersType
<1>7. AnswersType'
    BY <1>1, <1>3, <1>5, <1>6 DEF AnswersType
<1>8. LaneIsTold(lane, ToldAnswers)' /\ RunIsTold'
    BY <1>1 DEF AnswersInv, LaneIsTold, ToldAnswers, RunIsTold
<1>9. ask.kind = "agent-run" /\ A!Times("agents")' # 0 =>
          lane.value.is \notin {"running", "done", "linked"}
  <2> SUFFICES ASSUME ask.kind = "agent-run", A!Times("agents")' # 0,
                      lane.value.is \in {"running", "done", "linked"}
               PROVE  FALSE
      OBVIOUS
  <2>1. A!handler(ask.kind) = A!handleAgentRun
      BY Zenon DEF A!handler
  <2>2. ask.about \in {"item", "item, picked", "home", "file", "no coordinate", "unrecognised",
                       "term", "no term"}
      BY <1>3, AboutsAre DEF AnswersType
  <2>3. called # "agents"
      BY <1>1, <2>1, <2>2, RunIsKept DEF called
  <2>4. A!Times("agents")' = A!Times("agents")
      BY <1>4, <2>3, RoutesAre DEF A!Times
  <2>5. QED
      BY <1>1, <2>4 DEF AnswersInv
<1>10. A!RepliesAreUnderstood' /\ A!NothingIsMadeUp'
    BY <1>1 DEF A!RepliesAreUnderstood, A!NothingIsMadeUp
<1>11. \/ told' = <<>> \/ told' = <<told'[1]>> \/ told' = <<told'[1], told'[2]>>
       \/ told' = <<told'[1], told'[2], told'[3]>>
    BY <1>1 DEF AnswersInv
<1>12. QED
    BY <1>1, <1>7, <1>8, <1>9, <1>10, <1>11 DEF AnswersInv

\* A handler's own reply is honest, and is told of a 401 in an answer.
LEMMA RespondStep == AnswersInv /\ A!Respond => AnswersInv'
<1> SUFFICES ASSUME AnswersInv, A!Respond PROVE AnswersInv'
    OBVIOUS
<1> DEFINE r == A!handler(ask.kind)
<1>1. /\ reply = A!NoReply /\ r.kind # "call" /\ reply' = r
      /\ stale' = A!carriesUnauthorized(r)
      /\ UNCHANGED <<ask, paired, heard, rejected>>
    BY DEF A!Respond, A!Pending
<1>2. AnswersType /\ AnswersType' /\ LaneIsTold(lane, ToldAnswers) /\ RunIsTold
    BY <1>1 DEF AnswersInv, AnswersType
<1>3. Honest(r)
    BY <1>1, <1>2, HandlerReplies
<1>4. A!RepliesAreUnderstood'
    BY <1>1, <1>3 DEF A!RepliesAreUnderstood, Honest, A!Understood
<1>5. reply' # A!NoReply
  <2>1. r.kind # "no reply"
      BY <1>3 DEF Honest, A!Understood, A!isReplyFor, A!isClipLookupResponse, A!isEgressWindowSuccess,
            A!isRelatedResponse, A!isResolveResponse, A!isRecognitionResponse, A!isFetchResponse,
            A!isAgentStateResponse, A!isConnectionResponse, A!isDeployPreflightResponse,
            A!isServiceBindingsListResponse, A!isServiceBindResponse, A!isDoraMetricsResponse,
            A!isMetricsStatsResponse, A!isServiceBindingsCheckResponse
  <2>2. A!NoReply.kind = "no reply"
      BY DEF A!NoReply
  <2>3. QED
      BY <1>1, <2>1, <2>2
<1>6. CASE ~(ask.kind = "agent-run" /\ A!Times("agents") > 0 /\ r.value.is = "running")
  <2>1. UNCHANGED <<lane, told>>
      BY <1>6 DEF A!Respond
  <2>2. LaneIsTold(lane, ToldAnswers)' /\ RunIsTold'
      BY <1>2, <2>1 DEF LaneIsTold, ToldAnswers, RunIsTold
  <2>3. A!Evidence' = A!Evidence
      BY <1>1, <2>1 DEF A!Evidence, A!Times
  <2>4. stale' => \E e \in A!Evidence : e.answer.status = "401"
    <3> SUFFICES ASSUME stale' PROVE \E e \in A!Evidence : e.answer.status = "401"
        OBVIOUS
    <3>1. r.reason = "unauthorized"
        BY <1>1 DEF A!carriesUnauthorized
    <3>2. ~A!OwnReason(r)
        BY <3>1 DEF A!OwnReason, A!OwnReasons
    <3>3. PICK e \in A!Evidence : A!Backs(e, "unauthorized")
        BY <1>3, <3>1, <3>2 DEF Honest, Grounded
    <3>4. QED
        BY <3>3 DEF A!Backs
  <2>5. A!NothingIsMadeUp'
      BY <1>1, <1>3, <2>3, <2>4 DEF A!NothingIsMadeUp, Honest, Grounded, A!OwnReason, A!OwnValue
  <2>6. QED
      BY <1>2, <1>4, <1>5, <2>1, <2>2, <2>5 DEF AnswersInv
<1>7. CASE ask.kind = "agent-run" /\ A!Times("agents") > 0 /\ r.value.is = "running"
  <2> DEFINE w == A!Last("agents")
             b == A!Body("running", "")
  <2>1. lane' = A!Ok(r.value) /\ told' = <<By("agents", w)>>
      BY <1>7 DEF A!Respond, By
  <2>2. r = A!handleAgentRun
      BY Zenon, <1>7 DEF A!handler
  <2>3. ask.about \in {"item", "item, picked", "home", "file", "no coordinate", "unrecognised",
                       "term", "no term"}
      BY <1>2, <1>7, AboutsAre DEF AnswersType
  <2>4. A!Times("agents") # 0
      BY <1>7
  <2>5. r = A!LaneReply(A!Ok(b)) /\ A!invokeAgent(w).ok
      BY <1>1, <1>7, <2>2, <2>3, <2>4, RunningIsAccepted DEF AnswersInv
  <2>6. w \in A!Answers("agents") /\ By("agents", w) \in A!Evidence
      BY <1>2, <2>4, RoutesAre, LastIsEvidence
  <2> HIDE DEF w, r
  <2>7. LaneIsTold(A!Ok(b), {By("agents", w)}) /\ A!ResOk(w) /\ w.body.is = "accepted"
      BY <2>5, <2>6, AcceptedIsTold
  <2>8. A!Ok(b).ok = TRUE /\ A!Ok(b).value = b /\ A!Ok(b).reason = "" /\ A!Ok(b).gap = A!Null
      BY DEF A!Ok
  <2>9. r.value = b /\ r.ok = TRUE /\ r.reason = "" /\ r.gap = A!Null
      BY <2>5, <2>8, LaneReplyIs
  <2>10. lane' = A!Ok(b) /\ told'[1] = By("agents", w) /\ told' = <<told'[1]>>
         /\ ToldAnswers' = {By("agents", w)}
      BY <2>1, <2>9, OneTold DEF ToldAnswers
  <2>11. LaneIsTold(lane, ToldAnswers)'
      BY <2>7, <2>10 DEF LaneIsTold
  <2>12. By("agents", w).route = "agents" /\ By("agents", w).answer = w
      BY DEF By
  <2>13. RunIsTold'
      BY <2>7, <2>10, <2>12 DEF RunIsTold
  <2>14. By("agents", w) \in A!Evidence'
    <3>1. told'[1] \in {told'[j] : j \in DOMAIN told'}
        BY <2>1
    <3>2. told'[1] \in (IF ask'.kind \in {"agent-run", "agent-state"}
                        THEN {told'[j] : j \in DOMAIN told'} ELSE {})
        BY <1>1, <1>7, <3>1
    <3>3. told'[1] \in A!Evidence'
        BY Zenon, <3>2 DEF A!Evidence
    <3>4. QED
        BY <2>10, <3>3
  <2>15. ~stale'
      BY <1>1, <2>9 DEF A!carriesUnauthorized, r
  <2>16. b.is = "running" /\ "accepted" \in A!Backing("running")
      BY OthersAreMadeOf DEF A!Body
  <2>18. reply' = r
      BY <1>1 DEF r
  <2>19. A!NothingIsMadeUp'
      BY <2>7, <2>9, <2>12, <2>14, <2>15, <2>16, <2>18 DEF A!NothingIsMadeUp
  <2>20. QED
      BY <1>2, <1>4, <1>5, <2>10, <2>11, <2>13, <2>19 DEF AnswersInv
<1>8. QED
    BY <1>6, <1>7

\* A handler that rejected is answered for by its route.
LEMMA RejectStep == AnswersInv /\ A!Reject => AnswersInv'
<1> SUFFICES ASSUME AnswersInv, A!Reject PROVE AnswersInv'
    OBVIOUS
<1>1. /\ rejected' = TRUE /\ reply' = A!catchReply(ask.kind) /\ reply = A!NoReply
      /\ UNCHANGED <<ask, paired, heard, lane, told, stale>>
    BY DEF A!Reject, A!Pending
<1>2. AnswersType'
    BY <1>1 DEF AnswersInv, AnswersType
<1>3. LaneIsTold(lane, ToldAnswers)' /\ RunIsTold'
    BY <1>1 DEF AnswersInv, LaneIsTold, ToldAnswers, RunIsTold
<1>4. A!Understood(A!catchReply(ask.kind))
    BY CatchReplyIsUnderstood DEF AnswersInv, AnswersType
<1>5. A!Understood(reply)'
    BY <1>1, <1>4 DEF A!Understood
<1>6. A!RepliesAreUnderstood' /\ A!NothingIsMadeUp'
    BY <1>1, <1>5 DEF A!RepliesAreUnderstood, A!NothingIsMadeUp
<1>7. reply' = A!NoReply /\ ask'.kind = "agent-run" /\ A!Times("agents")' # 0 =>
          lane'.value.is \notin {"running", "done", "linked"}
    BY <1>1 DEF AnswersInv, A!Times
<1>8. \/ told' = <<>> \/ told' = <<told'[1]>> \/ told' = <<told'[1], told'[2]>>
      \/ told' = <<told'[1], told'[2], told'[3]>>
    BY <1>1 DEF AnswersInv
<1>9. QED
    BY <1>2, <1>3, <1>6, <1>7, <1>8 DEF AnswersInv

\* What a poll leaves of a run is told of its acceptance and the poll.
LEMMA PolledIsTold ==
    ASSUME NEW w \in A!Answers("agentRuns"), A!getAgentRun(w).value.is # "running",
           NEW of, By("agentRuns", w) \in of
    PROVE  /\ LaneIsTold(A!terminalLaneState(A!getAgentRun(w)), of)
           /\ A!terminalLaneState(A!getAgentRun(w)).value.is # "running"
<1> DEFINE r == A!getAgentRun(w)
           e == By("agentRuns", w)
           lax == {"gaps", "synthesis", "findings"}
           brief == A!Dropped(r.value, lax)
           F(state) == LaneIsTold(state, of) /\ state.value.is # "running"
<1>1. Fair("agentRuns", w, r, RunReasons, RunShapes)
    BY GetAgentRunIsFair
<1>2. e.answer = w /\ e \in of
    BY DEF By
<1>3. r.value.is # "running"
    OBVIOUS
<1> HIDE DEF r, e
<1>4. DOMAIN RunShapes = {"running", "done", "failed"} /\ RunShapes["done"] = {"brief"}
    BY DEF RunShapes
<1>5. r.ok => /\ A!ResOk(w) /\ w.body.is \in A!Backing(r.value.is) /\ A!Fits(r.value, RunShapes)
              /\ r.value.is \in {"done", "failed"}
    BY <1>1, <1>3, <1>4 DEF Fair, Brings, A!Fits
<1>6. A!Null.is = "null"
    BY DEF A!Null, A!Body
<1>7. ~r.ok => F(r)
    BY <1>1, <1>2, <1>6, FailureIsTold, LaneReasons DEF Fair, FailsFairly, e
<1>8. r.ok /\ r.value.is = "failed" => F(A!No("agent_failed"))
  <2> DEFINE state == A!No("agent_failed")
  <2>1. /\ ~state.ok /\ state.ok \in BOOLEAN /\ state.reason = "agent_failed" /\ state.gap = A!Null
        /\ state.value = A!Null
      BY DEF A!No
  <2> HIDE DEF state
  <2>2. r.ok => A!Backs(e, "agent_failed")
      BY <1>2, <1>5 DEF A!Backs, A!ResOk
  <2>3. r.ok => LaneIsTold(state, of)
      BY <1>2, <2>1, <2>2 DEF LaneIsTold, A!AGENT_ERRORS
  <2>4. QED
      BY <1>6, <2>1, <2>3 DEF state
<1>9. r.ok /\ r.value.is = "done" => F(A!Ok(brief))
  <2> SUFFICES ASSUME r.ok, r.value.is = "done" PROVE F(A!Ok(brief))
      OBVIOUS
  <2> DEFINE state == A!Ok(brief)
  <2>1. state.ok = TRUE /\ state.reason = "" /\ state.value = brief /\ state.gap = A!Null
      BY DEF A!Ok
  <2>2. brief.is = "done" /\ (brief.odd = "" \/ (brief.odd \notin lax /\ brief.odd = r.value.odd))
      BY DroppedIs
  <2>3. r.value.odd # "brief"
      BY <1>4, <1>5 DEF A!Fits
  <2> HIDE DEF brief, state
  <2>4. /\ "done" \in DOMAIN LaneShapes
        /\ LaneShapes["done"] = {"brief", "gaps", "synthesis", "findings"}
      BY DEF LaneShapes, A!LaneMembers
  <2>5. A!Fits(brief, LaneShapes)
      BY <2>2, <2>3, <2>4 DEF A!Fits
  <2>6. w.body.is \in A!Backing("done")
      BY <1>5
  <2>7. LaneIsTold(state, of)
      BY <1>2, <1>5, <2>1, <2>2, <2>5, <2>6 DEF LaneIsTold
  <2>8. QED
      BY <2>1, <2>2, <2>7 DEF state
<1> HIDE DEF F, brief
<1>10. ~r.ok \/ (r.ok /\ r.value.is = "failed") \/ (r.ok /\ r.value.is = "done")
    BY <1>5
<1>11. r.value.is = "failed" => F(A!No("agent_failed"))
    BY <1>1, <1>6, <1>8 DEF Fair, FailsFairly
<1>12. r.value.is = "done" => F(A!Ok(brief))
    BY <1>1, <1>6, <1>9 DEF Fair, FailsFairly
<1>13. F(A!terminalLaneState(r))
    BY Zenon, <1>7, <1>10, <1>11, <1>12 DEF A!terminalLaneState, brief, lax
<1>14. QED
    BY <1>13 DEF F, r

\* The parts of the invariant that a step between two requests leaves.
LEMMA BetweenStep ==
    ASSUME AnswersInv, A!Between, UNCHANGED <<ask, paired, heard, reply, stale, rejected>>,
           LaneIsTold(lane, ToldAnswers)', RunIsTold',
           \/ told' = <<told'[1]>> \/ told' = <<told'[1], told'[2]>>
           \/ told' = <<told'[1], told'[2], told'[3]>>
    PROVE  AnswersInv'
<1>1. reply' = A!NoReply /\ heard' = A!Unheard
    BY DEF A!Between
<1>2. AnswersType'
    BY DEF AnswersInv, AnswersType
<1>3. A!Times("agents")' = 0
  <2>1. "agents" \in A!Routes
      BY RoutesAre
  <2>2. heard'["agents"] = <<>>
      BY <1>1, <2>1 DEF A!Unheard
  <2>3. QED
      BY <2>2 DEF A!Times
<1>4. A!RepliesAreUnderstood' /\ A!NothingIsMadeUp'
    BY <1>1 DEF A!RepliesAreUnderstood, A!NothingIsMadeUp
<1>5. QED
    BY <1>2, <1>3, <1>4 DEF AnswersInv

\* A poll.
LEMMA PollStep == AnswersInv /\ A!tickAgentPoll => AnswersInv'
<1> SUFFICES ASSUME AnswersInv, A!tickAgentPoll PROVE AnswersInv'
    OBVIOUS
<1>1. /\ A!Between /\ lane.value.is = "running"
      /\ UNCHANGED <<ask, paired, heard, reply, stale, rejected>>
    BY DEF A!tickAgentPoll, A!Polled
<1>2. PICK w \in A!Answers("agentRuns") :
        /\ told' = <<told[1], By("agentRuns", w)>>
        /\ lane' = IF A!getAgentRun(w).value.is = "running"
                      \/ A!getAgentRun(w).reason \in {"unreachable", "server_error"}
                   THEN lane ELSE A!terminalLaneState(A!getAgentRun(w))
    BY DEF A!tickAgentPoll, By
<1>3. /\ lane = A!Ok(A!Body("running", "")) /\ told[1].route = "agents"
      /\ A!ResOk(told[1].answer) /\ told[1].answer.body.is = "accepted"
    BY <1>1 DEF AnswersInv, RunIsTold
<1>4. /\ ToldAnswers' = {told[1], By("agentRuns", w)}
      /\ told'[1] = told[1] /\ told'[2] = By("agentRuns", w) /\ told' = <<told'[1], told'[2]>>
    BY <1>2, OneTold DEF ToldAnswers
<1>5. CASE lane' = lane
  <2>1. LaneIsTold(lane, {told[1], By("agentRuns", w)})
      BY <1>3, OthersAreMadeOf, PlainStateIsTold
  <2>2. LaneIsTold(lane, ToldAnswers)'
      BY <1>4, <1>5, <2>1 DEF LaneIsTold
  <2>3. RunIsTold'
      BY <1>3, <1>4, <1>5 DEF RunIsTold
  <2>4. QED
      BY <1>1, <1>4, <2>2, <2>3, BetweenStep
<1>6. CASE /\ lane' = A!terminalLaneState(A!getAgentRun(w))
           /\ A!getAgentRun(w).value.is # "running"
  <2>1. LaneIsTold(lane', {told[1], By("agentRuns", w)}) /\ lane'.value.is # "running"
      BY <1>6, PolledIsTold
  <2>2. LaneIsTold(lane, ToldAnswers)'
      BY <1>4, <2>1 DEF LaneIsTold
  <2>3. RunIsTold'
      BY <2>1 DEF RunIsTold
  <2>4. QED
      BY <1>1, <1>4, <2>2, <2>3, BetweenStep
<1>7. QED
    BY <1>2, <1>5, <1>6

\* A run that outlived its time.
LEMMA GiveUpStep == AnswersInv /\ A!giveUp => AnswersInv'
<1> SUFFICES ASSUME AnswersInv, A!giveUp PROVE AnswersInv'
    OBVIOUS
<1> DEFINE last == told[Len(told)]
           met == IF last.route = "agentRuns" THEN A!getAgentRun(last.answer).reason ELSE ""
<1>1. /\ A!Between /\ lane.value.is = "running"
      /\ UNCHANGED <<ask, paired, heard, reply, stale, rejected>>
      /\ IF met = "" THEN lane' = A!No("stale") /\ told' = <<told[1], A!Lapsed>>
         ELSE lane' = A!No(met) /\ UNCHANGED told
    BY DEF A!giveUp, A!Polled
<1> HIDE DEF met
<1>2. /\ told = <<told[1]>> \/ /\ told = <<told[1], told[2]>>
                               /\ \E w \in A!Answers("agentRuns") : told[2] = By("agentRuns", w)
      /\ told[1].route = "agents"
    BY <1>1 DEF AnswersInv, RunIsTold
<1>3. RunIsTold'
    BY <1>1, NoIs DEF RunIsTold
<1>4. CASE met = ""
  <2>1. lane' = A!No("stale") /\ told' = <<told[1], A!Lapsed>>
      BY <1>1, <1>4
  <2>2. ToldAnswers' = {told[1], A!Lapsed} /\ told' = <<told'[1], told'[2]>>
      BY <2>1, OneTold DEF ToldAnswers
  <2>3. A!Backs(A!Lapsed, "stale")
      BY DEF A!Backs, A!Lapsed, A!Answer
  <2>4. LaneIsTold(A!No("stale"), {told[1], A!Lapsed})
      BY <2>3, NoIs DEF LaneIsTold, A!AGENT_ERRORS
  <2>5. LaneIsTold(lane, ToldAnswers)'
      BY <2>1, <2>2, <2>4 DEF LaneIsTold
  <2>6. QED
      BY <1>1, <1>3, <2>2, <2>5, BetweenStep
<1>5. CASE met # ""
  <2>1. lane' = A!No(met) /\ told' = told /\ ToldAnswers' = ToldAnswers
      BY <1>1, <1>5 DEF ToldAnswers
  <2>2. PICK w \in A!Answers("agentRuns") :
            told = <<told[1], told[2]>> /\ told[2] = By("agentRuns", w)
    <3>1. told # <<told[1]>>
        BY <1>2, <1>5 DEF met
    <3>2. QED
        BY <1>2, <3>1
  <2>3. met = A!getAgentRun(w).reason
    <3>1. last = By("agentRuns", w)
        BY <2>2
    <3> HIDE DEF last
    <3>2. last.route = "agentRuns" /\ last.answer = w
        BY <3>1 DEF By
    <3>3. QED
        BY <3>2 DEF met
  <2>4. Fair("agentRuns", w, A!getAgentRun(w), RunReasons, RunShapes)
      BY GetAgentRunIsFair
  <2>5. met \in RunReasons /\ A!Backs(By("agentRuns", w), met)
      BY <1>5, <2>3, <2>4 DEF Fair, FailsFairly
  <2>6. By("agentRuns", w) \in ToldAnswers
      BY <2>2 DEF ToldAnswers
  <2>7. LaneIsTold(A!No(met), ToldAnswers)
      BY <2>5, <2>6, NoIs, LaneReasons DEF LaneIsTold
  <2>8. LaneIsTold(lane, ToldAnswers)'
      BY <2>1, <2>7 DEF LaneIsTold
  <2>9. QED
      BY <1>1, <1>3, <2>1, <2>2, <2>8, BetweenStep
<1>6. QED
    BY <1>4, <1>5

\* The links of a run's findings.
LEMMA LinksStep == AnswersInv /\ A!resolveAndPersistItemUrls => AnswersInv'
<1> SUFFICES ASSUME AnswersInv, A!resolveAndPersistItemUrls PROVE AnswersInv'
    OBVIOUS
<1>1. /\ A!Between /\ lane.value.is = "done" /\ Len(told) = 2
      /\ UNCHANGED <<ask, paired, heard, reply, stale, rejected>>
    BY DEF A!resolveAndPersistItemUrls
<1>2. PICK w \in A!Answers("resolveIds") :
        /\ told' = Append(told, By("resolveIds", w))
        /\ lane' = IF A!resolveItemIds(w).ok THEN A!Ok(A!Body("linked", "")) ELSE lane
    BY DEF A!resolveAndPersistItemUrls, By
<1> DEFINE e == By("resolveIds", w)
<1>3. told = <<told[1], told[2]>>
    BY <1>1 DEF AnswersInv
<1>4. e.answer = w
    BY DEF By
<1> HIDE DEF e
<1>5. told' = <<told[1], told[2], e>>
  <2> DEFINE a == told[1]
             b == told[2]
             T == {a, b, e}
  <2>1. told = <<a, b>> /\ told' = Append(told, e)
      BY <1>2, <1>3 DEF e
  <2> HIDE DEF a, b
  <2>2. <<a, b>> \in Seq(T) /\ Len(<<a, b>>) = 2 /\ <<a, b>>[1] = a /\ <<a, b>>[2] = b
      OBVIOUS
  <2>3. <<a, b, e>> \in Seq(T) /\ Len(<<a, b, e>>) = 3 /\ <<a, b, e>>[1] = a /\ <<a, b, e>>[2] = b
        /\ <<a, b, e>>[3] = e
      OBVIOUS
  <2> HIDE DEF T
  <2>4. e \in T
      BY DEF T
  <2>5. /\ Append(<<a, b>>, e) \in Seq(T) /\ Len(Append(<<a, b>>, e)) = 3
        /\ Append(<<a, b>>, e)[1] = a /\ Append(<<a, b>>, e)[2] = b /\ Append(<<a, b>>, e)[3] = e
      BY <2>2, <2>4, AppendProperties
  <2>6. Append(<<a, b>>, e) = <<a, b, e>>
    <3>1. \A i \in 1 .. 3 : Append(<<a, b>>, e)[i] = <<a, b, e>>[i]
        BY <2>3, <2>5
    <3>2. QED
        BY <2>3, <2>5, <3>1, SeqEqual
  <2>7. QED
      BY <2>1, <2>6 DEF a, b
<1>6. told' = <<told'[1], told'[2], told'[3]>> /\ e \in ToldAnswers'
    BY <1>5 DEF ToldAnswers
<1>7. ToldAnswers \subseteq ToldAnswers'
    BY <1>3, <1>5 DEF ToldAnswers
<1>8. LaneIsTold(lane, ToldAnswers)'
  <2>1. CASE A!resolveItemIds(w).ok
    <3>1. A!ResOk(w) /\ w.body.is = "items"
        BY <2>1, ResolveItemIdsIsFair
    <3>2. LaneIsTold(A!Ok(A!Body("linked", "")), ToldAnswers')
        BY <1>4, <1>6, <3>1, OthersAreMadeOf, PlainStateIsTold
    <3>3. QED
        BY <1>2, <2>1, <3>2 DEF LaneIsTold
  <2>2. CASE ~A!resolveItemIds(w).ok
    <3>1. LaneIsTold(lane, ToldAnswers')
        BY <1>7, MoreIsTold DEF AnswersInv
    <3>2. QED
        BY <1>2, <2>2, <3>1 DEF LaneIsTold
  <2>3. QED
      BY <2>1, <2>2
<1>9. RunIsTold'
  <2>1. A!Ok(A!Body("linked", "")).value.is = "linked"
      BY DEF A!Ok, A!Body
  <2>2. lane'.value.is # "running"
      BY <1>1, <1>2, <2>1
  <2>3. QED
      BY <2>2 DEF RunIsTold
<1>10. QED
    BY <1>1, <1>6, <1>8, <1>9, BetweenStep

\* The lane is shown again.
LEMMA AskAgainStep == AnswersInv /\ A!AskAgain => AnswersInv'
<1> SUFFICES ASSUME AnswersInv, A!AskAgain PROVE AnswersInv'
    OBVIOUS
<1>1. PICK kind \in {"agent-run", "agent-state"} :
        ask.kind \in {"agent-run", "agent-state"} /\ ask' = [ask EXCEPT !.kind = kind]
    BY DEF A!AskAgain
<1>2. heard' = A!Unheard /\ reply' = A!NoReply /\ UNCHANGED <<paired, lane, told>>
    BY DEF A!AskAgain
<1>3. ask = [kind |-> ask.kind, about |-> ask.about] /\ ask.about \in A!Abouts(ask.kind)
      /\ paired \in BOOLEAN
    BY DEF AnswersInv, AnswersType
<1>4. ask' = [kind |-> kind, about |-> ask.about]
    BY <1>1, <1>3
<1>5. ask' = [kind |-> ask'.kind, about |-> ask'.about] /\ ask'.kind = kind /\ ask'.about = ask.about
    BY <1>4
<1>6. ask'.about \in A!Abouts(ask'.kind)
    BY <1>1, <1>3, <1>5, AboutsAre
<1>7. /\ heard' = [route \in A!Routes |-> heard'[route]]
      /\ \A route \in A!Routes : heard'[route] = <<>>
    BY <1>2 DEF A!Unheard
<1>8. AnswersType'
  <2>4. \A T : <<>> \in Seq(T)
      OBVIOUS
  <2>1. \A route \in A!Routes : heard'[route] \in Seq(A!Answers(route))
      BY <1>7, <2>4
  <2>2. ask'.kind \in A!Kinds
      BY <1>5 DEF A!Kinds
  <2>3. QED
      BY <1>2, <1>3, <1>5, <1>6, <1>7, <2>1, <2>2 DEF AnswersType
<1>9. A!Times("agents")' = 0
    BY <1>7, RoutesAre DEF A!Times
<1>10. LaneIsTold(lane, ToldAnswers)' /\ RunIsTold'
    BY <1>2 DEF AnswersInv, LaneIsTold, ToldAnswers, RunIsTold
<1>11. A!RepliesAreUnderstood' /\ A!NothingIsMadeUp'
    BY <1>2 DEF A!RepliesAreUnderstood, A!NothingIsMadeUp
<1>12. \/ told' = <<>> \/ told' = <<told'[1]>> \/ told' = <<told'[1], told'[2]>>
       \/ told' = <<told'[1], told'[2], told'[3]>>
    BY <1>2 DEF AnswersInv
<1>13. QED
    BY <1>8, <1>9, <1>10, <1>11, <1>12 DEF AnswersInv

\* Every step keeps the invariant.
LEMMA AnswersStep == AnswersInv /\ A!Next => AnswersInv'
BY HearStep, RespondStep, RejectStep, PollStep, GiveUpStep, LinksStep, AskAgainStep DEF A!Next

\* A worker that answers requests keeps it, and every other worker.
THEOREM AnswersInvHolds == WorkerSpec => [](which = "answers" => AnswersInv)
<1>1. WorkerInit => (which = "answers" => AnswersInv)
    BY AnswersInit DEF WorkerInit
<1>2. (which = "answers" => AnswersInv) /\ [WorkerNext]_all => (which = "answers" => AnswersInv)'
  <2> SUFFICES ASSUME which = "answers" => AnswersInv, [WorkerNext]_all, which' = "answers"
               PROVE  AnswersInv'
      OBVIOUS
  <2>1. which = "answers" /\ AnswersInv
      BY DEF WorkerNext, all
  <2>2. A!Next \/ UNCHANGED ofAnswers
      BY <2>1 DEF WorkerNext, all
  <2>3. CASE A!Next
      BY <2>1, <2>3, AnswersStep
  <2>4. CASE UNCHANGED ofAnswers
    <3>1. UNCHANGED <<ask, paired, heard, reply, lane, told, stale, rejected>>
        BY <2>4 DEF ofAnswers
    <3>2. AnswersType'
        BY <2>1, <3>1 DEF AnswersInv, AnswersType
    <3>3. LaneIsTold(lane, ToldAnswers)' /\ RunIsTold'
        BY <2>1, <3>1 DEF AnswersInv, LaneIsTold, ToldAnswers, RunIsTold
    <3>4. A!RepliesAreUnderstood'
        BY <2>1, <3>1 DEF AnswersInv, A!RepliesAreUnderstood
    <3>5. A!Evidence' = A!Evidence
        BY <3>1 DEF A!Evidence, A!Times
    <3>6. A!NothingIsMadeUp'
        BY <2>1, <3>1, <3>5 DEF AnswersInv, A!NothingIsMadeUp, A!OwnReason, A!OwnValue
    <3>7. reply' = A!NoReply /\ ask'.kind = "agent-run" /\ A!Times("agents")' # 0 =>
              lane'.value.is \notin {"running", "done", "linked"}
        BY <2>1, <3>1 DEF AnswersInv, A!Times
    <3>8. \/ told' = <<>> \/ told' = <<told'[1]>> \/ told' = <<told'[1], told'[2]>>
          \/ told' = <<told'[1], told'[2], told'[3]>>
        BY <2>1, <3>1 DEF AnswersInv
    <3>9. QED
        BY <3>2, <3>3, <3>4, <3>6, <3>7, <3>8 DEF AnswersInv
  <2>5. QED
      BY <2>2, <2>3, <2>4
<1>3. QED
    BY <1>1, <1>2, PTL DEF WorkerSpec

\* A page takes every reply to its request for one, whatever the gateway answers: no
\* guard of a page has drifted from the parsers of the worker.
THEOREM RepliesAreUnderstoodHolds == WorkerSpec => []RepliesAreUnderstood
<1>1. (which = "answers" => AnswersInv) => RepliesAreUnderstood
    BY DEF AnswersInv, RepliesAreUnderstood
<1>2. QED
    BY <1>1, AnswersInvHolds, PTL

\* A reply says nothing that the gateway did not.
THEOREM NothingIsMadeUpHolds == WorkerSpec => []NothingIsMadeUp
<1>1. (which = "answers" => AnswersInv) => NothingIsMadeUp
    BY DEF AnswersInv, NothingIsMadeUp
<1>2. QED
    BY <1>1, AnswersInvHolds, PTL

=============================================================================
