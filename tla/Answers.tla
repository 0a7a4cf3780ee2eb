-------------------------------- MODULE Answers --------------------------------
(***************************************************************************)
(* One request of a page, from the message to the reply: what the worker   *)
(* asks of the gateway for it, what the gateway may say to each call, and  *)
(* the reply that comes of it.  A handler is the step it takes next, given *)
(* what it has heard: a call, or its reply.  Of what other modules model,  *)
(* the queue, the rosters, the cached health and the order of the polls,   *)
(* only what shows in a reply is here.                                     *)
(***************************************************************************)
EXTENDS GatewayClients, Messages, Integers, Sequences

VARIABLES
    ask,        \* the request: its kind, and what it is about
    paired,
    heard,      \* the gateway's answers to the calls made for it, by route and in order
    reply,
    stored,     \* the state stored for the lane it is about
    told,       \* the answers it came of: the run's, the last poll's, the links'
    stale,      \* the reply marks the connection stale
    rejected    \* the storage call of a handler was rejected

vars == <<ask, paired, heard, reply, stored, told, stale, rejected>>

NoReply == [kind |-> "no reply"]
Call(route) == [kind |-> "call", route |-> route]

Abouts(kind) ==
    CASE kind = "pair" -> {"loopback", "elsewhere"}
      [] kind = "clip-lookup" -> {"clip", "page", "refused"}
      [] kind \in {"recognition", "fetch"} -> {"item", "home", "unrecognised"}
      [] kind = "resolve" -> {"item", "home", "file", "no coordinate", "unrecognised"}
      [] kind \in {"agent-run", "agent-state"} ->
            {"item", "item, picked", "home", "file", "no coordinate", "unrecognised",
             "term", "no term"}
      [] kind = "deploy-preflight" -> {"page ref", "item", "branch", "neither", "unbound", "no urn"}
      [] kind = "service-bindings-check" -> {"urn", "no urn"}
      [] kind = "brief-start" -> {"no sources", "no text", "two sources"}
      [] kind = "brief-save" -> {"done", "lapsed"}
      [] OTHER -> {"any"}

Kinds == {"pair", "clip", "clip-lookup", "related", "recognition", "resolve", "fetch", "agent-run",
          "agent-state", "connection", "discover", "deploy-preflight", "service-bind",
          "service-unbind", "service-bindings-list", "service-bindings-check", "dora-metrics",
          "metrics-stats", "egress-window", "egress-verify", "egress-prove", "brief-start",
          "brief-save"}

Unheard == [route \in Routes |-> <<>>]
Times(route) == Len(heard[route])
Last(route) == heard[route][Times(route)]

\* A route asked once, and what is made of its answer.
After(route, then(_)) == IF Times(route) = 0 THEN Call(route) ELSE then(Last(route))

IfPaired(kind, step) == IF paired THEN step ELSE Refuse(kind, "not_paired")
-----------------------------------------------------------------------------
handlePair ==
    IF ask.about = "elsewhere" THEN Refuse("pair", "bad_origin")
    ELSE After("pairConfirm", LAMBDA w : Reply("pair", confirmPair(w)))

handleClip == IfPaired("clip", After("ingest", LAMBDA w : Reply("clip", postClip(w))))

handleRelated == IfPaired("related", After("related", LAMBDA w : Reply("related", postRelated(w))))

\* Whatever is not one found item is none, without a reason.
handleClipLookup ==
    LET none == Reply("clip-lookup", Ok(Body("none", "")))
        hit == Body(IF ask.about = "clip" THEN "clipped" ELSE "indexed", "")
    IN  IF ask.about = "refused" \/ ~paired THEN none
        ELSE After("resolve", LAMBDA w :
                IF resolveItem(w).value.is = "found" THEN Reply("clip-lookup", Ok(hit)) ELSE none)

handleRecognise ==
    Reply("recognition",
          Ok(Body(IF ask.about = "unrecognised" THEN "unrecognised" ELSE "recognised", "")))

\* A list that leaves the connector out says that nobody set it up.
connectorStateFor(health) ==
    Body(CASE health = Null \/ health.odd = "state" -> "unknown"
           [] health.is = "unlisted" -> "not_configured"
           [] OTHER -> "known", "")

\* The outcome of a page that has no item, with what rides along.
NotIndexed(side) == [Reply("resolve", Ok(Body("not_indexed", ""))) EXCEPT !.side = side]

\* Of the failures only a missing scope is told.
resolveFileSurface ==
    IF ask.about = "no coordinate" THEN NotIndexed(Body("unsupported", ""))
    ELSE After("resolveFile", LAMBDA w :
            IF resolveFile(w).reason = "insufficient_scope" THEN Reply("resolve", resolveFile(w))
            ELSE NotIndexed(IF resolveFile(w).ok THEN resolveFile(w).value
                            ELSE Body("unsupported", "")))

handleResolve ==
    IF ask.about = "unrecognised" THEN NotIndexed(Null)
    ELSE IfPaired("resolve",
        CASE ask.about = "home" ->
                After("connectors", LAMBDA w : NotIndexed(connectorStateFor(getConnectors(w))))
          [] ask.about \in {"file", "no coordinate"} -> resolveFileSurface
          [] ask.about = "item" ->
                After("resolve", LAMBDA w : Reply("resolve", resolveItem(w))))

handleFetch ==
    IF ask.about \in {"unrecognised", "home"} THEN Reply("fetch", Ok(Body("unfetchable", "")))
    ELSE IfPaired("fetch", After("itemsFetch", LAMBDA w : Reply("fetch", fetchItem(w))))
-----------------------------------------------------------------------------
(* Lanes.                                                                  *)

resolveItemLane(r, step) ==
    CASE ~r.ok -> LaneReply(r)
      [] r.value.is = "found" -> step
      [] r.value.is = "ambiguous" /\ ask.about = "item, picked" -> step
      [] OTHER -> LaneReply(No("not_resolved"))

\* What the lane is about, and then the step.
resolveForAgent(step) ==
    CASE ask.about = "no term" -> LaneReply(No("no_term"))
      [] ask.about = "unrecognised" -> LaneReply(No("not_resolved"))
      [] ask.about \notin {"no term", "unrecognised"} /\ ~paired -> LaneReply(No("not_paired"))
      [] ask.about = "no coordinate" /\ paired -> LaneReply(No("not_resolved"))
      [] ask.about \in {"term", "home", "file"} /\ paired -> step
      [] ask.about \in {"item", "item, picked"} /\ paired ->
            After("resolve", LAMBDA w : resolveItemLane(resolveItem(w), step))

\* A run slot that is not free is asked for once more, and then is an error.
invokeWithRetry ==
    After("agents", LAMBDA w :
        CASE invokeAgent(w).ok -> LaneReply(Ok(Body("running", "")))
          [] invokeAgent(w).reason = "busy" ->
                IF Times("agents") = 1 THEN Call("agents") ELSE LaneReply(No("server_error"))
          [] OTHER -> LaneReply(invokeAgent(w)))

handleAgentRun ==
    resolveForAgent(IF stored.value.is \in {"running", "done", "linked"} THEN LaneReply(stored)
                    ELSE invokeWithRetry)

handleAgentState == resolveForAgent(LaneReply(stored))

\* What the members that are not as documented would have shown is left out.
terminalLaneState(r) ==
    CASE ~r.ok -> r
      [] r.value.is = "failed" -> No("agent_failed")
      [] r.value.is = "done" -> Ok(Dropped(r.value, {"gaps", "synthesis", "findings"}))
-----------------------------------------------------------------------------
handleConnectionStatus ==
    LET status(is) == Reply("connection", Ok(Body(is, "")))
    IN  IF ~paired THEN status("unpaired")
        ELSE After("health", LAMBDA w : status(IF probeHealth(w) THEN "reachable" ELSE "unreachable"))

\* The candidates in order, until one is well.
handleDiscover ==
    LET found(is) == Reply("discover", Ok(Body(is, "")))
    IN  After("health", LAMBDA w :
            CASE probeHealth(w) -> found("discovered")
              [] ~probeHealth(w) /\ Times("health") = 1 -> Call("health")
              [] OTHER -> found("none"))

\* Without an answer of its own the guess stands.
resolutionFor(r) ==
    [Refuse("deploy-preflight", "unbound") EXCEPT
        !.gap = r.gap,
        !.side = Body(CASE r.reason = "insufficient_scope" -> "forbidden"
                        [] r.value.is = "unclaimed" -> "unclaimed"
                        [] r.value.is = "several" -> "ambiguous"
                        [] r.value.is \in {"same", "another"} -> "resolved"
                        [] OTHER -> "silent", "")]

\* A branch that cannot be read is the binding's, or none.
targetRefFor ==
    LET basis(is) == [kind |-> "basis", is |-> is]
    IN  CASE ask.about = "page ref" -> basis("page")
          [] ask.about = "item" ->
                After("items", LAMBDA w :
                    basis(IF fetchItemBranch(w).value = Null THEN "default_branch" ELSE "page"))
          [] ask.about = "branch" -> basis("default_branch")
          [] ask.about = "neither" -> basis("none")

handleDeployPreflight ==
    CASE ~paired -> Refuse("deploy-preflight", "unreachable")
      [] paired /\ ask.about = "no urn" -> resolutionFor(No("unsupported"))
      [] paired /\ ask.about = "unbound" ->
            After("servicesResolve", LAMBDA w : resolutionFor(fetchServiceResolution(w)))
      [] OTHER ->
            IF targetRefFor.kind = "call" THEN targetRefFor
            ELSE After("preflightDeploy", LAMBDA w :
                    [Reply("deploy-preflight", fetchPreflight(w)) EXCEPT
                        !.side = Body(targetRefFor.is, "")])

\* A service that every check does not know is not bound.
handleServiceBind ==
    IF ~paired THEN Refuse("service-bind", "unreachable")
    ELSE After("preflightDeploy", LAMBDA w :
            IF fetchPreflight(w).value.is = "unknown_service"
            THEN Refuse("service-bind", "unknown_service")
            ELSE Reply("service-bind", fetchPreflight(w)))

handleServiceUnbind == Reply("service-bind", Ok(Null))
handleServiceBindingsList == Reply("service-bindings-list", Ok(Body("bindings", "")))

\* One binding's row; why it was not checked is the row's, not the reply's.
Row(r) ==
    [Reply("service-bindings-check", r) EXCEPT
        !.ok = TRUE,
        !.gap = Null,
        !.value = Body(CASE ~r.ok -> "unchecked"
                         [] r.value.is = "same" -> "agrees"
                         [] r.value.is = "another" -> "disagrees"
                         [] r.value.is = "several" -> "ambiguous"
                         [] r.value.is = "unclaimed" -> "unclaimed", "")]

handleServiceBindingsCheck ==
    IfPaired("service-bindings-check",
        IF ask.about = "no urn" THEN Row(No("unsupported"))
        ELSE After("servicesResolve", LAMBDA w : Row(fetchServiceResolution(w))))

handleDoraMetrics ==
    IfPaired("dora-metrics",
             After("metricsDora", LAMBDA w : Reply("dora-metrics", fetchDoraMetrics(w))))
handleMetricsStats ==
    IfPaired("metrics-stats",
             After("metricsStats", LAMBDA w : Reply("metrics-stats", fetchStatsSeries(w))))

\* The markers of an outcome go beside the rows they are about.
handleEgressWindow ==
    IfPaired("egress-window", After("egress", LAMBDA w :
        LET r == Reply("egress-window", listEgress(w)) IN [r EXCEPT !.value = splitOutcomes(@)]))
handleEgressVerify ==
    IfPaired("egress-verify",
             After("egressVerify", LAMBDA w : Reply("egress-verify", verifyEgress(w))))
handleEgressProve ==
    IfPaired("egress-prove",
             After("egressProve", LAMBDA w : Reply("egress-prove", proveEgressWindow(w))))
-----------------------------------------------------------------------------
(* Briefs.  A reply's kind is the state the page goes to.                  *)

\* A source that is refused is skipped; a run that is full ends the feed.
Fed == {i \in 1 .. Times("briefFeed") : feedBriefSource(heard["briefFeed"][i]).ok}
feedAll(then) ==
    LET sources == IF ask.about = "two sources" THEN 2 ELSE 0
        full == /\ Times("briefFeed") > 0
                /\ feedBriefSource(Last("briefFeed")).value.is = "run_capacity"
    IN  CASE Times("briefFeed") < sources /\ ~full -> Call("briefFeed")
          [] (Times("briefFeed") = sources \/ full) /\ Fed = {} ->
                Refuse("failed", "no_sources_captured")
          [] OTHER -> then

settleRun(r) ==
    CASE ~r.ok -> Reply("failed", r)
      [] r.value.is = "failed" -> Refuse("failed", "synthesis_failed")
      [] r.value.is = "done" -> Reply("done", r)
      [] r.value.is \in {"collecting", "running"} -> Reply("running", r)

handleBriefStart ==
    LET run == After("briefRun", LAMBDA w :
                    IF runBrief(w).ok
                    THEN After("briefGet", LAMBDA g : settleRun(getBrief(g)))
                    ELSE Reply("failed", runBrief(w)))
    IN  CASE ~paired -> Refuse("failed", "not_paired")
          [] paired /\ ask.about = "no sources" -> Refuse("failed", "no_sources")
          [] OTHER -> After("briefCreate", LAMBDA w :
                IF createBrief(w).ok THEN feedAll(run) ELSE Reply("failed", createBrief(w)))

\* Every failure of a save is save-failed: the report stays on the page.
handleBriefSave ==
    CASE ~paired -> Refuse("save-failed", "not_paired")
      [] paired /\ ask.about = "lapsed" -> Refuse("save-failed", "expired")
      [] OTHER -> After("briefSave", LAMBDA w :
            IF saveBrief(w).ok THEN Reply("done", saveBrief(w))
            ELSE Reply("save-failed", saveBrief(w)))
-----------------------------------------------------------------------------
\* The handler of each message.
handler(kind) ==
    CASE kind = "pair" -> handlePair
      [] kind = "clip" -> handleClip
      [] kind = "clip-lookup" -> handleClipLookup
      [] kind = "related" -> handleRelated
      [] kind = "recognition" -> handleRecognise
      [] kind = "resolve" -> handleResolve
      [] kind = "fetch" -> handleFetch
      [] kind = "agent-run" -> handleAgentRun
      [] kind = "agent-state" -> handleAgentState
      [] kind = "connection" -> handleConnectionStatus
      [] kind = "discover" -> handleDiscover
      [] kind = "deploy-preflight" -> handleDeployPreflight
      [] kind = "service-bind" -> handleServiceBind
      [] kind = "service-unbind" -> handleServiceUnbind
      [] kind = "service-bindings-list" -> handleServiceBindingsList
      [] kind = "service-bindings-check" -> handleServiceBindingsCheck
      [] kind = "dora-metrics" -> handleDoraMetrics
      [] kind = "metrics-stats" -> handleMetricsStats
      [] kind = "egress-window" -> handleEgressWindow
      [] kind = "egress-verify" -> handleEgressVerify
      [] kind = "egress-prove" -> handleEgressProve
      [] kind = "brief-start" -> handleBriefStart
      [] kind = "brief-save" -> handleBriefSave

\* The answer of a route whose handler rejected.
catchReply(kind) ==
    CASE kind = "clip-lookup" -> Reply(kind, Ok(Body("none", "")))
      [] kind \in {"agent-run", "agent-state"} -> LaneReply(No("server_error"))
      [] kind = "connection" -> Reply(kind, Ok(Body("unpaired", "")))
      [] kind = "service-unbind" -> Refuse("service-bind", "server_error")
      [] kind \in {"brief-start", "brief-save"} -> Refuse("failed", "server_error")
      [] OTHER -> Refuse(kind, "server_error")

\* Those that read or write the storage after they have heard from the gateway.
KeepsMore == {"pair", "clip", "agent-run", "agent-state", "service-bind", "brief-start", "brief-save"}

\* Only the reply itself is looked at, not the state or the rows in it.
carriesUnauthorized(r) == ~r.ok /\ r.reason = "unauthorized"
-----------------------------------------------------------------------------
Init ==
    /\ ask \in UNION {{[kind |-> k, about |-> a] : a \in Abouts(k)} : k \in Kinds}
    /\ paired \in BOOLEAN
    /\ heard = Unheard /\ told = <<>>
    /\ reply = NoReply
    /\ stored = Ok(Body("collapsed", ""))
    /\ stale = FALSE /\ rejected = FALSE

\* A body that never ends keeps its handler.
Pending ==
    /\ reply = NoReply
    /\ \A route \in Routes : \A i \in 1 .. Times(route) : ~Hangs(route, heard[route][i])

\* A call and its answer.
Hear ==
    /\ Pending
    /\ handler(ask.kind).kind = "call"
    /\ LET called == handler(ask.kind).route
       IN  \E w \in Answers(called) : heard' = [heard EXCEPT ![called] = Append(@, w)]
    /\ UNCHANGED <<ask, paired, reply, stored, told, stale, rejected>>

\* A run that was just accepted is stored before the reply.
Respond ==
    LET r == handler(ask.kind)
    IN  /\ Pending
        /\ r.kind # "call"
        /\ reply' = r
        /\ stale' = carriesUnauthorized(r)
        /\ IF ask.kind = "agent-run" /\ Times("agents") > 0 /\ r.value.is = "running"
           THEN stored' = Ok(r.value) /\ told' = <<[route |-> "agents", answer |-> Last("agents")]>>
           ELSE UNCHANGED <<stored, told>>
        /\ UNCHANGED <<ask, paired, heard, rejected>>

Reject ==
    /\ Pending
    /\ ask.kind # "discover"
    /\ heard = Unheard \/ ask.kind \in KeepsMore
    /\ rejected' = TRUE
    /\ reply' = catchReply(ask.kind)
    /\ UNCHANGED <<ask, paired, heard, stored, told, stale>>
-----------------------------------------------------------------------------
(* A lane's run: the panel's next request, and the polls before it is served. *)

Between == reply = NoReply /\ heard = Unheard
Polled == Between /\ stored.value.is = "running"

\* A poll that may yet do better leaves the state as it is.
tickAgentPoll ==
    /\ Polled
    /\ \E w \in Answers("agentRuns") :
        LET r == getAgentRun(w)
        IN  /\ ~Hangs("agentRuns", w)
            /\ told' = <<told[1], [route |-> "agentRuns", answer |-> w]>>
            /\ stored' = IF r.value.is = "running" \/ r.reason \in {"unreachable", "server_error"}
                         THEN stored ELSE terminalLaneState(r)
    /\ UNCHANGED <<ask, paired, heard, reply, stale, rejected>>

\* The run outlived its time: what the last poll met, or that alone.
Lapsed == [route |-> "agentRuns", answer |-> Answer("lapsed", Null)]
giveUp ==
    /\ Polled
    /\ LET last == told[Len(told)]
           met == IF last.route = "agentRuns" THEN getAgentRun(last.answer).reason ELSE ""
       IN  IF met = "" THEN stored' = No("stale") /\ told' = <<told[1], Lapsed>>
           ELSE stored' = No(met) /\ UNCHANGED told
    /\ UNCHANGED <<ask, paired, heard, reply, stale, rejected>>

\* The links of the items that the findings name.
resolveAndPersistItemUrls ==
    /\ Between
    /\ stored.value.is = "done"
    /\ Len(told) = 2 /\ told[2].answer.body.odd # "findings"
    /\ \E w \in Answers("resolveIds") :
        /\ ~Hangs("resolveIds", w)
        /\ told' = Append(told, [route |-> "resolveIds", answer |-> w])
        /\ stored' = IF resolveItemIds(w).ok THEN Ok(Body("linked", "")) ELSE stored
    /\ UNCHANGED <<ask, paired, heard, reply, stale, rejected>>

\* The panel shows the lane again.
AskAgain ==
    /\ reply # NoReply
    /\ \E kind \in {"agent-run", "agent-state"} :
        /\ ask.kind \in {"agent-run", "agent-state"}
        /\ ask' = [ask EXCEPT !.kind = kind]
    /\ heard' = Unheard /\ reply' = NoReply /\ stale' = FALSE /\ rejected' = FALSE
    /\ UNCHANGED <<paired, stored, told>>

Next == Hear \/ Respond \/ Reject \/ tickAgentPoll \/ giveUp \/ resolveAndPersistItemUrls \/ AskAgain

Spec == Init /\ [][Next]_vars
-----------------------------------------------------------------------------
(* Properties.                                                             *)

\* What the gateway said that the reply may come of.
Evidence ==
    (UNION {{[route |-> route, answer |-> heard[route][i]] : i \in 1 .. Times(route)} : route \in Routes})
    \union (IF ask.kind \in {"agent-run", "agent-state"} THEN {told[i] : i \in DOMAIN told} ELSE {})

\* The routes that ask for no token, or no scope.
Open == {"pairConfirm", "health", "preflightDeploy", "items", "metricsDora", "metricsStats"}
Unscoped == Open \union {"ingest", "related", "connectors"}

\* The answers a reason may be given for.
Backs(e, reason) ==
    LET s == e.answer.status
    IN  \/ reason = "unreachable" /\ s \in {"refused", "aborted"}
        \/ reason = "unreachable" /\ e.route = "metricsStats" /\ e.answer.body = Stall
        \/ reason = "timeout" /\ s = "aborted"
        \/ reason = "unauthorized" /\ s = "401" /\ e.route \notin Open
        \/ reason \in {"insufficient_scope", "pairing_failed"} /\ s = "403"
        \/ reason \in {"unsupported", "disabled", "not_found"} /\ s = "404"
        \/ reason = "stale" /\ s \in {"404", "410", "lapsed"}
        \/ reason = "expired" /\ s = "410"
        \/ reason = "rate_limited" /\ s = "429"
        \/ reason = "busy" /\ s = "503"
        \/ reason \in {"invalid_request", "refused"} /\ s = "400"
        \/ reason = "payload_too_large" /\ s = "413"
        \/ /\ reason \in {"agent_failed", "unknown_service", "synthesis_failed", "malformed"}
           /\ s \in {"200", "202"}
        \/ /\ reason = "server_error"
           /\ s \notin {"refused", "aborted"}
           /\ s = "401" => e.route \in Open
           /\ s = "403" => e.route \in Unscoped

\* The reasons that are the worker's own.
OwnReasons == {"not_paired", "bad_origin", "no_term", "not_resolved", "unbound", "no_sources",
               "no_sources_captured"}
OwnReason(r) ==
    \/ r.reason \in OwnReasons
    \/ r.reason = "unreachable" /\ r.kind \in {"deploy-preflight", "service-bind"} /\ ~paired
    \/ r.reason = "expired" /\ ask.about = "lapsed"
    \/ r.reason = "unsupported" /\ ask.about = "no urn"

\* The shapes a value may be made of.
Backing(is) ==
    CASE is \in {"clipped", "indexed"} -> {"found", "indexed"}
      [] is = "running" -> {"accepted", "running", "collecting"}
      [] is = "linked" -> {"items"}
      [] is \in {"reachable", "discovered"} -> {"ok"}
      [] is = "unfetchable" -> {"not_found"}
      [] is = "agrees" -> {"same"}
      [] is = "disagrees" -> {"another"}
      [] is = "ambiguous" -> {"ambiguous", "several"}
      [] OTHER -> {is}

OwnValues == {"none", "unpaired", "unreachable", "recognised", "unrecognised", "collapsed", "failed",
              "bindings", "unchecked", "null"}
OwnValue(r) ==
    \/ r.value.is \in OwnValues
    \/ r.value.is = "not_indexed" /\ ask.about # "item"
    \/ r.value.is = "unfetchable" /\ ask.about # "item"

\* A page takes the reply to its request for one: the guards, which read the reply
\* again from lists of their own, have not drifted from the parsers.  (The clients'
\* parsers, and shared/messages.ts.)
RepliesAreUnderstood == reply # NoReply => Understood(reply)

\* A reply says nothing that the gateway did not: a reason has an answer it stands
\* for, a value was read from a good answer, the scopes that a token lacks, from
\* which the panel makes a command that replaces them, come whole from one refusal,
\* and the connection is stale only after a 401.  (The clients and the handlers.)
NothingIsMadeUp ==
    (reply # NoReply /\ ~rejected) =>
        /\ reply.reason \notin {""} /\ ~OwnReason(reply) => \E e \in Evidence : Backs(e, reply.reason)
        /\ reply.ok /\ ~OwnValue(reply) =>
                \E e \in Evidence : /\ ResOk(e.answer)
                                    /\ e.answer.body.is \in Backing(reply.value.is)
        /\ reply.gap # Null => \E e \in Evidence : e.answer = Answer("403", Body("scopes", ""))
        /\ stale => \E e \in Evidence : e.answer.status = "401"

\* A reply that tells of a 401 marks the connection stale.  (The comment of
\* carriesUnauthorized: "every route that can 401 already reports it the same way".)
RejectionIsNoted == (reply # NoReply /\ reply.reason = "unauthorized") => stale
=============================================================================
