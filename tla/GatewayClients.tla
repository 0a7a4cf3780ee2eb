---------------------------- MODULE GatewayClients ----------------------------
(***************************************************************************)
(* What each client function makes of its route's answer: the value it     *)
(* read, or a reason, with the gateway's account of a missing scope.       *)
(***************************************************************************)
EXTENDS Wire

Ok(value) == [ok |-> TRUE, reason |-> "", value |-> value, gap |-> Null]
No(reason) == [ok |-> FALSE, reason |-> reason, value |-> Null, gap |-> Null]
Parsed(value, failure) == IF value = Null THEN No(failure) ELSE Ok(value)

\* The statuses at which a client that bounds the wait for the headers goes on to
\* read the body; the others bound the whole exchange, or read no body.
readsUnbounded == [
    pairConfirm |-> {"200"}, health |-> {"200", "202"}, connectors |-> {"200"},
    ingest |-> {"200"}, related |-> {"200"}, resolve |-> {"200", "403"},
    resolveFile |-> {"200", "403"}, resolveIds |-> {"200"}, itemsFetch |-> {"200", "403"},
    agents |-> {"202", "403"}, agentRuns |-> {"200", "403"}, briefCreate |-> {"200", "403"},
    briefFeed |-> {"200"}, briefGet |-> {"200"}, briefSave |-> {"200"}]

\* A body that never ends is waited for without end.
Hangs(route, w) ==
    w.body = Stall /\ route \in DOMAIN readsUnbounded /\ w.status \in readsUnbounded[route]
-----------------------------------------------------------------------------
\* Whatever the body says, the token lacks the scope.
scopeRefusal(w) == [No("insufficient_scope") EXCEPT !.gap = parseScopeGap(readJson(w.body))]

\* Bug: a missing scope is a gateway that failed.
MutantScopedRouteFailure(w) ==
    CASE w.status = "401" -> No("unauthorized")
      [] w.status = "404" -> No("unsupported")
      [] OTHER -> No("server_error")

scopedRouteFailure(w) ==
    CASE w.status = "401" -> No("unauthorized")
      [] w.status = "403" -> scopeRefusal(w)
      [] w.status = "404" -> No("unsupported")
      [] OTHER -> No("server_error")

\* The body of a scoped read is within its timer: one that stalls is none.
scopedGet(w, value) ==
    CASE Silent(w) -> No("unreachable")
      [] w.status = "200" -> Parsed(value, "server_error")
      [] w.status = "429" -> No("rate_limited")
      [] OTHER -> scopedRouteFailure(w)
-----------------------------------------------------------------------------
confirmPair(w) ==
    CASE Silent(w) -> No("unreachable")
      [] w.status = "200" -> Parsed(Read(w.body, [paired |-> {"token", "label"}]), "server_error")
      [] w.status = "403" -> No("pairing_failed")
      [] OTHER -> No("server_error")

probeHealth(w) == ~Silent(w) /\ ResOk(w) /\ Read(w.body, [ok |-> {"status"}]) # Null

\* Null for every failure alike.
getConnectors(w) == IF w.status = "200" THEN parseConnectorHealth(w.body) ELSE Null

postClip(w) ==
    CASE Silent(w) -> No("unreachable")
      [] w.status = "200" -> Parsed(Read(w.body, [created |-> {}, updated |-> {}]), "server_error")
      [] w.status = "401" -> No("unauthorized")
      [] w.status = "400" -> No("invalid_request")
      [] w.status = "413" -> No("payload_too_large")
      [] w.status = "429" -> No("rate_limited")
      [] OTHER -> No("server_error")

postRelated(w) ==
    CASE Silent(w) -> No("unreachable")
      [] w.status = "200" -> Parsed(parseRelated(w.body), "server_error")
      [] w.status = "401" -> No("unauthorized")
      [] OTHER -> No("server_error")

resolveItem(w) ==
    CASE Silent(w) -> No("unreachable")
      [] w.status = "200" -> Parsed(parseResolveBody(w.body), "server_error")
      [] OTHER -> scopedRouteFailure(w)

\* Its 404 is an answer: a gateway older than the route.
resolveFile(w) ==
    CASE Silent(w) -> No("unreachable")
      [] w.status = "200" -> Parsed(parseFileResolution(w.body), "server_error")
      [] w.status = "404" -> Ok(Body("unsupported", ""))
      [] OTHER -> scopedRouteFailure(w)

\* Why a chunk of ids failed matters only to the chunks after it.
resolveItemIds(w) ==
    CASE w.status = "200" -> Parsed(parseResolveIdsBody(w.body), "failed")
      [] w.status = "404" -> No("unsupported")
      [] w.status = "403" -> No("forbidden")
      [] OTHER -> No("failed")

\* A timer that ran out on an outbound fetch is not a gateway that is away.
fetchItem(w) ==
    CASE w = Aborted -> No("timeout")
      [] w = Refused -> No("unreachable")
      [] w.status = "200" -> Parsed(parseFetchBody(w.body), "server_error")
      [] OTHER -> scopedRouteFailure(w)

invokeAgent(w) ==
    CASE Silent(w) -> No("unreachable")
      [] w.status = "202" -> Parsed(Read(w.body, [accepted |-> {"runId"}]), "server_error")
      [] w.status = "429" -> No("busy")
      [] OTHER -> scopedRouteFailure(w)

getAgentRun(w) ==
    CASE Silent(w) -> No("unreachable")
      [] w.status = "200" -> Parsed(parseAgentRunBody(w.body), "server_error")
      [] w.status \in {"404", "410"} -> No("stale")
      [] OTHER -> scopedRouteFailure(w)
-----------------------------------------------------------------------------
listEgress(w) == scopedGet(w, parseEgressWindow(readJson(w.body)))
verifyEgress(w) == scopedGet(w, parseVerdict(readJson(w.body)))
proveEgressWindow(w) == scopedGet(w, parseProof(readJson(w.body)))
fetchServiceResolution(w) == scopedGet(w, parseServiceResolution(readJson(w.body)))
-----------------------------------------------------------------------------
\* The public reads of a deploy: three outcomes, of which a stalled body is the last.
getJson(w, value) ==
    CASE Silent(w) -> No("unreachable")
      [] ~Silent(w) /\ ~ResOk(w) -> No("server_error")
      [] OTHER -> Parsed(value, "malformed")

fetchPreflight(w) == getJson(w, parseDeployPreflight(readJson(w.body)))
fetchDoraMetrics(w) == getJson(w, parseDoraMetrics(readJson(w.body)))

\* The branch and nothing else of the item; none is no failure.
fetchItemBranch(w) ==
    LET r == getJson(w, readJson(w.body))
    IN  IF r.ok /\ r.value.is = "branch" THEN r ELSE [r EXCEPT !.value = Null]

fetchStatsSeries(w) ==
    CASE Silent(w) -> No("unreachable")
      [] w.status = "404" -> No("unsupported")
      [] w.status = "400" -> No("refused")
      [] ~Silent(w) /\ w.status \notin {"404", "400"} /\ ~ResOk(w) -> No("server_error")
      [] ResOk(w) /\ w.body = Stall -> No("unreachable")
      [] OTHER -> Parsed(parseStatsSeries(w.body), "malformed")
-----------------------------------------------------------------------------
commonError(w) ==
    CASE w.status = "401" -> "unauthorized"
      [] w.status = "410" -> "expired"
      [] w.status = "429" -> "rate_limited"
      [] w.status = "503" -> "busy"
      [] OTHER -> "server_error"

\* Only a brief's creation asks what scope it lacks.
routeError(w) ==
    CASE Silent(w) -> No("unreachable")
      [] w.status = "403" -> No("insufficient_scope")
      [] w.status = "404" -> No("not_found")
      [] OTHER -> No(commonError(w))

createBrief(w) ==
    CASE Silent(w) -> No("unreachable")
      [] w.status = "200" -> Parsed(Read(w.body, [created |-> {"id", "expected"}]), "server_error")
      [] w.status = "403" -> scopeRefusal(w)
      [] w.status = "404" -> No("disabled")
      [] OTHER -> No(commonError(w))

\* A source that is refused, for itself unless the run is said to be full.
feedBriefSource(w) ==
    CASE w.status = "200" ->
            Parsed(Read(w.body, [received |-> {"received", "expected"}]), "server_error")
      [] w.status = "413" -> [No("refused") EXCEPT !.value =
            IF w.body.is = "run_capacity" THEN w.body ELSE Body("source_too_large", "")]
      [] OTHER -> routeError(w)

runBrief(w) == IF w.status = "200" THEN Ok(Body("started", "")) ELSE routeError(w)

getBrief(w) ==
    IF w.status = "200" THEN Parsed(parseBriefBody(w.body), "server_error") ELSE routeError(w)

saveBrief(w) ==
    IF w.status = "200" THEN Parsed(Read(w.body, [saved |-> {"itemId"}]), "server_error")
    ELSE routeError(w)
=============================================================================
