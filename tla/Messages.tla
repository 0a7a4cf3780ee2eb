------------------------------- MODULE Messages -------------------------------
(***************************************************************************)
(* The replies of the worker to its pages, and the guard each page puts    *)
(* before the reply it asked for.  The parsers have read the gateway's     *)
(* body; the guards read the reply again, from lists of their own, and a   *)
(* reply they refuse is to the page as good as none.                       *)
(***************************************************************************)
EXTENDS Wire

\* What a page gets: a refusal with its reason, or a value; side: what rides
\* along, a connector's health, a file, a basis, a resolution.
Refuse(kind, reason) == [kind |-> kind, ok |-> FALSE, reason |-> reason, value |-> Null,
                         gap |-> Null, side |-> Null]
Reply(kind, r) == [kind |-> kind, ok |-> r.ok, reason |-> r.reason, value |-> r.value,
                   gap |-> r.gap, side |-> Null]

\* A lane's state is a reply in itself: its reason is the state's, not the reply's.
LaneReply(state) ==
    [Reply("agent-state", state) EXCEPT !.ok = TRUE,
        !.value = IF state.ok THEN state.value ELSE Body("failed", "")]

Fits(b, strict) == b.is \in DOMAIN strict /\ b.odd \notin strict[b.is]
-----------------------------------------------------------------------------
isScopeGap(b) == Fits(b, [scopes |-> {"required", "granted"}])
NoGapOr(r) == r.gap = Null \/ isScopeGap(r.gap)

isCandidate == CandidateMembers
isResolvedItem == isCandidate \union {"modified_at"}

isClipLookupResponse(r) ==
    /\ r.kind = "clip-lookup"
    /\ Fits(r.value, [none |-> {}, clipped |-> {"modified_at"}, indexed |-> {"modified_at"}])

\* The totals beside the rows are not looked at.
isEgressWindowSuccess(r) ==
    r.kind = "egress-window" /\ r.ok /\ Fits(r.value, [rows |-> {"rows", "rowsTruncated", "outcome"}])

isRelatedResponse(r) ==
    r.kind = "related" /\ (r.ok => Fits(r.value, [items |-> {"items", "id", "type", "modified_at"}]))

isResolveOutcome(b) ==
    Fits(b, [found |-> isResolvedItem \union {"matchKind"}, not_indexed |-> {"fetchable"},
             unresolvable_url |-> {"fetchable"},
             ambiguous |-> isCandidate \union {"fetchable", "truncated"}])

\* A state outside the closed list is refused, not read as unknown.
isConnectorHealth(b) ==
    Fits(b, [known |-> {"state", "lastSuccessfulSync"}, not_configured |-> {}, unknown |-> {}])

isFileResolution(b) == Fits(b, [found |-> {"path"}, miss |-> {"reason", "repo"}, unsupported |-> {}])

isResolveResponse(r) ==
    /\ r.kind = "resolve"
    /\ r.ok => /\ isResolveOutcome(r.value)
               /\ r.side = Null \/ isConnectorHealth(r.side) \/ isFileResolution(r.side)
    /\ NoGapOr(r)

isRecognitionResponse(r) ==
    r.kind = "recognition" /\ (r.ok => Fits(r.value, [recognised |-> {}, unrecognised |-> {}]))

isFetchOutcome(b) ==
    Fits(b, [indexed |-> {"itemId"}, unfetchable |-> {}, not_configured |-> {}, rate_limited |-> {}])
isFetchResponse(r) == r.kind = "fetch" /\ (r.ok => isFetchOutcome(r.value)) /\ NoGapOr(r)
-----------------------------------------------------------------------------
AGENT_ERRORS == {"not_paired", "unauthorized", "insufficient_scope", "unsupported", "not_resolved",
                 "no_term", "stale", "unreachable", "server_error", "agent_failed"}
isAgentError(reason) == reason \in AGENT_ERRORS

\* The findings are read again, for the lane the reply names.
isLaneState(r) ==
    /\ Fits(r.value, [collapsed |-> {}, running |-> {"runId"}, done |-> LaneMembers,
                      linked |-> LaneMembers \union {"row", "foreign"}, failed |-> {}])
    /\ r.value.is = "failed" => isAgentError(r.reason) /\ NoGapOr(r)
isAgentStateResponse(r) == r.kind = "agent-state" /\ isLaneState(r)

isConnectionResponse(r) ==
    r.kind = "connection" /\ Fits(r.value, [unpaired |-> {}, reachable |-> {}, unreachable |-> {}])
-----------------------------------------------------------------------------
DEPLOY_REFUSALS == {"unbound", "unreachable", "server_error", "malformed"}
DORA_READ_FAILURES == {"not_paired", "unreachable", "server_error", "malformed"}
STATS_READ_FAILURES == DORA_READ_FAILURES \union {"unsupported", "refused"}
CHECK_UNCHECKED_REASONS == {"unauthorized", "insufficient_scope", "unsupported", "rate_limited",
                            "unreachable", "server_error"}

isServiceResolutionOutcome(r) ==
    /\ Fits(r.side, [resolved |-> Resolved.service, ambiguous |-> Resolved.service,
                     unclaimed |-> {}, forbidden |-> {}, silent |-> {}])
    /\ NoGapOr(r)

isRefBasis(b) == Fits(b, [page |-> {}, default_branch |-> {}, none |-> {}])

\* The verdict and the metrics go through their parsers a second time.
isDeployPreflightResponse(r) ==
    /\ r.kind = "deploy-preflight"
    /\ IF r.ok THEN isRefBasis(r.side) /\ parseDeployPreflight(r.value) # Null
       ELSE /\ r.reason \in DEPLOY_REFUSALS
            /\ r.reason = "unbound" => isServiceResolutionOutcome(r)

isServiceBindingsListResponse(r) ==
    r.kind = "service-bindings-list" /\ (r.ok => Fits(r.value, [bindings |-> {}]))

isServiceBindResponse(r) ==
    /\ r.kind = "service-bind"
    /\ ~r.ok => r.reason \in {"unknown_service", "unreachable", "server_error", "malformed"}

isDoraMetricsResponse(r) ==
    /\ r.kind = "dora-metrics"
    /\ IF r.ok THEN parseDoraMetrics(r.value) # Null ELSE r.reason \in DORA_READ_FAILURES

isMetricsStatsResponse(r) ==
    /\ r.kind = "metrics-stats"
    /\ IF r.ok THEN parseStatsSeries(r.value) # Null ELSE r.reason \in STATS_READ_FAILURES

\* A row that was not checked has its reason beside it.
isBindingCheckStatus(r) ==
    /\ Fits(r.value, [agrees |-> {}, disagrees |-> {"service"}, unclaimed |-> {},
                      ambiguous |-> {"candidates"}, unchecked |-> {}])
    /\ r.value.is = "unchecked" => r.reason \in CHECK_UNCHECKED_REASONS
isServiceBindingsCheckResponse(r) ==
    /\ r.kind = "service-bindings-check"
    /\ IF r.ok THEN isBindingCheckStatus(r) ELSE r.reason \in {"not_paired", "server_error"}
-----------------------------------------------------------------------------
\* The replies their pages tell by their kind alone.
isReplyFor(r) ==
    \/ r.kind \in {"pair", "clip", "discover", "egress-verify", "egress-prove"}
    \/ r.kind = "egress-window" /\ ~r.ok
    \/ r.kind \in {"running", "done", "failed", "save-failed"}          \* a brief's

\* The page that asked takes the reply for one.
Understood(r) ==
    \/ isReplyFor(r) \/ isClipLookupResponse(r) \/ isEgressWindowSuccess(r) \/ isRelatedResponse(r)
    \/ isResolveResponse(r) \/ isRecognitionResponse(r) \/ isFetchResponse(r)
    \/ isAgentStateResponse(r) \/ isConnectionResponse(r) \/ isDeployPreflightResponse(r)
    \/ isServiceBindingsListResponse(r) \/ isServiceBindResponse(r) \/ isDoraMetricsResponse(r)
    \/ isMetricsStatsResponse(r) \/ isServiceBindingsCheckResponse(r)
=============================================================================
