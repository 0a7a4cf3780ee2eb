--------------------------------- MODULE Wire ---------------------------------
(***************************************************************************)
(* What a gateway may answer, and what the extension reads out of it.  A   *)
(* body is told by what it is and by the one member of it, if any, that is *)
(* not as documented: absent, of another type, or outside its closed list. *)
(* A reader is strict about the members that cost the whole body, and      *)
(* drops or replaces the others.                                           *)
(***************************************************************************)

Body(is, odd) == [is |-> is, odd |-> odd]

\* A body that does not parse, which readJson turns into null, and one that
\* never ends.
Null == Body("null", "")
Stall == Body("stall", "")

readJson(b) == IF b = Stall THEN Null ELSE b

\* A reader, as the members it is strict about in each shape it knows.
Read(b, strict) ==
    IF b.is \in DOMAIN strict /\ b.odd \notin strict[b.is] THEN b ELSE Null

\* Without the odd member, where the reader can do without it.
Dropped(b, lax) == IF b.odd \in lax THEN Body(b.is, "") ELSE b
-----------------------------------------------------------------------------
(* The shapes of each route's good answers, with their members.            *)

FindingMembers == {"finding"}                       \* of one finding of a check
CheckMembers == {"count", "findings", "gap"} \union FindingMembers \union {"newGap"}
ValueMembers == {"value", "unit", "sample", "gap", "newGap"}
CandidateMembers == {"id", "title", "url"}
RowMembers == {"rowId", "sourceId", "hitlStatus"}
LaneMembers == {"brief", "gaps", "synthesis", "findings"}
ReportMembers == {"summary", "citations", "synthesis"}
Resolved == [service |-> {"service", "candidates", "ambiguous"}]

Documented == [
    pairConfirm |-> [paired |-> {"token", "label"}],
    health |-> [ok |-> {"status"}],
    connectors |-> [listed |-> {"data", "row", "state", "lastSuccessfulSync"},
                    unlisted |-> {"data"}],
    ingest |-> [created |-> {}, updated |-> {}, other |-> {}],
    related |-> [items |-> {"items", "id", "type", "modified_at"}],
    resolve |-> [found |-> CandidateMembers \union {"modified_at", "matchKind"},
                 not_indexed |-> {"fetchable"}, unresolvable_url |-> {"fetchable"},
                 ambiguous |-> CandidateMembers \union {"fetchable", "truncated"}, other |-> {}],
    resolveFile |-> [found |-> {"path"}, miss |-> {"reason", "repo"}],
    resolveIds |-> [items |-> {"items", "row", "foreign"}],
    itemsFetch |-> [indexed |-> {"itemId"}, not_found |-> {}, not_configured |-> {},
                    rate_limited |-> {}, other |-> {}],
    agents |-> [accepted |-> {"runId"}],
    agentRuns |-> [running |-> {}, done |-> LaneMembers, failed |-> {"failureReason"},
                   other |-> {}],
    items |-> [branch |-> {}, branchless |-> {"data", "metadata"}],
    preflightDeploy |-> [verdict |-> {"verdict", "service"} \union CheckMembers,
                         unknown_service |-> {}],
    servicesResolve |-> [same |-> Resolved.service, another |-> Resolved.service,
                         several |-> Resolved.service, unclaimed |-> {"candidates", "ambiguous"}],
    metricsDora |-> [metrics |-> {"service", "computed_at"} \union ValueMembers],
    metricsStats |-> [series |-> {"service", "metric", "window", "points", "start_ms"}
                                 \union ValueMembers],
    egress |-> [rows |-> {"rows", "rowsTotal", "rowsTruncated", "outcome"} \union RowMembers],
    egressVerify |-> [intact |-> {"ok", "brokenAt", "verifiedRows", "reason"},
                      broken |-> {"ok", "brokenAt", "verifiedRows", "reason"}],
    egressProve |-> [proof |-> {"digest", "sigB64", "rowsTotal", "completeness"}],
    briefCreate |-> [created |-> {"id", "expected"}],
    briefFeed |-> [received |-> {"received", "expected"}],
    briefRun |-> [started |-> {"any"}],
    briefGet |-> [collecting |-> {}, running |-> {}, done |-> ReportMembers,
                  failed |-> {"failureReason"}, other |-> {}],
    briefSave |-> [saved |-> {"itemId"}]]

Routes == DOMAIN Documented

GoodBodies(route) ==
    UNION {{Body(s, m) : m \in Documented[route][s] \union {""}} : s \in DOMAIN Documented[route]}

\* The gateway's own account of a refusal, where it gives one.
RefusalBodies == {Body("scopes", ""), Body("scopes", "required"), Body("scopes", "granted"),
                  Null, Stall}

Answer(status, body) == [status |-> status, body |-> body]
Refused == Answer("refused", Null)      \* no connection
Aborted == Answer("aborted", Null)      \* the timer ran out before the headers

Answers(route) ==
    {Refused, Aborted}
    \union [status : {"200", "202"}, body : GoodBodies(route) \union {Null, Stall}]
    \union [status : {"403"}, body : RefusalBodies]
    \union [status : {"413"}, body : {Body("run_capacity", ""), Null}]
    \union [status : {"400", "401", "404", "410", "429", "500", "503"}, body : {Null}]

Silent(w) == w \in {Refused, Aborted}
ResOk(w) == w.status \in {"200", "202"}
-----------------------------------------------------------------------------
(* The readers.                                                            *)

\* Nothing short of the full shape makes a gap.
parseScopeGap(b) == Read(b, [scopes |-> {"required", "granted"}])

\* A bad row is skipped, and a state it does not know is unknown.
parseConnectorHealth(b) ==
    LET row == Dropped(b, {"lastSuccessfulSync"})
        list == IF row.odd = "row" THEN Body("unlisted", "") ELSE row
    IN  Read(list, [listed |-> {"data"}, unlisted |-> {"data"}])

parseRelatedHit == [strict |-> {"id"}, lax |-> {"type", "modified_at"}]
parseRelated(b) ==
    Read(Dropped(b, parseRelatedHit.lax), [items |-> {"items"} \union parseRelatedHit.strict])

parseCandidate == CandidateMembers

\* Bug: an item is a candidate.
MutantParseItem == parseCandidate

parseItem == parseCandidate \union {"modified_at"}

parseResolveBody(b) ==
    Read(b, [found |-> parseItem \union {"matchKind"}, not_indexed |-> {"fetchable"},
             unresolvable_url |-> {"fetchable"},
             ambiguous |-> parseCandidate \union {"fetchable", "truncated"}])

parseFileResolution(b) == Read(b, [found |-> {"path"}, miss |-> {"reason", "repo"}])

\* A row for an id that was not asked for is left aside.
parseResolveIdsBody(b) == Read(Dropped(b, {"foreign"}), [items |-> {"items", "row"}])

\* The misses that no retry helps are one outcome.
parseFetchBody(b) ==
    LET r == Read(b, [indexed |-> {"itemId"}, not_found |-> {}, not_configured |-> {},
                      rate_limited |-> {}])
    IN  IF r.is = "not_found" THEN Body("unfetchable", "") ELSE r

parseAgentRunBody(b) == Read(b, [running |-> {}, done |-> {"brief"}, failed |-> {"failureReason"}])

isBriefReport == ReportMembers
parseBriefBody(b) ==
    Read(Dropped(b, {"failureReason"}),
         [collecting |-> {}, running |-> {}, done |-> isBriefReport, failed |-> {}])

isEgressRow == RowMembers
\* Outcome markers that do not parse are left out; one bad row costs the window.
splitOutcomes(b) == Dropped(b, {"outcome"})
parseEgressWindow(b) ==
    Read(b, [rows |-> {"rows", "rowsTotal", "rowsTruncated"} \union isEgressRow])
parseVerdict(b) ==
    Read(Dropped(b, {"brokenAt", "verifiedRows", "reason"}), [intact |-> {"ok"}, broken |-> {"ok"}])
parseProof(b) ==
    Read(Dropped(b, {"completeness"}), [proof |-> {"digest", "sigB64", "rowsTotal"}])

\* A malformed finding is dropped, and a reason it does not know is one it cannot
\* name; a malformed check costs the body.
parseFinding == FindingMembers
parseCheck == [strict |-> {"count", "findings", "gap"}, lax |-> parseFinding \union {"newGap"}]
parseDeployPreflight(b) ==
    Read(Dropped(b, parseCheck.lax),
         [verdict |-> {"verdict", "service"} \union parseCheck.strict, unknown_service |-> {}])

\* The service is one of its candidates, and several is what ambiguous says.
parseServiceResolution(b) ==
    Read(b, [same |-> Resolved.service, another |-> Resolved.service,
             several |-> Resolved.service, unclaimed |-> {"candidates", "ambiguous"}])

parseMetricValue == [strict |-> {"value", "unit", "sample", "gap"}, lax |-> {"newGap"}]
parseDoraMetrics(b) ==
    Read(Dropped(b, parseMetricValue.lax),
         [metrics |-> {"service", "computed_at"} \union parseMetricValue.strict])

parsePoint == {"start_ms"} \union parseMetricValue.strict
parseStatsSeries(b) ==
    Read(Dropped(b, parseMetricValue.lax),
         [series |-> {"service", "metric", "window", "points"} \union parsePoint])
=============================================================================
