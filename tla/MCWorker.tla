------------------------------ MODULE MCWorker ------------------------------
(* Worker, small.  Two of whatever a part has two alike of, and two more; a  *)
(* store with three edits, each adding its own entry, over storage that may  *)
(* start with one that fails the guard.                                      *)
EXTENDS Worker, TLC

CONSTANTS x1, x2, y1, y2, here, e1, e2, e3, junk, nothing

X == {x1, x2}
Y == {y1, y2}

MCRuns == {1, 2}
MCKeys == X \union Y
MCOwners == {here}

MCOps == {e1, e2, e3}
MCValues == SUBSET MCOps
MCRaw == MCValues \union {v \union {junk} : v \in MCValues}
MCGuard == [r \in MCRaw |-> r \ {junk}]
MCEdit == [op \in MCOps |-> [v \in MCValues |-> v \union {op}]]
MCNoSnapshot == {nothing}

MCPages == {"u"}
MCPageOf == [p \in Y |-> "u"]

\* A page of each kind, and one file mirrored on two forges; a gateway above the
\* floor, one below it, a development build and one that names no version.
View(kind, product) ==
    [kind |-> kind, product |-> product, coordinate |-> IF kind = "file" THEN "main/a.ts" ELSE ""]
MCViews == {View("plain", "none"), View("pr", "github"), View("issue", "jira"),
            View("home", "jira"), View("file", "github"), View("file", "gitlab")}

Build(version, lanes, itemArm, files) ==
    [version |-> version, lanes |-> lanes, itemArm |-> itemArm, files |-> files]
AllLanes == {"glossary", "impact", "expert", "why", "catchup", "decisions", "ownership"}
MCFloor == <<7, 5, 0>>
MCBuilds == {Build(<<7, 5, 0>>, AllLanes, TRUE, TRUE),
             Build(<<6, 9, 9>>, AllLanes \ {"catchup"}, FALSE, FALSE),
             Build(<<0, 0, 0>>, AllLanes, TRUE, TRUE),
             Build(<<>>, {"why", "expert"}, FALSE, TRUE)}

MCOrigins == {"A", "B"}

MCSymmetry == Permutations(X) \union Permutations(Y)
=============================================================================
