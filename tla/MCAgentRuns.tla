---- MODULE MCAgentRuns ----
(* AgentRuns with two runs for one lane, so that one can overtake the other. *)
EXTENDS AgentRuns

CONSTANTS r1, r2, item

MCRuns == {r1, r2}
MCKeys == {item}
====
