------------------------------- MODULE Worker -------------------------------
(***************************************************************************)
(* The parts of the worker that share no state, each on its own: a         *)
(* behaviour is one of them, by which, and the variables of the others     *)
(* stand idle in it.  KeyedStore is its own.                               *)
(***************************************************************************)
EXTENDS KeyedStore, RunConstants

CONSTANTS
    Briefs, Passages, Pages, PageOf, MaxSources, MaxBriefs, MaxAtOnce,   \* BriefRuns
    Repos, Services, NoService, MaxEvents,                               \* Bindings
    Views, Items, Builds, Floor, Term, None, MaxRuns,                    \* LaneAsk
    Origins, Readers, TTL, Timeout, Never, MaxTime,                      \* ConnectorHealth
    MaxChanges, MaxFaults                                                \* of each of these

ASSUME WorkerAssumption ==
    /\ TTL \in Nat \ {0} /\ Timeout \in Nat /\ Never \notin Nat

VARIABLES
    which,                              \* the part at work
    store, lapsed,                                                      \* RunStore
    log, passage, frame, feed, save, pairing, changes, generation, changing, faults,
    owner, recorded, left, unclear, straddling,                         \* BriefRuns
    config, bound, edits, calls, options, panel, events, want, contested,
    overtaken, elsewhere, unseen,                                       \* Bindings
    gateway, call, asked,                                               \* LaneAsk
    now, cache, flight, reader, stalled,                                \* ConnectorHealth
    ask, paired, heard, reply, lane, told, stale, rejected            \* Answers

ofBriefs == <<log, passage, frame, feed, save, pairing, generation, changing, owner,
              recorded, left, unclear, straddling>>
ofBindings == <<config, bound, edits, calls, options, events, want, contested,
                overtaken, elsewhere, unseen>>
ofLanes == <<gateway, call, asked>>
ofHealth == <<now, cache, flight, reader, stalled>>
ofAnswers == <<ask, paired, heard, reply, lane, told, stale, rejected>>
shared == <<store, lapsed, changes, faults, panel>>
all == <<which, vars, shared, ofBriefs, ofBindings, ofLanes, ofHealth, ofAnswers>>

Idle == "idle"
keyedIdle == Init /\ stored = {}
briefsIdle ==
    /\ log = Idle /\ passage = Idle /\ frame = Idle /\ feed = Idle /\ save = Idle
    /\ pairing = Idle /\ generation = Idle /\ changing = Idle /\ owner = Idle
    /\ recorded = Idle /\ left = Idle /\ unclear = Idle /\ straddling = Idle
bindingsIdle ==
    /\ config = Idle /\ bound = Idle /\ edits = Idle /\ calls = Idle /\ options = Idle
    /\ events = Idle /\ want = Idle /\ contested = Idle /\ overtaken = Idle /\ elsewhere = Idle
    /\ unseen = Idle
lanesIdle == gateway = Idle /\ call = Idle /\ asked = Idle
answersIdle ==
    /\ ask = Idle /\ paired = Idle /\ heard = Idle /\ reply = Idle
    /\ lane = Idle /\ told = Idle /\ stale = Idle /\ rejected = Idle
healthIdle == now = Idle /\ cache = Idle /\ flight = Idle /\ reader = Idle /\ stalled = Idle

R == INSTANCE RunStore
B == INSTANCE BriefRuns WITH Runs <- Briefs, MaxStored <- MaxBriefs
S == INSTANCE Bindings WITH chain <- edits
L == INSTANCE LaneAsk WITH Pages <- Views
C == INSTANCE ConnectorHealth
A == INSTANCE Answers WITH stored <- lane

\* A panel starts on a page that is not recognised.  That every version from the
\* floor on, and every development build, serves the item arm is what the code
\* takes the floor to mean (agents-capability.ts:103-130, 161-171).
ASSUME LanesAssumption ==
    /\ \E p \in Views : p.kind = "plain"
    /\ None \notin Items
    /\ \A b \in Builds : L!meetsFloor(b.version) => b.itemArm

WorkerInit ==
    \/ /\ which = "runs" /\ R!Init /\ changes = Idle /\ faults = Idle /\ panel = Idle
       /\ briefsIdle /\ bindingsIdle /\ lanesIdle /\ healthIdle /\ answersIdle /\ keyedIdle
    \/ /\ which = "briefs" /\ B!Init /\ lapsed = Idle /\ panel = Idle
       /\ bindingsIdle /\ lanesIdle /\ healthIdle /\ answersIdle /\ keyedIdle
    \/ /\ which = "bindings" /\ S!Init /\ store = Idle /\ lapsed = Idle /\ changes = Idle
       /\ faults = Idle /\ briefsIdle /\ lanesIdle /\ healthIdle /\ answersIdle /\ keyedIdle
    \/ /\ which = "lanes" /\ L!Init /\ lapsed = Idle /\ faults = Idle
       /\ briefsIdle /\ bindingsIdle /\ healthIdle /\ answersIdle /\ keyedIdle
    \/ /\ which = "health" /\ C!Init /\ store = Idle /\ lapsed = Idle /\ changes = Idle
       /\ panel = Idle /\ briefsIdle /\ bindingsIdle /\ lanesIdle /\ answersIdle /\ keyedIdle
    \/ /\ which = "answers" /\ A!Init /\ store = Idle /\ lapsed = Idle /\ changes = Idle
       /\ faults = Idle /\ panel = Idle /\ briefsIdle /\ bindingsIdle /\ lanesIdle /\ healthIdle
       /\ keyedIdle
    \/ /\ which = "keyed" /\ Init /\ store = Idle /\ lapsed = Idle /\ changes = Idle
       /\ faults = Idle /\ panel = Idle /\ briefsIdle /\ bindingsIdle /\ lanesIdle /\ healthIdle
       /\ answersIdle

WorkerNext ==
    /\ UNCHANGED which
    /\ \/ /\ which = "runs" /\ R!Next
          /\ UNCHANGED <<vars, changes, faults, panel, ofBriefs, ofBindings, ofLanes, ofHealth, ofAnswers>>
       \/ /\ which = "briefs" /\ B!Next
          /\ UNCHANGED <<vars, lapsed, panel, ofBindings, ofLanes, ofHealth, ofAnswers>>
       \/ /\ which = "bindings" /\ S!Next
          /\ UNCHANGED <<vars, store, lapsed, changes, faults, ofBriefs, ofLanes, ofHealth, ofAnswers>>
       \/ /\ which = "lanes" /\ L!Next
          /\ UNCHANGED <<vars, lapsed, faults, ofBriefs, ofBindings, ofHealth, ofAnswers>>
       \/ /\ which = "health" /\ C!Next
          /\ UNCHANGED <<vars, store, lapsed, changes, panel, ofBriefs, ofBindings, ofLanes, ofAnswers>>
       \/ /\ which = "answers" /\ A!Next
          /\ UNCHANGED <<vars, shared, ofBriefs, ofBindings, ofLanes, ofHealth>>
       \/ /\ which = "keyed" /\ Next
          /\ UNCHANGED <<shared, ofBriefs, ofBindings, ofLanes, ofHealth, ofAnswers>>

WorkerSpec == WorkerInit /\ [][WorkerNext]_all

-----------------------------------------------------------------------------
\* A write of the run store costs the runs its budgets name.
RunsEvictInOrder == [][which = "runs" => \A e \in R!Entries : R!putRun(e) => R!EvictsOnly(e)]_all

\* What left the machine is in the disclosure log, as its comments have it.
EgressIsLogged == which = "briefs" => B!EgressIsLogged

\* What left and is not in the log left by a call that was cut short, and no run that
\* is shown tells of it.
UnloggedWasCutShort == which = "briefs" => B!UnloggedWasCutShort

\* A brief that was saved says so.
SavedIsNoted == which = "briefs" => B!SavedIsNoted

\* Only passages that were sent are forgotten.
PassagesLeaveOnlySent == which = "briefs" => B!PassagesLeaveOnlySent

\* A brief of a gateway that was left needs one of two races.
ForeignRunNeedsRace == which = "briefs" => B!ForeignRunNeedsRace

\* The table of bindings shows what is stored.
TableIsCurrent == which = "bindings" => S!TableIsCurrent

\* A repository has the service it was last told to have.
LastWordStands == which = "bindings" => S!LastWordStands

\* A lane is asked by an arm its gateway serves.
ArmIsServed == which = "lanes" => L!ArmIsServed

\* What a lane shows is about the item in the header, or about one the index named alone.
AnswerIsOfTheShownItem == which = "lanes" => L!AnswerIsOfTheShownItem

\* What a file's lane shows was asked about that file.
FileAnswersAreItsOwn == which = "lanes" => L!FileAnswersAreItsOwn

\* A dashboard is told what its own gateway said, and lately.
HealthIsRecent == which = "health" => C!HealthIsRecent

\* A page takes the reply to its request for one.
RepliesAreUnderstood == which = "answers" => A!RepliesAreUnderstood

\* A reply says nothing that the gateway did not.
NothingIsMadeUp == which = "answers" => A!NothingIsMadeUp
=============================================================================
