------------------------------ MODULE Bindings ------------------------------
(***************************************************************************)
(* Which Nimbus service a repository belongs to.  The worker keeps the     *)
(* bindings and alone writes them, on one chain; the Options page lists,   *)
(* checks, corrects and removes them by message, and the deploy section of *)
(* the panel binds a repository that has none.  A bind asks the gateway    *)
(* first, a check asks it about every binding, so both are slow, and the   *)
(* user clicks on.                                                         *)
(*                                                                         *)
(* The store's chain is KeyedStore's, whose links are atomic.  Replies     *)
(* reach a page in the order the worker gave them.                         *)
(***************************************************************************)
EXTENDS Naturals, Sequences, SequencesExt, FiniteSets

CONSTANTS
    Repos,       \* the coordinates: an origin, a product and a scope each
    Services,    \* the service ids anyone may name
    NoService,   \* none
    MaxEvents    \* bound: clicks of the user, failed reads and writes, evictions

VARIABLES
    config,    \* the gateway's: the repositories each service lists
    bound,     \* the stored bindings
    chain,     \* the writes linked on the store's chain
    calls,     \* the messages the worker is handling
    options,   \* the Options page
    panel,     \* the deploy section of the panel
    events,    \* how many of MaxEvents there have been
    want,      \* history: the service each repository was last told to have
    contested, \* history: repositories with two writes under way at once, or one lost
    overtaken, \* history: those a check read with a removal or correction on its way
    elsewhere, \* history: those the panel has bound
    unseen     \* history: those corrected since the table was painted, and whether the
               \* check that follows a correction has failed since

history == <<want, contested, overtaken, elsewhere, unseen>>
vars == <<config, bound, chain, calls, options, panel, events, history>>

candidates(repo) == {s \in Services : repo \in config[s]}

\* What the gateway answers to which service claims a repository: none, one, or
\* more than one.
fetchServiceResolution(repo) ==
    CASE candidates(repo) = {}             -> "unclaimed"
      [] Cardinality(candidates(repo)) > 1 -> "ambiguous"
      [] OTHER                             -> CHOOSE s \in Services : candidates(repo) = {s}

\* What a check may say of a row: that one other service is named, which offers to
\* put it right, or anything else, its own failure included.
BindingCheckStatus(repo, service) ==
    {"nothing"} \union ({fetchServiceResolution(repo)} \intersect (Services \ {service}))

rowsOf(list) == [r \in Repos |-> [service |-> list[r], status |-> "nothing"]]
NoRows == rowsOf([r \in Repos |-> NoService])
AllSeen == [repos |-> {}, failed |-> FALSE]

\* id tells apart the messages under way; gen and keep are what the page's
\* function holds across its await, mount which section of the panel asked.
Message(kind, from) ==
    [kind |-> kind, from |-> from, repo |-> NoService, service |-> NoService,
     pc |-> "sent", gen |-> options.bindingsGeneration, keep |-> FALSE,
     mount |-> panel.mount, answer |-> "none", rows |-> NoRows,
     id |-> CHOOSE n \in 0 .. Cardinality(calls) : ~ \E c \in calls : c.id = n]

Writes(c) == c.kind \in {"service-bind", "service-unbind"}

\* Bug: what a check read is painted whatever has been clicked since.
MutantSuperseded(c) == FALSE

\* Has a binding been changed from this page since the check was sent?
Superseded(c) == c.gen # options.bindingsGeneration

Init ==
    /\ config \in [Services -> SUBSET Repos]
    /\ bound \in [Repos -> Services \union {NoService}]
    /\ chain = <<>>
    /\ options = [table |-> "shown", rows |-> rowsOf(bound), bindingsGeneration |-> 0,
                  checking |-> FALSE, status |-> "", inbox |-> <<>>]
    /\ panel = [repo |-> NoService, mount |-> 0, shown |-> "nothing", inbox |-> <<>>]
    /\ calls = {}
    /\ events = 0
    /\ want = bound
    /\ contested = {} /\ overtaken = {} /\ elsewhere = {} /\ unseen = AllSeen

----------------------------------------------------------------------------
\* The worker.

Fault == events < MaxEvents /\ events' = events + 1

Answered(c, rows, answer) ==
    LET reply == [c EXCEPT !.pc = "replied", !.answer = answer, !.rows = rows]
    IN  /\ calls' = calls \ {c}
        /\ IF c.from = "options"
           THEN options' = [options EXCEPT !.inbox = Append(@, reply)] /\ UNCHANGED panel
           ELSE panel' = [panel EXCEPT !.inbox = Append(@, reply)] /\ UNCHANGED options

Replied(c, answer) == Answered(c, c.rows, answer)

\* A write that came to nothing leaves what the others of its repository make of it.
Refused(c) ==
    LET linked == {i \in DOMAIN chain : chain[i] # c /\ chain[i].repo = c.repo}
        asking == \E w \in calls \ {c} : Writes(w) /\ w.pc = "sent" /\ w.repo = c.repo
    IN  want' = IF asking THEN want
                ELSE [want EXCEPT ![c.repo] = IF linked = {} THEN bound[c.repo]
                                              ELSE chain[Max(linked)].service]

Continue(c, next) ==
    calls' = (calls \ {c}) \union {next} /\ UNCHANGED <<options, panel>>

handleServiceBindingsList(c) ==
    /\ c.kind = "service-bindings-list"
    /\ \/ Answered(c, rowsOf(bound), "ok") /\ UNCHANGED events
       \/ Fault /\ Replied(c, "failed")
    /\ UNCHANGED <<config, bound, chain, history>>

\* The bindings are read, then asked about all at once.
CheckReads(c) ==
    /\ c.kind = "service-bindings-check" /\ c.pc = "sent"
    /\ \/ /\ Continue(c, [c EXCEPT !.pc = "resolving", !.rows = rowsOf(bound)])
          /\ overtaken' = overtaken \union {w.repo : w \in {w \in calls :
                                                Writes(w) /\ w.from = "options"}}
          /\ UNCHANGED events
       \/ Fault /\ Replied(c, "failed") /\ UNCHANGED overtaken
    /\ UNCHANGED <<config, bound, chain, want, contested, elsewhere, unseen>>

\* One binding that could not be asked about costs its own row only.
handleServiceBindingsCheck(c) ==
    /\ c.kind = "service-bindings-check" /\ c.pc = "resolving"
    /\ \E status \in [Repos -> {"nothing"} \union Services] :
          /\ \A r \in Repos :
                status[r] \in IF c.rows[r].service = NoService THEN {"nothing"}
                             ELSE BindingCheckStatus(r, c.rows[r].service)
          /\ Answered(c, [r \in Repos |-> [c.rows[r] EXCEPT !.status = status[r]]], "ok")
    /\ UNCHANGED <<config, bound, chain, events, history>>

\* A binding is saved only once the gateway was asked and knows the service.
handleServiceBind(c) ==
    /\ c.kind = "service-bind" /\ c.pc = "sent"
    /\ \/ /\ Continue(c, [c EXCEPT !.pc = "writing"])
          /\ chain' = Append(chain, [c EXCEPT !.pc = "writing"])
          /\ UNCHANGED want
       \/ Replied(c, "refused") /\ Refused(c) /\ UNCHANGED chain
    /\ UNCHANGED <<config, bound, events, contested, overtaken, elsewhere, unseen>>

\* Bug: the key of a removal leaves the origin and the product out.
MutantEdited(c, list) ==
    [r \in Repos |-> IF r = c.repo \/ c.service = NoService THEN c.service ELSE list[r]]

\* upsertBinding and removeBinding: the entry of its key, none for a removal.
Edited(c, list) == [list EXCEPT ![c.repo] = c.service]

\* A link of the chain: the list as it is by then, edited and written.
WriteLands ==
    /\ chain # <<>>
    /\ LET c == Head(chain)
       IN  \/ /\ bound' = Edited(c, bound)
              /\ elsewhere' = IF c.from = "panel" THEN elsewhere \union {c.repo} ELSE elsewhere
              /\ Replied(c, "ok") /\ UNCHANGED <<events, want>>
           \/ /\ Fault /\ Replied(c, "failed") /\ Refused(c)
              /\ UNCHANGED <<bound, elsewhere>>
    /\ chain' = Tail(chain)
    /\ UNCHANGED <<config, contested, overtaken, unseen>>

\* A bound repository has a verdict, one without a binding is offered a form.
handleDeployPreflight(c) ==
    /\ c.kind = "deploy-preflight"
    /\ \/ Replied(c, IF bound[c.repo] = NoService THEN "unbound" ELSE "verdict") /\ UNCHANGED events
       \/ Fault /\ Replied(c, "failed")
    /\ UNCHANGED <<config, bound, chain, history>>

\* The worker is evicted: nobody answers, and the write at work may have landed.
Evict ==
    /\ calls # {} /\ Fault
    /\ bound' \in {bound} \union (IF chain = <<>> THEN {} ELSE {Edited(Head(chain), bound)})
    /\ contested' = contested \union {c.repo : c \in {c \in calls : Writes(c)}}
    /\ elsewhere' = elsewhere \union {c.repo : c \in {c \in calls : Writes(c) /\ c.from = "panel"}}
    /\ LET lost(from) == SetToSeq({[c EXCEPT !.pc = "replied", !.answer = "lost"] :
                                      c \in {c \in calls : c.from = from}})
       IN  /\ options' = [options EXCEPT !.inbox = @ \o lost("options")]
           /\ panel' = [panel EXCEPT !.inbox = @ \o lost("panel")]
    /\ calls' = {} /\ chain' = <<>>
    /\ UNCHANGED <<config, want, overtaken, unseen>>

----------------------------------------------------------------------------
\* The Options page.

Sent(cs) == calls' = calls \union cs

Gesture == events < MaxEvents /\ events' = events + 1

\* A write of the user's: what it overlaps can end either way.
Told(repo, service) ==
    /\ want' = [want EXCEPT ![repo] = service]
    /\ contested' = IF \E c \in calls : c.kind = "service-bind" /\ c.repo = repo
                    THEN contested \union {repo} ELSE contested

\* A removal is linked at once: it asks the gateway nothing.
onUnbind(repo) ==
    /\ options.table = "shown" /\ options.rows[repo].service # NoService
    /\ Gesture /\ Told(repo, NoService)
    /\ options' = [options EXCEPT !.status = "", !.bindingsGeneration = @ + 1]
    /\ LET c == [Message("service-unbind", "options") EXCEPT !.repo = repo, !.pc = "writing"]
       IN  Sent({c}) /\ chain' = Append(chain, c)
    /\ UNCHANGED <<config, bound, panel, overtaken, elsewhere, unseen>>

\* The button is disabled while a check is under way; a correction's is not.
onCheckBindings ==
    /\ ~options.checking /\ Gesture
    /\ options' = [options EXCEPT !.checking = TRUE]
    /\ Sent({Message("service-bindings-check", "options")})
    /\ UNCHANGED <<config, bound, chain, panel, history>>

\* The row's button, which a check put there, names the service.
onCorrect(repo) ==
    /\ options.table = "shown" /\ options.rows[repo].status \in Services
    /\ Gesture /\ Told(repo, options.rows[repo].status)
    /\ options' = [options EXCEPT !.status = "", !.bindingsGeneration = @ + 1]
    /\ Sent({[Message("service-bind", "options") EXCEPT
                 !.repo = repo, !.service = options.rows[repo].status]})
    /\ UNCHANGED <<config, bound, chain, panel, overtaken, elsewhere, unseen>>

\* A reply is taken: the page that comes of it, and what the page sends next.
Taken(page, next) ==
    /\ options' = [page EXCEPT !.inbox = Tail(@)]
    /\ Sent(next)
    /\ UNCHANGED <<config, bound, chain, panel, events, want, contested, overtaken, elsewhere>>

refreshBindings(c) ==
    /\ c.kind = "service-bindings-list"
    /\ Taken(IF c.answer = "ok" THEN [options EXCEPT !.table = "shown", !.rows = c.rows]
             ELSE [options EXCEPT !.table = "error"], {})
    /\ unseen' = IF c.answer = "ok" THEN AllSeen ELSE unseen

Unbound(c) ==
    /\ c.kind = "service-unbind"
    /\ Taken(IF c.answer = "ok" THEN options ELSE [options EXCEPT !.status = "couldn't remove"],
             {Message("service-bindings-list", "options")})
    /\ UNCHANGED unseen

\* A check that was overtaken paints nothing; one after a refused correction
\* leaves the refusal on the status line unless it has a failure of its own.
Checked(c) ==
    /\ c.kind = "service-bindings-check"
    /\ LET page == [options EXCEPT !.checking = FALSE]
       IN  \/ /\ c.answer # "ok"
              /\ Taken([page EXCEPT !.status = "could not check"], {})
              /\ unseen' = [unseen EXCEPT !.failed = @ \/ c.repo \in Repos]
           \/ /\ c.answer = "ok" /\ Superseded(c)
              /\ Taken(IF c.keep THEN page ELSE [page EXCEPT !.status = "changed"], {})
              /\ UNCHANGED unseen
           \/ /\ c.answer = "ok" /\ ~Superseded(c)
              /\ Taken([page EXCEPT !.table = "shown", !.rows = c.rows,
                                    !.status = IF c.keep THEN @ ELSE ""], {})
              /\ unseen' = AllSeen

Corrected(c) ==
    /\ c.kind = "service-bind"
    /\ Taken([options EXCEPT !.checking = TRUE,
                             !.status = IF c.answer = "ok" THEN @ ELSE "couldn't update"],
             {[Message("service-bindings-check", "options") EXCEPT !.keep = c.answer # "ok",
                                                           !.repo = c.repo]})
    /\ unseen' = [unseen EXCEPT !.repos = @ \union {c.repo}]

OptionsReply ==
    /\ options.inbox # <<>>
    /\ LET c == Head(options.inbox)
       IN  refreshBindings(c) \/ Unbound(c) \/ Checked(c) \/ Corrected(c)

----------------------------------------------------------------------------
\* The deploy section: one mount per page, its body thrown away by the next.

mountDeploySection(repo) ==
    /\ repo # panel.repo /\ Gesture
    /\ panel' = [panel EXCEPT !.repo = repo, !.mount = @ + 1, !.shown = "asking"]
    /\ Sent({[Message("deploy-preflight", "panel") EXCEPT !.repo = repo, !.mount = panel.mount + 1]})
    /\ UNCHANGED <<config, bound, chain, options, history>>

submitBind(service) ==
    /\ panel.shown = "form" /\ Gesture /\ Told(panel.repo, service)
    /\ Sent({[Message("service-bind", "panel") EXCEPT
                 !.repo = panel.repo, !.service = service]})
    /\ UNCHANGED <<config, bound, chain, options, panel, overtaken, elsewhere, unseen>>

\* isCurrent: the host is still the asker's.  A body of a mount before is no
\* longer in it, so what goes there is not seen.
PanelReply ==
    /\ panel.inbox # <<>>
    /\ LET c == Head(panel.inbox)
           seen == c.mount = panel.mount
           shown == [verdict |-> "verdict", unbound |-> "form", refused |-> "form",
                     failed |-> IF c.kind = "service-bind" THEN "form" ELSE "refusal",
                     ok |-> panel.shown, lost |-> "refusal"][c.answer]
       IN  /\ panel' = IF c.repo = panel.repo /\ seen
                       THEN [panel EXCEPT !.inbox = Tail(@), !.shown = shown]
                       ELSE [panel EXCEPT !.inbox = Tail(@)]
           /\ Sent({[Message("deploy-preflight", "panel") EXCEPT !.repo = m.repo, !.mount = m.mount] :
                       m \in {m \in {c} : m.kind = "service-bind" /\ m.answer = "ok"
                                           /\ m.repo = panel.repo}})
    /\ UNCHANGED <<config, bound, chain, options, events, history>>

Next ==
    \/ \E c \in calls : \/ handleServiceBindingsList(c) \/ handleServiceBind(c)
                        \/ CheckReads(c) \/ handleServiceBindingsCheck(c)
                        \/ handleDeployPreflight(c)
    \/ WriteLands \/ Evict
    \/ \E r \in Repos : onUnbind(r) \/ onCorrect(r) \/ mountDeploySection(r)
    \/ onCheckBindings \/ OptionsReply
    \/ \E s \in Services : submitBind(s)
    \/ PanelReply

Spec == Init /\ [][Next]_vars
----------------------------------------------------------------------------
OptionsSettled ==
    options.inbox = <<>> /\ ~ \E c \in calls : c.from = "options"

\* Once the page has its answers the table shows what is stored: no reply of a
\* check paints a binding back that was removed or corrected since, unless that
\* check read it with the change still on its way.  Once the check that follows a
\* correction fails, what was corrected since the table was painted is not shown
\* either: the row goes on offering it, also where the check of its own correction
\* was set aside for the one that failed (options.ts:539-553, 610-646).
TableIsCurrent ==
    OptionsSettled /\ options.table = "shown"
    => \A r \in Repos \ (overtaken \union elsewhere) :
          \/ options.rows[r].service = bound[r]
          \/ unseen.failed /\ r \in unseen.repos

\* A repository has the service it was last told to have: a write never undoes or
\* drops another's, however long a bind takes.  Only a bind that was still being
\* asked about when the same repository was clicked again may have the last word
\* (service-binding-store.ts:6-17).
LastWordStands ==
    \A r \in Repos \ contested :
        (~ \E c \in calls : Writes(c) /\ c.repo = r) => bound[r] = want[r]
=============================================================================
