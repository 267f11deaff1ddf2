----------------------------- MODULE ServerRun -----------------------------
(***************************************************************************)
(* One run of the server process (run in cmd/main.go) with the management  *)
(* API (internal/httpapi): the order in which run opens, starts, stops and *)
(* closes its parts, the crawl at start, the value-log collector, update   *)
(* requests with the JobTracker and their jobs, MCP calls, and signals.    *)
(*                                                                         *)
(* A cycle is one invocation of IndexRepo, which RepoIndexer models; the   *)
(* pool is closed by Manager.Close, which DaemonPool models. Closing it    *)
(* is one step here, so RunEnds supposes that Close returns. An update     *)
(* request that fails authentication or names no repository changes        *)
(* nothing and is left out, and so are the two GET handlers.               *)
(***************************************************************************)
EXTENDS Naturals, FiniteSets

CONSTANTS
    Repos,
    Updates, \* the update requests, and the jobs they lead to
    Calls,   \* the MCP calls
    None

ASSUME RunAssumption == None \notin Repos

VARIABLES
    indexOnStart, \* cfg.IndexOnStart
    enableHTTP,   \* cfg.EnableHTTP
    stage,        \* where run is
    notifying,    \* signals go to the root context
    cancelled,    \* the root context is cancelled
    cache,
    pool,
    api,          \* the goroutine that serves the management API
    mcp,          \* the one that serves MCP
    gc,           \* the value-log collector
    uncrawled,    \* repositories the crawl at start has yet to index
    crawling,     \* the one it is indexing
    active,       \* JobTracker.active
    update,       \* the handler of each update request
    repo,         \* the repository it names
    job,          \* the job it leads to
    calls,        \* MCP calls in progress
    served,       \* history: run reached its select
    overran       \* history: a shutdown gave up on handlers

settings   == <<indexOnStart, enableHTTP>>
root       == <<notifying, cancelled>>
resources  == <<cache, pool>>
listeners  == <<api, mcp>>
crawlVars  == <<uncrawled, crawling>>
updateVars == <<active, update, repo, job>>
history    == <<served, overran>>
vars == <<settings, stage, root, resources, listeners, gc, crawlVars, updateVars,
          calls, history>>

Gone == {"exited", "crashed", "killed"}

\* A goroutine that serves runs before it listens; its address may be taken.
ServerStates == {"off", "starting", "up", "refused", "failed", "closed"}

\* It has returned an error.
Broken == {"refused", "failed"}

TypeOK ==
    /\ indexOnStart \in BOOLEAN
    /\ enableHTTP \in BOOLEAN
    /\ stage \in {"open", "wire", "background", "api", "xref", "mcp", "select",
                  "shutdownMcp", "stop", "shutdownApi", "awaitGC",
                  "closePool", "closeCache", "return"} \cup Gone
    /\ notifying \in BOOLEAN
    /\ cancelled \in BOOLEAN
    /\ cache \in {"unopened", "open", "closed"}
    /\ pool \in {"unopened", "open", "closed"}
    /\ api \in ServerStates
    /\ mcp \in ServerStates
    /\ gc \in {"off", "waiting", "collecting", "done"}
    /\ uncrawled \subseteq Repos
    /\ crawling \in Repos \cup {None}
    /\ active \subseteq Repos
    /\ update \in [Updates -> {"idle", "arrived", "claimed", "accepted", "conflict"}]
    /\ repo \in [Updates -> Repos \cup {None}]
    /\ job \in [Updates -> {"none", "pending", "cycling", "finishing", "ended"}]
    /\ calls \subseteq Calls
    /\ served \in BOOLEAN
    /\ overran \in BOOLEAN

Init ==
    /\ indexOnStart \in BOOLEAN
    /\ enableHTTP \in BOOLEAN
    /\ stage = "open"
    /\ notifying = TRUE
    /\ cancelled = FALSE
    /\ cache = "unopened"
    /\ pool = "unopened"
    /\ api = "off"
    /\ mcp = "off"
    /\ gc = "off"
    /\ uncrawled = {}
    /\ crawling = None
    /\ active = {}
    /\ update = [u \in Updates |-> "idle"]
    /\ repo = [u \in Updates |-> None]
    /\ job = [u \in Updates |-> "none"]
    /\ calls = {}
    /\ served = FALSE
    /\ overran = FALSE

Alive == stage \notin Gone

InFlight(u) == update[u] \in {"arrived", "claimed"}

-----------------------------------------------------------------------------
(* run, until it serves. Each step may fail, and run then returns through  *)
(* the deferred calls it has registered so far: without stop or a          *)
(* shutdown, and with the root context alive.                              *)

OpenCache ==
    /\ stage = "open"
    /\ \/ cache' = "open" /\ stage' = "wire"
       \/ cache' = cache /\ stage' = "return"
    /\ UNCHANGED <<settings, root, pool, listeners, gc, crawlVars, updateVars,
                   calls, history>>

\* indexer.New and capabilities.Load.
Wire ==
    /\ stage = "wire"
    /\ stage' \in {"background", "closeCache"}
    /\ UNCHANGED <<settings, root, resources, listeners, gc, crawlVars,
                   updateVars, calls, history>>

StartBackground ==
    /\ stage = "background"
    /\ uncrawled' \in IF indexOnStart THEN {Repos, {}} ELSE {{}}
    /\ gc' = "waiting"
    /\ stage' = "api"
    /\ UNCHANGED <<settings, root, resources, listeners, crawling, updateVars,
                   calls, history>>

StartApi ==
    /\ stage = "api"
    /\ \/ enableHTTP /\ api' = "starting" /\ stage' = "xref"
       \/ enableHTTP /\ api' = api /\ stage' = "closeCache"
       \/ ~enableHTTP /\ api' = api /\ stage' = "xref"
    /\ UNCHANGED <<settings, root, resources, mcp, gc, crawlVars, updateVars,
                   calls, history>>

StartCrossReference ==
    /\ stage = "xref"
    /\ \/ pool' = "open" /\ stage' = "mcp"
       \/ pool' = pool /\ stage' = "closeCache"
    /\ UNCHANGED <<settings, root, cache, listeners, gc, crawlVars, updateVars,
                   calls, history>>

StartMcp ==
    /\ stage = "mcp"
    /\ \/ mcp' = "starting" /\ stage' = "select" /\ served' = TRUE
       \/ UNCHANGED <<mcp, served>> /\ stage' = "closePool"
    /\ UNCHANGED <<settings, root, resources, api, gc, crawlVars, updateVars,
                   calls, overran>>

-----------------------------------------------------------------------------
(* run, from its select on.                                                *)

\* A failed MCP server is not shut down.
Select ==
    /\ stage = "select"
    /\ \/ cancelled /\ stage' = "shutdownMcp"
       \/ mcp \in Broken /\ stage' = "stop"
       \/ api \in Broken /\ stage' = "shutdownMcp"
    /\ UNCHANGED <<settings, root, resources, listeners, gc, crawlVars,
                   updateVars, calls, history>>

\* The listener closes, or will not open any more, then the calls are awaited:
\* for five seconds, or not at all once the root context, from which the
\* deadline derives, has ended.
CloseMcpListener ==
    /\ stage = "shutdownMcp"
    /\ mcp # "closed"
    /\ mcp' = "closed"
    /\ UNCHANGED <<settings, stage, root, resources, api, gc, crawlVars,
                   updateVars, calls, history>>

\* The goroutine has not got as far as to make the server that Shutdown would
\* close: nothing happens, and the listener may open afterwards.
MissMcp ==
    /\ stage = "shutdownMcp"
    /\ mcp = "starting"
    /\ stage' = "stop"
    /\ UNCHANGED <<settings, root, resources, listeners, gc, crawlVars,
                   updateVars, calls, history>>

McpShutdown ==
    /\ stage = "shutdownMcp"
    /\ mcp = "closed"
    /\ overran' = (overran \/ calls # {})
    /\ stage' = "stop"
    /\ UNCHANGED <<settings, root, resources, listeners, gc, crawlVars,
                   updateVars, calls, served>>

\* Fault: stop only where the context is not the reason to stop.
KeepRoot ==
    /\ stage = "stop"
    /\ notifying' = FALSE
    /\ stage' = IF enableHTTP THEN "shutdownApi" ELSE "awaitGC"
    /\ UNCHANGED <<settings, cancelled, resources, listeners, gc, crawlVars,
                   updateVars, calls, history>>

\* Fault: the management API is not shut down.
StopOnly ==
    /\ stage = "stop"
    /\ cancelled' = TRUE
    /\ notifying' = FALSE
    /\ stage' = "awaitGC"
    /\ UNCHANGED <<settings, resources, listeners, gc, crawlVars, updateVars,
                   calls, history>>

\* stop: cancels the root context and gives the signals back.
Stop ==
    /\ stage = "stop"
    /\ cancelled' = TRUE
    /\ notifying' = FALSE
    /\ stage' = IF enableHTTP THEN "shutdownApi" ELSE "awaitGC"
    /\ UNCHANGED <<settings, resources, listeners, gc, crawlVars, updateVars,
                   calls, history>>

\* The API's server exists before its goroutine, so Shutdown always reaches it.
CloseApiListener ==
    /\ stage = "shutdownApi"
    /\ api # "closed"
    /\ api' = "closed"
    /\ UNCHANGED <<settings, stage, root, resources, mcp, gc, crawlVars,
                   updateVars, calls, history>>

\* Server.Shutdown returns: the handlers have returned or ten seconds are over.
ApiShutdown ==
    /\ stage = "shutdownApi"
    /\ api = "closed"
    /\ overran' = (overran \/ \E u \in Updates : InFlight(u))
    /\ stage' = "awaitGC"
    /\ UNCHANGED <<settings, root, resources, listeners, gc, crawlVars,
                   updateVars, calls, served>>

\* Fault: the collector is not awaited.
LeaveGC ==
    /\ stage = "awaitGC"
    /\ stage' = "closePool"
    /\ UNCHANGED <<settings, root, resources, listeners, gc, crawlVars,
                   updateVars, calls, history>>

AwaitGC ==
    /\ stage = "awaitGC"
    /\ gc = "done"
    /\ stage' = "closePool"
    /\ UNCHANGED <<settings, root, resources, listeners, gc, crawlVars,
                   updateVars, calls, history>>

\* The deferred calls, in reverse order.
ClosePool ==
    /\ stage = "closePool"
    /\ pool' = "closed"
    /\ stage' = "closeCache"
    /\ UNCHANGED <<settings, root, cache, listeners, gc, crawlVars, updateVars,
                   calls, history>>

CloseCache ==
    /\ stage = "closeCache"
    /\ cache' = "closed"
    /\ stage' = "return"
    /\ UNCHANGED <<settings, root, pool, listeners, gc, crawlVars, updateVars,
                   calls, history>>

\* The deferred stop, and the end of the process with all its goroutines.
Return ==
    /\ stage = "return"
    /\ cancelled' = TRUE
    /\ notifying' = FALSE
    /\ stage' = "exited"
    /\ UNCHANGED <<settings, resources, listeners, gc, crawlVars, updateVars,
                   calls, history>>

Run ==
    \/ OpenCache \/ Wire \/ StartBackground \/ StartApi \/ StartCrossReference
    \/ StartMcp \/ Select \/ CloseMcpListener \/ MissMcp \/ McpShutdown \/ Stop
    \/ CloseApiListener \/ ApiShutdown \/ AwaitGC \/ ClosePool \/ CloseCache
    \/ Return

-----------------------------------------------------------------------------
(* The background: listeners that open, or fail to, the collector, the     *)
(* crawl at start.                                                         *)

ApiListens ==
    /\ Alive /\ api = "starting"
    /\ api' \in {"up", "refused"}
    /\ UNCHANGED <<settings, stage, root, resources, mcp, gc, crawlVars,
                   updateVars, calls, history>>

McpListens ==
    /\ Alive /\ mcp = "starting"
    /\ mcp' \in {"up", "refused"}
    /\ UNCHANGED <<settings, stage, root, resources, api, gc, crawlVars,
                   updateVars, calls, history>>

ApiFails ==
    /\ Alive /\ api = "up"
    /\ api' = "failed"
    /\ UNCHANGED <<settings, stage, root, resources, mcp, gc, crawlVars,
                   updateVars, calls, history>>

McpFails ==
    /\ Alive /\ mcp = "up"
    /\ mcp' = "failed"
    /\ UNCHANGED <<settings, stage, root, resources, api, gc, crawlVars,
                   updateVars, calls, history>>

\* The ticker may win over a context that has ended: select picks either.
Collect ==
    /\ Alive /\ gc = "waiting"
    /\ gc' = "collecting"
    /\ UNCHANGED <<settings, stage, root, resources, listeners, crawlVars,
                   updateVars, calls, history>>

Collected ==
    /\ Alive /\ gc = "collecting"
    /\ gc' = "waiting"
    /\ UNCHANGED <<settings, stage, root, resources, listeners, crawlVars,
                   updateVars, calls, history>>

CollectorStops ==
    /\ Alive /\ gc = "waiting" /\ cancelled
    /\ gc' = "done"
    /\ UNCHANGED <<settings, stage, root, resources, listeners, crawlVars,
                   updateVars, calls, history>>

\* IndexAll, one repository at a time.
CrawlNext ==
    /\ Alive /\ crawling = None
    /\ \/ /\ ~cancelled
          /\ \E r \in uncrawled : crawling' = r /\ uncrawled' = uncrawled \ {r}
       \/ /\ cancelled /\ uncrawled # {}
          /\ uncrawled' = {} /\ crawling' = None
    /\ UNCHANGED <<settings, stage, root, resources, listeners, gc, updateVars,
                   calls, history>>

\* A cycle that fails does not stop the others.
CrawlEnds ==
    /\ Alive /\ crawling # None
    /\ crawling' = None
    /\ UNCHANGED <<settings, stage, root, resources, listeners, gc, uncrawled,
                   updateVars, calls, history>>

-----------------------------------------------------------------------------
(* Update requests and their jobs. A listener that fails leaves the        *)
(* connections it has accepted open.                                       *)

Open == {"up", "failed"}

\* Fault: the name of the repository is not validated.
AnyNameArrives(u) ==
    /\ Alive /\ api \in Open /\ update[u] = "idle"
    /\ update' = [update EXCEPT ![u] = "arrived"]
    /\ \E r \in Repos \cup {None} : repo' = [repo EXCEPT ![u] = r]
    /\ UNCHANGED <<settings, stage, root, resources, listeners, gc, crawlVars,
                   active, job, calls, history>>

\* handleUpdate, up to the tracker.
UpdateArrives(u) ==
    /\ Alive /\ api \in Open /\ update[u] = "idle"
    /\ update' = [update EXCEPT ![u] = "arrived"]
    /\ \E r \in Repos : repo' = [repo EXCEPT ![u] = r]
    /\ UNCHANGED <<settings, stage, root, resources, listeners, gc, crawlVars,
                   active, job, calls, history>>

\* Fault: the tracker is not asked.
StartAnyway(u) ==
    /\ Alive /\ update[u] = "arrived"
    /\ active' = active \cup {repo[u]}
    /\ update' = [update EXCEPT ![u] = "claimed"]
    /\ UNCHANGED <<settings, stage, root, resources, listeners, gc, crawlVars,
                   repo, job, calls, history>>

TryStart(u) ==
    /\ Alive /\ update[u] = "arrived"
    /\ IF repo[u] \in active
       THEN /\ update' = [update EXCEPT ![u] = "conflict"]
            /\ UNCHANGED active
       ELSE /\ update' = [update EXCEPT ![u] = "claimed"]
            /\ active' = active \cup {repo[u]}
    /\ UNCHANGED <<settings, stage, root, resources, listeners, gc, crawlVars,
                   repo, job, calls, history>>

\* go s.runIndexJob, and the answer.
Accept(u) ==
    /\ Alive /\ update[u] = "claimed"
    /\ update' = [update EXCEPT ![u] = "accepted"]
    /\ job' = [job EXCEPT ![u] = "pending"]
    /\ UNCHANGED <<settings, stage, root, resources, listeners, gc, crawlVars,
                   active, repo, calls, history>>

\* IndexRepo gets past collectFiles, which fails in a context that has ended.
JobBegins(u) ==
    /\ Alive /\ job[u] = "pending" /\ ~cancelled
    /\ job' = [job EXCEPT ![u] = "cycling"]
    /\ UNCHANGED <<settings, stage, root, resources, listeners, gc, crawlVars,
                   active, update, repo, calls, history>>

\* IndexRepo returns, with an error or without, or panics and is recovered.
JobReturns(u) ==
    /\ Alive /\ job[u] \in {"pending", "cycling"}
    /\ job' = [job EXCEPT ![u] = "finishing"]
    /\ UNCHANGED <<settings, stage, root, resources, listeners, gc, crawlVars,
                   active, update, repo, calls, history>>

\* Fault: Finish is not reached on every path.
JobForgets(u) ==
    /\ Alive /\ job[u] = "finishing"
    /\ active' \in {active, active \ {repo[u]}}
    /\ job' = [job EXCEPT ![u] = "ended"]
    /\ UNCHANGED <<settings, stage, root, resources, listeners, gc, crawlVars,
                   update, repo, calls, history>>

\* The deferred Finish.
JobFinishes(u) ==
    /\ Alive /\ job[u] = "finishing"
    /\ active' = active \ {repo[u]}
    /\ job' = [job EXCEPT ![u] = "ended"]
    /\ UNCHANGED <<settings, stage, root, resources, listeners, gc, crawlVars,
                   update, repo, calls, history>>

-----------------------------------------------------------------------------
(* The outside.                                                            *)

CallArrives(c) ==
    /\ Alive /\ mcp \in Open /\ c \notin calls
    /\ calls' = calls \cup {c}
    /\ UNCHANGED <<settings, stage, root, resources, listeners, gc, crawlVars,
                   updateVars, history>>

CallReturns(c) ==
    /\ Alive /\ c \in calls
    /\ calls' = calls \ {c}
    /\ UNCHANGED <<settings, stage, root, resources, listeners, gc, crawlVars,
                   updateVars, history>>

\* SIGINT or SIGTERM: the first ends the context, and once stop has been
\* called the default action ends the process where it stands.
Signal ==
    /\ Alive
    /\ \/ notifying /\ ~cancelled /\ cancelled' = TRUE /\ UNCHANGED stage
       \/ ~notifying /\ stage' = "killed" /\ UNCHANGED cancelled
    /\ UNCHANGED <<settings, notifying, resources, listeners, gc, crawlVars,
                   updateVars, calls, history>>

\* A parser panics, in a goroutine of IndexRepo that has no recover.
ParserPanics ==
    /\ Alive
    /\ crawling # None \/ \E u \in Updates : job[u] = "cycling"
    /\ stage' = "crashed"
    /\ UNCHANGED <<settings, root, resources, listeners, gc, crawlVars,
                   updateVars, calls, history>>

Handler(u) == UpdateArrives(u) \/ TryStart(u) \/ Accept(u)

Job(u) == JobBegins(u) \/ JobReturns(u) \/ JobFinishes(u)

Next ==
    \/ Run \/ ApiListens \/ ApiFails \/ McpListens \/ McpFails
    \/ Collect \/ Collected \/ CollectorStops
    \/ CrawlNext \/ CrawlEnds \/ Signal \/ ParserPanics
    \/ \E u \in Updates : Handler(u) \/ Job(u)
    \/ \E c \in Calls : CallArrives(c) \/ CallReturns(c)

Spec == Init /\ [][Next]_vars

\* run is scheduled, a pass of the collector ends, and its select, which
\* chooses at random, does not prefer the ticker for ever.
FairSpec ==
    /\ Spec
    /\ WF_vars(Run)
    /\ WF_vars(Collected)
    /\ SF_vars(CollectorStops)

-----------------------------------------------------------------------------

\* The update whose handler or job owns the slot of its repository.
Holds(u) == update[u] = "claimed" \/ job[u] \in {"pending", "cycling", "finishing"}

\* Two update requests never have jobs for the same repository at the same
\* time, whatever the order in which their handlers, jobs and panics take
\* their steps (requirements.md, resource contention: one cycle, the other
\* request is rejected).
JobsExclusive ==
    \A u, v \in Updates : Holds(u) /\ Holds(v) /\ u # v => repo[u] # repo[v]

\* The tracker's map names exactly the repositories somebody works on: a slot
\* is neither lost while its job runs nor left behind by a job that failed or
\* panicked, after which the repository could never be indexed again.
SlotMeansJob == active = {repo[u] : u \in {v \in Updates : Holds(v)}}

\* Once the server has served, the value-log collector has stopped before the
\* cache is closed, on every way out: it never collects in a closed database.
CollectorStopsFirst == served /\ cache = "closed" => gc = "done"

\* Unless a shutdown had to give up, no update request is left in a handler
\* when the cache closes, and no MCP call either if their server was shut
\* down: nothing that was admitted afterwards slips through. An MCP server
\* that had failed is not shut down, and one that shutdown came too early for
\* (MissMcp) may still open and admit calls: of those it says nothing.
DrainedBeforeClose ==
    served /\ cache = "closed" /\ ~overran =>
        /\ \A u \in Updates : ~InFlight(u)
        /\ mcp = "closed" => calls = {}

\* A server whose context has ended, or whose MCP server or management API
\* could not listen or has failed, leaves its select and the process ends: no
\* wait of run, least of all the one for the collector, depends on a
\* cancellation that only another way out performs.
RunEnds ==
    stage = "select" /\ (cancelled \/ mcp \in Broken \/ api \in Broken) ~> ~Alive

=============================================================================
