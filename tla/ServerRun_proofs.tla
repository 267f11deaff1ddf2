-------------------------- MODULE ServerRun_proofs --------------------------
(***************************************************************************)
(* What ServerRun promises about jobs and about closing the cache, for any *)
(* repositories, update requests and MCP calls.                            *)
(***************************************************************************)
EXTENDS ServerRun, TLAPS

-----------------------------------------------------------------------------
(* Jobs. Run and the crawl touch none of their variables.                  *)

\* A request leads to a job only by being accepted, and names a repository
\* from its arrival on.
JobsAccepted ==
    \A u \in Updates :
        /\ job[u] # "none" <=> update[u] = "accepted"
        /\ update[u] # "idle" => repo[u] \in Repos

JobTypes ==
    /\ active \subseteq Repos
    /\ update \in [Updates -> {"idle", "arrived", "claimed", "accepted", "conflict"}]
    /\ repo \in [Updates -> Repos \cup {None}]
    /\ job \in [Updates -> {"none", "pending", "cycling", "finishing", "ended"}]

JobIInv == JobTypes /\ JobsAccepted /\ JobsExclusive /\ SlotMeansJob

-----------------------------------------------------------------------------
(* The way out.                                                            *)

Starting == {"open", "wire", "background", "api", "xref", "mcp"}

\* The stages that come after the wait for the collector.
Closing == {"closePool", "closeCache", "return"}

AfterShutdown == {"stop", "shutdownApi", "awaitGC"} \cup Closing

\* The history says where run has been, and the cache is the last to close.
StagesInOrder ==
    /\ stage \in Starting => ~served
    /\ stage \in {"select", "shutdownMcp", "awaitGC", "stop", "shutdownApi"} => served
    /\ cache = "closed" => stage \in {"return"} \cup Gone

CollectorDone == served /\ stage \in Closing => gc = "done"

\* Listeners start once, and a closed one does not come back.
ListenersOnce ==
    /\ mcp # "off" => served
    /\ stage \in {"open", "wire", "background", "api"} => api = "off"
    /\ ~enableHTTP => api = "off"
    /\ stage = "shutdownApi" => enableHTTP
    /\ served => mcp # "off"

\* Behind a listener that has closed nothing is left, unless run gave up.
Drained ==
    /\ api = "off" => \A u \in Updates : update[u] = "idle"
    /\ served /\ stage \in {"awaitGC"} \cup Closing /\ ~overran =>
          api \in {"off", "closed"} /\ \A u \in Updates : ~InFlight(u)
    /\ stage \in AfterShutdown /\ mcp = "closed" /\ ~overran => calls = {}

ExitIInv ==
    /\ TypeOK
    /\ StagesInOrder
    /\ CollectorDone
    /\ CollectorStopsFirst
    /\ ListenersOnce
    /\ Drained
    /\ DrainedBeforeClose

-----------------------------------------------------------------------------
(* Jobs.                                                                   *)

\* Nothing but handlers and jobs touches the tracker, the requests and the
\* jobs.
LEMMA OthersLeaveJobs ==
    ASSUME Next, ~ \E u \in Updates : Handler(u) \/ Job(u)
    PROVE  UNCHANGED updateVars
<1>1. CASE Run
  BY <1>1 DEF Run, OpenCache, Wire, StartBackground, StartApi,
     StartCrossReference, StartMcp, Select, CloseMcpListener, MissMcp, McpShutdown,
     Stop,
     CloseApiListener, ApiShutdown, AwaitGC, ClosePool, CloseCache, Return,
     updateVars
<1>2. CASE \/ ApiListens \/ ApiFails \/ McpListens \/ McpFails
           \/ Collect \/ Collected \/ CollectorStops
           \/ CrawlNext \/ CrawlEnds \/ Signal \/ ParserPanics
  BY <1>2 DEF ApiListens, ApiFails, McpListens, McpFails, Collect, Collected, CollectorStops, CrawlNext,
     CrawlEnds, Signal, ParserPanics, updateVars
<1>3. CASE \E c \in Calls : CallArrives(c) \/ CallReturns(c)
  BY <1>3 DEF CallArrives, CallReturns, updateVars
<1> QED
  BY <1>1, <1>2, <1>3 DEF Next

LEMMA JobInit == Init => JobIInv
  BY DEF Init, JobIInv, JobTypes, JobsAccepted, JobsExclusive, SlotMeansJob, Holds

\* A step of one handler or job: the invariant, and who holds a slot after it.
LEMMA JobStep ==
    ASSUME JobIInv, NEW u \in Updates, Handler(u) \/ Job(u)
    PROVE  JobIInv'
<1> USE RunAssumption DEF JobIInv, JobTypes
<1>1. CASE UpdateArrives(u)
  <2>1. JobTypes' /\ JobsAccepted'
    BY <1>1 DEF UpdateArrives, JobsAccepted
  <2>2. \A v \in Updates : /\ Holds(v)' <=> Holds(v)
                           /\ Holds(v) => repo'[v] = repo[v]
    BY <1>1 DEF UpdateArrives, JobsAccepted, Holds
  <2>3. JobsExclusive' /\ SlotMeansJob'
    BY <1>1, <2>2 DEF UpdateArrives, JobsExclusive, SlotMeansJob
  <2> QED
    BY <2>1, <2>3
<1>2. CASE TryStart(u)
  <2>1. JobTypes' /\ JobsAccepted'
    BY <1>2 DEF TryStart, JobsAccepted
  <2>2. ~Holds(u) /\ repo' = repo
    BY <1>2 DEF TryStart, JobsAccepted, Holds
  <2>3. CASE repo[u] \in active
    <3>1. \A v \in Updates : Holds(v)' <=> Holds(v)
      BY <1>2, <2>3 DEF TryStart, Holds
    <3> QED
      BY <1>2, <2>1, <2>2, <2>3, <3>1 DEF TryStart, JobsExclusive, SlotMeansJob
  <2>4. CASE repo[u] \notin active
    <3>1. \A v \in Updates : Holds(v)' <=> (Holds(v) \/ v = u)
      BY <1>2, <2>4 DEF TryStart, Holds
    <3>2. \A v \in Updates : Holds(v) => repo[v] # repo[u]
      BY <2>4 DEF SlotMeansJob
    <3>3. JobsExclusive'
      BY <2>2, <3>1, <3>2 DEF JobsExclusive
    <3>4. active' = active \cup {repo[u]}
      BY <1>2, <2>4 DEF TryStart
    <3>5. SlotMeansJob'
      BY <2>2, <3>1, <3>4 DEF SlotMeansJob
    <3> QED
      BY <2>1, <3>3, <3>5
  <2> QED
    BY <2>3, <2>4
<1>3. CASE Accept(u) \/ JobBegins(u) \/ JobReturns(u)
  <2>1. JobTypes' /\ JobsAccepted' /\ active' = active /\ repo' = repo
    BY <1>3 DEF Accept, JobBegins, JobReturns, JobsAccepted
  <2>2. \A v \in Updates : Holds(v)' <=> Holds(v)
    BY <1>3 DEF Accept, JobBegins, JobReturns, JobsAccepted, Holds
  <2> QED
    BY <2>1, <2>2 DEF JobsExclusive, SlotMeansJob
<1>4. CASE JobFinishes(u)
  <2>1. JobTypes' /\ JobsAccepted' /\ repo' = repo /\ active' = active \ {repo[u]}
    BY <1>4 DEF JobFinishes, JobsAccepted
  <2>2. \A v \in Updates : Holds(v)' <=> (Holds(v) /\ v # u)
    BY <1>4 DEF JobFinishes, JobsAccepted, Holds
  <2>3. Holds(u)
    BY <1>4 DEF JobFinishes, Holds
  <2>4. \A v \in Updates : Holds(v) /\ v # u => repo[v] # repo[u]
    BY <2>3 DEF JobsExclusive
  <2>5. JobsExclusive'
    BY <2>1, <2>2 DEF JobsExclusive
  <2>6. SlotMeansJob'
    BY <2>1, <2>2, <2>4 DEF SlotMeansJob
  <2> QED
    BY <2>1, <2>5, <2>6
<1> QED
  BY <1>1, <1>2, <1>3, <1>4 DEF Handler, Job

LEMMA JobInvariance == Spec => []JobIInv
<1>1. JobIInv /\ [Next]_vars => JobIInv'
  <2> SUFFICES ASSUME JobIInv, [Next]_vars PROVE JobIInv'
    OBVIOUS
  <2>1. CASE \E u \in Updates : Handler(u) \/ Job(u)
    BY <2>1, JobStep
  <2>2. CASE UNCHANGED updateVars
    BY <2>2 DEF updateVars, JobIInv, JobTypes, JobsAccepted, JobsExclusive,
       SlotMeansJob, Holds
  <2> QED
    BY <2>1, <2>2, OthersLeaveJobs DEF vars, updateVars
<1> QED
  BY <1>1, JobInit, PTL DEF Spec

\* Whatever the repositories and requests, at most one update request at a
\* time has a job, or a claim to one, for a repository.
THEOREM OneJobPerRepo == Spec => []JobsExclusive
<1>1. JobIInv => JobsExclusive
  BY DEF JobIInv
<1> QED
  BY <1>1, JobInvariance, PTL

\* The tracker holds the repositories of the jobs that exist and no others:
\* no slot is lost early or kept for ever.
THEOREM SlotsFollowJobs == Spec => []SlotMeansJob
<1>1. JobIInv => SlotMeansJob
  BY DEF JobIInv
<1> QED
  BY <1>1, JobInvariance, PTL

-----------------------------------------------------------------------------
(* The way out. TypeOK and the parts about stages and listeners are one    *)
(* induction: they lean on each other.                                     *)

LEMMA ExitInit == Init => ExitIInv
  BY DEF Init, ExitIInv, TypeOK, ServerStates, Gone, StagesInOrder, CollectorDone,
     CollectorStopsFirst, ListenersOnce, Drained, DrainedBeforeClose, Starting,
     Closing, AfterShutdown, InFlight

\* The steps of run up to its select.
LEMMA ExitStart ==
    ASSUME ExitIInv,
           \/ OpenCache \/ Wire \/ StartBackground \/ StartApi
           \/ StartCrossReference \/ StartMcp
    PROVE  ExitIInv'
<1> USE DEF ExitIInv, TypeOK, ServerStates, Gone, StagesInOrder, CollectorDone,
     CollectorStopsFirst, ListenersOnce, Drained, DrainedBeforeClose, Starting,
     Closing, AfterShutdown, InFlight, settings, root, resources, listeners,
     crawlVars, updateVars, history
<1>1. CASE OpenCache
  BY <1>1 DEF OpenCache
<1>2. CASE Wire
  BY <1>2 DEF Wire
<1>3. CASE StartBackground
  BY <1>3 DEF StartBackground
<1>4. CASE StartApi
  BY <1>4 DEF StartApi
<1>5. CASE StartCrossReference
  BY <1>5 DEF StartCrossReference
<1>6. CASE StartMcp
  <2>1. served' \in BOOLEAN /\ overran' = overran
    BY <1>6, Zenon DEF StartMcp
  <2> QED
    BY <1>6, <2>1 DEF StartMcp
<1> QED
  BY <1>1, <1>2, <1>3, <1>4, <1>5, <1>6

\* The steps of run from its select on.
LEMMA ExitStop ==
    ASSUME ExitIInv,
           \/ Select \/ CloseMcpListener \/ MissMcp \/ McpShutdown \/ Stop
           \/ CloseApiListener \/ ApiShutdown \/ AwaitGC \/ ClosePool
           \/ CloseCache \/ Return
    PROVE  ExitIInv'
<1> USE DEF ExitIInv, TypeOK, ServerStates, Gone, StagesInOrder, CollectorDone,
     CollectorStopsFirst, ListenersOnce, Drained, DrainedBeforeClose, Starting,
     Closing, AfterShutdown, InFlight, settings, root, resources, listeners,
     crawlVars, updateVars, history
<1>1. CASE Select
  BY <1>1 DEF Select, Broken
<1>2. CASE CloseMcpListener \/ MissMcp
  BY <1>2 DEF CloseMcpListener, MissMcp
<1>3. CASE McpShutdown
  <2>1. overran' \in BOOLEAN /\ (overran' <=> overran \/ calls # {})
    BY <1>3, Zenon DEF McpShutdown
  <2> QED
    BY <1>3, <2>1 DEF McpShutdown
<1>4. CASE Stop
  <2>1. cancelled' \in BOOLEAN /\ notifying' \in BOOLEAN
    BY <1>4, Zenon DEF Stop
  <2> QED
    BY <1>4, <2>1 DEF Stop
<1>5. CASE CloseApiListener
  BY <1>5 DEF CloseApiListener
<1>6. CASE ApiShutdown
  <2>1. overran' \in BOOLEAN /\ (overran' <=> overran \/ \E u \in Updates : InFlight(u))
    BY <1>6, Zenon DEF ApiShutdown
  <2> QED
    BY <1>6, <2>1 DEF ApiShutdown
<1>7. CASE AwaitGC
  BY <1>7 DEF AwaitGC
<1>8. CASE ClosePool
  BY <1>8 DEF ClosePool
<1>9. CASE CloseCache
  BY <1>9 DEF CloseCache
<1>10. CASE Return
  <2>1. cancelled' \in BOOLEAN /\ notifying' \in BOOLEAN
    BY <1>10, Zenon DEF Return
  <2> QED
    BY <1>10, <2>1 DEF Return
<1> QED
  BY <1>1, <1>2, <1>3, <1>4, <1>5, <1>6, <1>7, <1>8, <1>9, <1>10

\* What happens next to run.
LEMMA ExitBackground ==
    ASSUME ExitIInv,
           \/ ApiListens \/ ApiFails \/ McpListens \/ McpFails
           \/ Collect \/ Collected \/ CollectorStops
           \/ CrawlNext \/ CrawlEnds \/ Signal \/ ParserPanics
    PROVE  ExitIInv'
<1> USE DEF ExitIInv, TypeOK, ServerStates, Gone, Alive, Open, StagesInOrder, CollectorDone,
     CollectorStopsFirst, ListenersOnce, Drained, DrainedBeforeClose, Starting,
     Closing, AfterShutdown, InFlight, settings, root, resources, listeners,
     crawlVars, updateVars, history
<1>1. CASE ApiListens \/ ApiFails
  BY <1>1 DEF ApiListens, ApiFails
<1>2. CASE McpListens \/ McpFails
  BY <1>2 DEF McpListens, McpFails
<1>3. CASE Collect \/ Collected \/ CollectorStops
  BY <1>3 DEF Collect, Collected, CollectorStops
<1>4. CASE CrawlNext \/ CrawlEnds
  BY <1>4 DEF CrawlNext, CrawlEnds
<1>5. CASE Signal
  <2>1. cancelled' \in BOOLEAN
    BY <1>5, Zenon DEF Signal
  <2> QED
    BY <1>5, <2>1 DEF Signal
<1>6. CASE ParserPanics
  BY <1>6 DEF ParserPanics
<1> QED
  BY <1>1, <1>2, <1>3, <1>4, <1>5, <1>6

\* A request is admitted by a listener that has been up and is not closed, and
\* a handler that is not in flight does not come back.
LEMMA ExitRequests ==
    ASSUME ExitIInv, JobIInv,
           \/ \E u \in Updates : Handler(u) \/ Job(u)
           \/ \E c \in Calls : CallArrives(c) \/ CallReturns(c)
    PROVE  ExitIInv'
<1> USE DEF ExitIInv, TypeOK, ServerStates, Gone, Alive, Open, StagesInOrder, CollectorDone,
     CollectorStopsFirst, ListenersOnce, Drained, DrainedBeforeClose, Starting,
     Closing, AfterShutdown, InFlight, settings, root, resources, listeners,
     crawlVars, updateVars, history
<1>1. ASSUME NEW u \in Updates, UpdateArrives(u) PROVE ExitIInv'
  BY <1>1 DEF UpdateArrives
<1>2. ASSUME NEW u \in Updates, TryStart(u) PROVE ExitIInv'
  BY <1>2 DEF TryStart, JobIInv, JobsAccepted
<1>3. ASSUME NEW u \in Updates, Accept(u) PROVE ExitIInv'
  BY <1>3 DEF Accept
<1>4. ASSUME NEW u \in Updates, Job(u) PROVE ExitIInv'
  BY <1>4 DEF Job, JobBegins, JobReturns, JobFinishes
<1>5. ASSUME NEW c \in Calls, CallArrives(c) \/ CallReturns(c) PROVE ExitIInv'
  BY <1>5 DEF CallArrives, CallReturns
<1> QED
  BY <1>1, <1>2, <1>3, <1>4, <1>5 DEF Handler

LEMMA ExitInvariance == Spec => []ExitIInv
<1>1. ExitIInv /\ JobIInv /\ [Next]_vars => ExitIInv'
  <2> SUFFICES ASSUME ExitIInv, JobIInv, [Next]_vars PROVE ExitIInv'
    OBVIOUS
  <2>1. CASE UNCHANGED vars
    BY <2>1 DEF vars, settings, root, resources, listeners, crawlVars,
       updateVars, history, ExitIInv, TypeOK, ServerStates, Gone, StagesInOrder,
       CollectorDone, CollectorStopsFirst, ListenersOnce, Drained,
       DrainedBeforeClose, Starting, Closing, AfterShutdown, InFlight
  <2>2. CASE Next
    BY <2>2, ExitStart, ExitStop, ExitBackground, ExitRequests DEF Next, Run
  <2> QED
    BY <2>1, <2>2
<1> QED
  BY <1>1, ExitInit, JobInvariance, PTL DEF Spec

\* Every variable keeps to its type.
THEOREM TypeCorrect == Spec => []TypeOK
<1>1. ExitIInv => TypeOK
  BY DEF ExitIInv
<1> QED
  BY <1>1, ExitInvariance, PTL

\* However a server that has served comes to its end, its collector has
\* stopped when the cache closes.
THEOREM CollectorStopsBeforeCache == Spec => []CollectorStopsFirst
<1>1. ExitIInv => CollectorStopsFirst
  BY DEF ExitIInv
<1> QED
  BY <1>1, ExitInvariance, PTL

\* When the cache closes, no handler of an update request is left that a
\* shutdown has not given up on, and no call of a server that was shut down.
THEOREM HandlersDrained == Spec => []DrainedBeforeClose
<1>1. ExitIInv => DrainedBeforeClose
  BY DEF ExitIInv
<1> QED
  BY <1>1, ExitInvariance, PTL

=============================================================================
