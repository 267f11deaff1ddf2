----------------------------- MODULE DaemonPool -----------------------------
(***************************************************************************)
(* The pool of language servers, one per (repository, language)            *)
(* (internal/lsp/manager.go): Manager.ClientSession with its shared spawn  *)
(* attempts, spawn, and Manager.Close.                                     *)
(*                                                                         *)
(* An invocation of ClientSession spawns at most one daemon, so the daemon *)
(* and the spawnAttempt are named after the invocation that makes them.    *)
(* A critical section of Manager.mu is one step, and so is Client.Shutdown *)
(* (LspClient has its steps): it ends with the child reaped.               *)
(***************************************************************************)
EXTENDS Naturals

CONSTANTS
    Requests, \* the invocations of ClientSession, each a goroutine of its own
    Keys,     \* repository and language
    KeyOf,    \* the key each invocation asks for
    Closers,  \* the goroutines that call Manager.Close
    MaxTries, \* how often ClientSession goes round its loop, 3 in the code
    None      \* no request: no daemon, no attempt

ASSUME PoolAssumption ==
    /\ KeyOf \in [Requests -> Keys]
    /\ MaxTries \in Nat \ {0}
    /\ None \notin Requests

VARIABLES
    closed,     \* Manager.closed
    clients,    \* Manager.clients
    inflight,   \* Manager.pending
    attemptDone,\* spawnAttempt.done is closed
    attempt,    \* spawnAttempt.client and err
    pc,         \* where each request is
    try,        \* its loop counter
    waitFor,    \* the attempt it waits for
    outcome,    \* how it ended: "session" or an error
    handed,     \* the session it returned
    alive,      \* the daemon's client serves: its read loop runs
    proc,       \* the daemon's process
    closerPc,   \* where each caller of Close is
    toShut      \* the sessions it has yet to shut down

poolVars    == <<closed, clients, inflight>>
attemptVars == <<attemptDone, attempt>>
requestVars == <<pc, try, waitFor, outcome, handed>>
daemonVars  == <<alive, proc>>
closerVars  == <<closerPc, toShut>>
vars == <<poolVars, attemptVars, requestVars, daemonVars, closerVars>>

Spawning == {"spawn", "init", "teardown"}
States == {"idle", "lock", "wait", "publish", "signal", "orphan", "returned"} \cup Spawning
\* "spawn" is a failure of spawn itself: prerequisites, pipes, start, handshake.
Errors == {"ErrClosed", "ErrDaemonExited", "ctx", "spawn"}
Sessions == Requests \cup {None}

TypeOK ==
    /\ closed \in BOOLEAN
    /\ clients \in [Keys -> Sessions]
    /\ inflight \in [Keys -> Sessions]
    /\ attemptDone \in [Requests -> BOOLEAN]
    /\ attempt \in [Requests -> [client : Sessions, err : Errors \cup {"none"}]]
    /\ pc \in [Requests -> States]
    /\ try \in [Requests -> 0..MaxTries]
    /\ waitFor \in [Requests -> Sessions]
    /\ outcome \in [Requests -> Errors \cup {"none", "session"}]
    /\ handed \in [Requests -> Sessions]
    /\ alive \in [Requests -> BOOLEAN]
    /\ proc \in [Requests -> {"none", "running", "zombie", "reaped"}]
    /\ closerPc \in [Closers -> {"idle", "shutting", "returned"}]
    /\ toShut \in [Closers -> SUBSET Requests]

Init ==
    /\ closed = FALSE
    /\ clients = [k \in Keys |-> None]
    /\ inflight = [k \in Keys |-> None]
    /\ attemptDone = [r \in Requests |-> FALSE]
    /\ attempt = [r \in Requests |-> [client |-> None, err |-> "none"]]
    /\ pc = [r \in Requests |-> "idle"]
    /\ try = [r \in Requests |-> 0]
    /\ waitFor = [r \in Requests |-> None]
    /\ outcome = [r \in Requests |-> "none"]
    /\ handed = [r \in Requests |-> None]
    /\ alive = [r \in Requests |-> FALSE]
    /\ proc = [r \in Requests |-> "none"]
    /\ closerPc = [c \in Closers |-> "idle"]
    /\ toShut = [c \in Closers |-> {}]

-----------------------------------------------------------------------------

Goto(r, state) == pc' = [pc EXCEPT ![r] = state]

\* return session, nil
ReturnSession(r, session) ==
    /\ Goto(r, "returned")
    /\ outcome' = [outcome EXCEPT ![r] = "session"]
    /\ handed' = [handed EXCEPT ![r] = session]

\* return nil, err
ReturnError(r, err) ==
    /\ Goto(r, "returned")
    /\ outcome' = [outcome EXCEPT ![r] = err]
    /\ UNCHANGED handed

\* Client.Shutdown, whose promise LspClient checks.
Shutdown(s) ==
    /\ alive' = [alive EXCEPT ![s] = FALSE]
    /\ proc' = [proc EXCEPT ![s] = "reaped"]

-----------------------------------------------------------------------------
(* Manager.ClientSession.                                                  *)

Enter(r) ==
    /\ pc[r] = "idle"
    /\ Goto(r, "lock")
    /\ UNCHANGED <<try, waitFor, outcome, handed>>
    /\ UNCHANGED <<poolVars, attemptVars, daemonVars, closerVars>>

\* Fault: a daemon is handed out while it is being initialised.
ServingOrStarting(k) ==
    CASE clients[k] # None /\ alive[clients[k]] -> clients[k]
      [] inflight[k] # None /\ alive[inflight[k]] -> inflight[k]
      [] OTHER -> None

\* The session registered for a key that can still serve, or None.
Serving(k) ==
    IF clients[k] # None /\ alive[clients[k]] THEN clients[k] ELSE None

\* Fault: a spawn in flight is not looked for.
NeverInFlight(k) == None

InFlight(k) == inflight[k]

\* The head of the loop: one critical section decides what the request does.
\* A registered session that is dead is dropped from the map.
Lock(r) ==
    LET k == KeyOf[r]
    IN  /\ pc[r] = "lock"
        /\ try[r] < MaxTries
        /\ \/ /\ closed
              /\ ReturnError(r, "ErrClosed")
              /\ UNCHANGED <<clients, inflight, waitFor>>
           \/ /\ ~closed
              /\ Serving(k) # None
              /\ ReturnSession(r, Serving(k))
              /\ UNCHANGED <<clients, inflight, waitFor>>
           \/ /\ ~closed
              /\ Serving(k) = None
              /\ InFlight(k) # None
              /\ clients' = [clients EXCEPT ![k] = None]
              /\ waitFor' = [waitFor EXCEPT ![r] = InFlight(k)]
              /\ Goto(r, "wait")
              /\ UNCHANGED <<inflight, outcome, handed>>
           \/ /\ ~closed
              /\ Serving(k) = None
              /\ InFlight(k) = None
              /\ clients' = [clients EXCEPT ![k] = None]
              /\ inflight' = [inflight EXCEPT ![k] = r]
              /\ Goto(r, "spawn")
              /\ UNCHANGED <<waitFor, outcome, handed>>
    /\ UNCHANGED <<closed, try, attemptVars, daemonVars, closerVars>>

\* The loop is over: three sessions in a row were dead on arrival.
OutOfTries(r) ==
    /\ pc[r] = "lock"
    /\ try[r] = MaxTries
    /\ ReturnError(r, "ErrDaemonExited")
    /\ UNCHANGED <<try, waitFor>>
    /\ UNCHANGED <<poolVars, attemptVars, daemonVars, closerVars>>

\* case <-inflight.done: the attempt's error, its session, or another try.
WaitDone(r) ==
    LET a == waitFor[r]
    IN  /\ pc[r] = "wait"
        /\ attemptDone[a]
        /\ \/ /\ attempt[a].err # "none"
              /\ ReturnError(r, attempt[a].err)
              /\ UNCHANGED try
           \/ /\ attempt[a].err = "none"
              /\ alive[attempt[a].client]
              /\ ReturnSession(r, attempt[a].client)
              /\ UNCHANGED try
           \/ /\ attempt[a].err = "none"
              /\ ~alive[attempt[a].client]
              /\ try' = [try EXCEPT ![r] = @ + 1]
              /\ Goto(r, "lock")
              /\ UNCHANGED <<outcome, handed>>
    /\ UNCHANGED <<waitFor, poolVars, attemptVars, daemonVars, closerVars>>

\* case <-ctx.Done()
WaitContext(r) ==
    /\ pc[r] = "wait"
    /\ ReturnError(r, "ctx")
    /\ UNCHANGED <<try, waitFor>>
    /\ UNCHANGED <<poolVars, attemptVars, daemonVars, closerVars>>

\* What spawn is about to return; the attempt carries it from here on.
SpawnResult(r, client, err) ==
    attempt' = [attempt EXCEPT ![r] = [client |-> client, err |-> err]]

\* spawn up to newClient: the prerequisites, pipes or start may fail.
SpawnStart(r) ==
    /\ pc[r] = "spawn"
    /\ \/ /\ SpawnResult(r, None, "spawn")
          /\ Goto(r, "publish")
          /\ UNCHANGED daemonVars
       \/ /\ alive' = [alive EXCEPT ![r] = TRUE]
          /\ proc' = [proc EXCEPT ![r] = "running"]
          /\ Goto(r, "init")
          /\ UNCHANGED attempt
    /\ UNCHANGED <<try, waitFor, outcome, handed>>
    /\ UNCHANGED <<poolVars, attemptDone, closerVars>>

\* Initialize succeeds on a session that was alive to its end ...
Initialized(r) ==
    /\ pc[r] = "init"
    /\ alive[r]
    /\ SpawnResult(r, r, "none")
    /\ Goto(r, "publish")
    /\ UNCHANGED <<try, waitFor, outcome, handed>>
    /\ UNCHANGED <<poolVars, attemptDone, daemonVars, closerVars>>

\* ... or fails: an error, the init timeout, or the end of the context of the
\* request that happens to spawn.
InitializeFails(r) ==
    /\ pc[r] = "init"
    /\ \E err \in {"spawn", "ctx"} : SpawnResult(r, None, err)
    /\ Goto(r, "teardown")
    /\ UNCHANGED <<try, waitFor, outcome, handed>>
    /\ UNCHANGED <<poolVars, attemptDone, daemonVars, closerVars>>

\* Fault: a daemon that failed its handshake is left running.
TeardownSkipped(r) ==
    /\ pc[r] = "teardown"
    /\ Goto(r, "publish")
    /\ UNCHANGED <<try, waitFor, outcome, handed>>
    /\ UNCHANGED <<poolVars, attemptVars, daemonVars, closerVars>>

Teardown(r) ==
    /\ pc[r] = "teardown"
    /\ Shutdown(r)
    /\ Goto(r, "publish")
    /\ UNCHANGED <<try, waitFor, outcome, handed>>
    /\ UNCHANGED <<poolVars, attemptVars, closerVars>>

\* Fault: the flag is not read again after the spawn.
ClosedUnnoticed == FALSE

ClosedMeanwhile == closed

\* The critical section after spawn: a session that comes up in a pool closed
\* meanwhile is kept out of the map.
Publish(r) ==
    LET k == KeyOf[r]
    IN  /\ pc[r] = "publish"
        /\ inflight' = [inflight EXCEPT ![k] = None]
        /\ \/ /\ attempt[r].err # "none"
              /\ UNCHANGED <<clients, attempt>>
           \/ /\ attempt[r].err = "none"
              /\ ClosedMeanwhile
              /\ SpawnResult(r, None, "ErrClosed")
              /\ UNCHANGED clients
           \/ /\ attempt[r].err = "none"
              /\ ~ClosedMeanwhile
              /\ clients' = [clients EXCEPT ![k] = r]
              /\ UNCHANGED attempt
        /\ Goto(r, "signal")
    /\ UNCHANGED <<try, waitFor, outcome, handed>>
    /\ UNCHANGED <<closed, attemptDone, daemonVars, closerVars>>

\* Fault: an attempt that failed is never closed.
CloseDoneOnSuccess(r) ==
    attemptDone' = [attemptDone EXCEPT ![r] = attempt[r].err = "none"]

CloseDone(r) == attemptDone' = [attemptDone EXCEPT ![r] = TRUE]

\* close(attempt.done), and the return unless there is an orphan to shut down.
Signal(r) ==
    /\ pc[r] = "signal"
    /\ CloseDone(r)
    /\ \/ /\ attempt[r].err = "none"
          /\ ReturnSession(r, r)
       \/ /\ attempt[r].err = "ErrClosed"
          /\ Goto(r, "orphan")
          /\ UNCHANGED <<outcome, handed>>
       \/ /\ attempt[r].err \notin {"none", "ErrClosed"}
          /\ ReturnError(r, attempt[r].err)
    /\ UNCHANGED <<try, waitFor, poolVars, attempt, daemonVars, closerVars>>

\* Fault: the orphan is forgotten.
DropOrphan(r) ==
    /\ pc[r] = "orphan"
    /\ ReturnError(r, "ErrClosed")
    /\ UNCHANGED <<try, waitFor, poolVars, attemptVars, daemonVars, closerVars>>

ShutOrphan(r) ==
    /\ pc[r] = "orphan"
    /\ Shutdown(r)
    /\ ReturnError(r, "ErrClosed")
    /\ UNCHANGED <<try, waitFor, poolVars, attemptVars, closerVars>>

\* The steps of a request once it has started, its context's end apart.
RequestStep(r) ==
    \/ Lock(r) \/ OutOfTries(r) \/ WaitDone(r)
    \/ SpawnStart(r) \/ Initialized(r) \/ InitializeFails(r) \/ Teardown(r)
    \/ Publish(r) \/ Signal(r) \/ ShutOrphan(r)

-----------------------------------------------------------------------------
(* Manager.Close.                                                          *)

\* Fault: the map is dropped instead of being replaced by an empty one.
NilPool == <<>>

EmptyPool == [k \in Keys |-> None]

Close(c) ==
    /\ closerPc[c] = "idle"
    /\ \/ /\ closed
          /\ closerPc' = [closerPc EXCEPT ![c] = "returned"]
          /\ UNCHANGED <<poolVars, toShut>>
       \/ /\ ~closed
          /\ closed' = TRUE
          /\ toShut' = [toShut EXCEPT ![c] = {clients[k] : k \in Keys} \ {None}]
          /\ clients' = EmptyPool
          /\ closerPc' = [closerPc EXCEPT ![c] = "shutting"]
          /\ UNCHANGED inflight
    /\ UNCHANGED <<attemptVars, requestVars, daemonVars>>

\* The goroutines that Close starts, in any order.
CloseShuts(c) ==
    /\ closerPc[c] = "shutting"
    /\ \E s \in toShut[c] :
          /\ Shutdown(s)
          /\ toShut' = [toShut EXCEPT ![c] = @ \ {s}]
    /\ UNCHANGED <<closerPc, poolVars, attemptVars, requestVars>>

\* wg.Wait()
CloseReturns(c) ==
    /\ closerPc[c] = "shutting"
    /\ toShut[c] = {}
    /\ closerPc' = [closerPc EXCEPT ![c] = "returned"]
    /\ UNCHANGED <<toShut, poolVars, attemptVars, requestVars, daemonVars>>

-----------------------------------------------------------------------------
(* The daemons, external: a process may end at any time, and the read loop *)
(* may end before the process does, on a frame it cannot parse.            *)

ProcessEnds(s) ==
    /\ proc[s] = "running"
    /\ proc' = [proc EXCEPT ![s] = "zombie"]
    /\ UNCHANGED <<alive, poolVars, attemptVars, requestVars, closerVars>>

ReadLoopEnds(s) ==
    /\ alive[s]
    /\ alive' = [alive EXCEPT ![s] = FALSE]
    /\ UNCHANGED <<proc, poolVars, attemptVars, requestVars, closerVars>>

\* The supervisor waits for the process once the read loop has ended.
Reap(s) ==
    /\ ~alive[s]
    /\ proc[s] = "zombie"
    /\ proc' = [proc EXCEPT ![s] = "reaped"]
    /\ UNCHANGED <<alive, poolVars, attemptVars, requestVars, closerVars>>

-----------------------------------------------------------------------------

Next ==
    \/ \E r \in Requests : Enter(r) \/ RequestStep(r) \/ WaitContext(r)
    \/ \E c \in Closers : Close(c) \/ CloseShuts(c) \/ CloseReturns(c)
    \/ \E s \in Requests : ProcessEnds(s) \/ ReadLoopEnds(s) \/ Reap(s)

Spec == Init /\ [][Next]_vars

\* Goroutines that can run do run: spawn ends because Initialize is bounded by
\* the init timeout and Shutdown by LspClient. No context is assumed to end.
Fairness ==
    /\ \A r \in Requests : WF_vars(RequestStep(r))
    /\ \A c \in Closers : WF_vars(CloseShuts(c) \/ CloseReturns(c))

FairSpec == Spec /\ Fairness

-----------------------------------------------------------------------------
(* Properties.                                                             *)

(***************************************************************************)
(* Single flight: concurrent callers never have two cold starts under way  *)
(* for one key.                                                            *)
(***************************************************************************)
SingleFlight ==
    \A r, s \in Requests :
        pc[r] \in Spawning /\ pc[s] \in Spawning /\ KeyOf[r] = KeyOf[s] => r = s

(***************************************************************************)
(* At most one session serves a key, the ones being started, torn down or  *)
(* orphaned by Close included.                                             *)
(***************************************************************************)
OneServingSession ==
    \A r, s \in Requests : alive[r] /\ alive[s] /\ KeyOf[r] = KeyOf[s] => r = s

(***************************************************************************)
(* A request is handed a session of its own key whose handshake is over.   *)
(***************************************************************************)
HandedReady ==
    \A r \in Requests : handed[r] # None =>
        /\ KeyOf[handed[r]] = KeyOf[r]
        /\ pc[handed[r]] \in {"signal", "returned"}

(***************************************************************************)
(* Once the pool is closed nothing is registered in it again.              *)
(***************************************************************************)
ClosedPoolEmpty == closed => \A k \in Keys : clients[k] = None

(***************************************************************************)
(* When Close has returned, and with it the requests that were spawning,   *)
(* no session is left serving, however the two interleaved.                *)
(***************************************************************************)
NoSessionOutlivesPool ==
    /\ closed
    /\ \A c \in Closers : closerPc[c] # "shutting"
    /\ \A r \in Requests : pc[r] \in {"idle", "returned"}
    => \A s \in Requests : ~alive[s]

(***************************************************************************)
(* Every request ends, whether it spawns, waits for another's spawn, or    *)
(* finds one dead session after the other, and its context need not end:   *)
(* from some point on no invocation is under way.                          *)
(***************************************************************************)
RequestsReturn == <>[](\A r \in Requests : pc[r] \in {"idle", "returned"})

(***************************************************************************)
(* manager.go:41: "Manager owns one lazily spawned language server per     *)
(* (repository, language)".                                                *)
(***************************************************************************)
OneDaemonPerKey ==
    \A r, s \in Requests :
        proc[r] = "running" /\ proc[s] = "running" /\ KeyOf[r] = KeyOf[s] => r = s

=============================================================================
