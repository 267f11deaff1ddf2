-------------------------- MODULE DaemonPool_proofs --------------------------
(***************************************************************************)
(* What DaemonPool promises, for every set of requests, keys and callers   *)
(* of Close: the inductive invariant, and the safety properties from it.   *)
(***************************************************************************)
EXTENDS DaemonPool, TLAPS

-----------------------------------------------------------------------------
(* The inductive invariant, in parts.                                      *)

\* The attempts under way are exactly the ones registered.
InFlightOwned ==
    /\ \A k \in Keys : inflight[k] # None =>
          /\ KeyOf[inflight[k]] = k
          /\ pc[inflight[k]] \in Spawning \cup {"publish"}
    /\ \A r \in Requests :
          pc[r] \in Spawning \cup {"publish"} => inflight[KeyOf[r]] = r

\* A registered session is up, was started for its key, and no other session
\* is being started for it.
RegisteredReady ==
    \A k \in Keys : clients[k] # None =>
        /\ KeyOf[clients[k]] = k
        /\ inflight[k] = None
        /\ pc[clients[k]] \in {"signal", "returned"}
        /\ attempt[clients[k]].err = "none"

\* What an attempt says, from the moment there is something to say.
AttemptSettled ==
    \A r \in Requests :
        /\ pc[r] \in {"publish", "signal"} \/ attemptDone[r] =>
              (attempt[r].err = "none" => attempt[r].client = r)
        /\ attemptDone[r] => pc[r] \in {"orphan", "returned"}
        /\ pc[r] = "orphan" => attempt[r].err = "ErrClosed"
        /\ pc[r] = "teardown" => attempt[r].err \in {"spawn", "ctx"}
        /\ pc[r] = "publish" => attempt[r].err # "ErrClosed"

\* Requests wait for attempts at their own key, and not once too often.
WaitsForKey ==
    \A r \in Requests : pc[r] = "wait" =>
        /\ try[r] < MaxTries
        /\ waitFor[r] \in Requests
        /\ KeyOf[waitFor[r]] = KeyOf[r]

\* Only a request that has started its daemon can have a session that serves,
\* and a failed attempt leaves none.
ServesAfterStart ==
    \A r \in Requests : alive[r] =>
        /\ pc[r] \notin {"idle", "lock", "wait", "spawn"}
        /\ pc[r] \in {"publish", "signal"} => attempt[r].err \in {"none", "ErrClosed"}

\* A session that serves is being started, or registered, or waits for the end
\* in a closed pool.
ServingOwned ==
    \A s \in Requests : alive[s] =>
        \/ inflight[KeyOf[s]] = s
        \/ clients[KeyOf[s]] = s
        \/ closed /\ inflight[KeyOf[s]] = None

\* In a closed pool somebody is on the way to shut down whatever serves.
ServingDoomed ==
    closed => \A s \in Requests : alive[s] =>
        \/ pc[s] \in Spawning \cup {"publish", "orphan"}
        \/ pc[s] = "signal" /\ attempt[s].err = "ErrClosed"
        \/ \E c \in Closers : closerPc[c] = "shutting" /\ s \in toShut[c]

\* HandedReady, and that what is handed out has not failed.
HandedSettled ==
    \A r \in Requests : handed[r] # None =>
        /\ KeyOf[handed[r]] = KeyOf[r]
        /\ pc[handed[r]] \in {"signal", "returned"}
        /\ attempt[handed[r]].err = "none"

IInv ==
    /\ TypeOK
    /\ InFlightOwned
    /\ RegisteredReady
    /\ AttemptSettled
    /\ WaitsForKey
    /\ ServesAfterStart
    /\ ServingOwned
    /\ OneServingSession
    /\ ClosedPoolEmpty
    /\ ServingDoomed
    /\ HandedSettled

-----------------------------------------------------------------------------
(* Type correctness.                                                       *)

(***************************************************************************)
(* Every step of the pool keeps the variables in their types. A request    *)
(* that waits has tries left, which bounds its counter.                    *)
(***************************************************************************)
LEMMA TypePreserved == TypeOK /\ WaitsForKey /\ [Next]_vars => TypeOK'
<1> SUFFICES ASSUME TypeOK, WaitsForKey, [Next]_vars PROVE TypeOK'
  OBVIOUS
<1> USE PoolAssumption DEF TypeOK, Sessions, States, Spawning, Errors,
       poolVars, attemptVars, requestVars, daemonVars, closerVars
<1>1. ASSUME NEW r \in Requests, Enter(r) PROVE TypeOK'
  BY <1>1 DEF Enter, Goto
<1>2. ASSUME NEW r \in Requests, Lock(r) PROVE TypeOK'
  BY <1>2 DEF Lock, Goto, ReturnError, ReturnSession, Serving, InFlight
<1>3. ASSUME NEW r \in Requests, OutOfTries(r) PROVE TypeOK'
  BY <1>3 DEF OutOfTries, Goto, ReturnError
<1>4. ASSUME NEW r \in Requests, WaitDone(r) PROVE TypeOK'
  <2>1. try' \in [Requests -> 0..MaxTries]
    <3>1. try[r] + 1 \in 0..MaxTries
      BY <1>4 DEF WaitDone, WaitsForKey
    <3> QED
      BY <1>4, <3>1 DEF WaitDone
  <2>2. attempt[waitFor[r]] \in [client : Sessions, err : Errors \cup {"none"}]
    BY <1>4 DEF WaitDone, WaitsForKey
  <2>3. pc' \in [Requests -> States]
    <3>1. Goto(r, "returned") \/ Goto(r, "lock")
      BY <1>4, Zenon DEF WaitDone, ReturnError, ReturnSession
    <3> QED
      BY <3>1 DEF Goto
  <2>4. outcome' \in [Requests -> Errors \cup {"none", "session"}]
    BY <1>4, <2>2 DEF WaitDone, ReturnError, ReturnSession
  <2>5. handed' \in [Requests -> Sessions]
    BY <1>4, <2>2 DEF WaitDone, ReturnError, ReturnSession
  <2> QED
    BY <1>4, <2>1, <2>3, <2>4, <2>5 DEF WaitDone
<1>5. ASSUME NEW r \in Requests, WaitContext(r) PROVE TypeOK'
  <2>1. pc' \in [Requests -> States]
    BY <1>5 DEF WaitContext, Goto, ReturnError
  <2>2. outcome' \in [Requests -> Errors \cup {"none", "session"}]
    BY <1>5 DEF WaitContext, ReturnError
  <2> QED
    BY <1>5, <2>1, <2>2 DEF WaitContext, ReturnError
<1>6. ASSUME NEW r \in Requests, SpawnStart(r) PROVE TypeOK'
  <2>1. attempt' \in [Requests -> [client : Sessions, err : Errors \cup {"none"}]]
    BY <1>6 DEF SpawnStart, SpawnResult
  <2>2. pc' \in [Requests -> States]
    BY <1>6 DEF SpawnStart, Goto
  <2>3. \/ UNCHANGED daemonVars
        \/ /\ alive' = [alive EXCEPT ![r] = TRUE]
           /\ proc' = [proc EXCEPT ![r] = "running"]
    BY <1>6, Zenon DEF SpawnStart
  <2>4. alive' \in [Requests -> BOOLEAN]
    BY <2>3
  <2>5. proc' \in [Requests -> {"none", "running", "zombie", "reaped"}]
    BY <2>3
  <2> QED
    BY <1>6, <2>1, <2>2, <2>4, <2>5 DEF SpawnStart
<1>7. ASSUME NEW r \in Requests, Initialized(r) PROVE TypeOK'
  BY <1>7 DEF Initialized, Goto, SpawnResult
<1>8. ASSUME NEW r \in Requests, InitializeFails(r) PROVE TypeOK'
  <2>1. attempt' \in [Requests -> [client : Sessions, err : Errors \cup {"none"}]]
    BY <1>8 DEF InitializeFails, SpawnResult
  <2>2. pc' \in [Requests -> States]
    BY <1>8 DEF InitializeFails, Goto
  <2> QED
    BY <1>8, <2>1, <2>2 DEF InitializeFails
<1>9. ASSUME NEW r \in Requests, Teardown(r) PROVE TypeOK'
  BY <1>9 DEF Teardown, Goto, Shutdown
<1>10. ASSUME NEW r \in Requests, Publish(r) PROVE TypeOK'
  <2>1. attempt' \in [Requests -> [client : Sessions, err : Errors \cup {"none"}]]
    BY <1>10 DEF Publish, SpawnResult
  <2>2. clients' \in [Keys -> Sessions]
    BY <1>10 DEF Publish
  <2>3. inflight' \in [Keys -> Sessions]
    BY <1>10 DEF Publish
  <2>4. pc' \in [Requests -> States]
    BY <1>10 DEF Publish, Goto
  <2> QED
    BY <1>10, <2>1, <2>2, <2>3, <2>4 DEF Publish
<1>11. ASSUME NEW r \in Requests, Signal(r) PROVE TypeOK'
  BY <1>11 DEF Signal, Goto, CloseDone, ReturnError, ReturnSession
<1>12. ASSUME NEW r \in Requests, ShutOrphan(r) PROVE TypeOK'
  BY <1>12 DEF ShutOrphan, Goto, ReturnError, Shutdown
<1>13. ASSUME NEW c \in Closers, Close(c) PROVE TypeOK'
  <2>1. {clients[k] : k \in Keys} \ {None} \in SUBSET Requests
    OBVIOUS
  <2>2. EmptyPool \in [Keys -> Sessions]
    BY DEF EmptyPool
  <2> QED
    BY <1>13, <2>1, <2>2 DEF Close
<1>14. ASSUME NEW c \in Closers, CloseShuts(c) PROVE TypeOK'
  BY <1>14 DEF CloseShuts, Shutdown
<1>15. ASSUME NEW c \in Closers, CloseReturns(c) PROVE TypeOK'
  BY <1>15 DEF CloseReturns
<1>16. ASSUME NEW s \in Requests, ProcessEnds(s) PROVE TypeOK'
  BY <1>16 DEF ProcessEnds
<1>17. ASSUME NEW s \in Requests, ReadLoopEnds(s) PROVE TypeOK'
  BY <1>17 DEF ReadLoopEnds
<1>18. ASSUME NEW s \in Requests, Reap(s) PROVE TypeOK'
  BY <1>18 DEF Reap
<1>19. CASE UNCHANGED vars
  BY <1>19 DEF vars
<1> QED
  BY <1>1, <1>2, <1>3, <1>4, <1>5, <1>6, <1>7, <1>8, <1>9, <1>10, <1>11, <1>12, <1>13, <1>14, <1>15, <1>16, <1>17, <1>18, <1>19 DEF Next, RequestStep

-----------------------------------------------------------------------------
(* Each part of the invariant is preserved by every step.                  *)

(***************************************************************************)
(* The map of spawns in flight and the requests that spawn stay in step: a *)
(* spawn enters the map in the critical section that starts it and leaves  *)
(* it in the one that publishes it.                                        *)
(***************************************************************************)
LEMMA InFlightOwnedPreserved == IInv /\ [Next]_vars => InFlightOwned'
<1> SUFFICES ASSUME IInv, [Next]_vars PROVE InFlightOwned'
  OBVIOUS
<1> USE PoolAssumption DEF IInv, TypeOK, InFlightOwned, Sessions, Spawning,
       poolVars, attemptVars, requestVars, daemonVars, closerVars
<1>1. ASSUME NEW r \in Requests, Enter(r) PROVE InFlightOwned'
  BY <1>1 DEF Enter, Goto
<1>2. ASSUME NEW r \in Requests, Lock(r) PROVE InFlightOwned'
  BY <1>2 DEF Lock, Goto, ReturnError, ReturnSession, Serving, InFlight
<1>3. ASSUME NEW r \in Requests, OutOfTries(r) PROVE InFlightOwned'
  BY <1>3 DEF OutOfTries, Goto, ReturnError
<1>4. ASSUME NEW r \in Requests, WaitDone(r) PROVE InFlightOwned'
  BY <1>4 DEF WaitDone, Goto, ReturnError, ReturnSession
<1>5. ASSUME NEW r \in Requests, WaitContext(r) PROVE InFlightOwned'
  BY <1>5 DEF WaitContext, Goto, ReturnError
<1>6. ASSUME NEW r \in Requests, SpawnStart(r) PROVE InFlightOwned'
  <2>1. Goto(r, "publish") \/ Goto(r, "init")
    BY <1>6, Zenon DEF SpawnStart
  <2>2. UNCHANGED inflight /\ pc[r] = "spawn"
    BY <1>6 DEF SpawnStart
  <2> QED
    BY <2>1, <2>2 DEF Goto
<1>7. ASSUME NEW r \in Requests, Initialized(r) PROVE InFlightOwned'
  BY <1>7 DEF Initialized, Goto, SpawnResult
<1>8. ASSUME NEW r \in Requests, InitializeFails(r) PROVE InFlightOwned'
  BY <1>8 DEF InitializeFails, Goto, SpawnResult
<1>9. ASSUME NEW r \in Requests, Teardown(r) PROVE InFlightOwned'
  BY <1>9 DEF Teardown, Goto, Shutdown
<1>10. ASSUME NEW r \in Requests, Publish(r) PROVE InFlightOwned'
  BY <1>10 DEF Publish, Goto, SpawnResult, ClosedMeanwhile
<1>11. ASSUME NEW r \in Requests, Signal(r) PROVE InFlightOwned'
  BY <1>11 DEF Signal, Goto, CloseDone, ReturnError, ReturnSession
<1>12. ASSUME NEW r \in Requests, ShutOrphan(r) PROVE InFlightOwned'
  BY <1>12 DEF ShutOrphan, Goto, ReturnError, Shutdown
<1>13. ASSUME NEW c \in Closers, Close(c) PROVE InFlightOwned'
  BY <1>13 DEF Close, EmptyPool
<1>14. ASSUME NEW c \in Closers, CloseShuts(c) PROVE InFlightOwned'
  BY <1>14 DEF CloseShuts, Shutdown
<1>15. ASSUME NEW c \in Closers, CloseReturns(c) PROVE InFlightOwned'
  BY <1>15 DEF CloseReturns
<1>16. ASSUME NEW s \in Requests, ProcessEnds(s) PROVE InFlightOwned'
  BY <1>16 DEF ProcessEnds
<1>17. ASSUME NEW s \in Requests, ReadLoopEnds(s) PROVE InFlightOwned'
  BY <1>17 DEF ReadLoopEnds
<1>18. ASSUME NEW s \in Requests, Reap(s) PROVE InFlightOwned'
  BY <1>18 DEF Reap
<1>19. CASE UNCHANGED vars
  BY <1>19 DEF vars
<1> QED
  BY <1>1, <1>2, <1>3, <1>4, <1>5, <1>6, <1>7, <1>8, <1>9, <1>10, <1>11, <1>12, <1>13, <1>14, <1>15, <1>16, <1>17, <1>18, <1>19 DEF Next, RequestStep

(***************************************************************************)
(* What is registered has been published and stays so.                     *)
(***************************************************************************)
LEMMA RegisteredReadyPreserved == IInv /\ [Next]_vars => RegisteredReady'
<1> SUFFICES ASSUME IInv, [Next]_vars PROVE RegisteredReady'
  OBVIOUS
<1> USE PoolAssumption DEF IInv, TypeOK, RegisteredReady, InFlightOwned, AttemptSettled, Sessions, Spawning,
       poolVars, attemptVars, requestVars, daemonVars, closerVars
<1>1. ASSUME NEW r \in Requests, Enter(r) PROVE RegisteredReady'
  BY <1>1 DEF Enter, Goto
<1>2. ASSUME NEW r \in Requests, Lock(r) PROVE RegisteredReady'
  BY <1>2 DEF Lock, Goto, ReturnError, ReturnSession, Serving, InFlight
<1>3. ASSUME NEW r \in Requests, OutOfTries(r) PROVE RegisteredReady'
  BY <1>3 DEF OutOfTries, Goto, ReturnError
<1>4. ASSUME NEW r \in Requests, WaitDone(r) PROVE RegisteredReady'
  BY <1>4 DEF WaitDone, Goto, ReturnError, ReturnSession
<1>5. ASSUME NEW r \in Requests, WaitContext(r) PROVE RegisteredReady'
  BY <1>5 DEF WaitContext, Goto, ReturnError
<1>6. ASSUME NEW r \in Requests, SpawnStart(r) PROVE RegisteredReady'
  BY <1>6 DEF SpawnStart, Goto, SpawnResult
<1>7. ASSUME NEW r \in Requests, Initialized(r) PROVE RegisteredReady'
  BY <1>7 DEF Initialized, Goto, SpawnResult
<1>8. ASSUME NEW r \in Requests, InitializeFails(r) PROVE RegisteredReady'
  BY <1>8 DEF InitializeFails, Goto, SpawnResult
<1>9. ASSUME NEW r \in Requests, Teardown(r) PROVE RegisteredReady'
  BY <1>9 DEF Teardown, Goto, Shutdown
<1>10. ASSUME NEW r \in Requests, Publish(r) PROVE RegisteredReady'
  BY <1>10 DEF Publish, Goto, SpawnResult, ClosedMeanwhile
<1>11. ASSUME NEW r \in Requests, Signal(r) PROVE RegisteredReady'
  BY <1>11 DEF Signal, Goto, CloseDone, ReturnError, ReturnSession
<1>12. ASSUME NEW r \in Requests, ShutOrphan(r) PROVE RegisteredReady'
  BY <1>12 DEF ShutOrphan, Goto, ReturnError, Shutdown
<1>13. ASSUME NEW c \in Closers, Close(c) PROVE RegisteredReady'
  BY <1>13 DEF Close, EmptyPool
<1>14. ASSUME NEW c \in Closers, CloseShuts(c) PROVE RegisteredReady'
  BY <1>14 DEF CloseShuts, Shutdown
<1>15. ASSUME NEW c \in Closers, CloseReturns(c) PROVE RegisteredReady'
  BY <1>15 DEF CloseReturns
<1>16. ASSUME NEW s \in Requests, ProcessEnds(s) PROVE RegisteredReady'
  BY <1>16 DEF ProcessEnds
<1>17. ASSUME NEW s \in Requests, ReadLoopEnds(s) PROVE RegisteredReady'
  BY <1>17 DEF ReadLoopEnds
<1>18. ASSUME NEW s \in Requests, Reap(s) PROVE RegisteredReady'
  BY <1>18 DEF Reap
<1>19. CASE UNCHANGED vars
  BY <1>19 DEF vars
<1> QED
  BY <1>1, <1>2, <1>3, <1>4, <1>5, <1>6, <1>7, <1>8, <1>9, <1>10, <1>11, <1>12, <1>13, <1>14, <1>15, <1>16, <1>17, <1>18, <1>19 DEF Next, RequestStep

(***************************************************************************)
(* An attempt is filled in before it is announced, and not changed after.  *)
(***************************************************************************)
LEMMA AttemptSettledPreserved == IInv /\ [Next]_vars => AttemptSettled'
<1> SUFFICES ASSUME IInv, [Next]_vars PROVE AttemptSettled'
  OBVIOUS
<1> USE PoolAssumption DEF IInv, TypeOK, AttemptSettled, Sessions, Spawning,
       poolVars, attemptVars, requestVars, daemonVars, closerVars
<1>1. ASSUME NEW r \in Requests, Enter(r) PROVE AttemptSettled'
  BY <1>1 DEF Enter, Goto
<1>2. ASSUME NEW r \in Requests, Lock(r) PROVE AttemptSettled'
  BY <1>2 DEF Lock, Goto, ReturnError, ReturnSession, Serving, InFlight
<1>3. ASSUME NEW r \in Requests, OutOfTries(r) PROVE AttemptSettled'
  BY <1>3 DEF OutOfTries, Goto, ReturnError
<1>4. ASSUME NEW r \in Requests, WaitDone(r) PROVE AttemptSettled'
  BY <1>4 DEF WaitDone, Goto, ReturnError, ReturnSession
<1>5. ASSUME NEW r \in Requests, WaitContext(r) PROVE AttemptSettled'
  BY <1>5 DEF WaitContext, Goto, ReturnError
<1>6. ASSUME NEW r \in Requests, SpawnStart(r) PROVE AttemptSettled'
  <2>1. \/ Goto(r, "publish") /\ SpawnResult(r, None, "spawn")
        \/ Goto(r, "init") /\ UNCHANGED attempt
    BY <1>6, Zenon DEF SpawnStart
  <2>2. UNCHANGED attemptDone /\ pc[r] = "spawn"
    BY <1>6 DEF SpawnStart
  <2> QED
    BY <2>1, <2>2 DEF Goto, SpawnResult
<1>7. ASSUME NEW r \in Requests, Initialized(r) PROVE AttemptSettled'
  BY <1>7 DEF Initialized, Goto, SpawnResult
<1>8. ASSUME NEW r \in Requests, InitializeFails(r) PROVE AttemptSettled'
  BY <1>8 DEF InitializeFails, Goto, SpawnResult
<1>9. ASSUME NEW r \in Requests, Teardown(r) PROVE AttemptSettled'
  BY <1>9 DEF Teardown, Goto, Shutdown
<1>10. ASSUME NEW r \in Requests, Publish(r) PROVE AttemptSettled'
  BY <1>10 DEF Publish, Goto, SpawnResult, ClosedMeanwhile
<1>11. ASSUME NEW r \in Requests, Signal(r) PROVE AttemptSettled'
  BY <1>11 DEF Signal, Goto, CloseDone, ReturnError, ReturnSession
<1>12. ASSUME NEW r \in Requests, ShutOrphan(r) PROVE AttemptSettled'
  BY <1>12 DEF ShutOrphan, Goto, ReturnError, Shutdown
<1>13. ASSUME NEW c \in Closers, Close(c) PROVE AttemptSettled'
  BY <1>13 DEF Close, EmptyPool
<1>14. ASSUME NEW c \in Closers, CloseShuts(c) PROVE AttemptSettled'
  BY <1>14 DEF CloseShuts, Shutdown
<1>15. ASSUME NEW c \in Closers, CloseReturns(c) PROVE AttemptSettled'
  BY <1>15 DEF CloseReturns
<1>16. ASSUME NEW s \in Requests, ProcessEnds(s) PROVE AttemptSettled'
  BY <1>16 DEF ProcessEnds
<1>17. ASSUME NEW s \in Requests, ReadLoopEnds(s) PROVE AttemptSettled'
  BY <1>17 DEF ReadLoopEnds
<1>18. ASSUME NEW s \in Requests, Reap(s) PROVE AttemptSettled'
  BY <1>18 DEF Reap
<1>19. CASE UNCHANGED vars
  BY <1>19 DEF vars
<1> QED
  BY <1>1, <1>2, <1>3, <1>4, <1>5, <1>6, <1>7, <1>8, <1>9, <1>10, <1>11, <1>12, <1>13, <1>14, <1>15, <1>16, <1>17, <1>18, <1>19 DEF Next, RequestStep

(***************************************************************************)
(* A request waits for the attempt it found at its own key.                *)
(***************************************************************************)
LEMMA WaitsForKeyPreserved == IInv /\ [Next]_vars => WaitsForKey'
<1> SUFFICES ASSUME IInv, [Next]_vars PROVE WaitsForKey'
  OBVIOUS
<1> USE PoolAssumption DEF IInv, TypeOK, WaitsForKey, InFlightOwned, Sessions, Spawning,
       poolVars, attemptVars, requestVars, daemonVars, closerVars
<1>1. ASSUME NEW r \in Requests, Enter(r) PROVE WaitsForKey'
  BY <1>1 DEF Enter, Goto
<1>2. ASSUME NEW r \in Requests, Lock(r) PROVE WaitsForKey'
  BY <1>2 DEF Lock, Goto, ReturnError, ReturnSession, Serving, InFlight
<1>3. ASSUME NEW r \in Requests, OutOfTries(r) PROVE WaitsForKey'
  BY <1>3 DEF OutOfTries, Goto, ReturnError
<1>4. ASSUME NEW r \in Requests, WaitDone(r) PROVE WaitsForKey'
  BY <1>4 DEF WaitDone, Goto, ReturnError, ReturnSession
<1>5. ASSUME NEW r \in Requests, WaitContext(r) PROVE WaitsForKey'
  BY <1>5 DEF WaitContext, Goto, ReturnError
<1>6. ASSUME NEW r \in Requests, SpawnStart(r) PROVE WaitsForKey'
  BY <1>6 DEF SpawnStart, Goto, SpawnResult
<1>7. ASSUME NEW r \in Requests, Initialized(r) PROVE WaitsForKey'
  BY <1>7 DEF Initialized, Goto, SpawnResult
<1>8. ASSUME NEW r \in Requests, InitializeFails(r) PROVE WaitsForKey'
  BY <1>8 DEF InitializeFails, Goto, SpawnResult
<1>9. ASSUME NEW r \in Requests, Teardown(r) PROVE WaitsForKey'
  BY <1>9 DEF Teardown, Goto, Shutdown
<1>10. ASSUME NEW r \in Requests, Publish(r) PROVE WaitsForKey'
  BY <1>10 DEF Publish, Goto, SpawnResult, ClosedMeanwhile
<1>11. ASSUME NEW r \in Requests, Signal(r) PROVE WaitsForKey'
  BY <1>11 DEF Signal, Goto, CloseDone, ReturnError, ReturnSession
<1>12. ASSUME NEW r \in Requests, ShutOrphan(r) PROVE WaitsForKey'
  BY <1>12 DEF ShutOrphan, Goto, ReturnError, Shutdown
<1>13. ASSUME NEW c \in Closers, Close(c) PROVE WaitsForKey'
  BY <1>13 DEF Close, EmptyPool
<1>14. ASSUME NEW c \in Closers, CloseShuts(c) PROVE WaitsForKey'
  BY <1>14 DEF CloseShuts, Shutdown
<1>15. ASSUME NEW c \in Closers, CloseReturns(c) PROVE WaitsForKey'
  BY <1>15 DEF CloseReturns
<1>16. ASSUME NEW s \in Requests, ProcessEnds(s) PROVE WaitsForKey'
  BY <1>16 DEF ProcessEnds
<1>17. ASSUME NEW s \in Requests, ReadLoopEnds(s) PROVE WaitsForKey'
  BY <1>17 DEF ReadLoopEnds
<1>18. ASSUME NEW s \in Requests, Reap(s) PROVE WaitsForKey'
  BY <1>18 DEF Reap
<1>19. CASE UNCHANGED vars
  BY <1>19 DEF vars
<1> QED
  BY <1>1, <1>2, <1>3, <1>4, <1>5, <1>6, <1>7, <1>8, <1>9, <1>10, <1>11, <1>12, <1>13, <1>14, <1>15, <1>16, <1>17, <1>18, <1>19 DEF Next, RequestStep

(***************************************************************************)
(* A daemon serves only from its start on, and not after a failed          *)
(* handshake.                                                              *)
(***************************************************************************)
LEMMA ServesAfterStartPreserved == IInv /\ [Next]_vars => ServesAfterStart'
<1> SUFFICES ASSUME IInv, [Next]_vars PROVE ServesAfterStart'
  OBVIOUS
<1> USE PoolAssumption DEF IInv, TypeOK, ServesAfterStart, AttemptSettled, Sessions, Spawning,
       poolVars, attemptVars, requestVars, daemonVars, closerVars
<1>1. ASSUME NEW r \in Requests, Enter(r) PROVE ServesAfterStart'
  BY <1>1 DEF Enter, Goto
<1>2. ASSUME NEW r \in Requests, Lock(r) PROVE ServesAfterStart'
  BY <1>2 DEF Lock, Goto, ReturnError, ReturnSession, Serving, InFlight
<1>3. ASSUME NEW r \in Requests, OutOfTries(r) PROVE ServesAfterStart'
  BY <1>3 DEF OutOfTries, Goto, ReturnError
<1>4. ASSUME NEW r \in Requests, WaitDone(r) PROVE ServesAfterStart'
  BY <1>4 DEF WaitDone, Goto, ReturnError, ReturnSession
<1>5. ASSUME NEW r \in Requests, WaitContext(r) PROVE ServesAfterStart'
  BY <1>5 DEF WaitContext, Goto, ReturnError
<1>6. ASSUME NEW r \in Requests, SpawnStart(r) PROVE ServesAfterStart'
  BY <1>6 DEF SpawnStart, Goto, SpawnResult
<1>7. ASSUME NEW r \in Requests, Initialized(r) PROVE ServesAfterStart'
  BY <1>7 DEF Initialized, Goto, SpawnResult
<1>8. ASSUME NEW r \in Requests, InitializeFails(r) PROVE ServesAfterStart'
  BY <1>8 DEF InitializeFails, Goto, SpawnResult
<1>9. ASSUME NEW r \in Requests, Teardown(r) PROVE ServesAfterStart'
  BY <1>9 DEF Teardown, Goto, Shutdown
<1>10. ASSUME NEW r \in Requests, Publish(r) PROVE ServesAfterStart'
  BY <1>10 DEF Publish, Goto, SpawnResult, ClosedMeanwhile
<1>11. ASSUME NEW r \in Requests, Signal(r) PROVE ServesAfterStart'
  BY <1>11 DEF Signal, Goto, CloseDone, ReturnError, ReturnSession
<1>12. ASSUME NEW r \in Requests, ShutOrphan(r) PROVE ServesAfterStart'
  BY <1>12 DEF ShutOrphan, Goto, ReturnError, Shutdown
<1>13. ASSUME NEW c \in Closers, Close(c) PROVE ServesAfterStart'
  BY <1>13 DEF Close, EmptyPool
<1>14. ASSUME NEW c \in Closers, CloseShuts(c) PROVE ServesAfterStart'
  BY <1>14 DEF CloseShuts, Shutdown
<1>15. ASSUME NEW c \in Closers, CloseReturns(c) PROVE ServesAfterStart'
  BY <1>15 DEF CloseReturns
<1>16. ASSUME NEW s \in Requests, ProcessEnds(s) PROVE ServesAfterStart'
  BY <1>16 DEF ProcessEnds
<1>17. ASSUME NEW s \in Requests, ReadLoopEnds(s) PROVE ServesAfterStart'
  BY <1>17 DEF ReadLoopEnds
<1>18. ASSUME NEW s \in Requests, Reap(s) PROVE ServesAfterStart'
  BY <1>18 DEF Reap
<1>19. CASE UNCHANGED vars
  BY <1>19 DEF vars
<1> QED
  BY <1>1, <1>2, <1>3, <1>4, <1>5, <1>6, <1>7, <1>8, <1>9, <1>10, <1>11, <1>12, <1>13, <1>14, <1>15, <1>16, <1>17, <1>18, <1>19 DEF Next, RequestStep

(***************************************************************************)
(* A session that serves does not get lost: it is in one of the maps until *)
(* the pool is closed.                                                     *)
(***************************************************************************)
LEMMA ServingOwnedPreserved == IInv /\ [Next]_vars => ServingOwned'
<1> SUFFICES ASSUME IInv, [Next]_vars PROVE ServingOwned'
  OBVIOUS
<1> USE PoolAssumption DEF IInv, TypeOK, ServingOwned, InFlightOwned, RegisteredReady, ServesAfterStart, Sessions, Spawning,
       poolVars, attemptVars, requestVars, daemonVars, closerVars
<1>1. ASSUME NEW r \in Requests, Enter(r) PROVE ServingOwned'
  BY <1>1 DEF Enter, Goto
<1>2. ASSUME NEW r \in Requests, Lock(r) PROVE ServingOwned'
  BY <1>2 DEF Lock, Goto, ReturnError, ReturnSession, Serving, InFlight
<1>3. ASSUME NEW r \in Requests, OutOfTries(r) PROVE ServingOwned'
  BY <1>3 DEF OutOfTries, Goto, ReturnError
<1>4. ASSUME NEW r \in Requests, WaitDone(r) PROVE ServingOwned'
  BY <1>4 DEF WaitDone, Goto, ReturnError, ReturnSession
<1>5. ASSUME NEW r \in Requests, WaitContext(r) PROVE ServingOwned'
  BY <1>5 DEF WaitContext, Goto, ReturnError
<1>6. ASSUME NEW r \in Requests, SpawnStart(r) PROVE ServingOwned'
  BY <1>6 DEF SpawnStart, Goto, SpawnResult
<1>7. ASSUME NEW r \in Requests, Initialized(r) PROVE ServingOwned'
  BY <1>7 DEF Initialized, Goto, SpawnResult
<1>8. ASSUME NEW r \in Requests, InitializeFails(r) PROVE ServingOwned'
  BY <1>8 DEF InitializeFails, Goto, SpawnResult
<1>9. ASSUME NEW r \in Requests, Teardown(r) PROVE ServingOwned'
  BY <1>9 DEF Teardown, Goto, Shutdown
<1>10. ASSUME NEW r \in Requests, Publish(r) PROVE ServingOwned'
  <2>1. /\ pc[r] = "publish" /\ UNCHANGED <<closed, alive>>
        /\ inflight' = [inflight EXCEPT ![KeyOf[r]] = None]
    BY <1>10 DEF Publish
  <2>2. KeyOf[r] \in Keys /\ inflight[KeyOf[r]] = r
    BY <2>1
  <2>3. \A k \in Keys : k # KeyOf[r] => clients'[k] = clients[k]
    BY <1>10 DEF Publish
  <2>4. \A s \in Requests : alive[s] /\ KeyOf[s] = KeyOf[r] => s = r
    BY <2>2
  <2>5. alive[r] => closed \/ clients'[KeyOf[r]] = r
    <3>1. alive[r] => attempt[r].err = "none"
      BY <2>1 DEF AttemptSettled
    <3> QED
      BY <1>10, <2>2, <3>1 DEF Publish, ClosedMeanwhile
  <2> QED
    BY <2>1, <2>2, <2>3, <2>4, <2>5
<1>11. ASSUME NEW r \in Requests, Signal(r) PROVE ServingOwned'
  BY <1>11 DEF Signal, Goto, CloseDone, ReturnError, ReturnSession
<1>12. ASSUME NEW r \in Requests, ShutOrphan(r) PROVE ServingOwned'
  BY <1>12 DEF ShutOrphan, Goto, ReturnError, Shutdown
<1>13. ASSUME NEW c \in Closers, Close(c) PROVE ServingOwned'
  BY <1>13 DEF Close, EmptyPool
<1>14. ASSUME NEW c \in Closers, CloseShuts(c) PROVE ServingOwned'
  BY <1>14 DEF CloseShuts, Shutdown
<1>15. ASSUME NEW c \in Closers, CloseReturns(c) PROVE ServingOwned'
  BY <1>15 DEF CloseReturns
<1>16. ASSUME NEW s \in Requests, ProcessEnds(s) PROVE ServingOwned'
  BY <1>16 DEF ProcessEnds
<1>17. ASSUME NEW s \in Requests, ReadLoopEnds(s) PROVE ServingOwned'
  BY <1>17 DEF ReadLoopEnds
<1>18. ASSUME NEW s \in Requests, Reap(s) PROVE ServingOwned'
  BY <1>18 DEF Reap
<1>19. CASE UNCHANGED vars
  BY <1>19 DEF vars
<1> QED
  BY <1>1, <1>2, <1>3, <1>4, <1>5, <1>6, <1>7, <1>8, <1>9, <1>10, <1>11, <1>12, <1>13, <1>14, <1>15, <1>16, <1>17, <1>18, <1>19 DEF Next, RequestStep

(***************************************************************************)
(* A second daemon is started for a key only when no other serves it.      *)
(***************************************************************************)
LEMMA OneServingSessionPreserved == IInv /\ [Next]_vars => OneServingSession'
<1> SUFFICES ASSUME IInv, [Next]_vars PROVE OneServingSession'
  OBVIOUS
<1> USE PoolAssumption DEF IInv, TypeOK, OneServingSession, ServingOwned, InFlightOwned, RegisteredReady, Sessions, Spawning,
       poolVars, attemptVars, requestVars, daemonVars, closerVars
<1>1. ASSUME NEW r \in Requests, Enter(r) PROVE OneServingSession'
  BY <1>1 DEF Enter, Goto
<1>2. ASSUME NEW r \in Requests, Lock(r) PROVE OneServingSession'
  BY <1>2 DEF Lock, Goto, ReturnError, ReturnSession, Serving, InFlight
<1>3. ASSUME NEW r \in Requests, OutOfTries(r) PROVE OneServingSession'
  BY <1>3 DEF OutOfTries, Goto, ReturnError
<1>4. ASSUME NEW r \in Requests, WaitDone(r) PROVE OneServingSession'
  BY <1>4 DEF WaitDone, Goto, ReturnError, ReturnSession
<1>5. ASSUME NEW r \in Requests, WaitContext(r) PROVE OneServingSession'
  BY <1>5 DEF WaitContext, Goto, ReturnError
<1>6. ASSUME NEW r \in Requests, SpawnStart(r) PROVE OneServingSession'
  BY <1>6 DEF SpawnStart, Goto, SpawnResult
<1>7. ASSUME NEW r \in Requests, Initialized(r) PROVE OneServingSession'
  BY <1>7 DEF Initialized, Goto, SpawnResult
<1>8. ASSUME NEW r \in Requests, InitializeFails(r) PROVE OneServingSession'
  BY <1>8 DEF InitializeFails, Goto, SpawnResult
<1>9. ASSUME NEW r \in Requests, Teardown(r) PROVE OneServingSession'
  BY <1>9 DEF Teardown, Goto, Shutdown
<1>10. ASSUME NEW r \in Requests, Publish(r) PROVE OneServingSession'
  BY <1>10 DEF Publish, Goto, SpawnResult, ClosedMeanwhile
<1>11. ASSUME NEW r \in Requests, Signal(r) PROVE OneServingSession'
  BY <1>11 DEF Signal, Goto, CloseDone, ReturnError, ReturnSession
<1>12. ASSUME NEW r \in Requests, ShutOrphan(r) PROVE OneServingSession'
  BY <1>12 DEF ShutOrphan, Goto, ReturnError, Shutdown
<1>13. ASSUME NEW c \in Closers, Close(c) PROVE OneServingSession'
  BY <1>13 DEF Close, EmptyPool
<1>14. ASSUME NEW c \in Closers, CloseShuts(c) PROVE OneServingSession'
  BY <1>14 DEF CloseShuts, Shutdown
<1>15. ASSUME NEW c \in Closers, CloseReturns(c) PROVE OneServingSession'
  BY <1>15 DEF CloseReturns
<1>16. ASSUME NEW s \in Requests, ProcessEnds(s) PROVE OneServingSession'
  BY <1>16 DEF ProcessEnds
<1>17. ASSUME NEW s \in Requests, ReadLoopEnds(s) PROVE OneServingSession'
  BY <1>17 DEF ReadLoopEnds
<1>18. ASSUME NEW s \in Requests, Reap(s) PROVE OneServingSession'
  BY <1>18 DEF Reap
<1>19. CASE UNCHANGED vars
  BY <1>19 DEF vars
<1> QED
  BY <1>1, <1>2, <1>3, <1>4, <1>5, <1>6, <1>7, <1>8, <1>9, <1>10, <1>11, <1>12, <1>13, <1>14, <1>15, <1>16, <1>17, <1>18, <1>19 DEF Next, RequestStep

(***************************************************************************)
(* Publish does not register in a closed pool.                             *)
(***************************************************************************)
LEMMA ClosedPoolEmptyPreserved == IInv /\ [Next]_vars => ClosedPoolEmpty'
<1> SUFFICES ASSUME IInv, [Next]_vars PROVE ClosedPoolEmpty'
  OBVIOUS
<1> USE PoolAssumption DEF IInv, TypeOK, ClosedPoolEmpty, Sessions, Spawning,
       poolVars, attemptVars, requestVars, daemonVars, closerVars
<1>1. ASSUME NEW r \in Requests, Enter(r) PROVE ClosedPoolEmpty'
  BY <1>1 DEF Enter, Goto
<1>2. ASSUME NEW r \in Requests, Lock(r) PROVE ClosedPoolEmpty'
  BY <1>2 DEF Lock, Goto, ReturnError, ReturnSession, Serving, InFlight
<1>3. ASSUME NEW r \in Requests, OutOfTries(r) PROVE ClosedPoolEmpty'
  BY <1>3 DEF OutOfTries, Goto, ReturnError
<1>4. ASSUME NEW r \in Requests, WaitDone(r) PROVE ClosedPoolEmpty'
  BY <1>4 DEF WaitDone, Goto, ReturnError, ReturnSession
<1>5. ASSUME NEW r \in Requests, WaitContext(r) PROVE ClosedPoolEmpty'
  BY <1>5 DEF WaitContext, Goto, ReturnError
<1>6. ASSUME NEW r \in Requests, SpawnStart(r) PROVE ClosedPoolEmpty'
  BY <1>6 DEF SpawnStart, Goto, SpawnResult
<1>7. ASSUME NEW r \in Requests, Initialized(r) PROVE ClosedPoolEmpty'
  BY <1>7 DEF Initialized, Goto, SpawnResult
<1>8. ASSUME NEW r \in Requests, InitializeFails(r) PROVE ClosedPoolEmpty'
  BY <1>8 DEF InitializeFails, Goto, SpawnResult
<1>9. ASSUME NEW r \in Requests, Teardown(r) PROVE ClosedPoolEmpty'
  BY <1>9 DEF Teardown, Goto, Shutdown
<1>10. ASSUME NEW r \in Requests, Publish(r) PROVE ClosedPoolEmpty'
  BY <1>10 DEF Publish, Goto, SpawnResult, ClosedMeanwhile
<1>11. ASSUME NEW r \in Requests, Signal(r) PROVE ClosedPoolEmpty'
  BY <1>11 DEF Signal, Goto, CloseDone, ReturnError, ReturnSession
<1>12. ASSUME NEW r \in Requests, ShutOrphan(r) PROVE ClosedPoolEmpty'
  BY <1>12 DEF ShutOrphan, Goto, ReturnError, Shutdown
<1>13. ASSUME NEW c \in Closers, Close(c) PROVE ClosedPoolEmpty'
  BY <1>13 DEF Close, EmptyPool
<1>14. ASSUME NEW c \in Closers, CloseShuts(c) PROVE ClosedPoolEmpty'
  BY <1>14 DEF CloseShuts, Shutdown
<1>15. ASSUME NEW c \in Closers, CloseReturns(c) PROVE ClosedPoolEmpty'
  BY <1>15 DEF CloseReturns
<1>16. ASSUME NEW s \in Requests, ProcessEnds(s) PROVE ClosedPoolEmpty'
  BY <1>16 DEF ProcessEnds
<1>17. ASSUME NEW s \in Requests, ReadLoopEnds(s) PROVE ClosedPoolEmpty'
  BY <1>17 DEF ReadLoopEnds
<1>18. ASSUME NEW s \in Requests, Reap(s) PROVE ClosedPoolEmpty'
  BY <1>18 DEF Reap
<1>19. CASE UNCHANGED vars
  BY <1>19 DEF vars
<1> QED
  BY <1>1, <1>2, <1>3, <1>4, <1>5, <1>6, <1>7, <1>8, <1>9, <1>10, <1>11, <1>12, <1>13, <1>14, <1>15, <1>16, <1>17, <1>18, <1>19 DEF Next, RequestStep

(***************************************************************************)
(* Close takes what is registered; what is being started then is shut down *)
(* by the request that started it.                                         *)
(***************************************************************************)
LEMMA ServingDoomedPreserved == IInv /\ [Next]_vars => ServingDoomed'
<1> SUFFICES ASSUME IInv, [Next]_vars PROVE ServingDoomed'
  OBVIOUS
<1> USE PoolAssumption DEF IInv, TypeOK, ServingDoomed, ServingOwned, InFlightOwned, Sessions, Spawning,
       poolVars, attemptVars, requestVars, daemonVars, closerVars
<1>1. ASSUME NEW r \in Requests, Enter(r) PROVE ServingDoomed'
  BY <1>1 DEF Enter, Goto
<1>2. ASSUME NEW r \in Requests, Lock(r) PROVE ServingDoomed'
  BY <1>2 DEF Lock, Goto, ReturnError, ReturnSession, Serving, InFlight
<1>3. ASSUME NEW r \in Requests, OutOfTries(r) PROVE ServingDoomed'
  BY <1>3 DEF OutOfTries, Goto, ReturnError
<1>4. ASSUME NEW r \in Requests, WaitDone(r) PROVE ServingDoomed'
  <2>1. pc[r] = "wait" /\ UNCHANGED <<closed, attempt, alive, closerPc, toShut>>
    BY <1>4 DEF WaitDone
  <2>2. \A s \in Requests : s # r => pc'[s] = pc[s]
    BY <1>4 DEF WaitDone, Goto, ReturnError, ReturnSession
  <2>3. ~alive[r]
    BY <2>1 DEF ServesAfterStart
  <2> QED
    BY <2>1, <2>2, <2>3
<1>5. ASSUME NEW r \in Requests, WaitContext(r) PROVE ServingDoomed'
  BY <1>5 DEF WaitContext, Goto, ReturnError
<1>6. ASSUME NEW r \in Requests, SpawnStart(r) PROVE ServingDoomed'
  BY <1>6 DEF SpawnStart, Goto, SpawnResult
<1>7. ASSUME NEW r \in Requests, Initialized(r) PROVE ServingDoomed'
  BY <1>7 DEF Initialized, Goto, SpawnResult
<1>8. ASSUME NEW r \in Requests, InitializeFails(r) PROVE ServingDoomed'
  BY <1>8 DEF InitializeFails, Goto, SpawnResult
<1>9. ASSUME NEW r \in Requests, Teardown(r) PROVE ServingDoomed'
  BY <1>9 DEF Teardown, Goto, Shutdown
<1>10. ASSUME NEW r \in Requests, Publish(r) PROVE ServingDoomed'
  <2>1. pc[r] = "publish" /\ UNCHANGED <<closed, alive, closerPc, toShut>>
    BY <1>10 DEF Publish
  <2>2. pc' = [pc EXCEPT ![r] = "signal"]
    BY <1>10 DEF Publish, Goto
  <2>3. \A s \in Requests : s # r => attempt'[s] = attempt[s]
    BY <1>10 DEF Publish, SpawnResult
  <2>4. closed /\ alive[r] => attempt'[r].err = "ErrClosed"
    <3>1. alive[r] => attempt[r].err = "none"
      BY <2>1 DEF ServesAfterStart, AttemptSettled
    <3> QED
      BY <1>10, <3>1 DEF Publish, SpawnResult, ClosedMeanwhile
  <2> QED
    BY <2>1, <2>2, <2>3, <2>4
<1>11. ASSUME NEW r \in Requests, Signal(r) PROVE ServingDoomed'
  BY <1>11 DEF Signal, Goto, CloseDone, ReturnError, ReturnSession
<1>12. ASSUME NEW r \in Requests, ShutOrphan(r) PROVE ServingDoomed'
  BY <1>12 DEF ShutOrphan, Goto, ReturnError, Shutdown
<1>13. ASSUME NEW c \in Closers, Close(c) PROVE ServingDoomed'
  <2>1. UNCHANGED <<pc, attempt, alive, inflight>>
    BY <1>13 DEF Close
  <2>2. CASE closed /\ closerPc' = [closerPc EXCEPT ![c] = "returned"]
              /\ UNCHANGED <<closed, toShut>> /\ closerPc[c] = "idle"
    BY <2>1, <2>2
  <2>3. CASE /\ ~closed
             /\ toShut' = [toShut EXCEPT ![c] = {clients[k] : k \in Keys} \ {None}]
             /\ closerPc' = [closerPc EXCEPT ![c] = "shutting"]
    <3> SUFFICES ASSUME NEW s \in Requests, alive[s]
                 PROVE  \/ pc[s] \in Spawning \cup {"publish", "orphan"}
                        \/ s \in toShut'[c]
      BY <2>1, <2>3
    <3>1. KeyOf[s] \in Keys
      OBVIOUS
    <3>2. CASE inflight[KeyOf[s]] = s
      BY <3>1, <3>2
    <3>3. CASE clients[KeyOf[s]] = s
      <4>1. s \in {clients[k] : k \in Keys} \ {None}
        BY <3>1, <3>3
      <4> QED
        BY <2>3, <4>1
    <3> QED
      BY <2>3, <3>1, <3>2, <3>3
  <2> QED
    BY <1>13, <2>2, <2>3 DEF Close
<1>14. ASSUME NEW c \in Closers, CloseShuts(c) PROVE ServingDoomed'
  BY <1>14 DEF CloseShuts, Shutdown
<1>15. ASSUME NEW c \in Closers, CloseReturns(c) PROVE ServingDoomed'
  BY <1>15 DEF CloseReturns
<1>16. ASSUME NEW s \in Requests, ProcessEnds(s) PROVE ServingDoomed'
  BY <1>16 DEF ProcessEnds
<1>17. ASSUME NEW s \in Requests, ReadLoopEnds(s) PROVE ServingDoomed'
  BY <1>17 DEF ReadLoopEnds
<1>18. ASSUME NEW s \in Requests, Reap(s) PROVE ServingDoomed'
  BY <1>18 DEF Reap
<1>19. CASE UNCHANGED vars
  BY <1>19 DEF vars
<1> QED
  BY <1>1, <1>2, <1>3, <1>4, <1>5, <1>6, <1>7, <1>8, <1>9, <1>10, <1>11, <1>12, <1>13, <1>14, <1>15, <1>16, <1>17, <1>18, <1>19 DEF Next, RequestStep

(***************************************************************************)
(* A session is handed out when it is registered, or its attempt has been  *)
(* announced, or by the request that started it.                           *)
(***************************************************************************)
LEMMA HandedSettledPreserved == IInv /\ [Next]_vars => HandedSettled'
<1> SUFFICES ASSUME IInv, [Next]_vars PROVE HandedSettled'
  OBVIOUS
<1> USE PoolAssumption DEF IInv, TypeOK, HandedSettled, RegisteredReady, WaitsForKey, AttemptSettled, Sessions, Spawning,
       poolVars, attemptVars, requestVars, daemonVars, closerVars
<1>1. ASSUME NEW r \in Requests, Enter(r) PROVE HandedSettled'
  BY <1>1 DEF Enter, Goto
<1>2. ASSUME NEW r \in Requests, Lock(r) PROVE HandedSettled'
  <2>1. UNCHANGED attempt /\ pc[r] = "lock"
    BY <1>2 DEF Lock
  <2>2. \A s \in Requests : pc[s] \in {"signal", "returned"} => pc'[s] = pc[s]
    BY <1>2, <2>1 DEF Lock, Goto, ReturnError, ReturnSession
  <2>3. CASE UNCHANGED handed
    BY <2>1, <2>2, <2>3
  <2>4. CASE Serving(KeyOf[r]) # None /\ ReturnSession(r, Serving(KeyOf[r]))
    BY <2>1, <2>2, <2>4 DEF Serving, ReturnSession
  <2> QED
    BY <1>2, <2>3, <2>4, Zenon DEF Lock, ReturnError
<1>3. ASSUME NEW r \in Requests, OutOfTries(r) PROVE HandedSettled'
  BY <1>3 DEF OutOfTries, Goto, ReturnError
<1>4. ASSUME NEW r \in Requests, WaitDone(r) PROVE HandedSettled'
  <2> DEFINE a == waitFor[r]
  <2>1. UNCHANGED attempt /\ pc[r] = "wait"
    BY <1>4 DEF WaitDone
  <2>2. \A s \in Requests : pc[s] \in {"signal", "returned"} => pc'[s] = pc[s]
    BY <1>4, <2>1 DEF WaitDone, Goto, ReturnError, ReturnSession
  <2>3. CASE UNCHANGED handed
    BY <2>1, <2>2, <2>3
  <2>4. CASE attempt[a].err = "none" /\ ReturnSession(r, attempt[a].client)
    <3>1. /\ a \in Requests
          /\ KeyOf[a] = KeyOf[r]
          /\ attemptDone[a]
      BY <1>4, <2>1 DEF WaitDone
    <3>2. pc[a] = "returned" /\ attempt[a].client = a
      BY <2>4, <3>1
    <3> QED
      BY <2>1, <2>2, <2>4, <3>1, <3>2 DEF ReturnSession
  <2> QED
    BY <1>4, <2>3, <2>4, Zenon DEF WaitDone, ReturnError
<1>5. ASSUME NEW r \in Requests, WaitContext(r) PROVE HandedSettled'
  BY <1>5 DEF WaitContext, Goto, ReturnError
<1>6. ASSUME NEW r \in Requests, SpawnStart(r) PROVE HandedSettled'
  BY <1>6 DEF SpawnStart, Goto, SpawnResult
<1>7. ASSUME NEW r \in Requests, Initialized(r) PROVE HandedSettled'
  BY <1>7 DEF Initialized, Goto, SpawnResult
<1>8. ASSUME NEW r \in Requests, InitializeFails(r) PROVE HandedSettled'
  BY <1>8 DEF InitializeFails, Goto, SpawnResult
<1>9. ASSUME NEW r \in Requests, Teardown(r) PROVE HandedSettled'
  BY <1>9 DEF Teardown, Goto, Shutdown
<1>10. ASSUME NEW r \in Requests, Publish(r) PROVE HandedSettled'
  BY <1>10 DEF Publish, Goto, SpawnResult, ClosedMeanwhile
<1>11. ASSUME NEW r \in Requests, Signal(r) PROVE HandedSettled'
  <2>1. UNCHANGED attempt /\ pc[r] = "signal"
    BY <1>11 DEF Signal
  <2>2. CASE attempt[r].err = "none" /\ ReturnSession(r, r)
    BY <2>1, <2>2 DEF ReturnSession, Goto
  <2>3. CASE attempt[r].err # "none" /\ UNCHANGED handed
    <3>1. \A s \in Requests : s # r => pc'[s] = pc[s]
      BY <1>11 DEF Signal, Goto, ReturnError, ReturnSession
    <3> QED
      BY <2>1, <2>3, <3>1
  <2> QED
    BY <1>11, <2>2, <2>3 DEF Signal, ReturnError
<1>12. ASSUME NEW r \in Requests, ShutOrphan(r) PROVE HandedSettled'
  BY <1>12 DEF ShutOrphan, Goto, ReturnError, Shutdown
<1>13. ASSUME NEW c \in Closers, Close(c) PROVE HandedSettled'
  BY <1>13 DEF Close, EmptyPool
<1>14. ASSUME NEW c \in Closers, CloseShuts(c) PROVE HandedSettled'
  BY <1>14 DEF CloseShuts, Shutdown
<1>15. ASSUME NEW c \in Closers, CloseReturns(c) PROVE HandedSettled'
  BY <1>15 DEF CloseReturns
<1>16. ASSUME NEW s \in Requests, ProcessEnds(s) PROVE HandedSettled'
  BY <1>16 DEF ProcessEnds
<1>17. ASSUME NEW s \in Requests, ReadLoopEnds(s) PROVE HandedSettled'
  BY <1>17 DEF ReadLoopEnds
<1>18. ASSUME NEW s \in Requests, Reap(s) PROVE HandedSettled'
  BY <1>18 DEF Reap
<1>19. CASE UNCHANGED vars
  BY <1>19 DEF vars
<1> QED
  BY <1>1, <1>2, <1>3, <1>4, <1>5, <1>6, <1>7, <1>8, <1>9, <1>10, <1>11, <1>12, <1>13, <1>14, <1>15, <1>16, <1>17, <1>18, <1>19 DEF Next, RequestStep

-----------------------------------------------------------------------------
(* The theorems.                                                           *)

(***************************************************************************)
(* The invariant holds initially, is preserved by every step, and so holds *)
(* in every reachable state of the pool.                                   *)
(***************************************************************************)
THEOREM Invariance == Spec => []IInv
<1>1. Init => IInv
  <2> SUFFICES ASSUME Init PROVE IInv
    OBVIOUS
  <2> USE PoolAssumption DEF Init, Sessions, States, Spawning, Errors
  <2>1. TypeOK
    <3>1. attempt \in [Requests -> [client : Sessions, err : Errors \cup {"none"}]]
      OBVIOUS
    <3>2. /\ alive \in [Requests -> BOOLEAN]
          /\ attemptDone \in [Requests -> BOOLEAN]
      OBVIOUS
    <3>3. toShut \in [Closers -> SUBSET Requests]
      OBVIOUS
    <3>4. try \in [Requests -> 0..MaxTries]
      OBVIOUS
    <3>5. /\ closerPc \in [Closers -> {"idle", "shutting", "returned"}]
          /\ pc \in [Requests -> States]
          /\ proc \in [Requests -> {"none", "running", "zombie", "reaped"}]
          /\ outcome \in [Requests -> Errors \cup {"none", "session"}]
      OBVIOUS
    <3> QED
      BY <3>1, <3>2, <3>3, <3>4, <3>5 DEF TypeOK
  <2>2. InFlightOwned /\ RegisteredReady /\ AttemptSettled /\ WaitsForKey
    BY DEF InFlightOwned, RegisteredReady, AttemptSettled, WaitsForKey
  <2>3. ServesAfterStart /\ ServingOwned /\ OneServingSession
    BY DEF ServesAfterStart, ServingOwned, OneServingSession
  <2>4. ClosedPoolEmpty /\ ServingDoomed /\ HandedSettled
    BY DEF ClosedPoolEmpty, ServingDoomed, HandedSettled
  <2> QED
    BY <2>1, <2>2, <2>3, <2>4 DEF IInv
<1>2. IInv /\ [Next]_vars => IInv'
  <2> SUFFICES ASSUME IInv, [Next]_vars PROVE IInv'
    OBVIOUS
  <2>1. TypeOK'
    BY TypePreserved DEF IInv
  <2> QED
    BY <2>1, InFlightOwnedPreserved, RegisteredReadyPreserved, AttemptSettledPreserved, WaitsForKeyPreserved, ServesAfterStartPreserved, ServingOwnedPreserved, OneServingSessionPreserved, ClosedPoolEmptyPreserved, ServingDoomedPreserved, HandedSettledPreserved DEF IInv
<1> QED
  BY <1>1, <1>2, PTL DEF Spec

(***************************************************************************)
(* The variables keep their types, the tries of a request their bound.     *)
(***************************************************************************)
THEOREM TypeCorrect == Spec => []TypeOK
<1>1. IInv => TypeOK
  BY DEF IInv
<1> QED
  BY <1>1, Invariance, PTL

(***************************************************************************)
(* Concurrent callers share one cold start per key (manager.go:82-110),    *)
(* for any number of callers and keys.                                     *)
(***************************************************************************)
THEOREM SpawnsAreShared == Spec => []SingleFlight
<1>1. IInv => SingleFlight
  BY DEF IInv, InFlightOwned, SingleFlight
<1> QED
  BY <1>1, Invariance, PTL

(***************************************************************************)
(* No two sessions serve the same key at a time, whatever daemons crash,   *)
(* handshakes fail and calls of Close come in between.                     *)
(***************************************************************************)
THEOREM OneSessionServes == Spec => []OneServingSession
<1>1. IInv => OneServingSession
  BY DEF IInv
<1> QED
  BY <1>1, Invariance, PTL

(***************************************************************************)
(* What ClientSession returns is a session of the caller's key whose       *)
(* handshake is over.                                                      *)
(***************************************************************************)
THEOREM ReadyWhenHanded == Spec => []HandedReady
<1>1. IInv => HandedReady
  BY DEF IInv, HandedSettled, HandedReady
<1> QED
  BY <1>1, Invariance, PTL

(***************************************************************************)
(* A spawn that comes up after Close is not registered.                    *)
(***************************************************************************)
THEOREM StaysEmptyOnceClosed == Spec => []ClosedPoolEmpty
<1>1. IInv => ClosedPoolEmpty
  BY DEF IInv
<1> QED
  BY <1>1, Invariance, PTL

(***************************************************************************)
(* Close and the spawns it overtakes together leave no session serving,    *)
(* for any number of callers, keys and closers.                            *)
(***************************************************************************)
THEOREM PoolOutlivesSessions == Spec => []NoSessionOutlivesPool
<1>1. IInv => NoSessionOutlivesPool
  BY DEF IInv, ServingDoomed, NoSessionOutlivesPool, Spawning
<1> QED
  BY <1>1, Invariance, PTL

=============================================================================
