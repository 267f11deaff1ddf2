----------------------------- MODULE LspClient -----------------------------
(***************************************************************************)
(* One supervised JSON-RPC session with a language server                  *)
(* (internal/lsp/client.go over internal/lsp/stdio.go): the goroutines     *)
(* inside Client.Call, the supervisor goroutine that owns the read side,   *)
(* the goroutines inside Client.Shutdown, the two pipes, and the daemon,   *)
(* which is external and may do anything a process can do.                 *)
(*                                                                         *)
(* A critical section of Client.mu or Client.errMu is one step, and so is  *)
(* one frame written to the pipe: LspWire has the two writes of a frame.   *)
(***************************************************************************)
EXTENDS Naturals, Sequences, FiniteSets

CONSTANTS
    Calls,        \* the invocations of Client.Call, each a goroutine of its own
    NoCall,       \* not a call
    ShutdownCall, \* the invocation that Client.shutdown makes itself
    Stoppers,     \* the goroutines that call Client.Shutdown
    PipeCap       \* the frames a pipe holds before its writer blocks

ASSUME ClientAssumption ==
    /\ ShutdownCall \in Calls
    /\ NoCall \notin Calls
    /\ PipeCap \in Nat \ {0}

VARIABLES
    nextID,   \* Client.nextID
    pending,  \* Client.pending: the id of a request |-> the call it belongs to
    ch,       \* the reply channel of each call: the calls whose answers are
              \* buffered in it, NoCall standing for fail's error message
    callPc,   \* where each call is
    callId,   \* the id each call sent, 0 before it has one
    result,   \* how each call ends
    got,      \* whose answer each call decoded
    reader,   \* where the supervisor goroutine is
    carried,  \* <<call, message>> that dispatch is about to send
    aborting, \* the calls fail has swapped out and not yet sent the error to
    exitErr,  \* Client.exitErr
    done,     \* Client.done is closed
    exited,   \* Client.exited is closed
    stopPc,   \* where each caller of Shutdown is
    shut,     \* where the body of shutdownOnce is
    stdin,    \* frames the daemon has not read
    stdinOpen,
    stdout,   \* frames the read loop has not read
    proc,     \* the child process
    asked     \* the requests the daemon has read, as <<id, call>>

callVars   == <<nextID, pending, ch, callPc, callId, result, got>>
readerVars == <<reader, carried, aborting, exitErr, done, exited>>
stopVars   == <<stopPc, shut>>
pipeVars   == <<stdin, stdinOpen, stdout>>
daemonVars == <<proc, asked>>
vars == <<callVars, readerVars, stopVars, pipeVars, daemonVars>>

CallStates == {"idle", "track", "write", "select", "forget", "cancel",
               "cancelWrite", "returned"}
\* "transport" is the stream error that exitErr keeps, "aborted" the error
\* message that fail sends, "unsent" an encoding or write error.
Results == {"none", "reply", "unsent", "ctx", "aborted", "transport", "ErrDaemonExited"}
ReaderStates == {"read", "deliver", "answer", "fail", "swap", "close", "abort",
                 "exit", "gone"}
ShutStates == {"none", "handshake", "call", "exitNotify", "exitWrite", "close",
               "grace", "reap", "finished"}
Frames == [kind : {"reply", "request", "other", "broken"},
           id : Nat, call : Calls \cup {NoCall}]

\* A frame that answers nothing: a notification, an answer to the server, or,
\* from the daemon, also a payload the read loop logs and drops.
Other(kind) == [kind |-> kind, id |-> 0, call |-> NoCall]

TypeOK ==
    /\ nextID \in Nat
    /\ pending \in [DOMAIN pending -> Calls]
    /\ DOMAIN pending \subseteq Nat \ {0}
    /\ ch \in [Calls -> Seq(Calls \cup {NoCall})]
    /\ callPc \in [Calls -> CallStates]
    /\ callId \in [Calls -> Nat]
    /\ result \in [Calls -> Results]
    /\ got \in [Calls -> Calls \cup {NoCall}]
    /\ reader \in ReaderStates
    /\ carried \in Calls \X Calls \cup {<<NoCall, NoCall>>}
    /\ aborting \subseteq Calls
    /\ exitErr \in {"none", "transport"}
    /\ done \in BOOLEAN
    /\ exited \in BOOLEAN
    /\ stopPc \in [Stoppers -> {"idle", "waiting", "returned"}]
    /\ shut \in ShutStates
    /\ stdin \in Seq(Frames)
    /\ stdinOpen \in BOOLEAN
    /\ stdout \in Seq(Frames)
    /\ proc \in {"running", "zombie", "reaped"}
    /\ asked \subseteq Nat \X Calls

Init ==
    /\ nextID = 0
    /\ pending = <<>>
    /\ ch = [c \in Calls |-> <<>>]
    /\ callPc = [c \in Calls |-> "idle"]
    /\ callId = [c \in Calls |-> 0]
    /\ result = [c \in Calls |-> "none"]
    /\ got = [c \in Calls |-> NoCall]
    /\ reader = "read"
    /\ carried = <<NoCall, NoCall>>
    /\ aborting = {}
    /\ exitErr = "none"
    /\ done = FALSE
    /\ exited = FALSE
    /\ stopPc = [s \in Stoppers |-> "idle"]
    /\ shut = "none"
    /\ stdin = <<>>
    /\ stdinOpen = TRUE
    /\ stdout = <<>>
    /\ proc = "running"
    /\ asked = {}

-----------------------------------------------------------------------------
(* Writing to the daemon's standard input.                                 *)

\* A write that finds the pipe full blocks; one that finds it closed, here or
\* by the end of the reading process, fails.
CanWrite   == stdinOpen /\ proc = "running" /\ Len(stdin) < PipeCap
WriteFails == ~stdinOpen \/ proc # "running"

\* Fault: the session is judged by its error, which fail sets earlier.
AliveByError == exitErr = "none"

\* Client.Alive
Alive == ~done

\* Client.exitReason
ExitReason == IF exitErr = "none" THEN "ErrDaemonExited" ELSE exitErr

\* Fault: the slot of a request survives.
KeepSlot(id) == pending

\* delete(pending, id)
Without(id) == [i \in DOMAIN pending \ {id} |-> pending[i]]

-----------------------------------------------------------------------------
(* Client.Call.                                                            *)

\* Faults: ids are drawn from the size of the map, so they come back; the id is
\* taken before it is counted.
ZeroId == nextID
SizeId == Cardinality(DOMAIN pending) + 1

\* c.nextID++
FreshId == nextID + 1

\* Fault: a call that gives up leaves its slot behind.
GiveUpKeepingSlot(c, reason) ==
    /\ callPc' = [callPc EXCEPT ![c] = "returned"]
    /\ result' = [result EXCEPT ![c] = reason]

\* Every failing branch of Call goes through forgetCall.
GiveUp(c, reason) ==
    /\ callPc' = [callPc EXCEPT ![c] = "forget"]
    /\ result' = [result EXCEPT ![c] = reason]

\* The Alive check. shutdown's own call starts when shutdown reaches it.
CallStart(c) ==
    /\ callPc[c] = "idle"
    /\ c = ShutdownCall => shut = "call"
    /\ IF Alive
       THEN /\ callPc' = [callPc EXCEPT ![c] = "track"]
            /\ UNCHANGED result
       ELSE /\ callPc' = [callPc EXCEPT ![c] = "returned"]
            /\ result' = [result EXCEPT ![c] = ExitReason]
    /\ UNCHANGED <<nextID, pending, ch, callId, got>>
    /\ UNCHANGED <<readerVars, stopVars, pipeVars, daemonVars>>

\* trackCall, then newRequestMessage, which may fail to encode the parameters.
TrackCall(c) ==
    /\ callPc[c] = "track"
    /\ nextID' = FreshId
    /\ pending' = [i \in DOMAIN pending \cup {nextID'} |->
                      IF i = nextID' THEN c ELSE pending[i]]
    /\ callId' = [callId EXCEPT ![c] = nextID']
    /\ \/ /\ callPc' = [callPc EXCEPT ![c] = "write"]
          /\ UNCHANGED result
       \/ GiveUp(c, "unsent")
    /\ UNCHANGED <<ch, got>>
    /\ UNCHANGED <<readerVars, stopVars, pipeVars, daemonVars>>

WriteRequest(c) ==
    /\ callPc[c] = "write"
    /\ \/ /\ CanWrite
          /\ stdin' = Append(stdin, [kind |-> "request", id |-> callId[c], call |-> c])
          /\ callPc' = [callPc EXCEPT ![c] = "select"]
          /\ UNCHANGED result
       \/ /\ WriteFails
          /\ GiveUp(c, "unsent")
          /\ UNCHANGED stdin
    /\ UNCHANGED <<nextID, pending, ch, callId, got>>
    /\ UNCHANGED <<readerVars, stopVars, stdinOpen, stdout, daemonVars>>

\* case <-ctx.Done(): every caller passes a context with a deadline.
SelectContext(c) ==
    /\ callPc[c] = "select"
    /\ GiveUp(c, "ctx")
    /\ UNCHANGED <<nextID, pending, ch, callId, got>>
    /\ UNCHANGED <<readerVars, stopVars, pipeVars, daemonVars>>

\* Fault: the select has no case for the end of the session.
NeverEnded == FALSE

SessionEnded == done

\* case <-c.done
SelectDone(c) ==
    /\ callPc[c] = "select"
    /\ SessionEnded
    /\ GiveUp(c, ExitReason)
    /\ UNCHANGED <<nextID, pending, ch, callId, got>>
    /\ UNCHANGED <<readerVars, stopVars, pipeVars, daemonVars>>

\* case reply := <-ch
SelectReply(c) ==
    /\ callPc[c] = "select"
    /\ ch[c] # <<>>
    /\ ch' = [ch EXCEPT ![c] = Tail(@)]
    /\ got' = [got EXCEPT ![c] = Head(ch[c])]
    /\ result' = [result EXCEPT ![c] =
                     IF Head(ch[c]) = NoCall THEN "aborted" ELSE "reply"]
    /\ callPc' = [callPc EXCEPT ![c] = "returned"]
    /\ UNCHANGED <<nextID, pending, callId>>
    /\ UNCHANGED <<readerVars, stopVars, pipeVars, daemonVars>>

\* forgetCall; only a call whose context ended goes on to cancel it.
ForgetCall(c) ==
    /\ callPc[c] = "forget"
    /\ pending' = Without(callId[c])
    /\ callPc' = [callPc EXCEPT ![c] = IF result[c] = "ctx" THEN "cancel" ELSE "returned"]
    /\ UNCHANGED <<nextID, ch, callId, result, got>>
    /\ UNCHANGED <<readerVars, stopVars, pipeVars, daemonVars>>

\* notifyBestEffort(methodCancelRequest): Notify's Alive check ...
CancelRequest(c) ==
    /\ callPc[c] = "cancel"
    /\ callPc' = [callPc EXCEPT ![c] = IF Alive THEN "cancelWrite" ELSE "returned"]
    /\ UNCHANGED <<nextID, pending, ch, callId, result, got>>
    /\ UNCHANGED <<readerVars, stopVars, pipeVars, daemonVars>>

\* ... and its write, whose failure is logged.
WriteCancel(c) ==
    /\ callPc[c] = "cancelWrite"
    /\ \/ CanWrite /\ stdin' = Append(stdin, Other("other"))
       \/ WriteFails /\ UNCHANGED stdin
    /\ callPc' = [callPc EXCEPT ![c] = "returned"]
    /\ UNCHANGED <<nextID, pending, ch, callId, result, got>>
    /\ UNCHANGED <<readerVars, stopVars, stdinOpen, stdout, daemonVars>>

\* The steps of a call once it has started.
CallStep(c) ==
    \/ TrackCall(c) \/ WriteRequest(c)
    \/ SelectContext(c) \/ SelectDone(c) \/ SelectReply(c)
    \/ ForgetCall(c) \/ CancelRequest(c) \/ WriteCancel(c)

-----------------------------------------------------------------------------
(* The supervisor goroutine: readLoop, dispatch, answerRequest, fail, Wait. *)

\* A reply: dispatch looks its id up and deletes it in one critical section.
\* An id nobody waits for is logged and dropped.
ReadReply ==
    /\ reader = "read"
    /\ stdout # <<>>
    /\ LET frame == Head(stdout)
       IN  /\ frame.kind = "reply"
           /\ IF frame.id \in DOMAIN pending
              THEN /\ carried' = <<pending[frame.id], frame.call>>
                   /\ reader' = "deliver"
              ELSE UNCHANGED <<carried, reader>>
           /\ pending' = Without(frame.id)
    /\ stdout' = Tail(stdout)
    /\ UNCHANGED <<nextID, ch, callPc, callId, result, got>>
    /\ UNCHANGED <<aborting, exitErr, done, exited>>
    /\ UNCHANGED <<stopVars, stdin, stdinOpen, daemonVars>>

\* The send that ends dispatch: it blocks while the buffer of one is full.
Deliver ==
    /\ reader = "deliver"
    /\ LET c == carried[1]
       IN  /\ ch[c] = <<>>
           /\ ch' = [ch EXCEPT ![c] = Append(@, carried[2])]
    /\ carried' = <<NoCall, NoCall>>
    /\ reader' = "read"
    /\ UNCHANGED <<nextID, pending, callPc, callId, result, got>>
    /\ UNCHANGED <<aborting, exitErr, done, exited>>
    /\ UNCHANGED <<stopVars, pipeVars, daemonVars>>

\* A request of the server, a notification, or a frame that is discarded.
ReadOther ==
    /\ reader = "read"
    /\ stdout # <<>>
    /\ Head(stdout).kind \in {"request", "other"}
    /\ reader' = IF Head(stdout).kind = "request" THEN "answer" ELSE "read"
    /\ stdout' = Tail(stdout)
    /\ UNCHANGED <<carried, aborting, exitErr, done, exited>>
    /\ UNCHANGED <<callVars, stopVars, stdin, stdinOpen, daemonVars>>

\* answerRequest writes from the read loop itself; a failure is logged.
AnswerRequest ==
    /\ reader = "answer"
    /\ \/ CanWrite /\ stdin' = Append(stdin, Other("other"))
       \/ WriteFails /\ UNCHANGED stdin
    /\ reader' = "read"
    /\ UNCHANGED <<carried, aborting, exitErr, done, exited>>
    /\ UNCHANGED <<callVars, stopVars, stdinOpen, stdout, daemonVars>>

\* readLoop returns: the stream ended, or a frame broke the framing.
ReadEnd ==
    /\ reader = "read"
    /\ \/ /\ stdout # <<>>
          /\ Head(stdout).kind = "broken"
          /\ stdout' = Tail(stdout)
       \/ /\ stdout = <<>>
          /\ proc # "running"
          /\ UNCHANGED stdout
    /\ reader' = "fail"
    /\ UNCHANGED <<carried, aborting, exitErr, done, exited>>
    /\ UNCHANGED <<callVars, stopVars, stdin, stdinOpen, daemonVars>>

\* fail, under errMu: the first error wins.
FailError ==
    /\ reader = "fail"
    /\ exitErr' = IF exitErr = "none" THEN "transport" ELSE exitErr
    /\ reader' = "swap"
    /\ UNCHANGED <<carried, aborting, done, exited>>
    /\ UNCHANGED <<callVars, stopVars, pipeVars, daemonVars>>

\* fail, under mu: the pending map is replaced by an empty one.
FailSwap ==
    /\ reader = "swap"
    /\ aborting' = {pending[i] : i \in DOMAIN pending}
    /\ pending' = <<>>
    /\ reader' = "close"
    /\ UNCHANGED <<nextID, ch, callPc, callId, result, got>>
    /\ UNCHANGED <<carried, exitErr, done, exited>>
    /\ UNCHANGED <<stopVars, pipeVars, daemonVars>>

\* close(c.done)
FailClose ==
    /\ reader = "close"
    /\ done' = TRUE
    /\ reader' = "abort"
    /\ UNCHANGED <<carried, aborting, exitErr, exited>>
    /\ UNCHANGED <<callVars, stopVars, pipeVars, daemonVars>>

\* One send of fail's loop over the swapped map, in any order.
FailSend ==
    /\ reader = "abort"
    /\ \E c \in aborting :
          /\ ch[c] = <<>>
          /\ ch' = [ch EXCEPT ![c] = Append(@, NoCall)]
          /\ aborting' = aborting \ {c}
    /\ UNCHANGED <<nextID, pending, callPc, callId, result, got>>
    /\ UNCHANGED <<reader, carried, exitErr, done, exited>>
    /\ UNCHANGED <<stopVars, pipeVars, daemonVars>>

\* cmd.Wait blocks until the process has ended, reaps it and closes the pipes.
Reap ==
    /\ reader = "abort"
    /\ aborting = {}
    /\ proc = "zombie"
    /\ proc' = "reaped"
    /\ stdinOpen' = FALSE
    /\ stdout' = <<>>
    /\ reader' = "exit"
    /\ UNCHANGED <<carried, aborting, exitErr, done, exited>>
    /\ UNCHANGED <<callVars, stopVars, stdin, asked>>

\* close(c.exited)
CloseExited ==
    /\ reader = "exit"
    /\ exited' = TRUE
    /\ reader' = "gone"
    /\ UNCHANGED <<carried, aborting, exitErr, done>>
    /\ UNCHANGED <<callVars, stopVars, pipeVars, daemonVars>>

ReaderStep ==
    \/ ReadReply \/ Deliver \/ ReadOther \/ AnswerRequest \/ ReadEnd
    \/ FailError \/ FailSwap \/ FailClose \/ FailSend \/ Reap \/ CloseExited

-----------------------------------------------------------------------------
(* Client.Shutdown.                                                        *)

\* shutdownOnce.Do: the first caller runs the body, the others wait for it.
Shutdown(s) ==
    /\ stopPc[s] = "idle"
    /\ stopPc' = [stopPc EXCEPT ![s] = "waiting"]
    /\ shut' = IF shut = "none" THEN "handshake" ELSE shut
    /\ UNCHANGED <<callVars, readerVars, pipeVars, daemonVars>>

\* Fault: a caller that finds the flag set returns at once.
OnceStarted == shut # "none"

OnceFinished == shut = "finished"

ShutdownReturns(s) ==
    /\ stopPc[s] = "waiting"
    /\ OnceFinished
    /\ stopPc' = [stopPc EXCEPT ![s] = "returned"]
    /\ UNCHANGED <<shut, callVars, readerVars, pipeVars, daemonVars>>

\* A step of the body that moves on and changes nothing else.
ShutMoves(from, guard, to) ==
    /\ shut = from
    /\ guard
    /\ shut' = to
    /\ UNCHANGED <<stopPc, callVars, readerVars, pipeVars, daemonVars>>

\* The handshake is for a session that is alive: ShutdownCall, then exit.
ShutHandshake == ShutMoves("handshake", TRUE, IF Alive THEN "call" ELSE "close")
ShutAnswered == ShutMoves("call", callPc[ShutdownCall] = "returned", "exitNotify")
ShutExitNotify == ShutMoves("exitNotify", TRUE, IF Alive THEN "exitWrite" ELSE "close")

ShutExitWrite ==
    /\ shut = "exitWrite"
    /\ \/ CanWrite /\ stdin' = Append(stdin, Other("other"))
       \/ WriteFails /\ UNCHANGED stdin
    /\ shut' = "close"
    /\ UNCHANGED <<stopPc, callVars, readerVars, stdinOpen, stdout, daemonVars>>

\* c.stdio.close(), then SIGTERM: whether and when the signal ends the daemon
\* is the daemon's business.
ShutClose ==
    /\ shut = "close"
    /\ stdinOpen' = FALSE
    /\ shut' = "grace"
    /\ UNCHANGED <<stopPc, callVars, readerVars, stdin, stdout, daemonVars>>

\* The child is reaped within the grace window.
ShutGraceful == ShutMoves("grace", exited, "finished")

\* The end of the process: what it had not read is lost, what it had written
\* can still be read.
ProcessEnds ==
    /\ proc' = "zombie"
    /\ stdin' = <<>>

\* Fault: the second signal is one the process may ignore.
KillIgnored == UNCHANGED <<proc, stdin>>

\* SIGKILL ends a process that is still running.
Kill == IF proc = "running" THEN ProcessEnds ELSE UNCHANGED <<proc, stdin>>

\* The timer fires first. A process that has been reaped cannot be signalled,
\* and then shutdown returns the error without waiting for exited.
ShutKill ==
    /\ shut = "grace"
    /\ shut' = IF proc = "reaped" THEN "finished" ELSE "reap"
    /\ Kill
    /\ UNCHANGED <<stopPc, callVars, readerVars, stdinOpen, stdout, asked>>

ShutReaped == ShutMoves("reap", exited, "finished")

ShutStep ==
    \/ ShutHandshake \/ ShutAnswered \/ ShutExitNotify \/ ShutExitWrite
    \/ ShutClose \/ ShutGraceful \/ ShutKill \/ ShutReaped

-----------------------------------------------------------------------------
(* The daemon, external.                                                   *)

DaemonRead ==
    /\ proc = "running"
    /\ stdin # <<>>
    /\ stdin' = Tail(stdin)
    /\ asked' = IF Head(stdin).kind = "request"
                THEN asked \cup {<<Head(stdin).id, Head(stdin).call>>}
                ELSE asked
    /\ UNCHANGED <<proc, stdinOpen, stdout, callVars, readerVars, stopVars>>

\* A request it has read may be answered at any time, more than once, or never.
DaemonReply ==
    /\ proc = "running"
    /\ Len(stdout) < PipeCap
    /\ \E r \in asked :
          stdout' = Append(stdout, [kind |-> "reply", id |-> r[1], call |-> r[2]])
    /\ UNCHANGED <<stdin, stdinOpen, daemonVars, callVars, readerVars, stopVars>>

\* A request of its own, a notification or an unusable frame, or bytes that are
\* no frame: a header without a usable length, a body cut short.
DaemonSend ==
    /\ proc = "running"
    /\ Len(stdout) < PipeCap
    /\ \E kind \in {"request", "other", "broken"} :
          stdout' = Append(stdout, Other(kind))
    /\ UNCHANGED <<stdin, stdinOpen, daemonVars, callVars, readerVars, stopVars>>

\* It exits, crashes, or obeys SIGTERM or the exit notification.
DaemonExit ==
    /\ proc = "running"
    /\ ProcessEnds
    /\ UNCHANGED <<asked, stdinOpen, stdout, callVars, readerVars, stopVars>>

-----------------------------------------------------------------------------

Next ==
    \/ \E c \in Calls : CallStart(c) \/ CallStep(c)
    \/ ReaderStep
    \/ \E s \in Stoppers : Shutdown(s) \/ ShutdownReturns(s)
    \/ ShutStep
    \/ DaemonRead \/ DaemonReply \/ DaemonSend \/ DaemonExit

Spec == Init /\ [][Next]_vars

(***************************************************************************)
(* Goroutines that can run do run, and timers fire. Writers of one pipe    *)
(* queue for it, so a writer that finds room again and again gets its      *)
(* turn. Nothing is assumed of the daemon, nor of the contexts of calls.   *)
(***************************************************************************)
Fairness ==
    /\ WF_vars(CallStart(ShutdownCall))
    /\ \A c \in Calls :
          /\ WF_vars(TrackCall(c) \/ SelectDone(c) \/ SelectReply(c)
                        \/ ForgetCall(c) \/ CancelRequest(c))
          /\ SF_vars(WriteRequest(c))
          /\ SF_vars(WriteCancel(c))
    /\ WF_vars(ReaderStep)
    /\ SF_vars(AnswerRequest)
    /\ \A s \in Stoppers : WF_vars(ShutdownReturns(s))
    /\ WF_vars(ShutStep)
    /\ SF_vars(ShutExitWrite)

FairSpec == Spec /\ Fairness

-----------------------------------------------------------------------------
(* Safety.                                                                 *)

(***************************************************************************)
(* The read loop never blocks on a reply channel: whenever dispatch or     *)
(* fail is about to send, the buffer of one is free. A blocked send would  *)
(* stop the loop, and with it every call of the session.                   *)
(***************************************************************************)
SendNeverBlocks ==
    /\ reader = "deliver" => ch[carried[1]] = <<>>
    /\ \A c \in aborting : ch[c] = <<>>

(***************************************************************************)
(* A call decodes the answer to its own request, whatever the daemon sends *)
(* twice, late, or after the call it belongs to has given up.              *)
(***************************************************************************)
OwnReply == \A c \in Calls : got[c] \in {c, NoCall}

(***************************************************************************)
(* Returned calls leave nothing in the pending map, not even those that    *)
(* register after fail has swapped it.                                     *)
(***************************************************************************)
SlotsReleased == \A i \in DOMAIN pending : callPc[pending[i]] # "returned"

(***************************************************************************)
(* Whoever returns from Shutdown finds the child reaped, the callers that  *)
(* only waited for shutdownOnce included.                                  *)
(***************************************************************************)
ShutdownReaps == \A s \in Stoppers : stopPc[s] = "returned" => proc = "reaped"

\* How a call has ended, in the terms of RpcSession. A reply that answers
\* another call's request is no outcome RpcSession knows.
OutcomeOf(c) ==
    IF callPc[c] # "returned" THEN "none"
    ELSE CASE result[c] = "reply" -> IF got[c] = c THEN "reply" ELSE "wrongReply"
           [] result[c] \in {"unsent", "ctx"} -> "gaveUp"
           [] OTHER -> "sessionEnded"

Rpc == INSTANCE RpcSession WITH
           outcome  <- [c \in Calls |-> OutcomeOf(c)],
           received <- {c \in Calls : <<callId[c], c>> \in asked},
           up       <- ~done

(***************************************************************************)
(* The session implements RpcSession: one outcome per call, a reply only   *)
(* to a request the daemon received, "session ended" only when it has.     *)
(***************************************************************************)
RefinesRpcSession == Rpc!Spec

(***************************************************************************)
(* manager.go:28: "ErrDaemonExited is returned to every in-flight call     *)
(* when a daemon dies".                                                    *)
(***************************************************************************)
InFlightSeesDaemonExited ==
    \A c \in Calls :
        callPc[c] = "returned" /\ result[c] \in {"aborted", "transport", "ErrDaemonExited"}
            => result[c] = "ErrDaemonExited"

-----------------------------------------------------------------------------
(* Liveness, under FairSpec.                                               *)

(***************************************************************************)
(* The end of the daemon releases every call that has started, without     *)
(* help from its context: those blocked in a write, those waiting in the   *)
(* map, and those that registered while fail was tearing the map down.     *)
(***************************************************************************)
DeathReleasesCalls ==
    \A c \in Calls :
        (proc # "running" /\ callPc[c] # "idle") ~> callPc[c] = "returned"

(***************************************************************************)
(* Shutdown of a session whose read loop has stopped always ends, though   *)
(* the process may still be running and may ignore SIGTERM.                *)
(***************************************************************************)
DeadSessionShutsDown == (shut = "handshake" /\ done) ~> shut = "finished"

(***************************************************************************)
(* Shutdown always ends if the daemon keeps taking what is written to it   *)
(* and the deadline of shutdown's own call fires, even if the daemon       *)
(* answers nothing and ignores SIGTERM.                                    *)
(***************************************************************************)
DrainedShutdownEnds ==
    []<>(Len(stdin) < PipeCap) /\ WF_vars(SelectContext(ShutdownCall))
        => (shut = "handshake" ~> shut = "finished")

(***************************************************************************)
(* client.go:315: "Shutdown performs the graceful LSP handshake and then   *)
(* guarantees the child process tree is gone".                             *)
(***************************************************************************)
ShutdownEnds ==
    WF_vars(SelectContext(ShutdownCall)) => (shut = "handshake" ~> shut = "finished")

=============================================================================
