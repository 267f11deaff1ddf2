--------------------------- MODULE LspClient_proofs ---------------------------
(***************************************************************************)
(* What a session promises, for every set of calls and of goroutines that  *)
(* shut it down and every capacity of its pipes: the inductive invariant,  *)
(* the safety properties from it, and that LspClient implements RpcSession.*)
(***************************************************************************)
EXTENDS LspClient, TLAPS

-----------------------------------------------------------------------------
(* The inductive invariant, part by part.                                  *)

\* A frame that is in a pipe.
Among(frame, pipe) == \E i \in DOMAIN pipe : pipe[i] = frame

\* An id belongs to one call, from the moment it is registered.
IdsOwned ==
    \A c \in Calls :
        /\ callId[c] <= nextID
        /\ callPc[c] \in {"idle", "track"} => callId[c] = 0
        /\ callPc[c] = "write" => callId[c] # 0
        /\ \A d \in Calls : callId[c] = callId[d] /\ callId[c] # 0 => c = d

\* A slot is under the id of its call, which has not given up for good.
PendingOwned ==
    \A i \in DOMAIN pending :
        /\ callId[pending[i]] = i
        /\ callPc[pending[i]] \in {"write", "select", "forget"}

\* The daemon has read the request of a call.
Received(c) == <<callId[c], c>> \in asked

\* Requests carry the id of their call, under way to the daemon and there, and
\* replies are to requests that were read.
RequestsOwned ==
    /\ \A frame : Among(frame, stdin) /\ frame.kind = "request" =>
          frame.call \in Calls /\ frame.id # 0 /\ callId[frame.call] = frame.id
    /\ \A r \in asked : r[1] # 0 /\ callId[r[2]] = r[1]

RepliesAsked ==
    \A frame : Among(frame, stdout) /\ frame.kind = "reply" =>
        <<frame.id, frame.call>> \in asked

\* What dispatch is about to send is for the call it is from.
CarriesOwn ==
    IF reader = "deliver"
    THEN carried[1] \in Calls /\ carried[2] = carried[1] /\ Received(carried[1])
    ELSE carried = <<NoCall, NoCall>>

HasSlot(c) == \E i \in DOMAIN pending : pending[i] = c

\* An answer to a call is in one place: its slot promises it, or dispatch or fail
\* is about to send it, or it is in the channel.
OneAnswer ==
    /\ \A c \in Calls :
          /\ ch[c] \in {<<>>, <<c>>, <<NoCall>>}
          /\ c = carried[1] \/ c \in aborting \/ ch[c] # <<>> =>
                callId[c] # 0 /\ ~HasSlot(c)
          /\ c = carried[1] => ch[c] = <<>> /\ c \notin aborting
          /\ c \in aborting => ch[c] = <<>>
    /\ aborting # {} => reader \in {"close", "abort"}

\* An answer in a channel is to a request that was read, and an error is the end
\* of the session.
AnswersTrue ==
    \A c \in Calls :
        /\ ch[c] = <<c>> => Received(c)
        /\ ch[c] = <<NoCall>> => done

SessionEnds == {"aborted", "transport", "ErrDaemonExited"}

\* What a call says of its end is so.
ResultsTrue ==
    \A c \in Calls :
        /\ callPc[c] = "forget" => result[c] \in {"unsent", "ctx"} \cup SessionEnds
        /\ callPc[c] \in {"cancel", "cancelWrite"} => result[c] = "ctx"
        /\ callPc[c] = "returned" => result[c] # "none"
        /\ result[c] \in SessionEnds => done
        /\ result[c] = "reply" => callPc[c] = "returned" /\ got[c] = c /\ Received(c)

\* The order in which a session goes down.
EndsInOrder ==
    /\ done <=> reader \in {"abort", "exit", "gone"}
    /\ exited => reader = "gone"
    /\ reader \in {"exit", "gone"} => proc = "reaped"
    /\ shut = "finished" => proc = "reaped"
    /\ \A s \in Stoppers : stopPc[s] = "returned" => shut = "finished"

IInv ==
    /\ TypeOK
    /\ IdsOwned
    /\ PendingOwned
    /\ RequestsOwned
    /\ RepliesAsked
    /\ CarriesOwn
    /\ OneAnswer
    /\ AnswersTrue
    /\ ResultsTrue
    /\ OwnReply
    /\ EndsInOrder

-----------------------------------------------------------------------------
(* Pipes.                                                                  *)

\* A pipe that a frame is written to has that frame and those it had.
LEMMA AppendedAmong ==
  ASSUME NEW S, NEW pipe \in Seq(S), NEW e
  PROVE  \A frame : Among(frame, Append(pipe, e)) => frame = e \/ Among(frame, pipe)
<1>1. /\ DOMAIN Append(pipe, e) = 1..(Len(pipe) + 1)
      /\ DOMAIN pipe = 1..Len(pipe)
      /\ \A i \in 1..Len(pipe) : Append(pipe, e)[i] = pipe[i]
      /\ Append(pipe, e)[Len(pipe) + 1] = e
  OBVIOUS
<1> QED BY <1>1 DEF Among

\* One that is read from had the frames it has, and the one that was read.
LEMMA TailAmong ==
  ASSUME NEW S, NEW pipe \in Seq(S), pipe # <<>>
  PROVE  /\ \A frame : Among(frame, Tail(pipe)) => Among(frame, pipe)
         /\ Among(Head(pipe), pipe)
         /\ Head(pipe) \in S
<1>1. /\ DOMAIN Tail(pipe) = 1..(Len(pipe) - 1)
      /\ DOMAIN pipe = 1..Len(pipe)
      /\ \A i \in 1..(Len(pipe) - 1) : Tail(pipe)[i] = pipe[i + 1]
      /\ Len(pipe) \in Nat \ {0}
      /\ Head(pipe) = pipe[1] /\ Head(pipe) \in S
  OBVIOUS
<1> QED BY <1>1 DEF Among

LEMMA NothingAmong == \A frame : ~Among(frame, <<>>)
  BY DEF Among

-----------------------------------------------------------------------------
(* Types, group by group.                                                  *)

CallTypes ==
    /\ nextID \in Nat
    /\ pending \in [DOMAIN pending -> Calls]
    /\ DOMAIN pending \subseteq Nat \ {0}
    /\ ch \in [Calls -> Seq(Calls \cup {NoCall})]
    /\ callPc \in [Calls -> CallStates]
    /\ callId \in [Calls -> Nat]
    /\ result \in [Calls -> Results]
    /\ got \in [Calls -> Calls \cup {NoCall}]

ReaderTypes ==
    /\ reader \in ReaderStates
    /\ carried \in Calls \X Calls \cup {<<NoCall, NoCall>>}
    /\ aborting \subseteq Calls
    /\ exitErr \in {"none", "transport"}
    /\ done \in BOOLEAN
    /\ exited \in BOOLEAN

StopTypes == stopPc \in [Stoppers -> {"idle", "waiting", "returned"}] /\ shut \in ShutStates

PipeTypes == stdin \in Seq(Frames) /\ stdinOpen \in BOOLEAN /\ stdout \in Seq(Frames)

DaemonTypes == proc \in {"running", "zombie", "reaped"} /\ asked \subseteq Nat \X Calls

LEMMA TypeGroups == TypeOK <=> CallTypes /\ ReaderTypes /\ StopTypes /\ PipeTypes /\ DaemonTypes
  BY DEF TypeOK, CallTypes, ReaderTypes, StopTypes, PipeTypes, DaemonTypes

\* A step is of a call, of the supervisor, of a shutdown or of the daemon.
StopStep == ShutStep \/ \E s \in Stoppers : Shutdown(s) \/ ShutdownReturns(s)
DaemonStep == DaemonRead \/ DaemonReply \/ DaemonSend \/ DaemonExit

LEMMA WhoseStep ==
  ASSUME [Next]_vars
  PROVE  \/ \E c \in Calls : CallStart(c) \/ CallStep(c)
         \/ ReaderStep \/ StopStep \/ DaemonStep \/ UNCHANGED vars
  BY DEF Next, StopStep, DaemonStep

\* What each of them leaves alone.
LEMMA CallFrame ==
  ASSUME NEW c \in Calls, CallStart(c) \/ CallStep(c)
  PROVE  UNCHANGED <<readerVars, stopVars, stdinOpen, stdout, daemonVars>>
  BY DEF CallStart, CallStep, TrackCall, WriteRequest, SelectContext, SelectDone, SelectReply,
         ForgetCall, CancelRequest, WriteCancel, pipeVars

LEMMA ReaderFrame ==
  ASSUME ReaderStep
  PROVE  UNCHANGED <<nextID, callPc, callId, result, got, stopVars, asked>>
  BY DEF ReaderStep, ReadReply, Deliver, ReadOther, AnswerRequest, ReadEnd, FailError,
         FailSwap, FailClose, FailSend, Reap, CloseExited, callVars, daemonVars

LEMMA StopFrame ==
  ASSUME StopStep
  PROVE  UNCHANGED <<callVars, readerVars, stdout, asked>>
  BY DEF StopStep, Shutdown, ShutdownReturns, ShutStep, ShutHandshake, ShutAnswered,
         ShutExitNotify, ShutExitWrite, ShutClose, ShutGraceful, ShutKill, ShutReaped,
         ShutMoves, pipeVars, daemonVars

LEMMA DaemonFrame ==
  ASSUME DaemonStep
  PROVE  UNCHANGED <<callVars, readerVars, stopVars, stdinOpen>>
  BY DEF DaemonStep, DaemonRead, DaemonReply, DaemonSend, DaemonExit, daemonVars

LEMMA CallTypesPreserved == IInv /\ [Next]_vars => CallTypes'
<1> SUFFICES ASSUME IInv, [Next]_vars PROVE CallTypes'
  OBVIOUS
<1>t. CallTypes
  BY TypeGroups DEF IInv
<1>1. ASSUME NEW c \in Calls, CallStart(c) \/ SelectContext(c) \/ SelectDone(c)
                                 \/ CancelRequest(c) \/ WriteCancel(c)
      PROVE  CallTypes'
  <2>1. ExitReason \in Results
    BY TypeGroups DEF IInv, ReaderTypes, ExitReason, Results
  <2>2. /\ \E to \in CallStates : callPc' = [callPc EXCEPT ![c] = to]
        /\ UNCHANGED result \/ \E why \in Results : result' = [result EXCEPT ![c] = why]
    BY <1>1, <2>1 DEF CallStart, SelectContext, SelectDone, CancelRequest, WriteCancel,
         GiveUp, CallStates, Results
  <2>3. callPc' \in [Calls -> CallStates] /\ result' \in [Calls -> Results]
    <3>1. callPc \in [Calls -> CallStates] /\ result \in [Calls -> Results]
      BY <1>t DEF CallTypes
    <3> QED BY <2>2, <3>1
  <2> QED BY <1>1, <1>t, <2>3 DEF CallTypes, CallStart, SelectContext, SelectDone,
               CancelRequest, WriteCancel
<1>2. ASSUME NEW c \in Calls, TrackCall(c) PROVE CallTypes'
  <2>1. nextID' \in Nat \ {0} /\ callId' \in [Calls -> Nat]
    BY <1>2, <1>t DEF CallTypes, TrackCall, FreshId
  <2>2. /\ pending' \in [DOMAIN pending' -> Calls]
        /\ DOMAIN pending' \subseteq Nat \ {0}
    BY <1>2, <1>t, <2>1 DEF CallTypes, TrackCall
  <2>3. callPc' \in [Calls -> CallStates] /\ result' \in [Calls -> Results]
    BY <1>2, <1>t DEF CallTypes, TrackCall, GiveUp, CallStates, Results
  <2> QED BY <1>2, <1>t, <2>1, <2>2, <2>3 DEF CallTypes, TrackCall
<1>3. ASSUME NEW c \in Calls, WriteRequest(c) PROVE CallTypes'
  <2>1. callPc' \in [Calls -> CallStates] /\ result' \in [Calls -> Results]
    BY <1>3, <1>t DEF CallTypes, WriteRequest, GiveUp, CallStates, Results
  <2> QED BY <1>3, <1>t, <2>1 DEF CallTypes, WriteRequest
<1>4. ASSUME NEW c \in Calls, SelectReply(c) PROVE CallTypes'
  <2>1. Head(ch[c]) \in Calls \cup {NoCall} /\ Tail(ch[c]) \in Seq(Calls \cup {NoCall})
    BY <1>4, <1>t DEF CallTypes, SelectReply
  <2>2. callPc' \in [Calls -> CallStates] /\ result' \in [Calls -> Results]
    BY <1>4, <1>t DEF CallTypes, SelectReply, CallStates, Results
  <2> QED BY <1>4, <1>t, <2>1, <2>2 DEF CallTypes, SelectReply
<1>5. ASSUME NEW c \in Calls, ForgetCall(c) PROVE CallTypes'
  <2>1. /\ pending' \in [DOMAIN pending' -> Calls]
        /\ DOMAIN pending' \subseteq Nat \ {0}
    BY <1>5, <1>t DEF CallTypes, ForgetCall, Without
  <2>2. callPc' \in [Calls -> CallStates]
    BY <1>5, <1>t DEF CallTypes, ForgetCall, CallStates
  <2> QED BY <1>5, <1>t, <2>1, <2>2 DEF CallTypes, ForgetCall
<1>6. ASSUME ReadReply \/ FailSwap PROVE CallTypes'
  <2>1. /\ pending' \in [DOMAIN pending' -> Calls]
        /\ DOMAIN pending' \subseteq Nat \ {0}
    <3>1. CASE ReadReply
      BY <1>t, <3>1 DEF CallTypes, ReadReply, Without
    <3>2. CASE FailSwap
      BY <3>2 DEF FailSwap
    <3> QED BY <1>6, <3>1, <3>2
  <2> QED BY <1>6, <1>t, <2>1 DEF CallTypes, ReadReply, FailSwap
<1>7. ASSUME Deliver \/ FailSend PROVE CallTypes'
  <2>1. ch' \in [Calls -> Seq(Calls \cup {NoCall})]
    <3>1. PICK c \in Calls, e \in Calls \cup {NoCall} : ch' = [ch EXCEPT ![c] = Append(@, e)]
      <4>1. reader = "deliver" => carried[1] \in Calls /\ carried[2] \in Calls
        BY TypeGroups DEF IInv, CarriesOwn
      <4>2. aborting \subseteq Calls
        BY TypeGroups DEF IInv, ReaderTypes
      <4> QED BY <1>7, <4>1, <4>2 DEF Deliver, FailSend
    <3>2. Append(ch[c], e) \in Seq(Calls \cup {NoCall})
      BY <1>t DEF CallTypes
    <3> QED BY <1>t, <3>1, <3>2 DEF CallTypes
  <2> QED BY <1>7, <1>t, <2>1 DEF CallTypes, Deliver, FailSend
<1>8. CASE UNCHANGED callVars
  BY <1>8, <1>t DEF CallTypes, callVars
<1>9. ReaderStep => ReadReply \/ FailSwap \/ Deliver \/ FailSend \/ UNCHANGED callVars
  BY DEF ReaderStep, ReadOther, AnswerRequest, ReadEnd, FailError, FailClose, Reap, CloseExited
<1>10. UNCHANGED vars => UNCHANGED callVars
  BY DEF vars
<1> QED BY <1>1, <1>2, <1>3, <1>4, <1>5, <1>6, <1>7, <1>8, <1>9, <1>10,
          WhoseStep, StopFrame, DaemonFrame
       DEF CallStep

LEMMA ReaderTypesPreserved == IInv /\ [Next]_vars => ReaderTypes'
<1> SUFFICES ASSUME IInv, [Next]_vars PROVE ReaderTypes'
  OBVIOUS
<1>t. ReaderTypes
  BY TypeGroups DEF IInv
<1>1. CASE ReadReply
  <2>1. stdout # <<>> /\ Head(stdout).kind = "reply" /\ stdout \in Seq(Frames)
    BY <1>1, TypeGroups DEF ReadReply, IInv, PipeTypes
  <2>2. <<Head(stdout).id, Head(stdout).call>> \in asked
    BY <2>1, TailAmong DEF IInv, RepliesAsked
  <2>3. Head(stdout).call \in Calls
    BY <2>2, TypeGroups DEF IInv, DaemonTypes
  <2>4. \A i \in DOMAIN pending : pending[i] \in Calls
    BY TypeGroups DEF IInv, CallTypes
  <2>5. carried' \in Calls \X Calls \cup {<<NoCall, NoCall>>} /\ reader' \in ReaderStates
    BY <1>1, <1>t, <2>3, <2>4 DEF ReadReply, ReaderTypes, ReaderStates
  <2> QED BY <1>1, <1>t, <2>5 DEF ReadReply, ReaderTypes
<1>2. CASE FailSwap
  <2>1. aborting' \subseteq Calls
    BY <1>2, TypeGroups DEF IInv, CallTypes, FailSwap
  <2> QED BY <1>2, <1>t, <2>1 DEF FailSwap, ReaderTypes, ReaderStates
<1>3. ASSUME ReaderStep, ~ReadReply, ~FailSwap PROVE ReaderTypes'
  BY <1>3, <1>t DEF ReaderStep, ReaderTypes, ReaderStates, Deliver, ReadOther, AnswerRequest,
       ReadEnd, FailError, FailClose, FailSend, Reap, CloseExited
<1>4. CASE UNCHANGED readerVars
  BY <1>4, <1>t DEF ReaderTypes, readerVars
<1>5. UNCHANGED vars => UNCHANGED readerVars
  BY DEF vars
<1> QED BY <1>1, <1>2, <1>3, <1>4, <1>5, WhoseStep, CallFrame, StopFrame, DaemonFrame

LEMMA StopTypesPreserved == IInv /\ [Next]_vars => StopTypes'
<1> SUFFICES ASSUME IInv, [Next]_vars PROVE StopTypes'
  OBVIOUS
<1>t. StopTypes
  BY TypeGroups DEF IInv
<1>1. CASE StopStep
  BY <1>1, <1>t DEF StopStep, Shutdown, ShutdownReturns, ShutStep, ShutHandshake, ShutAnswered,
         ShutExitNotify, ShutExitWrite, ShutClose, ShutGraceful, ShutKill, ShutReaped,
         ShutMoves, StopTypes, ShutStates
<1>2. CASE UNCHANGED stopVars
  BY <1>2, <1>t DEF StopTypes, stopVars
<1>3. UNCHANGED vars => UNCHANGED stopVars
  BY DEF vars
<1> QED BY <1>1, <1>2, <1>3, WhoseStep, CallFrame, ReaderFrame, DaemonFrame

\* What a step does to the pipe to the daemon.
LEMMA StdinSteps ==
  ASSUME TypeOK, [Next]_vars
  PROVE  \/ UNCHANGED stdin
         \/ stdin' = <<>>
         \/ stdin' = Append(stdin, Other("other"))
         \/ stdin # <<>> /\ stdin' = Tail(stdin)
         \/ \E c \in Calls : callPc[c] = "write"
                /\ stdin' = Append(stdin, [kind |-> "request", id |-> callId[c], call |-> c])
  BY WhoseStep DEF CallStart, CallStep, TrackCall, WriteRequest, SelectContext, SelectDone,
       SelectReply, ForgetCall, CancelRequest, WriteCancel, ReaderStep, ReadReply, Deliver,
       ReadOther, AnswerRequest, ReadEnd, FailError, FailSwap, FailClose, FailSend, Reap,
       CloseExited, StopStep, Shutdown, ShutdownReturns, ShutStep, ShutHandshake, ShutAnswered,
       ShutExitNotify, ShutExitWrite, ShutClose, ShutGraceful, ShutKill, ShutReaped, ShutMoves,
       Kill, ProcessEnds, DaemonStep, DaemonRead, DaemonReply, DaemonSend, DaemonExit, pipeVars, vars

\* What a step does to the pipe from the daemon.
LEMMA StdoutSteps ==
  ASSUME TypeOK, [Next]_vars
  PROVE  \/ UNCHANGED stdout
         \/ stdout' = <<>>
         \/ stdout # <<>> /\ stdout' = Tail(stdout)
         \/ \E kind \in {"request", "other", "broken"} : stdout' = Append(stdout, Other(kind))
         \/ \E r \in asked :
                stdout' = Append(stdout, [kind |-> "reply", id |-> r[1], call |-> r[2]])
<1>1. CASE ReaderStep
  BY <1>1 DEF ReaderStep, ReadReply, Deliver, ReadOther, AnswerRequest, ReadEnd, FailError,
       FailSwap, FailClose, FailSend, Reap, CloseExited, pipeVars
<1>2. CASE DaemonStep
  BY <1>2 DEF DaemonStep, DaemonRead, DaemonReply, DaemonSend, DaemonExit
<1> QED BY <1>1, <1>2, WhoseStep, CallFrame, StopFrame DEF vars, pipeVars

LEMMA AskedSteps ==
  ASSUME [Next]_vars
  PROVE  \/ UNCHANGED asked
         \/ /\ stdin # <<>>
            /\ Head(stdin).kind = "request"
            /\ asked' = asked \cup {<<Head(stdin).id, Head(stdin).call>>}
<1>1. CASE DaemonStep
  BY <1>1 DEF DaemonStep, DaemonRead, DaemonReply, DaemonSend, DaemonExit, daemonVars
<1> QED BY <1>1, WhoseStep, CallFrame, ReaderFrame, StopFrame DEF vars, daemonVars

LEMMA PipeTypesPreserved == IInv /\ [Next]_vars => PipeTypes' /\ DaemonTypes'
<1> SUFFICES ASSUME IInv, [Next]_vars PROVE PipeTypes' /\ DaemonTypes'
  OBVIOUS
<1>t. TypeOK /\ PipeTypes /\ DaemonTypes
  BY TypeGroups DEF IInv
<1>1. \A kind \in {"request", "other", "broken"} : Other(kind) \in Frames
  BY DEF Other, Frames
<1>2. stdin' \in Seq(Frames)
  <2>1. ASSUME NEW c \in Calls
        PROVE  [kind |-> "request", id |-> callId[c], call |-> c] \in Frames
    <3>1. callId[c] \in Nat
      BY TypeGroups, <1>t DEF CallTypes
    <3> QED BY <3>1 DEF Frames
  <2>2. stdin \in Seq(Frames) /\ Other("other") \in Frames
    BY <1>t, <1>1 DEF PipeTypes
  <2>3. \A e \in Frames : Append(stdin, e) \in Seq(Frames)
    BY <2>2
  <2>4. stdin # <<>> => Tail(stdin) \in Seq(Frames)
    BY <2>2
  <2>5. <<>> \in Seq(Frames)
    OBVIOUS
  <2> QED BY <1>t, <2>1, <2>2, <2>3, <2>4, <2>5, StdinSteps, Zenon
<1>3. stdout' \in Seq(Frames)
  <2>1. ASSUME NEW r \in asked
        PROVE  [kind |-> "reply", id |-> r[1], call |-> r[2]] \in Frames
    BY <1>t DEF DaemonTypes, Frames
  <2>2. stdout \in Seq(Frames)
    BY <1>t DEF PipeTypes
  <2>3. \A e \in Frames : Append(stdout, e) \in Seq(Frames)
    BY <2>2
  <2>4. stdout # <<>> => Tail(stdout) \in Seq(Frames)
    BY <2>2
  <2>5. <<>> \in Seq(Frames)
    OBVIOUS
  <2> QED BY <1>t, <1>1, <2>1, <2>2, <2>3, <2>4, <2>5, StdoutSteps, Zenon
<1>4. stdinOpen' \in BOOLEAN /\ proc' \in {"running", "zombie", "reaped"}
  <2>1. CASE ReaderStep
    BY <1>t, <2>1 DEF PipeTypes, DaemonTypes, ReaderStep, ReadReply, Deliver, ReadOther,
         AnswerRequest, ReadEnd, FailError, FailSwap, FailClose, FailSend, Reap, CloseExited,
         pipeVars, daemonVars
  <2>2. CASE StopStep
    BY <1>t, <2>2 DEF PipeTypes, DaemonTypes, StopStep, Shutdown, ShutdownReturns, ShutStep,
         ShutHandshake, ShutAnswered, ShutExitNotify, ShutExitWrite, ShutClose, ShutGraceful,
         ShutKill, ShutReaped, ShutMoves, Kill, ProcessEnds, pipeVars, daemonVars
  <2>3. CASE DaemonStep
    BY <1>t, <2>3 DEF PipeTypes, DaemonTypes, DaemonStep, DaemonRead, DaemonReply, DaemonSend,
         DaemonExit, ProcessEnds, daemonVars
  <2> QED BY <1>t, <2>1, <2>2, <2>3, WhoseStep, CallFrame
          DEF PipeTypes, DaemonTypes, vars, pipeVars, daemonVars
<1>5. asked' \subseteq Nat \X Calls
  <2>1. ASSUME stdin # <<>>, Head(stdin).kind = "request"
        PROVE  <<Head(stdin).id, Head(stdin).call>> \in Nat \X Calls
    <3>1. Head(stdin) \in Frames /\ Among(Head(stdin), stdin)
      BY <1>t, <2>1, TailAmong DEF PipeTypes
    <3>2. Head(stdin).call \in Calls /\ Head(stdin).id \in Nat
      BY <2>1, <3>1 DEF IInv, RequestsOwned, Frames
    <3> QED BY <3>2
  <2> QED BY <1>t, <2>1, AskedSteps DEF DaemonTypes
<1> QED BY <1>2, <1>3, <1>4, <1>5 DEF PipeTypes, DaemonTypes

LEMMA TypePreserved == IInv /\ [Next]_vars => TypeOK'
<1>1. (CallTypes /\ ReaderTypes /\ StopTypes /\ PipeTypes /\ DaemonTypes)' => TypeOK'
  BY DEF TypeOK, CallTypes, ReaderTypes, StopTypes, PipeTypes, DaemonTypes
<1> QED BY <1>1, CallTypesPreserved, ReaderTypesPreserved, StopTypesPreserved, PipeTypesPreserved

-----------------------------------------------------------------------------
(* Ids.                                                                    *)

\* A step registers one call under a fresh id, or leaves every id as it is.
LEMMA IdSteps ==
  ASSUME [Next]_vars
  PROVE  \/ \E c \in Calls : TrackCall(c)
         \/ UNCHANGED <<nextID, callId>>
  BY WhoseStep, ReaderFrame, StopFrame, DaemonFrame
     DEF CallStart, CallStep, WriteRequest, SelectContext, SelectDone, SelectReply, ForgetCall,
         CancelRequest, WriteCancel, callVars, vars

\* Where a step takes a call.
LEMMA PcSteps ==
  ASSUME TypeOK, [Next]_vars
  PROVE  \/ UNCHANGED callPc
         \/ \E c \in Calls :
               \/ CallStart(c) /\ \E to \in {"track", "returned"} : callPc' = [callPc EXCEPT ![c] = to]
               \/ TrackCall(c) /\ \E to \in {"write", "forget"} : callPc' = [callPc EXCEPT ![c] = to]
               \/ /\ callPc[c] \in {"write", "select", "forget", "cancel", "cancelWrite"}
                  /\ \E to \in {"select", "forget", "cancel", "cancelWrite", "returned"} :
                        callPc' = [callPc EXCEPT ![c] = to]
                  /\ UNCHANGED <<nextID, callId>>
<1>1. ASSUME NEW c \in Calls, CallStart(c) \/ CallStep(c)
      PROVE  \/ CallStart(c) /\ \E to \in {"track", "returned"} : callPc' = [callPc EXCEPT ![c] = to]
             \/ TrackCall(c) /\ \E to \in {"write", "forget"} : callPc' = [callPc EXCEPT ![c] = to]
             \/ /\ callPc[c] \in {"write", "select", "forget", "cancel", "cancelWrite"}
                /\ \E to \in {"select", "forget", "cancel", "cancelWrite", "returned"} :
                      callPc' = [callPc EXCEPT ![c] = to]
                /\ UNCHANGED <<nextID, callId>>
  BY <1>1 DEF CallStart, CallStep, TrackCall, WriteRequest, SelectContext, SelectDone,
       SelectReply, ForgetCall, CancelRequest, WriteCancel, GiveUp
<1> QED BY <1>1, WhoseStep, ReaderFrame, StopFrame, DaemonFrame DEF callVars, vars

LEMMA IdsOwnedPreserved == IInv /\ [Next]_vars => IdsOwned'
<1> SUFFICES ASSUME IInv, [Next]_vars PROVE IdsOwned'
  OBVIOUS
<1>t. /\ nextID \in Nat
      /\ callId \in [Calls -> Nat]
      /\ callPc \in [Calls -> CallStates]
  BY DEF IInv, TypeOK
<1>i. IdsOwned
  BY DEF IInv
<1>1. ASSUME NEW c \in Calls, TrackCall(c) PROVE IdsOwned'
  <2>1. /\ nextID' = nextID + 1
        /\ callId' = [callId EXCEPT ![c] = nextID + 1]
        /\ \E to \in {"write", "forget"} : callPc' = [callPc EXCEPT ![c] = to]
    BY <1>1 DEF TrackCall, FreshId, GiveUp
  <2> QED BY <1>t, <1>i, <2>1 DEF IdsOwned
<1>2. ASSUME UNCHANGED <<nextID, callId>> PROVE IdsOwned'
  <2>1. ASSUME NEW c \in Calls
        PROVE  /\ callPc'[c] \in {"idle", "track"} => callPc[c] \in {"idle", "track"}
               /\ callPc'[c] = "write" => callPc[c] = "write" \/ \E d \in Calls : TrackCall(d)
    BY <1>t, PcSteps DEF IInv, CallStart
  <2>2. ASSUME NEW d \in Calls, TrackCall(d) PROVE FALSE
    BY <1>2, <1>t, <2>2 DEF TrackCall, FreshId
  <2> QED BY <1>2, <1>i, <2>1, <2>2 DEF IdsOwned
<1> QED BY <1>1, <1>2, IdSteps

\* Once a call has an id it keeps it, and what the daemon has read it has read.
LEMMA ReceivedStays ==
  ASSUME IInv, [Next]_vars
  PROVE  /\ \A c \in Calls : callId[c] # 0 => callId'[c] = callId[c]
         /\ asked \subseteq asked'
         /\ \A c \in Calls : Received(c) => callId[c] # 0 /\ Received(c)'
<1>1. ASSUME NEW c \in Calls, callId[c] # 0 PROVE callId'[c] = callId[c]
  <2>1. callPc[c] # "track" /\ callId \in [Calls -> Nat]
    BY <1>1 DEF IInv, IdsOwned, TypeOK
  <2> QED BY <2>1, IdSteps DEF TrackCall
<1>2. asked \subseteq asked'
  BY AskedSteps
<1>3. \A c \in Calls : Received(c) => callId[c] # 0
  BY DEF IInv, RequestsOwned, Received
<1> QED BY <1>1, <1>2, <1>3 DEF Received

-----------------------------------------------------------------------------
(* Slots, requests and replies.                                            *)

\* What a step does to the map of pending calls.
LEMMA PendingSteps ==
  ASSUME TypeOK, [Next]_vars
  PROVE  \/ \E c \in Calls : TrackCall(c)
         \/ /\ DOMAIN pending' \subseteq DOMAIN pending
            /\ \A i \in DOMAIN pending' : pending'[i] = pending[i]
            /\ \A c \in Calls : ForgetCall(c) => callId[c] \notin DOMAIN pending'
<1>1. UNCHANGED pending => \A c \in Calls : ForgetCall(c) => callId[c] \notin DOMAIN pending'
  BY DEF ForgetCall, Without
<1>2. CASE UNCHANGED pending
  BY <1>1, <1>2
<1>3. ASSUME NEW c \in Calls, ForgetCall(c)
      PROVE  /\ pending' = Without(callId[c])
             /\ \A d \in Calls : ForgetCall(d) => d = c
  BY <1>3 DEF ForgetCall, TypeOK, CallStates
<1>4. ASSUME NEW c \in Calls, ForgetCall(c)
      PROVE  /\ DOMAIN pending' \subseteq DOMAIN pending
             /\ \A i \in DOMAIN pending' : pending'[i] = pending[i]
             /\ \A d \in Calls : ForgetCall(d) => callId[d] \notin DOMAIN pending'
  BY <1>3, <1>4 DEF Without
<1>5. ASSUME ReadReply \/ FailSwap
      PROVE  /\ DOMAIN pending' \subseteq DOMAIN pending
             /\ \A i \in DOMAIN pending' : pending'[i] = pending[i]
             /\ \A c \in Calls : ~ForgetCall(c)
  <2>1. ASSUME NEW c \in Calls, ForgetCall(c) PROVE FALSE
    BY <1>5, <2>1 DEF ReadReply, FailSwap, ForgetCall, TypeOK
  <2>2. CASE ReadReply
    BY <2>1, <2>2 DEF ReadReply, Without
  <2>3. CASE FailSwap
    BY <2>1, <2>3 DEF FailSwap
  <2> QED BY <1>5, <2>2, <2>3
<1>6. \/ \E c \in Calls : TrackCall(c) \/ ForgetCall(c)
      \/ ReadReply \/ FailSwap \/ UNCHANGED pending
  BY WhoseStep, StopFrame, DaemonFrame
     DEF CallStart, CallStep, WriteRequest, SelectContext, SelectDone, SelectReply,
         CancelRequest, WriteCancel, ReaderStep, Deliver, ReadOther, AnswerRequest, ReadEnd,
         FailError, FailClose, FailSend, Reap, CloseExited, callVars, vars
<1> QED BY <1>2, <1>4, <1>5, <1>6

LEMMA PendingOwnedPreserved == IInv /\ [Next]_vars => PendingOwned'
<1> SUFFICES ASSUME IInv, [Next]_vars, NEW i \in DOMAIN pending'
             PROVE  callId'[pending'[i]] = i /\ callPc'[pending'[i]] \in {"write", "select", "forget"}
  BY DEF PendingOwned
<1>t. /\ TypeOK
      /\ nextID \in Nat
      /\ pending \in [DOMAIN pending -> Calls]
      /\ DOMAIN pending \subseteq Nat \ {0}
      /\ callId \in [Calls -> Nat]
      /\ callPc \in [Calls -> CallStates]
  BY DEF IInv, TypeOK
<1>o. PendingOwned
  BY DEF IInv
<1>1. ASSUME NEW c \in Calls, TrackCall(c)
      PROVE  callId'[pending'[i]] = i /\ callPc'[pending'[i]] \in {"write", "select", "forget"}
  <2>1. callPc[c] = "track" /\ \E to \in {"write", "forget"} : callPc' = [callPc EXCEPT ![c] = to]
    BY <1>1 DEF TrackCall, GiveUp
  <2>2. CASE i = nextID'
    BY <1>1, <1>t, <2>1, <2>2 DEF TrackCall
  <2>3. CASE i # nextID'
    <3>1. i \in DOMAIN pending /\ pending'[i] = pending[i]
      BY <1>1, <2>3 DEF TrackCall
    <3>2. pending[i] # c /\ callId[pending[i]] = i /\ callPc[pending[i]] \in {"write", "select", "forget"}
      BY <1>o, <2>1, <3>1 DEF PendingOwned
    <3> QED BY <1>1, <1>t, <2>1, <3>1, <3>2 DEF TrackCall
  <2> QED BY <2>2, <2>3
<1>2. ASSUME DOMAIN pending' \subseteq DOMAIN pending,
             \A j \in DOMAIN pending' : pending'[j] = pending[j],
             \A c \in Calls : ForgetCall(c) => callId[c] \notin DOMAIN pending'
      PROVE  callId'[pending'[i]] = i /\ callPc'[pending'[i]] \in {"write", "select", "forget"}
  <2> DEFINE d == pending[i]
  <2>1. /\ d \in Calls /\ pending'[i] = d
        /\ callId[d] = i /\ callPc[d] \in {"write", "select", "forget"}
    BY <1>t, <1>o, <1>2 DEF PendingOwned
  <2>2. callId'[d] = i
    <3>1. callId[d] # 0
      BY <1>t, <1>2, <2>1
    <3> QED BY <2>1, <3>1, ReceivedStays
  <2>3. ch[d] = <<>>
    BY <1>t, <1>2, <2>1 DEF IInv, OneAnswer, HasSlot
  <2>4. ~ForgetCall(d)
    BY <1>2, <2>1
  <2>5. ASSUME NEW c \in Calls, CallStart(c) \/ CallStep(c)
        PROVE  callPc'[d] \in {"write", "select", "forget"}
    BY <1>t, <2>1, <2>3, <2>4, <2>5
       DEF CallStart, CallStep, TrackCall, WriteRequest, SelectContext, SelectDone, SelectReply,
           ForgetCall, CancelRequest, WriteCancel, GiveUp
  <2>6. callPc'[d] \in {"write", "select", "forget"}
    BY <2>1, <2>5, WhoseStep, ReaderFrame, StopFrame, DaemonFrame DEF callVars, vars
  <2> QED BY <2>1, <2>2, <2>6
<1> QED BY <1>1, <1>2, <1>t, PendingSteps

LEMMA RequestsOwnedPreserved == IInv /\ [Next]_vars => RequestsOwned'
<1> SUFFICES ASSUME IInv, [Next]_vars PROVE RequestsOwned'
  OBVIOUS
<1>t. /\ TypeOK
      /\ stdin \in Seq(Frames)
      /\ asked \subseteq Nat \X Calls
      /\ callId \in [Calls -> Nat]
  BY DEF IInv, TypeOK
<1>i. \A c \in Calls : callId[c] # 0 => callId'[c] = callId[c]
  BY ReceivedStays
<1>1. ASSUME NEW frame, Among(frame, stdin), frame.kind = "request"
      PROVE  frame.call \in Calls /\ frame.id # 0 /\ callId'[frame.call] = frame.id
  BY <1>1, <1>i DEF IInv, RequestsOwned
<1>2. ASSUME NEW c \in Calls, callPc[c] = "write"
      PROVE  callId[c] # 0 /\ callId'[c] = callId[c]
  BY <1>2, <1>i DEF IInv, IdsOwned
<1>3. ASSUME NEW frame, Among(frame, stdin'), frame.kind = "request"
      PROVE  frame.call \in Calls /\ frame.id # 0 /\ callId'[frame.call] = frame.id
  <2>1. CASE UNCHANGED stdin
    BY <1>1, <1>3, <2>1
  <2>2. CASE stdin' = <<>>
    BY <1>3, <2>2, NothingAmong
  <2>3. CASE stdin' = Append(stdin, Other("other"))
    <3>1. frame = Other("other") \/ Among(frame, stdin)
      BY <1>3, <1>t, <2>3, AppendedAmong
    <3> QED BY <1>1, <1>3, <3>1 DEF Other
  <2>4. CASE stdin # <<>> /\ stdin' = Tail(stdin)
    <3>1. Among(frame, stdin)
      BY <1>3, <1>t, <2>4, TailAmong
    <3> QED BY <1>1, <1>3, <3>1
  <2>5. ASSUME NEW c \in Calls, callPc[c] = "write",
               stdin' = Append(stdin, [kind |-> "request", id |-> callId[c], call |-> c])
        PROVE  frame.call \in Calls /\ frame.id # 0 /\ callId'[frame.call] = frame.id
    <3>1. frame = [kind |-> "request", id |-> callId[c], call |-> c] \/ Among(frame, stdin)
      BY <1>3, <1>t, <2>5, AppendedAmong
    <3> QED BY <1>1, <1>2, <1>3, <2>5, <3>1
  <2> QED BY <1>t, <2>1, <2>2, <2>3, <2>4, <2>5, StdinSteps
<1>4. ASSUME NEW r \in asked' PROVE r[1] # 0 /\ callId'[r[2]] = r[1]
  <2>1. CASE r \in asked
    BY <1>i, <1>t, <2>1 DEF IInv, RequestsOwned
  <2>2. ASSUME stdin # <<>>, Head(stdin).kind = "request",
               r = <<Head(stdin).id, Head(stdin).call>>
        PROVE  r[1] # 0 /\ callId'[r[2]] = r[1]
    <3>1. Among(Head(stdin), stdin)
      BY <1>t, <2>2, TailAmong
    <3> QED BY <1>1, <2>2, <3>1
  <2> QED BY <2>1, <2>2, AskedSteps
<1> QED BY <1>3, <1>4 DEF RequestsOwned

LEMMA RepliesAskedPreserved == IInv /\ [Next]_vars => RepliesAsked'
<1> SUFFICES ASSUME IInv, [Next]_vars, NEW frame, Among(frame, stdout'), frame.kind = "reply"
             PROVE  <<frame.id, frame.call>> \in asked'
  BY DEF RepliesAsked
<1>t. TypeOK /\ stdout \in Seq(Frames) /\ asked \subseteq Nat \X Calls
  BY DEF IInv, TypeOK
<1>1. Among(frame, stdout) => <<frame.id, frame.call>> \in asked'
  BY ReceivedStays DEF IInv, RepliesAsked
<1>2. CASE UNCHANGED stdout
  BY <1>1, <1>2
<1>3. CASE stdout' = <<>>
  BY <1>3, NothingAmong
<1>4. CASE stdout # <<>> /\ stdout' = Tail(stdout)
  BY <1>1, <1>t, <1>4, TailAmong
<1>5. ASSUME NEW kind \in {"request", "other", "broken"}, stdout' = Append(stdout, Other(kind))
      PROVE  <<frame.id, frame.call>> \in asked'
  <2>1. frame = Other(kind) \/ Among(frame, stdout)
    BY <1>t, <1>5, AppendedAmong
  <2> QED BY <1>1, <2>1 DEF Other
<1>6. ASSUME NEW r \in asked,
             stdout' = Append(stdout, [kind |-> "reply", id |-> r[1], call |-> r[2]])
      PROVE  <<frame.id, frame.call>> \in asked'
  <2>1. frame = [kind |-> "reply", id |-> r[1], call |-> r[2]] \/ Among(frame, stdout)
    BY <1>t, <1>6, AppendedAmong
  <2>2. r = <<r[1], r[2]>> /\ r \in asked'
    BY <1>t, ReceivedStays
  <2> QED BY <1>1, <2>1, <2>2
<1> QED BY <1>t, <1>2, <1>3, <1>4, <1>5, <1>6, StdoutSteps

\* A reply that finds a slot is for the call that the slot is of.
LEMMA ReplyFindsItsCall ==
  ASSUME IInv, ReadReply, Head(stdout).id \in DOMAIN pending
  PROVE  LET c == pending[Head(stdout).id]
         IN  /\ c \in Calls /\ carried' = <<c, c>> /\ reader' = "deliver"
             /\ callId[c] = Head(stdout).id /\ callId[c] # 0
             /\ Received(c)
<1> DEFINE frame == Head(stdout)
           c == pending[frame.id]
<1>1. frame.kind = "reply" /\ Among(frame, stdout)
  BY TailAmong DEF ReadReply, IInv, TypeOK
<1>2. <<frame.id, frame.call>> \in asked
  BY <1>1 DEF IInv, RepliesAsked
<1>3. frame.call \in Calls /\ callId[frame.call] = frame.id /\ frame.id # 0
  BY <1>2 DEF IInv, TypeOK, RequestsOwned
<1>4. c \in Calls /\ callId[c] = frame.id
  BY DEF IInv, TypeOK, PendingOwned
<1>5. c = frame.call
  BY <1>3, <1>4 DEF IInv, IdsOwned
<1>6. carried' = <<c, frame.call>> /\ reader' = "deliver"
  BY DEF ReadReply
<1> QED BY <1>2, <1>3, <1>4, <1>5, <1>6 DEF Received

LEMMA CarriesOwnPreserved == IInv /\ [Next]_vars => CarriesOwn'
<1> SUFFICES ASSUME IInv, [Next]_vars PROVE CarriesOwn'
  OBVIOUS
<1>t. CarriesOwn /\ \A c \in Calls : Received(c) => Received(c)'
  BY ReceivedStays DEF IInv
<1>1. ASSUME ReadReply, Head(stdout).id \in DOMAIN pending PROVE CarriesOwn'
  BY <1>1, <1>t, ReplyFindsItsCall DEF CarriesOwn, Received
<1>2. ASSUME ReadReply, Head(stdout).id \notin DOMAIN pending PROVE CarriesOwn'
  BY <1>2, <1>t DEF ReadReply, CarriesOwn, Received
<1>3. CASE Deliver \/ ReadOther \/ AnswerRequest \/ ReadEnd \/ FailError \/ FailSwap \/ FailClose
           \/ FailSend \/ Reap \/ CloseExited
  BY <1>3, <1>t DEF CarriesOwn, Received, Deliver, ReadOther, AnswerRequest, ReadEnd, FailError,
       FailSwap, FailClose, FailSend, Reap, CloseExited
<1>4. CASE UNCHANGED readerVars
  BY <1>4, <1>t DEF CarriesOwn, Received, readerVars
<1> QED BY <1>1, <1>2, <1>3, <1>4, WhoseStep, CallFrame, StopFrame, DaemonFrame DEF ReaderStep, vars

-----------------------------------------------------------------------------
(* Answers.                                                                *)

\* A channel holds at most one message.
LEMMA OneMessage ==
  ASSUME NEW x
  PROVE  /\ <<x>> # <<>> /\ Head(<<x>>) = x /\ Tail(<<x>>) = <<>> /\ Append(<<>>, x) = <<x>>
         /\ \A y : <<x>> = <<y>> => x = y
  OBVIOUS

\* The steps that touch a channel, and what they leave in it.
LEMMA ChannelSteps ==
  ASSUME IInv, [Next]_vars
  PROVE  \/ UNCHANGED ch /\ ~Deliver /\ ~FailSend
         \/ \E c \in Calls : SelectReply(c) /\ ch[c] # <<>> /\ ch' = [ch EXCEPT ![c] = <<>>]
         \/ Deliver /\ carried[1] \in Calls /\ ch' = [ch EXCEPT ![carried[1]] = <<carried[1]>>]
         \/ /\ FailSend
            /\ \E c \in aborting : /\ ch' = [ch EXCEPT ![c] = <<NoCall>>]
                                   /\ aborting' = aborting \ {c}
<1>1. ASSUME NEW c \in Calls, SelectReply(c)
      PROVE  ch[c] # <<>> /\ ch' = [ch EXCEPT ![c] = <<>>]
  <2>1. ch[c] # <<>> /\ ch' = [ch EXCEPT ![c] = Tail(ch[c])]
    BY <1>1 DEF SelectReply, IInv, TypeOK
  <2>2. ch[c] \in {<<c>>, <<NoCall>>}
    BY <2>1 DEF IInv, OneAnswer
  <2> QED BY <2>1, <2>2, OneMessage
<1>2. ASSUME Deliver
      PROVE  carried[1] \in Calls /\ ch' = [ch EXCEPT ![carried[1]] = <<carried[1]>>]
  <2>1. carried[1] \in Calls /\ carried[2] = carried[1] /\ ch[carried[1]] = <<>>
    BY <1>2 DEF Deliver, IInv, CarriesOwn
  <2>2. ch' = [ch EXCEPT ![carried[1]] = Append(ch[carried[1]], carried[2])]
    BY <1>2, <2>1 DEF Deliver, IInv, TypeOK
  <2> QED BY <2>1, <2>2, OneMessage
<1>3. ASSUME FailSend
      PROVE  \E c \in aborting : ch' = [ch EXCEPT ![c] = <<NoCall>>] /\ aborting' = aborting \ {c}
  <2>1. PICK c \in aborting : /\ ch[c] = <<>>
                              /\ ch' = [ch EXCEPT ![c] = Append(ch[c], NoCall)]
                              /\ aborting' = aborting \ {c}
    BY <1>3 DEF FailSend, IInv, TypeOK
  <2> QED BY <2>1, OneMessage
<1>4. \/ \E c \in Calls : SelectReply(c)
      \/ Deliver \/ FailSend \/ UNCHANGED ch
  BY WhoseStep, StopFrame, DaemonFrame
     DEF CallStart, CallStep, TrackCall, WriteRequest, SelectContext, SelectDone, ForgetCall,
         CancelRequest, WriteCancel, ReaderStep, ReadReply, ReadOther, AnswerRequest, ReadEnd,
         FailError, FailSwap, FailClose, Reap, CloseExited, callVars, vars
<1> QED BY <1>1, <1>2, <1>3, <1>4

\* A call that has a slot is given none of its answer yet; without a new
\* registration no slot appears.
LEMMA SlotSteps ==
  ASSUME IInv, [Next]_vars
  PROVE  \A d \in Calls : HasSlot(d)' => HasSlot(d) \/ TrackCall(d)
<1> SUFFICES ASSUME NEW d \in Calls, NEW i \in DOMAIN pending', pending'[i] = d
             PROVE  HasSlot(d) \/ TrackCall(d)
  BY DEF HasSlot
<1>1. ASSUME NEW c \in Calls, TrackCall(c) PROVE HasSlot(d) \/ TrackCall(d)
  BY <1>1 DEF HasSlot, TrackCall
<1>2. TypeOK
  BY DEF IInv
<1> QED BY <1>1, <1>2, PendingSteps DEF HasSlot

LEMMA OneAnswerPreserved == IInv /\ [Next]_vars => OneAnswer'
<1> SUFFICES ASSUME IInv, [Next]_vars PROVE OneAnswer'
  OBVIOUS
<1>t. /\ ch \in [Calls -> Seq(Calls \cup {NoCall})]
      /\ callId \in [Calls -> Nat]
      /\ aborting \subseteq Calls
      /\ pending \in [DOMAIN pending -> Calls]
  BY DEF IInv, TypeOK
<1>o. OneAnswer /\ CarriesOwn
  BY DEF IInv
<1>i. \A c \in Calls : callId[c] # 0 => callId'[c] = callId[c] /\ ~TrackCall(c)
  BY ReceivedStays DEF TrackCall, IInv, IdsOwned
<1>s. \A c \in Calls : callId[c] # 0 /\ ~HasSlot(c) => callId'[c] # 0 /\ ~HasSlot(c)'
  BY <1>i, SlotSteps
<1>a. \A c \in Calls : HasSlot(c) => c # carried[1] /\ c \notin aborting /\ ch[c] = <<>>
  BY <1>o DEF OneAnswer
<1>n. <<NoCall, NoCall>>[1] \notin Calls
  BY ClientAssumption
<1>1. ASSUME UNCHANGED <<ch, carried, aborting>>, aborting = {} \/ UNCHANGED reader
      PROVE  OneAnswer'
  BY <1>1, <1>o, <1>s DEF OneAnswer
<1>2. ASSUME NEW c \in Calls, SelectReply(c), ch[c] # <<>>, ch' = [ch EXCEPT ![c] = <<>>]
      PROVE  OneAnswer'
  <2>1. UNCHANGED <<carried, aborting, reader>>
    BY <1>2 DEF SelectReply, readerVars
  <2> QED BY <1>2, <1>o, <1>s, <1>t, <2>1 DEF OneAnswer
<1>3. ASSUME ReadReply PROVE OneAnswer'
  <2>0. UNCHANGED <<ch, aborting, callId>> /\ aborting = {} /\ aborting' = {}
    BY <1>3, <1>o DEF ReadReply, OneAnswer
  <2>1. CASE Head(stdout).id \notin DOMAIN pending
    BY <1>1, <1>3, <2>0, <2>1 DEF ReadReply
  <2>2. CASE Head(stdout).id \in DOMAIN pending
    <3>0. PICK c \in Calls : c = pending[Head(stdout).id]
      BY <1>t, <2>2
    <3>1. carried' = <<c, c>> /\ callId[c] = Head(stdout).id /\ callId[c] # 0
      BY <1>3, <2>2, <3>0, ReplyFindsItsCall
    <3>2. HasSlot(c)
      BY <2>2, <3>0 DEF HasSlot
    <3>3. pending' = Without(callId[c])
      BY <1>3, <3>1 DEF ReadReply
    <3>4. ~HasSlot(c)'
      BY <3>3 DEF HasSlot, Without, IInv, PendingOwned
    <3> QED BY <1>a, <1>o, <1>s, <2>0, <3>1, <3>2, <3>4 DEF OneAnswer
  <2> QED BY <2>1, <2>2
<1>4. ASSUME Deliver, carried[1] \in Calls,
             ch' = [ch EXCEPT ![carried[1]] = <<carried[1]>>]
      PROVE  OneAnswer'
  <2>1. UNCHANGED <<aborting, callId, pending>> /\ carried' = <<NoCall, NoCall>> /\ aborting = {}
    BY <1>4, <1>o DEF Deliver, OneAnswer
  <2>2. carried'[1] \notin Calls
    BY <1>n, <2>1
  <2> QED BY <1>4, <1>o, <1>s, <1>t, <2>1, <2>2 DEF OneAnswer
<1>5. ASSUME FailSwap PROVE OneAnswer'
  <2>1. /\ UNCHANGED <<ch, callId, carried>> /\ reader' = "close"
        /\ aborting' = {pending[i] : i \in DOMAIN pending} /\ pending' = <<>>
    BY <1>5 DEF FailSwap
  <2>2. \A c \in aborting' : HasSlot(c) /\ c \in Calls
    BY <1>t, <2>1 DEF HasSlot
  <2>3. \A c \in Calls : HasSlot(c) => callId[c] # 0
    BY DEF HasSlot, IInv, PendingOwned, TypeOK
  <2>4. \A c \in Calls : ~HasSlot(c)'
    BY <2>1 DEF HasSlot
  <2>5. carried[1] \notin Calls
    BY <1>5, <1>o, <1>n DEF FailSwap, CarriesOwn
  <2> QED BY <1>a, <1>o, <2>1, <2>2, <2>3, <2>4, <2>5 DEF OneAnswer
<1>6. ASSUME FailSend, NEW c \in aborting,
             ch' = [ch EXCEPT ![c] = <<NoCall>>], aborting' = aborting \ {c}
      PROVE  OneAnswer'
  <2>1. UNCHANGED <<callId, carried, reader, pending>> /\ reader = "abort"
    BY <1>6 DEF FailSend
  <2>2. carried[1] \notin Calls
    BY <1>o, <1>n, <2>1 DEF CarriesOwn
  <2> QED BY <1>6, <1>o, <1>s, <1>t, <2>1, <2>2 DEF OneAnswer
<1>7. ASSUME FailClose PROVE OneAnswer'
  BY <1>7, <1>o, <1>s DEF FailClose, callVars, OneAnswer
<1>8. ASSUME ReaderStep, ~ReadReply, ~Deliver, ~FailSwap, ~FailSend, ~FailClose, UNCHANGED ch
      PROVE  OneAnswer'
  <2>1. UNCHANGED <<carried, aborting>> /\ (aborting = {} \/ UNCHANGED reader)
    BY <1>8, <1>o DEF ReaderStep, ReadOther, AnswerRequest, ReadEnd, FailError, Reap, CloseExited,
         OneAnswer
  <2> QED BY <1>1, <1>8, <2>1
<1>9. ASSUME UNCHANGED readerVars, UNCHANGED ch PROVE OneAnswer'
  BY <1>1, <1>9 DEF readerVars
<1>10. ReaderStep \/ UNCHANGED readerVars
  BY WhoseStep, CallFrame, StopFrame, DaemonFrame DEF vars
<1> QED BY <1>2, <1>3, <1>4, <1>5, <1>6, <1>7, <1>8, <1>9, <1>10, ChannelSteps

\* A session that is down stays down.
LEMMA DoneStays == ASSUME [Next]_vars PROVE done => done'
  BY WhoseStep, CallFrame, StopFrame, DaemonFrame
     DEF ReaderStep, ReadReply, Deliver, ReadOther, AnswerRequest, ReadEnd, FailError,
         FailSwap, FailClose, FailSend, Reap, CloseExited, readerVars, vars

LEMMA AnswersTruePreserved == IInv /\ [Next]_vars => AnswersTrue'
<1> SUFFICES ASSUME IInv, [Next]_vars, NEW d \in Calls
             PROVE  (ch'[d] = <<d>> => Received(d)') /\ (ch'[d] = <<NoCall>> => done')
  BY DEF AnswersTrue, Received
<1>t. ch \in [Calls -> Seq(Calls \cup {NoCall})] /\ aborting \subseteq Calls
  BY DEF IInv, TypeOK
<1>k. d # NoCall
  BY ClientAssumption
<1>1. CASE ch'[d] = ch[d]
  BY <1>1, ReceivedStays, DoneStays DEF IInv, AnswersTrue
<1>2. CASE ch'[d] = <<>>
  BY <1>2, OneMessage
<1>3. ASSUME Deliver, ch'[d] = <<carried[1]>>, d = carried[1]
      PROVE  (ch'[d] = <<d>> => Received(d)') /\ (ch'[d] = <<NoCall>> => done')
  <2>1. Received(d)
    BY <1>3 DEF Deliver, IInv, CarriesOwn
  <2> QED BY <1>3, <1>k, <2>1, OneMessage, ReceivedStays
<1>4. ASSUME FailSend, ch'[d] = <<NoCall>>
      PROVE  (ch'[d] = <<d>> => Received(d)') /\ (ch'[d] = <<NoCall>> => done')
  <2>1. done
    BY <1>4 DEF FailSend, IInv, EndsInOrder
  <2> QED BY <1>4, <1>k, <2>1, OneMessage, DoneStays
<1> QED BY <1>t, <1>1, <1>2, <1>3, <1>4, ChannelSteps

-----------------------------------------------------------------------------
(* What calls report, and how the session ends.                            *)

LEMMA ResultsTruePreserved == IInv /\ [Next]_vars => ResultsTrue'
<1> SUFFICES ASSUME IInv, [Next]_vars, NEW d \in Calls
             PROVE  /\ callPc'[d] = "forget" => result'[d] \in {"unsent", "ctx"} \cup SessionEnds
                    /\ callPc'[d] \in {"cancel", "cancelWrite"} => result'[d] = "ctx"
                    /\ callPc'[d] = "returned" => result'[d] # "none"
                    /\ result'[d] \in SessionEnds => done'
                    /\ result'[d] = "reply" => callPc'[d] = "returned" /\ got'[d] = d /\ Received(d)'
  BY DEF ResultsTrue, Received
<1>t. /\ ch \in [Calls -> Seq(Calls \cup {NoCall})]
      /\ callPc \in [Calls -> CallStates]
      /\ result \in [Calls -> Results]
      /\ got \in [Calls -> Calls \cup {NoCall}]
      /\ exitErr \in {"none", "transport"}
  BY DEF IInv, TypeOK
<1>r. /\ callPc[d] = "forget" => result[d] \in {"unsent", "ctx"} \cup SessionEnds
      /\ callPc[d] \in {"cancel", "cancelWrite"} => result[d] = "ctx"
      /\ callPc[d] = "returned" => result[d] # "none"
      /\ result[d] \in SessionEnds => done
      /\ result[d] = "reply" => callPc[d] = "returned" /\ got[d] = d /\ Received(d)
  BY DEF IInv, ResultsTrue
<1>d. (done => done') /\ (Received(d) => Received(d)')
  BY DoneStays, ReceivedStays
<1>e. ExitReason \in SessionEnds
  BY <1>t DEF ExitReason, SessionEnds
<1>1. CASE callPc'[d] = callPc[d] /\ result'[d] = result[d] /\ got'[d] = got[d]
  BY <1>1, <1>r, <1>d
<1>2. CASE SelectReply(d)
  <2>1. /\ callPc'[d] = "returned" /\ got'[d] = Head(ch[d])
        /\ result'[d] = IF Head(ch[d]) = NoCall THEN "aborted" ELSE "reply"
    BY <1>2, <1>t DEF SelectReply
  <2>2. ch[d] \in {<<d>>, <<NoCall>>}
    BY <1>2 DEF SelectReply, IInv, OneAnswer
  <2>3. CASE ch[d] = <<d>>
    <3>1. Received(d)
      BY <2>3 DEF IInv, AnswersTrue
    <3> QED BY <1>d, <2>1, <2>3, <3>1, OneMessage, ClientAssumption DEF SessionEnds
  <2>4. CASE ch[d] = <<NoCall>>
    <3>1. done
      BY <2>4 DEF IInv, AnswersTrue
    <3> QED BY <1>d, <2>1, <2>4, <3>1, OneMessage DEF SessionEnds
  <2> QED BY <2>2, <2>3, <2>4
<1>3. CASE CallStart(d)
  BY <1>3, <1>t, <1>r, <1>d, <1>e DEF CallStart, Alive, SessionEnds
<1>4. CASE TrackCall(d) \/ WriteRequest(d) \/ SelectContext(d)
  BY <1>4, <1>t, <1>r, <1>d DEF TrackCall, WriteRequest, SelectContext, GiveUp, SessionEnds
<1>5. CASE SelectDone(d)
  BY <1>5, <1>t, <1>r, <1>d, <1>e DEF SelectDone, SessionEnded, GiveUp, SessionEnds
<1>6. CASE ForgetCall(d) \/ CancelRequest(d) \/ WriteCancel(d)
  BY <1>6, <1>t, <1>r, <1>d DEF ForgetCall, CancelRequest, WriteCancel, SessionEnds
<1>7. ASSUME NEW c \in Calls, c # d, CallStart(c) \/ CallStep(c)
      PROVE  callPc'[d] = callPc[d] /\ result'[d] = result[d] /\ got'[d] = got[d]
  BY <1>7, <1>t DEF CallStart, CallStep, TrackCall, WriteRequest, SelectContext, SelectDone,
       SelectReply, ForgetCall, CancelRequest, WriteCancel, GiveUp
<1>8. UNCHANGED <<callPc, result, got>> \/ \E c \in Calls : CallStart(c) \/ CallStep(c)
  BY WhoseStep, ReaderFrame, StopFrame, DaemonFrame DEF callVars, vars
<1> QED BY <1>1, <1>2, <1>3, <1>4, <1>5, <1>6, <1>7, <1>8 DEF CallStep

LEMMA OwnReplyPreserved == IInv /\ [Next]_vars => OwnReply'
<1> SUFFICES ASSUME IInv, [Next]_vars, NEW d \in Calls PROVE got'[d] \in {d, NoCall}
  BY DEF OwnReply
<1>1. got \in [Calls -> Calls \cup {NoCall}] /\ got[d] \in {d, NoCall}
  BY DEF IInv, TypeOK, OwnReply
<1>2. CASE SelectReply(d)
  <2>1. ch[d] \in {<<d>>, <<NoCall>>}
    BY <1>2 DEF SelectReply, IInv, OneAnswer
  <2> QED BY <1>1, <1>2, <2>1, OneMessage DEF SelectReply
<1>3. ASSUME NEW c \in Calls, c # d \/ ~SelectReply(d), CallStart(c) \/ CallStep(c)
      PROVE  got'[d] = got[d]
  BY <1>1, <1>3 DEF CallStart, CallStep, TrackCall, WriteRequest, SelectContext, SelectDone,
       SelectReply, ForgetCall, CancelRequest, WriteCancel
<1>4. UNCHANGED got \/ \E c \in Calls : CallStart(c) \/ CallStep(c)
  BY WhoseStep, ReaderFrame, StopFrame, DaemonFrame DEF callVars, vars
<1> QED BY <1>1, <1>2, <1>3, <1>4

LEMMA EndsInOrderPreserved == IInv /\ [Next]_vars => EndsInOrder'
<1> SUFFICES ASSUME IInv, [Next]_vars PROVE EndsInOrder'
  OBVIOUS
<1>t. stopPc \in [Stoppers -> {"idle", "waiting", "returned"}] /\ EndsInOrder
  BY DEF IInv, TypeOK
<1>1. CASE ReaderStep
  <2>1. UNCHANGED stopVars
    BY <1>1, ReaderFrame
  <2> QED BY <1>1, <1>t, <2>1
          DEF EndsInOrder, stopVars, ReaderStep, ReadReply, Deliver, ReadOther, AnswerRequest,
              ReadEnd, FailError, FailSwap, FailClose, FailSend, Reap, CloseExited, daemonVars
<1>2. CASE StopStep
  <2>1. UNCHANGED readerVars
    BY <1>2, StopFrame
  <2>2. proc = "reaped" => proc' = "reaped"
    BY <1>2 DEF StopStep, Shutdown, ShutdownReturns, ShutStep, ShutHandshake, ShutAnswered,
         ShutExitNotify, ShutExitWrite, ShutClose, ShutGraceful, ShutKill, ShutReaped, ShutMoves,
         Kill, daemonVars
  <2>3. shut' = "finished" => shut = "finished" \/ exited \/ proc = "reaped"
    BY <1>2 DEF StopStep, Shutdown, ShutdownReturns, ShutStep, ShutHandshake, ShutAnswered,
         ShutExitNotify, ShutExitWrite, ShutClose, ShutGraceful, ShutKill, ShutReaped, ShutMoves
  <2>4. /\ shut = "finished" => shut' = "finished"
        /\ \A s \in Stoppers : stopPc'[s] = "returned" => stopPc[s] = "returned" \/ shut = "finished"
    BY <1>2, <1>t DEF StopStep, Shutdown, ShutdownReturns, OnceFinished, ShutStep, ShutHandshake,
         ShutAnswered, ShutExitNotify, ShutExitWrite, ShutClose, ShutGraceful, ShutKill, ShutReaped,
         ShutMoves
  <2> QED BY <1>t, <2>1, <2>2, <2>3, <2>4 DEF EndsInOrder, readerVars
<1>3. CASE DaemonStep
  <2>1. UNCHANGED <<readerVars, stopVars>> /\ (proc = "reaped" => proc' = "reaped")
    BY <1>3, DaemonFrame
       DEF DaemonStep, DaemonRead, DaemonReply, DaemonSend, DaemonExit, daemonVars
  <2> QED BY <1>t, <2>1 DEF EndsInOrder, readerVars, stopVars
<1>4. CASE UNCHANGED <<readerVars, stopVars, daemonVars>>
  BY <1>4, <1>t DEF EndsInOrder, readerVars, stopVars, daemonVars
<1>5. UNCHANGED vars => UNCHANGED <<readerVars, stopVars, daemonVars>>
  BY DEF vars
<1> QED BY <1>1, <1>2, <1>3, <1>4, <1>5, WhoseStep, CallFrame

-----------------------------------------------------------------------------
(* The safety properties of a session.                                     *)

LEMMA InitEstablishes == Init => IInv
<1> SUFFICES ASSUME Init PROVE IInv
  OBVIOUS
<1>1. TypeOK
  <2>1. <<>> \in Seq(Frames) /\ <<>> \in Seq(Calls \cup {NoCall})
    OBVIOUS
  <2>2. CallTypes
    BY <2>1 DEF Init, CallTypes, CallStates, Results
  <2>3. ReaderTypes /\ StopTypes /\ PipeTypes /\ DaemonTypes
    BY <2>1 DEF Init, ReaderTypes, StopTypes, PipeTypes, DaemonTypes, ReaderStates, ShutStates
  <2> QED BY <2>2, <2>3, TypeGroups
<1>2. IdsOwned /\ PendingOwned /\ RequestsOwned /\ RepliesAsked
  BY NothingAmong DEF Init, IdsOwned, PendingOwned, RequestsOwned, RepliesAsked
<1>3. CarriesOwn /\ OneAnswer
  <2>1. <<NoCall, NoCall>>[1] \notin Calls
    BY ClientAssumption
  <2> QED BY <2>1 DEF Init, CarriesOwn, OneAnswer
<1>4. AnswersTrue /\ ResultsTrue /\ OwnReply /\ EndsInOrder
  BY OneMessage DEF Init, AnswersTrue, ResultsTrue, SessionEnds, OwnReply, EndsInOrder
<1> QED BY <1>1, <1>2, <1>3, <1>4 DEF IInv

(***************************************************************************)
(* The invariant of a session: ids, slots, requests, replies and answers   *)
(* belong to one call each, and the session ends in order.                 *)
(***************************************************************************)
THEOREM Invariance == Spec => []IInv
<1>1. IInv /\ [Next]_vars => IInv'
  BY TypePreserved, IdsOwnedPreserved, PendingOwnedPreserved, RequestsOwnedPreserved,
     RepliesAskedPreserved, CarriesOwnPreserved, OneAnswerPreserved, AnswersTruePreserved,
     ResultsTruePreserved, OwnReplyPreserved, EndsInOrderPreserved
     DEF IInv
<1> QED BY <1>1, InitEstablishes, PTL DEF Spec

(***************************************************************************)
(* The variables keep their types: what dispatch carries and what the      *)
(* daemon has read are about calls of this session (client.go).            *)
(***************************************************************************)
THEOREM TypeCorrect == Spec => []TypeOK
<1>1. IInv => TypeOK
  BY DEF IInv
<1> QED BY <1>1, Invariance, PTL

(***************************************************************************)
(* The read loop never blocks on a reply channel: neither dispatch nor     *)
(* fail finds the buffer of a call full (client.go, dispatch and fail).    *)
(***************************************************************************)
THEOREM NeverBlocks == Spec => []SendNeverBlocks
<1>1. IInv => SendNeverBlocks
  BY DEF IInv, TypeOK, CarriesOwn, OneAnswer, SendNeverBlocks
<1> QED BY <1>1, Invariance, PTL

(***************************************************************************)
(* A call decodes the answer to its own request, or fail's error, and no   *)
(* answer of another call (client.go, Call and dispatch).                  *)
(***************************************************************************)
THEOREM OwnReplies == Spec => []OwnReply
<1>1. IInv => OwnReply
  BY DEF IInv
<1> QED BY <1>1, Invariance, PTL

(***************************************************************************)
(* A call that has returned has no slot in the pending map (client.go,     *)
(* forgetCall, dispatch and fail).                                         *)
(***************************************************************************)
THEOREM Releases == Spec => []SlotsReleased
<1>1. IInv => SlotsReleased
  BY DEF IInv, PendingOwned, SlotsReleased
<1> QED BY <1>1, Invariance, PTL

(***************************************************************************)
(* Whoever returns from Shutdown finds the child reaped (client.go,        *)
(* Shutdown and shutdown).                                                 *)
(***************************************************************************)
THEOREM Reaped == Spec => []ShutdownReaps
<1>1. IInv => ShutdownReaps
  BY DEF IInv, EndsInOrder, ShutdownReaps
<1> QED BY <1>1, Invariance, PTL

-----------------------------------------------------------------------------
(* LspClient implements RpcSession.                                        *)

\* Registering a call makes nothing received, and a request that the daemon reads
\* is the request of one call.
LEMMA ReceivedSteps ==
  ASSUME IInv, [Next]_vars
  PROVE  \/ UNCHANGED asked /\ \A c \in Calls : Received(c)' <=> Received(c)
         \/ \E d \in Calls : \A c \in Calls : Received(c)' <=> Received(c) \/ c = d
<1>1. ASSUME NEW c \in Calls, UNCHANGED asked, Received(c)' PROVE Received(c)
  <2>1. callId[c] = callId'[c] /\ callId'[c] # 0
    BY <1>1 DEF Received, IInv, RequestsOwned
  <2> QED BY <1>1, <2>1 DEF Received
<1>2. ASSUME stdin # <<>>, Head(stdin).kind = "request",
             asked' = asked \cup {<<Head(stdin).id, Head(stdin).call>>}
      PROVE  \E d \in Calls : \A c \in Calls : Received(c)' <=> Received(c) \/ c = d
  <2>1. PICK d \in Calls, id \in Nat : /\ asked' = asked \cup {<<id, d>>}
                                       /\ id # 0 /\ callId[d] = id
    <3>1. Among(Head(stdin), stdin) /\ Head(stdin) \in Frames
      BY <1>2, TailAmong DEF IInv, TypeOK
    <3>2. Head(stdin).call \in Calls /\ Head(stdin).id # 0
          /\ callId[Head(stdin).call] = Head(stdin).id /\ Head(stdin).id \in Nat
      BY <1>2, <3>1 DEF IInv, RequestsOwned, Frames
    <3> QED BY <1>2, <3>2
  <2>2. callId'[d] = id
    BY <2>1, ReceivedStays
  <2>3. ASSUME NEW c \in Calls, Received(c)', c # d PROVE Received(c)
    <3>1. <<callId'[c], c>> \in asked
      BY <2>1, <2>3 DEF Received
    <3>2. callId[c] = callId'[c]
      BY <3>1 DEF IInv, RequestsOwned
    <3> QED BY <3>1, <3>2 DEF Received
  <2>4. Received(d)'
    BY <2>1, <2>2 DEF Received
  <2> QED BY <2>3, <2>4, ReceivedStays
<1> QED BY <1>1, <1>2, AskedSteps, ReceivedStays

\* Only the call that takes a step ends, and it ends as its result says.
LEMMA OutcomeSteps ==
  ASSUME IInv, IInv', NEW c \in Calls, CallStart(c) \/ CallStep(c)
  PROVE  /\ \A d \in Calls \ {c} : OutcomeOf(d)' = OutcomeOf(d)
         /\ OutcomeOf(c) = "none"
         /\ OutcomeOf(c)' \in {"none", "reply", "sessionEnded", "gaveUp"}
         /\ OutcomeOf(c)' = "reply" => Received(c)'
         /\ OutcomeOf(c)' = "sessionEnded" => done'
<1>t. /\ callPc \in [Calls -> CallStates]
      /\ result \in [Calls -> Results]
      /\ got \in [Calls -> Calls \cup {NoCall}]
      /\ result'[c] \in Results
  BY DEF IInv, TypeOK
<1>1. ASSUME NEW d \in Calls \ {c}
      PROVE  callPc'[d] = callPc[d] /\ result'[d] = result[d] /\ got'[d] = got[d]
  BY <1>1, <1>t DEF CallStart, CallStep, TrackCall, WriteRequest, SelectContext, SelectDone,
       SelectReply, ForgetCall, CancelRequest, WriteCancel, GiveUp
<1>2. callPc[c] # "returned"
  BY DEF CallStart, CallStep, TrackCall, WriteRequest, SelectContext, SelectDone, SelectReply,
         ForgetCall, CancelRequest, WriteCancel
<1>3. /\ callPc'[c] = "returned" => result'[c] # "none"
      /\ result'[c] \in SessionEnds => done'
      /\ result'[c] = "reply" => got'[c] = c /\ Received(c)'
  BY DEF IInv, ResultsTrue, Received
<1>4. \A d \in Calls \ {c} : OutcomeOf(d)' = OutcomeOf(d)
  BY <1>1 DEF OutcomeOf
<1>5. OutcomeOf(c) = "none"
  BY <1>2 DEF OutcomeOf
<1>6. /\ OutcomeOf(c)' \in {"none", "reply", "sessionEnded", "gaveUp"}
      /\ OutcomeOf(c)' = "reply" => Received(c)'
      /\ OutcomeOf(c)' = "sessionEnded" => done'
  BY <1>t, <1>3 DEF OutcomeOf, Results, SessionEnds
<1> QED BY <1>4, <1>5, <1>6

LEMMA StepImplements ==
  ASSUME IInv, IInv', [Next]_vars
  PROVE  [Rpc!Next]_(Rpc!rpcVars)
<1> DEFINE outcome == [c \in Calls |-> OutcomeOf(c)]
           received == {c \in Calls : <<callId[c], c>> \in asked}
<1>r. received = {c \in Calls : Received(c)} /\ received' = {c \in Calls : Received(c)'}
  BY DEF Received
<1>1. ASSUME NEW c \in Calls, CallStart(c) \/ CallStep(c) PROVE [Rpc!Next]_(Rpc!rpcVars)
  <2>1. UNCHANGED <<done, asked>>
    BY <1>1, CallFrame DEF readerVars, daemonVars
  <2>2. \A d \in Calls : Received(d)' <=> Received(d)
    BY <2>1, ReceivedStays DEF Received, IInv, RequestsOwned
  <2>3. received' = received
    BY <1>r, <2>2
  <2>4. outcome' = [outcome EXCEPT ![c] = OutcomeOf(c)']
    BY <1>1, OutcomeSteps
  <2>5. CASE OutcomeOf(c)' = "none"
    <3>1. outcome' = outcome
      BY <1>1, <2>5, OutcomeSteps
    <3> QED BY <2>1, <2>3, <3>1 DEF Rpc!rpcVars
  <2>6. CASE OutcomeOf(c)' # "none"
    <3>1. OutcomeOf(c)' \in Rpc!Outcomes \ {"none"}
      BY <1>1, <2>6, OutcomeSteps DEF Rpc!Outcomes
    <3>2. /\ outcome[c] = "none"
          /\ OutcomeOf(c)' = "reply" => c \in received
          /\ OutcomeOf(c)' = "sessionEnded" => ~ ~done
      BY <1>1, <1>r, <2>1, <2>2, OutcomeSteps
    <3>3. Rpc!End(c, OutcomeOf(c)')
      BY <2>1, <2>3, <2>4, <3>2 DEF Rpc!End
    <3> QED BY <3>1, <3>3 DEF Rpc!Next
  <2> QED BY <2>5, <2>6
<1>2. ASSUME UNCHANGED callVars PROVE outcome' = outcome
  BY <1>2 DEF callVars, OutcomeOf
<1>3. ASSUME ReaderStep PROVE [Rpc!Next]_(Rpc!rpcVars)
  <2>1. outcome' = outcome /\ received' = received
    BY <1>3, ReaderFrame DEF OutcomeOf
  <2>2. UNCHANGED done \/ (done' = TRUE)
    BY <1>3 DEF ReaderStep, ReadReply, Deliver, ReadOther, AnswerRequest, ReadEnd, FailError,
         FailSwap, FailClose, FailSend, Reap, CloseExited
  <2> QED BY <2>1, <2>2 DEF Rpc!rpcVars, Rpc!Next, Rpc!GoDown
<1>4. ASSUME StopStep PROVE [Rpc!Next]_(Rpc!rpcVars)
  <2>1. outcome' = outcome /\ received' = received /\ UNCHANGED done
    BY <1>2, <1>4, StopFrame DEF callVars, readerVars
  <2> QED BY <2>1 DEF Rpc!rpcVars
<1>5. ASSUME DaemonStep PROVE [Rpc!Next]_(Rpc!rpcVars)
  <2>1. outcome' = outcome /\ UNCHANGED done
    BY <1>2, <1>5, DaemonFrame DEF readerVars
  <2>2. CASE \A c \in Calls : Received(c)' <=> Received(c)
    BY <1>r, <2>1, <2>2 DEF Rpc!rpcVars
  <2>3. ASSUME NEW d \in Calls, \A c \in Calls : Received(c)' <=> Received(c) \/ c = d
        PROVE  [Rpc!Next]_(Rpc!rpcVars)
    <3>1. received' = received \cup {d}
      BY <1>r, <2>3
    <3>2. Rpc!Receive(d)
      BY <2>1, <3>1 DEF Rpc!Receive
    <3> QED BY <3>2 DEF Rpc!Next
  <2> QED BY <2>2, <2>3, ReceivedSteps
<1>6. ASSUME UNCHANGED vars PROVE [Rpc!Next]_(Rpc!rpcVars)
  <2>1. outcome' = outcome /\ received' = received /\ UNCHANGED done
    BY <1>2, <1>6 DEF vars, callVars, readerVars, daemonVars
  <2> QED BY <2>1 DEF Rpc!rpcVars
<1> QED BY <1>1, <1>3, <1>4, <1>5, <1>6, WhoseStep

(***************************************************************************)
(* The session implements RpcSession: one outcome per call, a reply only   *)
(* to a request the daemon received, "session ended" only when it has      *)
(* (client.go, Call, readLoop and fail).                                   *)
(***************************************************************************)
THEOREM Implements == Spec => RefinesRpcSession
<1>1. Init => Rpc!Init
  BY DEF Init, Rpc!Init, OutcomeOf
<1>2. IInv /\ IInv' /\ [Next]_vars => [Rpc!Next]_(Rpc!rpcVars)
  BY StepImplements
<1> QED BY <1>1, <1>2, Invariance, PTL DEF Spec, Rpc!Spec, RefinesRpcSession

=============================================================================
