------------------------------ MODULE LspWire ------------------------------
(***************************************************************************)
(* The writing half of a session, one write of the pipe at a time: the     *)
(* goroutines that open a document and then ask about it                   *)
(* (Service.resolve and Service.call of internal/xref/service.go, which    *)
(* run Client.EnsureOpen and Client.Call of internal/lsp/client.go), the   *)
(* read loop that answers the server's own requests, and the two writes    *)
(* that stdio.write makes of each message.                                 *)
(*                                                                         *)
(* Writes are written out whole and in some order, the guarantee of        *)
(* os.File; the order of the writes of two goroutines is arbitrary.        *)
(***************************************************************************)
EXTENDS Naturals, Sequences

CONSTANTS
    Requesters, \* the goroutines that ask about a document
    Paths,      \* the documents
    PathOf,     \* the document each goroutine asks about
    ReadLoop,   \* the goroutine of the read loop
    MaxAnswers  \* bound: how many requests of the server it answers

ASSUME WireAssumption ==
    /\ PathOf \in [Requesters -> Paths]
    /\ ReadLoop \notin Requesters
    /\ MaxAnswers \in Nat

VARIABLES
    opened,  \* Client.opened
    pc,      \* where each goroutine is
    msg,     \* the message each goroutine is writing
    wire,    \* everything written to the daemon: the headers and bodies
    done,    \* Client.done is closed
    broken,  \* the pipe takes no more
    answers  \* how many requests of the server have arrived

vars == <<opened, pc, msg, wire, done, broken, answers>>

Writers  == Requesters \cup {ReadLoop}
Messages == {"none", "didOpen", "request", "cancel", "answer"}
States   == {"idle", "check", "readFile", "notify", "header", "body", "mark",
             "context", "call", "select", "cancel", "returned"}

TypeOK ==
    /\ opened \subseteq Paths
    /\ pc \in [Writers -> States]
    /\ msg \in [Writers -> Messages]
    /\ wire \in Seq([part : {"header", "body"}, msg : Messages, by : Writers])
    /\ done \in BOOLEAN
    /\ broken \in BOOLEAN
    /\ answers \in 0..MaxAnswers

Init ==
    /\ opened = {}
    /\ pc = [w \in Writers |-> "idle"]
    /\ msg = [w \in Writers |-> "none"]
    /\ wire = <<>>
    /\ done = FALSE
    /\ broken = FALSE
    /\ answers = 0

-----------------------------------------------------------------------------

Goto(w, state) == pc' = [pc EXCEPT ![w] = state]

\* A step that moves on if it may and fails otherwise, and changes nothing else.
Check(w, from, ok, to) ==
    /\ pc[w] = from
    /\ Goto(w, IF ok THEN to ELSE "returned")
    /\ UNCHANGED <<opened, msg, wire, done, broken, answers>>

\* The Alive check of Notify or Call, with the message it goes on to write.
Begin(w, from, m) ==
    /\ pc[w] = from
    /\ IF done
       THEN Goto(w, "returned") /\ UNCHANGED msg
       ELSE Goto(w, "header") /\ msg' = [msg EXCEPT ![w] = m]
    /\ UNCHANGED <<opened, wire, done, broken, answers>>

\* Where a writer goes on once its message is out, or has failed. What the
\* caller makes of the error: EnsureOpen and Call return it, the rest log it.
AfterWrite(w, ok) ==
    CASE msg[w] = "answer"                 -> "idle"
      [] msg[w] = "didOpen" /\ ok          -> "mark"
      [] msg[w] = "request" /\ ok          -> "select"
      [] OTHER                             -> "returned"

\* stdio.write: the header, before writeMu is taken ...
WriteHeader(w) ==
    /\ pc[w] = "header"
    /\ \/ /\ ~broken
          /\ wire' = Append(wire, [part |-> "header", msg |-> msg[w], by |-> w])
          /\ Goto(w, "body")
       \/ /\ broken
          /\ Goto(w, AfterWrite(w, FALSE))
          /\ UNCHANGED wire
    /\ UNCHANGED <<opened, msg, done, broken, answers>>

\* ... and the body, a write of its own under writeMu.
WriteBody(w) ==
    /\ pc[w] = "body"
    /\ \/ /\ ~broken
          /\ wire' = Append(wire, [part |-> "body", msg |-> msg[w], by |-> w])
          /\ Goto(w, AfterWrite(w, TRUE))
       \/ /\ broken
          /\ Goto(w, AfterWrite(w, FALSE))
          /\ UNCHANGED wire
    /\ UNCHANGED <<opened, msg, done, broken, answers>>

-----------------------------------------------------------------------------
(* Client.EnsureOpen.                                                      *)

\* Fault: the path is entered in the map as soon as it is looked up.
MarkWhileChecking(r) == opened' = opened \cup {PathOf[r]}

LookOnly(r) == UNCHANGED opened

\* The lookup, under mu. A document that is open needs nothing but the call.
CheckOpened(r) ==
    /\ pc[r] = "check"
    /\ Goto(r, IF PathOf[r] \in opened THEN "call" ELSE "readFile")
    /\ LookOnly(r)
    /\ UNCHANGED <<msg, wire, done, broken, answers>>

\* os.ReadFile
ReadFile(r) == \E ok \in BOOLEAN : Check(r, "readFile", ok, "notify")

NotifyDidOpen(r) == Begin(r, "notify", "didOpen")

\* Fault: the map is written by URI and read by path.
MarkedUri(r) == <<"file://", PathOf[r]>>

MarkedPath(r) == PathOf[r]

\* opened[path], under mu again.
MarkOpened(r) ==
    /\ pc[r] = "mark"
    /\ opened' = opened \cup {MarkedPath(r)}
    /\ Goto(r, "context")
    /\ UNCHANGED <<msg, wire, done, broken, answers>>

\* The select on ctx.Done() that ends EnsureOpen.
CheckContext(r) == \E ok \in BOOLEAN : Check(r, "context", ok, "call")

-----------------------------------------------------------------------------
(* Client.Call, in the detail that matters to the pipe.                    *)

StartRequest(r) ==
    /\ pc[r] = "idle"
    /\ Goto(r, "check")
    /\ UNCHANGED <<opened, msg, wire, done, broken, answers>>

CallRequest(r) == Begin(r, "call", "request")

\* The select of Call: a reply, the end of the session, or of the context,
\* which is followed by a cancellation.
SelectCall(r) == \E gotReply \in BOOLEAN :
    Check(r, "select", ~gotReply, "cancel")

CancelCall(r) == Begin(r, "cancel", "cancel")

\* answerRequest, from the read loop, which ends with the session.
AnswerRequest ==
    /\ ~done
    /\ answers < MaxAnswers
    /\ pc[ReadLoop] = "idle"
    /\ answers' = answers + 1
    /\ msg' = [msg EXCEPT ![ReadLoop] = "answer"]
    /\ Goto(ReadLoop, "header")
    /\ UNCHANGED <<opened, wire, done, broken>>

-----------------------------------------------------------------------------
(* The end of the daemon, external, as the writers see it.                 *)

PipeBreaks ==
    /\ ~broken
    /\ broken' = TRUE
    /\ UNCHANGED <<opened, pc, msg, wire, done, answers>>

ReadLoopEnds ==
    /\ ~done
    /\ pc[ReadLoop] = "idle"
    /\ done' = TRUE
    /\ UNCHANGED <<opened, pc, msg, wire, broken, answers>>

Next ==
    \/ \E w \in Writers : WriteHeader(w) \/ WriteBody(w)
    \/ \E r \in Requesters :
          \/ StartRequest(r) \/ CheckOpened(r) \/ ReadFile(r) \/ NotifyDidOpen(r)
          \/ MarkOpened(r) \/ CheckContext(r)
          \/ CallRequest(r) \/ SelectCall(r) \/ CancelCall(r)
    \/ AnswerRequest
    \/ PipeBreaks \/ ReadLoopEnds

Spec == Init /\ [][Next]_vars

-----------------------------------------------------------------------------

\* One of the first chunks on the wire is this one.
Written(part, m, by, before) ==
    \E i \in 1..before : wire[i] = [part |-> part, msg |-> m, by |-> by]

(***************************************************************************)
(* By the time any byte of a positional request goes out, a didOpen of its *)
(* document has gone out whole, whoever sent it: EnsureOpen never lets a   *)
(* goroutine overtake the one that is still opening the document.          *)
(***************************************************************************)
RequestAfterOpen ==
    \A i \in 1..Len(wire) :
        wire[i].msg = "request" =>
            \E r \in Requesters :
                /\ PathOf[r] = PathOf[wire[i].by]
                /\ Written("body", "didOpen", r, i - 1)

(***************************************************************************)
(* client.go:24-25: "A Client is safe for concurrent use: requests are     *)
(* multiplexed over a single pipe pair". What the daemon reads after a     *)
(* header is the body that belongs to it.                                  *)
(***************************************************************************)
FramesIntact ==
    \A i \in 1..Len(wire) - 1 :
        wire[i].part = "header" =>
            wire[i + 1] = [wire[i] EXCEPT !.part = "body"]

(***************************************************************************)
(* client.go:273: "EnsureOpen publishes a document to the server exactly   *)
(* once per session".                                                      *)
(***************************************************************************)
OpenedOnce ==
    \A i, j \in 1..Len(wire) :
        /\ wire[i].part = "body" /\ wire[i].msg = "didOpen"
        /\ wire[j].part = "body" /\ wire[j].msg = "didOpen"
        /\ PathOf[wire[i].by] = PathOf[wire[j].by]
        => i = j

=============================================================================
