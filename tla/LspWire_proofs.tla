---------------------------- MODULE LspWire_proofs ----------------------------
(***************************************************************************)
(* What the daemon is sent about a document, for every set of goroutines   *)
(* and documents: no byte of a request before a didOpen of its document.   *)
(***************************************************************************)
EXTENDS LspWire, TLAPS

-----------------------------------------------------------------------------
(* The inductive invariant.                                                *)

\* A didOpen of this document is whole among the first chunks.
OpenWithin(path, n) ==
    \E r \in Requesters : PathOf[r] = path /\ Written("body", "didOpen", r, n)

\* The map of opened documents tells the truth about the wire.
OpenedTrue == \A path \in opened : OpenWithin(path, Len(wire))

\* So does the place of a goroutine that is past opening, or that has a request
\* to write.
PastOpening ==
    \A r \in Requesters :
        pc[r] \in {"mark", "context", "call"} \/ msg[r] = "request"
            => OpenWithin(PathOf[r], Len(wire))

\* The read loop writes answers.
LoopAnswers == msg[ReadLoop] \in {"none", "answer"}

IInv ==
    /\ TypeOK
    /\ OpenedTrue
    /\ PastOpening
    /\ LoopAnswers
    /\ RequestAfterOpen

-----------------------------------------------------------------------------
(* The wire.                                                               *)

Chunks == [part : {"header", "body"}, msg : Messages, by : Writers]

Chunk(part, w) == [part |-> part, msg |-> msg[w], by |-> w]

\* A step writes one chunk of the message of one goroutine, or nothing.
LEMMA WireSteps ==
  ASSUME [Next]_vars
  PROVE  \/ UNCHANGED wire
         \/ \E w \in Writers :
               \/ WriteHeader(w) /\ wire' = Append(wire, Chunk("header", w))
               \/ WriteBody(w) /\ wire' = Append(wire, Chunk("body", w))
  BY DEF Next, WriteHeader, WriteBody, StartRequest, CheckOpened, ReadFile, NotifyDidOpen,
         MarkOpened, CheckContext, CallRequest, SelectCall, CancelCall, Check, Begin,
         AnswerRequest, PipeBreaks, ReadLoopEnds, vars, Chunk

\* A step marks the document of a goroutine that has written its didOpen, or none.
LEMMA OpenedSteps ==
  ASSUME [Next]_vars
  PROVE  \/ UNCHANGED opened
         \/ \E r \in Requesters : pc[r] = "mark" /\ opened' = opened \cup {PathOf[r]}
  BY DEF Next, WriteHeader, WriteBody, StartRequest, CheckOpened, LookOnly, ReadFile,
     NotifyDidOpen, MarkOpened, MarkedPath, CheckContext, CallRequest, SelectCall,
     CancelCall, Check, Begin, AnswerRequest, PipeBreaks, ReadLoopEnds, vars

\* What is on the wire stays where it is.
LEMMA WireGrows ==
  ASSUME TypeOK, [Next]_vars
  PROVE  /\ Len(wire) \in Nat /\ Len(wire') \in Nat /\ Len(wire) <= Len(wire')
         /\ \A i \in 1..Len(wire) : wire'[i] = wire[i]
<1>1. wire \in Seq([part : {"header", "body"}, msg : Messages, by : Writers])
  BY DEF TypeOK
<1>2. ASSUME NEW e, wire' = Append(wire, e)
      PROVE  /\ Len(wire) \in Nat /\ Len(wire') = Len(wire) + 1
             /\ \A i \in 1..Len(wire) : wire'[i] = wire[i]
  BY <1>1, <1>2
<1> QED BY <1>1, <1>2, WireSteps

LEMMA OpenStays ==
  ASSUME TypeOK, [Next]_vars, NEW path, NEW n \in Nat, n <= Len(wire), OpenWithin(path, n)
  PROVE  /\ OpenWithin(path, n)'
         /\ OpenWithin(path, Len(wire))'
<1>1. PICK r \in Requesters, i \in 1..n :
         PathOf[r] = path /\ wire[i] = [part |-> "body", msg |-> "didOpen", by |-> r]
  BY DEF OpenWithin, Written
<1>2. /\ Len(wire) \in Nat /\ Len(wire') \in Nat /\ Len(wire) <= Len(wire')
      /\ wire'[i] = wire[i]
  BY <1>1, WireGrows
<1>3. i \in 1..n /\ i \in 1..Len(wire')
  BY <1>1, <1>2
<1> QED BY <1>1, <1>2, <1>3 DEF OpenWithin, Written

-----------------------------------------------------------------------------
(* The parts of the invariant.                                             *)

LEMMA TypePreserved == IInv /\ [Next]_vars => TypeOK'
<1> SUFFICES ASSUME TypeOK, [Next]_vars PROVE TypeOK'
  BY DEF IInv
<1>t. /\ pc \in [Writers -> States] /\ msg \in [Writers -> Messages]
      /\ wire \in Seq([part : {"header", "body"}, msg : Messages, by : Writers])
      /\ Requesters \subseteq Writers /\ ReadLoop \in Writers
  BY DEF TypeOK, Writers
<1>1. wire' \in Seq(Chunks)
  <2>1. ASSUME NEW w \in Writers, NEW part \in {"header", "body"}
        PROVE  Chunk(part, w) \in Chunks
    BY <1>t DEF Chunk, Chunks
  <2>2. wire \in Seq(Chunks)
    BY <1>t DEF Chunks
  <2>3. \A e \in Chunks : Append(wire, e) \in Seq(Chunks)
    BY <2>2
  <2> QED BY <2>1, <2>2, <2>3, WireSteps
<1>2. \/ UNCHANGED pc
      \/ \E w \in Writers, to \in States : pc' = [pc EXCEPT ![w] = to]
  <2>1. ASSUME NEW w \in Writers, WriteHeader(w) \/ WriteBody(w)
        PROVE  \E to \in States : pc' = [pc EXCEPT ![w] = to]
    <3>1. \A ok \in BOOLEAN : AfterWrite(w, ok) \in States
      BY DEF AfterWrite, States
    <3> QED BY <2>1, <3>1 DEF WriteHeader, WriteBody, Goto, States
  <2>2. ASSUME NEW r \in Requesters,
               \/ StartRequest(r) \/ CheckOpened(r) \/ ReadFile(r) \/ NotifyDidOpen(r)
               \/ MarkOpened(r) \/ CheckContext(r)
               \/ CallRequest(r) \/ SelectCall(r) \/ CancelCall(r)
        PROVE  \E to \in States : pc' = [pc EXCEPT ![r] = to]
    BY <2>2 DEF StartRequest, CheckOpened, ReadFile, NotifyDidOpen, MarkOpened, CheckContext,
         CallRequest, SelectCall, CancelCall, Check, Begin, Goto, States
  <2>3. AnswerRequest => \E to \in States : pc' = [pc EXCEPT ![ReadLoop] = to]
    BY DEF AnswerRequest, Goto, States
  <2> QED BY <1>t, <2>1, <2>2, <2>3 DEF Next, PipeBreaks, ReadLoopEnds, vars
<1>3. \/ UNCHANGED msg
      \/ \E w \in Writers, m \in Messages : msg' = [msg EXCEPT ![w] = m]
  BY <1>t DEF Next, WriteHeader, WriteBody, StartRequest, CheckOpened, ReadFile, NotifyDidOpen,
         MarkOpened, CheckContext, CallRequest, SelectCall, CancelCall, Check, Begin,
         AnswerRequest, PipeBreaks, ReadLoopEnds, vars, Messages
<1>4. opened' \subseteq Paths
  <2>1. opened \subseteq Paths /\ \A r \in Requesters : PathOf[r] \in Paths
    BY WireAssumption DEF TypeOK
  <2> QED BY <2>1, OpenedSteps
<1>5. done' \in BOOLEAN /\ broken' \in BOOLEAN /\ answers' \in 0..MaxAnswers
  <2>1. /\ UNCHANGED done \/ done' = TRUE
        /\ UNCHANGED broken \/ broken' = TRUE
        /\ UNCHANGED answers \/ (answers < MaxAnswers /\ answers' = answers + 1)
    BY DEF Next, WriteHeader, WriteBody, StartRequest, CheckOpened, ReadFile, NotifyDidOpen,
       MarkOpened, CheckContext, CallRequest, SelectCall, CancelCall, Check, Begin,
       AnswerRequest, PipeBreaks, ReadLoopEnds, vars
  <2>2. done \in BOOLEAN /\ broken \in BOOLEAN /\ answers \in 0..MaxAnswers /\ MaxAnswers \in Nat
    BY WireAssumption DEF TypeOK
  <2>3. done' \in BOOLEAN /\ broken' \in BOOLEAN
    BY <2>1, <2>2, Zenon
  <2>4. answers' \in 0..MaxAnswers
    BY <2>1, <2>2
  <2> QED BY <2>3, <2>4
<1>6. pc' \in [Writers -> States] /\ msg' \in [Writers -> Messages]
  BY <1>t, <1>2, <1>3
<1> QED BY <1>1, <1>4, <1>5, <1>6 DEF TypeOK, Chunks

\* A path is marked by a goroutine that has written its didOpen.
LEMMA OpenedTruePreserved == IInv /\ [Next]_vars => OpenedTrue'
<1> SUFFICES ASSUME IInv, [Next]_vars, NEW path \in opened' PROVE OpenWithin(path, Len(wire))'
  BY DEF OpenedTrue
<1>1. TypeOK /\ Len(wire) \in Nat
  BY WireGrows DEF IInv
<1>2. path \in opened \/ \E r \in Requesters : pc[r] = "mark" /\ path = PathOf[r]
  BY OpenedSteps
<1>3. OpenWithin(path, Len(wire))
  BY <1>2 DEF IInv, OpenedTrue, PastOpening
<1> QED BY <1>1, <1>3, OpenStays

LEMMA PastOpeningPreserved == IInv /\ [Next]_vars => PastOpening'
<1> SUFFICES ASSUME IInv, [Next]_vars, NEW r \in Requesters,
                    pc'[r] \in {"mark", "context", "call"} \/ msg'[r] = "request"
             PROVE  OpenWithin(PathOf[r], Len(wire))'
  BY DEF PastOpening
<1>t. /\ TypeOK /\ Len(wire) \in Nat
      /\ pc \in [Writers -> States] /\ msg \in [Writers -> Messages]
      /\ wire \in Seq([part : {"header", "body"}, msg : Messages, by : Writers])
      /\ Requesters \subseteq Writers /\ ReadLoop \notin Requesters
  BY WireGrows, WireAssumption DEF IInv, TypeOK, Writers
<1>1. ASSUME OpenWithin(PathOf[r], Len(wire)) PROVE OpenWithin(PathOf[r], Len(wire))'
  BY <1>1, <1>t, OpenStays
<1>2. CASE pc[r] \in {"mark", "context", "call"} \/ msg[r] = "request"
  BY <1>1, <1>2 DEF IInv, PastOpening
<1>3. CASE PathOf[r] \in opened
  BY <1>1, <1>3 DEF IInv, OpenedTrue
<1>4. CASE WriteBody(r) /\ msg[r] = "didOpen" /\ wire' = Append(wire, Chunk("body", r))
  <2>1. /\ Len(wire') = Len(wire) + 1
        /\ wire'[Len(wire) + 1] = [part |-> "body", msg |-> "didOpen", by |-> r]
    BY <1>4, <1>t DEF Chunk
  <2>2. Len(wire') \in 1..Len(wire') /\ Len(wire) + 1 = Len(wire')
    BY <1>t, <2>1
  <2> QED BY <2>1, <2>2 DEF OpenWithin, Written
\* Nothing else takes a goroutine past opening.
<1>5. ASSUME NEW w \in Writers, WriteHeader(w) \/ WriteBody(w)
      PROVE  \/ pc[r] \in {"mark", "context", "call"} \/ msg[r] = "request"
             \/ WriteBody(r) /\ msg[r] = "didOpen" /\ wire' = Append(wire, Chunk("body", r))
  <2>1. msg'[r] = msg[r] /\ (w # r => pc'[r] = pc[r])
    BY <1>5, <1>t DEF WriteHeader, WriteBody, Goto
  <2>2. CASE w # r \/ msg[r] = "request"
    BY <2>1, <2>2
  <2>3. CASE w = r /\ WriteHeader(r)
    BY <1>t, <2>1, <2>3 DEF WriteHeader, Goto, AfterWrite
  <2>4. CASE w = r /\ WriteBody(r)
    BY <1>t, <2>1, <2>4 DEF WriteBody, Goto, AfterWrite, Chunk
  <2> QED BY <1>5, <2>2, <2>3, <2>4
<1>6. ASSUME NEW d \in Requesters,
             \/ StartRequest(d) \/ CheckOpened(d) \/ ReadFile(d) \/ NotifyDidOpen(d)
             \/ MarkOpened(d) \/ CheckContext(d)
             \/ CallRequest(d) \/ SelectCall(d) \/ CancelCall(d)
      PROVE  \/ pc[r] \in {"mark", "context", "call"} \/ msg[r] = "request"
             \/ PathOf[r] \in opened
  BY <1>6, <1>t DEF StartRequest, CheckOpened, ReadFile, NotifyDidOpen, MarkOpened, CheckContext,
     CallRequest, SelectCall, CancelCall, Check, Begin, Goto
<1>7. AnswerRequest \/ PipeBreaks \/ ReadLoopEnds \/ UNCHANGED vars
        => pc'[r] = pc[r] /\ msg'[r] = msg[r]
  BY <1>t DEF AnswerRequest, Goto, PipeBreaks, ReadLoopEnds, vars
<1> QED BY <1>2, <1>3, <1>4, <1>5, <1>6, <1>7 DEF Next

LEMMA LoopAnswersPreserved == IInv /\ [Next]_vars => LoopAnswers'
<1> SUFFICES ASSUME IInv, [Next]_vars PROVE LoopAnswers'
  OBVIOUS
<1>1. msg \in [Writers -> Messages] /\ ReadLoop \in Writers /\ ReadLoop \notin Requesters
  BY WireAssumption DEF IInv, TypeOK, Writers
<1> QED BY <1>1 DEF IInv, LoopAnswers, Next, WriteHeader, WriteBody, StartRequest, CheckOpened,
        ReadFile, NotifyDidOpen, MarkOpened, CheckContext, CallRequest, SelectCall, CancelCall,
        Check, Begin, AnswerRequest, PipeBreaks, ReadLoopEnds, vars

LEMMA RequestAfterOpenPreserved == IInv /\ [Next]_vars => RequestAfterOpen'
<1> SUFFICES ASSUME IInv, [Next]_vars, NEW i \in 1..Len(wire'), wire'[i].msg = "request",
                    NEW by, by = wire'[i].by
             PROVE  OpenWithin(PathOf[by], i - 1)'
  BY DEF RequestAfterOpen, OpenWithin
<1>t. /\ TypeOK /\ Len(wire) \in Nat /\ Len(wire') \in Nat
      /\ wire \in Seq([part : {"header", "body"}, msg : Messages, by : Writers])
  BY WireGrows DEF IInv, TypeOK
<1>1. CASE i \in 1..Len(wire)
  <2>1. wire'[i] = wire[i]
    BY <1>1, <1>t, WireGrows
  <2>2. OpenWithin(PathOf[by], i - 1)
    BY <1>1, <2>1 DEF IInv, RequestAfterOpen, OpenWithin
  <2>3. i - 1 \in Nat /\ i - 1 <= Len(wire)
    BY <1>1, <1>t
  <2> QED BY <1>t, <2>2, <2>3, OpenStays
<1>2. CASE i \notin 1..Len(wire)
  <2>1. PICK w \in Writers, part \in {"header", "body"} : wire' = Append(wire, Chunk(part, w))
    BY <1>2, WireSteps
  <2>2. i = Len(wire) + 1 /\ wire'[i] = Chunk(part, w)
    BY <1>2, <1>t, <2>1
  <2>3. msg[w] = "request" /\ by = w
    BY <2>2 DEF Chunk
  <2>4. w \in Requesters
    BY <2>3 DEF Writers, IInv, LoopAnswers
  <2>5. OpenWithin(PathOf[w], Len(wire))
    BY <2>3, <2>4 DEF IInv, PastOpening
  <2>6. i - 1 = Len(wire)
    BY <1>t, <2>2
  <2> QED BY <1>t, <2>3, <2>5, <2>6, OpenStays
<1> QED BY <1>1, <1>2

-----------------------------------------------------------------------------
(* The safety properties of the wire.                                      *)

(***************************************************************************)
(* The invariant: the map of opened documents, and the place of each       *)
(* goroutine, tell the truth about what has been written.                  *)
(***************************************************************************)
THEOREM Invariance == Spec => []IInv
<1>1. Init => IInv
  <2>1. <<>> \in Seq(Chunks) /\ Len(<<>>) = 0 /\ MaxAnswers \in Nat
    BY WireAssumption
  <2>2. Init => TypeOK
    <3>1. Init => wire \in Seq(Chunks) /\ answers \in 0..MaxAnswers
      BY <2>1 DEF Init
    <3>2. Init => /\ opened \subseteq Paths /\ done \in BOOLEAN /\ broken \in BOOLEAN
                  /\ pc \in [Writers -> States] /\ msg \in [Writers -> Messages]
      BY DEF Init, States, Messages
    <3> QED BY <3>1, <3>2 DEF TypeOK, Chunks
  <2>3. Init => OpenedTrue /\ PastOpening /\ LoopAnswers /\ RequestAfterOpen
    BY <2>1 DEF Init, OpenedTrue, PastOpening, LoopAnswers, RequestAfterOpen, Writers
  <2> QED BY <2>2, <2>3 DEF IInv
<1>2. IInv /\ [Next]_vars => IInv'
  BY TypePreserved, OpenedTruePreserved, PastOpeningPreserved, LoopAnswersPreserved,
     RequestAfterOpenPreserved DEF IInv
<1> QED BY <1>1, <1>2, PTL DEF Spec

(***************************************************************************)
(* The variables keep their types: every chunk on the wire is of a message *)
(* that some goroutine writes (stdio.go, write).                           *)
(***************************************************************************)
THEOREM TypeCorrect == Spec => []TypeOK
<1>1. IInv => TypeOK
  BY DEF IInv
<1> QED BY <1>1, Invariance, PTL

(***************************************************************************)
(* No byte of a positional request goes out before a didOpen of its        *)
(* document has gone out whole (client.go, EnsureOpen and Call).           *)
(***************************************************************************)
THEOREM OpensFirst == Spec => []RequestAfterOpen
<1>1. IInv => RequestAfterOpen
  BY DEF IInv
<1> QED BY <1>1, Invariance, PTL

=============================================================================
