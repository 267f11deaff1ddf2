--------------------------- MODULE McpTools_proofs ---------------------------
(* What a tool call gives an agent: the snippet it asked for, whatever the  *)
(* width of integers, the size of the file and the cap, and the right       *)
(* advice when the session of its query has ended.                          *)
EXTENDS McpTools, CrossReference_proofs

-----------------------------------------------------------------------------
(* The arithmetic of ReadSnippet.                                           *)

\* What the clamps leave of a range that is not turned down, for all integers
\* of the width: nothing overflows.
LEMMA LastLineIs ==
  ASSUME NEW first \in 1..MaxInt, NEW end \in first..MaxInt
  PROVE  LastLine(first, end) =
            IF first + MaxSnippetLines - 1 < end THEN first + MaxSnippetLines - 1 ELSE end
<1>1. /\ MaxInt \in Nat /\ MaxSnippetLines \in 1..MaxInt
      /\ first \in Int /\ end \in Int
  BY McpAssumption
<1>2. Wrap(end - first) = end - first
  BY <1>1 DEF Wrap, MinInt
<1>3. Wrap(end - first + 1) = end - first + 1
  BY <1>1 DEF Wrap, MinInt
<1>4. ASSUME end - first + 1 > MaxSnippetLines
      PROVE  Wrap(Wrap(first + MaxSnippetLines) - 1) = first + MaxSnippetLines - 1
  BY <1>1, <1>4 DEF Wrap, MinInt
<1> QED BY <1>1, <1>2, <1>3, <1>4 DEF LastLine

\* The lines of the file that a range asks for.
Asked(r) == {i \in 1..r.length : r.start <= i /\ i <= r.end}

\* What SnippetExact says of a reply to a range.
Exact(r, answered, given) ==
    /\ answered = "snippet" =>
          /\ Asked(r) # {}
          /\ given = {i \in Asked(r) : \A n \in Asked(r) : i - n < MaxSnippetLines}
    /\ answered = "outOfRange" => Asked(r) = {}

\* Ranges are made of integers of the width.
LEMMA RangeIsOfInts ==
  ASSUME NEW r \in Ranges
  PROVE  /\ r.start \in MinInt..MaxInt /\ r.end \in MinInt..MaxInt
         /\ r.length \in 1..MaxInt
         /\ r.start \in Int /\ r.end \in Int /\ r.length \in Int
         /\ MaxInt \in Nat /\ MaxSnippetLines \in 1..MaxInt /\ MinInt \in Int
<1>1. MaxInt \in Nat /\ MaxSnippetLines \in 1..MaxInt
  BY McpAssumption
<1>2. MinInt \in Int
  BY <1>1 DEF MinInt
<1>3. r.start \in LineArgs /\ r.end \in LineArgs /\ r.length \in FileLengths
  BY DEF Ranges
<1>4. /\ r.start \in MinInt..MaxInt /\ r.end \in MinInt..MaxInt
      /\ r.length \in 1..MaxInt
  BY <1>3, McpAssumption
<1> QED BY <1>1, <1>2, <1>4

\* The bounds that clamping leaves are those of the snippet that was asked for.
LEMMA Clamped ==
  ASSUME NEW r \in Ranges, r.end >= FirstLine(r.start), FirstLine(r.start) <= r.length
  PROVE  LET first == FirstLine(r.start)
             last  == LastLine(first, r.end)
         IN  Exact(r, "snippet", first..(IF last > r.length THEN r.length ELSE last))
<1> DEFINE first    == FirstLine(r.start)
           last     == LastLine(first, r.end)
           existing == Asked(r)
<1>1. /\ r.start \in MinInt..MaxInt /\ r.end \in MinInt..MaxInt
      /\ r.length \in 1..MaxInt
      /\ MaxInt \in Nat /\ MaxSnippetLines \in 1..MaxInt /\ MinInt \in Int
  BY RangeIsOfInts
<1>2. first \in 1..MaxInt /\ r.start <= first /\ r.end \in first..MaxInt
  BY <1>1 DEF FirstLine
<1>3. last = IF first + MaxSnippetLines - 1 < r.end THEN first + MaxSnippetLines - 1 ELSE r.end
  BY <1>2, LastLineIs
<1>4. \A i \in Int : i \in existing <=> first <= i /\ i <= r.end /\ i <= r.length
  BY <1>1, <1>2 DEF FirstLine, Asked
<1>5. first \in existing
  BY <1>1, <1>2, <1>4
<1>6. \A i \in existing : (\A n \in existing : i - n < MaxSnippetLines)
                             <=> i <= first + MaxSnippetLines - 1
  <2> TAKE i \in existing
  <2>1. \A n \in existing : n \in Int /\ first <= n
    BY <1>1, <1>4 DEF Asked
  <2> HIDE DEF first, existing
  <2> QED BY <1>1, <1>2, <1>5, <2>1
<1> HIDE DEF first, last, existing
<1>7. existing \subseteq Int
  BY <1>4, <1>1 DEF existing, Asked
<1>8. first..(IF last > r.length THEN r.length ELSE last) =
         {i \in existing : \A n \in existing : i - n < MaxSnippetLines}
  <2> DEFINE upper == IF last > r.length THEN r.length ELSE last
  <2>1. /\ first \in Int /\ last \in Int /\ upper \in Int
        /\ r.length \in Int /\ r.end \in Int /\ MaxSnippetLines \in Int
    BY <1>1, <1>2, <1>3
  <2>2. \A i \in Int : i <= upper <=>
           i <= r.end /\ i <= r.length /\ i <= first + MaxSnippetLines - 1
    BY <1>3, <2>1
  <2> HIDE DEF upper
  <2>3. \A i \in Int : i \in first..upper <=> first <= i /\ i <= upper
    BY <2>1
  <2>4. \A i : i \in first..upper <=> i \in existing /\ i <= first + MaxSnippetLines - 1
    BY <1>4, <1>7, <2>1, <2>2, <2>3, (first..upper) \subseteq Int
  <2>5. \A i : i \in first..upper <=>
           i \in {k \in existing : \A n \in existing : k - n < MaxSnippetLines}
    BY <1>6, <2>4
  <2>6. first..upper = {k \in existing : \A n \in existing : k - n < MaxSnippetLines}
    BY <2>5
  <2> QED BY <2>6 DEF upper
<1> QED BY <1>5, <1>8 DEF first, last, existing, Exact

-----------------------------------------------------------------------------
(* The inductive invariant, part by part.                                   *)

\* What a query fails with once it has found the session ended.
LostIsTold == lost /\ pc = "failed" => err = "ended"

\* What a call of read_code_snippet starts with.
RangeShape == range \in Ranges \cup {None}

McpIInv == IInv /\ LostIsTold /\ RangeShape /\ SnippetExact /\ DeadNotCalledSlow

\* A tool call starts with no reply, so with none that is wrong.
LEMMA McpInitIInv == McpInit => McpIInv
  BY InitIInv DEF McpInit, Init, McpIInv, LostIsTold, RangeShape, SnippetExact, DeadNotCalledSlow

\* A failure after the end of the session is the end of the session.
LEMMA LostFailure ==
  ASSUME LostStays, NEW e, CallFails(e), lost'
  PROVE  e = "ended"
  BY FailedCall, lost \/ ~lost DEF LostStays, CallFails, Failures

\* A query keeps what it fails with in line with what it has found.
LEMMA QueryTellsLost ==
  ASSUME IInv, LostIsTold, Next
  PROVE  LostIsTold'
<1> SUFFICES ASSUME lost', pc' = "failed"
             PROVE  err' = "ended"
  BY DEF LostIsTold
<1>s. LostStays
  BY DEF IInv
<1>1. CASE \E e : Breaks(e)
  BY <1>1, <1>s, LostFailure DEF Breaks
<1>2. CASE lost /\ UNCHANGED <<pc, err>>
  BY <1>2 DEF LostIsTold
<1>3. CASE Resolve \/ SessionEnds
  BY <1>2, <1>3 DEF Resolve, SessionEnds, IInv, LostStays
<1>4. CASE FindReferences \/ PrepareCalls \/ Incoming \/ Outgoing
  <2>1. (\E e : Breaks(e)) \/ pc' \in {"answered", "calls"}
    BY <1>4 DEF FindReferences, PrepareCalls, Incoming, Outgoing, Report, QueryFails, Fail,
                Goto, Breaks
  <2> QED BY <1>1, <2>1
<1>5. CASE Implementations \/ PrepareTypes
  <2>1. (\E e : Breaks(e)) \/ pc' \in {"answered", FirstSide}
    BY <1>5 DEF Implementations, PrepareTypes, NoHierarchy, Report, Fail, Goto, Breaks
  <2> QED BY <1>1, <2>1 DEF FirstSide
<1>6. CASE TypeDefinition \/ Definition
  BY <1>6 DEF TypeDefinition, Definition, SeekDefinition, Goto
<1>7. CASE Supertypes \/ Subtypes
  <2>1. (\E e : Breaks(e)) \/ pc' \in {"answered", "subtypes"}
    BY <1>7 DEF Supertypes, Subtypes, AskSide, Fail, Goto, Breaks
  <2> QED BY <1>1, <2>1
<1> QED BY <1>3, <1>4, <1>5, <1>6, <1>7 DEF Next

\* Every step of a tool call keeps the invariant.
LEMMA McpStepIInv == McpIInv /\ [McpNext]_<<vars, range, reply, lines>> => McpIInv'
<1> SUFFICES ASSUME McpIInv, [McpNext]_<<vars, range, reply, lines>>
             PROVE  McpIInv'
  OBVIOUS
<1>1. CASE ReadSnippet
  <2>1. IInv' /\ LostIsTold'
    BY <1>1, StepIInv DEF McpIInv, LostIsTold, ReadSnippet, vars
  <2>2. RangeShape' /\ DeadNotCalledSlow'
    BY <1>1 DEF McpIInv, RangeShape, DeadNotCalledSlow, ReadSnippet, SnippetRefused, vars
  <2>3. range \in Ranges /\ range' = range
    BY <1>1 DEF ReadSnippet, McpIInv, RangeShape
  <2> DEFINE first == FirstLine(range.start)
             last  == LastLine(first, range.end)
  <2>4. Exact(range, reply', lines')
    <3>1. CASE SnippetRefused
      BY <3>1 DEF SnippetRefused, Exact
    <3>2. CASE /\ range.end < first \/ first > range.length
               /\ reply' = "outOfRange"
      <4>1. range.start \in Int /\ range.end \in Int /\ range.length \in Int
        BY <2>3, RangeIsOfInts
      <4>2. Asked(range) = {}
        BY <3>2, <4>1 DEF Asked, FirstLine
      <4> QED BY <3>2, <4>2 DEF Exact
    <3>3. CASE /\ range.end >= first /\ first <= range.length
               /\ reply' = "snippet"
               /\ lines' = first..(IF last > range.length THEN range.length ELSE last)
      BY <2>3, <3>3, Clamped
    <3> QED BY <1>1, <3>1, <3>2, <3>3 DEF ReadSnippet
  <2>5. SnippetExact'
    BY <2>3, <2>4 DEF SnippetExact, Exact, Asked
  <2> QED BY <2>1, <2>2, <2>5 DEF McpIInv
<1>2. CASE CheckArguments
  <2>1. IInv' /\ LostIsTold'
    BY <1>2, StepIInv DEF McpIInv, LostIsTold, CheckArguments, vars
  <2> QED BY <1>2, <2>1 DEF McpIInv, RangeShape, SnippetExact, DeadNotCalledSlow, CheckArguments
<1>3. CASE Query
  <2>1. IInv' /\ LostIsTold'
    BY <1>3, StepIInv, QueryTellsLost DEF McpIInv, Query
  <2> QED BY <1>3, <2>1 DEF McpIInv, RangeShape, SnippetExact, DeadNotCalledSlow, Query
<1>4. CASE Respond
  <2>1. IInv' /\ LostIsTold'
    BY <1>4, StepIInv DEF McpIInv, LostIsTold, Respond, vars
  <2>2. RangeShape' /\ SnippetExact'
    BY <1>4 DEF McpIInv, RangeShape, SnippetExact, Respond
  <2>3. ASSUME lost PROVE reply' = "failed"
    <3>1. pc = "failed" /\ err = "ended"
      BY <1>4, <2>3 DEF Respond, McpIInv, IInv, LostStays, LostIsTold
    <3> QED BY <1>4, <3>1 DEF Respond, AdviceFor
  <2>4. DeadNotCalledSlow'
    BY <1>4, <2>3 DEF DeadNotCalledSlow, Respond, vars
  <2> QED BY <2>1, <2>2, <2>4 DEF McpIInv
<1>5. CASE UNCHANGED <<vars, range, reply, lines>>
  <2>1. IInv' /\ LostIsTold'
    BY <1>5, StepIInv DEF McpIInv, LostIsTold, vars
  <2> QED BY <1>5, <2>1 DEF McpIInv, RangeShape, SnippetExact, DeadNotCalledSlow, vars
<1> QED BY <1>1, <1>2, <1>3, <1>4, <1>5 DEF McpNext

-----------------------------------------------------------------------------
(* The types, with what is known of the answer of the query.                *)

\* A call starts with no reply and no lines, and its query with no answer.
LEMMA McpInitAnswer == McpInit => AnswerInv /\ McpTypeOK
  BY InitAnswer DEF McpInit, AnswerInv, McpTypeOK

\* A snippet is made of line numbers of its file.
LEMMA SnippetLines ==
  ASSUME NEW r \in Ranges, FirstLine(r.start) <= r.length, NEW last,
         last = LastLine(FirstLine(r.start), r.end), r.end >= FirstLine(r.start)
  PROVE  FirstLine(r.start)..(IF last > r.length THEN r.length ELSE last) \subseteq 1..MaxInt
<1> DEFINE first == FirstLine(r.start)
<1>1. /\ r.start \in Int /\ r.end \in MinInt..MaxInt /\ r.end \in Int
      /\ r.length \in 1..MaxInt /\ MaxInt \in Nat /\ MaxSnippetLines \in 1..MaxInt
      /\ MinInt \in Int
  BY RangeIsOfInts
<1>2. first \in 1..MaxInt /\ r.end \in first..MaxInt
  BY <1>1 DEF FirstLine
<1>3. last = IF first + MaxSnippetLines - 1 < r.end THEN first + MaxSnippetLines - 1 ELSE r.end
  BY <1>2, LastLineIs
<1> HIDE DEF first
<1>4. last \in Int
  BY <1>1, <1>2, <1>3
<1>5. first..(IF last > r.length THEN r.length ELSE last) \subseteq 1..MaxInt
  BY <1>1, <1>2, <1>4
<1> QED BY <1>5 DEF first

\* Every step of a tool call keeps them.
LEMMA McpStepAnswer ==
  (AnswerInv /\ McpTypeOK) /\ [McpNext]_<<vars, range, reply, lines>> => (AnswerInv /\ McpTypeOK)'
<1> SUFFICES ASSUME AnswerInv, McpTypeOK, [McpNext]_<<vars, range, reply, lines>>
             PROVE  AnswerInv' /\ McpTypeOK'
  OBVIOUS
<1>1. [Next]_vars
  BY DEF McpNext, ReadSnippet, CheckArguments, Query, Respond, vars
<1>2. AnswerInv' /\ TypeOK'
  BY <1>1, StepAnswer DEF AnswerInv
<1>3. range' = range
  BY DEF McpNext, ReadSnippet, CheckArguments, Query, Respond
<1>4. CASE ReadSnippet
  <2>1. range \in Ranges
    BY <1>4 DEF ReadSnippet, McpTypeOK
  <2>2. CASE SnippetRefused
    BY <1>2, <1>3, <2>2 DEF SnippetRefused, McpTypeOK
  <2>3. CASE reply' = "outOfRange" /\ UNCHANGED lines
    BY <1>2, <1>3, <2>3 DEF McpTypeOK
  <2> DEFINE first == FirstLine(range.start)
             last  == LastLine(first, range.end)
  <2>4. CASE /\ range.end >= first /\ first <= range.length
             /\ reply' = "snippet"
             /\ lines' = first..(IF last > range.length THEN range.length ELSE last)
    <3>1. lines' \subseteq 1..MaxInt
      BY <2>1, <2>4, SnippetLines
    <3> QED BY <1>2, <1>3, <2>4, <3>1 DEF McpTypeOK
  <2> QED BY <1>4, <2>2, <2>3, <2>4 DEF ReadSnippet
<1>5. CASE CheckArguments \/ Query
  BY <1>2, <1>3, <1>5 DEF CheckArguments, Query, McpTypeOK
<1>6. CASE Respond
  <2>1. \A cause \in StartErrors : AdviceAtStart(cause) \in Advice
    BY DEF StartErrors, AdviceAtStart, Advice
  <2>2. AdviceFor(err) \subseteq Advice
    BY DEF AdviceFor, Advice
  <2> QED BY <1>2, <1>3, <1>6, <2>1, <2>2 DEF Respond, McpTypeOK
<1>7. CASE UNCHANGED <<vars, range, reply, lines>>
  BY <1>2, <1>7 DEF McpTypeOK
<1> QED BY <1>2, <1>4, <1>5, <1>6, <1>7 DEF McpNext

-----------------------------------------------------------------------------

\* The inductive invariant holds in every reachable state.
THEOREM McpInvariance == McpSpec => []McpIInv
  BY McpInitIInv, McpStepIInv, PTL DEF McpSpec

\* read_code_snippet gives the first MaxSnippetLines lines of the range that the
\* file has and turns down exactly the ranges without any, for integers of any
\* width and any cap that fits in them (indexer.go:353-412).
THEOREM SnippetIsExact == McpSpec => []SnippetExact
<1>1. McpIInv => SnippetExact
  BY DEF McpIInv
<1> QED BY <1>1, McpInvariance, PTL

\* An agent whose query has found the session ended is not told to wait for the
\* server, for any replies of any server (server.go:608-656).
THEOREM DeadIsNotSlow == McpSpec => []DeadNotCalledSlow
<1>1. McpIInv => DeadNotCalledSlow
  BY DEF McpIInv
<1> QED BY <1>1, McpInvariance, PTL

\* The promises of the query hold of every tool call that runs it.
THEOREM ToolCallKeepsPromises == McpSpec => [](LostSessionFails /\ UnsupportedDegrades)
<1>1. McpIInv => LostSessionFails /\ UnsupportedDegrades
  BY DEF McpIInv, IInv, LostStays, LostSessionFails, UnsupportedFails, UnsupportedDegrades
<1> QED BY <1>1, McpInvariance, PTL

\* So does what is known of its answer, and the variables of the call keep their
\* types: a reply is one that the handlers give, and no line number overflows.
THEOREM McpAnswerInvariance == McpSpec => [](AnswerInv /\ McpTypeOK)
  BY McpInitAnswer, McpStepAnswer, PTL DEF McpSpec

\* The variables of a tool call and of its query keep their types.
THEOREM McpTypeCorrect == McpSpec => []McpTypeOK
  BY McpAnswerInvariance, PTL

\* What a tool call that runs a query answers with are the first distinct lines
\* of the reply, up to the limit, and a hint where there are none.
THEOREM ToolCallAnswers == McpSpec => [](CompactionExact /\ EmptyAnswersHint)
<1>1. AnswerInv => CompactionExact /\ EmptyAnswersHint
  BY DEF AnswerInv, Compacted, Capped, Least, CompactionExact
<1> QED BY McpAnswerInvariance, <1>1, PTL

=============================================================================
