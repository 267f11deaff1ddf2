--------------------------- MODULE CrossReference ---------------------------
(***************************************************************************)
(* One query of the cross-reference service (internal/xref): the round     *)
(* trips it makes on a session, one after the other, which of their errors *)
(* it tolerates, and how compact.go reduces what comes back.               *)
(*                                                                         *)
(* The session is what RpcSession promises: a call is answered or fails,   *)
(* and a session that has ended fails every call. The server is external   *)
(* and answers anything. Names, snippets, characters and path elision are  *)
(* data; a hit is its repository, file and line.                           *)
(***************************************************************************)
EXTENDS Naturals, Sequences, FiniteSets, SequencesExt

CONSTANTS
    Files,    \* [repo, file] of what a server may report, as locate names it
    Lines,
    Foreign,  \* an entry whose URI is no file
    Empty,    \* an entry without a URI, such as a link read as a location
    Limit,    \* s.limit
    MaxItems, \* bound: entries in one reply
    None

Places == {[repo |-> f.repo, file |-> f.file, line |-> l] : f \in Files, l \in Lines}

Tools == {"references", "incoming", "outgoing", "implementations", "hierarchy"}

Entries == Places \cup {Foreign, Empty}

ASSUME CrossReferenceAssumption ==
    /\ Limit \in Nat \ {0}
    /\ MaxItems \in Nat
    /\ {Foreign, Empty, None} \cap (Places \cup Files) = {}

VARIABLES
    tool,       \* the query
    sides,      \* TypeHierarchyRequest.Direction: the sides asked for
    pc,         \* the round trip it is at
    session,
    err,        \* what it has failed with
    answer,     \* what it has found
    reported,   \* history: the entries the answer's hits are made from
    lost        \* history: a call has failed because the session has ended

vars == <<tool, sides, pc, session, err, answer, reported, lost>>

Side == [hits : Seq(Places), total : 0..MaxItems]

Answers == [hits : Seq(Places), total : Nat, hint : {"none", "fallback", "other"},
            rooted : BOOLEAN, definition : Places \cup {None},
            supertypes : Side, subtypes : Side]

TypeOK ==
    /\ tool \in Tools
    /\ sides \in (SUBSET {"supertypes", "subtypes"}) \ {{}}
    /\ pc \in {"resolve", "references", "prepareCalls", "calls",
               "implementations", "typeDefinition", "definition", "prepareTypes",
               "supertypes", "subtypes", "answered", "failed"}
    /\ session \in {"up", "ended"}
    /\ err \in {"none", "resolve", "timeout", "context", "unsupported", "ended",
                "malformed"}
    /\ answer \in Answers
    /\ reported \in Seq(Entries)
    /\ lost \in BOOLEAN

NoSide == [hits |-> <<>>, total |-> 0]

NoAnswer == [hits |-> <<>>, total |-> 0, hint |-> "none", rooted |-> FALSE,
             definition |-> None, supertypes |-> NoSide, subtypes |-> NoSide]

Init ==
    /\ tool \in Tools
    /\ sides \in IF tool = "hierarchy"
                 THEN (SUBSET {"supertypes", "subtypes"}) \ {{}}
                 ELSE {{"supertypes"}}
    /\ pc = "resolve"
    /\ session = "up"
    /\ err = "none"
    /\ answer = NoAnswer
    /\ reported = <<>>
    /\ lost = FALSE

-----------------------------------------------------------------------------
(* compact.go.                                                             *)

\* Fault: one hit for each file.
FileKey(place) == place.file

\* The key of a hit. It does not hold the repository.
HitKey(place) == <<place.file, place.line>>

\* Fault: an entry that is no place becomes a hit.
KeepAny(c, entry) ==
    [c EXCEPT !.hits = IF Len(@) >= Limit THEN @ ELSE Append(@, entry),
              !.total = @ + 1]

\* One turn of the loop of compactLocations, incoming and outgoing.
Keep(c, entry) ==
    IF entry \notin Places \/ HitKey(entry) \in c.seen
    THEN c
    ELSE [seen  |-> c.seen \cup {HitKey(entry)},
          hits  |-> IF Len(c.hits) >= Limit THEN c.hits ELSE Append(c.hits, entry),
          total |-> c.total + 1]

\* The loop after each of its turns.
Turns(entries) ==
    LET c[n \in 0..Len(entries)] ==
            IF n = 0 THEN [seen |-> {}, hits |-> <<>>, total |-> 0]
            ELSE Keep(c[n - 1], entries[n])
    IN  c

Compact(entries) == Turns(entries)[Len(entries)]

\* The entries of a set, in the order of the reply.
Those(entries, kept) ==
    LET s[n \in 0..Len(entries)] ==
            IF n = 0 THEN <<>>
            ELSE IF entries[n] \in kept THEN Append(s[n - 1], entries[n]) ELSE s[n - 1]
    IN  s[Len(entries)]

\* decodeLocations. Locations without any URI are read again, as links; a
\* single location is like a list of one link.
Decode(shape, entries) ==
    LET withUri == Those(entries, Entries \ {Empty})
    IN  IF shape = "locations" /\ withUri # <<>> THEN entries ELSE withUri

\* The call sites of one caller, or its own position if it reports none.
Sites(caller) ==
    LET lines == IF caller.from = <<>> THEN <<caller.at>> ELSE caller.from
        entry(line) == IF caller.uri = Foreign THEN Foreign
                       ELSE [repo |-> caller.uri.repo, file |-> caller.uri.file,
                             line |-> line]
    IN  [i \in DOMAIN lines |-> entry(lines[i])]

\* relatives: no duplicate is removed, everything is counted, and the loop ends
\* with the cap.
Relatives(entries) ==
    LET usable == Those(entries, Places)
    IN  [hits  |-> SubSeq(usable, 1, IF Len(usable) < Limit THEN Len(usable) ELSE Limit),
         total |-> Len(entries)]

-----------------------------------------------------------------------------
(* Round trips. A step is a call of the service on the session with what   *)
(* the service does with the outcome.                                      *)

Replies == BoundedSeq(Entries, MaxItems)

Callers == [uri : Files \cup {Foreign}, at : Lines, from : BoundedSeq(Lines, 2)]

Shapes == {"locations", "links"}

Goto(place) == pc' = place

Fail(e) ==
    /\ pc' = "failed"
    /\ err' = e
    /\ UNCHANGED answer

\* call: why a call may fail, its own deadline told apart from the caller's.
\* Every call fails on a session that has ended.
Failures ==
    IF session = "up"
    THEN {"timeout", "context", "unsupported", "malformed", "ended"}
    ELSE {"ended"}

\* A call fails with e, and may find that the session has ended.
CallFails(e) ==
    /\ e \in Failures
    /\ session' = IF e = "ended" THEN "ended" ELSE session
    /\ lost' = (lost \/ e = "ended")
    /\ UNCHANGED <<tool, sides, reported>>

\* The same, where the query does not survive it.
QueryFails ==
    \E e \in Failures : CallFails(e) /\ Fail(e)

\* A call is answered.
Replied ==
    /\ session = "up"
    /\ UNCHANGED <<tool, sides, session, err, lost>>

\* Fault: no hint where there was something to report, though nothing usable.
HintIfSilent(entries, total) == IF entries = <<>> THEN "fallback" ELSE "none"

HintFor(entries, total) == IF total = 0 THEN "fallback" ELSE "none"

\* The answer made of compacted entries.
Report(entries) ==
    LET c == Compact(entries)
    IN  /\ Replied
        /\ answer' = [answer EXCEPT !.hits = c.hits, !.total = c.total,
                                    !.hint = HintFor(entries, c.total)]
        /\ reported' = entries
        /\ Goto("answered")

\* resolve: the position is checked, a session is taken from the pool and the
\* document is opened on it.
Resolve ==
    /\ pc = "resolve"
    /\ \/ Fail("resolve")
       \/ /\ Goto(CASE tool = "references"      -> "references"
                    [] tool = "incoming"        -> "prepareCalls"
                    [] tool = "outgoing"        -> "prepareCalls"
                    [] tool = "implementations" -> "implementations"
                    [] tool = "hierarchy"       -> "typeDefinition")
          /\ UNCHANGED <<err, answer>>
    /\ UNCHANGED <<tool, sides, session, reported, lost>>

FindReferences ==
    /\ pc = "references"
    /\ \/ \E entries \in Replies : Report(entries)
       \/ QueryFails

\* CallHierarchy: without an item there is nothing to ask about.
PrepareCalls ==
    /\ pc = "prepareCalls"
    /\ \/ /\ Replied
          /\ \/ /\ answer' = [answer EXCEPT !.rooted = TRUE]
                /\ Goto("calls")
             \/ /\ answer' = [answer EXCEPT !.hint = "fallback"]
                /\ Goto("answered")
          /\ UNCHANGED reported
       \/ QueryFails

Incoming ==
    /\ pc = "calls" /\ tool = "incoming"
    /\ \/ \E callers \in BoundedSeq(Callers, 2) :
             Report(FlattenSeq([i \in DOMAIN callers |-> Sites(callers[i])]))
       \/ QueryFails

Outgoing ==
    /\ pc = "calls" /\ tool = "outgoing"
    /\ \/ \E entries \in Replies : Report(entries)
       \/ QueryFails

\* Fault: what a server lacks is an error like any other.
Intolerant(e) == FALSE

\* IsMethodNotFound: clangd and gopls lack different methods.
Tolerated(e) == e = "unsupported"

Implementations ==
    /\ pc = "implementations"
    /\ \/ \E entries \in Replies, shape \in Shapes : Report(Decode(shape, entries))
       \/ \E e \in Failures :
             /\ CallFails(e)
             /\ IF Tolerated(e)
                THEN /\ answer' = [answer EXCEPT !.hint = "other"]
                     /\ Goto("answered")
                     /\ UNCHANGED err
                ELSE Fail(e)

\* typeDefinition, one of its two methods: only the first location counts, and
\* nothing that goes wrong is an error.
SeekDefinition(otherwise) ==
    \/ /\ Replied
       /\ \E entries \in Replies, shape \in Shapes :
             LET found == Decode(shape, entries)
             IN  IF found # <<>> /\ found[1] \in Places
                 THEN /\ answer' = [answer EXCEPT !.definition = found[1]]
                      /\ Goto("prepareTypes")
                 ELSE Goto(otherwise) /\ UNCHANGED answer
       /\ UNCHANGED reported
    \/ /\ \E e \in Failures : CallFails(e)
       /\ Goto(otherwise)
       /\ UNCHANGED <<err, answer>>

TypeDefinition == pc = "typeDefinition" /\ SeekDefinition("definition")

Definition == pc = "definition" /\ SeekDefinition("prepareTypes")

FirstSide == IF "supertypes" \in sides THEN "supertypes" ELSE "subtypes"

\* No item, or no type hierarchy in this server: the definition has to do.
NoHierarchy ==
    /\ answer' = [answer EXCEPT !.hint =
                     IF answer.definition = None THEN "fallback" ELSE "other"]
    /\ Goto("answered")

\* Fault: any error is taken for a missing method.
PrepareTypesAnyhow ==
    /\ pc = "prepareTypes"
    /\ \/ /\ Replied
          /\ \/ answer' = [answer EXCEPT !.rooted = TRUE] /\ Goto(FirstSide)
             \/ NoHierarchy
          /\ UNCHANGED reported
       \/ \E e \in Failures : CallFails(e) /\ NoHierarchy /\ UNCHANGED err

PrepareTypes ==
    /\ pc = "prepareTypes"
    /\ \/ /\ Replied
          /\ \/ answer' = [answer EXCEPT !.rooted = TRUE] /\ Goto(FirstSide)
             \/ NoHierarchy
          /\ UNCHANGED reported
       \/ \E e \in Failures :
             /\ CallFails(e)
             /\ IF Tolerated(e) THEN NoHierarchy /\ UNCHANGED err ELSE Fail(e)

\* relatives, on the side at which the query is.
AskSide(next) ==
    \/ /\ Replied
       /\ \E entries \in Replies : answer' = [answer EXCEPT ![pc] = Relatives(entries)]
       /\ Goto(next)
       /\ UNCHANGED reported
    \/ \E e \in Failures :
          /\ CallFails(e)
          /\ IF Tolerated(e) THEN Goto(next) /\ UNCHANGED <<err, answer>> ELSE Fail(e)

Supertypes ==
    /\ pc = "supertypes"
    /\ AskSide(IF "subtypes" \in sides THEN "subtypes" ELSE "answered")

Subtypes == pc = "subtypes" /\ AskSide("answered")

\* The daemon dies between two calls.
SessionEnds ==
    /\ session = "up"
    /\ pc \notin {"answered", "failed"}
    /\ session' = "ended"
    /\ UNCHANGED <<tool, sides, pc, err, answer, reported, lost>>

Next ==
    \/ Resolve \/ FindReferences \/ PrepareCalls \/ Incoming \/ Outgoing
    \/ Implementations \/ TypeDefinition \/ Definition \/ PrepareTypes
    \/ Supertypes \/ Subtypes \/ SessionEnds

Spec == Init /\ [][Next]_vars

-----------------------------------------------------------------------------

\* What a reader takes for one fact: a line of a file.
LineOf(place) == <<place.file, place.line>>

\* The first report of each line, in the order of the server.
Distinct(entries) ==
    LET first == {i \in DOMAIN entries :
                     /\ entries[i] \in Places
                     /\ \A j \in 1..(i - 1) :
                           entries[j] \in Places => LineOf(entries[j]) # LineOf(entries[i])}
    IN  [n \in 1..Cardinality(first) |->
            entries[CHOOSE i \in first : Cardinality({j \in first : j <= i}) = n]]

\* References, call edges and implementations are the first Limit distinct
\* lines the server reported, in its order, and the total counts those the cap
\* cut off (DEV_GUID.md:333, and compact.go:120: one hit for each file and
\* line), so "truncated" is true exactly when the cap has cut one off. A line
\* is that of compactLocations, whose key leaves the repository out: the same
\* line of like-named files in two repositories is one.
CompactionExact ==
    pc = "answered" /\ tool # "hierarchy" =>
        LET all == Distinct(reported)
        IN  /\ answer.total = Len(all)
            /\ answer.hits = SubSeq(all, 1, IF Len(all) < Limit THEN Len(all) ELSE Limit)

\* An answer without anything in it tells the agent where to go on, also when
\* all the server has reported is unusable. A type that has an item in the
\* hierarchy and neither definition nor relatives is the exception.
EmptyAnswersHint ==
    pc = "answered" /\ ~(tool = "hierarchy" /\ answer.rooted) =>
        \/ answer.hits # <<>>
        \/ answer.definition # None
        \/ answer.hint # "none"

\* Implementations and the type hierarchy, which only some servers can answer,
\* do not fail because this one lacks a method, at whatever point of the query
\* it says so. A call hierarchy does (service.go:280).
UnsupportedDegrades ==
    pc = "failed" /\ err = "unsupported" =>
        tool \in {"references", "incoming", "outgoing"}

\* A session that ended under a query is never mistaken for a server that
\* knows nothing: though the definition lookup swallows the failure, the query
\* fails in the end, and the caller may try again.
LostSessionFails == lost => pc # "answered"

=============================================================================
