------------------------------ MODULE McpTools ------------------------------
(***************************************************************************)
(* One call of a tool of the MCP server (internal/mcpserver/server.go) by  *)
(* an agent: a cross-reference tool, from its arguments through the query  *)
(* of CrossReference to what the agent is told, or read_code_snippet. The  *)
(* lookup tools are in SymbolQuery. Wording is data: a reply is what it    *)
(* advises the agent to do.                                                *)
(***************************************************************************)
EXTENDS CrossReference, Integers

CONSTANTS
    MaxSnippetLines,
    MaxInt,      \* the largest int
    LineArgs,    \* what start_line and end_line may be
    FileLengths  \* the lines of a file; an empty file has one

MinInt == -MaxInt - 1

ASSUME McpAssumption ==
    /\ MaxInt \in Nat
    /\ MaxSnippetLines \in 1..MaxInt
    /\ LineArgs \subseteq MinInt..MaxInt
    /\ FileLengths \subseteq 1..MaxInt

VARIABLES
    range, \* the range and the length of the file of a snippet, or None
    reply, \* what the agent is told
    lines  \* the lines of the snippet

Ranges == [start : LineArgs, end : LineArgs, length : FileLengths]

\* Of a query that could not be started, those errors of resolve that are told
\* apart: of the context, the pool and the language of the file.
StartErrors == {"deadline", "noCompileCommands", "noGoModule", "language",
                "goLanguage", "daemonExited", "other"}

Advice == {"retryIndexed", "addCompileCommands", "lookupSymbol", "otherFile",
           "otherTool", "retryOnce", "failed"}

McpTypeOK ==
    /\ TypeOK
    /\ range \in Ranges \cup {None}
    /\ reply \in {"none", "checked", "argument", "unreadable", "outOfRange",
                  "snippet", "answer"} \cup Advice
    /\ lines \subseteq 1..MaxInt

McpInit ==
    /\ Init
    /\ \/ range = None
       \/ tool = "references" /\ range \in Ranges
    /\ reply = "none"
    /\ lines = {}

-----------------------------------------------------------------------------
(* ReadSnippet.                                                            *)

\* Two's complement, for what one addition may overflow by.
Wrap(n) ==
    IF n > MaxInt THEN n - 2 * (MaxInt + 1)
    ELSE IF n < MinInt THEN n + 2 * (MaxInt + 1)
    ELSE n

\* Fault: only the end of the range is clamped.
AsGiven(start) == start

FirstLine(start) == IF start < 1 THEN 1 ELSE start

\* The end that the cap leaves of a range that is not empty.
LastLine(first, end) ==
    IF Wrap(Wrap(end - first) + 1) > MaxSnippetLines
    THEN Wrap(Wrap(first + MaxSnippetLines) - 1)
    ELSE end

\* The arguments are no strings and integers, or there is no such file to be
\* read in the repository.
SnippetRefused == \E r \in {"argument", "unreadable"} : reply' = r /\ UNCHANGED lines

ReadSnippet ==
    /\ range # None
    /\ reply = "none"
    /\ LET first == FirstLine(range.start)
           last  == LastLine(first, range.end)
       IN  \/ SnippetRefused
           \/ /\ range.end < first \/ first > range.length
              /\ reply' = "outOfRange"
              /\ UNCHANGED lines
           \/ /\ range.end >= first /\ first <= range.length
              /\ reply' = "snippet"
              /\ lines' = first..(IF last > range.length THEN range.length ELSE last)
    /\ UNCHANGED <<vars, range>>

-----------------------------------------------------------------------------
(* The cross-reference tools.                                              *)

\* positionFrom, and the direction of a call hierarchy.
CheckArguments ==
    /\ range = None
    /\ reply = "none"
    /\ reply' \in {"argument", "checked"}
    /\ UNCHANGED <<vars, range, lines>>

\* The query runs.
Query ==
    /\ range = None
    /\ reply = "checked"
    /\ Next
    /\ UNCHANGED <<range, reply, lines>>

\* xrefError, for an error of resolve.
AdviceAtStart(cause) ==
    CASE cause = "deadline"          -> "retryIndexed"
      [] cause = "noCompileCommands" -> "addCompileCommands"
      [] cause = "noGoModule"        -> "lookupSymbol"
      [] cause = "language"          -> "otherFile"
      [] cause = "goLanguage"        -> "otherTool"
      [] cause = "daemonExited"      -> "retryOnce"
      [] cause = "other"             -> "failed"

\* Fault: whatever the session did is blamed on its being slow.
AdviceIfSlow(e) == IF e \in {"timeout", "context", "ended"} THEN {"retryIndexed"} ELSE {"failed"}

\* xrefError, for a call that failed: the caller's context may have met its
\* deadline or been cancelled. The error of a session that has ended is that
\* of its read loop or of a write, never ErrDaemonExited.
AdviceFor(e) ==
    CASE e = "timeout" -> {"retryIndexed"}
      [] e = "context" -> {"retryIndexed", "failed"}
      [] OTHER         -> {"failed"}

Respond ==
    /\ range = None
    /\ reply = "checked"
    /\ \/ pc = "answered" /\ reply' = "answer"
       \/ /\ pc = "failed" /\ err = "resolve"
          /\ \E cause \in StartErrors : reply' = AdviceAtStart(cause)
       \/ /\ pc = "failed" /\ err # "resolve"
          /\ reply' \in AdviceFor(err)
    /\ UNCHANGED <<vars, range, lines>>

McpNext == ReadSnippet \/ CheckArguments \/ Query \/ Respond

McpSpec == McpInit /\ [][McpNext]_<<vars, range, reply, lines>>

-----------------------------------------------------------------------------

\* A snippet is the first MaxSnippetLines of the requested lines that the file
\* has, and only a range without any line is turned down, for all integers: no
\* order of the clamps and no overflow lets a range escape the cap or the file.
SnippetExact ==
    LET existing == {i \in 1..range.length : range.start <= i /\ i <= range.end}
    IN  /\ range # None /\ reply = "snippet" =>
              /\ existing # {}
              /\ lines = {i \in existing : \A n \in existing :
                              i - n < MaxSnippetLines}
        /\ range # None /\ reply = "outOfRange" => existing = {}

\* Once a call of its query has failed because the session has ended, an agent
\* is not told that the server is slow and to be waited for: the definition
\* lookup swallows such a failure, and what the next call fails with is still
\* the end of the session and no timeout.
DeadNotCalledSlow == lost => reply # "retryIndexed"

=============================================================================
