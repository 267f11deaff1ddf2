# Verification of dotfs-mcp-server

The server gives a language model two ways into a workspace of repositories: a
cache of parsed symbols that it keeps in step with the working trees, and a pool
of language servers (gopls, clangd) that it drives over pipes. Both are
concurrent, both live with processes and files that change under them, and the
unit tests reach neither side's interleavings. The modules here are translated
from the Go code; comments name the functions they stand for, and `PROJECT.json`
maps each definition to its lines.

## 1. Inventory

| Component | State | Operations | Modelled in |
| --- | --- | --- | --- |
| LSP session, `internal/lsp/client.go`, `stdio.go` | id counter, pending map, reply channels, opened documents, exit error, `done`, `exited`, two pipes, the child | `Call`, `Notify`, `EnsureOpen`, `Shutdown`; the supervisor: `readLoop`, `dispatch`, `answerRequest`, `fail`, `Wait` | `LspClient`, `RpcSession`, `LspWire` |
| Language server pool, `internal/lsp/manager.go` | registered sessions, spawn attempts, closed flag | `ClientSession`, `spawn`, `Close` | `DaemonPool` |
| Protocol types, `internal/lsp/protocol.go` | none | encode, decode | the shape of a frame only |
| Symbol cache, `internal/ast/store` | primary records, three secondary indexes | `PutSymbol`, `Lookup`, `PruneRepo`, `FileSymbols`, `Stats` | `SymbolStore`, `RepoIndexer`, `Lookup` also in `SymbolQuery`; reading by file and `Stats` not |
| Indexer, `internal/ast/indexer` | per cycle: files, results, `live` | `IndexRepo`, `IndexAll`, `SearchLive`, `ReadSnippet` | `RepoIndexer`; `IndexAll` in `ServerRun`, `ReadSnippet` in `McpTools` |
| Management API, `internal/httpapi` | jobs under way | `handleUpdate`, `runIndexJob`, `TryStart`, `Finish` | `ServerRun` |
| Process lifecycle, `cmd/main.go` | root context, the goroutines it starts | `run`, `startValueLogGC` | `ServerRun` |
| Cross-reference service, `internal/xref` | one source cache per answer | `resolve`, `call`, five queries, compaction | `CrossReference`; the order of opening and asking in `LspWire` |
| MCP tools, `internal/mcpserver` | none | four lookup tools over `resolve` (cache, then live scan), four cross-reference tools with the advice of `xrefError`, `read_code_snippet` | `SymbolQuery`, `McpTools` |
| Parsers, `internal/ast/parser` | none | text to symbols | a function, in `RepoIndexer` |
| Capabilities, config, logger, utils | none | load, check, render | no |

How they interact. An MCP tool either asks the cache (`mcpserver.resolve`, which
falls back to `SearchLive`, which writes what it finds back to the cache) or asks
the cross-reference service, which takes a session from the pool, opens the
document on it and calls it. The management API and the crawl at start run
`IndexRepo`. So the cache has three kinds of writers, and one session serves any
number of goroutines at once. `run` starts all of it and stops it in reverse.

What is hard, and what correctness means:

* **LSP session.** Goroutines in `Call` race with the one that reads, with the
  end of the daemon and with `Shutdown`. Replies may be late, doubled or missing.
  Right means: an answer reaches the call that asked and no other, the read loop
  never blocks on a channel, the end of the daemon releases everybody, `Shutdown`
  leaves no child and ends, and bytes of two frames do not mix.
* **Pool.** The lock is not held during a spawn, daemons die at any time and
  `Close` comes at any time. Right means: one cold start per key at a time, one
  serving session per key, sessions handed out only after their handshake, none
  left behind by `Close`, and every request returns.
* **Cache and indexer.** Transactions are optimistic, cycles and scans overlap,
  files change during a cycle, cycles are cancelled or die half way through a
  prune. The walk, the parser and the database may fail for a file or a record, and
  the cycle goes on. Right means: a cycle nobody disturbs leaves what the tree
  declares but for what it could not read or write itself, what is kept can be
  found, and a cycle that is cancelled deletes nothing that is still declared.
* **MCP tools.** A lookup reads the cache while cycles prune it, then perhaps scans
  trees that change under a timeout; a cross-reference tool turns errors of six
  layers into advice. Right means: a query is answered from the repository and the
  kinds it asked for, "not found" is said only of what is not there, a session that
  died is not taken for a slow one, and a range of lines, whatever its ends, gives
  the lines it names.
* **Cross-reference service.** A query is up to five calls on a session that may
  end between any two, to servers that lack methods and answer anything. Right
  means: an answer is what the server reported, without duplicates, capped and
  counted exactly; what a server lacks degrades an answer and what has broken
  fails it; an empty answer says where to go on.
* **Management API and process lifecycle.** Requests, jobs, a crawl, a collector
  and two listeners run while `run` may fail at any step of its start, be
  signalled, or lose a listener. Right means: a slot of the tracker exists exactly
  as long as the job it stands for, the cache is closed after those who use it,
  and every way out of `run` reaches the end.

## 2. Modules and their correspondence to the code

**`LspClient`**: one session. `callPc[c]` is the place of one goroutine in
`Client.Call`: `track` before `trackCall`, `write` before `stdio.write`, `select`,
`forget` before `forgetCall`, `cancel` and `cancelWrite` in `notifyBestEffort`.
`reader` is the place of the supervisor goroutine, from `readLoop` through `fail`
(split at its two locks, at `close(done)` and at each send) to `Wait` and
`close(exited)`. `shut` is the place in the body of `shutdownOnce`; the call that
`shutdown` makes itself is the call `ShutdownCall`. A pipe is a sequence of
frames with a capacity: a writer that finds it full waits, which is what makes
the blocking hazards visible. The daemon is external: it reads, answers any
request it has read as often as it likes or never, sends requests, noise and
broken frames, and ends at any time. A frame carries, besides its id, the call it
was about, which the code does not see; `OwnReply` is about it.
A nil `cmd` (the in-process server of the unit tests) is not modelled, nor is
`Initialize`, which is one `Call` and one `Notify`.

**`RpcSession`**: what a session promises: each call ends at most once, with a
reply only if its request reached the daemon, with "session ended" only when the
session is down. `LspClient` implements it under the mapping `Rpc`.

**`LspWire`**: the writing half at the grain of single writes to the pipe:
`EnsureOpen`, its two critical sections and the file read between them, then
`Call`, each message as header and body, next to a read loop that answers the
server. `LspClient` takes a frame as one write, which is what `writeMu` is for;
`LspWire` shows where that is not so.

**`DaemonPool`**: `ClientSession` split at its critical sections and blocking
points: `lock`, `wait`, `spawn`, `init`, `teardown`, `publish` (the second
critical section), `signal` (`close(attempt.done)` and the returns), `orphan`.
A daemon is named after the request that spawns it, since a request spawns at
most once. `Client.Shutdown` is one step with the outcome that `LspClient`
establishes. A daemon has a read loop (`alive`) and a process (`proc`), which may
end separately.

**`SymbolStore`**: keys as tuples, and one operator per transaction on a
database value. `esc` and the padded offset make the string keys as good as
tuples. `Found` is `Lookup`'s walk of one of two indexes to the records, `Best`
what its sorting and its limit leave; a prefix query is given the set of names
that its prefix matches.

**`RepoIndexer`**: cycles and scans over that database. A `PutSymbol`
transaction is two steps, read and commit; a commit whose read key has been
written since is refused, which is the database's conflict rule. A cycle walks,
reads and parses files in any order while it writes results, then prunes in
batches. The walk finds any part of the files that exist, since `collectFiles` logs
what it cannot read and goes on; a file may fail to parse; and the writes of
some symbols (`Refusable`) may fail for reasons of their own, as may a prune. All three only shorten `live`, so that
the prune takes the records concerned with the rest: this is the code
(`indexer.go:205-208`, `220-225`, `461-463`, `484-487`), and the properties say that
the loss stops there. Files change between any two steps. A process that dies is a
cycle that takes no further step. `produced`, `missed`, `quiet` and `pruned` are
history variables: the keys of what a cycle has parsed, the declarations that it
passed over or could not write, whether anything but itself has changed its
repository since it began, whether it deleted anything.

**`SymbolQuery`** composes `RepoIndexer` with `resolve`: a query looks into the
cache (`Ask`, one read transaction) and returns what it finds, or becomes a live
scan, which is one of `RepoIndexer`'s and writes what it finds back, next to the
cycles. `Answer` is what the tool renders; an empty one is the message that there
is no such symbol. `calm` is a history variable: since the query was asked no tree
has changed and no file that declares the target has been passed over, be it by the
walk, in a repository that is skipped as unreadable, or by the parser. A timeout
that strikes while the last file is parsed is swallowed as a parse failure, so
that even the code's "not found" may be a timeout; `calm` excludes just that.

**`ServerRun`**: `stage` is the place of the main goroutine in `run`, one step per
resource it opens or waits for; a failing step goes on with the deferred calls
registered so far. `update[u]` and `job[u]` are the handler of a request and the
job it leads to, `active` the map of the `JobTracker`; `uncrawled` and `crawling`
are `IndexAll`. A cycle is its begin and end here, the rest is `RepoIndexer`.
`Manager.Close` is one step (`DaemonPool`). Signals follow `NotifyContext`: the
first ends the root context, and after `stop` the next one kills. `overran`
records that a shutdown returned with handlers left, `served` that `run` reached
its `select`. A server runs in a goroutine of its own: it is `starting` until it listens
(`up`) or finds its address taken (`refused`), and may fail later; connections that a
failed listener has accepted go on delivering requests. The management API's
`http.Server` exists before that goroutine, so that its `Shutdown` always counts.
The MCP library (version 0.58.0) makes its own within `Start`, so a `Shutdown` that
comes first does nothing and the listener may open afterwards (`MissMcp`).

**`CrossReference`**: one query of `internal/xref`. `pc` is the round trip it is
at; a step is one `Service.call` and what the service does with its outcome, so a
session can end between any two. The session fails calls the way `RpcSession`
promises, and the server may reply with any sequence of entries, also with URIs
that are no files and with links where locations are expected. Compaction is a
recursive function that takes the turns of the loop of `compactLocations`
(`Turns`), which `incoming` and `outgoing` also run, over the sites of their callers;
`CompactionExact` compares its outcome with a definition by index sets that knows
no loop. `relatives` counts and caps in a way of its own. Names, snippets and
characters are left out, and so is what `resolve` checks before it asks for a
session: any failure there is one branch.

**`McpTools`** composes `CrossReference` with the handlers: the arguments are
checked, the query runs, and `xrefError` turns its error into advice. `reply` is
that advice, told apart by what it asks the agent to do. A session that has ended
fails calls with the error of its read loop or of a write, so the advice for
`ErrDaemonExited` is only reached from the pool (`AdviceAtStart`). The same module
has `read_code_snippet`: `Wrap` is two's complement addition, `FirstLine` and
`LastLine` the clamps in the order of the code; path checks are one failure.

The modules whose names begin with `MC` are the instances; `MCSymbolQuery` and
`MCMcpTools` extend `MCRepoIndexer` and `MCCrossReference`, as the modules they
instantiate extend theirs.

## 3. Runs

| Run | Question | Instance |
| --- | --- | --- |
| `client_calls` | Do replies reach their callers, whatever the daemon does? Does the session implement `RpcSession`? | one call, one caller of `Shutdown` and the call that makes, pipes of two frames, 2.2 M states |
| `client_shutdown` | Does the end of a daemon release the calls, does `Shutdown` end, and is the child gone then? | two callers of `Shutdown`, shutdown's own call, pipes of one frame, fair |
| `client_hangs` | Does `Shutdown` always end? **No** | as above, one caller |
| `wire` | Is a document open before anything is asked about it? | two goroutines, one document, one answer of the read loop, 1.7 M states |
| `wire_frames` | Do frames stay whole? **No** | two goroutines, two documents |
| `pool` | Are cold starts shared, is a request handed a usable session, does it return, and does nothing survive `Close`? | three requests for one key, two closers, two tries, fair, 0.8 M states |
| `pool_daemons` | One process per key? **No** | two requests |
| `index` | Is a cycle exact but for what it missed, does it heal the indexes, does it lose only what it missed? Is a lookup answered from where it asked, and is "not found" true? | two cycles over one of two repositories, a query that is restricted to it and scans both, one edit, one end of a context, walks, files and writes that fail, 2.9 M states |
| `index_names` | Does what is kept stay reachable? **No** | two cycles, one edit |
| `index_conflict` | Is what was parsed kept? **No** | two cycles |
| `lifecycle` | Do slots follow jobs, does the cache close last, does `run` end? | two repositories, two update requests, one MCP call, fair, 1.0 M states |
| `xref` | Are answers compacted exactly, are empty ones explained, and is a broken session told from a server that knows nothing, or is slow? Is a snippet what was asked for? | three files in two repositories, two lines, a limit of two, replies of up to three entries; all ranges of four-bit integers over files of 1, 2, 5 and 7 lines with a cap of 3; 143 000 states |

Deadlock is not checked: in every instance the finite set of calls, requests or
cycles comes to its end, a session may really stop, and so may the server and a
query.

**Bounds.** The constants `PipeCap`, `MaxAnswers`, `MaxTries`, `MaxLive`,
`DeleteBatch`, `MaxEdits`, `MaxEnds`, `MaxResults`, `MaxItems`, `MaxInt` and
`MaxSnippetLines` and the sizes of the sets are all there are (`MaxLive`,
`MaxResults`, `DeleteBatch` and `MaxSnippetLines` are constants of the code made
small). Two calls, of which one is shutdown's, are enough to confuse their ids, to
fill a reply channel twice and to have one register while the other is aborted, next
to the end of the session that `Shutdown` brings about; a third makes the state space
too large to explore and is left to the proofs. A pipe of one or two frames is full
often. Three requests give a spawner and two waiters, or a spawner, its successor
after a death and a waiter; the code tries three times, and with two tries a request
already goes round its loop again after a dead session and gives up after the next
(`pool_daemons` has three). Two cycles and a scan give each pair of writers, and
versions of a file that differ in kind and alias, drop a declaration, or are missing
reach each branch of the delta check and of the prune; a batch of one record makes a
prune of several transactions. One context ends early, that of a cycle or that of the
query: a second one would end a worker that the first does not wait for. Every write
may meet a conflict; the second symbol of the file is `Refusable`, so that a cycle
loses one declaration of a file and keeps the other. The query is restricted to the
repository of the cycles: without a restriction `resolve` does the same and filters
nothing. The query's target is declared in both repositories, by a struct, as an
interface and next to a name that extends it, so that the cache holds more than one
result where the limit is one, a scan goes on after its first match and stops at its
cap (two), which the other repository helps to fill, and a filter by repository or
kind has something to reject. Four-bit integers hold every boundary of the clamps:
both ends of the width, zero, the length of the file and the cap on either side. Two
update requests contend for a slot or own one each, and a crawl of two repositories
can be ended between them; signals and failures are not bounded. A reply of three
entries over two lines of three files holds a duplicate next to a new line, an
unusable entry before, between or after them, and one hit more than the limit of two;
callers report up to two lines each. The limit is 20 in the code and enters only
through comparisons with the number of hits.

**Fairness.** `LspClient` and `DaemonPool` assume that goroutines that can run
do run (weak fairness per goroutine) and that the timer of the grace window
fires. Writers of one pipe queue on it, so a writer that finds room again and
again gets its turn (strong fairness of the writes). Nothing is assumed of the
daemon, and no context is assumed to end, with one exception that the formulas
name themselves: the two-second context of shutdown's own call
(`DrainedShutdownEnds`, `ShutdownEnds`). In `DaemonPool` the fairness of
`InitializeFails` and of the shutdown steps rests on the init timeout and on
`Client.Shutdown` ending; the former bounds the wait for the answer, the latter is
what `DrainedShutdownEnds` shows for a daemon that goes on reading and
`client_hangs` refutes for one that does not. `RequestsReturn` is therefore as
good as that assumption. `LspWire`, `RepoIndexer`,
`SymbolQuery`, `CrossReference` and `McpTools` check safety only. `ServerRun` assumes that the main
goroutine runs, which for `ClosePool` supposes that `Manager.Close` returns (see
`client_hangs`), that a pass of the collector ends, and that its `select`, which
picks at random among the ready cases, does not prefer the ticker for ever (strong
fairness). Requests, jobs, calls and cycles need not make progress: `RunEnds` holds
without.

## 4. What the code does not do as it says

* **`client_hangs`.** `shutdown` writes a request and a notification before it
  closes stdin and signals. The writes have no deadline. A daemon that has
  stopped reading a full pipe holds `Shutdown`, though its comment promises that
  the process tree is gone within the grace window. The read loop is exposed to
  the same through `answerRequest`.
* **`wire_frames`.** `stdio.write` writes the header before it takes `writeMu`.
* **`pool_daemons`.** The pool judges a session by its read loop. When that has
  stopped on a bad frame and the process runs on, the pool drops the session
  without shutting it down and starts a second process.
* **`index_names`.** The name index key has no kind. When a declaration changes
  kind in place, the prune of the old record takes the entry of the new one with
  it. `RepeatHeals` shows that the next cycle that prunes nothing puts it back,
  where no two declarations of a file share a name and an offset (`NodesNamed`).
* **`index_conflict`.** A second cycle of the repository, or a scan, that commits a
  key while a cycle's transaction is open on it makes the cycle leave that key out
  of `live` and prune it.

Without a run of its own, since it is what `NotFoundMeansAbsent` names as its exception:
a live scan stops at 25 matches in any repository, and `resolve` applies the repository
filter to what it returns. With a cold cache a query for one repository can be told that
there is no such symbol though the repository declares it; a warm cache applies the
filter before the limit. `src/README.md:140-141` has it otherwise ("A cold cache
therefore degrades latency, never correctness"), and so do lines 330-332 ("every
declaration is returned and the caller can disambiguate with `repo_name`").

Also met, and without a run: a panic in a parsing goroutine ends the process,
while the comment on `Finish` has it release the slot; after a signal the MCP
server's shutdown gets a context that has already ended, so MCP calls are not
awaited while the pool and the cache close; crawls and jobs are never awaited. A signal that comes
right after the start can shut the MCP server down before it exists; its listener may
then open while the rest closes, and `DrainedBeforeClose` says nothing of its calls.
A file that cannot be read or parsed for once, a directory that cannot be walked, a
record that the database refuses: their records are pruned as if the declarations were
gone, and come back with the next cycle or scan. The
crawl at start takes no slot in the tracker, so an update request for the
repository it is at is accepted (`requirements.md:98` has it refused); what two
cycles do to one repository is in the run `index_conflict`. A type with an item in the
hierarchy but neither a definition nor relatives is answered without a hint
(`DEV_GUID.md:334`: "An empty answer always carries a `hint`"), which is the
exception in `EmptyAnswersHint`. The key by which hits are deduplicated holds no
repository, so the same line of files of the same path in two repositories is one
hit, and "truncated" does not count the other; `CompactionExact` has lines the same way.
A call hierarchy fails where a server lacks the method of its second call
(`service.go:280`), while implementations and the type hierarchy degrade
(`UnsupportedDegrades`). Of the tools: `ErrDaemonExited` never reaches a call in flight
(`client.go:265-271` always has an error of the read loop to give, and a failed
pending call gets a `ResponseError`), so a crash during a query is answered with
the bare error, while `server.go:608-609` has every branch tell the agent how to go
on. A scan's byte filter (`indexer.go:435`) rejects a qualified name such as
`Server.Handle`, which `server.go:126-127` offers as a target, since only the cache
knows it. A scan that runs out
of its 30 seconds has cached what it found, and the next query is answered from that
part. A method whose receiver is renamed is still found under its old alias. In C,
`struct T { int x; } T(void);` declares a structure and a function of one name at one
offset (`clang.go:96`, `clang.go:107`): they share an entry of the name index, and
whichever is written last is the only one found by name alone, whatever is repaired.

## 5. Proofs

Every safety property that a passing run checks is proved here too, for every value
of the constants, and so is the refinement. The modules are `LspClient_proofs`,
`LspWire_proofs`, `DaemonPool_proofs`, `ServerRun_proofs`, `SymbolQuery_proofs`,
`RepoIndexer_proofs` (which extends it), `CrossReference_proofs` and `McpTools_proofs`
(likewise). Of the constants nothing is assumed but the modules' named assumptions,
which TLC evaluates on every run, and in one theorem `NodesNamed`, which the instance of
`index` is checked to satisfy.

`LspClient_proofs` proves `TypeOK`, `SendNeverBlocks`, `OwnReply`, `SlotsReleased` and
`ShutdownReaps` for any number of calls and of callers of `Shutdown`, pipes of any
capacity and a daemon that does as it likes, and that `LspClient` implements
`RpcSession`. An answer to a call goes through four places: the daemon, the pipe,
the hands of `dispatch` and the call's channel. The invariant follows it.
An id belongs to one call from its registration on (`IdsOwned`), and the pending map
holds the call under its own id (`PendingOwned`); a request in the pipe or at the
daemon carries the id of its call (`RequestsOwned`), a reply in the pipe is to a request
that was read (`RepliesAsked`), so what `dispatch` takes from the map is the call the
reply is about (`CarriesOwn`). That a send never blocks is `OneAnswer`: the right to
send one message to a call is in one place at a time, in the map, with `dispatch`, with
`fail`, or used up, because both take the call out of the map before they send.
`AnswersTrue` and `ResultsTrue` carry this into what calls return. `EndsInOrder` has
the order of the end: `done` is closed after the read loop, `exited` after `Wait`, and
no `Shutdown` returns before `shut` is finished. For the refinement each action is
shown to leave the mapped state alone or to be one step of `RpcSession`: `Received` and
outcomes change for one call at a time (`ReceivedSteps`, `OutcomeSteps`), the former
only when the daemon reads a request, the latter only to what `ResultsTrue` allows
(`StepImplements`).

`LspWire_proofs` proves `TypeOK` and `RequestAfterOpen` for any goroutines and documents.
`opened` tells the truth about the wire (`OpenedTrue`), and so does the place of a
goroutine that is past opening (`PastOpening`), which is what bridges the gap between the
two critical sections of `EnsureOpen`; the wire only grows (`WireGrows`), so what was
true of it stays so. Two frames may mix there (`wire_frames`); the order of their
chunks is right nevertheless.

`DaemonPool_proofs` proves, for every set of requests, keys and closers and every
number of tries, that the pool keeps `TypeOK`, `SingleFlight`,
`OneServingSession`, `HandedReady`, `ClosedPoolEmpty` and `NoSessionOutlivesPool`.
The only assumption is `PoolAssumption`, which TLC evaluates on every pool run.

None of these is inductive by itself. `OneServingSession`, for one, is about
sessions, while a step of `SpawnStart` is guarded by the place of a request; what
connects them is that a serving session is either still in the hands of the
request that spawns it, or registered under its key, or about to be shut down
(`ServingOwned`, `ServingDoomed`), and that a request that spawns owns the
attempt of its key (`InFlightOwned`), which nobody takes while a session is
registered. `IInv` is the conjunction of these named parts with what they need in
turn: what is registered has finished its handshake (`RegisteredReady`), an
attempt's result belongs to its place (`AttemptSettled`), a waiter waits for an
attempt of its own key (`WaitsForKey`), a session serves only from its start on
(`ServesAfterStart`), what is handed out is settled (`HandedSettled`). There is
one lemma per part, `<Part>Preserved`, with one step per action that touches it;
`Invariance` combines them, and the theorems follow from `IInv`. TLC agreed
to `IInv` on an instance with three requests for one key before it was proved.

`ServerRun_proofs` proves `JobsExclusive` and `SlotMeansJob` from `JobIInv` and
`TypeOK`, `CollectorStopsFirst` and `DrainedBeforeClose` from `ExitIInv`. The first
two need only that a job belongs to an accepted request and that a request names a
repository from its arrival on (`JobsAccepted`): `SlotMeansJob` says that a free
slot has no holder, so claiming it keeps `JobsExclusive`, and `JobsExclusive` that
a slot has one holder, so giving it back keeps `SlotMeansJob`. The others need the
order of stages (`StagesInOrder`), what has been waited for since
(`CollectorDone`, `Drained`) and that listeners do not reopen (`ListenersOnce`).
`RunEnds` is liveness and stays with TLC. The instance of `pool` has one key,
which is why the proofs for any keys matter there.

`CrossReference_proofs` holds two inductive invariants, one about the session and one
about the answer. From the first it proves `LostSessionFails` and `UnsupportedDegrades` for
every set of files and lines, limit and size of replies. The invariant says where
a query may be that has found its session ended (`LostStays`: only where it makes
a further call, or failed) and which query is at which round trip
(`QueryOwnsPlace`). A round trip advances, breaks or skips (`Advances`, `Breaks`,
`Skips`); one lemma says what each keeps, and each action is one of them.

From the second it proves `CompactionExact` and `EmptyAnswersHint`. The compaction is a loop over a
reply of any length, so this is induction over data, which the library's theorems
cannot give these provers, since they take an operator. It is given here in the form of
sets: a set of numbers that holds 0 and every successor holds them all
(`Induction`; otherwise the intervals 0..n whose end it misses have a least one, by the
well-founded order of finite sets), and from it that a loop has a state after each of its
turns (`Recursion`). The loop keeps `LoopInv`: after n entries it has seen the keys of the
usable ones among them, counted their first occurrences, and kept the first `Limit` of
those in order. `CompactIs` is the end of the loop, and `CompactExact` compares it with the
definition by index sets, whose ranks tell first occurrences apart (`RankUnique`). `AnswerInv`
adds to the types that the hits are those of the entries they are made from (`Compacted`),
that only the hierarchy asks for definitions and relatives (`HierarchyOwnsPlace`), and
`EmptyAnswersHint`: each way out of a query either reports, fails or goes on
(`ReportAnswers`, `FailAnswers`, `GoesOn`).

`SymbolQuery_proofs` proves `NotFoundMeansAbsent` and `FiltersHold` for any
repositories, files, versions, cycles and queries, of the composition of cycles,
scans, edits and lookups. `NotFoundMeansAbsent` needs to
know where a wanted declaration can be while a calm scan runs (`ScanLosesNothing`):
in a repository it has yet to walk, in a file it has yet to read, or in what it has
parsed, has in its transaction or has matched; and that a scan returns only when
the first three are exhausted or at its cap. `FiltersHold` needs that all
of these are of the kind asked for (`Fits`) and that the records a lookup reaches
are of the kind in the index key (`CacheSound`: an entry of the database leads to a
key of its own kind). That cycles do not touch the scans and scans not each other
is one lemma (`KeptScan`) for all steps of others. The assumptions are
`IndexerAssumption` and `QueryAssumption`. `QueryTypeOK`, proved there as well, says more
than types: whatever has been pruned and written, every entry of an index is the entry of
some record that some text of a file declares, and leads to that record's key.

`RepoIndexer_proofs` proves `CycleExact`, `LosesOnlyMissed`, `RepeatHeals` and
`ReposIndependent` of the same composition. For the first two the invariant `EInv`
says, of a cycle that nobody has disturbed, where each declaration of its tree is
(`Crawling`): in a file it has yet to read, parsed and coming, in the cache with its
key in `live`, or among what the cycle has missed; and then what remains (`Settled`,
`Exact`): after the crawl the cache holds at least what was not missed, with the keys
in `live`, and during the invalidation nothing but the tree and the list `stale`, in
which only what was missed shares a key with a declaration. This rests on two facts
about the store: a key holds one record (`KeysHoldOne`), and a transaction that nobody
has overtaken has read what is stored now (`ReadsCurrent`), without which the delta
check could skip a write that is due. That an undisturbed cycle never meets a conflict
is part of it: a commit that overtakes its transaction is of the same key, hence of the
same repository, and disturbs it. That a cancelled cycle takes nothing needs that none
is ever past its crawl (`PrunesInTime`). `PathsAndNodes` is assumed: two files of a
repository have two paths, and two nodes of a file differ in kind, name or offset.
`RepeatHeals` is proved under `NodesNamed` (a node gives a name to one declaration),
since two declarations that share an entry of the name index cannot both be found by it
(section 4). The invariant `HInv` says, of an undisturbed cycle that has deleted nothing,
that each declaration of the tree whose key is in `live` is reachable under all its names
(`Healing`), and that past the crawl these are all that it has not missed (`AllLive`). Each step lets such a
cycle go on (`EveryStepGoesOn`): it leaves the entries of its repository alone, or writes one
record of the tree, whose entries are no other's (`EntriesApart`), or deletes. A write refreshes
the entries also where the delta check skips the record, and that is all the proof needs
of it.
`ReposIndependent` needs that index entries lead to records of the repository in
their key (`KeysTellRepo`), so that no write or invalidation takes an entry of
another repository, and that a cycle writes records of its own (`OwnRecords`).

`McpTools_proofs` proves `SnippetExact` for integers of any width, any cap and any
file: no addition overflows that `LastLine` makes (`LastLineIs`), and the clamped
bounds are those of the lines asked for (`Clamped`). It proves `DeadNotCalledSlow`
from the invariant of `CrossReference_proofs` and one part more: what a query fails
with after it has found the session ended is that end (`LostIsTold`). `McpTypeOK`, and
`CompactionExact` and `EmptyAnswersHint` under the handlers of the tools
(`ToolCallAnswers`), follow from `AnswerInv`, which the handlers' own steps leave alone.

Only model-checked: liveness under fairness (`RequestsReturn`, `RunEnds`,
`DeathReleasesCalls`, `DeadSessionShutsDown`, `DrainedShutdownEnds`), which is out of the
prover's reach, as is `ENABLED`; and the five runs that refute something, which are
counterexamples.

## 6. Not modelled

Parsers, JSON, URIs and file-path checks are pure functions whose bugs are not
about order; the models take their results as given. A parser is a walk over the
tree that a third-party grammar builds: what it gets wrong depends on trees that a
model would have to invent. `list_repo_capabilities` renders statistics of the
cache and an embedded file. Which process a reused pid
names is not modelled. Opening, compacting and garbage-collecting the database
are the database's. Start-up file work (`preconfig`, `initGopls`) runs once
before anything is concurrent. Panics that end the process are crashes.

## 7. Plan

In order of importance; the first group is done.

1. `LspClient` with `RpcSession`, `LspWire`, `DaemonPool` with its proofs,
   `SymbolStore` and `RepoIndexer`, `ServerRun` and `CrossReference` with their
   proofs; `SymbolQuery` over `RepoIndexer` and `McpTools` over `CrossReference`,
   with theirs.
2. Proofs of every safety property that the passing runs check, and of the refinement
   of `RpcSession`: done. Next, the safety halves of the liveness properties: which
   places of a goroutine can only be left by another one.
3. `identifierAt` and the positions of `internal/xref`, as operators, if a defect
   ever shows that the clamping of columns is not as simple as it looks.
