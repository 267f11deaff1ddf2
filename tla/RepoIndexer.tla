---------------------------- MODULE RepoIndexer ----------------------------
(***************************************************************************)
(* Indexing cycles and live scans over one symbol cache                    *)
(* (internal/ast/indexer/indexer.go): IndexRepo, from the walk of the      *)
(* repository to the invalidation of what it did not find, SearchLive, and *)
(* the working trees, which are edited meanwhile.                          *)
(*                                                                         *)
(* A transaction of PutSymbol is two steps, its read and its commit: the   *)
(* database refuses a commit whose read has been overwritten since. The    *)
(* parsers are a function from the text of a file to its symbols, and the  *)
(* order of the symbols of one file is left open. A process that ends in   *)
(* the middle of a cycle is a cycle that takes no further step.            *)
(*                                                                         *)
(* Most errors are logged and passed over: a walk misses what it cannot    *)
(* read, a file that cannot be read or parsed contributes nothing, and so  *)
(* does a record that cannot be written.                                   *)
(***************************************************************************)
EXTENDS Naturals, SymbolStore

CONSTANTS
    Repos,
    Files,       \* every file there is or might be
    RepoOf,      \* the repository of each file
    NameOf,      \* its path within it
    Versions,    \* the symbols of each file, for every text it might have
    Absent,      \* the version of a file that does not exist
    Cycles,      \* the invocations of IndexRepo
    RepoFor,     \* the repository each of them indexes
    Searches,    \* the invocations of SearchLive
    TargetOf,    \* the name each of them looks for
    KindsOf,     \* the kinds it accepts, {} for all of them
    MaxLive,     \* its cap, maxLiveMatches
    DeleteBatch, \* records per prune transaction
    Refusable,   \* the names of symbols whose records may fail to be written
    MaxEdits,    \* bound: how often the working trees change
    MaxEnds      \* bound: how many contexts end early

ASSUME IndexerAssumption ==
    /\ RepoOf \in [Files -> Repos]
    /\ RepoFor \in [Cycles -> Repos]
    /\ DOMAIN TargetOf = Searches
    /\ DOMAIN KindsOf = Searches
    /\ Cycles \cap Searches = {}
    /\ Absent \notin Cycles
    /\ MaxLive \in Nat \ {0}
    /\ DeleteBatch \in Nat \ {0}
    /\ MaxEdits \in Nat
    /\ MaxEnds \in Nat

\* A path names one file of a repository, and a node of its syntax tree, by its
\* kind, name and offset, one declaration.
ASSUME PathsAndNodes ==
    /\ \A f, g \in Files : RepoOf[f] = RepoOf[g] /\ NameOf[f] = NameOf[g] => f = g
    /\ \A f \in Files : \A v \in Versions[f] \ {Absent} : \A s, t \in v :
          s.kind = t.kind /\ s.name = t.name /\ s.offset = t.offset => s = t

\* A node of a syntax tree gives a name to one declaration. Nearly always: in
\* `struct T { int x; } T(void);` a structure and a function of one name begin
\* at one offset (parser/clang.go), and share an entry of the name index.
NodesNamed ==
    \A f \in Files : \A v \in Versions[f] \ {Absent} : \A s, t \in v :
        /\ s.offset = t.offset
        /\ ({s.name} \cup s.aliases) \cap ({t.name} \cup t.aliases) # {}
        => s = t

VARIABLES
    disk,     \* the version of each file
    edits,    \* how often it changed
    db,       \* the database
    pc,       \* where each cycle or scan is
    todo,     \* files it has collected and not read
    toPut,    \* records it has parsed and not written
    txn,      \* its open transaction
    ended,    \* its context has ended
    live,     \* IndexRepo's live
    stale,    \* records PruneRepo has scanned and not deleted
    unwalked, \* repositories SearchLive has yet to walk
    matches,  \* SearchLive's matches
    produced, \* history: the keys of what a cycle has parsed
    missed,   \* history: the declarations it has not read or not written
    quiet,    \* history: since a cycle began nothing but itself has changed
              \* its repository's files or records
    pruned    \* history: whether it deleted anything

cycleVars  == <<live, stale>>
searchVars == <<unwalked, matches>>
history    == <<produced, missed, quiet, pruned>>
vars == <<disk, edits, db, pc, todo, toPut, txn, ended, cycleVars, searchVars, history>>

Workers == Cycles \cup Searches

Record(file, sym) ==
    [repo |-> RepoOf[file], file |-> NameOf[file], kind |-> sym.kind,
     name |-> sym.name, aliases |-> sym.aliases, offset |-> sym.offset,
     text |-> sym.text]

\* The records that the declarations of a file amount to (toRecord).
Declared(file, version) ==
    IF version = Absent THEN {} ELSE {Record(file, sym) : sym \in version}

Records == UNION {UNION {Declared(f, v) : v \in Versions[f]} : f \in Files}
Keys == {PrimaryKey(rec) : rec \in Records}
IndexEntries == UNION {IndexKeys(rec) \X {PrimaryKey(rec)} : rec \in Records}

\* What the working tree of a repository declares now.
OnDisk(repo) == UNION {Declared(f, disk[f]) : f \in {g \in Files : RepoOf[g] = repo}}

Existing(repo) == {f \in Files : RepoOf[f] = repo /\ disk[f] # Absent}

NoTxn == [rec |-> Absent]

TypeOK ==
    /\ \A f \in Files : disk[f] \in Versions[f]
    /\ edits \in 0..MaxEdits
    /\ db.recs \subseteq Records
    /\ \A k \in DOMAIN db.idx : <<k, db.idx[k]>> \in IndexEntries
    /\ pc \in [Workers -> {"idle", "crawl", "prune", "delete", "search",
                           "indexed", "returned", "failed"}]
    /\ todo \in [Workers -> SUBSET Files]
    /\ toPut \in [Workers -> SUBSET Records]
    /\ \A w \in Workers :
          \/ txn[w] = NoTxn
          \/ /\ txn[w].rec \in Records
             /\ txn[w].read \subseteq Records
             /\ txn[w].overtaken \in BOOLEAN
    /\ ended \in [Workers -> BOOLEAN]
    /\ live \in [Cycles -> SUBSET Keys]
    /\ stale \in [Cycles -> SUBSET Records]
    /\ unwalked \in [Searches -> SUBSET Repos]
    /\ matches \in [Searches -> SUBSET Records]
    /\ produced \in [Cycles -> SUBSET Keys]
    /\ missed \in [Cycles -> SUBSET Records]
    /\ quiet \in [Cycles -> BOOLEAN]
    /\ pruned \in [Cycles -> BOOLEAN]

Init ==
    /\ disk \in {d \in [Files -> UNION {Versions[f] : f \in Files}] :
                    \A f \in Files : d[f] \in Versions[f]}
    /\ edits = 0
    /\ db = EmptyDb
    /\ pc = [w \in Workers |-> "idle"]
    /\ todo = [w \in Workers |-> {}]
    /\ toPut = [w \in Workers |-> {}]
    /\ txn = [w \in Workers |-> NoTxn]
    /\ ended = [w \in Workers |-> FALSE]
    /\ live = [c \in Cycles |-> {}]
    /\ stale = [c \in Cycles |-> {}]
    /\ unwalked = [q \in Searches |-> {}]
    /\ matches = [q \in Searches |-> {}]
    /\ produced = [c \in Cycles |-> {}]
    /\ missed = [c \in Cycles |-> {}]
    /\ quiet = [c \in Cycles |-> FALSE]
    /\ pruned = [c \in Cycles |-> FALSE]


-----------------------------------------------------------------------------

Goto(w, state) == pc' = [pc EXCEPT ![w] = state]

\* Something in repo changes, by the hand of worker w or of nobody.
Disturb(repo, w) ==
    quiet' = [c \in Cycles |-> quiet[c] /\ (RepoFor[c] = repo => c = w)]

\* The transactions that have read one of these keys can no longer commit.
Overtaken(keys) ==
    [w \in Workers |->
        IF txn[w] # NoTxn /\ PrimaryKey(txn[w].rec) \in keys
        THEN [rec |-> txn[w].rec, read |-> txn[w].read, overtaken |-> TRUE]
        ELSE txn[w]]

Idle(w) == toPut[w] = {} /\ txn[w] = NoTxn

\* The context of a cycle or a scan ends, by its timeout or with the process.
\* An invalidation that is under way does not look.
EndContext(w) ==
    /\ pc[w] \in {"idle", "crawl", "search"}
    /\ ~ended[w]
    /\ Cardinality({v \in Workers : ended[v]}) < MaxEnds
    /\ ended' = [ended EXCEPT ![w] = TRUE]
    /\ UNCHANGED <<disk, edits, db, pc, todo, toPut, txn, cycleVars, searchVars, history>>

\* A commit, a branch switch, an editor.
Edit(f) ==
    /\ edits < MaxEdits
    /\ edits' = edits + 1
    /\ \E v \in Versions[f] \ {disk[f]} : disk' = [disk EXCEPT ![f] = v]
    /\ Disturb(RepoOf[f], Absent)
    /\ UNCHANGED <<db, pc, todo, toPut, txn, ended, cycleVars, searchVars,
                   produced, missed, pruned>>

-----------------------------------------------------------------------------
(* PutSymbol, in one cycle or scan.                                        *)

\* Update begins: the transaction reads what is stored under the key.
PutBegin(w) ==
    /\ txn[w] = NoTxn
    /\ \E rec \in toPut[w] :
          /\ txn' = [txn EXCEPT ![w] =
                        [rec |-> rec, read |-> Stored(db, rec), overtaken |-> FALSE]]
          /\ toPut' = [toPut EXCEPT ![w] = @ \ {rec}]
    /\ UNCHANGED <<disk, edits, db, pc, todo, ended, cycleVars, searchVars, history>>

\* Update commits. What it read it has not written if nothing has changed.
Commit(w) ==
    LET rec  == txn[w].rec
        read == txn[w].read
    IN  /\ db' = PutSymbol(db, rec, read)
        /\ txn' = [Overtaken(IF read = {rec} THEN {} ELSE {PrimaryKey(rec)})
                      EXCEPT ![w] = NoTxn]
        /\ IF db' = db THEN UNCHANGED quiet ELSE Disturb(rec.repo, w)
        /\ UNCHANGED <<produced, pruned>>

\* PutSymbol fails: Update has met a conflict or another error of the database,
\* or the record was not valid and Update has not begun.
PutFails(w) ==
    /\ txn[w].overtaken \/ txn[w].rec.name \in Refusable
    /\ txn' = [txn EXCEPT ![w] = NoTxn]
    /\ UNCHANGED <<db, produced, quiet, pruned>>

\* Fault: live is a set of names.
ProvedName(rec) == {rec.name}

ProvedKey(rec) == {PrimaryKey(rec)}

\* IndexRepo counts a record as live only if it could be written.
CyclePut(c) ==
    /\ txn[c] # NoTxn
    /\ \/ /\ ~txn[c].overtaken
          /\ Commit(c)
          /\ live' = [live EXCEPT ![c] = @ \cup ProvedKey(txn[c].rec)]
          /\ UNCHANGED missed
       \/ /\ PutFails(c)
          /\ missed' = [missed EXCEPT ![c] = @ \cup {txn[c].rec}]
          /\ UNCHANGED live
    /\ UNCHANGED <<disk, edits, pc, todo, toPut, ended, stale, searchVars>>

\* SearchLive returns a match whether or not it could be written, and returns
\* altogether when it has enough.
SearchPut(q) ==
    /\ txn[q] # NoTxn
    /\ (~txn[q].overtaken /\ Commit(q)) \/ PutFails(q)
    /\ matches' = [matches EXCEPT ![q] = @ \cup {txn[q].rec}]
    /\ IF Cardinality(matches'[q]) >= MaxLive
       THEN Goto(q, "returned") /\ toPut' = [toPut EXCEPT ![q] = {}]
       ELSE UNCHANGED <<pc, toPut>>
    /\ UNCHANGED <<disk, edits, todo, ended, cycleVars, unwalked, missed>>

-----------------------------------------------------------------------------
(* Indexer.IndexRepo.                                                      *)

\* What is declared in these files.
DeclaredIn(files) == UNION {Declared(f, disk[f]) : f \in files}

\* SafeRepoPath fails, or collectFiles, as it does once the context has ended.
\* Otherwise the walk has found what it could read.
StartCycle(c) ==
    /\ pc[c] = "idle"
    /\ \/ /\ Goto(c, "failed")
          /\ UNCHANGED <<todo, missed, quiet>>
       \/ /\ ~ended[c]
          /\ Goto(c, "crawl")
          /\ \E found \in SUBSET Existing(RepoFor[c]) :
                /\ todo' = [todo EXCEPT ![c] = found]
                /\ missed' = [missed EXCEPT ![c] =
                                 DeclaredIn(Existing(RepoFor[c]) \ found)]
          /\ quiet' = [quiet EXCEPT ![c] = TRUE]
    /\ UNCHANGED <<disk, edits, db, toPut, txn, ended, cycleVars, searchVars,
                   produced, pruned>>

\* One of the worker goroutines reads and parses a file, or fails to, while
\* the writer below is at work on the results.
ParseFile(c) ==
    /\ pc[c] = "crawl"
    /\ \E f \in todo[c] :
          /\ todo' = [todo EXCEPT ![c] = @ \ {f}]
          /\ LET recs == Declared(f, disk[f])
             IN  \/ /\ disk[f] # Absent
                    /\ toPut' = [toPut EXCEPT ![c] = @ \cup recs]
                    /\ produced' = [produced EXCEPT ![c] =
                                       @ \cup {PrimaryKey(r) : r \in recs}]
                    /\ UNCHANGED missed
                 \/ /\ missed' = [missed EXCEPT ![c] = @ \cup recs]
                    /\ UNCHANGED <<toPut, produced>>
    /\ UNCHANGED <<disk, edits, db, pc, txn, ended, cycleVars, searchVars, quiet, pruned>>

\* Fault: the context is not looked at again.
PruneAnyway(c) == TRUE

MayPrune(c) == ~ended[c]

\* The results are drained: every file is read, or the context has stopped the
\* goroutine that feeds the workers. Only the former goes on.
CrawlEnds(c) ==
    /\ pc[c] = "crawl"
    /\ Idle(c)
    /\ todo[c] = {} \/ ended[c]
    /\ Goto(c, IF MayPrune(c) THEN "prune" ELSE "failed")
    /\ UNCHANGED <<disk, edits, db, todo, toPut, txn, ended, cycleVars, searchVars, history>>

\* PruneRepo's scan.
PruneScan(c) ==
    /\ pc[c] = "prune"
    /\ stale' = [stale EXCEPT ![c] = Stale(db, RepoFor[c], live[c])]
    /\ Goto(c, "delete")
    /\ UNCHANGED <<disk, edits, db, todo, toPut, txn, ended, live, searchVars, history>>

\* One of its transactions, which read nothing and so cannot be refused.
PruneBatch(c) ==
    /\ pc[c] = "delete"
    /\ stale[c] # {}
    /\ \E batch \in SUBSET stale[c] :
          /\ \/ Cardinality(batch) = DeleteBatch
             \/ batch = stale[c] /\ Cardinality(batch) < DeleteBatch
          /\ db' = DeleteRecords(db, batch)
          /\ txn' = Overtaken({PrimaryKey(r) : r \in batch})
          /\ stale' = [stale EXCEPT ![c] = @ \ batch]
    /\ pruned' = [pruned EXCEPT ![c] = TRUE]
    /\ Disturb(RepoFor[c], c)
    /\ UNCHANGED <<disk, edits, pc, todo, toPut, ended, live, searchVars, produced, missed>>

\* The scan or a transaction fails: PruneRepo returns, and the cycle with it.
PruneFails(c) ==
    /\ pc[c] = "prune" \/ stale[c] # {}
    /\ Goto(c, "failed")
    /\ stale' = [stale EXCEPT ![c] = {}]
    /\ UNCHANGED <<disk, edits, db, todo, toPut, txn, ended, live, searchVars, history>>

CycleEnds(c) ==
    /\ pc[c] = "delete"
    /\ stale[c] = {}
    /\ Goto(c, "indexed")
    /\ UNCHANGED <<disk, edits, db, todo, toPut, txn, ended, cycleVars, searchVars, history>>

-----------------------------------------------------------------------------
(* Indexer.SearchLive.                                                     *)

StartSearch(q) ==
    /\ pc[q] = "idle"
    /\ Goto(q, "search")
    /\ unwalked' = [unwalked EXCEPT ![q] = Repos]
    /\ UNCHANGED <<disk, edits, db, todo, toPut, txn, ended, cycleVars, matches, history>>

\* Fault: what was found before the context ended is returned without an error.
CutShort(q) == Goto(q, "returned")

\* The context has ended, and so has the scan.
GiveUp(q) == Goto(q, "failed")

\* collectFiles, for one repository after the other. One that cannot be read is
\* skipped, before anything looks at the context.
WalkRepo(q) ==
    /\ pc[q] = "search"
    /\ Idle(q)
    /\ todo[q] = {}
    /\ \E repo \in unwalked[q] :
          /\ unwalked' = [unwalked EXCEPT ![q] = @ \ {repo}]
          /\ \/ ended[q] /\ GiveUp(q) /\ UNCHANGED todo
             \/ \E found \in SUBSET Existing(repo) :
                   /\ ended[q] => found = {}
                   /\ todo' = [todo EXCEPT ![q] = found]
                   /\ UNCHANGED pc
    /\ UNCHANGED <<disk, edits, db, toPut, txn, ended, cycleVars, matches, history>>

OfKind(q, rec) == KindsOf[q] = {} \/ rec.kind \in KindsOf[q]

Matching(q, recs) ==
    {r \in recs : TargetOf[q] \in {r.name} \cup r.aliases /\ OfKind(q, r)}

\* A file is passed over when it cannot be read or parsed, and when the target
\* does not occur in its text, as an alias need not.
SearchFile(q) ==
    /\ pc[q] = "search"
    /\ Idle(q)
    /\ todo[q] # {}
    /\ \/ /\ ended[q]
          /\ Goto(q, "failed")
          /\ UNCHANGED <<todo, toPut>>
       \/ /\ ~ended[q]
          /\ \E f \in todo[q] :
                /\ todo' = [todo EXCEPT ![q] = @ \ {f}]
                /\ \/ toPut' = [toPut EXCEPT ![q] = Matching(q, Declared(f, disk[f]))]
                   \/ UNCHANGED toPut
          /\ UNCHANGED pc
    /\ UNCHANGED <<disk, edits, db, txn, ended, cycleVars, searchVars, history>>

SearchEnds(q) ==
    /\ pc[q] = "search"
    /\ Idle(q)
    /\ todo[q] = {}
    /\ unwalked[q] = {}
    /\ Goto(q, "returned")
    /\ UNCHANGED <<disk, edits, db, todo, toPut, txn, ended, cycleVars, searchVars, history>>

-----------------------------------------------------------------------------

Next ==
    \/ \E c \in Cycles :
          \/ StartCycle(c) \/ ParseFile(c) \/ PutBegin(c) \/ CyclePut(c)
          \/ CrawlEnds(c) \/ PruneScan(c) \/ PruneBatch(c) \/ PruneFails(c)
          \/ CycleEnds(c)
    \/ \E q \in Searches :
          \/ StartSearch(q) \/ WalkRepo(q) \/ SearchFile(q)
          \/ PutBegin(q) \/ SearchPut(q) \/ SearchEnds(q)
    \/ \E w \in Workers : EndContext(w)
    \/ \E f \in Files : Edit(f)

Spec == Init /\ [][Next]_vars

-----------------------------------------------------------------------------

\* A cycle that ended well, and nothing has happened to its repository since
\* it began.
Undisturbed(c) == pc[c] = "indexed" /\ quiet[c]

(***************************************************************************)
(* An undisturbed cycle leaves no record that the working tree does not    *)
(* declare, and lacks none but those that it could not read or write       *)
(* itself, whatever cycles, scans and edits came before it and wherever    *)
(* they stopped or failed. If it could read and write everything, the      *)
(* cache is what the tree declares.                                        *)
(***************************************************************************)
CycleExact ==
    \A c \in Cycles : Undisturbed(c) =>
        LET here == {rec \in db.recs : rec.repo = RepoFor[c]}
        IN  OnDisk(RepoFor[c]) \ missed[c] \subseteq here /\ here \subseteq OnDisk(RepoFor[c])

(***************************************************************************)
(* An undisturbed cycle that had nothing to invalidate leaves every        *)
(* declaration that it has read and written reachable under its name and   *)
(* its aliases, with and without its kind: it repairs what an earlier      *)
(* invalidation took from the index. This is where NodesNamed holds: of    *)
(* two declarations that share an entry the one written last has it.       *)
(***************************************************************************)
RepeatHeals ==
    \A c \in Cycles : Undisturbed(c) /\ ~pruned[c] =>
        \A rec \in OnDisk(RepoFor[c]) \ missed[c] : \A n \in {rec.name} \cup rec.aliases :
            rec \in FoundByName(db, n) \cap Found(db, {n}, {rec.kind})

(***************************************************************************)
(* While nothing else changes its repository, a cycle takes a record that  *)
(* the working tree declares out of the cache only if the error was its    *)
(* own and it came to its end: it could not read the file or not write the *)
(* record. A cycle whose context ended before takes none, neither of these *)
(* nor of the files that it never came to.                                 *)
(***************************************************************************)
LosesOnlyMissed ==
    [][\A c \in Cycles : quiet'[c] =>
        \A rec \in db.recs \cap OnDisk(RepoFor[c]) :
            rec \in db'.recs \/ (rec \in missed[c] /\ ~ended[c])]_<<db, quiet>>

\* What a name lookup finds in one repository.
View(repo) ==
    {found \in db.recs \X {k[2] : k \in {i \in DOMAIN db.idx : i[1] = "name"}} :
        found[1].repo = repo /\ found[1] \in FoundByName(db, found[2])}

\* The repositories whose records the step of a worker writes or deletes.
Touched ==
    {RepoFor[c] : c \in {d \in Cycles : txn'[d] # txn[d] \/ stale'[d] # stale[d]}}
    \cup {txn[q].rec.repo : q \in {p \in Searches : txn[p] # NoTxn /\ txn'[p] = NoTxn}}

(***************************************************************************)
(* What can be looked up in one repository does not change by what is done *)
(* to another, even where both have the same file and symbol.              *)
(***************************************************************************)
ReposIndependent ==
    [][db' # db =>
        \A repo \in Repos \ Touched : View(repo)' = View(repo)]_db

(***************************************************************************)
(* README.md:303-305: the indexer "prunes every other `sym:<repo>:` key    *)
(* together with its three index entries". So what it keeps stays          *)
(* reachable by name.                                                      *)
(***************************************************************************)
KeptStaysReachable ==
    \A c \in Cycles : Undisturbed(c) =>
        \A rec \in OnDisk(RepoFor[c]) \ missed[c] : rec \in FoundByName(db, rec.name)

(***************************************************************************)
(* indexer.go:151-152: a cycle "invalidates every "sym:<repo>:" record     *)
(* that the fresh crawl did not produce".                                  *)
(***************************************************************************)
PruneSparesProduced ==
    \A c \in Cycles : \A rec \in stale[c] : PrimaryKey(rec) \notin produced[c]

=============================================================================
