---------------------------- MODULE SymbolQuery ----------------------------
(***************************************************************************)
(* The lookup tools of the MCP server (internal/mcpserver/server.go) over  *)
(* the cache and the indexer: resolve answers from the cache and, if that  *)
(* knows nothing, from a live scan, while indexing cycles rewrite the      *)
(* cache and working trees change. The four tools differ in the kinds and  *)
(* the names they ask for.                                                 *)
(*                                                                         *)
(* An invocation is one of RepoIndexer's Searches, whether or not it gets  *)
(* as far as to scan: its pc is "returned" or "failed" when resolve is.    *)
(***************************************************************************)
EXTENDS RepoIndexer

CONSTANTS
    NamesOf,     \* the names each query matches in the cache: its target, and
                 \* for a prefix query every name that extends it
    RepoFilters, \* the values of repo_name
    AnyRepo,     \* its absence
    LiveScan,    \* Deps.LiveScan
    MaxResults   \* maxResults

ASSUME QueryAssumption ==
    /\ DOMAIN NamesOf = Searches
    /\ \A q \in Searches : TargetOf[q] \in NamesOf[q]
    /\ RepoFilters \subseteq Repos \cup {AnyRepo}
    /\ AnyRepo \notin Repos
    /\ LiveScan \in BOOLEAN
    /\ MaxResults \in Nat \ {0}

VARIABLES
    asked, \* the repository each query is restricted to
    hit,   \* what the cache has answered
    calm   \* history: since it was asked no working tree has changed, and no
           \* file has been passed over that declares its target, whether it
           \* could not be read or the walk or its repository has missed it

queryVars == <<asked, hit, calm>>

QueryTypeOK ==
    /\ TypeOK
    /\ asked \in [Searches -> Repos \cup {AnyRepo}]
    /\ hit \in [Searches -> SUBSET Records]
    /\ calm \in [Searches -> BOOLEAN]

QueryInit ==
    /\ Init
    /\ asked = [q \in Searches |-> AnyRepo]
    /\ hit = [q \in Searches |-> {}]
    /\ calm = [q \in Searches |-> TRUE]

-----------------------------------------------------------------------------

Within(recs, repo) == {rec \in recs : repo = AnyRepo \/ rec.repo = repo}

\* Lookup, in one read transaction.
Cached(q, repo) == Within(Found(db, NamesOf[q], KindsOf[q]), repo)

\* resolve: the cache knows the name, or does not and is not trusted.
Answered(q, repo) ==
    /\ Cached(q, repo) # {}
    /\ \E best \in Best(Cached(q, repo), TargetOf[q], MaxResults) :
          hit' = [hit EXCEPT ![q] = best]
    /\ Goto(q, "returned")
    /\ UNCHANGED <<disk, edits, db, todo, toPut, txn, ended, cycleVars, searchVars, history>>

Missed(q, repo) ==
    /\ Cached(q, repo) = {}
    /\ UNCHANGED hit
    /\ IF LiveScan
       THEN StartSearch(q)
       ELSE /\ Goto(q, "returned")
            /\ UNCHANGED <<disk, edits, db, todo, toPut, txn, ended, cycleVars,
                           searchVars, history>>

\* The database cannot be read, or the repositories to scan not be listed.
LookupFails(q) ==
    /\ Goto(q, "failed")
    /\ UNCHANGED <<disk, edits, db, todo, toPut, txn, ended, cycleVars, searchVars,
                   history, hit>>

Ask(q) ==
    /\ pc[q] = "idle"
    /\ \E repo \in RepoFilters :
          /\ asked' = [asked EXCEPT ![q] = repo]
          /\ Answered(q, repo) \/ Missed(q, repo) \/ LookupFails(q)
    /\ UNCHANGED calm

\* Fault: the results of a live scan are returned as they are.
Unfiltered(q) == matches[q]

\* resolve applies the filter to what the scan has returned, capped already.
LiveAnswer(q) == Within(matches[q], asked[q])

\* The records the tool returns; none is the message that there are none.
Answer(q) == hit[q] \cup LiveAnswer(q)

NotFound(q) == pc[q] = "returned" /\ Answer(q) = {}

-----------------------------------------------------------------------------

Wanted(q, rec) == rec.name = TargetOf[q] /\ OfKind(q, rec)

\* The files that a scan has yet to come to.
Ahead(q) == {f \in Files : f \in todo[q] \/ RepoOf[f] \in unwalked[q]}

\* Of what this step leaves behind, nothing that was to be found is lost.
PassesNothingOver(q) ==
    \A f \in Ahead(q) \ Ahead(q)' : \A rec \in Declared(f, disk[f]) :
        Wanted(q, rec) => rec \in toPut'[q]

Scan(q) ==
    /\ WalkRepo(q) \/ SearchFile(q)
    /\ calm' = [calm EXCEPT ![q] = @ /\ (pc'[q] = "search" => PassesNothingOver(q))]
    /\ UNCHANGED <<asked, hit>>

EditTree(f) ==
    /\ Edit(f)
    /\ calm' = [q \in Searches |-> calm[q] /\ pc[q] = "idle"]
    /\ UNCHANGED <<asked, hit>>

QueryNext ==
    \/ \E q \in Searches :
          \/ Ask(q) \/ Scan(q)
          \/ /\ PutBegin(q) \/ SearchPut(q) \/ SearchEnds(q)
             /\ UNCHANGED queryVars
    \/ \E c \in Cycles :
          /\ \/ StartCycle(c) \/ ParseFile(c) \/ PutBegin(c) \/ CyclePut(c)
             \/ CrawlEnds(c) \/ PruneScan(c) \/ PruneBatch(c) \/ PruneFails(c)
             \/ CycleEnds(c)
          /\ UNCHANGED queryVars
    \/ \E w \in Workers : EndContext(w) /\ UNCHANGED queryVars
    \/ \E f \in Files : EditTree(f)

QuerySpec == QueryInit /\ [][QueryNext]_<<vars, queryVars>>

-----------------------------------------------------------------------------

(***************************************************************************)
(* A query that is told there is no such symbol, and during which no file  *)
(* changed and none that declares it was passed over, asked for a name     *)
(* that no file declares: a scan that a timeout cuts short is an error and *)
(* never an empty answer, whatever cycles invalidate meanwhile. The        *)
(* exception is a repository filter on a scan that stopped at its cap,     *)
(* though src/README.md:140-141 has a cold cache degrade "latency, never   *)
(* correctness".                                                           *)
(***************************************************************************)
NotFoundMeansAbsent ==
    \A q \in Searches :
        /\ LiveScan /\ NotFound(q) /\ calm[q]
        /\ asked[q] = AnyRepo \/ Cardinality(matches[q]) < MaxLive
        => \A f \in Files : \A rec \in Within(Declared(f, disk[f]), asked[q]) :
              ~Wanted(q, rec)

(***************************************************************************)
(* Whether the cache answers or a live scan, what the agent gets is of the *)
(* repository and of one of the kinds it asked for, also when the same     *)
(* name is declared elsewhere or has been something else before.           *)
(***************************************************************************)
FiltersHold ==
    \A q \in Searches : pc[q] = "returned" =>
        \A rec \in Answer(q) :
            (asked[q] # AnyRepo => rec.repo = asked[q]) /\ OfKind(q, rec)

=============================================================================
