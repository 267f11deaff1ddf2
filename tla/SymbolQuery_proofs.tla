------------------------- MODULE SymbolQuery_proofs -------------------------
(* What queries and indexing cycles promise, for every set of repositories *)
(* and files, any number of queries and cycles, and every cap.             *)
EXTENDS SymbolQuery, FiniteSetTheorems, TLAPS

-----------------------------------------------------------------------------
(* The inductive invariant, part by part.                                  *)

Domains ==
    /\ DOMAIN pc = Workers
    /\ DOMAIN todo = Workers
    /\ DOMAIN toPut = Workers
    /\ DOMAIN txn = Workers
    /\ DOMAIN ended = Workers
    /\ DOMAIN stale = Cycles
    /\ DOMAIN unwalked = Searches
    /\ DOMAIN matches = Searches
    /\ DOMAIN asked = Searches
    /\ DOMAIN hit = Searches
    /\ DOMAIN calm = Searches

TxnShape ==
    \A w \in Workers : txn[w] # NoTxn => DOMAIN txn[w] = {"rec", "read", "overtaken"}

\* The cache is finite, and an entry of the type index leads to the key of a
\* record of its kind.
CacheSound ==
    /\ IsFiniteSet(db.recs)
    /\ \A k \in DOMAIN db.idx : k[1] = "type" => db.idx[k][4] = k[2]

\* The context of a cycle that has come to its invalidation has not ended before.
PrunesInTime ==
    \A c \in Cycles :
        /\ pc[c] \in {"prune", "delete"} => ~ended[c]
        /\ stale[c] # {} => pc[c] = "delete"

\* Where a record is that a scan has met.
Underway(q, rec) ==
    rec \in toPut[q] \/ (txn[q] # NoTxn /\ rec = txn[q].rec) \/ rec \in matches[q]

\* A scan loses nothing that it is to find.
ScanLosesNothing(q) ==
    calm[q] /\ pc[q] = "search" =>
        \A f \in Files : \A rec \in Declared(f, disk[f]) :
            Wanted(q, rec) => f \in Ahead(q) \/ Underway(q, rec)

\* And when it returns it has found it, or enough.
ScanFinds(q) ==
    calm[q] /\ pc[q] = "returned" /\ hit[q] = {} /\ LiveScan =>
        \/ Cardinality(matches[q]) >= MaxLive
        \/ \A f \in Files : \A rec \in Declared(f, disk[f]) :
              Wanted(q, rec) => rec \in matches[q]

\* All that it has met is of the right kind, and so is what the cache answered,
\* which is also of the right repository. Only a scan writes anything.
Fits(q) ==
    /\ \A rec : Underway(q, rec) => OfKind(q, rec)
    /\ \A rec \in hit[q] : OfKind(q, rec) /\ (asked[q] # AnyRepo => rec.repo = asked[q])
    /\ IsFiniteSet(matches[q])
    /\ pc[q] = "idle" => hit[q] = {}
    /\ pc[q] # "search" => toPut[q] = {} /\ txn[q] = NoTxn

Scans == \A q \in Searches : ScanLosesNothing(q) /\ ScanFinds(q) /\ Fits(q)

IInv == Domains /\ TxnShape /\ CacheSound /\ PrunesInTime /\ Scans

-----------------------------------------------------------------------------
(* Transactions and the cache.                                             *)

\* A transaction that is begun is one.
LEMMA BegunIsTxn ==
  ASSUME NEW rec, NEW read, NEW overtaken
  PROVE  /\ [rec |-> rec, read |-> read, overtaken |-> overtaken] # NoTxn
         /\ DOMAIN [rec |-> rec, read |-> read, overtaken |-> overtaken]
               = {"rec", "read", "overtaken"}
  BY DEF NoTxn

\* Whether a worker has a transaction, and on which record.
SameTxn(w) ==
    /\ txn'[w] = NoTxn <=> txn[w] = NoTxn
    /\ txn[w] # NoTxn =>
          txn'[w].rec = txn[w].rec /\ DOMAIN txn'[w] = DOMAIN txn[w]

\* Overtaking transactions ends none of them and changes none of their records.
LEMMA OvertakenSame ==
  ASSUME TxnShape, NEW keys, NEW w \in Workers
  PROVE  /\ Overtaken(keys)[w] = NoTxn <=> txn[w] = NoTxn
         /\ txn[w] # NoTxn => /\ Overtaken(keys)[w].rec = txn[w].rec
                              /\ DOMAIN Overtaken(keys)[w] = DOMAIN txn[w]
  BY DEF TxnShape, Overtaken, NoTxn

\* The keys of a record, by their first component.
LEMMA TypeKeysAgree ==
  ASSUME NEW rec, NEW k \in IndexKeys(rec), k[1] = "type"
  PROVE  k[2] = rec.kind
  BY DEF IndexKeys, NameKey, TypeKey, FileKey

LEMMA PrimaryKeyKind ==
  ASSUME NEW rec
  PROVE  PrimaryKey(rec)[4] = rec.kind
  BY DEF PrimaryKey

\* Writing a record keeps the cache sound.
LEMMA PutKeepsSound ==
  ASSUME CacheSound, NEW rec, NEW read, db' = PutSymbol(db, rec, read)
  PROVE  CacheSound'
<1>1. db'.idx = WriteIndexes(db, rec)
  BY DEF PutSymbol, RefreshUnchanged
<1>2. ASSUME NEW k \in DOMAIN db'.idx, k[1] = "type"
      PROVE  db'.idx[k][4] = k[2]
  <2>1. CASE k \in IndexKeys(rec)
    BY <1>1, <1>2, <2>1, TypeKeysAgree, PrimaryKeyKind DEF WriteIndexes
  <2>2. CASE k \notin IndexKeys(rec)
    BY <1>1, <1>2, <2>2 DEF WriteIndexes, CacheSound
  <2> QED BY <2>1, <2>2
<1>3. IsFiniteSet(db'.recs)
  <2>1. db'.recs = db.recs \/ db'.recs = (db.recs \ Stored(db, rec)) \cup {rec}
    BY DEF PutSymbol, RefreshUnchanged
  <2>2. IsFiniteSet(db.recs \ Stored(db, rec))
    BY FS_Subset DEF CacheSound
  <2>3. IsFiniteSet((db.recs \ Stored(db, rec)) \cup {rec})
    BY <2>2, FS_AddElement
  <2> QED BY <2>1, <2>3 DEF CacheSound
<1> QED BY <1>2, <1>3 DEF CacheSound

\* So does deleting records.
LEMMA DeleteKeepsSound ==
  ASSUME CacheSound, NEW batch, db' = DeleteRecords(db, batch)
  PROVE  CacheSound'
<1>1. db'.recs \subseteq db.recs
  BY DEF DeleteRecords
<1>2. IsFiniteSet(db'.recs)
  BY <1>1, FS_Subset DEF CacheSound
<1>3. \A k \in DOMAIN db'.idx : k \in DOMAIN db.idx /\ db'.idx[k] = db.idx[k]
  BY DEF DeleteRecords
<1> QED BY <1>2, <1>3 DEF CacheSound

-----------------------------------------------------------------------------
(* What a step leaves alone.                                               *)

\* Everything of one query.
Kept(q) ==
    /\ pc'[q] = pc[q]
    /\ todo'[q] = todo[q]
    /\ toPut'[q] = toPut[q]
    /\ SameTxn(q)
    /\ unwalked'[q] = unwalked[q]
    /\ matches'[q] = matches[q]
    /\ asked'[q] = asked[q]
    /\ hit'[q] = hit[q]
    /\ calm'[q] = calm[q]

\* A query that is left alone keeps what it has.
LEMMA KeptScan ==
  ASSUME NEW q \in Searches, ScanLosesNothing(q), ScanFinds(q), Fits(q),
         Kept(q), disk' = disk
  PROVE  ScanLosesNothing(q)' /\ ScanFinds(q)' /\ Fits(q)'
<1>1. \A rec : Underway(q, rec)' <=> Underway(q, rec)
  BY DEF Kept, SameTxn, Underway
<1>2. Ahead(q)' = Ahead(q)
  BY DEF Kept, Ahead
<1>3. ScanLosesNothing(q)'
  BY <1>1, <1>2 DEF Kept, ScanLosesNothing
<1>4. ScanFinds(q)'
  BY DEF Kept, ScanFinds
<1>5. Fits(q)'
  BY <1>1 DEF Kept, SameTxn, Fits
<1> QED BY <1>3, <1>4, <1>5

\* Cycles and queries are different workers.
LEMMA Apart ==
  ASSUME NEW q \in Searches, NEW c \in Cycles
  PROVE  q # c /\ q \in Workers /\ c \in Workers
  BY IndexerAssumption DEF Workers

\* The worker of a step, and what the step does to the others.
OthersKept(w) ==
    /\ disk' = disk
    /\ \A q \in Searches \ {w} : Kept(q)
    /\ \A c \in Cycles \ {w} : pc'[c] = pc[c] /\ ended'[c] = ended[c] /\ stale'[c] = stale[c]

\* The part of the invariant that a step of worker w has to see to.
LEMMA StepOf ==
  ASSUME IInv, NEW w \in Workers, OthersKept(w), Domains', TxnShape', CacheSound',
         w \in Cycles => /\ pc'[w] \in {"prune", "delete"} => ~ended'[w]
                         /\ stale'[w] # {} => pc'[w] = "delete",
         w \in Searches => ScanLosesNothing(w)' /\ ScanFinds(w)' /\ Fits(w)'
  PROVE  IInv'
<1>1. PrunesInTime'
  BY DEF IInv, PrunesInTime, OthersKept
<1>2. ASSUME NEW q \in Searches
      PROVE  ScanLosesNothing(q)' /\ ScanFinds(q)' /\ Fits(q)'
  <2>1. CASE q = w
    BY <2>1
  <2>2. CASE q # w
    BY <2>2, KeptScan DEF IInv, Scans, OthersKept
  <2> QED BY <2>1, <2>2
<1> QED BY <1>1, <1>2 DEF IInv, Scans

-----------------------------------------------------------------------------
(* The steps of cycles.                                                    *)

LEMMA StartCycleStep ==
  ASSUME IInv, NEW c \in Cycles, StartCycle(c), UNCHANGED queryVars
  PROVE  IInv'
<1>0. \A v \in Workers \ {c} : pc'[v] = pc[v] /\ todo'[v] = todo[v]
  BY DEF IInv, Domains, StartCycle, Goto
<1>a. UNCHANGED <<disk, ended, txn, toPut, stale, unwalked, matches, asked, hit, calm>>
  BY DEF StartCycle, queryVars, searchVars, cycleVars
<1>1. OthersKept(c)
  BY <1>0, <1>a, Apart DEF OthersKept, Kept, SameTxn, Workers
<1>2. Domains' /\ TxnShape' /\ CacheSound'
  BY DEF IInv, Domains, TxnShape, CacheSound, StartCycle, Goto, queryVars, searchVars, cycleVars
<1>3. /\ pc'[c] \notin {"prune", "delete"}
      /\ stale'[c] = {}
  BY Apart DEF IInv, Domains, PrunesInTime, StartCycle, Goto, cycleVars, Workers
<1> QED BY <1>1, <1>2, <1>3, StepOf, Apart DEF Workers

LEMMA ParseFileStep ==
  ASSUME IInv, NEW c \in Cycles, ParseFile(c), UNCHANGED queryVars
  PROVE  IInv'
<1>1. OthersKept(c)
  BY Apart DEF IInv, Domains, ParseFile, OthersKept, Kept, SameTxn, queryVars,
               searchVars, cycleVars
<1>2. Domains' /\ TxnShape' /\ CacheSound'
  BY DEF IInv, Domains, TxnShape, CacheSound, ParseFile, queryVars, searchVars, cycleVars
<1>3. pc'[c] = "crawl" /\ stale'[c] = {}
  BY Apart DEF IInv, Domains, PrunesInTime, ParseFile, cycleVars, Workers
<1> QED BY <1>1, <1>2, <1>3, StepOf, Apart DEF Workers

\* A transaction begins, of a cycle or a query.
LEMMA PutBeginStep ==
  ASSUME IInv, NEW w \in Workers, PutBegin(w), UNCHANGED queryVars
  PROVE  IInv'
<1>1. PICK rec \in toPut[w] :
         /\ txn' = [txn EXCEPT ![w] = [rec |-> rec, read |-> Stored(db, rec), overtaken |-> FALSE]]
         /\ toPut' = [toPut EXCEPT ![w] = @ \ {rec}]
  BY DEF PutBegin
<1>2. /\ txn'[w] = [rec |-> rec, read |-> Stored(db, rec), overtaken |-> FALSE]
      /\ txn'[w] # NoTxn
      /\ DOMAIN txn'[w] = {"rec", "read", "overtaken"}
      /\ \A v \in Workers \ {w} : txn'[v] = txn[v]
      /\ DOMAIN txn' = Workers
  BY <1>1, BegunIsTxn DEF IInv, Domains
<1>3. /\ toPut'[w] = toPut[w] \ {rec}
      /\ \A v \in Workers \ {w} : toPut'[v] = toPut[v]
      /\ DOMAIN toPut' = Workers
  BY <1>1 DEF IInv, Domains
<1>4. OthersKept(w)
  BY <1>2, <1>3, Apart DEF PutBegin, OthersKept, Kept, SameTxn, queryVars, searchVars, cycleVars
<1>5. Domains' /\ TxnShape' /\ CacheSound'
  BY <1>2, <1>3 DEF IInv, Domains, TxnShape, CacheSound, PutBegin, queryVars, searchVars, cycleVars
<1>6. ASSUME w \in Cycles
      PROVE  /\ pc'[w] \in {"prune", "delete"} => ~ended'[w]
             /\ stale'[w] # {} => pc'[w] = "delete"
  BY <1>6 DEF IInv, PrunesInTime, PutBegin, cycleVars
<1>7. ASSUME w \in Searches
      PROVE  ScanLosesNothing(w)' /\ ScanFinds(w)' /\ Fits(w)'
  <2>1. txn[w] = NoTxn /\ txn'[w].rec = rec
    BY <1>2 DEF PutBegin
  <2>2. \A r : Underway(w, r)' <=> Underway(w, r)
    BY <1>2, <1>3, <2>1 DEF Underway, PutBegin, searchVars
  <2>3. Ahead(w)' = Ahead(w)
    BY DEF Ahead, PutBegin, searchVars
  <2>4. ScanLosesNothing(w)'
    BY <1>7, <2>2, <2>3 DEF IInv, Scans, ScanLosesNothing, PutBegin, queryVars
  <2>5. ScanFinds(w)'
    BY <1>7 DEF IInv, Scans, ScanFinds, PutBegin, queryVars, searchVars
  <2>6. Fits(w)'
    BY <1>2, <1>3, <1>7, <2>2 DEF IInv, Scans, Fits, PutBegin, queryVars, searchVars
  <2> QED BY <2>4, <2>5, <2>6
<1> QED BY <1>4, <1>5, <1>6, <1>7, StepOf

\* The end of a transaction of worker w, for the cache and the transactions.
LEMMA TxnEnds ==
  ASSUME IInv, NEW w \in Workers, Commit(w) \/ PutFails(w)
  PROVE  /\ CacheSound'
         /\ DOMAIN txn' = Workers
         /\ txn'[w] = NoTxn
         /\ TxnShape'
         /\ \A v \in Workers \ {w} : SameTxn(v)
<1>1. CASE Commit(w)
  <2> DEFINE keys == IF txn[w].read = {txn[w].rec} THEN {} ELSE {PrimaryKey(txn[w].rec)}
  <2>1. txn' = [Overtaken(keys) EXCEPT ![w] = NoTxn]
    BY <1>1 DEF Commit
  <2> HIDE DEF keys
  <2>2. DOMAIN Overtaken(keys) = Workers
    BY DEF Overtaken
  <2>3. /\ txn'[w] = NoTxn
        /\ DOMAIN txn' = Workers
        /\ \A v \in Workers \ {w} : txn'[v] = Overtaken(keys)[v]
    BY <2>1, <2>2
  <2>4. \A v \in Workers \ {w} : SameTxn(v)
    BY <2>3, OvertakenSame DEF IInv, SameTxn
  <2>5. TxnShape'
    BY <2>3, <2>4 DEF IInv, TxnShape, SameTxn
  <2>6. CacheSound'
    BY <1>1, PutKeepsSound DEF IInv, Commit
  <2> QED BY <2>3, <2>4, <2>5, <2>6
<1>2. CASE PutFails(w)
  <2>1. /\ txn'[w] = NoTxn
        /\ DOMAIN txn' = Workers
        /\ \A v \in Workers \ {w} : txn'[v] = txn[v]
    BY <1>2 DEF PutFails, IInv, Domains
  <2>2. TxnShape' /\ \A v \in Workers \ {w} : SameTxn(v)
    BY <2>1 DEF IInv, TxnShape, SameTxn
  <2>3. CacheSound'
    BY <1>2 DEF IInv, CacheSound, PutFails
  <2> QED BY <2>1, <2>2, <2>3
<1> QED BY <1>1, <1>2

LEMMA CyclePutStep ==
  ASSUME IInv, NEW c \in Cycles, CyclePut(c), UNCHANGED queryVars
  PROVE  IInv'
<1>1. Commit(c) \/ PutFails(c)
  BY DEF CyclePut
<1>2. OthersKept(c)
  BY <1>1, TxnEnds, Apart DEF CyclePut, OthersKept, Kept, queryVars, searchVars
<1>3. Domains' /\ TxnShape' /\ CacheSound'
  BY <1>1, TxnEnds, Apart DEF IInv, Domains, CyclePut, queryVars, searchVars, Workers
<1>4. /\ pc'[c] \in {"prune", "delete"} => ~ended'[c]
      /\ stale'[c] # {} => pc'[c] = "delete"
  BY DEF IInv, PrunesInTime, CyclePut
<1> QED BY <1>2, <1>3, <1>4, StepOf, Apart DEF Workers

LEMMA CrawlEndsStep ==
  ASSUME IInv, NEW c \in Cycles, CrawlEnds(c), UNCHANGED queryVars
  PROVE  IInv'
<1>1. OthersKept(c)
  BY Apart DEF IInv, Domains, CrawlEnds, Goto, OthersKept, Kept, SameTxn, queryVars,
               searchVars, cycleVars
<1>2. Domains' /\ TxnShape' /\ CacheSound'
  BY DEF IInv, Domains, TxnShape, CacheSound, CrawlEnds, Goto, queryVars, searchVars, cycleVars
<1>3. pc'[c] = "prune" => ~ended'[c]
  BY Apart DEF IInv, Domains, CrawlEnds, MayPrune, Goto, Workers
<1>4. pc'[c] # "delete" /\ stale'[c] = {}
  BY Apart DEF IInv, Domains, PrunesInTime, CrawlEnds, Goto, cycleVars, Workers
<1> QED BY <1>1, <1>2, <1>3, <1>4, StepOf, Apart DEF Workers

LEMMA PruneScanStep ==
  ASSUME IInv, NEW c \in Cycles, PruneScan(c), UNCHANGED queryVars
  PROVE  IInv'
<1>1. OthersKept(c)
  BY Apart DEF IInv, Domains, PruneScan, Goto, OthersKept, Kept, SameTxn, queryVars, searchVars
<1>2. Domains' /\ TxnShape' /\ CacheSound'
  BY DEF IInv, Domains, TxnShape, CacheSound, PruneScan, Goto, queryVars, searchVars
<1>3. pc'[c] = "delete" /\ ~ended'[c]
  BY Apart DEF IInv, Domains, PrunesInTime, PruneScan, Goto, Workers
<1> QED BY <1>1, <1>2, <1>3, StepOf, Apart DEF Workers

LEMMA PruneBatchStep ==
  ASSUME IInv, NEW c \in Cycles, PruneBatch(c), UNCHANGED queryVars
  PROVE  IInv'
<1>1. PICK batch \in SUBSET stale[c] :
         /\ db' = DeleteRecords(db, batch)
         /\ txn' = Overtaken({PrimaryKey(r) : r \in batch})
         /\ stale' = [stale EXCEPT ![c] = @ \ batch]
  BY DEF PruneBatch
<1>2. /\ DOMAIN txn' = Workers
      /\ \A w \in Workers : SameTxn(w)
  BY <1>1, OvertakenSame DEF IInv, SameTxn, Overtaken
<1>3. OthersKept(c)
  BY <1>1, <1>2, Apart DEF IInv, Domains, PruneBatch, OthersKept, Kept, queryVars, searchVars
<1>4. CacheSound'
  BY <1>1, DeleteKeepsSound DEF IInv
<1>5. Domains' /\ TxnShape'
  BY <1>1, <1>2 DEF IInv, Domains, TxnShape, SameTxn, PruneBatch, queryVars, searchVars
<1>6. pc'[c] = "delete" /\ ~ended'[c]
  BY DEF IInv, PrunesInTime, PruneBatch
<1> QED BY <1>3, <1>4, <1>5, <1>6, StepOf, Apart DEF Workers

LEMMA PruneFailsStep ==
  ASSUME IInv, NEW c \in Cycles, PruneFails(c), UNCHANGED queryVars
  PROVE  IInv'
<1>1. OthersKept(c)
  BY Apart DEF IInv, Domains, PruneFails, Goto, OthersKept, Kept, SameTxn, queryVars, searchVars
<1>2. Domains' /\ TxnShape' /\ CacheSound'
  BY DEF IInv, Domains, TxnShape, CacheSound, PruneFails, Goto, queryVars, searchVars
<1>3. pc'[c] = "failed" /\ stale'[c] = {}
  BY Apart DEF IInv, Domains, PruneFails, Goto, Workers
<1> QED BY <1>1, <1>2, <1>3, StepOf, Apart DEF Workers

LEMMA CycleEndsStep ==
  ASSUME IInv, NEW c \in Cycles, CycleEnds(c), UNCHANGED queryVars
  PROVE  IInv'
<1>1. OthersKept(c)
  BY Apart DEF IInv, Domains, CycleEnds, Goto, OthersKept, Kept, SameTxn, queryVars,
               searchVars, cycleVars
<1>2. Domains' /\ TxnShape' /\ CacheSound'
  BY DEF IInv, Domains, TxnShape, CacheSound, CycleEnds, Goto, queryVars, searchVars, cycleVars
<1>3. pc'[c] = "indexed" /\ stale'[c] = {}
  BY Apart DEF IInv, Domains, CycleEnds, Goto, cycleVars, Workers
<1> QED BY <1>1, <1>2, <1>3, StepOf, Apart DEF Workers

-----------------------------------------------------------------------------
(* The steps of queries.                                                   *)

\* The cut to a limit leaves something of what there is, and nothing else.
LEMMA BestOfSome ==
  ASSUME NEW recs, IsFiniteSet(recs), recs # {}, NEW name, NEW limit \in Nat \ {0},
         NEW best \in Best(recs, name, limit)
  PROVE  best # {} /\ best \subseteq recs
<1>1. Cardinality(recs) \in Nat /\ Cardinality(recs) # 0
  BY FS_CardinalityType, FS_EmptySet
<1>2. Cardinality(best) # 0 /\ best \subseteq recs
  BY <1>1 DEF Best
<1> QED BY <1>2, FS_EmptySet

\* What Lookup finds is of the kind and the repository asked for.
LEMMA CachedFits ==
  ASSUME CacheSound, NEW q, NEW repo, NEW rec \in Cached(q, repo)
  PROVE  OfKind(q, rec) /\ (repo # AnyRepo => rec.repo = repo) /\ rec \in db.recs
<1>1. rec \in Found(db, NamesOf[q], KindsOf[q]) /\ (repo # AnyRepo => rec.repo = repo)
  BY DEF Cached, Within
<1>2. PICK k \in Candidates(db, NamesOf[q], KindsOf[q]) : db.idx[k] = PrimaryKey(rec)
  BY <1>1 DEF Found
<1>3. ASSUME KindsOf[q] # {}
      PROVE  rec.kind \in KindsOf[q]
  <2>1. k \in DOMAIN db.idx /\ k[1] = "type" /\ k[2] \in KindsOf[q]
    BY <1>2, <1>3 DEF Candidates
  <2>2. db.idx[k][4] = k[2]
    BY <2>1 DEF CacheSound
  <2> QED BY <1>2, <2>1, <2>2, PrimaryKeyKind
<1> QED BY <1>1, <1>3 DEF OfKind, Found

LEMMA AskStep ==
  ASSUME IInv, NEW q \in Searches, Ask(q)
  PROVE  IInv'
<1>1. PICK repo \in RepoFilters :
         /\ asked' = [asked EXCEPT ![q] = repo]
         /\ Answered(q, repo) \/ Missed(q, repo) \/ LookupFails(q)
  BY DEF Ask
<1>2. asked'[q] = repo /\ DOMAIN asked' = Searches
  BY <1>1 DEF IInv, Domains
<1>3. /\ pc[q] = "idle" /\ calm' = calm /\ hit[q] = {}
      /\ UNCHANGED <<disk, db, todo, toPut, txn, ended, stale, matches>>
  BY <1>1 DEF Ask, Answered, Missed, LookupFails, StartSearch, cycleVars, searchVars,
              IInv, Scans, Fits
<1>4. PICK place \in {"search", "returned", "failed"} : pc' = [pc EXCEPT ![q] = place]
  BY <1>1 DEF Answered, Missed, LookupFails, StartSearch, Goto
<1>5. pc'[q] = place /\ DOMAIN pc' = Workers /\ \A v \in Workers \ {q} : pc'[v] = pc[v]
  BY <1>4, q \in Workers DEF IInv, Domains, Workers
<1>6. /\ DOMAIN hit' = Searches
      /\ \A p \in Searches \ {q} : hit'[p] = hit[p]
      /\ DOMAIN unwalked' = Searches
      /\ \A p \in Searches \ {q} : unwalked'[p] = unwalked[p]
  BY <1>1 DEF Answered, Missed, LookupFails, StartSearch, searchVars, IInv, Domains
<1>7. OthersKept(q)
  BY <1>1, <1>3, <1>5, <1>6, Apart DEF IInv, Domains, OthersKept, Kept, SameTxn, Workers
<1>8. Domains' /\ TxnShape' /\ CacheSound'
  BY <1>2, <1>3, <1>5, <1>6 DEF IInv, Domains, TxnShape, CacheSound
<1>9. \A rec : Underway(q, rec)' <=> Underway(q, rec)
  BY <1>3 DEF Underway
<1>10. CASE Answered(q, repo)
  <2>1. PICK best \in Best(Cached(q, repo), TargetOf[q], MaxResults) :
           hit' = [hit EXCEPT ![q] = best]
    BY <1>10 DEF Answered
  <2>2. hit'[q] = best /\ pc'[q] = "returned"
    BY <1>10, <2>1, q \in Workers DEF IInv, Domains, Answered, Goto, Workers
  <2>3. Cached(q, repo) \subseteq db.recs /\ IsFiniteSet(db.recs)
    BY CachedFits DEF IInv, CacheSound
  <2>4. best # {} /\ best \subseteq Cached(q, repo)
    <3>1. IsFiniteSet(Cached(q, repo))
      BY <2>3, FS_Subset
    <3>2. Cached(q, repo) # {}
      BY <1>10 DEF Answered
    <3> QED BY <2>1, <3>1, <3>2, BestOfSome, QueryAssumption
  <2>5. \A rec \in hit'[q] : OfKind(q, rec) /\ (asked'[q] # AnyRepo => rec.repo = asked'[q])
    BY <1>2, <2>2, <2>4, CachedFits DEF IInv
  <2>6. ScanLosesNothing(q)' /\ ScanFinds(q)'
    BY <2>2, <2>4 DEF ScanLosesNothing, ScanFinds
  <2>7. Fits(q)'
    BY <1>3, <1>9, <2>2, <2>5 DEF IInv, Scans, Fits
  <2> QED BY <1>7, <1>8, <2>6, <2>7, StepOf, Apart DEF Workers
<1>11. CASE Missed(q, repo) \/ LookupFails(q)
  <2>1. hit'[q] = {}
    BY <1>3, <1>11 DEF Missed, LookupFails
  <2>2. Fits(q)'
    BY <1>3, <1>5, <1>9, <2>1 DEF IInv, Scans, Fits
  <2>3. ASSUME pc'[q] = "search"
        PROVE  unwalked'[q] = Repos
    BY <1>11, <2>3, q \in Workers DEF Missed, LookupFails, StartSearch, Goto, IInv, Domains, Workers
  <2>4. ScanLosesNothing(q)'
    BY <2>3, IndexerAssumption DEF ScanLosesNothing, Ahead
  <2>5. ScanFinds(q)'
    BY <1>11, q \in Workers DEF Missed, LookupFails, StartSearch, Goto, ScanFinds, IInv, Domains, Workers
  <2> QED BY <1>7, <1>8, <2>2, <2>4, <2>5, StepOf, Apart DEF Workers
<1> QED BY <1>1, <1>10, <1>11

LEMMA ScanStep ==
  ASSUME IInv, NEW q \in Searches, Scan(q)
  PROVE  IInv'
<1>1. /\ q \in Workers
      /\ pc[q] = "search" /\ toPut[q] = {} /\ txn[q] = NoTxn
  BY DEF Workers, Scan, WalkRepo, SearchFile, Idle
<1>2. /\ calm' = [calm EXCEPT ![q] = @ /\ (pc'[q] = "search" => PassesNothingOver(q))]
      /\ UNCHANGED <<asked, hit, disk, db, txn, ended, stale, matches>>
  BY DEF Scan, WalkRepo, SearchFile, cycleVars, searchVars
<1>3. /\ UNCHANGED pc \/ (GiveUp(q) /\ UNCHANGED toPut)
      /\ UNCHANGED todo \/ \E files : todo' = [todo EXCEPT ![q] = files]
      /\ \/ UNCHANGED toPut
         \/ \E f : toPut' = [toPut EXCEPT ![q] = Matching(q, Declared(f, disk[f]))]
      /\ UNCHANGED unwalked \/ \E repo : unwalked' = [unwalked EXCEPT ![q] = @ \ {repo}]
  <2>1. CASE WalkRepo(q)
    BY <2>1 DEF WalkRepo
  <2>2. CASE SearchFile(q)
    BY <2>2 DEF SearchFile, GiveUp, searchVars
  <2> QED BY <2>1, <2>2 DEF Scan
<1>4. /\ DOMAIN pc' = Workers /\ DOMAIN todo' = Workers
      /\ DOMAIN toPut' = Workers /\ DOMAIN calm' = Searches /\ DOMAIN unwalked' = Searches
      /\ \A v \in Workers \ {q} : pc'[v] = pc[v] /\ todo'[v] = todo[v] /\ toPut'[v] = toPut[v]
      /\ \A v \in Searches \ {q} : calm'[v] = calm[v] /\ unwalked'[v] = unwalked[v]
  <2> HIDE DEF PassesNothingOver
  <2> QED BY <1>2, <1>3 DEF GiveUp, Goto, IInv, Domains
<1>5. OthersKept(q)
  BY <1>2, <1>4, Apart DEF OthersKept, Kept, SameTxn, Workers
<1>6. Domains' /\ TxnShape' /\ CacheSound'
  BY <1>2, <1>4 DEF IInv, Domains, TxnShape, CacheSound
<1>7. \/ pc'[q] = "search"
      \/ pc'[q] = "failed" /\ toPut'[q] = {}
  BY <1>1, <1>3 DEF GiveUp, Goto, IInv, Domains
<1>8. ScanLosesNothing(q)'
  <2> SUFFICES ASSUME calm'[q], pc'[q] = "search", NEW f \in Files,
                      NEW rec \in Declared(f, disk[f]), Wanted(q, rec)
               PROVE  f \in Ahead(q)' \/ Underway(q, rec)'
    BY <1>2 DEF ScanLosesNothing
  <2>1. calm[q] /\ PassesNothingOver(q)
    <3>1. calm'[q] = (calm[q] /\ (pc'[q] = "search" => PassesNothingOver(q)))
      BY <1>2 DEF IInv, Domains
    <3> QED BY <3>1
  <2>2. f \in Ahead(q) \/ rec \in matches[q]
    BY <1>1, <2>1 DEF IInv, Scans, ScanLosesNothing, Underway
  <2>3. CASE f \in Ahead(q) \ Ahead(q)'
    BY <2>1, <2>3 DEF PassesNothingOver, Underway
  <2> QED BY <1>2, <2>2, <2>3 DEF Underway
<1>9. \A rec \in toPut'[q] : OfKind(q, rec)
  BY <1>1, <1>3 DEF Matching, IInv, Domains
<1>10. ScanFinds(q)' /\ Fits(q)'
  BY <1>1, <1>2, <1>7, <1>9 DEF ScanFinds, IInv, Scans, Fits, Underway
<1> QED BY <1>1, <1>5, <1>6, <1>8, <1>10, StepOf, Apart

LEMMA SearchPutStep ==
  ASSUME IInv, NEW q \in Searches, SearchPut(q), UNCHANGED queryVars
  PROVE  IInv'
<1>1. /\ q \in Workers
      /\ Commit(q) \/ PutFails(q)
      /\ txn[q] # NoTxn
      /\ matches' = [matches EXCEPT ![q] = @ \cup {txn[q].rec}]
      /\ UNCHANGED <<disk, todo, ended, stale, unwalked, asked, hit, calm>>
  BY DEF Workers, SearchPut, cycleVars, queryVars
<1>2. /\ matches'[q] = matches[q] \cup {txn[q].rec} /\ DOMAIN matches' = Searches
      /\ \A p \in Searches \ {q} : matches'[p] = matches[p]
  BY <1>1 DEF IInv, Domains
<1>3. /\ DOMAIN pc' = Workers /\ DOMAIN toPut' = Workers
      /\ \A v \in Workers \ {q} : pc'[v] = pc[v] /\ toPut'[v] = toPut[v]
      /\ \/ pc'[q] = pc[q] /\ toPut'[q] = toPut[q]
         \/ /\ Cardinality(matches'[q]) >= MaxLive
            /\ pc'[q] = "returned" /\ toPut'[q] = {}
  <2>1. CASE Cardinality(matches'[q]) >= MaxLive
    BY <1>1, <2>1 DEF SearchPut, Goto, IInv, Domains
  <2>2. CASE ~(Cardinality(matches'[q]) >= MaxLive)
    BY <1>1, <2>2 DEF SearchPut, IInv, Domains
  <2> QED BY <2>1, <2>2
<1>4. OthersKept(q)
  BY <1>1, <1>2, <1>3, TxnEnds, Apart DEF OthersKept, Kept, Workers
<1>5. Domains' /\ TxnShape' /\ CacheSound'
  BY <1>1, <1>2, <1>3, TxnEnds DEF IInv, Domains
<1>6. pc[q] = "search" /\ txn'[q] = NoTxn
  BY <1>1, TxnEnds DEF IInv, Scans, Fits
<1>7. ScanLosesNothing(q)'
  <2>1. CASE pc'[q] = pc[q] /\ toPut'[q] = toPut[q]
    <3>1. \A rec : Underway(q, rec) => Underway(q, rec)'
      BY <1>1, <1>2, <1>6, <2>1 DEF Underway
    <3>2. Ahead(q)' = Ahead(q)
      BY <1>1 DEF Ahead
    <3> QED BY <1>1, <2>1, <3>1, <3>2 DEF IInv, Scans, ScanLosesNothing
  <2>2. CASE pc'[q] = "returned"
    BY <2>2 DEF ScanLosesNothing
  <2> QED BY <1>3, <2>1, <2>2
<1>8. ScanFinds(q)'
  BY <1>3, <1>6 DEF ScanFinds
<1>9. Fits(q)'
  <2>1. \A rec : Underway(q, rec)' => Underway(q, rec)
    BY <1>1, <1>2, <1>3, <1>6 DEF Underway
  <2>2. IsFiniteSet(matches'[q])
    BY <1>2, FS_AddElement DEF IInv, Scans, Fits
  <2>3. pc'[q] # "idle" /\ (pc'[q] # "search" => toPut'[q] = {} /\ txn'[q] = NoTxn)
    BY <1>3, <1>6
  <2> QED BY <1>1, <2>1, <2>2, <2>3 DEF IInv, Scans, Fits
<1> QED BY <1>1, <1>4, <1>5, <1>7, <1>8, <1>9, StepOf, Apart DEF Workers

LEMMA SearchEndsStep ==
  ASSUME IInv, NEW q \in Searches, SearchEnds(q), UNCHANGED queryVars
  PROVE  IInv'
<1>1. /\ q \in Workers
      /\ pc[q] = "search" /\ toPut[q] = {} /\ txn[q] = NoTxn
      /\ todo[q] = {} /\ unwalked[q] = {}
      /\ pc' = [pc EXCEPT ![q] = "returned"]
      /\ UNCHANGED <<disk, db, txn, todo, toPut, ended, stale, unwalked, matches, asked, hit, calm>>
  BY DEF Workers, SearchEnds, Idle, Goto, cycleVars, searchVars, queryVars
<1>2. pc'[q] = "returned" /\ DOMAIN pc' = Workers /\ \A v \in Workers \ {q} : pc'[v] = pc[v]
  BY <1>1 DEF IInv, Domains
<1>3. OthersKept(q)
  BY <1>1, <1>2, Apart DEF OthersKept, Kept, SameTxn, Workers
<1>4. Domains' /\ TxnShape' /\ CacheSound'
  BY <1>1, <1>2 DEF IInv, Domains, TxnShape, CacheSound
<1>5. ScanLosesNothing(q)'
  BY <1>2 DEF ScanLosesNothing
<1>6. ScanFinds(q)'
  BY <1>1 DEF IInv, Scans, ScanLosesNothing, ScanFinds, Ahead, Underway
<1>7. Fits(q)'
  BY <1>1, <1>2 DEF IInv, Scans, Fits, Underway
<1> QED BY <1>1, <1>3, <1>4, <1>5, <1>6, <1>7, StepOf, Apart

LEMMA EndContextStep ==
  ASSUME IInv, NEW w \in Workers, EndContext(w), UNCHANGED queryVars
  PROVE  IInv'
<1>1. /\ UNCHANGED <<disk, db, pc, todo, toPut, txn, stale, unwalked, matches, asked, hit, calm>>
      /\ ended' = [ended EXCEPT ![w] = TRUE] /\ pc[w] \notin {"prune", "delete"}
  BY DEF EndContext, cycleVars, searchVars, queryVars
<1>2. OthersKept(w) /\ (w \in Searches => Kept(w))
  BY <1>1, Apart DEF OthersKept, Kept, SameTxn, IInv, Domains, Workers
<1>3. Domains' /\ TxnShape' /\ CacheSound'
  BY <1>1 DEF IInv, Domains, TxnShape, CacheSound
<1>4. PrunesInTime'
  BY <1>1 DEF IInv, PrunesInTime
<1>5. Scans'
  BY <1>1, <1>2, KeptScan DEF IInv, Scans, OthersKept
<1> QED BY <1>3, <1>4, <1>5 DEF IInv

LEMMA EditStep ==
  ASSUME IInv, NEW f \in Files, EditTree(f)
  PROVE  IInv'
<1>1. /\ calm' = [q \in Searches |-> calm[q] /\ pc[q] = "idle"]
      /\ UNCHANGED <<db, pc, todo, toPut, txn, ended, stale, unwalked, matches, asked, hit>>
  BY DEF EditTree, Edit, cycleVars, searchVars
<1>2. Domains' /\ TxnShape' /\ CacheSound' /\ PrunesInTime'
  BY <1>1 DEF IInv, Domains, TxnShape, CacheSound, PrunesInTime
<1>3. ASSUME NEW q \in Searches
      PROVE  ScanLosesNothing(q)' /\ ScanFinds(q)' /\ Fits(q)'
  <2>1. calm'[q] = (calm[q] /\ pc[q] = "idle")
    BY <1>1
  <2>2. ScanLosesNothing(q)' /\ ScanFinds(q)'
    BY <1>1, <2>1 DEF ScanLosesNothing, ScanFinds
  <2>3. Fits(q)'
    BY <1>1 DEF IInv, Scans, Fits, Underway
  <2> QED BY <2>2, <2>3
<1> QED BY <1>2, <1>3 DEF IInv, Scans

-----------------------------------------------------------------------------
(* The theorems.                                                           *)

LEMMA InitIInv == QueryInit => IInv
<1> SUFFICES ASSUME QueryInit
             PROVE  IInv
  OBVIOUS
<1>1. Domains /\ TxnShape
  BY DEF QueryInit, Init, Domains, TxnShape, Workers
<1>2. CacheSound
  BY FS_EmptySet DEF QueryInit, Init, CacheSound, EmptyDb
<1>3. PrunesInTime
  BY DEF QueryInit, Init, PrunesInTime, Workers
<1>4. ASSUME NEW q \in Searches
      PROVE  ScanLosesNothing(q) /\ ScanFinds(q) /\ Fits(q)
  BY FS_EmptySet DEF QueryInit, Init, ScanLosesNothing, ScanFinds, Fits, Underway, Workers
<1> QED BY <1>1, <1>2, <1>3, <1>4 DEF IInv, Scans

LEMMA NextIInv == IInv /\ [QueryNext]_<<vars, queryVars>> => IInv'
<1> SUFFICES ASSUME IInv, [QueryNext]_<<vars, queryVars>>
             PROVE  IInv'
  OBVIOUS
<1>1. ASSUME NEW q \in Searches, Ask(q) \/ Scan(q)
      PROVE  IInv'
  BY <1>1, AskStep, ScanStep
<1>2. ASSUME NEW q \in Searches, UNCHANGED queryVars,
             PutBegin(q) \/ SearchPut(q) \/ SearchEnds(q)
      PROVE  IInv'
  BY <1>2, PutBeginStep, SearchPutStep, SearchEndsStep DEF Workers
<1>3. ASSUME NEW c \in Cycles, UNCHANGED queryVars,
             \/ StartCycle(c) \/ ParseFile(c) \/ PutBegin(c) \/ CyclePut(c)
             \/ CrawlEnds(c) \/ PruneScan(c) \/ PruneBatch(c) \/ PruneFails(c)
             \/ CycleEnds(c)
      PROVE  IInv'
  BY <1>3, StartCycleStep, ParseFileStep, PutBeginStep, CyclePutStep, CrawlEndsStep,
     PruneScanStep, PruneBatchStep, PruneFailsStep, CycleEndsStep DEF Workers
<1>4. ASSUME NEW w \in Workers, EndContext(w), UNCHANGED queryVars
      PROVE  IInv'
  BY <1>4, EndContextStep
<1>5. ASSUME NEW f \in Files, EditTree(f)
      PROVE  IInv'
  BY <1>5, EditStep
<1>6. CASE UNCHANGED <<vars, queryVars>>
  <2>1. UNCHANGED <<disk, db, pc, todo, toPut, txn, ended, stale, unwalked, matches, asked, hit, calm>>
    BY <1>6 DEF vars, cycleVars, searchVars, queryVars
  <2>2. Domains' /\ TxnShape' /\ CacheSound' /\ PrunesInTime'
    BY <2>1 DEF IInv, Domains, TxnShape, CacheSound, PrunesInTime
  <2>3. \A q \in Searches : Kept(q)
    BY <2>1 DEF Kept, SameTxn
  <2>4. Scans'
    BY <2>1, <2>3, KeptScan DEF IInv, Scans
  <2> QED BY <2>2, <2>4 DEF IInv
<1> QED BY <1>1, <1>2, <1>3, <1>4, <1>5, <1>6 DEF QueryNext

\* The inductive invariant holds in every reachable state.
THEOREM Invariance == QuerySpec => []IInv
  BY InitIInv, NextIInv, PTL DEF QuerySpec

\* Whatever edits, cycles and other queries do meanwhile, a query that passes
\* over nothing is told that there is no such symbol only if there is none,
\* unless a repository filter meets the cap of its scan (server.go:306-344).
THEOREM NotFoundIsTrue == QuerySpec => []NotFoundMeansAbsent
<1>1. IInv => NotFoundMeansAbsent
  <2> SUFFICES ASSUME IInv, NEW q \in Searches, LiveScan, NotFound(q), calm[q],
                      asked[q] = AnyRepo \/ Cardinality(matches[q]) < MaxLive,
                      NEW f \in Files, NEW rec \in Within(Declared(f, disk[f]), asked[q]),
                      Wanted(q, rec)
               PROVE  FALSE
    BY DEF NotFoundMeansAbsent
  <2>1. pc[q] = "returned" /\ hit[q] = {} /\ LiveAnswer(q) = {}
    BY DEF NotFound, Answer
  <2>2. ~(Cardinality(matches[q]) >= MaxLive)
    <3>a. Cardinality(matches[q]) \in Nat
      BY FS_CardinalityType DEF IInv, Scans, Fits
    <3>1. CASE asked[q] = AnyRepo
      <4>1. matches[q] = {}
        BY <2>1, <3>1 DEF LiveAnswer, Within
      <4> QED BY <4>1, FS_EmptySet, IndexerAssumption
    <3>2. CASE Cardinality(matches[q]) < MaxLive
      BY <3>a, <3>2, IndexerAssumption
    <3> QED BY <3>1, <3>2
  <2>3. rec \in matches[q]
    BY <2>1, <2>2 DEF IInv, Scans, ScanFinds, Within
  <2> QED BY <2>1, <2>3 DEF LiveAnswer, Within
<1> QED BY <1>1, Invariance, PTL

\* Answers are of the repository and the kinds asked for, from the cache and
\* from a live scan alike (server.go:306-344, store.go:233-315).
THEOREM AnswersFit == QuerySpec => []FiltersHold
<1>1. IInv => FiltersHold
  BY DEF IInv, Scans, Fits, Underway, FiltersHold, Answer, LiveAnswer, Within
<1> QED BY <1>1, Invariance, PTL

-----------------------------------------------------------------------------
(* Types. They take a sharper invariant than QueryTypeOK, which leaves the  *)
(* domains of two functions open.                                           *)

DbTyped(d) ==
    /\ d.recs \subseteq Records
    /\ \A k \in DOMAIN d.idx : <<k, d.idx[k]>> \in IndexEntries

TxnTyped(t) ==
    \/ t = NoTxn
    \/ t.rec \in Records /\ t.read \subseteq Records /\ t.overtaken \in BOOLEAN

TInv == DOMAIN disk = Files /\ DOMAIN txn = Workers /\ QueryTypeOK

\* What a file declares now are records.
LEMMA DeclaredTyped ==
  ASSUME TInv, NEW f \in Files
  PROVE  Declared(f, disk[f]) \subseteq Records
  BY DEF TInv, QueryTypeOK, TypeOK, Records

\* A write or an invalidation leaves a database of records and their entries.
LEMMA PutTyped ==
  ASSUME NEW d, DbTyped(d), NEW rec \in Records, NEW read
  PROVE  DbTyped(PutSymbol(d, rec, read))
<1> DEFINE after == PutSymbol(d, rec, read)
<1>1. /\ after.recs = d.recs \/ after.recs = (d.recs \ Stored(d, rec)) \cup {rec}
      /\ after.idx = WriteIndexes(d, rec)
  BY DEF PutSymbol, RefreshUnchanged
<1> HIDE DEF after
<1>2. after.recs \subseteq Records
  BY <1>1 DEF DbTyped
<1>3. ASSUME NEW k \in DOMAIN after.idx
      PROVE  <<k, after.idx[k]>> \in IndexEntries
  <2>1. CASE k \in IndexKeys(rec)
    <3>1. after.idx[k] = PrimaryKey(rec)
      BY <1>1, <2>1 DEF WriteIndexes
    <3>2. <<k, PrimaryKey(rec)>> \in IndexKeys(rec) \X {PrimaryKey(rec)}
      BY <2>1
    <3> QED BY <3>1, <3>2 DEF IndexEntries
  <2>2. CASE k \notin IndexKeys(rec)
    BY <1>1, <1>3, <2>2 DEF WriteIndexes, DbTyped
  <2> QED BY <2>1, <2>2
<1>4. DbTyped(after)
  BY <1>2, <1>3 DEF DbTyped
<1> QED BY <1>4 DEF after

LEMMA DeleteTyped ==
  ASSUME NEW d, DbTyped(d), NEW batch
  PROVE  DbTyped(DeleteRecords(d, batch))
  BY DEF DbTyped, DeleteRecords

\* Overtaken transactions are transactions.
LEMMA OvertakenTyped ==
  ASSUME \A w \in Workers : TxnTyped(txn[w]), NEW keys
  PROVE  /\ DOMAIN Overtaken(keys) = Workers
         /\ \A w \in Workers : TxnTyped(Overtaken(keys)[w])
  BY DEF Overtaken, TxnTyped

\* Disturbing cycles leaves quiet what it is.
LEMMA DisturbTyped ==
  ASSUME quiet \in [Cycles -> BOOLEAN], NEW repo, NEW w, Disturb(repo, w)
  PROVE  quiet' \in [Cycles -> BOOLEAN]
<1>1. \A c \in Cycles : (quiet[c] /\ (RepoFor[c] = repo => c = w)) \in BOOLEAN
  OBVIOUS
<1> QED BY <1>1 DEF Disturb

\* The types of what the steps change together.
TreesTyped ==
    /\ DOMAIN disk = Files
    /\ \A f \in Files : disk[f] \in Versions[f]
    /\ edits \in 0..MaxEdits

CacheTyped ==
    /\ DbTyped(db)
    /\ DOMAIN txn = Workers
    /\ \A w \in Workers : TxnTyped(txn[w])

WorkTyped ==
    /\ pc \in [Workers -> {"idle", "crawl", "prune", "delete", "search",
                           "indexed", "returned", "failed"}]
    /\ todo \in [Workers -> SUBSET Files]
    /\ toPut \in [Workers -> SUBSET Records]
    /\ ended \in [Workers -> BOOLEAN]

CyclesTyped ==
    /\ live \in [Cycles -> SUBSET Keys]
    /\ stale \in [Cycles -> SUBSET Records]
    /\ produced \in [Cycles -> SUBSET Keys]
    /\ missed \in [Cycles -> SUBSET Records]
    /\ quiet \in [Cycles -> BOOLEAN]
    /\ pruned \in [Cycles -> BOOLEAN]

QueriesTyped ==
    /\ unwalked \in [Searches -> SUBSET Repos]
    /\ matches \in [Searches -> SUBSET Records]
    /\ asked \in [Searches -> Repos \cup {AnyRepo}]
    /\ hit \in [Searches -> SUBSET Records]
    /\ calm \in [Searches -> BOOLEAN]

LEMMA TypesInParts ==
  TInv <=> TreesTyped /\ CacheTyped /\ WorkTyped /\ CyclesTyped /\ QueriesTyped
  BY DEF TInv, QueryTypeOK, TypeOK, TreesTyped, CacheTyped, WorkTyped, CyclesTyped,
         QueriesTyped, DbTyped, TxnTyped

LEMMA PartsMakeTypes ==
  TreesTyped' /\ CacheTyped' /\ WorkTyped' /\ CyclesTyped' /\ QueriesTyped' => TInv'
  BY DEF TInv, QueryTypeOK, TypeOK, TreesTyped, CacheTyped, WorkTyped, CyclesTyped,
         QueriesTyped, DbTyped, TxnTyped

\* Steps of queries that write nothing.
LEMMA AskTyped ==
  ASSUME TInv, NEW q \in Searches, Ask(q)
  PROVE  TInv'
<1>1. q \in Workers
  BY DEF Workers
<1>2. PICK repo \in RepoFilters :
         /\ asked' = [asked EXCEPT ![q] = repo]
         /\ Answered(q, repo) \/ Missed(q, repo) \/ LookupFails(q)
  BY DEF Ask
<1>3. /\ UNCHANGED <<disk, edits, db, todo, toPut, txn, ended, live, stale, produced, missed,
                     quiet, pruned, matches, calm>>
      /\ \E state \in {"returned", "search", "failed"} : pc' = [pc EXCEPT ![q] = state]
      /\ unwalked' = unwalked \/ unwalked' = [unwalked EXCEPT ![q] = Repos]
  BY <1>2 DEF Ask, Answered, Missed, StartSearch, LookupFails, Goto, cycleVars, searchVars, history
<1>4. hit' \in [Searches -> SUBSET Records]
  <2>1. CASE UNCHANGED hit
    BY <2>1, TypesInParts DEF QueriesTyped
  <2>2. CASE Answered(q, repo)
    <3>1. PICK best \in Best(Cached(q, repo), TargetOf[q], MaxResults) :
             hit' = [hit EXCEPT ![q] = best]
      BY <2>2 DEF Answered
    <3>2. best \subseteq db.recs
      BY <3>1 DEF Best, Cached, Within, Found
    <3>3. best \subseteq Records
      BY <3>2, TypesInParts DEF CacheTyped, DbTyped
    <3> QED BY <3>1, <3>3, TypesInParts DEF QueriesTyped
  <2> QED BY <1>2, <2>1, <2>2 DEF Missed, LookupFails
<1>5. asked' \in [Searches -> Repos \cup {AnyRepo}] /\ unwalked' \in [Searches -> SUBSET Repos]
  BY <1>2, <1>3, TypesInParts, QueryAssumption DEF QueriesTyped
<1>6. QueriesTyped'
  BY <1>3, <1>4, <1>5, TypesInParts DEF QueriesTyped
<1>7. WorkTyped'
  BY <1>1, <1>3, TypesInParts DEF WorkTyped
<1>8. TreesTyped' /\ CacheTyped' /\ CyclesTyped'
  BY <1>3, TypesInParts DEF TreesTyped, CacheTyped, CyclesTyped
<1> QED BY <1>6, <1>7, <1>8, PartsMakeTypes

LEMMA ScanTyped ==
  ASSUME TInv, NEW q \in Searches,
         Scan(q) \/ (UNCHANGED queryVars /\ SearchEnds(q))
  PROVE  TInv'
<1>1. q \in Workers
  BY DEF Workers
<1>2. UNCHANGED <<disk, edits, db, txn, ended, live, stale, produced, missed, quiet, pruned,
                  matches, asked, hit>>
  BY DEF Scan, SearchFile, WalkRepo, SearchEnds, cycleVars, searchVars, history, queryVars
<1>3. TreesTyped' /\ CacheTyped' /\ CyclesTyped'
  BY <1>2, TypesInParts DEF TreesTyped, CacheTyped, CyclesTyped
<1>4. CASE Scan(q)
  <2>1. /\ \/ UNCHANGED toPut
           \/ \E f \in todo[q] : toPut' = [toPut EXCEPT ![q] = Matching(q, Declared(f, disk[f]))]
        /\ \/ UNCHANGED todo
           \/ \E files \in SUBSET Files : todo' = [todo EXCEPT ![q] = files]
        /\ UNCHANGED pc \/ pc' = [pc EXCEPT ![q] = "failed"]
        /\ UNCHANGED unwalked \/ \E repo : unwalked' = [unwalked EXCEPT ![q] = @ \ {repo}]
    <3>1. CASE WalkRepo(q)
      <4>1. \A repo : Existing(repo) \subseteq Files
        BY DEF Existing
      <4> QED BY <3>1, <4>1 DEF WalkRepo, GiveUp, Goto
    <3>2. CASE SearchFile(q)
      <4>1. todo[q] \subseteq Files
        BY <1>1, TypesInParts DEF WorkTyped
      <4>2. \A f : todo[q] \ {f} \in SUBSET Files
        BY <4>1
      <4> QED BY <3>2, <4>2 DEF SearchFile, Goto, searchVars
    <3> QED BY <1>4, <3>1, <3>2 DEF Scan
  <2>2. \A f \in todo[q] : Matching(q, Declared(f, disk[f])) \subseteq Records
    <3>1. todo[q] \subseteq Files
      BY <1>1, TypesInParts DEF WorkTyped
    <3> QED BY <3>1, DeclaredTyped DEF Matching
  <2>3. WorkTyped'
    BY <1>1, <1>2, <2>1, <2>2, TypesInParts DEF WorkTyped
  <2>4. QueriesTyped'
    <3>1. calm' = [calm EXCEPT ![q] = @ /\ (pc'[q] = "search" => PassesNothingOver(q))]
      BY <1>4 DEF Scan
    <3>2. (calm[q] /\ (pc'[q] = "search" => PassesNothingOver(q))) \in BOOLEAN
      OBVIOUS
    <3> HIDE DEF PassesNothingOver
    <3>3. calm' \in [Searches -> BOOLEAN]
      BY <3>1, <3>2, TypesInParts DEF QueriesTyped
    <3> QED BY <1>2, <2>1, <3>3, TypesInParts DEF QueriesTyped
  <2> QED BY <1>3, <2>3, <2>4, PartsMakeTypes
<1>5. CASE SearchEnds(q) /\ UNCHANGED queryVars
  <2>1. pc' = [pc EXCEPT ![q] = "returned"] /\ UNCHANGED <<todo, toPut, unwalked, calm>>
    BY <1>5 DEF SearchEnds, Goto, searchVars, queryVars
  <2>2. WorkTyped' /\ QueriesTyped'
    BY <1>1, <1>2, <2>1, TypesInParts DEF WorkTyped, QueriesTyped
  <2> QED BY <1>3, <2>2, PartsMakeTypes
<1> QED BY <1>4, <1>5

\* The steps of a transaction.
LEMMA PutBeginTyped ==
  ASSUME TInv, NEW w \in Workers, PutBegin(w), UNCHANGED queryVars
  PROVE  TInv'
<1>1. PICK rec \in toPut[w] :
         /\ txn' = [txn EXCEPT ![w] = [rec |-> rec, read |-> Stored(db, rec), overtaken |-> FALSE]]
         /\ toPut' = [toPut EXCEPT ![w] = @ \ {rec}]
  BY DEF PutBegin
<1>2. UNCHANGED <<disk, edits, db, pc, todo, ended, cycleVars, searchVars, history>>
  BY DEF PutBegin
<1>3. rec \in Records /\ Stored(db, rec) \subseteq Records
  BY <1>1, TypesInParts DEF WorkTyped, CacheTyped, DbTyped, Stored
<1>4. CacheTyped'
  BY <1>1, <1>2, <1>3, TypesInParts DEF CacheTyped, TxnTyped
<1>5. TreesTyped' /\ WorkTyped' /\ CyclesTyped' /\ QueriesTyped'
  BY <1>1, <1>2, TypesInParts DEF TreesTyped, WorkTyped, CyclesTyped, QueriesTyped,
     cycleVars, searchVars, history, queryVars
<1> QED BY <1>4, <1>5, PartsMakeTypes

LEMMA TxnEndTyped ==
  ASSUME TInv, NEW w \in Workers, txn[w] # NoTxn, Commit(w) \/ PutFails(w)
  PROVE  /\ CacheTyped'
         /\ quiet' \in [Cycles -> BOOLEAN]
         /\ UNCHANGED <<produced, pruned>>
         /\ txn[w].rec \in Records /\ PrimaryKey(txn[w].rec) \in Keys
<1>1. txn[w].rec \in Records
  BY TypesInParts DEF CacheTyped, TxnTyped
<1>2. CASE Commit(w)
  <2>1. PICK keys : txn' = [Overtaken(keys) EXCEPT ![w] = NoTxn]
    BY <1>2 DEF Commit
  <2>2. DOMAIN txn' = Workers /\ \A v \in Workers : TxnTyped(txn'[v])
    <3>1. TxnTyped(NoTxn)
      BY DEF TxnTyped
    <3>2. \A v \in Workers : TxnTyped(txn[v])
      BY TypesInParts DEF CacheTyped
    <3>3. DOMAIN Overtaken(keys) = Workers /\ \A v \in Workers : TxnTyped(Overtaken(keys)[v])
      BY <3>2, OvertakenTyped
    <3>4. \A v \in Workers : txn'[v] = IF v = w THEN NoTxn ELSE Overtaken(keys)[v]
      BY <2>1, <3>3
    <3>5. DOMAIN txn' = Workers
      BY <2>1, <3>3
    <3> QED BY <3>1, <3>3, <3>4, <3>5
  <2>3. DbTyped(db')
    BY <1>1, <1>2, PutTyped, TypesInParts DEF Commit, CacheTyped
  <2>4. quiet' \in [Cycles -> BOOLEAN]
    BY <1>2, DisturbTyped, TypesInParts DEF Commit, CyclesTyped
  <2> QED BY <1>1, <1>2, <2>2, <2>3, <2>4 DEF CacheTyped, Commit, Keys
<1>3. CASE PutFails(w)
  BY <1>1, <1>3, TypesInParts DEF PutFails, CacheTyped, CyclesTyped, TxnTyped, Keys, history
<1> QED BY <1>2, <1>3

LEMMA SearchPutTyped ==
  ASSUME TInv, NEW q \in Searches, SearchPut(q), UNCHANGED queryVars
  PROVE  TInv'
<1>1. q \in Workers /\ txn[q] # NoTxn
  BY DEF SearchPut, Workers
<1>2. /\ CacheTyped'
      /\ quiet' \in [Cycles -> BOOLEAN]
      /\ UNCHANGED <<produced, pruned>>
      /\ txn[q].rec \in Records
  BY <1>1, TxnEndTyped DEF SearchPut
<1>3. /\ matches' = [matches EXCEPT ![q] = @ \cup {txn[q].rec}]
      /\ \/ pc' = [pc EXCEPT ![q] = "returned"] /\ toPut' = [toPut EXCEPT ![q] = {}]
         \/ UNCHANGED <<pc, toPut>>
      /\ UNCHANGED <<disk, edits, todo, ended, live, stale, unwalked, missed, queryVars>>
  BY DEF SearchPut, Goto, cycleVars
<1>4. QueriesTyped'
  BY <1>2, <1>3, TypesInParts DEF QueriesTyped, queryVars
<1>5. WorkTyped'
  BY <1>1, <1>3, TypesInParts DEF WorkTyped
<1>6. TreesTyped' /\ CyclesTyped'
  BY <1>2, <1>3, TypesInParts DEF TreesTyped, CyclesTyped
<1> QED BY <1>2, <1>4, <1>5, <1>6, PartsMakeTypes

LEMMA CyclePutTyped ==
  ASSUME TInv, NEW c \in Cycles, CyclePut(c), UNCHANGED queryVars
  PROVE  TInv'
<1>1. c \in Workers /\ txn[c] # NoTxn
  BY DEF CyclePut, Workers
<1>2. /\ CacheTyped'
      /\ quiet' \in [Cycles -> BOOLEAN]
      /\ UNCHANGED <<produced, pruned>>
      /\ txn[c].rec \in Records /\ PrimaryKey(txn[c].rec) \in Keys
  BY <1>1, TxnEndTyped DEF CyclePut
<1>3. /\ live' = live \/ live' = [live EXCEPT ![c] = @ \cup {PrimaryKey(txn[c].rec)}]
      /\ missed' = missed \/ missed' = [missed EXCEPT ![c] = @ \cup {txn[c].rec}]
      /\ UNCHANGED <<disk, edits, pc, todo, toPut, ended, stale, searchVars, queryVars>>
  BY DEF CyclePut, ProvedKey
<1>4. CyclesTyped'
  BY <1>2, <1>3, TypesInParts DEF CyclesTyped
<1>5. TreesTyped' /\ WorkTyped' /\ QueriesTyped'
  BY <1>3, TypesInParts DEF TreesTyped, WorkTyped, QueriesTyped, searchVars, queryVars
<1> QED BY <1>2, <1>4, <1>5, PartsMakeTypes

\* The other steps of a cycle.
LEMMA CrawlTyped ==
  ASSUME TInv, NEW c \in Cycles, StartCycle(c) \/ ParseFile(c), UNCHANGED queryVars
  PROVE  TInv'
<1>1. c \in Workers
  BY DEF Workers
<1>2. UNCHANGED <<disk, edits, db, txn, ended, live, stale, pruned, searchVars>>
  BY DEF StartCycle, ParseFile, cycleVars
<1>3. TreesTyped' /\ CacheTyped' /\ QueriesTyped'
  BY <1>2, TypesInParts DEF TreesTyped, CacheTyped, QueriesTyped, searchVars, queryVars
<1>4. CASE StartCycle(c)
  <2>1. /\ \E state \in {"failed", "crawl"} : pc' = [pc EXCEPT ![c] = state]
        /\ \/ UNCHANGED <<todo, missed>>
           \/ \E found \in SUBSET Existing(RepoFor[c]) :
                 /\ todo' = [todo EXCEPT ![c] = found]
                 /\ missed' = [missed EXCEPT ![c] =
                                  DeclaredIn(Existing(RepoFor[c]) \ found)]
        /\ quiet' = quiet \/ quiet' = [quiet EXCEPT ![c] = TRUE]
        /\ UNCHANGED <<toPut, produced>>
    BY <1>4 DEF StartCycle, Goto
  <2>2. WorkTyped'
    BY <1>1, <1>2, <2>1, TypesInParts DEF WorkTyped, Existing
  <2>3. \A files \in SUBSET Files : DeclaredIn(files) \subseteq Records
    BY DeclaredTyped DEF DeclaredIn
  <2>4. \A found : DeclaredIn(Existing(RepoFor[c]) \ found) \in SUBSET Records
    BY <2>3 DEF Existing
  <2>5. missed' \in [Cycles -> SUBSET Records]
    <3>1. missed' = missed \/ \E recs \in SUBSET Records : missed' = [missed EXCEPT ![c] = recs]
      BY <2>1, <2>4
    <3> QED BY <3>1, TypesInParts DEF CyclesTyped
  <2>6. CyclesTyped'
    <3> HIDE DEF DeclaredIn
    <3> QED BY <1>2, <2>1, <2>5, TypesInParts DEF CyclesTyped
  <2> QED BY <1>3, <2>2, <2>6, PartsMakeTypes
<1>5. CASE ParseFile(c)
  <2>1. PICK f \in todo[c] :
           /\ todo' = [todo EXCEPT ![c] = @ \ {f}]
           /\ \/ /\ toPut' = [toPut EXCEPT ![c] = @ \cup Declared(f, disk[f])]
                 /\ produced' = [produced EXCEPT ![c] =
                                    @ \cup {PrimaryKey(r) : r \in Declared(f, disk[f])}]
                 /\ UNCHANGED missed
              \/ /\ missed' = [missed EXCEPT ![c] = @ \cup Declared(f, disk[f])]
                 /\ UNCHANGED <<toPut, produced>>
    BY <1>5 DEF ParseFile
  <2>2. Declared(f, disk[f]) \subseteq Records
    BY <1>1, <2>1, DeclaredTyped, TypesInParts DEF WorkTyped
  <2>3. {PrimaryKey(r) : r \in Declared(f, disk[f])} \subseteq Keys
    BY <2>2 DEF Keys
  <2>4. pc' = pc /\ quiet' = quiet
    BY <1>5 DEF ParseFile
  <2>5. WorkTyped'
    BY <1>1, <1>2, <2>1, <2>2, <2>4, TypesInParts DEF WorkTyped
  <2>6. CyclesTyped'
    BY <1>2, <2>1, <2>2, <2>3, <2>4, TypesInParts DEF CyclesTyped
  <2> QED BY <1>3, <2>5, <2>6, PartsMakeTypes
<1> QED BY <1>4, <1>5

LEMMA PruneTyped ==
  ASSUME TInv, NEW c \in Cycles, UNCHANGED queryVars,
         CrawlEnds(c) \/ PruneScan(c) \/ PruneBatch(c) \/ PruneFails(c) \/ CycleEnds(c)
  PROVE  TInv'
<1>1. c \in Workers
  BY DEF Workers
<1>2. UNCHANGED <<disk, edits, todo, toPut, ended, live, produced, missed, searchVars>>
  BY DEF CrawlEnds, PruneScan, PruneBatch, PruneFails, CycleEnds, cycleVars, history
<1>3. TreesTyped' /\ QueriesTyped'
  BY <1>2, TypesInParts DEF TreesTyped, QueriesTyped, searchVars, queryVars
<1>4. \/ pc' = pc
      \/ \E state \in {"prune", "failed", "delete", "indexed"} : pc' = [pc EXCEPT ![c] = state]
  BY DEF CrawlEnds, PruneScan, PruneBatch, PruneFails, CycleEnds, Goto
<1>5. WorkTyped'
  BY <1>1, <1>2, <1>4, TypesInParts DEF WorkTyped
<1>6. CASE PruneBatch(c)
  <2>1. PICK batch \in SUBSET stale[c] :
           /\ db' = DeleteRecords(db, batch)
           /\ txn' = Overtaken({PrimaryKey(r) : r \in batch})
           /\ stale' = [stale EXCEPT ![c] = @ \ batch]
    BY <1>6 DEF PruneBatch
  <2>2. CacheTyped'
    BY <2>1, DeleteTyped, OvertakenTyped, TypesInParts DEF CacheTyped
  <2>3. quiet' \in [Cycles -> BOOLEAN] /\ pruned' = [pruned EXCEPT ![c] = TRUE]
    BY <1>6, DisturbTyped, TypesInParts DEF PruneBatch, CyclesTyped
  <2>4. CyclesTyped'
    BY <1>2, <2>1, <2>3, TypesInParts DEF CyclesTyped
  <2> QED BY <1>3, <1>5, <2>2, <2>4, PartsMakeTypes
<1>7. CASE ~PruneBatch(c)
  <2>1. /\ UNCHANGED <<db, txn, quiet, pruned>>
        /\ \/ stale' = stale \/ stale' = [stale EXCEPT ![c] = {}]
           \/ stale' = [stale EXCEPT ![c] = Stale(db, RepoFor[c], live[c])]
    BY <1>7 DEF CrawlEnds, PruneScan, PruneFails, CycleEnds, cycleVars, history
  <2>2. CacheTyped' /\ Stale(db, RepoFor[c], live[c]) \subseteq Records
    BY <2>1, TypesInParts DEF CacheTyped, DbTyped, Stale
  <2>3. CyclesTyped'
    BY <1>2, <2>1, <2>2, TypesInParts DEF CyclesTyped
  <2> QED BY <1>3, <1>5, <2>2, <2>3, PartsMakeTypes
<1> QED BY <1>6, <1>7

\* The steps of the environment.
LEMMA AroundTyped ==
  ASSUME TInv,
         \/ \E w \in Workers : EndContext(w) /\ UNCHANGED queryVars
         \/ \E f \in Files : EditTree(f)
  PROVE  TInv'
<1>1. ASSUME NEW w \in Workers, EndContext(w), UNCHANGED queryVars
      PROVE  TInv'
  <2>1. /\ ended' = [ended EXCEPT ![w] = TRUE]
        /\ UNCHANGED <<disk, edits, db, pc, todo, toPut, txn, cycleVars, searchVars, history>>
    BY <1>1 DEF EndContext
  <2>2. TreesTyped' /\ CacheTyped' /\ WorkTyped' /\ CyclesTyped' /\ QueriesTyped'
    BY <1>1, <2>1, TypesInParts DEF TreesTyped, CacheTyped, WorkTyped, CyclesTyped,
       QueriesTyped, cycleVars, searchVars, history, queryVars
  <2> QED BY <2>2, PartsMakeTypes
<1>2. ASSUME NEW f \in Files, EditTree(f)
      PROVE  TInv'
  <2>1. /\ edits < MaxEdits /\ edits' = edits + 1
        /\ \E v \in Versions[f] : disk' = [disk EXCEPT ![f] = v]
        /\ Disturb(RepoOf[f], Absent)
        /\ calm' = [q \in Searches |-> calm[q] /\ pc[q] = "idle"]
        /\ UNCHANGED <<db, pc, todo, toPut, txn, ended, cycleVars, searchVars, produced,
                       missed, pruned, asked, hit>>
    BY <1>2 DEF EditTree, Edit
  <2>2. TreesTyped'
    <3>1. edits' \in 0..MaxEdits
      BY <2>1, TypesInParts, IndexerAssumption DEF TreesTyped
    <3> QED BY <2>1, <3>1, TypesInParts DEF TreesTyped
  <2>3. CyclesTyped'
    BY <2>1, DisturbTyped, TypesInParts DEF CyclesTyped, cycleVars
  <2>4. QueriesTyped'
    <3>1. \A q \in Searches : (calm[q] /\ pc[q] = "idle") \in BOOLEAN
      OBVIOUS
    <3>2. calm' \in [Searches -> BOOLEAN]
      BY <2>1, <3>1
    <3> QED BY <2>1, <3>2, TypesInParts DEF QueriesTyped, searchVars
  <2>5. CacheTyped' /\ WorkTyped'
    BY <2>1, TypesInParts DEF CacheTyped, WorkTyped
  <2> QED BY <2>2, <2>3, <2>4, <2>5, PartsMakeTypes
<1> QED BY <1>1, <1>2

LEMMA InitTyped == QueryInit => TInv
<1> SUFFICES ASSUME QueryInit
             PROVE  TInv
  OBVIOUS
<1>1. TreesTyped
  BY IndexerAssumption DEF QueryInit, Init, TreesTyped
<1>2. CacheTyped
  BY DEF QueryInit, Init, CacheTyped, DbTyped, TxnTyped, EmptyDb
<1>3. WorkTyped /\ CyclesTyped /\ QueriesTyped
  BY DEF QueryInit, Init, WorkTyped, CyclesTyped, QueriesTyped
<1> QED BY <1>1, <1>2, <1>3, TypesInParts

LEMMA NextTyped == TInv /\ [QueryNext]_<<vars, queryVars>> => TInv'
<1> SUFFICES ASSUME TInv, [QueryNext]_<<vars, queryVars>>
             PROVE  TInv'
  OBVIOUS
<1>1. ASSUME NEW q \in Searches, Ask(q)
      PROVE  TInv'
  BY <1>1, AskTyped
<1>2. ASSUME NEW q \in Searches,
             Scan(q) \/ (UNCHANGED queryVars /\ SearchEnds(q))
      PROVE  TInv'
  BY <1>2, ScanTyped
<1>3. ASSUME NEW q \in Searches, SearchPut(q), UNCHANGED queryVars
      PROVE  TInv'
  BY <1>3, SearchPutTyped
<1>4. ASSUME NEW w \in Workers, PutBegin(w), UNCHANGED queryVars
      PROVE  TInv'
  BY <1>4, PutBeginTyped
<1>5. ASSUME NEW c \in Cycles, UNCHANGED queryVars,
             \/ StartCycle(c) \/ ParseFile(c) \/ CyclePut(c)
             \/ CrawlEnds(c) \/ PruneScan(c) \/ PruneBatch(c) \/ PruneFails(c)
             \/ CycleEnds(c)
      PROVE  TInv'
  BY <1>5, CrawlTyped, CyclePutTyped, PruneTyped
<1>6. CASE UNCHANGED <<vars, queryVars>>
  <2>1. TreesTyped' /\ CacheTyped' /\ WorkTyped' /\ CyclesTyped' /\ QueriesTyped'
    BY <1>6, TypesInParts DEF TreesTyped, CacheTyped, WorkTyped, CyclesTyped, QueriesTyped,
       vars, cycleVars, searchVars, history, queryVars
  <2> QED BY <2>1, PartsMakeTypes
<1>7. Cycles \subseteq Workers /\ Searches \subseteq Workers
  BY DEF Workers
<1> QED BY <1>1, <1>2, <1>3, <1>4, <1>5, <1>6, <1>7, AroundTyped DEF QueryNext

\* The cache holds records that some text of a file declares, under entries
\* that lead to keys of such records, and every worker has to do with them
\* only, for any repositories, files, cycles and queries.
THEOREM TypeCorrect == QuerySpec => []QueryTypeOK
<1>1. TInv => QueryTypeOK
  BY DEF TInv
<1> QED BY <1>1, InitTyped, NextTyped, PTL DEF QuerySpec

=============================================================================
