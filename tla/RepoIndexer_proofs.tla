------------------------- MODULE RepoIndexer_proofs -------------------------
(* What an indexing cycle that nobody disturbs leaves in the cache, for     *)
(* every set of repositories and files, next to any number of other cycles  *)
(* and queries.                                                             *)
EXTENDS SymbolQuery_proofs

-----------------------------------------------------------------------------
(* The inductive invariant, part by part.                                   *)

\* The records the cache holds of the repository of a cycle.
Here(c) == {rec \in db.recs : rec.repo = RepoFor[c]}

\* Those that it should hold.
There(c) == OnDisk(RepoFor[c])

\* A record that the cycle has parsed and that is in the cache to stay, or on
\* its way there.
Landed(c, rec) == rec \in Here(c) /\ PrimaryKey(rec) \in live[c]

Coming(c, rec) == rec \in toPut[c] \/ (txn[c] # NoTxn /\ txn[c].rec = rec)

DiskShape ==
    /\ DOMAIN live = Cycles /\ DOMAIN quiet = Cycles /\ DOMAIN missed = Cycles
    /\ DOMAIN disk = Files
    /\ \A f \in Files : disk[f] \in Versions[f]

\* A primary key holds one record.
KeysHoldOne == \A r, s \in db.recs : PrimaryKey(r) = PrimaryKey(s) => r = s

\* A transaction that can still commit has read what is stored now.
ReadsCurrent ==
    \A w \in Workers : txn[w] # NoTxn /\ ~txn[w].overtaken =>
        txn[w].read = Stored(db, txn[w].rec)

\* Where cycles hold what.
CycleShape ==
    \A c \in Cycles :
        /\ pc[c] # "crawl" => toPut[c] = {} /\ txn[c] = NoTxn
        /\ pc[c] = "crawl" => \A f \in todo[c] : f \in Files /\ RepoOf[f] = RepoFor[c]
        /\ pc[c] = "idle" => live[c] = {} /\ ~quiet[c]
        /\ \A rec \in stale[c] : rec.repo = RepoFor[c]

\* While it crawls, what is declared and not yet read is coming, has landed or
\* has been missed, and nothing else is.
Crawling(c) ==
    /\ \A rec : Coming(c, rec) => rec \in There(c)
    /\ txn[c] # NoTxn => ~txn[c].overtaken
    /\ live[c] \subseteq {PrimaryKey(rec) : rec \in There(c) \cap Here(c)}
    /\ \A f \in Files : \A rec \in Declared(f, disk[f]) :
          RepoOf[f] = RepoFor[c] =>
             f \in todo[c] \/ Coming(c, rec) \/ Landed(c, rec) \/ rec \in missed[c]

\* When it invalidates, all that it has not missed has landed.
Settled(c) ==
    /\ live[c] \subseteq {PrimaryKey(rec) : rec \in There(c) \cap Here(c)}
    /\ \A rec \in There(c) \ missed[c] : Landed(c, rec)

Exact(c) ==
    quiet[c] =>
        /\ pc[c] = "crawl" => Crawling(c)
        /\ pc[c] = "prune" => Settled(c)
        /\ pc[c] = "delete" =>
              /\ There(c) \ missed[c] \subseteq Here(c)
              /\ Here(c) \subseteq There(c) \cup stale[c]
              /\ \A rec \in stale[c], kept \in There(c) \ missed[c] :
                    PrimaryKey(rec) # PrimaryKey(kept)
        /\ pc[c] = "indexed" =>
              There(c) \ missed[c] \subseteq Here(c) /\ Here(c) \subseteq There(c)

EInv == DiskShape /\ KeysHoldOne /\ ReadsCurrent /\ CycleShape /\ \A c \in Cycles : Exact(c)

-----------------------------------------------------------------------------
(* Keys.                                                                    *)

\* What a primary key tells of its record.
LEMMA KeyTells ==
  ASSUME NEW r, NEW s, PrimaryKey(r) = PrimaryKey(s)
  PROVE  /\ r.repo = s.repo /\ r.file = s.file /\ r.kind = s.kind
         /\ r.name = s.name /\ r.offset = s.offset
  BY DEF PrimaryKey

\* What a tree declares is of its repository.
LEMMA ThereIsOfRepo ==
  ASSUME NEW c \in Cycles, NEW rec
  PROVE  /\ rec \in There(c) <=>
                \E f \in Files : RepoOf[f] = RepoFor[c] /\ rec \in Declared(f, disk[f])
         /\ rec \in There(c) => rec.repo = RepoFor[c]
<1>1. rec \in There(c) <=>
         \E f \in Files : RepoOf[f] = RepoFor[c] /\ rec \in Declared(f, disk[f])
  BY DEF There, OnDisk
<1>2. \A f \in Files : rec \in Declared(f, disk[f]) => rec.repo = RepoOf[f]
  BY DEF Declared, Record
<1> QED BY <1>1, <1>2

\* A tree declares no two records under one key.
LEMMA ThereIsKeyed ==
  ASSUME DiskShape, NEW c \in Cycles, NEW r \in There(c), NEW s \in There(c),
         PrimaryKey(r) = PrimaryKey(s)
  PROVE  r = s
<1>1. PICK f \in Files : RepoOf[f] = RepoFor[c] /\ r \in Declared(f, disk[f])
  BY ThereIsOfRepo
<1>2. PICK g \in Files : RepoOf[g] = RepoFor[c] /\ s \in Declared(g, disk[g])
  BY ThereIsOfRepo
<1>3. /\ disk[f] # Absent /\ disk[g] # Absent
      /\ \E sym \in disk[f] : r = Record(f, sym)
      /\ \E sym \in disk[g] : s = Record(g, sym)
  BY <1>1, <1>2 DEF Declared
<1>4. PICK a \in disk[f] : r = Record(f, a)
  BY <1>3
<1>5. PICK b \in disk[g] : s = Record(g, b)
  BY <1>3
<1>6. /\ NameOf[f] = NameOf[g] /\ a.kind = b.kind
      /\ a.name = b.name /\ a.offset = b.offset
  BY <1>4, <1>5, KeyTells DEF Record
<1>7. f = g
  BY <1>1, <1>2, <1>6, PathsAndNodes
<1>8. a = b
  BY <1>3, <1>4, <1>5, <1>6, <1>7, PathsAndNodes DEF DiskShape
<1> QED BY <1>4, <1>5, <1>7, <1>8

-----------------------------------------------------------------------------
(* Writes.                                                                  *)

\* What a write makes of the records: of one key it holds the new one after,
\* and of the others what it held.
LEMMA PutRecords ==
  ASSUME KeysHoldOne, NEW rec, db' = PutSymbol(db, rec, Stored(db, rec))
  PROVE  \A r : r \in db'.recs <=>
                   r = rec \/ (r \in db.recs /\ PrimaryKey(r) # PrimaryKey(rec))
<1>1. CASE Stored(db, rec) = {rec}
  <2>1. db'.recs = db.recs
    BY <1>1 DEF PutSymbol, RefreshUnchanged
  <2>2. rec \in db.recs
    BY <1>1 DEF Stored
  <2> QED BY <2>1, <2>2 DEF KeysHoldOne
<1>2. CASE Stored(db, rec) # {rec}
  <2>1. db'.recs = (db.recs \ Stored(db, rec)) \cup {rec}
    BY <1>2 DEF PutSymbol
  <2> QED BY <2>1 DEF Stored
<1> QED BY <1>1, <1>2

\* A write that the delta check does not skip changes the cache.
LEMMA PutChanges ==
  ASSUME KeysHoldOne, NEW rec, db' = PutSymbol(db, rec, Stored(db, rec)),
         Stored(db, rec) # {rec}
  PROVE  db' # db
<1>1. rec \in db'.recs
  BY PutRecords
<1>2. ASSUME rec \in db.recs
      PROVE  FALSE
  <2>1. Stored(db, rec) = {rec}
    BY <1>2 DEF Stored, KeysHoldOne
  <2> QED BY <2>1
<1> QED BY <1>1, <1>2

\* A commit, in terms of what its transaction has read.
LEMMA CommitPuts ==
  ASSUME IInv, EInv, NEW w \in Workers, txn[w] # NoTxn, ~txn[w].overtaken, Commit(w)
  PROVE  LET rec  == txn[w].rec
             keys == IF Stored(db, rec) = {rec} THEN {} ELSE {PrimaryKey(rec)}
         IN  /\ db' = PutSymbol(db, rec, Stored(db, rec))
             /\ txn'[w] = NoTxn
             /\ \A v \in Workers \ {w} : txn'[v] = Overtaken(keys)[v]
             /\ db' = db \/ \A c \in Cycles : quiet'[c] =
                   (quiet[c] /\ (RepoFor[c] = rec.repo => c = w))
             /\ db' = db => quiet' = quiet
<1> DEFINE rec  == txn[w].rec
           keys == IF Stored(db, rec) = {rec} THEN {} ELSE {PrimaryKey(rec)}
<1>1. txn[w].read = Stored(db, rec)
  BY DEF EInv, ReadsCurrent
<1>2. db' = PutSymbol(db, rec, Stored(db, rec))
  BY <1>1 DEF Commit
<1>3. txn' = [Overtaken(keys) EXCEPT ![w] = NoTxn]
  BY <1>1 DEF Commit
<1>4. DOMAIN Overtaken(keys) = Workers
  BY DEF Overtaken
<1>5. txn'[w] = NoTxn /\ \A v \in Workers \ {w} : txn'[v] = Overtaken(keys)[v]
  <2> HIDE DEF keys
  <2> QED BY <1>3, <1>4
<1>6. /\ db' = db => quiet' = quiet
      /\ db' # db => \A c \in Cycles : quiet'[c] =
                        (quiet[c] /\ (RepoFor[c] = rec.repo => c = w))
  BY DEF Commit, Disturb
<1> QED BY <1>2, <1>5, <1>6

-----------------------------------------------------------------------------
(* What a step leaves alone.                                                *)

\* Everything about one cycle and its repository.
Still(c) ==
    /\ quiet'[c] => quiet[c]
    /\ pc'[c] = pc[c] /\ todo'[c] = todo[c] /\ toPut'[c] = toPut[c]
    /\ live'[c] = live[c] /\ stale'[c] = stale[c] /\ missed'[c] = missed[c]
    /\ txn'[c] = txn[c]
    /\ \A f \in Files : RepoOf[f] = RepoFor[c] => disk'[f] = disk[f]
    /\ Here(c)' = Here(c)

\* A cycle that is left alone keeps what it has, and of one that is disturbed
\* nothing is asked.
LEMMA StillExact ==
  ASSUME NEW c \in Cycles, Exact(c), ~quiet'[c] \/ Still(c)
  PROVE  Exact(c)'
<1> SUFFICES ASSUME quiet'[c], Still(c)
             PROVE  Exact(c)'
  BY DEF Exact
<1>1. There(c)' = There(c)
  <2>1. \A f \in {g \in Files : RepoOf[g] = RepoFor[c]} :
           Declared(f, disk'[f]) = Declared(f, disk[f])
    BY DEF Still
  <2> QED BY <2>1 DEF There, OnDisk
<1>2. \A rec : (Coming(c, rec)' <=> Coming(c, rec)) /\ (Landed(c, rec)' <=> Landed(c, rec))
  BY DEF Still, Coming, Landed
<1>3. Crawling(c) => Crawling(c)'
  <2> SUFFICES ASSUME Crawling(c)
               PROVE  Crawling(c)'
    OBVIOUS
  <2>1. /\ \A rec : Coming(c, rec)' => rec \in There(c)'
        /\ txn'[c] # NoTxn => ~txn'[c].overtaken
        /\ live'[c] \subseteq {PrimaryKey(rec) : rec \in There(c)' \cap Here(c)'}
    BY <1>1, <1>2 DEF Crawling, Still
  <2>2. ASSUME NEW f \in Files, NEW rec \in Declared(f, disk'[f]), RepoOf[f] = RepoFor[c]
        PROVE  f \in todo'[c] \/ Coming(c, rec)' \/ Landed(c, rec)' \/ rec \in missed'[c]
    <3>1. rec \in Declared(f, disk[f]) /\ todo'[c] = todo[c] /\ missed'[c] = missed[c]
      BY <2>2 DEF Still
    <3> QED BY <1>2, <2>2, <3>1 DEF Crawling
  <2> QED BY <2>1, <2>2 DEF Crawling
<1>4. Settled(c) => Settled(c)'
  BY <1>1, <1>2 DEF Settled, Still
<1> QED BY <1>1, <1>3, <1>4 DEF Exact, Still

\* The worker of a step that is no cycle's, or another's, and that writes the
\* records of one repository at most.
LEMMA CommitElsewhere ==
  ASSUME IInv, EInv, NEW w \in Workers, txn[w] # NoTxn, ~txn[w].overtaken, Commit(w),
         NEW c \in Cycles, c # w, c \in Workers,
         pc'[c] = pc[c], todo'[c] = todo[c], toPut'[c] = toPut[c],
         live'[c] = live[c], stale'[c] = stale[c], missed'[c] = missed[c], disk' = disk
  PROVE  ~quiet'[c] \/ Still(c)
<1> DEFINE rec  == txn[w].rec
           keys == IF Stored(db, rec) = {rec} THEN {} ELSE {PrimaryKey(rec)}
<1> SUFFICES ASSUME quiet'[c]
             PROVE  Still(c)
  OBVIOUS
<1>1. /\ db' = PutSymbol(db, rec, Stored(db, rec))
      /\ txn'[c] = Overtaken(keys)[c]
      /\ db' = db \/ (quiet'[c] = (quiet[c] /\ (RepoFor[c] = rec.repo => c = w)))
      /\ db' = db => quiet' = quiet
  BY CommitPuts
<1>2. quiet[c] /\ (db' = db \/ RepoFor[c] # rec.repo)
  BY <1>1
<1>3. \A r : r \in db'.recs <=>
                r = rec \/ (r \in db.recs /\ PrimaryKey(r) # PrimaryKey(rec))
  BY <1>1, PutRecords DEF EInv
<1>4. Here(c)' = Here(c)
  <2>1. CASE db' = db
    BY <2>1 DEF Here
  <2>2. CASE RepoFor[c] # rec.repo
    <3>1. \A r : r.repo = RepoFor[c] => PrimaryKey(r) # PrimaryKey(rec) /\ r # rec
      BY <2>2, KeyTells
    <3>2. \A r : r \in Here(c)' <=> r \in Here(c)
      BY <1>3, <3>1 DEF Here
    <3> QED BY <3>2
  <2> QED BY <1>2, <2>1, <2>2
<1>5. txn[c] # NoTxn => PrimaryKey(txn[c].rec) \notin keys
  <2> SUFFICES ASSUME txn[c] # NoTxn, PrimaryKey(txn[c].rec) \in keys
               PROVE  FALSE
    OBVIOUS
  <2>1. pc[c] = "crawl" /\ Crawling(c)
    BY <1>2 DEF EInv, CycleShape, Exact
  <2>2. txn[c].rec.repo = RepoFor[c]
    BY <2>1, ThereIsOfRepo DEF Crawling, Coming
  <2>3. Stored(db, rec) # {rec} /\ PrimaryKey(txn[c].rec) = PrimaryKey(rec)
    OBVIOUS
  <2>4. txn[c].rec.repo = rec.repo
    BY <2>3, KeyTells
  <2>5. db' # db
    BY <1>1, <2>3, PutChanges DEF EInv
  <2> QED BY <1>2, <2>2, <2>4, <2>5
<1>6. txn'[c] = txn[c]
  <2> HIDE DEF keys
  <2> QED BY <1>1, <1>5 DEF Overtaken
<1> QED BY <1>2, <1>4, <1>6 DEF Still

\* So does an invalidation by another cycle.
LEMMA PruneElsewhere ==
  ASSUME IInv, EInv, NEW d \in Cycles, PruneBatch(d), NEW c \in Cycles, c # d
  PROVE  ~quiet'[c] \/ Still(c)
<1> SUFFICES ASSUME quiet'[c]
             PROVE  Still(c)
  OBVIOUS
<1>1. PICK batch \in SUBSET stale[d] :
         /\ db' = DeleteRecords(db, batch)
         /\ txn' = Overtaken({PrimaryKey(r) : r \in batch})
         /\ stale' = [stale EXCEPT ![d] = @ \ batch]
  BY DEF PruneBatch
<1>2. quiet'[c] = (quiet[c] /\ (RepoFor[c] = RepoFor[d] => c = d))
  BY DEF PruneBatch, Disturb
<1>3. quiet[c] /\ RepoFor[c] # RepoFor[d]
  BY <1>2
<1>4. \A r : r.repo = RepoFor[c] => PrimaryKey(r) \notin {PrimaryKey(b) : b \in batch}
  <2>1. \A b \in batch : b.repo = RepoFor[d]
    BY DEF EInv, CycleShape
  <2> QED BY <1>3, <2>1, KeyTells
<1>5. Here(c)' = Here(c)
  <2>1. db'.recs = {r \in db.recs : PrimaryKey(r) \notin {PrimaryKey(b) : b \in batch}}
    BY <1>1 DEF DeleteRecords
  <2>2. \A r : r \in Here(c)' <=> r \in Here(c)
    BY <1>4, <2>1 DEF Here
  <2> QED BY <2>2
<1>6. txn'[c] = txn[c]
  <2>1. txn[c] # NoTxn => txn[c].rec.repo = RepoFor[c]
    BY <1>3, ThereIsOfRepo DEF EInv, CycleShape, Exact, Crawling, Coming
  <2>2. c \in Workers
    BY DEF Workers
  <2> QED BY <1>1, <1>4, <2>1, <2>2 DEF Overtaken
<1>7. stale'[c] = stale[c]
  BY <1>1 DEF IInv, Domains
<1> QED BY <1>3, <1>5, <1>6, <1>7 DEF Still, PruneBatch

-----------------------------------------------------------------------------
(* The steps of queries, of the environment, and of both kinds of workers.  *)

\* Transactions that read something else than what is written now have read
\* what is stored.
LEMMA ReadsStay ==
  ASSUME ReadsCurrent, NEW keys,
         \A v \in Workers : txn'[v] = NoTxn \/ txn'[v] = Overtaken(keys)[v],
         \A r : PrimaryKey(r) \notin keys => Stored(db', r) = Stored(db, r)
  PROVE  ReadsCurrent'
<1> SUFFICES ASSUME NEW v \in Workers, txn'[v] # NoTxn, ~txn'[v].overtaken
             PROVE  txn'[v].read = Stored(db', txn'[v].rec)
  BY DEF ReadsCurrent
<1>1. txn'[v] = Overtaken(keys)[v]
  OBVIOUS
<1>2. ~(txn[v] # NoTxn /\ PrimaryKey(txn[v].rec) \in keys)
  BY <1>1 DEF Overtaken
<1>3. txn'[v] = txn[v]
  BY <1>1, <1>2 DEF Overtaken
<1> QED BY <1>2, <1>3 DEF ReadsCurrent

\* Steps that concern no cycle.
LEMMA ElsewhereExact ==
  ASSUME EInv, UNCHANGED <<disk, db, txn, quiet, live, stale, missed>>,
         \A c \in Cycles : pc'[c] = pc[c] /\ todo'[c] = todo[c] /\ toPut'[c] = toPut[c]
  PROVE  EInv'
<1>1. \A c \in Cycles : Still(c)
  BY DEF Still, Here
<1>2. DiskShape' /\ KeysHoldOne' /\ ReadsCurrent' /\ CycleShape'
  BY DEF EInv, DiskShape, KeysHoldOne, ReadsCurrent, CycleShape
<1> QED BY <1>1, <1>2, StillExact DEF EInv

\* A query looks into the cache, walks, reads and ends.
LEMMA QueryExact ==
  ASSUME IInv, EInv, NEW q \in Searches,
         Ask(q) \/ Scan(q) \/ SearchEnds(q)
  PROVE  EInv'
<1>1. UNCHANGED <<disk, db, txn, quiet, live, stale, missed>>
  BY DEF Ask, Answered, Missed, StartSearch, LookupFails, Scan, SearchFile, WalkRepo,
         SearchEnds, cycleVars, history
<1>2. ASSUME NEW c \in Cycles
      PROVE  pc'[c] = pc[c] /\ todo'[c] = todo[c] /\ toPut'[c] = toPut[c]
  <2>1. c # q /\ c \in DOMAIN pc /\ c \in DOMAIN todo /\ c \in DOMAIN toPut
    BY Apart DEF IInv, Domains
  <2>2. CASE Ask(q)
    BY <2>1, <2>2 DEF Ask, Answered, Missed, StartSearch, LookupFails, Goto
  <2>3. CASE SearchFile(q) \/ SearchEnds(q)
    BY <2>1, <2>3 DEF SearchFile, SearchEnds, Goto
  <2>4. CASE WalkRepo(q)
    BY <2>1, <2>4 DEF WalkRepo, GiveUp, Goto
  <2> QED BY <2>2, <2>3, <2>4 DEF Scan
<1> QED BY <1>1, <1>2, ElsewhereExact

LEMMA EndContextExact ==
  ASSUME IInv, EInv, NEW w \in Workers, EndContext(w)
  PROVE  EInv'
  BY ElsewhereExact DEF EndContext, cycleVars, history

\* A tree changes, which disturbs the cycles of its repository.
LEMMA EditExact ==
  ASSUME IInv, EInv, NEW f \in Files, EditTree(f)
  PROVE  EInv'
<1>1. Edit(f)
  BY DEF EditTree
<1>2. PICK v \in Versions[f] : disk' = [disk EXCEPT ![f] = v]
  BY <1>1 DEF Edit
<1>3. \A c \in Cycles : ~quiet'[c] \/ Still(c)
  <2> SUFFICES ASSUME NEW c \in Cycles, quiet'[c]
               PROVE  Still(c)
    OBVIOUS
  <2>1. quiet'[c] = (quiet[c] /\ (RepoFor[c] = RepoOf[f] => c = Absent))
    BY <1>1 DEF Edit, Disturb
  <2>2. quiet[c] /\ RepoFor[c] # RepoOf[f]
    BY <2>1, IndexerAssumption
  <2>3. \A g \in Files : RepoOf[g] = RepoFor[c] => disk'[g] = disk[g]
    BY <1>2, <2>2 DEF EInv, DiskShape
  <2> QED BY <1>1, <2>2, <2>3 DEF Still, Here, Edit, cycleVars
<1>4. KeysHoldOne' /\ ReadsCurrent'
  BY <1>1 DEF EInv, KeysHoldOne, ReadsCurrent, Edit
<1>5. DiskShape'
  BY <1>1, <1>2 DEF EInv, DiskShape, Edit, Disturb, cycleVars
<1>6. CycleShape'
  <2>1. \A c \in Cycles : quiet'[c] => quiet[c]
    BY <1>1 DEF Edit, Disturb
  <2> QED BY <1>1, <2>1 DEF EInv, CycleShape, Edit, cycleVars
<1> QED BY <1>3, <1>4, <1>5, <1>6, StillExact DEF EInv

\* A transaction begins with what is stored, of a record that was coming before.
LEMMA PutBeginExact ==
  ASSUME IInv, EInv, NEW w \in Workers, PutBegin(w)
  PROVE  EInv'
<1>1. PICK rec \in toPut[w] :
         /\ txn' = [txn EXCEPT ![w] = [rec |-> rec, read |-> Stored(db, rec), overtaken |-> FALSE]]
         /\ toPut' = [toPut EXCEPT ![w] = @ \ {rec}]
  BY DEF PutBegin
<1>2. UNCHANGED <<disk, db, pc, todo, live, stale, quiet, missed>> /\ txn[w] = NoTxn
  BY DEF PutBegin, cycleVars, history
<1>3. /\ txn'[w] = [rec |-> rec, read |-> Stored(db, rec), overtaken |-> FALSE]
      /\ txn'[w] # NoTxn
      /\ txn'[w].rec = rec /\ txn'[w].read = Stored(db, rec) /\ ~txn'[w].overtaken
      /\ toPut'[w] = toPut[w] \ {rec}
      /\ \A v \in Workers \ {w} : txn'[v] = txn[v] /\ toPut'[v] = toPut[v]
  BY <1>1, BegunIsTxn DEF IInv, Domains
<1>4. DiskShape' /\ KeysHoldOne'
  BY <1>2 DEF EInv, DiskShape, KeysHoldOne
<1>5. ReadsCurrent'
  BY <1>2, <1>3 DEF EInv, ReadsCurrent
<1>6. w \in Cycles => pc[w] = "crawl"
  BY <1>1 DEF EInv, CycleShape
<1>7. CycleShape'
  BY <1>2, <1>3, <1>6 DEF EInv, CycleShape, Workers
<1>8. ASSUME NEW c \in Cycles
      PROVE  Exact(c)'
  <2>1. CASE c # w
    <3>1. Still(c)
      BY <1>2, <1>3, <2>1 DEF Still, Here, Workers
    <3> QED BY <3>1, StillExact DEF EInv
  <2>2. CASE c = w
    <3> SUFFICES ASSUME quiet[c]
                 PROVE  Crawling(c)'
      BY <1>2, <1>6, <2>2 DEF Exact
    <3>1. Crawling(c)
      BY <1>6, <2>2 DEF EInv, Exact
    <3>2. \A r : (Coming(c, r)' <=> Coming(c, r)) /\ (Landed(c, r)' <=> Landed(c, r))
      BY <1>1, <1>2, <1>3, <2>2 DEF Coming, Landed, Here
    <3>3. There(c)' = There(c) /\ Here(c)' = Here(c)
      BY <1>2 DEF There, OnDisk, Here
    <3>4. \A f \in Files : \A r \in Declared(f, disk'[f]) :
             RepoOf[f] = RepoFor[c] =>
                f \in todo'[c] \/ Coming(c, r)' \/ Landed(c, r)' \/ r \in missed'[c]
      BY <1>2, <3>1, <3>2 DEF Crawling
    <3> QED BY <1>2, <1>3, <2>2, <3>1, <3>2, <3>3, <3>4 DEF Crawling
  <2> QED BY <2>1, <2>2
<1> QED BY <1>4, <1>5, <1>7, <1>8 DEF EInv

\* The end of a transaction of worker w, for all but the cycle whose it may be.
LEMMA CommitKeeps ==
  ASSUME IInv, EInv, NEW w \in Workers, txn[w] # NoTxn, ~txn[w].overtaken, Commit(w)
  PROVE  KeysHoldOne' /\ ReadsCurrent'
<1> DEFINE rec  == txn[w].rec
           keys == IF Stored(db, rec) = {rec} THEN {} ELSE {PrimaryKey(rec)}
<1>1. /\ db' = PutSymbol(db, rec, Stored(db, rec))
      /\ txn'[w] = NoTxn
      /\ \A v \in Workers \ {w} : txn'[v] = Overtaken(keys)[v]
  BY CommitPuts
<1>2. \A r : r \in db'.recs <=>
                r = rec \/ (r \in db.recs /\ PrimaryKey(r) # PrimaryKey(rec))
  BY <1>1, PutRecords DEF EInv
<1>3. KeysHoldOne'
  BY <1>2 DEF EInv, KeysHoldOne
<1>4. ASSUME NEW r, PrimaryKey(r) \notin keys
      PROVE  Stored(db', r) = Stored(db, r)
  <2>1. CASE Stored(db, rec) = {rec}
    <3>1. db'.recs = db.recs
      BY <1>1, <2>1 DEF PutSymbol, RefreshUnchanged
    <3> QED BY <3>1 DEF Stored
  <2>2. CASE Stored(db, rec) # {rec}
    <3>1. PrimaryKey(r) # PrimaryKey(rec)
      BY <1>4, <2>2
    <3> HIDE DEF rec
    <3>2. \A s : s \in Stored(db', r) <=> s \in Stored(db, r)
      BY <1>2, <3>1 DEF Stored
    <3> QED BY <3>2
  <2> QED BY <2>1, <2>2
<1>5. ReadsCurrent'
  <2> HIDE DEF keys
  <2> QED BY <1>1, <1>4, ReadsStay DEF EInv
<1> QED BY <1>3, <1>5

\* A write that fails changes nothing but the transaction.
LEMMA PutFailsKeeps ==
  ASSUME IInv, EInv, NEW w \in Workers, PutFails(w)
  PROVE  /\ KeysHoldOne' /\ ReadsCurrent'
         /\ txn'[w] = NoTxn
         /\ \A v \in Workers \ {w} : txn'[v] = txn[v]
         /\ db' = db /\ quiet' = quiet
<1>1. /\ txn'[w] = NoTxn
      /\ \A v \in Workers \ {w} : txn'[v] = txn[v]
      /\ db' = db /\ quiet' = quiet
  BY DEF PutFails, IInv, Domains
<1> QED BY <1>1 DEF EInv, KeysHoldOne, ReadsCurrent

\* A scan writes a match, or cannot.
LEMMA SearchPutExact ==
  ASSUME IInv, EInv, NEW q \in Searches, SearchPut(q)
  PROVE  EInv'
<1>1. /\ q \in Workers /\ txn[q] # NoTxn
      /\ UNCHANGED <<disk, todo, live, stale, missed>>
  BY DEF SearchPut, Workers, cycleVars
<1>2. \A c \in Cycles : c # q /\ c \in Workers /\ pc'[c] = pc[c] /\ toPut'[c] = toPut[c]
  <2>1. \A c \in Cycles : c # q /\ c \in Workers /\ c \in DOMAIN pc /\ c \in DOMAIN toPut
    BY Apart DEF IInv, Domains
  <2>2. \/ pc' = [pc EXCEPT ![q] = "returned"] /\ toPut' = [toPut EXCEPT ![q] = {}]
        \/ UNCHANGED <<pc, toPut>>
    BY DEF SearchPut, Goto
  <2> QED BY <2>1, <2>2
<1>3. CASE ~txn[q].overtaken /\ Commit(q)
  <2>1. KeysHoldOne' /\ ReadsCurrent'
    BY <1>1, <1>3, CommitKeeps
  <2>2. \A c \in Cycles : ~quiet'[c] \/ Still(c)
    BY <1>1, <1>2, <1>3, CommitElsewhere
  <2>3. DOMAIN quiet' = Cycles /\ \A c \in Cycles : quiet'[c] => quiet[c]
    BY <1>3 DEF Commit, Disturb, EInv, DiskShape
  <2>4. \A c \in Cycles : pc[c] # "crawl" => txn'[c] = NoTxn
    BY <1>2, <1>3, TxnEnds, <1>1 DEF EInv, CycleShape, SameTxn
  <2>5. DiskShape' /\ CycleShape'
    BY <1>1, <1>2, <2>3, <2>4 DEF EInv, DiskShape, CycleShape
  <2> QED BY <2>1, <2>2, <2>5, StillExact DEF EInv
<1>4. CASE PutFails(q)
  <2>1. KeysHoldOne' /\ ReadsCurrent' /\ db' = db /\ quiet' = quiet
        /\ \A c \in Cycles : txn'[c] = txn[c]
    BY <1>1, <1>2, <1>4, PutFailsKeeps
  <2>2. \A c \in Cycles : Still(c)
    BY <1>1, <1>2, <2>1 DEF Still, Here
  <2>3. DiskShape' /\ CycleShape'
    BY <1>1, <1>2, <2>1 DEF EInv, DiskShape, CycleShape
  <2> QED BY <2>1, <2>2, <2>3, StillExact DEF EInv
<1> QED BY <1>3, <1>4 DEF SearchPut

-----------------------------------------------------------------------------
(* The steps of cycles.                                                     *)

\* A cycle writes a record, or cannot.
LEMMA CyclePutExact ==
  ASSUME IInv, EInv, NEW c \in Cycles, CyclePut(c)
  PROVE  EInv'
<1>1. /\ c \in Workers /\ txn[c] # NoTxn /\ pc[c] = "crawl"
      /\ UNCHANGED <<disk, pc, todo, toPut, stale>>
  BY DEF CyclePut, Workers, EInv, CycleShape
<1>2. \A d \in Cycles \ {c} :
         d \in Workers /\ live'[d] = live[d] /\ missed'[d] = missed[d]
  BY DEF CyclePut, EInv, DiskShape, Workers
<1>3. DOMAIN live' = Cycles /\ DOMAIN missed' = Cycles
  BY DEF CyclePut, EInv, DiskShape
<1>4. CASE /\ ~txn[c].overtaken
           /\ Commit(c)
           /\ live' = [live EXCEPT ![c] = @ \cup ProvedKey(txn[c].rec)]
           /\ UNCHANGED missed
  <2> DEFINE rec == txn[c].rec
  <2>1. KeysHoldOne' /\ ReadsCurrent'
    BY <1>1, <1>4, CommitKeeps
  <2>2. \A d \in Cycles \ {c} : ~quiet'[d] \/ Still(d)
    BY <1>1, <1>2, <1>4, CommitElsewhere
  <2>3. DOMAIN quiet' = Cycles /\ \A d \in Cycles : quiet'[d] => quiet[d]
    BY <1>4 DEF Commit, Disturb, EInv, DiskShape
  <2>4. txn'[c] = NoTxn /\ \A d \in Cycles : pc[d] # "crawl" => txn'[d] = NoTxn
    BY <1>1, <1>2, <1>4, TxnEnds DEF EInv, CycleShape, SameTxn
  <2>5. DiskShape' /\ CycleShape'
    BY <1>1, <1>2, <1>3, <2>3, <2>4 DEF EInv, DiskShape, CycleShape
  <2>6. ASSUME quiet'[c]
        PROVE  Crawling(c)'
    <3>1. Crawling(c) /\ rec \in There(c) /\ rec.repo = RepoFor[c]
      <4>1. Crawling(c)
        BY <1>1, <2>3, <2>6 DEF EInv, Exact
      <4>2. rec \in There(c)
        BY <1>1, <4>1 DEF Crawling, Coming
      <4> QED BY <4>1, <4>2, ThereIsOfRepo
    <3>2. There(c)' = There(c)
      BY <1>1 DEF There, OnDisk
    <3>3. live'[c] = live[c] \cup {PrimaryKey(rec)}
      BY <1>4 DEF EInv, DiskShape, ProvedKey
    <3> HIDE DEF rec
    <3>4. \A r : r \in db'.recs <=>
                    r = rec \/ (r \in db.recs /\ PrimaryKey(r) # PrimaryKey(rec))
      BY <1>1, <1>4, CommitPuts, PutRecords DEF EInv, rec
    <3>5. \A r : Coming(c, r) => Coming(c, r)' \/ r = rec
      BY <1>1 DEF Coming, rec
    <3>6. \A r : Coming(c, r)' => Coming(c, r)
      BY <1>1, <2>4 DEF Coming
    <3>7. rec \in Here(c)'
      BY <3>1, <3>4 DEF Here
    <3>8. \A r \in There(c) : Landed(c, r) \/ r = rec => Landed(c, r)'
      <4> SUFFICES ASSUME NEW r \in There(c), Landed(c, r), r # rec
                   PROVE  Landed(c, r)'
        BY <3>3, <3>7 DEF Landed
      <4>1. PrimaryKey(r) # PrimaryKey(rec)
        BY <3>1, ThereIsKeyed DEF EInv
      <4> QED BY <3>3, <3>4, <4>1 DEF Landed, Here
    <3>9. ASSUME NEW f \in Files, NEW r \in Declared(f, disk'[f]), RepoOf[f] = RepoFor[c]
          PROVE  f \in todo'[c] \/ Coming(c, r)' \/ Landed(c, r)' \/ r \in missed'[c]
      <4>1. r \in Declared(f, disk[f])
        BY <1>1, <3>9
      <4>2. r \in There(c)
        BY <3>9, <4>1, ThereIsOfRepo
      <4>3. f \in todo[c] \/ Coming(c, r) \/ Landed(c, r) \/ r \in missed[c]
        BY <3>1, <3>9, <4>1 DEF Crawling
      <4> QED BY <1>1, <1>4, <3>5, <3>8, <4>2, <4>3
    <3>a. \A r \in There(c) \cap Here(c) : r \in Here(c)'
      BY <3>1, <3>4, <3>7, ThereIsKeyed DEF EInv, Here
    <3>10. /\ \A r : Coming(c, r)' => r \in There(c)'
           /\ txn'[c] # NoTxn => ~txn'[c].overtaken
           /\ live'[c] \subseteq {PrimaryKey(r) : r \in There(c)' \cap Here(c)'}
      BY <2>4, <3>1, <3>2, <3>3, <3>6, <3>7, <3>a DEF Crawling
    <3> QED BY <3>9, <3>10 DEF Crawling
  <2>7. Exact(c)'
    BY <1>1, <2>6 DEF Exact
  <2> QED BY <2>1, <2>2, <2>5, <2>7, StillExact DEF EInv
<1>5. CASE /\ PutFails(c)
           /\ missed' = [missed EXCEPT ![c] = @ \cup {txn[c].rec}]
           /\ UNCHANGED live
  <2>1. KeysHoldOne' /\ ReadsCurrent' /\ db' = db /\ quiet' = quiet
        /\ txn'[c] = NoTxn
        /\ \A d \in Cycles \ {c} : txn'[d] = txn[d]
    BY <1>1, <1>2, <1>5, PutFailsKeeps
  <2>2. \A d \in Cycles \ {c} : Still(d)
    BY <1>1, <1>2, <1>5, <2>1 DEF Still, Here
  <2>3. ASSUME quiet'[c]
        PROVE  Crawling(c)'
    <3>1. Crawling(c)
      BY <1>1, <2>1, <2>3 DEF EInv, Exact
    <3>2. There(c)' = There(c) /\ Here(c)' = Here(c)
      BY <1>1, <2>1 DEF There, OnDisk, Here
    <3>3. missed'[c] = missed[c] \cup {txn[c].rec}
      BY <1>5 DEF EInv, DiskShape
    <3>4. \A r : /\ Coming(c, r) => Coming(c, r)' \/ r \in missed'[c]
                 /\ Coming(c, r)' => Coming(c, r)
                 /\ Landed(c, r)' <=> Landed(c, r)
      BY <1>1, <1>5, <2>1, <3>2, <3>3 DEF Coming, Landed
    <3>5. ASSUME NEW f \in Files, NEW r \in Declared(f, disk'[f]), RepoOf[f] = RepoFor[c]
          PROVE  f \in todo'[c] \/ Coming(c, r)' \/ Landed(c, r)' \/ r \in missed'[c]
      BY <1>1, <3>1, <3>3, <3>4, <3>5 DEF Crawling
    <3>6. /\ \A r : Coming(c, r)' => r \in There(c)'
          /\ txn'[c] # NoTxn => ~txn'[c].overtaken
          /\ live'[c] \subseteq {PrimaryKey(r) : r \in There(c)' \cap Here(c)'}
      BY <1>5, <2>1, <3>1, <3>2, <3>4 DEF Crawling
    <3> QED BY <3>5, <3>6 DEF Crawling
  <2>4. Exact(c)'
    BY <1>1, <2>3 DEF Exact
  <2>5. DiskShape' /\ CycleShape'
    BY <1>1, <1>3, <1>5, <2>1 DEF EInv, DiskShape, CycleShape
  <2> QED BY <2>1, <2>2, <2>4, <2>5, StillExact DEF EInv
<1> QED BY <1>4, <1>5 DEF CyclePut

\* Where a step of one cycle only moves that cycle, the rest of the invariant
\* is as it was.
LEMMA OwnStep ==
  ASSUME IInv, EInv, NEW c \in Cycles,
         UNCHANGED <<disk, db, txn, live>>,
         DOMAIN quiet' = Cycles, DOMAIN missed' = Cycles,
         \A d \in Cycles \ {c} :
            /\ pc'[d] = pc[d] /\ todo'[d] = todo[d] /\ toPut'[d] = toPut[d]
            /\ stale'[d] = stale[d] /\ quiet'[d] = quiet[d] /\ missed'[d] = missed[d],
         pc'[c] # "idle",
         pc'[c] # "crawl" => toPut'[c] = {} /\ txn[c] = NoTxn,
         pc'[c] = "crawl" => \A f \in todo'[c] : f \in Files /\ RepoOf[f] = RepoFor[c],
         \A rec \in stale'[c] : rec.repo = RepoFor[c],
         Exact(c)'
  PROVE  EInv'
<1>1. DiskShape' /\ KeysHoldOne' /\ ReadsCurrent'
  BY DEF EInv, DiskShape, KeysHoldOne, ReadsCurrent
<1>2. ASSUME NEW d \in Cycles, d # c
      PROVE  Exact(d)'
  <2>1. Still(d)
    BY <1>2 DEF Still, Here
  <2> QED BY <2>1, StillExact DEF EInv
<1>3. CycleShape'
  BY DEF EInv, CycleShape
<1> QED BY <1>1, <1>2, <1>3 DEF EInv

\* What a walk has not collected it has missed.
LEMMA StartCycleExact ==
  ASSUME IInv, EInv, NEW c \in Cycles, StartCycle(c)
  PROVE  EInv'
<1>1. /\ c \in Workers /\ pc[c] = "idle"
      /\ UNCHANGED <<disk, db, toPut, txn, live, stale>>
      /\ toPut[c] = {} /\ txn[c] = NoTxn /\ live[c] = {}
  BY DEF StartCycle, Workers, cycleVars, EInv, CycleShape
<1>2. CASE Goto(c, "failed") /\ UNCHANGED <<todo, missed, quiet>>
  <2>1. /\ pc'[c] = "failed" /\ \A d \in Cycles \ {c} : pc'[d] = pc[d]
        /\ UNCHANGED <<todo, missed, quiet>>
    BY <1>1, <1>2 DEF Goto, IInv, Domains, Workers
  <2>2. Exact(c)'
    BY <2>1 DEF Exact
  <2> QED BY <1>1, <2>1, <2>2, OwnStep DEF EInv, DiskShape, CycleShape
<1>3. ASSUME NEW found \in SUBSET Existing(RepoFor[c]),
             Goto(c, "crawl"),
             todo' = [todo EXCEPT ![c] = found],
             missed' = [missed EXCEPT ![c] = DeclaredIn(Existing(RepoFor[c]) \ found)],
             quiet' = [quiet EXCEPT ![c] = TRUE]
      PROVE  EInv'
  <2>1. /\ pc'[c] = "crawl" /\ \A d \in Cycles \ {c} : pc'[d] = pc[d]
        /\ todo'[c] = found /\ \A d \in Cycles \ {c} : todo'[d] = todo[d]
        /\ DOMAIN quiet' = Cycles /\ \A d \in Cycles \ {c} : quiet'[d] = quiet[d]
    BY <1>1, <1>3 DEF Goto, IInv, Domains, Workers, EInv, DiskShape
  <2>2. /\ missed'[c] = DeclaredIn(Existing(RepoFor[c]) \ found)
        /\ DOMAIN missed' = Cycles /\ \A d \in Cycles \ {c} : missed'[d] = missed[d]
    BY <1>3 DEF EInv, DiskShape
  <2>3. Crawling(c)'
    <3>1. \A rec : ~Coming(c, rec)'
      BY <1>1 DEF Coming
    <3>2. ASSUME NEW f \in Files, NEW rec \in Declared(f, disk'[f]), RepoOf[f] = RepoFor[c]
          PROVE  f \in todo'[c] \/ rec \in missed'[c]
      <4>1. f \in Existing(RepoFor[c]) /\ rec \in Declared(f, disk[f])
        BY <1>1, <3>2 DEF Declared, Existing
      <4> QED BY <2>1, <2>2, <4>1 DEF DeclaredIn
    <3> QED BY <1>1, <3>1, <3>2 DEF Crawling
  <2>4. Exact(c)'
    BY <2>1, <2>3 DEF Exact
  <2> QED BY <1>1, <2>1, <2>2, <2>4, OwnStep DEF EInv, CycleShape, Existing
<1> QED BY <1>2, <1>3 DEF StartCycle

\* What a file declares is coming once it is parsed, and missed if it is not.
LEMMA ParseFileExact ==
  ASSUME IInv, EInv, NEW c \in Cycles, ParseFile(c)
  PROVE  EInv'
<1>1. PICK f \in todo[c] :
         /\ todo' = [todo EXCEPT ![c] = @ \ {f}]
         /\ \/ /\ toPut' = [toPut EXCEPT ![c] = @ \cup Declared(f, disk[f])]
               /\ UNCHANGED missed
            \/ /\ missed' = [missed EXCEPT ![c] = @ \cup Declared(f, disk[f])]
               /\ UNCHANGED toPut
  BY DEF ParseFile
<1>2. /\ c \in Workers /\ pc[c] = "crawl"
      /\ f \in Files /\ RepoOf[f] = RepoFor[c]
      /\ UNCHANGED <<disk, db, pc, txn, live, stale, quiet>>
  BY DEF ParseFile, Workers, cycleVars, EInv, CycleShape
<1>3. /\ todo'[c] = todo[c] \ {f} /\ \A d \in Cycles \ {c} : todo'[d] = todo[d]
      /\ \/ toPut'[c] = toPut[c] \cup Declared(f, disk[f]) /\ missed'[c] = missed[c]
         \/ toPut'[c] = toPut[c] /\ missed'[c] = missed[c] \cup Declared(f, disk[f])
      /\ \A d \in Cycles \ {c} : toPut'[d] = toPut[d] /\ missed'[d] = missed[d]
      /\ DOMAIN missed' = Cycles
  BY <1>1, <1>2 DEF IInv, Domains, Workers, EInv, DiskShape
<1>4. ASSUME quiet'[c]
      PROVE  Crawling(c)'
  <2>1. Crawling(c)
    BY <1>2, <1>4 DEF EInv, Exact
  <2>2. There(c)' = There(c) /\ Here(c)' = Here(c)
    BY <1>2 DEF There, OnDisk, Here
  <2>3. \A rec : /\ Coming(c, rec) => Coming(c, rec)'
                 /\ Coming(c, rec)' => Coming(c, rec) \/ rec \in Declared(f, disk[f])
                 /\ rec \in Declared(f, disk[f]) => Coming(c, rec)' \/ rec \in missed'[c]
                 /\ Landed(c, rec)' <=> Landed(c, rec)
    BY <1>2, <1>3, <2>2 DEF Coming, Landed
  <2>4. \A rec \in Declared(f, disk[f]) : rec \in There(c)
    BY <1>2, ThereIsOfRepo
  <2>5. ASSUME NEW g \in Files, NEW rec \in Declared(g, disk'[g]), RepoOf[g] = RepoFor[c]
        PROVE  g \in todo'[c] \/ Coming(c, rec)' \/ Landed(c, rec)' \/ rec \in missed'[c]
    <3>1. rec \in Declared(g, disk[g])
      BY <1>2
    <3>2. g \in todo[c] \/ Coming(c, rec) \/ Landed(c, rec) \/ rec \in missed[c]
      BY <2>1, <2>5, <3>1 DEF Crawling
    <3>3. CASE g = f
      BY <2>3, <3>1, <3>3
    <3> QED BY <1>3, <2>3, <3>2, <3>3
  <2>6. /\ \A rec : Coming(c, rec)' => rec \in There(c)'
        /\ txn'[c] # NoTxn => ~txn'[c].overtaken
        /\ live'[c] \subseteq {PrimaryKey(rec) : rec \in There(c)' \cap Here(c)'}
    BY <1>2, <2>1, <2>2, <2>3, <2>4 DEF Crawling
  <2> QED BY <2>5, <2>6 DEF Crawling
<1>5. Exact(c)'
  BY <1>2, <1>4 DEF Exact
<1> QED BY <1>2, <1>3, <1>5, OwnStep DEF EInv, CycleShape, DiskShape

\* All that is declared has landed or been missed when the crawl ends well.
LEMMA CrawlEndsExact ==
  ASSUME IInv, EInv, NEW c \in Cycles, CrawlEnds(c)
  PROVE  EInv'
<1>1. /\ c \in Workers /\ pc[c] = "crawl"
      /\ toPut[c] = {} /\ txn[c] = NoTxn
      /\ todo[c] = {} \/ ended[c]
      /\ pc' = [pc EXCEPT ![c] = IF MayPrune(c) THEN "prune" ELSE "failed"]
      /\ UNCHANGED <<disk, db, todo, toPut, txn, live, stale, quiet, missed>>
  BY DEF CrawlEnds, Idle, Goto, Workers, cycleVars, history
<1>2. /\ pc'[c] = IF MayPrune(c) THEN "prune" ELSE "failed"
      /\ \A d \in Cycles \ {c} : pc'[d] = pc[d]
  BY <1>1 DEF IInv, Domains, Workers
<1>3. ASSUME quiet[c], pc'[c] = "prune"
      PROVE  Settled(c)
  <2>1. Crawling(c) /\ todo[c] = {}
    BY <1>1, <1>2, <1>3 DEF EInv, Exact, MayPrune
  <2>2. \A rec \in There(c) \ missed[c] : Landed(c, rec)
    BY <1>1, <2>1, ThereIsOfRepo DEF Crawling, Coming
  <2> QED BY <2>1, <2>2 DEF Crawling, Settled
<1>4. Exact(c)'
  BY <1>1, <1>2, <1>3 DEF Exact, Settled, Landed, There, OnDisk, Here
<1> QED BY <1>1, <1>2, <1>4, OwnStep DEF EInv, CycleShape, DiskShape

\* The scan of an invalidation finds all that is in the cache and not declared,
\* and of what is declared only what the cycle has missed.
LEMMA PruneScanExact ==
  ASSUME IInv, EInv, NEW c \in Cycles, PruneScan(c)
  PROVE  EInv'
<1>1. /\ c \in Workers /\ pc[c] = "prune"
      /\ UNCHANGED <<disk, db, todo, toPut, txn, live, quiet, missed>>
  BY DEF PruneScan, Workers, history
<1>2. /\ pc'[c] = "delete" /\ \A d \in Cycles \ {c} : pc'[d] = pc[d] /\ stale'[d] = stale[d]
      /\ stale'[c] = Stale(db, RepoFor[c], live[c])
  BY <1>1 DEF PruneScan, Goto, IInv, Domains, Workers
<1>3. \A rec : rec \in stale'[c] <=> rec \in Here(c) /\ PrimaryKey(rec) \notin live[c]
  BY <1>2 DEF Stale, Here
<1>4. ASSUME quiet[c]
      PROVE  /\ There(c) \ missed[c] \subseteq Here(c)
             /\ Here(c) \subseteq There(c) \cup stale'[c]
             /\ \A rec \in stale'[c], kept \in There(c) \ missed[c] :
                   PrimaryKey(rec) # PrimaryKey(kept)
  <2>1. Settled(c)
    BY <1>1, <1>4 DEF EInv, Exact
  <2>2. ASSUME NEW rec \in Here(c), rec \notin stale'[c]
        PROVE  rec \in There(c)
    <3>1. PICK kept \in There(c) \cap Here(c) : PrimaryKey(rec) = PrimaryKey(kept)
      BY <1>3, <2>1, <2>2 DEF Settled
    <3>2. rec = kept
      BY <2>2, <3>1 DEF EInv, KeysHoldOne, Here
    <3> QED BY <3>1, <3>2
  <2> QED BY <1>3, <2>1, <2>2 DEF Settled, Landed
<1>5. Exact(c)'
  BY <1>1, <1>2, <1>4 DEF Exact, There, OnDisk, Here
<1> QED BY <1>1, <1>2, <1>3, <1>5, OwnStep DEF EInv, CycleShape, DiskShape, Here

\* A batch takes from the cache what it takes from the list, and nothing else.
LEMMA PruneBatchExact ==
  ASSUME IInv, EInv, NEW c \in Cycles, PruneBatch(c)
  PROVE  EInv'
<1>1. PICK batch \in SUBSET stale[c] :
         /\ db' = DeleteRecords(db, batch)
         /\ txn' = Overtaken({PrimaryKey(r) : r \in batch})
         /\ stale' = [stale EXCEPT ![c] = @ \ batch]
  BY DEF PruneBatch
<1> DEFINE keys == {PrimaryKey(r) : r \in batch}
<1>2. /\ c \in Workers /\ pc[c] = "delete"
      /\ UNCHANGED <<disk, pc, todo, toPut, live, missed>>
      /\ quiet' = [d \in Cycles |-> quiet[d] /\ (RepoFor[d] = RepoFor[c] => d = c)]
      /\ stale'[c] = stale[c] \ batch /\ \A d \in Cycles \ {c} : stale'[d] = stale[d]
  BY <1>1 DEF PruneBatch, Workers, Disturb, IInv, Domains
<1>3. \A r : r \in db'.recs <=> r \in db.recs /\ PrimaryKey(r) \notin keys
  BY <1>1 DEF DeleteRecords
<1>4. \A w \in Workers : txn'[w] = Overtaken(keys)[w]
                         /\ (txn'[w] = NoTxn <=> txn[w] = NoTxn)
  BY <1>1, OvertakenSame DEF IInv
<1> HIDE DEF keys
<1>5. KeysHoldOne'
  BY <1>3 DEF EInv, KeysHoldOne
<1>6. ReadsCurrent'
  <2>1. ASSUME NEW r, PrimaryKey(r) \notin keys
        PROVE  Stored(db', r) = Stored(db, r)
    BY <1>3, <2>1 DEF Stored
  <2> QED BY <1>4, <2>1, ReadsStay DEF EInv
<1>7. DiskShape'
  BY <1>2 DEF EInv, DiskShape
<1>8. CycleShape'
  <2>1. \A d \in Cycles : /\ txn'[d] = NoTxn <=> txn[d] = NoTxn
                          /\ quiet'[d] => quiet[d]
                          /\ stale'[d] \subseteq stale[d]
    BY <1>2, <1>4 DEF Workers
  <2> QED BY <1>2, <2>1 DEF EInv, CycleShape
<1>9. ASSUME quiet'[c]
      PROVE  /\ There(c)' \ missed'[c] \subseteq Here(c)'
             /\ Here(c)' \subseteq There(c)' \cup stale'[c]
             /\ \A rec \in stale'[c], kept \in There(c)' \ missed'[c] :
                   PrimaryKey(rec) # PrimaryKey(kept)
  <2>1. /\ There(c) \ missed[c] \subseteq Here(c)
        /\ Here(c) \subseteq There(c) \cup stale[c]
        /\ \A rec \in stale[c], kept \in There(c) \ missed[c] :
              PrimaryKey(rec) # PrimaryKey(kept)
    BY <1>2, <1>9 DEF EInv, Exact
  <2>2. There(c)' = There(c)
    BY <1>2 DEF There, OnDisk
  <2>3. \A r \in batch : PrimaryKey(r) \in keys
    BY DEF keys
  <2>4. \A r \in There(c) \ missed[c] : PrimaryKey(r) \notin keys
    BY <2>1 DEF keys
  <2>5. \A r : r \in Here(c)' <=> r \in Here(c) /\ PrimaryKey(r) \notin keys
    BY <1>3 DEF Here
  <2>6. Here(c)' \subseteq There(c)' \cup stale'[c]
    BY <1>2, <2>1, <2>2, <2>3, <2>5
  <2>7. There(c)' \ missed'[c] \subseteq Here(c)'
    BY <1>2, <2>1, <2>2, <2>4, <2>5
  <2> QED BY <1>2, <2>1, <2>2, <2>6, <2>7
<1>10. Exact(c)'
  BY <1>2, <1>9 DEF Exact
<1>11. \A d \in Cycles \ {c} : Exact(d)'
  BY PruneElsewhere, StillExact DEF EInv
<1> QED BY <1>5, <1>6, <1>7, <1>8, <1>10, <1>11 DEF EInv

\* An invalidation that fails ends the cycle.
LEMMA PruneFailsExact ==
  ASSUME IInv, EInv, NEW c \in Cycles, PruneFails(c)
  PROVE  EInv'
<1>1. /\ c \in Workers /\ pc[c] \in {"prune", "delete"}
      /\ UNCHANGED <<disk, db, todo, toPut, txn, live, quiet, missed>>
  BY DEF PruneFails, Workers, history, IInv, PrunesInTime
<1>2. /\ pc'[c] = "failed" /\ stale'[c] = {}
      /\ \A d \in Cycles \ {c} : pc'[d] = pc[d] /\ stale'[d] = stale[d]
  BY <1>1 DEF PruneFails, Goto, IInv, Domains, Workers
<1>3. Exact(c)'
  BY <1>2 DEF Exact
<1> QED BY <1>1, <1>2, <1>3, OwnStep DEF EInv, CycleShape, DiskShape

\* With the list empty the cache holds nothing that the tree does not declare.
LEMMA CycleEndsExact ==
  ASSUME IInv, EInv, NEW c \in Cycles, CycleEnds(c)
  PROVE  EInv'
<1>1. /\ c \in Workers /\ pc[c] = "delete" /\ stale[c] = {}
      /\ pc' = [pc EXCEPT ![c] = "indexed"]
      /\ UNCHANGED <<disk, db, todo, toPut, txn, live, stale, quiet, missed>>
  BY DEF CycleEnds, Goto, Workers, cycleVars, history
<1>2. pc'[c] = "indexed" /\ \A d \in Cycles \ {c} : pc'[d] = pc[d]
  BY <1>1 DEF IInv, Domains, Workers
<1>3. quiet[c] => There(c) \ missed[c] \subseteq Here(c) /\ Here(c) \subseteq There(c)
  BY <1>1 DEF EInv, Exact
<1>4. Exact(c)'
  BY <1>1, <1>2, <1>3 DEF Exact, There, OnDisk, Here
<1> QED BY <1>1, <1>2, <1>4, OwnStep DEF EInv, CycleShape, DiskShape

-----------------------------------------------------------------------------
(* The theorems.                                                            *)

LEMMA InitExact == QueryInit => EInv
<1> SUFFICES ASSUME QueryInit
             PROVE  EInv
  OBVIOUS
<1>1. DiskShape
  BY DEF QueryInit, Init, DiskShape
<1>2. KeysHoldOne /\ ReadsCurrent
  BY DEF QueryInit, Init, KeysHoldOne, ReadsCurrent, EmptyDb
<1>3. CycleShape
  BY DEF QueryInit, Init, CycleShape, Workers
<1>4. \A c \in Cycles : Exact(c)
  BY DEF QueryInit, Init, Exact, Workers
<1> QED BY <1>1, <1>2, <1>3, <1>4 DEF EInv

LEMMA NextExact == IInv /\ EInv /\ [QueryNext]_<<vars, queryVars>> => EInv'
<1> SUFFICES ASSUME IInv, EInv, [QueryNext]_<<vars, queryVars>>
             PROVE  EInv'
  OBVIOUS
<1>1. ASSUME NEW q \in Searches,
             Ask(q) \/ Scan(q) \/ PutBegin(q) \/ SearchPut(q) \/ SearchEnds(q)
      PROVE  EInv'
  BY <1>1, QueryExact, PutBeginExact, SearchPutExact DEF Workers
<1>2. ASSUME NEW c \in Cycles,
             \/ StartCycle(c) \/ ParseFile(c) \/ PutBegin(c) \/ CyclePut(c)
             \/ CrawlEnds(c) \/ PruneScan(c) \/ PruneBatch(c) \/ PruneFails(c)
             \/ CycleEnds(c)
      PROVE  EInv'
  BY <1>2, StartCycleExact, ParseFileExact, PutBeginExact, CyclePutExact, CrawlEndsExact,
     PruneScanExact, PruneBatchExact, PruneFailsExact, CycleEndsExact DEF Workers
<1>3. ASSUME NEW w \in Workers, EndContext(w)
      PROVE  EInv'
  BY <1>3, EndContextExact
<1>4. ASSUME NEW f \in Files, EditTree(f)
      PROVE  EInv'
  BY <1>4, EditExact
<1>5. CASE UNCHANGED <<vars, queryVars>>
  BY <1>5, ElsewhereExact DEF vars, cycleVars, history
<1> QED BY <1>1, <1>2, <1>3, <1>4, <1>5 DEF QueryNext

\* The inductive invariant holds in every reachable state.
THEOREM ExactInvariance == QuerySpec => []EInv
<1>1. QueryInit => IInv /\ EInv
  BY InitIInv, InitExact
<1>2. (IInv /\ EInv) /\ [QueryNext]_<<vars, queryVars>> => (IInv /\ EInv)'
  BY NextIInv, NextExact
<1> QED BY <1>1, <1>2, PTL DEF QuerySpec

\* After a cycle during which nothing else has changed its repository's files
\* or records the cache holds nothing that the working tree does not declare,
\* and all that it declares and the cycle could read and write, for any
\* repositories and files, whatever cycles, queries and edits came before and
\* however they failed (indexer.go:151-257, store.go:135-232).
THEOREM CyclesAreExact == QuerySpec => []CycleExact
<1>1. EInv => CycleExact
  BY DEF EInv, Exact, Here, There, CycleExact, Undisturbed
<1> QED BY <1>1, ExactInvariance, PTL

\* A write keeps what a tree declares of the repository of an undisturbed cycle.
LEMMA WritesKeepDeclared ==
  ASSUME IInv, EInv, NEW w \in Workers, txn[w] # NoTxn,
         (~txn[w].overtaken /\ Commit(w)) \/ PutFails(w),
         NEW c \in Cycles, quiet'[c], NEW rec \in db.recs \cap There(c)
  PROVE  rec \in db'.recs
<1>1. CASE db' = db
  BY <1>1
<1>2. CASE db' # db
  <2> DEFINE new == txn[w].rec
  <2>1. ~txn[w].overtaken /\ Commit(w)
    BY <1>2 DEF PutFails
  <2>2. /\ db' = PutSymbol(db, new, Stored(db, new))
        /\ quiet[c] /\ (RepoFor[c] = new.repo => c = w)
    BY <1>2, <2>1, CommitPuts
  <2>3. new \in db'.recs /\ (PrimaryKey(rec) # PrimaryKey(new) => rec \in db'.recs)
    BY <2>2, PutRecords DEF EInv
  <2>4. ASSUME PrimaryKey(rec) = PrimaryKey(new)
        PROVE  rec = new
    <3>1. c = w
      BY <2>2, <2>4, KeyTells, ThereIsOfRepo
    <3>2. Crawling(c)
      BY <2>2, <3>1 DEF EInv, CycleShape, Exact
    <3>3. new \in There(c)
      BY <3>1, <3>2 DEF Crawling, Coming
    <3> QED BY <2>4, <3>3, ThereIsKeyed DEF EInv
  <2> QED BY <2>3, <2>4
<1> QED BY <1>1, <1>2

\* While nothing else changes its repository, what a cycle takes from the cache
\* and the working tree declares is what the cycle could not read or write
\* itself, and it takes nothing if its context ended before it had read all it
\* was to read, for any repositories, files, cycles and queries
\* (indexer.go:205-240, store.go:405-460).
THEOREM CyclesLoseOnlyMissed == QuerySpec => LosesOnlyMissed
<1> DEFINE Keeps(c) == \A rec \in db.recs \cap OnDisk(RepoFor[c]) :
                          rec \in db'.recs \/ (rec \in missed[c] /\ ~ended[c])
<1>1. QueryInit => IInv /\ EInv
  BY InitIInv, InitExact
<1>2. (IInv /\ EInv) /\ [QueryNext]_<<vars, queryVars>> => (IInv /\ EInv)'
  BY NextIInv, NextExact
<1>3. (IInv /\ EInv) /\ [QueryNext]_<<vars, queryVars>> =>
         [\A c \in Cycles : quiet'[c] => Keeps(c)]_<<db, quiet>>
  <2> SUFFICES ASSUME IInv, EInv, QueryNext, NEW c \in Cycles, quiet'[c], db' # db
               PROVE  Keeps(c)
    BY DEF vars, history
  <2>1. ASSUME NEW d \in Cycles, PruneBatch(d)
        PROVE  Keeps(c)
    <3> SUFFICES ASSUME NEW rec \in db.recs \cap There(c), rec \notin db'.recs
                 PROVE  rec \in missed[c] /\ ~ended[c]
      BY DEF There
    <3>1. PICK batch \in SUBSET stale[d] : db' = DeleteRecords(db, batch)
      BY <2>1 DEF PruneBatch
    <3>2. PICK old \in batch : PrimaryKey(rec) = PrimaryKey(old)
      BY <3>1 DEF DeleteRecords
    <3>3. RepoFor[d] = RepoFor[c]
      BY <3>2, KeyTells, ThereIsOfRepo DEF EInv, CycleShape
    <3>4. quiet[c] /\ c = d
      BY <2>1, <3>3 DEF PruneBatch, Disturb
    <3>5. pc[c] = "delete" /\ ~ended[c]
      BY <2>1, <3>4 DEF PruneBatch, IInv, PrunesInTime
    <3> QED BY <3>2, <3>4, <3>5 DEF EInv, Exact
  <2>2. ASSUME NEW w \in Workers, (w \in Cycles /\ CyclePut(w)) \/ (w \in Searches /\ SearchPut(w))
        PROVE  Keeps(c)
    BY <2>2, WritesKeepDeclared DEF CyclePut, SearchPut, There
  <2>3. ASSUME NEW q \in Searches, Ask(q) \/ Scan(q) \/ PutBegin(q) \/ SearchEnds(q)
        PROVE  db' = db
    BY <2>3 DEF Ask, Answered, Missed, StartSearch, LookupFails, Scan, SearchFile, WalkRepo,
                PutBegin, SearchEnds
  <2>4. ASSUME NEW d \in Cycles,
               \/ StartCycle(d) \/ ParseFile(d) \/ PutBegin(d)
               \/ CrawlEnds(d) \/ PruneScan(d) \/ PruneFails(d) \/ CycleEnds(d)
        PROVE  db' = db
    BY <2>4 DEF StartCycle, ParseFile, PutBegin, CrawlEnds, PruneScan, PruneFails, CycleEnds
  <2>5. ASSUME NEW w \in Workers, EndContext(w)
        PROVE  db' = db
    BY <2>5 DEF EndContext
  <2>6. ASSUME NEW f \in Files, EditTree(f)
        PROVE  db' = db
    BY <2>6 DEF EditTree, Edit
  <2>7. Cycles \subseteq Workers /\ Searches \subseteq Workers
    BY DEF Workers
  <2> HIDE DEF Keeps
  <2> QED BY <2>1, <2>2, <2>3, <2>4, <2>5, <2>6, <2>7 DEF QueryNext
<1> QED BY <1>1, <1>2, <1>3, PTL DEF QuerySpec, LosesOnlyMissed

-----------------------------------------------------------------------------
(* Repositories do not meet in the cache.                                   *)

\* The repository in an index key.
KeyRepo(k) == IF k[1] = "name" THEN k[3] ELSE IF k[1] = "type" THEN k[4] ELSE k[2]

\* An index entry leads to a record of the repository in its key.
KeysTellRepo == \A k \in DOMAIN db.idx : KeyRepo(k) = db.idx[k][2]

\* A cycle writes records of its repository.
OwnRecords == \A c \in Cycles : \A rec : Coming(c, rec) => rec.repo = RepoFor[c]

RInv == KeysTellRepo /\ OwnRecords

LEMMA IndexKeysTellRepo ==
  ASSUME NEW rec, NEW k \in IndexKeys(rec)
  PROVE  KeyRepo(k) = rec.repo
  BY DEF KeyRepo, IndexKeys, NameKey, TypeKey, FileKey

\* The pairs of a view are those of its lookups.
LEMMA ViewIsLookup ==
  ASSUME NEW repo, NEW r, NEW n
  PROVE  <<r, n>> \in View(repo) <=> r.repo = repo /\ r \in FoundByName(db, n)
  BY DEF View, FoundByName, Found, Candidates

\* Two caches with the same lookups in a repository give the same view of it.
LEMMA SameLookupsSameView ==
  ASSUME NEW repo,
         \A r, n : r.repo = repo =>
            (r \in FoundByName(db', n) <=> r \in FoundByName(db, n))
  PROVE  View(repo)' = View(repo)
<1>1. \A r, n : <<r, n>> \in View(repo)' <=> r.repo = repo /\ r \in FoundByName(db', n)
  BY DEF View, FoundByName, Found, Candidates
<1>2. \A r, n : <<r, n>> \in View(repo)' <=> <<r, n>> \in View(repo)
  BY <1>1, ViewIsLookup
<1>3. /\ \A x \in View(repo) : x = <<x[1], x[2]>>
      /\ \A x \in View(repo)' : x = <<x[1], x[2]>>
  BY DEF View
<1> QED BY <1>2, <1>3

\* A write leaves the lookups of other repositories as they are.
LEMMA PutOfAnotherRepo ==
  ASSUME KeysTellRepo, NEW rec, NEW read, db' = PutSymbol(db, rec, read), NEW repo,
         rec.repo # repo
  PROVE  View(repo)' = View(repo)
<1>1. /\ db'.recs = db.recs \/ db'.recs = (db.recs \ Stored(db, rec)) \cup {rec}
      /\ db'.idx = WriteIndexes(db, rec)
  BY DEF PutSymbol, RefreshUnchanged
<1>2. \A r : r.repo = repo => PrimaryKey(r) # PrimaryKey(rec) /\ r # rec
  BY KeyTells
<1>3. \A r : r.repo = repo => (r \in db'.recs <=> r \in db.recs)
  BY <1>1, <1>2 DEF Stored
<1>4. \A k : k \in DOMAIN db'.idx <=> k \in DOMAIN db.idx \/ k \in IndexKeys(rec)
  BY <1>1 DEF WriteIndexes
<1>5. \A k \in DOMAIN db'.idx :
         db'.idx[k] = IF k \in IndexKeys(rec) THEN PrimaryKey(rec) ELSE db.idx[k]
  BY <1>1 DEF WriteIndexes
<1>6. ASSUME NEW r, r.repo = repo, NEW k
      PROVE  (k \in DOMAIN db'.idx /\ db'.idx[k] = PrimaryKey(r))
                <=> (k \in DOMAIN db.idx /\ db.idx[k] = PrimaryKey(r))
  <2>1. CASE k \in IndexKeys(rec)
    <3>1. k \in DOMAIN db.idx => db.idx[k][2] = rec.repo
      BY <2>1, IndexKeysTellRepo DEF KeysTellRepo
    <3>2. PrimaryKey(r)[2] = repo
      BY <1>6 DEF PrimaryKey
    <3> QED BY <1>2, <1>4, <1>5, <1>6, <2>1, <3>1, <3>2
  <2>2. CASE k \notin IndexKeys(rec)
    BY <1>4, <1>5, <2>2
  <2> QED BY <2>1, <2>2
<1>7. \A r, n : r.repo = repo => (r \in FoundByName(db', n) <=> r \in FoundByName(db, n))
  BY <1>3, <1>6 DEF FoundByName, Found, Candidates
<1> QED BY <1>7, SameLookupsSameView

\* So does an invalidation.
LEMMA DeleteOfAnotherRepo ==
  ASSUME KeysTellRepo, NEW batch, db' = DeleteRecords(db, batch), NEW repo,
         \A rec \in batch : rec.repo # repo
  PROVE  View(repo)' = View(repo)
<1>1. \A r : r.repo = repo => (r \in db'.recs <=> r \in db.recs)
  <2>1. \A r : r.repo = repo => PrimaryKey(r) \notin {PrimaryKey(rec) : rec \in batch}
    BY KeyTells
  <2> QED BY <2>1 DEF DeleteRecords
<1>2. \A k : /\ k \in DOMAIN db'.idx <=>
                   k \in DOMAIN db.idx /\ k \notin UNION {IndexKeys(rec) : rec \in batch}
             /\ k \in DOMAIN db'.idx => db'.idx[k] = db.idx[k]
  BY DEF DeleteRecords
<1>3. ASSUME NEW r, r.repo = repo, NEW k \in DOMAIN db.idx, db.idx[k] = PrimaryKey(r)
      PROVE  k \in DOMAIN db'.idx
  <2>1. KeyRepo(k) = repo
    BY <1>3 DEF KeysTellRepo, PrimaryKey
  <2>2. \A rec \in batch : k \notin IndexKeys(rec)
    BY <2>1, IndexKeysTellRepo
  <2> QED BY <1>2, <2>2
<1>4. \A r, n : r.repo = repo => (r \in FoundByName(db', n) <=> r \in FoundByName(db, n))
  BY <1>1, <1>2, <1>3 DEF FoundByName, Found, Candidates
<1> QED BY <1>4, SameLookupsSameView

\* A step changes the cache by the end of a transaction or by a batch of an
\* invalidation.
Wrote(w) ==
    /\ txn[w] # NoTxn /\ txn'[w] = NoTxn
    /\ db' = PutSymbol(db, txn[w].rec, txn[w].read)

Took(c, batch) ==
    /\ db' = DeleteRecords(db, batch)
    /\ stale'[c] = stale[c] \ batch

LEMMA WritesOrTakes ==
  ASSUME IInv, QueryNext
  PROVE  \/ db' = db
         \/ \E w \in Workers : Wrote(w)
         \/ \E c \in Cycles : \E batch \in SUBSET stale[c] : Took(c, batch)
<1>1. ASSUME NEW q \in Searches,
             Ask(q) \/ Scan(q) \/ PutBegin(q) \/ SearchEnds(q)
      PROVE  db' = db
  BY <1>1 DEF Ask, Answered, Missed, StartSearch, LookupFails, Scan, SearchFile, WalkRepo,
              PutBegin, SearchEnds
<1>2. ASSUME NEW c \in Cycles,
             \/ StartCycle(c) \/ ParseFile(c) \/ PutBegin(c)
             \/ CrawlEnds(c) \/ PruneScan(c) \/ PruneFails(c) \/ CycleEnds(c)
      PROVE  db' = db
  BY <1>2 DEF StartCycle, ParseFile, PutBegin, CrawlEnds, PruneScan, PruneFails, CycleEnds
<1>3. ASSUME NEW w \in Workers, CyclePut(w) \/ SearchPut(w)
      PROVE  db' = db \/ Wrote(w)
  <2>1. txn[w] # NoTxn /\ (Commit(w) \/ PutFails(w))
    BY <1>3 DEF CyclePut, SearchPut
  <2>2. txn'[w] = NoTxn
    BY <2>1, TxnEnds
  <2> QED BY <2>1, <2>2 DEF Wrote, Commit, PutFails
<1>4. ASSUME NEW c \in Cycles, PruneBatch(c)
      PROVE  \E batch \in SUBSET stale[c] : Took(c, batch)
  BY <1>4 DEF PruneBatch, Took, IInv, Domains
<1>5. ASSUME NEW w \in Workers, EndContext(w)
      PROVE  db' = db
  BY <1>5 DEF EndContext
<1>6. ASSUME NEW f \in Files, EditTree(f)
      PROVE  db' = db
  BY <1>6 DEF EditTree, Edit
<1>7. Cycles \subseteq Workers /\ Searches \subseteq Workers
  BY DEF Workers
<1> QED BY <1>1, <1>2, <1>3, <1>4, <1>5, <1>6, <1>7 DEF QueryNext

\* What comes to a cycle comes from the files it reads.
LEMMA ComesFromFiles ==
  ASSUME IInv, QueryNext, NEW c \in Cycles, NEW rec, Coming(c, rec)'
  PROVE  \/ Coming(c, rec)
         \/ pc[c] = "crawl" /\ \E f \in todo[c] : rec \in Declared(f, disk[f])
<1> DEFINE Goal == \/ Coming(c, rec)
                   \/ pc[c] = "crawl" /\ \E f \in todo[c] : rec \in Declared(f, disk[f])
<1>a. c \in Workers
  BY DEF Workers
<1>1. CASE toPut'[c] = toPut[c] /\ (txn'[c] = NoTxn \/ SameTxn(c))
  <2>1. Coming(c, rec)
    BY <1>1 DEF Coming, SameTxn
  <2> QED BY <2>1
<1> SUFFICES ASSUME ~Goal
             PROVE  toPut'[c] = toPut[c] /\ (txn'[c] = NoTxn \/ SameTxn(c))
  BY <1>1
<1>2. ASSUME UNCHANGED <<toPut, txn>>
      PROVE  toPut'[c] = toPut[c] /\ (txn'[c] = NoTxn \/ SameTxn(c))
  BY <1>2 DEF SameTxn
<1>3. ASSUME NEW q \in Searches,
             Ask(q) \/ SearchEnds(q)
      PROVE  UNCHANGED <<toPut, txn>>
  BY <1>3 DEF Ask, Answered, Missed, StartSearch, LookupFails, SearchEnds
<1>4. ASSUME NEW d \in Cycles,
             StartCycle(d) \/ CrawlEnds(d) \/ PruneScan(d) \/ PruneFails(d) \/ CycleEnds(d)
      PROVE  UNCHANGED <<toPut, txn>>
  BY <1>4 DEF StartCycle, CrawlEnds, PruneScan, PruneFails, CycleEnds
<1>5. ASSUME NEW w \in Workers, EndContext(w)
      PROVE  UNCHANGED <<toPut, txn>>
  BY <1>5 DEF EndContext
<1>6. ASSUME NEW f \in Files, EditTree(f)
      PROVE  UNCHANGED <<toPut, txn>>
  BY <1>6 DEF EditTree, Edit
<1>7. ASSUME NEW q \in Searches, Scan(q)
      PROVE  toPut'[c] = toPut[c] /\ txn'[c] = txn[c]
  <2>1. c # q
    BY Apart
  <2>2. txn' = txn /\ (toPut' = toPut \/ \E x : toPut' = [toPut EXCEPT ![q] = x])
    BY <1>7 DEF Scan, SearchFile, WalkRepo
  <2> QED BY <1>a, <2>1, <2>2 DEF IInv, Domains
<1>8. ASSUME NEW d \in Cycles, ParseFile(d)
      PROVE  toPut'[c] = toPut[c] /\ txn'[c] = txn[c]
  <2>1. PICK f \in todo[d] : \/ toPut' = [toPut EXCEPT ![d] = @ \cup Declared(f, disk[f])]
                             \/ UNCHANGED toPut
    BY <1>8 DEF ParseFile
  <2>2. txn' = txn /\ pc[d] = "crawl"
    BY <1>8 DEF ParseFile
  <2>3. CASE d = c
    <3>1. CASE toPut' = [toPut EXCEPT ![d] = @ \cup Declared(f, disk[f])]
      <4>1. toPut'[c] = toPut[c] \cup Declared(f, disk[f])
        BY <1>a, <2>3, <3>1 DEF IInv, Domains
      <4>2. Goal
        BY <2>1, <2>2, <2>3, <4>1 DEF Coming
      <4> QED BY <4>2
    <3> QED BY <2>1, <2>2, <3>1
  <2>4. CASE d # c
    BY <1>a, <2>1, <2>2, <2>4 DEF IInv, Domains
  <2> QED BY <2>3, <2>4
<1>9. ASSUME NEW w \in Workers, PutBegin(w)
      PROVE  toPut'[c] = toPut[c] /\ txn'[c] = txn[c]
  <2>1. PICK r \in toPut[w] :
           /\ txn' = [txn EXCEPT ![w] = [rec |-> r, read |-> Stored(db, r), overtaken |-> FALSE]]
           /\ toPut' = [toPut EXCEPT ![w] = @ \ {r}]
    BY <1>9 DEF PutBegin
  <2>2. CASE w = c
    <3>1. /\ txn'[c].rec = r /\ toPut'[c] = toPut[c] \ {r}
      BY <1>a, <2>1, <2>2 DEF IInv, Domains
    <3>2. Goal
      BY <2>1, <2>2, <3>1 DEF Coming
    <3> QED BY <3>2
  <2>3. CASE w # c
    BY <1>a, <2>1, <2>3 DEF IInv, Domains
  <2> QED BY <2>2, <2>3
<1>10. ASSUME NEW w \in Workers, CyclePut(w) \/ SearchPut(w)
       PROVE  txn'[c] = NoTxn \/ SameTxn(c)
  <2>1. Commit(w) \/ PutFails(w)
    BY <1>10 DEF CyclePut, SearchPut
  <2> QED BY <1>a, <2>1, TxnEnds
<1>11. ASSUME NEW q \in Searches, SearchPut(q)
       PROVE  toPut'[c] = toPut[c]
  BY <1>a, <1>11, Apart DEF SearchPut, IInv, Domains
<1>12. ASSUME NEW d \in Cycles, CyclePut(d)
       PROVE  toPut'[c] = toPut[c]
  BY <1>12 DEF CyclePut
<1>13. ASSUME NEW d \in Cycles, PruneBatch(d)
       PROVE  toPut'[c] = toPut[c] /\ SameTxn(c)
  <2>1. PICK keys : txn' = Overtaken(keys)
    BY <1>13 DEF PruneBatch
  <2>2. toPut' = toPut
    BY <1>13 DEF PruneBatch
  <2>3. SameTxn(c)
    BY <1>a, <2>1, OvertakenSame DEF IInv, SameTxn
  <2> QED BY <2>2, <2>3
<1>14. Cycles \subseteq Workers /\ Searches \subseteq Workers
  BY DEF Workers
<1>15. txn'[c] = txn[c] => SameTxn(c)
  BY DEF SameTxn
<1> HIDE DEF Goal
<1> QED BY <1>2, <1>3, <1>4, <1>5, <1>6, <1>7, <1>8, <1>9, <1>10, <1>11, <1>12, <1>13,
           <1>14, <1>15 DEF QueryNext

LEMMA InitRepos == QueryInit => RInv
  BY DEF QueryInit, Init, EmptyDb, RInv, KeysTellRepo, OwnRecords, Coming, Workers

LEMMA NextRepos == IInv /\ EInv /\ RInv /\ [QueryNext]_<<vars, queryVars>> => RInv'
<1> SUFFICES ASSUME IInv, EInv, RInv, QueryNext
             PROVE  RInv'
  BY DEF RInv, KeysTellRepo, OwnRecords, Coming, vars
<1>1. OwnRecords'
  <2> SUFFICES ASSUME NEW c \in Cycles, NEW rec, Coming(c, rec)'
               PROVE  rec.repo = RepoFor[c]
    BY DEF OwnRecords
  <2>1. CASE Coming(c, rec)
    BY <2>1 DEF RInv, OwnRecords
  <2>2. CASE pc[c] = "crawl" /\ \E f \in todo[c] : rec \in Declared(f, disk[f])
    <3>1. \E f \in Files : RepoOf[f] = RepoFor[c] /\ rec \in Declared(f, disk[f])
      BY <2>2 DEF EInv, CycleShape
    <3> QED BY <3>1 DEF Declared, Record
  <2> QED BY <2>1, <2>2, ComesFromFiles
<1>2. KeysTellRepo'
  <2>1. CASE db' = db
    BY <2>1 DEF RInv, KeysTellRepo
  <2>2. ASSUME NEW w \in Workers, Wrote(w)
        PROVE  KeysTellRepo'
    <3> DEFINE rec == txn[w].rec
    <3>1. db'.idx = WriteIndexes(db, rec)
      BY <2>2 DEF Wrote, PutSymbol, RefreshUnchanged
    <3> HIDE DEF rec
    <3>2. \A k \in IndexKeys(rec) : KeyRepo(k) = PrimaryKey(rec)[2]
      BY IndexKeysTellRepo DEF PrimaryKey
    <3> QED BY <3>1, <3>2 DEF RInv, KeysTellRepo, WriteIndexes
  <2>3. ASSUME NEW c \in Cycles, NEW batch, Took(c, batch)
        PROVE  KeysTellRepo'
    BY <2>3 DEF Took, DeleteRecords, RInv, KeysTellRepo
  <2> QED BY <2>1, <2>2, <2>3, WritesOrTakes
<1> QED BY <1>1, <1>2 DEF RInv

\* What can be looked up in one repository is not changed by a cycle of
\* another or by the records a scan writes of another, for any repositories,
\* files, cycles and queries (store.go:37-75, 135-232).
THEOREM ReposStayApart == QuerySpec => ReposIndependent
<1>1. QueryInit => IInv /\ EInv /\ RInv
  BY InitIInv, InitExact, InitRepos
<1>2. (IInv /\ EInv /\ RInv) /\ [QueryNext]_<<vars, queryVars>> => (IInv /\ EInv /\ RInv)'
  BY NextIInv, NextExact, NextRepos
<1>3. (IInv /\ EInv /\ RInv) /\ [QueryNext]_<<vars, queryVars>> =>
         [db' # db => \A repo \in Repos \ Touched : View(repo)' = View(repo)]_db
  <2> SUFFICES ASSUME IInv, EInv, RInv, QueryNext, db' # db,
                      NEW repo \in Repos, repo \notin Touched
               PROVE  View(repo)' = View(repo)
    BY DEF vars
  <2>1. ASSUME NEW w \in Workers, Wrote(w)
        PROVE  View(repo)' = View(repo)
    <3>1. txn[w].rec.repo # repo
      <4>1. CASE w \in Searches
        BY <2>1, <4>1 DEF Wrote, Touched
      <4>2. CASE w \in Cycles
        <5>1. RepoFor[w] \in Touched
          BY <2>1, <4>2 DEF Wrote, Touched
        <5>2. txn[w].rec.repo = RepoFor[w]
          BY <2>1, <4>2 DEF Wrote, RInv, OwnRecords, Coming
        <5> QED BY <5>1, <5>2
      <4> QED BY <4>1, <4>2 DEF Workers
    <3> QED BY <2>1, <3>1, PutOfAnotherRepo DEF Wrote, RInv
  <2>2. ASSUME NEW c \in Cycles, NEW batch \in SUBSET stale[c], Took(c, batch)
        PROVE  View(repo)' = View(repo)
    <3>1. CASE batch = {}
      BY <2>2, <3>1, DeleteOfAnotherRepo DEF Took, RInv
    <3>2. CASE batch # {}
      <4>1. RepoFor[c] \in Touched
        BY <2>2, <3>2 DEF Took, Touched
      <4>2. \A rec \in batch : rec.repo = RepoFor[c]
        BY <2>2 DEF EInv, CycleShape
      <4>3. \A rec \in batch : rec.repo # repo
        BY <4>1, <4>2
      <4> QED BY <2>2, <4>3, DeleteOfAnotherRepo DEF Took, RInv
    <3> QED BY <3>1, <3>2
  <2> QED BY <2>1, <2>2, WritesOrTakes
<1> QED BY <1>1, <1>2, <1>3, PTL DEF QuerySpec, ReposIndependent

-----------------------------------------------------------------------------
(* What an undisturbed cycle leaves in the index.                           *)

\* Every entry under which a record is to be found by name leads to it.
Reachable(rec) ==
    \A n \in {rec.name} \cup rec.aliases : \A k \in {NameKey(n, rec), TypeKey(n, rec)} :
        k \in DOMAIN db.idx /\ db.idx[k] = PrimaryKey(rec)

\* What a cycle has written is reachable, until it takes something from the
\* index itself.
Healing(c) ==
    quiet[c] /\ ~pruned[c] =>
        \A rec \in There(c) : PrimaryKey(rec) \in live[c] => Reachable(rec)

\* Past its crawl it has written all that the tree declares but what it missed.
AllLive(c) ==
    quiet[c] /\ pc[c] \in {"prune", "delete", "indexed"} =>
        \A rec \in There(c) \ missed[c] : PrimaryKey(rec) \in live[c]

HInv == DOMAIN pruned = Cycles /\ \A c \in Cycles : Healing(c) /\ AllLive(c)

\* The entries of a repository stay as they are.
EntriesStay(repo) ==
    \A k \in DOMAIN db.idx : KeyRepo(k) = repo =>
        k \in DOMAIN db'.idx /\ db'.idx[k] = db.idx[k]

\* What a step does to a cycle that it neither begins nor disturbs ...
Goes(c) ==
    /\ quiet[c]
    /\ There(c)' = There(c) /\ missed[c] \subseteq missed'[c]
    /\ pc'[c] \in {"delete", "indexed"} => pc[c] \in {"prune", "delete", "indexed"}
    /\ pruned[c] => pruned'[c]

\* ... and to what the cycle has written: nothing, one record more, or it has
\* begun to delete.
Leaves(c) == live'[c] = live[c] /\ EntriesStay(RepoFor[c])

Writes(c, rec) ==
    /\ rec \in There(c)
    /\ pc'[c] = "crawl"
    /\ live'[c] = live[c] \cup {PrimaryKey(rec)}
    /\ db'.idx = WriteIndexes(db, rec)

Prunes(c) == live'[c] = live[c] /\ pruned'[c]

GoesOn(c) == Goes(c) /\ (Leaves(c) \/ Prunes(c) \/ \E rec : Writes(c, rec))

Begins(c) == pc'[c] = "crawl" /\ live'[c] = {}

\* An entry by which a record of a tree is found by name is no other's.
LEMMA EntriesApart ==
  ASSUME NodesNamed, DiskShape, NEW c \in Cycles, NEW r \in There(c), NEW s \in There(c),
         NEW n \in {r.name} \cup r.aliases,
         NEW k \in {NameKey(n, r), TypeKey(n, r)}, k \in IndexKeys(s)
  PROVE  r = s
<1>1. PICK f \in Files : RepoOf[f] = RepoFor[c] /\ r \in Declared(f, disk[f])
  BY ThereIsOfRepo
<1>2. PICK g \in Files : RepoOf[g] = RepoFor[c] /\ s \in Declared(g, disk[g])
  BY ThereIsOfRepo
<1>3. /\ disk[f] # Absent /\ disk[g] # Absent
      /\ \E sym \in disk[f] : r = Record(f, sym)
      /\ \E sym \in disk[g] : s = Record(g, sym)
  BY <1>1, <1>2 DEF Declared
<1>4. PICK a \in disk[f] : r = Record(f, a)
  BY <1>3
<1>5. PICK b \in disk[g] : s = Record(g, b)
  BY <1>3
<1>6. \E m \in {s.name} \cup s.aliases :
         k = NameKey(m, s) \/ k = TypeKey(m, s) \/ k = FileKey(s)
  BY DEF IndexKeys
<1>7. PICK m \in {s.name} \cup s.aliases :
         k = NameKey(m, s) \/ k = TypeKey(m, s) \/ k = FileKey(s)
  BY <1>6
<1>8. n = m /\ r.file = s.file /\ r.offset = s.offset
  <2>1. CASE k = NameKey(n, r)
    BY <1>7, <2>1 DEF NameKey, TypeKey, FileKey
  <2>2. CASE k = TypeKey(n, r)
    BY <1>7, <2>2 DEF NameKey, TypeKey, FileKey
  <2> QED BY <2>1, <2>2
<1>9. NameOf[f] = NameOf[g] /\ a.offset = b.offset
      /\ n \in {a.name} \cup a.aliases /\ n \in {b.name} \cup b.aliases
  BY <1>4, <1>5, <1>7, <1>8 DEF Record
<1>10. f = g
  BY <1>1, <1>2, <1>9, PathsAndNodes
<1>11. ({a.name} \cup a.aliases) \cap ({b.name} \cup b.aliases) # {}
  BY <1>9
<1>12. disk[f] \in Versions[f] \ {Absent}
  BY <1>3 DEF DiskShape
<1>13. a = b
  BY <1>9, <1>10, <1>11, <1>12 DEF NodesNamed
<1> QED BY <1>4, <1>5, <1>10, <1>13

\* A record that is written is reachable, and others of the tree stay so.
LEMMA WriteReaches ==
  ASSUME NodesNamed, DiskShape, NEW c \in Cycles, NEW rec \in There(c),
         db'.idx = WriteIndexes(db, rec), NEW r \in There(c), r = rec \/ Reachable(r)
  PROVE  Reachable(r)'
<1> SUFFICES ASSUME NEW n \in {r.name} \cup r.aliases,
                    NEW k \in {NameKey(n, r), TypeKey(n, r)}
             PROVE  k \in DOMAIN db'.idx /\ db'.idx[k] = PrimaryKey(r)
  BY DEF Reachable
<1>1. CASE k \in IndexKeys(rec)
  <2>1. r = rec
    BY <1>1, EntriesApart
  <2> QED BY <1>1, <2>1 DEF WriteIndexes
<1>2. CASE k \notin IndexKeys(rec)
  <2>1. r # rec
    BY <1>2 DEF IndexKeys
  <2> QED BY <1>2, <2>1 DEF WriteIndexes, Reachable
<1> QED BY <1>1, <1>2

\* What goes on keeps the invariant.
LEMMA GoesOnHeals ==
  ASSUME NodesNamed, EInv, EInv', NEW c \in Cycles, Healing(c), AllLive(c),
         quiet'[c] => GoesOn(c) \/ Begins(c)
  PROVE  Healing(c)' /\ AllLive(c)'
<1> SUFFICES ASSUME quiet'[c]
             PROVE  Healing(c)' /\ AllLive(c)'
  BY DEF Healing, AllLive
<1>1. CASE Begins(c)
  BY <1>1 DEF Begins, Healing, AllLive
<1>2. CASE GoesOn(c)
  <2>1. AllLive(c)'
    <3>1. CASE pc'[c] = "prune"
      BY <3>1 DEF EInv, Exact, Settled, Landed, AllLive
    <3>2. CASE pc'[c] \in {"delete", "indexed"}
      <4>1. live'[c] = live[c]
        BY <1>2, <3>2 DEF GoesOn, Leaves, Prunes, Writes
      <4> QED BY <1>2, <3>2, <4>1 DEF GoesOn, Goes, AllLive
    <3> QED BY <3>1, <3>2 DEF AllLive
  <2>2. ASSUME ~pruned'[c], NEW rec \in There(c), PrimaryKey(rec) \in live'[c]
        PROVE  Reachable(rec)'
    <3>1. PrimaryKey(rec) \in live[c] => Reachable(rec)
      BY <1>2, <2>2 DEF GoesOn, Goes, Healing
    <3>2. CASE Leaves(c)
      <4>1. rec.repo = RepoFor[c]
        BY ThereIsOfRepo
      <4>2. \A n : KeyRepo(NameKey(n, rec)) = rec.repo /\ KeyRepo(TypeKey(n, rec)) = rec.repo
        BY DEF KeyRepo, NameKey, TypeKey
      <4> QED BY <2>2, <3>1, <3>2, <4>1, <4>2 DEF Leaves, EntriesStay, Reachable
    <3>3. ASSUME NEW new, Writes(c, new)
          PROVE  Reachable(rec)'
      <4>1. PrimaryKey(rec) = PrimaryKey(new) => rec = new
        BY <3>3, ThereIsKeyed DEF EInv, Writes
      <4>2. rec = new \/ Reachable(rec)
        BY <2>2, <3>1, <3>3, <4>1 DEF Writes
      <4> QED BY <3>3, <4>2, WriteReaches DEF EInv, Writes
    <3> QED BY <1>2, <2>2, <3>2, <3>3 DEF GoesOn, Prunes
  <2>3. There(c)' = There(c)
    BY <1>2 DEF GoesOn, Goes
  <2> QED BY <2>1, <2>2, <2>3 DEF Healing
<1> QED BY <1>1, <1>2

-----------------------------------------------------------------------------
(* Every step lets an undisturbed cycle go on.                              *)

\* Steps that leave the cache, the trees and what has been written alone.
LEMMA QuietStep ==
  ASSUME IInv, NEW c \in Cycles, quiet'[c], quiet[c],
         UNCHANGED <<disk, db, live, pruned>>, missed[c] \subseteq missed'[c],
         pc'[c] \in {"delete", "indexed"} => pc[c] \in {"prune", "delete", "indexed"}
  PROVE  GoesOn(c)
  BY DEF GoesOn, Goes, Leaves, EntriesStay, There, OnDisk

LEMMA QueryGoesOn ==
  ASSUME IInv, NEW q \in Searches, NEW c \in Cycles, quiet'[c],
         Ask(q) \/ Scan(q) \/ SearchEnds(q)
  PROVE  GoesOn(c)
<1>1. UNCHANGED <<disk, db, live, pruned, quiet, missed>>
  BY DEF Ask, Answered, Missed, StartSearch, LookupFails, Scan, SearchFile, WalkRepo,
         SearchEnds, cycleVars, history
<1>2. pc'[c] = pc[c]
  <2>1. c # q /\ c \in DOMAIN pc
    BY Apart DEF IInv, Domains
  <2>2. CASE Ask(q)
    BY <2>1, <2>2 DEF Ask, Answered, Missed, StartSearch, LookupFails, Goto
  <2>3. CASE SearchFile(q) \/ SearchEnds(q)
    BY <2>1, <2>3 DEF SearchFile, SearchEnds, Goto
  <2>4. CASE WalkRepo(q)
    BY <2>1, <2>4 DEF WalkRepo, GiveUp, Goto
  <2> QED BY <2>2, <2>3, <2>4 DEF Scan
<1> QED BY <1>1, <1>2, QuietStep

\* A commit writes the cycle's own record, or leaves the repository's entries.
LEMMA CommitGoesOn ==
  ASSUME IInv, EInv, NEW w \in Workers, txn[w] # NoTxn, ~txn[w].overtaken, Commit(w),
         NEW c \in Cycles, quiet'[c], pc'[c] = pc[c], UNCHANGED <<disk, pruned, missed>>,
         c = w => live'[c] = live[c] \cup {PrimaryKey(txn[w].rec)},
         c # w => live'[c] = live[c]
  PROVE  GoesOn(c)
<1> DEFINE rec == txn[w].rec
<1>1. /\ db' = PutSymbol(db, rec, Stored(db, rec))
      /\ db' = db \/ (quiet'[c] = (quiet[c] /\ (RepoFor[c] = rec.repo => c = w)))
      /\ db' = db => quiet' = quiet
  BY CommitPuts
<1>2. db'.idx = WriteIndexes(db, rec)
  BY <1>1 DEF PutSymbol, RefreshUnchanged
<1>3. Goes(c)
  BY <1>1 DEF Goes, There, OnDisk
<1>4. CASE c = w
  <2>1. pc[c] = "crawl" /\ Crawling(c)
    BY <1>3, <1>4 DEF EInv, CycleShape, Exact, Goes
  <2>2. rec \in There(c)
    BY <1>4, <2>1 DEF Crawling, Coming
  <2>3. Writes(c, rec)
    BY <1>2, <1>4, <2>1, <2>2 DEF Writes
  <2> QED BY <1>3, <2>3 DEF GoesOn
<1>5. CASE c # w /\ db' = db
  BY <1>3, <1>5 DEF GoesOn, Leaves, EntriesStay
<1>6. CASE c # w /\ db' # db
  <2>1. rec.repo # RepoFor[c]
    BY <1>1, <1>6
  <2>2. \A k : KeyRepo(k) = RepoFor[c] => k \notin IndexKeys(rec)
    BY <2>1, IndexKeysTellRepo
  <2>3. EntriesStay(RepoFor[c])
    <3> HIDE DEF rec
    <3> QED BY <1>2, <2>2 DEF EntriesStay, WriteIndexes
  <2> QED BY <1>3, <1>6, <2>3 DEF GoesOn, Leaves
<1> QED BY <1>4, <1>5, <1>6

LEMMA PutGoesOn ==
  ASSUME IInv, EInv, HInv, NEW w \in Workers,
         (w \in Cycles /\ CyclePut(w)) \/ (w \in Searches /\ SearchPut(w)),
         NEW c \in Cycles, quiet'[c]
  PROVE  GoesOn(c)
<1>1. /\ txn[w] # NoTxn /\ UNCHANGED <<disk, pruned>>
      /\ (~txn[w].overtaken /\ Commit(w) /\ UNCHANGED missed) \/ PutFails(w)
  BY DEF CyclePut, SearchPut, Commit, PutFails
<1>2. pc'[c] = pc[c]
  <2>1. CASE w \in Cycles /\ CyclePut(w)
    BY <2>1 DEF CyclePut
  <2>2. CASE w \in Searches /\ SearchPut(w)
    BY <2>2, Apart DEF SearchPut, Goto, IInv, Domains
  <2> QED BY <2>1, <2>2
<1>3. CASE CyclePut(w) /\ w \in Cycles /\ ~PutFails(w)
  <2>1. live' = [live EXCEPT ![w] = @ \cup {PrimaryKey(txn[w].rec)}]
    BY <1>3 DEF CyclePut, ProvedKey
  <2>2. /\ c = w => live'[c] = live[c] \cup {PrimaryKey(txn[w].rec)}
        /\ c # w => live'[c] = live[c]
    BY <1>3, <2>1 DEF EInv, DiskShape
  <2> QED BY <1>1, <1>2, <1>3, <2>2, CommitGoesOn
<1>4. CASE SearchPut(w) /\ w \in Searches /\ ~PutFails(w)
  <2>1. live' = live /\ c # w
    BY <1>4, Apart DEF SearchPut, cycleVars
  <2> QED BY <1>1, <1>2, <1>4, <2>1, CommitGoesOn
<1>5. CASE PutFails(w) /\ UNCHANGED live
  <2>1. missed' = missed \/ (w \in Cycles /\ missed' = [missed EXCEPT ![w] = @ \cup {txn[w].rec}])
    BY DEF CyclePut, SearchPut
  <2>2. missed[c] \subseteq missed'[c]
    BY <2>1 DEF EInv, DiskShape
  <2> QED BY <1>1, <1>2, <1>5, <2>2, QuietStep DEF PutFails
<1>6. CASE PutFails(w) /\ ~UNCHANGED live
  <2>1. CyclePut(w) /\ w \in Cycles /\ ~txn[w].overtaken /\ Commit(w) /\ UNCHANGED missed
    BY <1>6 DEF CyclePut, SearchPut, cycleVars
  <2>2. live' = [live EXCEPT ![w] = @ \cup {PrimaryKey(txn[w].rec)}]
    BY <1>6 DEF CyclePut, SearchPut, ProvedKey, cycleVars
  <2>3. /\ c = w => live'[c] = live[c] \cup {PrimaryKey(txn[w].rec)}
        /\ c # w => live'[c] = live[c]
    BY <2>1, <2>2 DEF EInv, DiskShape
  <2> QED BY <1>1, <1>2, <2>1, <2>3, CommitGoesOn
<1> QED BY <1>3, <1>4, <1>5, <1>6

\* An invalidation takes entries of the repository of its cycle.
LEMMA PruneGoesOn ==
  ASSUME IInv, EInv, HInv, NEW d \in Cycles, PruneBatch(d), NEW c \in Cycles, quiet'[c]
  PROVE  GoesOn(c)
<1>1. PICK batch \in SUBSET stale[d] : db' = DeleteRecords(db, batch)
  BY DEF PruneBatch
<1>2. /\ UNCHANGED <<disk, pc, live, missed>>
      /\ pruned' = [pruned EXCEPT ![d] = TRUE]
      /\ quiet'[c] = (quiet[c] /\ (RepoFor[c] = RepoFor[d] => c = d))
  BY DEF PruneBatch, Disturb
<1>3. Goes(c)
  BY <1>2 DEF Goes, There, OnDisk, HInv
<1>4. CASE c = d
  BY <1>2, <1>3, <1>4 DEF GoesOn, Prunes, HInv
<1>5. CASE c # d
  <2>1. \A rec \in batch : rec.repo # RepoFor[c]
    BY <1>2, <1>5 DEF EInv, CycleShape
  <2>2. \A k : KeyRepo(k) = RepoFor[c] => k \notin UNION {IndexKeys(rec) : rec \in batch}
    BY <2>1, IndexKeysTellRepo
  <2>3. EntriesStay(RepoFor[c])
    BY <1>1, <2>2 DEF EntriesStay, DeleteRecords
  <2> QED BY <1>2, <1>3, <2>3 DEF GoesOn, Leaves
<1> QED BY <1>4, <1>5

\* A tree that changes is another's.
LEMMA EditGoesOn ==
  ASSUME IInv, EInv, NEW f \in Files, EditTree(f), NEW c \in Cycles, quiet'[c]
  PROVE  GoesOn(c)
<1>1. /\ \E v \in Versions[f] : disk' = [disk EXCEPT ![f] = v]
      /\ quiet'[c] = (quiet[c] /\ (RepoFor[c] = RepoOf[f] => c = Absent))
      /\ UNCHANGED <<db, pc, live, pruned, missed>>
  BY DEF EditTree, Edit, Disturb, cycleVars
<1>2. quiet[c] /\ RepoFor[c] # RepoOf[f]
  BY <1>1, IndexerAssumption
<1>3. \A g \in {h \in Files : RepoOf[h] = RepoFor[c]} : Declared(g, disk'[g]) = Declared(g, disk[g])
  BY <1>1, <1>2 DEF EInv, DiskShape
<1>4. There(c)' = There(c)
  BY <1>3 DEF There, OnDisk
<1> QED BY <1>1, <1>2, <1>4 DEF GoesOn, Goes, Leaves, EntriesStay

\* The steps of a cycle that do not write.
LEMMA CycleGoesOn ==
  ASSUME IInv, EInv, NEW d \in Cycles, NEW c \in Cycles, quiet'[c],
         \/ ParseFile(d) \/ PutBegin(d) \/ CrawlEnds(d) \/ PruneScan(d)
         \/ PruneFails(d) \/ CycleEnds(d)
  PROVE  GoesOn(c)
<1>1. UNCHANGED <<disk, db, live, pruned, quiet>>
  BY DEF ParseFile, PutBegin, CrawlEnds, PruneScan, PruneFails, CycleEnds, cycleVars, history
<1>2. missed[c] \subseteq missed'[c]
  <2>1. \/ UNCHANGED missed
        \/ \E recs : missed' = [missed EXCEPT ![d] = @ \cup recs]
    BY DEF ParseFile, PutBegin, CrawlEnds, PruneScan, PruneFails, CycleEnds, history
  <2> QED BY <2>1 DEF EInv, DiskShape
<1>3. pc'[c] \in {"delete", "indexed"} => pc[c] \in {"prune", "delete", "indexed"}
  <2>1. c \in DOMAIN pc
    BY DEF IInv, Domains, Workers
  <2>2. CASE CrawlEnds(d)
    BY <2>1, <2>2 DEF CrawlEnds, Goto
  <2>3. CASE PruneScan(d) \/ PruneFails(d) \/ CycleEnds(d)
    BY <2>1, <2>3 DEF PruneScan, PruneFails, CycleEnds, Goto
  <2>4. CASE ParseFile(d) \/ PutBegin(d)
    BY <2>4 DEF ParseFile, PutBegin
  <2> QED BY <2>2, <2>3, <2>4
<1> QED BY <1>1, <1>2, <1>3, QuietStep

LEMMA StartGoesOn ==
  ASSUME IInv, EInv, NEW d \in Cycles, StartCycle(d), NEW c \in Cycles, quiet'[c]
  PROVE  GoesOn(c) \/ Begins(c)
<1>1. UNCHANGED <<disk, db, live, pruned>> /\ c \in DOMAIN pc /\ c \in DOMAIN quiet
  BY DEF StartCycle, cycleVars, IInv, Domains, Workers, EInv, DiskShape
<1>2. CASE c = d
  <2>1. pc[c] = "idle" /\ live[c] = {} /\ ~quiet[c]
    BY <1>2 DEF StartCycle, EInv, CycleShape
  <2> QED BY <1>1, <1>2, <2>1 DEF StartCycle, Goto, Begins
<1>3. CASE c # d
  <2>1. pc'[c] = pc[c] /\ quiet'[c] = quiet[c] /\ missed'[c] = missed[c]
    BY <1>1, <1>3 DEF StartCycle, Goto, EInv, DiskShape
  <2> QED BY <1>1, <2>1, QuietStep
<1> QED BY <1>2, <1>3

LEMMA EveryStepGoesOn ==
  ASSUME IInv, EInv, HInv, QueryNext, NEW c \in Cycles, quiet'[c]
  PROVE  GoesOn(c) \/ Begins(c)
<1>1. ASSUME NEW q \in Searches, Ask(q) \/ Scan(q) \/ SearchEnds(q)
      PROVE  GoesOn(c)
  BY <1>1, QueryGoesOn
<1>2. ASSUME NEW q \in Searches, PutBegin(q)
      PROVE  GoesOn(c)
  <2>1. UNCHANGED <<disk, db, live, pruned, quiet, pc, missed>>
    BY <1>2 DEF PutBegin, cycleVars, history
  <2> QED BY <2>1, QuietStep
<1>3. ASSUME NEW q \in Searches, SearchPut(q)
      PROVE  GoesOn(c)
  <2>1. q \in Workers
    BY DEF Workers
  <2> QED BY <1>3, <2>1, PutGoesOn
<1>4. ASSUME NEW d \in Cycles, CyclePut(d)
      PROVE  GoesOn(c)
  <2>1. d \in Workers
    BY DEF Workers
  <2> QED BY <1>4, <2>1, PutGoesOn
<1>5. ASSUME NEW d \in Cycles,
             \/ ParseFile(d) \/ PutBegin(d) \/ CrawlEnds(d) \/ PruneScan(d)
             \/ PruneFails(d) \/ CycleEnds(d)
      PROVE  GoesOn(c)
  BY <1>5, CycleGoesOn
<1>6. ASSUME NEW w \in Workers, EndContext(w)
      PROVE  GoesOn(c)
  <2>1. UNCHANGED <<disk, db, live, pruned, quiet, pc, missed>>
    BY <1>6 DEF EndContext, cycleVars, history
  <2> QED BY <2>1, QuietStep
<1> QED BY <1>1, <1>2, <1>3, <1>4, <1>5, <1>6, StartGoesOn, PruneGoesOn, EditGoesOn
        DEF QueryNext

LEMMA PrunedShape ==
  ASSUME DOMAIN pruned = Cycles, QueryNext
  PROVE  DOMAIN pruned' = Cycles
<1>1. UNCHANGED pruned \/ \E d \in Cycles : pruned' = [pruned EXCEPT ![d] = TRUE]
  BY DEF QueryNext, Ask, Answered, Missed, StartSearch, LookupFails, Scan, SearchFile,
         WalkRepo, SearchEnds, SearchPut, PutBegin, CyclePut, Commit, PutFails, StartCycle,
         ParseFile, CrawlEnds, PruneScan, PruneBatch, PruneFails, CycleEnds, EndContext, EditTree, Edit,
         cycleVars, history
<1> QED BY <1>1

LEMMA InitHeals == QueryInit => HInv
  BY DEF QueryInit, Init, HInv, Healing, AllLive

LEMMA NextHeals ==
  ASSUME NodesNamed
  PROVE  IInv /\ EInv /\ HInv /\ [QueryNext]_<<vars, queryVars>> => HInv'
<1> SUFFICES ASSUME IInv, EInv, HInv, [QueryNext]_<<vars, queryVars>>
             PROVE  HInv'
  OBVIOUS
<1>1. CASE QueryNext
  <2>1. EInv'
    BY <1>1, NextExact
  <2>2. ASSUME NEW c \in Cycles
        PROVE  Healing(c)' /\ AllLive(c)'
    BY <1>1, <2>1, EveryStepGoesOn, GoesOnHeals DEF HInv
  <2> QED BY <1>1, <2>2, PrunedShape DEF HInv
<1>2. CASE UNCHANGED <<vars, queryVars>>
  BY <1>2 DEF HInv, Healing, AllLive, There, OnDisk, Reachable, vars, cycleVars, history
<1> QED BY <1>1, <1>2

\* After a cycle that had nothing to invalidate and that nobody disturbed,
\* every declaration of the working tree that it could read and write is found
\* under its name and under each alias, with and without its kind, whatever
\* earlier invalidations took from the index (store.go:135-232). The hypothesis is about what parsers
\* make of one node of a syntax tree.
THEOREM CyclesHeal ==
  ASSUME NodesNamed
  PROVE  QuerySpec => []RepeatHeals
<1>1. QueryInit => IInv /\ EInv /\ HInv
  BY InitIInv, InitExact, InitHeals
<1>2. (IInv /\ EInv /\ HInv) /\ [QueryNext]_<<vars, queryVars>> => (IInv /\ EInv /\ HInv)'
  BY NextIInv, NextExact, NextHeals
<1>3. EInv /\ HInv => RepeatHeals
  <2> SUFFICES ASSUME EInv, HInv, NEW c \in Cycles, Undisturbed(c), ~pruned[c],
                      NEW rec \in OnDisk(RepoFor[c]) \ missed[c],
                      NEW n \in {rec.name} \cup rec.aliases
               PROVE  rec \in FoundByName(db, n) \cap Found(db, {n}, {rec.kind})
    BY DEF RepeatHeals
  <2>1. quiet[c] /\ pc[c] = "indexed" /\ rec \in There(c) \ missed[c]
    BY DEF Undisturbed, There
  <2>2. rec \in db.recs /\ PrimaryKey(rec) \in live[c]
    BY <2>1 DEF EInv, Exact, Here, HInv, AllLive
  <2>3. Reachable(rec)
    BY <2>1, <2>2 DEF HInv, Healing
  <2>4. NameKey(n, rec) \in Candidates(db, {n}, {})
    BY <2>3 DEF Reachable, Candidates, NameKey
  <2>5. TypeKey(n, rec) \in Candidates(db, {n}, {rec.kind})
    BY <2>3 DEF Reachable, Candidates, TypeKey
  <2> QED BY <2>2, <2>3, <2>4, <2>5 DEF Reachable, Found, FoundByName
<1> QED BY <1>1, <1>2, <1>3, PTL DEF QuerySpec

=============================================================================
