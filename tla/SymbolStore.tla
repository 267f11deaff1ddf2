---------------------------- MODULE SymbolStore ----------------------------
(***************************************************************************)
(* The symbol cache (internal/ast/store/store.go): the key layout, and     *)
(* what one transaction of PutSymbol or PruneRepo does to the database, as *)
(* operators on a database value                                           *)
(*    [recs |-> the primary records, idx |-> index key |-> primary key].   *)
(*                                                                         *)
(* A key is a tuple, which is what esc and the zero-padded offset make of  *)
(* the string: components cannot run into each other.                      *)
(***************************************************************************)
EXTENDS FiniteSets, Naturals

EmptyDb == [recs |-> {}, idx |-> <<>>]

PrimaryKey(rec) == <<"sym", rec.repo, rec.file, rec.kind, rec.name, rec.offset>>

\* Fault: the repository is left out of the key.
NameKeyAcrossRepos(name, rec) == <<"name", name, rec.file, rec.offset>>

NameKey(name, rec) == <<"name", name, rec.repo, rec.file, rec.offset>>

TypeKey(name, rec) == <<"type", rec.kind, name, rec.repo, rec.file, rec.offset>>

FileKey(rec) == <<"file", rec.repo, rec.file, rec.offset>>

\* indexKeys: every secondary key of a record, its aliases' included.
IndexKeys(rec) ==
    LET names == {rec.name} \cup rec.aliases
    IN  {NameKey(n, rec) : n \in names} \cup {TypeKey(n, rec) : n \in names}
            \cup {FileKey(rec)}

\* writeIndexes
WriteIndexes(db, rec) ==
    [k \in DOMAIN db.idx \cup IndexKeys(rec) |->
        IF k \in IndexKeys(rec) THEN PrimaryKey(rec) ELSE db.idx[k]]

\* txn.Get(primary): the record stored under the key of rec, if any.
Stored(db, rec) == {r \in db.recs : PrimaryKey(r) = PrimaryKey(rec)}

\* Fault: a record that has not changed needs no writing at all.
SkipUnchanged(db, rec) == db

\* No structural delta: the indexes are refreshed, the record is not written.
RefreshUnchanged(db, rec) == [recs |-> db.recs, idx |-> WriteIndexes(db, rec)]

\* The writes of PutSymbol, given what its transaction read under the key.
PutSymbol(db, rec, read) ==
    IF read = {rec}
    THEN RefreshUnchanged(db, rec)
    ELSE [recs |-> (db.recs \ Stored(db, rec)) \cup {rec},
          idx  |-> WriteIndexes(db, rec)]

\* Fault: only what an earlier version of a file in the crawl left behind.
StaleInCrawl(db, repo, keep) ==
    {rec \in db.recs : /\ rec.repo = repo
                       /\ PrimaryKey(rec) \notin keep
                       /\ \E k \in keep : k[3] = rec.file}

\* The scan of PruneRepo: the records of repo whose keys are not kept.
Stale(db, repo, keep) ==
    {rec \in db.recs : rec.repo = repo /\ PrimaryKey(rec) \notin keep}

\* One batch of PruneRepo. It deletes by key, from the records as scanned.
DeleteRecords(db, batch) ==
    LET keys    == {PrimaryKey(rec) : rec \in batch}
        idxKeys == UNION {IndexKeys(rec) : rec \in batch}
    IN  [recs |-> {rec \in db.recs : PrimaryKey(rec) \notin keys},
         idx  |-> [k \in DOMAIN db.idx \ idxKeys |-> db.idx[k]]]

-----------------------------------------------------------------------------
(* Lookup.                                                                 *)

\* The entries it scans: those of the names asked for, in the type index if
\* kinds are given and in the name index otherwise.
Candidates(db, names, kinds) ==
    {k \in DOMAIN db.idx :
        IF kinds = {} THEN k[1] = "name" /\ k[2] \in names
                      ELSE k[1] = "type" /\ k[2] \in kinds /\ k[3] \in names}

\* The records they lead to; an entry whose record is gone is passed over.
Found(db, names, kinds) ==
    {rec \in db.recs : \E k \in Candidates(db, names, kinds) : db.idx[k] = PrimaryKey(rec)}

FoundByName(db, name) == Found(db, {name}, {})

\* sortRecords: how well a record answers a query for name.
Rank(rec, name) ==
    IF rec.name = name THEN 0 ELSE IF name \in rec.aliases THEN 1 ELSE 2

\* What the limit may leave of the sorted records. The order among records of
\* one rank, by name, repository, file and offset, is left open.
Best(recs, name, limit) ==
    {best \in SUBSET recs :
        /\ Cardinality(best) = IF Cardinality(recs) < limit THEN Cardinality(recs) ELSE limit
        /\ \A rec \in best, other \in recs \ best : Rank(rec, name) <= Rank(other, name)}

=============================================================================
