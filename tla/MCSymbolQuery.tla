--------------------------- MODULE MCSymbolQuery ---------------------------
(* A small instance of SymbolQuery.                                         *)
EXTENDS SymbolQuery, MCRepoIndexer

\* A prefix query, to which TU answers as well in the cache.
MCNamesOf == [q \in Searches |-> {T, TU}]

=============================================================================
