--------------------------- MODULE MCRepoIndexer ---------------------------
(* Small instances of RepoIndexer.                                         *)
EXTENDS RepoIndexer, TLC

CONSTANTS ra, rb, fa, fb, p1, c1, c2, q1, T, TM, TU, struct, interface

Symbol(kind, name, aliases, offset, text) ==
    [kind |-> kind, name |-> name, aliases |-> aliases, offset |-> offset, text |-> text]

\* A type, known under a second name, that turns into an interface at the same
\* place.
StructT    == Symbol(struct, T, {TM}, 0, 1)
InterfaceT == Symbol(interface, T, {}, 0, 1)
\* Another declaration of the same file, whose name extends the first.
StructTU == Symbol(struct, TU, {}, 9, 1)

\* Two repositories with a file of the same name.
MCRepoOf == fa :> ra @@ fb :> rb
MCNameOf == fa :> p1 @@ fb :> p1
MCVersions == fa :> {{StructT, StructTU}, {InterfaceT}, Absent} @@ fb :> {{StructT}, {StructTU}}

ASSUME MCNodesNamed == NodesNamed

BothForA == [c \in Cycles |-> ra]
MCTargetOf == [q \in Searches |-> T]
MCKindsOf == [q \in Searches |-> {struct}]

\* The cycles index the same repository.
Symmetry == Permutations(Cycles)

=============================================================================
