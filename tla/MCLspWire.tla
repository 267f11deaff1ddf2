----------------------------- MODULE MCLspWire -----------------------------
(* Small instances of LspWire.                                             *)
EXTENDS LspWire, TLC

CONSTANTS r1, r2, r3, p1, p2

\* Two goroutines ask about one document, the third about another.
TwoDocuments == [r \in Requesters |-> IF r = r3 THEN p2 ELSE p1]

\* Goroutines that ask about the same document are interchangeable.
Symmetry == Permutations(Requesters \ {r3})

=============================================================================
