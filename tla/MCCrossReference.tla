-------------------------- MODULE MCCrossReference --------------------------
(* A small instance of CrossReference: two repositories with a file of the *)
(* same name, and a file of one of them only.                              *)
EXTENDS CrossReference

MCFiles == {[repo |-> "ra", file |-> "f"], [repo |-> "rb", file |-> "f"],
            [repo |-> "ra", file |-> "g"]}
=============================================================================
