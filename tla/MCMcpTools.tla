----------------------------- MODULE MCMcpTools -----------------------------
(* A small instance of McpTools: integers of four bits, and the numbers    *)
(* around every boundary among the arguments.                              *)
EXTENDS McpTools, MCCrossReference

AllInts == MinInt..MaxInt
=============================================================================
