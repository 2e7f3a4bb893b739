----------------------------- MODULE MCPipeline -----------------------------
(***************************************************************************)
(* ExportPipeline for TLC: more records, and measurements, in k6's order   *)
(* of calls, which has fewer interleavings.                                *)
(***************************************************************************)
EXTENDS ExportPipeline

MCMaxRecords == [k6 |-> 2, any |-> 1]
MCMaxPoints == [k6 |-> 1, any |-> 0]

=============================================================================
