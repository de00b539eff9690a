--------------------------- MODULE MCPlannerLoop ---------------------------
(* TLC instance of PlannerLoop: one free and one filtered table, a code on *)
(* the free one and a code on both.                                        *)
EXTENDS PlannerLoop

CONSTANTS k, f

MCKeys == {k, f}
MCFiltered == {f}
MCCode == {{k}, {k, f}}
=============================================================================
