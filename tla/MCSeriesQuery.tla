----------------------------- MODULE MCSeriesQuery -----------------------------
(* Small instances of SeriesQuery for TLC: two groups and null, two times. *)
EXTENDS SeriesQuery, TLC

CONSTANTS g1, g2

\* Tables in which either group may be first, or second to null, by sum or by peak.
Cells(first, second, null) ==
  [g \in Groups \cup {Null} |-> IF g = g1 THEN first ELSE IF g = g2 THEN second ELSE null]
FirstTable == Cells(<<2, 1>>, <<2, 0>>, <<0, 0>>)
MCTables ==
  {FirstTable} \cup
  {Cells(first, second, null) :
     first \in {<<2, 1>>, <<0, 1>>}, second \in {<<0, 2>>, <<1, 1>>}, null \in {<<0, 0>>, <<1, 2>>}}

Is(op, val) == [op |-> op, val |-> val]
Asked(inline, limits, filters) ==
  [allows_joins : BOOLEAN, time_groupby_inline : inline, filter : filters,
   row_level : {{}, {{Is("IN", {g1}), Is("IS NULL", {})}}},
   range : {{2}, {1, 2}}, inner_range : {{}, {1}},
   timeseries_limit : limits, limit_metric : BOOLEAN, order_desc : BOOLEAN, having : {0, 1}]
MCSeriesRequests ==
  Asked({FALSE}, {1, 2},
        {{}, {Is("NOT IN", {g2})}, {Is("IN", {g1, Null})}, {Is("IS NOT NULL", {})}})
  \cup Asked(BOOLEAN, {0, 1}, {{}})
FirstSeriesRequest ==
  [allows_joins |-> TRUE, time_groupby_inline |-> FALSE, filter |-> {}, row_level |-> {},
   range |-> {2}, inner_range |-> {}, timeseries_limit |-> 1, limit_metric |-> FALSE,
   order_desc |-> TRUE, having |-> 0]
===============================================================================
