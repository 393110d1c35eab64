----------------------------- MODULE SeriesQuery ------------------------------
(***************************************************************************)
(* The query of a chart with a limit on its time series                    *)
(* (SqlaTable.get_sqla_query in superset/connectors/sqla/models.py).       *)
(*                                                                         *)
(* Which series are the top ones is decided by a subquery that the query   *)
(* joins, or, on databases without joins, by a query that is sent before   *)
(* it (the prequery), whose groups become a condition; the table may       *)
(* change between the two, and the prequery may fail.  On databases where  *)
(* the grain of the time is part of the statement (time_groupby_inline:    *)
(* ClickHouse, Elasticsearch) neither is used, and no limit applies.       *)
(*                                                                         *)
(* A table is taken as the sum of the main metric for each group and time, *)
(* 0 where there are no rows; filters are on the column of the group.      *)
(* Without: several columns, the row limit and an explicit order, Jinja,   *)
(* and the names and labels of columns.                                    *)
(***************************************************************************)
EXTENDS Integers, FiniteSets, FiniteSetsExt

CONSTANTS
  Groups,        \* values of the column that is grouped by, not null
  Null,          \* the value of rows without one
  Times,         \* values of the time column, in the grain of the chart
  FirstTables,   \* what the table may hold when the chart is asked for
  SeriesRequests,
  MaxInserts     \* bound on the rows that others insert meanwhile

ASSUME SeriesAssumption ==
  /\ IsFiniteSet(Groups) /\ IsFiniteSet(Times)
  /\ FirstTables \subseteq [Groups \cup {Null} -> [Times -> Nat]]
  /\ \A q \in SeriesRequests :
       /\ {q.allows_joins, q.time_groupby_inline} \subseteq BOOLEAN
       /\ {q.limit_metric, q.order_desc} \subseteq BOOLEAN
       /\ q.range \subseteq Times /\ q.inner_range \subseteq Times
       /\ q.timeseries_limit \in Nat /\ q.having \in Nat

VARIABLES
  query_obj,   \* the query object, and what the engine allows
  table,       \* table[g][t]
  atRanking,   \* the table when the top groups were determined
  top_groups,
  points,      \* the answer: pairs of a group and a time
  phase,       \* asked, prequeried or answered
  inserts      \* number of rows inserted

seriesVars == <<query_obj, table, atRanking, top_groups, points, phase, inserts>>

\* A filter with the null value in its list is an IS NULL or an IN; comparisons with
\* null are not true, and neither are their negations.
Keeps(f, g) ==
  \/ f.op = "IN" /\ g \in f.val
  \/ f.op = "NOT IN" /\ g \notin f.val \cup {Null}
  \/ f.op = "IS NULL" /\ g = Null
  \/ f.op = "IS NOT NULL" /\ g # Null

\* Row level filters come in groups, of which one must hold.
row_level_filters(g) == \A clauses \in query_obj.row_level : \E f \in clauses : Keeps(f, g)

where_clause_and(g) == (\A f \in query_obj.filter : Keeps(f, g)) /\ row_level_filters(g)

InnerRange == IF query_obj.inner_range = {} THEN query_obj.range ELSE query_obj.inner_range

Total(tbl, g, range) == MapThenSumSet(LAMBDA t : tbl[g][t], range)
Peak(tbl, g, range) == Max({tbl[g][t] : t \in range})

\* _get_timeseries_orderby: by the main metric, or by a metric given for the limit.
OrderedBy(tbl, g, range) ==
  IF query_obj.limit_metric THEN Peak(tbl, g, range) ELSE Total(tbl, g, range)

\* Mutant: the subquery has the condition on the time only.
GroupsFound_anywhere(tbl, range) ==
  {g \in Groups \cup {Null} : \E t \in range : tbl[g][t] > 0}

\* The groups of the rows that the filters keep.
GroupsFound(tbl, range) ==
  {g \in Groups \cup {Null} : where_clause_and(g) /\ \E t \in range : tbl[g][t] > 0}

\* The first `timeseries_limit` of some groups, where the pairs in `before` are ordered
\* and ties are left open.
FirstOf(groups, before) ==
  {top \in SUBSET groups :
     /\ ((groups \ top) \X top) \cap before = {}
     /\ \/ Cardinality(top) = query_obj.timeseries_limit
        \/ top = groups /\ Cardinality(top) <= query_obj.timeseries_limit}

Descending ==
  {p \in (Groups \cup {Null}) \X (Groups \cup {Null}) :
     OrderedBy(table, p[1], InnerRange) > OrderedBy(table, p[2], InnerRange)}
Ascending == {<<p[2], p[1]>> : p \in Descending}

\* What the query groups by time and group, of the rows that the filters keep and whose
\* group is among `joined`; HAVING drops some.
PointsOf(joined) ==
  LET kept == {g \in joined : where_clause_and(g)}
  IN  {p \in kept \X query_obj.range : table[p[1]][p[2]] > query_obj.having}

-------------------------------------------------------------------------------
\* Whether the series are limited; 0 is no limit.
Limited == query_obj.timeseries_limit > 0 /\ ~query_obj.time_groupby_inline

QueryUnlimited ==
  /\ phase = "asked" /\ phase' = "answered"
  /\ ~Limited
  /\ points' = PointsOf(Groups \cup {Null})
  /\ UNCHANGED <<query_obj, table, atRanking, top_groups, inserts>>

\* One statement: a null group is among the top ones and joins with nothing.
QueryWithSubquery ==
  /\ phase = "asked" /\ phase' = "answered"
  /\ Limited /\ query_obj.allows_joins
  /\ top_groups' \in FirstOf(GroupsFound(table, InnerRange),
                             IF query_obj.order_desc THEN Descending ELSE Ascending)
  /\ points' = PointsOf(top_groups' \ {Null})
  /\ atRanking' = table
  /\ UNCHANGED <<query_obj, table, inserts>>

\* The prequery: HAVING applies to it, and without a metric for the limit it has no
\* order; with one its order is descending, whatever was asked.
Prequery ==
  /\ phase = "asked" /\ phase' = "prequeried"
  /\ Limited /\ ~query_obj.allows_joins
  /\ top_groups' \in FirstOf({g \in GroupsFound(table, InnerRange) :
                                Total(table, g, InnerRange) > query_obj.having},
                             IF query_obj.limit_metric THEN Descending ELSE {})
  /\ atRanking' = table
  /\ UNCHANGED <<query_obj, table, points, inserts>>

\* A failure is logged, and no one looks at the status of the result.
PrequeryFails ==
  /\ phase = "asked" /\ phase' = "prequeried"
  /\ Limited /\ ~query_obj.allows_joins
  /\ top_groups' = {}
  /\ atRanking' = table
  /\ UNCHANGED <<query_obj, table, points, inserts>>

\* The disjunction of no groups is no condition.
QueryAfterPrequery ==
  /\ phase = "prequeried" /\ phase' = "answered"
  /\ points' = PointsOf(IF top_groups = {} THEN Groups \cup {Null} ELSE top_groups)
  /\ UNCHANGED <<query_obj, table, atRanking, top_groups, inserts>>

InsertRow(g, t) ==
  /\ phase = "prequeried"
  /\ inserts < MaxInserts
  /\ inserts' = inserts + 1
  /\ table' = [table EXCEPT ![g][t] = @ + 1]
  /\ UNCHANGED <<query_obj, atRanking, top_groups, points, phase>>

SeriesInit ==
  /\ query_obj \in SeriesRequests
  /\ table \in FirstTables
  /\ atRanking = table
  /\ top_groups = {} /\ points = {} /\ phase = "asked" /\ inserts = 0

SeriesNext ==
  \/ QueryUnlimited
  \/ QueryWithSubquery
  \/ Prequery
  \/ PrequeryFails
  \/ QueryAfterPrequery
  \/ \E g \in Groups \cup {Null}, t \in Times : InsertRow(g, t)

SeriesSpec == SeriesInit /\ [][SeriesNext]_seriesVars

-------------------------------------------------------------------------------
(* Properties *)

SeriesTypeOK ==
  /\ table \in [Groups \cup {Null} -> [Times -> Nat]]
  /\ top_groups \subseteq Groups \cup {Null}
  /\ points \subseteq (Groups \cup {Null}) \X Times
  /\ phase \in {"asked", "prequeried", "answered"}

Shown == {p[1] : p \in points}

\* The series that the user may see, and of which one comes before another.
Competing == {g \in Groups \cup {Null} :
                where_clause_and(g) /\ Total(atRanking, g, InnerRange) > 0}
Beats(h, g) ==
  LET measure(x) == OrderedBy(atRanking, x, InnerRange)
  IN  IF query_obj.allows_joins /\ ~query_obj.order_desc THEN measure(h) < measure(g)
      ELSE measure(h) > measure(g)
Ordered == query_obj.allows_joins \/ query_obj.limit_metric

\* superset-frontend/src/explore/controls.jsx:375: "Limits the number of time series that
\* get displayed. A sub query (or an extra phase where sub queries are not supported) is
\* applied".  Of the series that pass the filters of the chart and of the user, those with
\* the highest measure are shown, no more than the limit, and none is left out while fewer
\* than the limit come before it: series that are filtered out take no place.  Without a
\* limit all of them are shown.  Exceptions: engines with time_groupby_inline, of which
\* the limit is not asked; the extra phase gave no groups; HAVING, which the subquery does
\* not apply and the extra phase does; null takes a place in the subquery and is not shown.
LimitedToTheTop ==
  /\ Cardinality(Shown) <= query_obj.timeseries_limit
  /\ Ordered /\ (query_obj.having = 0 \/ query_obj.allows_joins) =>
       \A g \in Shown : Cardinality({h \in Competing : Beats(h, g)}) < query_obj.timeseries_limit

IsMissing(h) ==
  /\ h \notin Shown
  /\ query_obj.having = 0
  /\ \E t \in query_obj.range : table[h][t] > 0

Outnumbered(h) ==
  \/ h = Null /\ query_obj.allows_joins
  \/ Cardinality({g \in Competing \ {h} : Ordered => ~Beats(h, g)}) >= query_obj.timeseries_limit

ShowsTheTopSeries ==
  phase = "answered" =>
    /\ \A g \in Shown, t \in query_obj.range : table[g][t] > query_obj.having => <<g, t>> \in points
    /\ ~Limited => \A h \in Groups \cup {Null} : where_clause_and(h) => ~IsMissing(h)
    /\ Limited /\ (query_obj.allows_joins \/ top_groups # {}) =>
         /\ LimitedToTheTop
         /\ Shown \subseteq Competing
         /\ \A h \in Competing : IsMissing(h) => Outnumbered(h)
===============================================================================
