------------------------------- MODULE MCBundles -------------------------------
(***************************************************************************)
(* A small instance of BundleTransfer: two sites, of which "here" has a    *)
(* dashboard of two charts and "there" may have nothing, rows that were    *)
(* made there under the same names, or a part of an earlier copy.          *)
(***************************************************************************)
EXTENDS BundleTransfer

CONSTANTS base, base2, data, data2, line, pie, board, board2  \* uuids

Link(site, d, c) == [site EXCEPT !.links = @ \cup {<<d, c>>}]
Site(known) == [rows |-> known, links |-> {}, next |-> Cardinality(DOMAIN known) + 1]
Slot(uuid, id) == [uuid |-> uuid, id |-> id]
DatasetRow(uuid, column, database) ==
  [BundleRow("Dataset", uuid, "n", "n", database) EXCEPT !.columns = {column}]
ChartRow(uuid, dataset) == BundleRow("Chart", uuid, Nameless, "n", dataset)

\* The charts 3 and 4 of the dashboard 5.
Here ==
  Link(Link(Site(
    1 :> BundleRow("Database", base, "n", "n", 0) @@ 2 :> DatasetRow(data, "x", 1)
    @@ 3 :> ChartRow(line, 2) @@ 4 :> ChartRow(pie, 2)
    @@ 5 :> [BundleRow("Dashboard", board, "s", "n", 0) EXCEPT
               !.slots = {Slot(line, 3), Slot(pie, 4)}, !.kept = {3}, !.scoped = {4}]),
    5, 3), 5, 4)

EmptySite == Site([i \in {} |-> 0])

\* A database and a dataset of the same names, and another dashboard of that title.
Others == Site(
  1 :> BundleRow("Database", base2, "n", "n", 0) @@ 2 :> DatasetRow(data2, "y", 1)
  @@ 3 :> BundleRow("Dashboard", board2, "s", "n", 0))

\* One chart and the dashboard came earlier; another dashboard shows the chart too.
Copy ==
  Link(Link(Site(
    1 :> BundleRow("Database", base2, "m", "m", 0) @@ 2 :> DatasetRow(data2, "x", 1)
    @@ 3 :> BundleRow("Database", base, "n", "n", 0) @@ 4 :> DatasetRow(data, "y", 3)
    @@ 5 :> ChartRow(pie, 4)
    @@ 6 :> [BundleRow("Dashboard", board, "s", "n", 0) EXCEPT !.slots = {Slot(pie, 5)}]
    @@ 7 :> [BundleRow("Dashboard", board2, Nameless, "n", 0) EXCEPT !.slots = {Slot(pie, 5)}]),
    6, 5), 7, 5)

MCSites ==
  {[s \in Sites |-> IF s = "here" THEN Here ELSE there] : there \in {EmptySite, Others, Copy}}
===============================================================================
