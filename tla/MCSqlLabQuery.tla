---------------------------- MODULE MCSqlLabQuery ----------------------------
(* Small instances of SqlLabQuery for TLC, with SQL_MAX_ROW = 2: one       *)
(* statement with limits and tables on both sides of it, and up to two     *)
(* with each kind of engine and of cancelling.                             *)
EXTENDS SqlLabQuery

Modes == {"sync", "async"}
Methods == {"force_limit", "wrap_sql", "fetch_many"}
Cancellations == {"nothing", "connection", "statements"}

Request(modes, methods, ends, counts, limits, sizes) ==
    [mode : modes, method : methods, cancels : ends, statements : counts,
     queryLimit : limits, sqlLimit : {None, 1}, size : sizes]

AllRequests ==
    Request(Modes, Methods, {"connection"}, {1}, {-1, 0, 1, 2, 3}, {2, 4})
    \cup Request(Modes, Methods, {"connection"}, {2}, {1}, {2})
    \cup Request(Modes, {"force_limit"}, {"nothing", "statements"}, {1, 2}, {1}, {2})

AsyncRequests ==
    Request({"async"}, {"force_limit"}, Cancellations, {1, 2}, {1, 2, 3}, {2, 4})
=============================================================================
