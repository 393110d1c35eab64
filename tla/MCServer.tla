------------------------------- MODULE MCServer -------------------------------
(***************************************************************************)
(* Small instances, for TLC, of the parts of the server of which nothing   *)
(* is said but what they may never do: the commands on the metadata        *)
(* database, the transfer of bundles, the tags, the cache of chart data,   *)
(* the limit of time series, the windows of the report scheduler and the   *)
(* registries of the WebSocket server.  They share no state, so that each  *)
(* is explored by itself: `part` says which one runs, and the others rest  *)
(* in a first state.                                                       *)
(***************************************************************************)
EXTENDS MetadataCommands, MCBundles, ImplicitTags, ChartDataCache, MCSeriesQuery,
        ReportCron, SocketRegistry, TLC

CONSTANTS u1, u2, db1, t1, ch1, d1, rep1, \* users and rows of each kind
          ann, bob                        \* readers of a dataset

VARIABLE part

\* Tables to start from, in each of which an id or two are still free: a chart on
\* a dashboard; a dataset of a database; a database without one; and nothing.
Table(known) == known @@ [o \in Objects |-> Gone]
Database1 == db1 :> Row({}, u1, {}, "n1")
Dashboard1(named) == d1 :> Row(named, u1, {}, NoName)
Dataset1 == t1 :> Row({u1}, u1, {db1}, "n1")

MCRows ==
  {Table(Dashboard1({u1, u2}) @@ ch1 :> Row({u1}, u1, {d1}, "n1") @@ rep1 :> Free),
   Table(Database1 @@ Dataset1 @@ ch1 :> Free),
   Table(Database1 @@ Dashboard1({u1}) @@ t1 :> Free @@ rep1 :> Free),
   Table(db1 :> Free @@ t1 :> Free)}
NoRows == Table(db1 :> Free @@ t1 :> Free)

MCOwnerLists == {{u2}}

\* One reader has a row level filter.
MCFilters == [u \in Readers |-> IF u = ann THEN {"f"} ELSE {}]

\* Users may give an object the tag of an owner.
MCPosted == {<<"owner", bob>>, <<"custom", "x">>}

\* One minute of the crontab is eight units and the margin two; the delays lie
\* below the margin, above it, or around it.
MCDelayRanges == {<<0, 1>>, <<3, 9>>, <<0, 3>>}

ServerInit ==
  /\ part \in {"metadata", "cache", "cron", "bundles", "tags", "sockets", "series"}
  /\ MetaInit /\ (part # "metadata" => rows = NoRows /\ enforced)
  /\ CacheInit
  /\ CronInit /\ (part # "cron" => cron = {} /\ delays = <<0, 1>>)
  /\ TransferInit /\ (part # "bundles" => sites["there"] = EmptySite)
  /\ TagsInit /\ (part # "tags" => objects = {})
  /\ RegistryInit
  /\ SeriesInit /\ (part # "series" => query_obj = FirstSeriesRequest /\ table = FirstTable)

MetadataStep == /\ part = "metadata" /\ MetaNext
                /\ UNCHANGED <<part, cacheVars, cronVars, transferVars, tagVars, registryVars, seriesVars>>
CacheStep == /\ part = "cache" /\ CacheNext
             /\ UNCHANGED <<part, metaVars, cronVars, transferVars, tagVars, registryVars, seriesVars>>
CronStep == /\ part = "cron" /\ CronNext
            /\ UNCHANGED <<part, metaVars, cacheVars, transferVars, tagVars, registryVars, seriesVars>>
TransferStep == /\ part = "bundles" /\ TransferNext
                /\ UNCHANGED <<part, metaVars, cacheVars, cronVars, tagVars, registryVars, seriesVars>>
TagsStep == /\ part = "tags" /\ TagsNext
            /\ UNCHANGED <<part, metaVars, cacheVars, cronVars, transferVars, registryVars, seriesVars>>
RegistryStep == /\ part = "sockets" /\ RegistryNext
                /\ UNCHANGED <<part, metaVars, cacheVars, cronVars, transferVars, tagVars, seriesVars>>
SeriesStep == /\ part = "series" /\ SeriesNext
              /\ UNCHANGED <<part, metaVars, cacheVars, cronVars, transferVars, tagVars, registryVars>>

ServerNext ==
  MetadataStep \/ CacheStep \/ CronStep \/ TransferStep \/ TagsStep \/ RegistryStep \/ SeriesStep

ServerSpec ==
  ServerInit
    /\ [][ServerNext]_<<part, metaVars, cacheVars, cronVars, transferVars, tagVars,
                        registryVars, seriesVars>>

\* The part that runs keeps its types; the others do not change.
ServerTypeOK ==
  /\ part = "metadata" => MetaTypeOK
  /\ part = "cache" => DatasetCacheTypeOK
  /\ part = "cron" => CronTypeOK
  /\ part = "bundles" => TransferTypeOK
  /\ part = "tags" => TagsTypeOK
  /\ part = "sockets" => RegistryTypeOK
  /\ part = "series" => SeriesTypeOK
===============================================================================
