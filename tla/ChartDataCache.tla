---------------------------- MODULE ChartDataCache ----------------------------
(***************************************************************************)
(* How the data of a chart is computed, cached and served (query_context.py*)
(* and viz.py, the chart data command and the tasks that fill the cache).  *)
(*                                                                         *)
(* The data cache maps a key made of the query, the ids of the row level   *)
(* filters that apply to the user and the dataset's changed_on to a result.*)
(* A request reads the dataset, looks its key up, and on a miss runs the   *)
(* query and stores the result.  With global async queries a miss is left  *)
(* to a worker, which also caches the request itself (its query context);  *)
(* the browser comes back for the result once the job is done, and that    *)
(* request may only read caches.  Meanwhile the dataset is edited, the     *)
(* source gets new rows, and the caches drop entries or fail to take one.  *)
(***************************************************************************)
EXTENDS Naturals, FiniteSets

CONSTANTS Readers,      \* the users who ask
          Filters,      \* the row level filters of a user, [Readers -> ids]
          Anonymous,    \* the filters of a session without a user
          Questions,    \* the queries of charts on the dataset
          Slots,        \* requests in progress at a time
          MaxAsked,     \* bound: requests in all
          MaxMoves      \* bound: edits of the dataset, new source rows, lost entries

ASSUME CacheAssumption == MaxAsked \in Nat /\ MaxMoves \in Nat

Nothing == "none"
FilterSets == {Filters[u] : u \in Readers} \cup {Anonymous}

VARIABLES dataset,    \* row and parts: edits of its row, and of its columns and metrics
          source,     \* version of the source's rows
          data_cache, \* results by key
          contexts,   \* questions whose query context is cached
          ask,        \* the request in each slot
          asked,      \* requests so far
          moves       \* edits, new rows and lost entries so far

cacheVars == <<dataset, source, data_cache, contexts, ask, asked, moves>>

Waiting == {"lookup", "queued", "query", "store", "cached", "done", "retrieve"}
Over == {"answered", "failed", "not found"}
NoAsk == [phase |-> Nothing, user |-> Nothing, question |-> Nothing, force |-> FALSE,
          async |-> FALSE, seen |-> [row |-> 0, parts |-> 0], row |-> 0, since |-> 0,
          answer |-> Nothing, lost |-> FALSE]

\* Mutants of CacheKey: without the filters, and without changed_on.
key_of_anyone(question, filters, changed_on) == <<question, Anonymous, changed_on>>
key_of_any_time(question, filters, changed_on) == <<question, filters, 0>>

\* cache_key: changed_on is that of the row, which an edit of columns and
\* metrics alone does not touch.
CacheKey(question, filters, changed_on) == <<question, filters, changed_on>>

KeyOf(r) == CacheKey(ask[r].question, Filters[ask[r].user], ask[r].row)
Hits(key) == {e \in data_cache : e.key = key}

DatasetCacheTypeOK ==
  /\ dataset.row \in 0..MaxMoves /\ dataset.parts \in 0..MaxMoves /\ source \in 0..MaxMoves
  /\ contexts \subseteq Questions /\ asked \in 0..MaxAsked /\ moves \in 0..MaxMoves
  /\ \A r \in Slots : ask[r] = NoAsk \/ ask[r].phase \in Waiting \cup Over
  /\ \A e \in data_cache : Cardinality(Hits(e.key)) = 1
--------------------------------------------------------------------------------
(***************************************************************************)
(* The request                                                             *)
(***************************************************************************)
\* charts/api.py data(): the query context loads the dataset.
Ask(r) ==
  /\ asked < MaxAsked
  /\ ask[r].phase \in Over \cup {Nothing}
  /\ r = CHOOSE s \in Slots : ask[s].phase \in Over \cup {Nothing}
  /\ asked' = asked + 1
  /\ \E u \in Readers, q \in Questions, force \in BOOLEAN, async \in BOOLEAN :
       ask' = [ask EXCEPT ![r] =
                 [NoAsk EXCEPT !.phase = "lookup", !.user = u, !.question = q, !.force = force,
                               !.async = async, !.seen = dataset, !.row = dataset.row,
                               !.since = source]]
  /\ UNCHANGED <<dataset, source, data_cache, contexts, moves>>

Goes(r, phase, answer) ==
  ask' = [ask EXCEPT ![r].phase = phase, ![r].answer = answer]

\* Mutant of Entries: force is forgotten.
entries_despite_force(r) == Hits(KeyOf(r))

\* The entries get_df_payload looks at.
Entries(r) == IF ask[r].force THEN {} ELSE Hits(KeyOf(r))

\* get_df_payload up to its query.  With global async queries this is a
\* lookup with force_cached, and the miss starts a job.
Lookup(r) ==
  /\ ask[r].phase = "lookup"
  /\ \/ \E e \in Entries(r) : Goes(r, "answered", e.result)
     \/ /\ Entries(r) = {}
        /\ Goes(r, IF ask[r].async THEN "queued" ELSE "query", Nothing)
  /\ UNCHANGED <<dataset, source, data_cache, contexts, asked, moves>>

\* load_chart_data_into_cache: the worker loads the dataset anew and looks
\* the key up for itself.
StartJob(r) ==
  /\ ask[r].phase = "queued"
  /\ LET now == [ask EXCEPT ![r].row = dataset.row]
         hits == IF ask[r].force THEN {}
                 ELSE Hits(CacheKey(ask[r].question, Filters[ask[r].user], dataset.row))
     IN  ask' = [now EXCEPT ![r].phase = IF hits = {} THEN "query" ELSE "cached"]
  /\ UNCHANGED <<dataset, source, data_cache, contexts, asked, moves>>

\* get_query_result: columns and metrics are loaded when the SQL is written,
\* at the latest; the source answers with the rows of this moment, or fails,
\* when nothing is cached and a job posts an error.
RunQuestion(r) ==
  /\ ask[r].phase = "query"
  /\ \/ \E parts \in ask[r].seen.parts..dataset.parts :
          Goes(r, "store", [row |-> ask[r].row, parts |-> parts, data |-> source,
                            filters |-> Filters[ask[r].user]])
     \/ Goes(r, "failed", Nothing)
  /\ UNCHANGED <<dataset, source, data_cache, contexts, asked, moves>>

Stored(r) == {e \in data_cache : e.key # KeyOf(r)} \cup {[key |-> KeyOf(r), result |-> ask[r].answer]}

\* set_and_log_cache swallows the error of a cache that is down or refuses a
\* value; the request goes on.
Store(r) ==
  /\ ask[r].phase = "store"
  /\ \E taken \in BOOLEAN :
       /\ data_cache' = IF taken THEN Stored(r) ELSE data_cache
       /\ taken \/ moves < MaxMoves
       /\ moves' = IF taken THEN moves ELSE moves + 1
       /\ ask' = [ask EXCEPT ![r].phase = IF ask[r].async THEN "cached" ELSE "answered",
                             ![r].answer = IF ask[r].async THEN Nothing ELSE @,
                             ![r].lost = @ \/ ~taken]
  /\ UNCHANGED <<dataset, source, contexts, asked>>

\* The job caches the query context too and posts its result_url.
FinishJob(r) ==
  /\ ask[r].phase = "cached"
  /\ contexts' = contexts \cup {ask[r].question}
  /\ Goes(r, "done", Nothing)
  /\ UNCHANGED <<dataset, source, data_cache, asked, moves>>

\* Mutant of Retrieve: the cached context still asks for a forced refresh.
retrieves_with_force(r) ==
  /\ ask[r].phase = "done" /\ ask[r].question \in contexts
  /\ ask' = [ask EXCEPT ![r].phase = "retrieve", ![r].row = dataset.row]
  /\ UNCHANGED <<dataset, source, data_cache, contexts, asked, moves>>

\* data_from_cache: cache_values, without force, rebuild the query context.
Retrieve(r) ==
  /\ ask[r].phase = "done"
  /\ IF ask[r].question \in contexts
     THEN ask' = [ask EXCEPT ![r].phase = "retrieve", ![r].row = dataset.row, ![r].force = FALSE]
     ELSE Goes(r, "not found", Nothing)
  /\ UNCHANGED <<dataset, source, data_cache, contexts, asked, moves>>

\* get_df_payload with force_cached: a miss is an error.
ReadCached(r) ==
  /\ ask[r].phase = "retrieve"
  /\ \/ \E e \in Entries(r) : Goes(r, "answered", e.result)
     \/ Entries(r) = {} /\ Goes(r, "not found", Nothing)
  /\ UNCHANGED <<dataset, source, data_cache, contexts, asked, moves>>
--------------------------------------------------------------------------------
(***************************************************************************)
(* What happens meanwhile                                                  *)
(***************************************************************************)
\* Jobs whose result may now be out of reach when the browser comes for it.
Losing(hit(_)) ==
  [r \in Slots |-> IF ask[r].phase \in Waiting /\ hit(r)
                   THEN [ask[r] EXCEPT !.lost = TRUE] ELSE ask[r]]

Move == moves < MaxMoves /\ moves' = moves + 1

\* A change of the dataset's own row stamps changed_on, whatever else it saves.
EditRow ==
  /\ Move
  /\ dataset' = [row |-> dataset.row + 1, parts |-> dataset.parts + 1]
  /\ ask' = Losing(LAMBDA r : TRUE)
  /\ UNCHANGED <<source, data_cache, contexts, asked>>

\* Metrics and columns are rows of their own.
EditParts ==
  /\ Move
  /\ dataset' = [dataset EXCEPT !.parts = @ + 1]
  /\ UNCHANGED <<source, data_cache, contexts, ask, asked>>

NewRows ==
  /\ Move
  /\ source' = source + 1
  /\ UNCHANGED <<dataset, data_cache, contexts, ask, asked>>

\* Timeout, eviction or restart of a cache.
DropResult ==
  /\ Move
  /\ \E e \in data_cache :
       /\ data_cache' = data_cache \ {e}
       /\ ask' = Losing(LAMBDA r : ask[r].question = e.key[1])
  /\ UNCHANGED <<dataset, source, contexts, asked>>

DropContext ==
  /\ Move
  /\ \E q \in contexts :
       /\ contexts' = contexts \ {q}
       /\ ask' = Losing(LAMBDA r : ask[r].question = q)
  /\ UNCHANGED <<dataset, source, data_cache, asked>>

CacheInit ==
  /\ dataset = [row |-> 0, parts |-> 0] /\ source = 0
  /\ data_cache = {} /\ contexts = {}
  /\ ask = [r \in Slots |-> NoAsk]
  /\ asked = 0 /\ moves = 0

Serves(r) == \/ Lookup(r) \/ StartJob(r) \/ RunQuestion(r) \/ Store(r)
             \/ FinishJob(r) \/ Retrieve(r) \/ ReadCached(r)

CacheNext ==
  \/ \E r \in Slots : Ask(r) \/ Serves(r)
  \/ EditRow \/ EditParts \/ NewRows \/ DropResult \/ DropContext

CacheSpec == CacheInit /\ [][CacheNext]_cacheVars
--------------------------------------------------------------------------------
(***************************************************************************)
(* Properties                                                              *)
(***************************************************************************)
Answered == {r \in Slots : ask[r].phase = "answered"}

\* An answer, computed or cached by whoever, holds the rows that the asking
\* user's own filters leave.
OwnRowsOnly == \A r \in Answered : ask[r].answer.filters = Filters[ask[r].user]

\* An answer is never of a dataset older than a change of the dataset's row
\* that was there when the request came.
ReflectsDatasetRow == \A r \in Answered : ask[r].answer.row >= ask[r].seen.row

\* "Force refresh" answered at once is of the source and of the dataset's columns
\* and metrics as they were when the user asked, or newer.  (Through a job it is
\* not: another's older result may be stored over it before the browser comes.
\* Without force, an edit of a metric alone leaves results of before it in use.)
ForceIsFresh ==
  \A r \in Answered : ask[r].force => /\ ask[r].answer.data >= ask[r].since
                                      /\ ask[r].answer.parts >= ask[r].seen.parts

\* With one row level filter more or less, or an edit of the dataset, a cached result
\* is another's or of another time: what is answered is computed, or cached by whoever,
\* under the asking user's filters and from the dataset as it was when asked, or newer.
ServesRightRows == OwnRowsOnly /\ ReflectsDatasetRow

\* A job that is done is there for the browser: the request for its result
\* finds it unless the dataset was edited, a cache lost it or could not take it.
DoneIsServed == \A r \in Slots : ask[r].phase = "not found" => ask[r].lost

\* What the user is told to have is had: "force refresh" is fresh, a job that is done
\* has its result.
AnswersAsTold == ForceIsFresh /\ DoneIsServed
================================================================================
