----------------------------- MODULE AsyncEvents -----------------------------
(***************************************************************************)
(* Global async queries: how the browser tab that asked for chart data     *)
(* learns that the Celery task computed it.                                *)
(*                                                                         *)
(*   worker   AsyncQueryManager.update_job appends the event of a job to   *)
(*            the Redis stream of the channel (the browser session), then  *)
(*            to the stream of all channels, the firehose; two XADDs, each *)
(*            of which gives the entry an id of its own                    *)
(*   server   superset-websocket reads the firehose and sends what it      *)
(*            reads to the sockets of the channel; to a socket that        *)
(*            connects with a last_id it sends a range of the channel's    *)
(*            stream                                                       *)
(*   client   asyncEvent.ts polls the channel's stream (transport          *)
(*            "polling") or listens on a socket ("ws"), and remembers the  *)
(*            id of the last event that it processed                       *)
(*                                                                         *)
(* One channel with one tab. A Redis id is a pair of a millisecond and a   *)
(* sequence number. A job has one event; that it is one of success or of   *)
(* error is left out, for a listener is removed in both cases (after the   *)
(* cached data was fetched, or at once). Trimming of the streams is left   *)
(* out: they keep 1000 entries and more.                                   *)
(***************************************************************************)
EXTENDS Integers, FiniteSets, Sequences, Bags, SequencesExt

CONSTANTS
  Jobs,           \* the jobs of the tab; each posts one event
  Transports,     \* the configured GLOBAL_ASYNC_QUERIES_TRANSPORT
  MaxNow,         \* bound on the clock of Redis, in milliseconds
  StartSeqs,      \* sequence numbers the two streams may have reached
  Knows,          \* who starts with an id: the "tab" (in localStorage), the
                  \* "server" (having read the firehose before)
  MaxEventCount,  \* AsyncQueryManager.MAX_EVENT_COUNT
  ReadCount,      \* redisStreamReadCount of the server
  MaxRetries,     \* MAX_RETRIES for an event without a listener
  MaxWsRetries,   \* wsConnectMaxRetries
  MaxFaults       \* bound on failed polls, dropped sockets and restarts

ASSUME BoundsAssumption ==
  /\ Transports \subseteq {"polling", "ws"}
  /\ StartSeqs \subseteq Nat /\ Knows \subseteq {{}, {"tab"}, {"server"}, {"tab", "server"}}
  /\ {MaxNow, MaxRetries, MaxWsRetries, MaxFaults} \subseteq Nat
  /\ {MaxEventCount, ReadCount} \subseteq Nat \ {0}

VARIABLES
  transport,   \* fixed by the configuration
  now,         \* the clock of Redis
  worker,      \* worker[j]: what the task of job j has appended
  channel,     \* channel[j]: id of j's event in the channel's stream
  firehose,    \* firehose[j]: id of j's event in the firehose
  tops,        \* the last id of each stream
  lastFirehoseId,  \* the server's variable of that name, NoId for '$'
  xread,       \* from where the pending XREAD reads, NoId if none is
  ranges,      \* the pending XRANGEs of fetchRangeFromStream
  socket,      \* the tab's socket
  lastId,      \* the last_id of the socket's URL
  wire,        \* what was sent on the socket and not yet received
  wsConnectRetries,
  lastReceivedEventId,
  listener,    \* listener[j]: the promise that waits for j
  retriesByJobId,
  timers,      \* events that setTimeout will process again (a bag)
  poll,        \* the pending GET of /api/v1/async_event/
  seen,        \* history: the jobs whose event was processed
  faults

redis == <<now, worker, channel, firehose, tops>>
server == <<lastFirehoseId, xread, ranges>>
link == <<socket, lastId, wire, wsConnectRetries>>
client == <<lastReceivedEventId, listener, retriesByJobId, timers, seen>>
vars == <<transport, redis, server, link, client, poll, faults>>

NoId == <<-1, -1>>           \* null, and '$' and '-' where ids are compared
LastId == <<MaxNow + 1, 0>>  \* '+'
Before(a, b) == a[1] < b[1] \/ (a[1] = b[1] /\ a[2] < b[2])
NotAfter(a, b) == a = b \/ Before(a, b)

NoPoll == [at |-> "none"]
Asked(id) == [at |-> "sent", last_id |-> id]

Event(j, id) == [job |-> j, id |-> id]
Entries(stream) == {Event(j, stream[j]) : j \in {k \in Jobs : stream[k] # NoId}}
InOrder(events) ==
  LET Place(e) == Cardinality({d \in events : NotAfter(d.id, e.id)})
  IN  [k \in 1..Cardinality(events) |-> CHOOSE e \in events : Place(e) = k]
FirstOf(n, seq) == SubSeq(seq, 1, IF n < Len(seq) THEN n ELSE Len(seq))

Ids == ({-1} \cup 0..MaxNow) \X (-1..1000)
TypeOK ==
  /\ transport \in Transports /\ now \in 0..MaxNow /\ faults \in 0..MaxFaults
  /\ worker \in [Jobs -> {"computing", "appending", "done", "timed_out"}]
  /\ channel \in [Jobs -> Ids] /\ firehose \in [Jobs -> Ids]
  /\ tops \in [{"channel", "full"} -> Ids]
  /\ lastFirehoseId \in Ids /\ xread \in Ids
  /\ socket \in {"off", "connecting", "open", "closed"}
  /\ \A i \in 1..Len(wire) : wire[i].job \in Jobs /\ wire[i].id \in Ids
  /\ wsConnectRetries \in 0..MaxWsRetries
  /\ lastReceivedEventId \in Ids /\ lastId \in Ids
  /\ listener \in [Jobs -> {"none", "waiting", "fetching", "settled"}]
  /\ retriesByJobId \in [Jobs -> 0..MaxRetries]
  /\ \A e \in BagToSet(timers) : e.job \in seen /\ e.id \in Ids
  /\ poll = NoPoll \/ poll.last_id \in Ids

Init ==
  /\ transport \in Transports
  /\ now = 0
  /\ worker = [j \in Jobs |-> "computing"]
  /\ channel = [j \in Jobs |-> NoId] /\ firehose = [j \in Jobs |-> NoId]
  /\ \E s, f \in StartSeqs : tops = [channel |-> <<0, s>>, full |-> <<0, f>>]
  /\ \E known \in Knows :
        /\ lastFirehoseId = IF "server" \in known THEN tops["full"] ELSE NoId
        /\ lastReceivedEventId = IF "tab" \in known THEN tops["channel"] ELSE NoId
        /\ lastId = IF transport = "ws" THEN lastReceivedEventId ELSE NoId
  /\ xread = NoId /\ ranges = {}
  /\ socket = IF transport = "ws" THEN "connecting" ELSE "off"
  /\ wire = <<>> /\ wsConnectRetries = 0
  /\ listener = [j \in Jobs |-> "none"]
  /\ retriesByJobId = [j \in Jobs |-> 0]
  /\ timers = EmptyBag /\ poll = NoPoll /\ seen = {} /\ faults = 0

Fault == faults < MaxFaults /\ faults' = faults + 1

-------------------------------------------------------------------------------
(* The worker and Redis *)

Tick == /\ now < MaxNow
        /\ now' = now + 1
        /\ UNCHANGED <<transport, worker, channel, firehose, tops, server, link,
                       client, poll, faults>>

\* The id that XADD gives an entry of a stream whose last id is top.
NextId(top) == IF top[1] < now THEN <<now, 0>> ELSE <<top[1], top[2] + 1>>

\* update_job: the first XADD, to the stream of the channel ...
update_job(j) ==
  /\ worker[j] = "computing"
  /\ worker' = [worker EXCEPT ![j] = "appending"]
  /\ channel' = [channel EXCEPT ![j] = NextId(tops["channel"])]
  /\ tops' = [tops EXCEPT !["channel"] = NextId(@)]
  /\ UNCHANGED <<transport, now, firehose, server, link, client, poll, faults>>

\* ... and the second, to the firehose.
update_firehose(j) ==
  /\ worker[j] = "appending"
  /\ worker' = [worker EXCEPT ![j] = "done"]
  /\ firehose' = [firehose EXCEPT ![j] = NextId(tops["full"])]
  /\ tops' = [tops EXCEPT !["full"] = NextId(@)]
  /\ UNCHANGED <<transport, now, channel, server, link, client, poll, faults>>

\* SoftTimeLimitExceeded is raised again and posts nothing.
SoftTimeLimit(j) ==
  /\ worker[j] = "computing"
  /\ worker' = [worker EXCEPT ![j] = "timed_out"]
  /\ UNCHANGED <<transport, now, channel, firehose, tops, server, link, client,
                 poll, faults>>

-------------------------------------------------------------------------------
(* The client: listeners and processEvents *)

\* waitForAsyncData, when the answer that names the job has arrived.
waitForAsyncData(j) ==
  /\ listener[j] = "none"
  /\ listener' = [listener EXCEPT ![j] = "waiting"]
  /\ UNCHANGED <<transport, redis, server, link, lastReceivedEventId,
                 retriesByJobId, timers, seen, poll, faults>>

HasListener(j) == listener[j] \in {"waiting", "fetching"}

\* The listener has fetched the cached data: it settles the promise and is
\* removed.
removeListener(j) ==
  /\ listener[j] = "fetching"
  /\ listener' = [listener EXCEPT ![j] = "settled"]
  /\ UNCHANGED <<transport, redis, server, link, lastReceivedEventId,
                 retriesByJobId, timers, seen, poll, faults>>

\* (mutant) The tries are counted and not limited.
TriesAgain_unlimited(j) == ~HasListener(j)

\* An event without a listener is tried again, MaxRetries times, the tries of
\* all timers of the job taken together.
TriesAgain(j) == ~HasListener(j) /\ retriesByJobId[j] < MaxRetries

RetriesAfter(j) == IF TriesAgain(j) THEN retriesByJobId[j] + 1 ELSE 0

\* processEvents on events of distinct jobs, due being the timers left.
processEvents(events, due) ==
  LET E == ToSet(events)
      jobs == {e.job : e \in E}
  IN /\ listener' = [j \in Jobs |-> IF j \in jobs /\ HasListener(j)
                                    THEN "fetching" ELSE listener[j]]
     /\ retriesByJobId' = [j \in Jobs |-> IF j \in jobs THEN RetriesAfter(j)
                                          ELSE retriesByJobId[j]]
     /\ timers' = due (+) SetToBag({e \in E : TriesAgain(e.job)})
     /\ seen' = seen \cup jobs
     /\ lastReceivedEventId' = IF events = <<>> THEN lastReceivedEventId
                               ELSE Last(events).id

\* A timer runs out: the event is processed, and becomes the last one, again.
RetryEvent(e) ==
  /\ e \in BagToSet(timers)
  /\ processEvents(<<e>>, timers (-) SetToBag({e}))
  /\ UNCHANGED <<transport, redis, server, link, poll, faults>>

-------------------------------------------------------------------------------
(* Transport "polling" *)

\* (mutant) A new millisecond is taken for the next id.
increment_millisecond(id) == <<id[1] + 1, 0>>

\* The last digit of the sequence number is replaced by its successor, which
\* has two digits after a 9.
increment_id(id) ==
  <<id[1], IF id[2] % 10 < 9 THEN id[2] + 1 ELSE (id[2] \div 10) * 100 + 10>>

\* (mutant) The newest events first, as XREVRANGE returns them.
read_events_newest(last_id) ==
  FirstOf(MaxEventCount, Reverse(InOrder({e \in Entries(channel) : Before(last_id, e.id)})))

read_events(last_id) ==
  LET start == IF last_id = NoId THEN NoId ELSE increment_id(last_id)
  IN FirstOf(MaxEventCount, InOrder({e \in Entries(channel) : NotAfter(start, e.id)}))

Polling == \E j \in Jobs : HasListener(j)

loadEventsFromApi ==
  /\ transport = "polling" /\ poll = NoPoll /\ Polling
  /\ poll' = Asked(lastReceivedEventId)
  /\ UNCHANGED <<transport, redis, server, link, client, faults>>

\* The answer to a poll: the stream is read by the server's events() some time
\* after the request left and processed by the client when it arrives.
AnswerPoll ==
  /\ poll.at = "sent"
  /\ poll' = [at |-> "answered", last_id |-> poll.last_id,
              events |-> read_events(poll.last_id)]
  /\ UNCHANGED <<transport, redis, server, link, client, faults>>

ProcessPoll ==
  /\ poll.at = "answered"
  /\ poll' = NoPoll
  /\ processEvents(poll.events, timers)
  /\ UNCHANGED <<transport, redis, server, link, faults>>

FailPoll ==
  /\ Fault
  /\ poll # NoPoll
  /\ poll' = NoPoll
  /\ UNCHANGED <<transport, redis, server, link, client>>

-------------------------------------------------------------------------------
(* Transport "ws": the server *)

\* sendToChannel: nothing is sent when the channel has no open socket.
sendToChannel(events) ==
  wire' = IF socket = "open" THEN wire \o events ELSE wire

\* subscribeToGlobalStream blocks on XREAD; '$' stands for the last entry of
\* the moment.
CallXread ==
  /\ transport = "ws" /\ xread = NoId
  /\ xread' = IF lastFirehoseId = NoId THEN tops["full"] ELSE lastFirehoseId
  /\ UNCHANGED <<transport, redis, lastFirehoseId, ranges, link, client, poll,
                 faults>>

XreadResults ==
  FirstOf(ReadCount, InOrder({e \in Entries(firehose) : Before(xread, e.id)}))

\* (mutant) The server's place becomes the end of the stream.
LastOfResults_end_of_stream(results) == tops["full"]

\* setLastFirehoseId, to the last of the results.
LastOfResults(results) == Last(results).id

ReturnXread ==
  /\ xread # NoId /\ XreadResults # <<>>
  /\ sendToChannel(XreadResults)
  /\ lastFirehoseId' = LastOfResults(XreadResults)
  /\ xread' = NoId
  /\ UNCHANGED <<transport, redis, ranges, socket, lastId, wsConnectRetries,
                 client, poll, faults>>

\* redisStreamReadBlockMs have passed without an entry.
TimeoutXread ==
  /\ xread # NoId /\ XreadResults = <<>>
  /\ xread' = NoId
  /\ UNCHANGED <<transport, redis, lastFirehoseId, ranges, link, client, poll, faults>>

incrementId(id) == <<id[1], id[2] + 1>>

\* wsConnection: the socket is tracked at once; what it missed is fetched
\* later, up to what the firehose had delivered when it connected.
wsConnection ==
  /\ socket = "connecting"
  /\ socket' = "open" /\ wire' = <<>> /\ wsConnectRetries' = 0
  /\ ranges' = IF lastId = NoId THEN ranges
               ELSE ranges \cup {[from |-> incrementId(lastId),
                                  to |-> IF lastFirehoseId = NoId THEN LastId
                                         ELSE lastFirehoseId]}
  /\ UNCHANGED <<transport, redis, lastFirehoseId, xread, lastId, client, poll,
                 faults>>

InRange(r) == {e \in Entries(channel) : NotAfter(r.from, e.id) /\ NotAfter(e.id, r.to)}
fetchRangeFromStream(r) ==
  /\ r \in ranges
  /\ ranges' = ranges \ {r}
  /\ sendToChannel(InOrder(InRange(r)))
  /\ UNCHANGED <<transport, redis, lastFirehoseId, xread, socket, lastId,
                 wsConnectRetries, client, poll, faults>>

\* The server restarts: its registries and its place in the firehose are gone.
Restart ==
  /\ Fault
  /\ transport = "ws"
  /\ lastFirehoseId' = NoId /\ xread' = NoId /\ ranges' = {}
  /\ socket' = IF socket = "off" THEN "off" ELSE "closed"
  /\ wire' = <<>>
  /\ UNCHANGED <<transport, redis, lastId, wsConnectRetries, client, poll>>

-------------------------------------------------------------------------------
(* Transport "ws": the client *)

Receive ==
  /\ wire # <<>>
  /\ processEvents(<<Head(wire)>>, timers)
  /\ wire' = Tail(wire)
  /\ UNCHANGED <<transport, redis, server, socket, lastId, wsConnectRetries, poll,
                 faults>>

\* The connection is refused or drops, and what is on the wire is lost.
CloseSocket ==
  /\ Fault
  /\ socket \in {"connecting", "open"}
  /\ socket' = "closed" /\ wire' = <<>>
  /\ UNCHANGED <<transport, redis, server, lastId, wsConnectRetries, client, poll>>

\* The timeout that the close event started; after the last try the tab polls,
\* once, for loadEventsFromApi repeats itself only when transport is "polling".
wsConnect ==
  /\ socket = "closed"
  /\ IF wsConnectRetries < MaxWsRetries
     THEN /\ socket' = "connecting" /\ lastId' = lastReceivedEventId
          /\ wsConnectRetries' = wsConnectRetries + 1
          /\ UNCHANGED poll
     ELSE /\ socket' = "off"
          /\ poll' = IF Polling THEN Asked(lastReceivedEventId) ELSE poll
          /\ UNCHANGED <<lastId, wsConnectRetries>>
  /\ UNCHANGED <<transport, redis, server, wire, client, faults>>

-------------------------------------------------------------------------------
WorkerStep == \E j \in Jobs : update_job(j) \/ update_firehose(j) \/ SoftTimeLimit(j)
TimerStep == \E e \in BagToSet(timers) : RetryEvent(e)
SettleStep == \E j \in Jobs : removeListener(j)
RangeStep == \E r \in ranges : fetchRangeFromStream(r)

Next ==
  \/ Tick
  \/ WorkerStep
  \/ \E j \in Jobs : waitForAsyncData(j)
  \/ SettleStep
  \/ TimerStep
  \/ loadEventsFromApi \/ AnswerPoll \/ ProcessPoll \/ FailPoll
  \/ CallXread \/ ReturnXread \/ TimeoutXread
  \/ wsConnection \/ RangeStep \/ Restart
  \/ Receive \/ CloseSocket \/ wsConnect

Spec == Init /\ [][Next]_vars

\* An open tab runs its timers and gets its answers; the server runs its loop.
\* Nothing is assumed of the workers or of when a listener is registered.
Fairness ==
  /\ WF_vars(SettleStep) /\ WF_vars(TimerStep)
  /\ WF_vars(loadEventsFromApi) /\ WF_vars(AnswerPoll) /\ WF_vars(ProcessPoll)
  /\ WF_vars(CallXread) /\ WF_vars(ReturnXread) /\ WF_vars(Receive)

FairSpec == Spec /\ Fairness

-------------------------------------------------------------------------------
(* Properties *)

\* A tab that polls never asks past an event that it has not processed, although
\* a retried event moves lastReceivedEventId back while a poll is on its way
\* (asyncEvent.ts:202-216, read_events).
PollSkipsNothing ==
  transport = "polling" =>
    \A e \in Entries(channel) : NotAfter(e.id, lastReceivedEventId) => e.job \in seen

\* A listener whose event is still to come, or is held by a retry timer, is
\* served once the event is in the channel's stream (asyncEvent.ts:178-218).
PollServesListeners ==
  \A j \in Jobs :
    (/\ transport = "polling" /\ channel[j] # NoId /\ listener[j] = "waiting"
     /\ j \notin seen \/ \E e \in BagToSet(timers) : e.job = j)
      ~> (listener[j] = "settled")

\* What is appended to the firehose behind the server's place in it reaches a
\* tab whose socket stays open (index.ts:205-236).
FirehoseReaches ==
  \A j \in Jobs :
    (/\ socket = "open" /\ xread # NoId
     /\ firehose[j] # NoId /\ Before(xread, firehose[j]))
      ~> (j \in seen \/ socket # "open")

\* When a tab reconnects with the id of the last event that it received, the
\* events that the server has read from the firehose and the tab has not
\* received are in the range that is fetched for it: "events that may have
\* already been received and sent unsuccessfully are read from the channel-based
\* Redis Stream and re-sent" (superset-websocket/README.md:48).
ReconnectResends ==
  [][(socket = "connecting" /\ socket' = "open"
      /\ lastId # NoId /\ lastFirehoseId # NoId) =>
       \A j \in Jobs \ seen :
         (firehose[j] # NoId /\ NotAfter(firehose[j], lastFirehoseId)) =>
           \E r \in ranges' : Event(j, channel[j]) \in InRange(r)]_vars

===============================================================================
