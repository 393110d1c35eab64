---------------------------- MODULE SocketRegistry ----------------------------
(***************************************************************************)
(* The registries in which the WebSocket server keeps the sockets of its   *)
(* clients and the sockets of each channel, and the timers that ping the   *)
(* clients and reclaim what is left of them                                *)
(* (superset-websocket/src/index.ts).                                      *)
(*                                                                         *)
(* One thread runs every handler to its end.  Time passes in ticks, and a  *)
(* timer fires at the tick it is due.  What is read from the streams and   *)
(* sent is in AsyncEvents; here it matters only to whom it goes.           *)
(***************************************************************************)
EXTENDS Integers

CONSTANTS
  SocketIds,                \* uuids of connections
  Channels,                 \* channels of the clients' tokens
  pingSocketsIntervalMs,    \* in ticks, as the next two
  socketResponseTimeoutMs,
  gcChannelsIntervalMs,
  PongWithin                \* ticks in which a live client answers a ping

\* A live client must be able to answer between the ping of one check and the check
\* that would find it overdue.
ASSUME TimersAssumption ==
  /\ {pingSocketsIntervalMs, socketResponseTimeoutMs, gcChannelsIntervalMs} \subseteq Nat \ {0}
  /\ PongWithin \in Nat
  /\ pingSocketsIntervalMs + PongWithin < socketResponseTimeoutMs

VARIABLES
  sockets,    \* tracked sockets: channel, readyState and ticks since the last pong
  channels,   \* the ids listed for each channel that is registered
  clients,    \* the other end of each connection: "absent" at first, "live" or "gone"
  pinged,     \* pings that are not answered yet, with their age
  nextCheck,  \* ticks until checkSockets
  nextGc,     \* ticks until the channels are collected
  deadFor     \* history: ticks since a client went away

registryVars == <<sockets, channels, clients, pinged, nextCheck, nextGc, deadFor>>

Tracked == DOMAIN sockets
Listed == UNION {channels[c] : c \in DOMAIN channels}
Put(f, key, value) ==
  [k \in DOMAIN f \cup {key} |-> IF k = key THEN value ELSE f[k]]
Forget(f, keys) == [k \in DOMAIN f \ keys |-> f[k]]

RegistryInit ==
  /\ sockets = [i \in {} |-> 0]
  /\ channels = [c \in {} |-> {}]
  /\ clients = [i \in SocketIds |-> "absent"]
  /\ pinged = [i \in {} |-> 0]
  /\ nextCheck = pingSocketsIntervalMs
  /\ nextGc = gcChannelsIntervalMs
  /\ deadFor = [i \in SocketIds |-> 0]

Due == nextCheck = 0 \/ nextGc = 0

-------------------------------------------------------------------------------
(* Clients *)

\* Mutant: the list of the channel is always a new one.
listed_alone(channel, id) == {id}

listed(channel, id) == IF channel \in DOMAIN channels THEN channels[channel] \cup {id} ELSE {id}

trackClient(id, channel) ==
  /\ clients[id] = "absent"
  /\ clients' = [clients EXCEPT ![id] = "live"]
  /\ sockets' = Put(sockets, id, [channel |-> channel, ready |-> "OPEN", pongAge |-> 0])
  /\ channels' = Put(channels, channel, listed(channel, id))
  /\ UNCHANGED <<pinged, nextCheck, nextGc, deadFor>>

\* The pong of a socket that was forgotten meanwhile is ignored.
pong(id) ==
  /\ clients[id] = "live" /\ id \in DOMAIN pinged
  /\ pinged' = Forget(pinged, {id})
  /\ sockets' = IF id \in Tracked THEN [sockets EXCEPT ![id].pongAge = 0] ELSE sockets
  /\ UNCHANGED <<channels, clients, nextCheck, nextGc, deadFor>>

\* A client closes its connection.
Close(id) ==
  /\ clients[id] = "live"
  /\ clients' = [clients EXCEPT ![id] = "gone"]
  /\ sockets' = IF id \in Tracked THEN [sockets EXCEPT ![id].ready = "CLOSED"] ELSE sockets
  /\ pinged' = Forget(pinged, {id})
  /\ UNCHANGED <<channels, nextCheck, nextGc, deadFor>>

\* A client disappears, and the server is not told.
Vanish(id) ==
  /\ clients[id] = "live"
  /\ clients' = [clients EXCEPT ![id] = "gone"]
  /\ pinged' = Forget(pinged, {id})
  /\ UNCHANGED <<sockets, channels, nextCheck, nextGc, deadFor>>

-------------------------------------------------------------------------------
(* The server *)

Active(id) == id \in Tracked /\ sockets[id].ready = "OPEN"

\* Mutant: ids of sockets that are no longer tracked are taken for active.
cleanChannels_of_closed(cleaned) ==
  LET kept == [c \in DOMAIN channels |->
                 IF c \in cleaned THEN {i \in channels[c] : i \in Tracked => Active(i)}
                 ELSE channels[c]]
  IN  Forget(kept, {c \in cleaned : kept[c] = {}})

\* The channels after some of them were cleaned: only those with active sockets remain.
cleanChannels(cleaned) ==
  LET kept == [c \in DOMAIN channels |->
                 IF c \in cleaned THEN {i \in channels[c] : Active(i)} ELSE channels[c]]
  IN  Forget(kept, {c \in cleaned : kept[c] = {}})

\* An event goes to every listed socket; a missing one has the channel cleaned.
sendToChannel(channel) ==
  /\ channel \in DOMAIN channels
  /\ ~ (channels[channel] \subseteq Tracked)
  /\ channels' = cleanChannels({channel})
  /\ UNCHANGED <<sockets, clients, pinged, nextCheck, nextGc, deadFor>>

\* Mutant: a socket is overdue after one interval.
Unresponsive_at_once(id) == sockets[id].pongAge >= pingSocketsIntervalMs

Unresponsive(id) == sockets[id].pongAge >= socketResponseTimeoutMs

\* A terminated connection is closed for a client that still lives.
checkSockets ==
  LET kept == {i \in Tracked : ~Unresponsive(i) /\ Active(i)} IN
  /\ nextCheck = 0
  /\ nextCheck' = pingSocketsIntervalMs
  /\ sockets' = Forget(sockets, Tracked \ kept)
  /\ pinged' = [i \in DOMAIN pinged \cup {k \in kept : clients[k] = "live"} |->
                  IF i \in DOMAIN pinged THEN pinged[i] ELSE 0]
  /\ UNCHANGED <<channels, clients, nextGc, deadFor>>

gc ==
  /\ nextGc = 0
  /\ nextGc' = gcChannelsIntervalMs
  /\ channels' = cleanChannels(DOMAIN channels)
  /\ UNCHANGED <<sockets, clients, pinged, nextCheck, deadFor>>

\* Ages count up to the point after which nothing changes.
AgeBound == socketResponseTimeoutMs + pingSocketsIntervalMs + gcChannelsIntervalMs + 1
Older(n) == IF n < AgeBound THEN n + 1 ELSE n

Tick ==
  /\ ~Due
  /\ \A i \in DOMAIN pinged : pinged[i] < PongWithin
  /\ nextCheck' = nextCheck - 1
  /\ nextGc' = nextGc - 1
  /\ sockets' = [i \in Tracked |-> [sockets[i] EXCEPT !.pongAge = Older(@)]]
  /\ pinged' = [i \in DOMAIN pinged |-> pinged[i] + 1]
  /\ deadFor' = [i \in SocketIds |-> IF clients[i] = "gone" THEN Older(deadFor[i]) ELSE 0]
  /\ UNCHANGED <<channels, clients>>

RegistryNext ==
  \/ \E i \in SocketIds :
       \/ \E c \in Channels : trackClient(i, c)
       \/ pong(i)
       \/ Close(i)
       \/ Vanish(i)
  \/ \E c \in Channels : sendToChannel(c)
  \/ checkSockets
  \/ gc
  \/ Tick

RegistrySpec == RegistryInit /\ [][RegistryNext]_registryVars

-------------------------------------------------------------------------------
(* Properties *)

SocketState == [channel : Channels, ready : {"OPEN", "CLOSED"}, pongAge : 0..AgeBound]

RegistryTypeOK ==
  /\ Tracked \subseteq SocketIds /\ sockets \in [Tracked -> SocketState]
  /\ DOMAIN channels \subseteq Channels
  /\ channels \in [DOMAIN channels -> (SUBSET SocketIds) \ {{}}]
  /\ clients \in [SocketIds -> {"absent", "live", "gone"}]
  /\ DOMAIN pinged \subseteq SocketIds /\ pinged \in [DOMAIN pinged -> 0..PongWithin]
  /\ nextCheck \in 0..pingSocketsIntervalMs /\ nextGc \in 0..gcChannelsIntervalMs
  /\ deadFor \in [SocketIds -> 0..AgeBound]

\* A client that answers its pings keeps its socket, and is listed for its channel, so
\* that it gets the channel's events, whatever else of the channel is cleaned up.
LiveClientsAreServed ==
  \A i \in SocketIds :
    clients[i] = "live" => i \in Tracked /\ i \in channels[sockets[i].channel]

\* What a client that went away leaves behind is reclaimed in time: its socket by the
\* check after its timeout, its place in the channel by the collection after that.
GoneClientsAreReclaimed ==
  \A i \in SocketIds :
    clients[i] = "gone" =>
      /\ i \in Tracked => deadFor[i] <= socketResponseTimeoutMs + pingSocketsIntervalMs
      /\ i \in Listed =>
           deadFor[i] <= socketResponseTimeoutMs + pingSocketsIntervalMs + gcChannelsIntervalMs
===============================================================================
