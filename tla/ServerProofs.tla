------------------------------- MODULE ServerProofs -------------------------------
(***************************************************************************)
(* Proofs about the parts of the server that keep, compute or send what is *)
(* shown: the registries of the WebSocket server (SocketRegistry), the     *)
(* cache of chart data (ChartDataCache), the limit of time series          *)
(* (SeriesQuery) and the beat of the reports (ReportCron).                 *)
(***************************************************************************)
EXTENDS SocketRegistry, ChartDataCache, SeriesQuery, ReportCron, FiniteSetTheorems, TLAPS

(***************************************************************************)
(* The WebSocket server keeps the sockets of the clients that answer their *)
(* pings, for every number of connections and channels and every setting   *)
(* of the timers that leaves a client time to answer. The invariant bounds *)
(* the age of a pong: without a ping on its way it is no greater than the  *)
(* time since the last check, and with one it exceeds the age of the ping  *)
(* by at most one interval. At a check no live client is overdue, for an   *)
(* interval and the time of an answer are less than the timeout. A second  *)
(* one, GoneInv, bounds what clients leave behind.                         *)
(***************************************************************************)
Live(i) == clients[i] = "live"

\* Only live clients have pings to answer.
PingsAreOfLive == \A i \in DOMAIN pinged : Live(i)

\* A live client has an open socket, listed for its channel.
LiveAreListed ==
  \A i \in SocketIds :
    Live(i) => /\ i \in Tracked /\ sockets[i].ready = "OPEN"
               /\ sockets[i].channel \in DOMAIN channels
               /\ i \in channels[sockets[i].channel]

\* How old a pong may be.
PongsAreRecent ==
  \A i \in SocketIds :
    Live(i) => IF i \in DOMAIN pinged
               THEN sockets[i].pongAge <= pingSocketsIntervalMs + pinged[i]
               ELSE sockets[i].pongAge <= pingSocketsIntervalMs - nextCheck

RegistryInv == RegistryTypeOK /\ PingsAreOfLive /\ LiveAreListed /\ PongsAreRecent

-------------------------------------------------------------------------------
(* Ages and lists *)

\* An age that is counted up stays an age and grows by at most one.
LEMMA OlderIsAge ==
  ASSUME NEW n \in 0..AgeBound
  PROVE  Older(n) \in 0..AgeBound /\ Older(n) <= n + 1
BY TimersAssumption DEF Older, AgeBound

\* What cleaning some channels leaves: every list with its active sockets.
LEMMA CleanKeepsActive ==
  ASSUME RegistryTypeOK, NEW S
  PROVE  /\ DOMAIN cleanChannels(S) \subseteq DOMAIN channels
         /\ cleanChannels(S) \in [DOMAIN cleanChannels(S) -> (SUBSET SocketIds) \ {{}}]
         /\ \A c \in DOMAIN channels : \A i \in channels[c] :
              Active(i) => c \in DOMAIN cleanChannels(S) /\ i \in cleanChannels(S)[c]
<1> DEFINE kept == [c \in DOMAIN channels |->
                      IF c \in S THEN {i \in channels[c] : Active(i)} ELSE channels[c]]
           emptied == {c \in S : kept[c] = {}}
<1>1. cleanChannels(S) = Forget(kept, emptied)
  BY DEF cleanChannels
<1>2. /\ DOMAIN kept = DOMAIN channels
      /\ \A c \in DOMAIN channels : kept[c] \subseteq channels[c]
      /\ \A c \in DOMAIN channels : c \notin S => kept[c] = channels[c]
      /\ \A c \in DOMAIN channels : \A i \in channels[c] : Active(i) => i \in kept[c]
  OBVIOUS
<1>3. \A c \in DOMAIN channels : channels[c] \in (SUBSET SocketIds) \ {{}}
  BY DEF RegistryTypeOK
<1> HIDE DEF kept
<1>4. /\ DOMAIN Forget(kept, emptied) = DOMAIN channels \ emptied
      /\ \A c \in DOMAIN channels \ emptied : Forget(kept, emptied)[c] = kept[c]
  BY <1>2 DEF Forget
<1>5. \A c \in DOMAIN channels \ emptied : kept[c] \in (SUBSET SocketIds) \ {{}}
  <2> TAKE c \in DOMAIN channels \ emptied
  <2>1. kept[c] # {}
    BY <1>2, <1>3
  <2> QED
    BY <2>1, <1>2, <1>3
<1>6. Forget(kept, emptied) \in [DOMAIN channels \ emptied -> (SUBSET SocketIds) \ {{}}]
  BY <1>4, <1>5 DEF Forget
<1>7. \A c \in DOMAIN channels : \A i \in channels[c] :
        Active(i) => c \notin emptied /\ i \in kept[c]
  BY <1>2
<1> QED
  BY <1>1, <1>4, <1>6, <1>7

-------------------------------------------------------------------------------
(* The invariant *)

LEMMA InitEstablishes == RegistryInit => RegistryInv
BY TimersAssumption DEF RegistryInit, RegistryInv, RegistryTypeOK, PingsAreOfLive,
   LiveAreListed, PongsAreRecent, Tracked, Live, AgeBound

\* At a check no live client is overdue.
LEMMA NoneOverdue ==
  ASSUME RegistryInv, nextCheck = 0, NEW i \in SocketIds, Live(i)
  PROVE  /\ i \in Tracked /\ ~Unresponsive(i) /\ Active(i)
         /\ i \notin DOMAIN pinged => sockets[i].pongAge <= pingSocketsIntervalMs
BY TimersAssumption DEF RegistryInv, RegistryTypeOK, LiveAreListed, PongsAreRecent,
   Unresponsive, Active, Tracked, SocketState

LEMMA StepPreserves == RegistryInv /\ [RegistryNext]_registryVars => RegistryInv'
<1> SUFFICES ASSUME RegistryInv, [RegistryNext]_registryVars
             PROVE  RegistryInv'
  OBVIOUS
<1> USE TimersAssumption
<1>t. AgeBound \in Nat /\ 0 \in 0..AgeBound
  BY DEF AgeBound
<1>d. \A i \in DOMAIN sockets : sockets[i] \in SocketState
  BY DEF RegistryInv, RegistryTypeOK, Tracked
<1>f. /\ DOMAIN sockets \subseteq SocketIds /\ sockets \in [DOMAIN sockets -> SocketState]
      /\ DOMAIN channels \subseteq Channels
      /\ channels \in [DOMAIN channels -> (SUBSET SocketIds) \ {{}}]
      /\ DOMAIN pinged \subseteq SocketIds /\ pinged \in [DOMAIN pinged -> 0..PongWithin]
  BY DEF RegistryInv, RegistryTypeOK, Tracked
<1>1. ASSUME NEW i \in SocketIds, NEW c \in Channels, trackClient(i, c)
      PROVE  RegistryInv'
  <2>s. [channel |-> c, ready |-> "OPEN", pongAge |-> 0] \in SocketState
    BY <1>t DEF SocketState
  <2>l. listed(c, i) \in (SUBSET SocketIds) \ {{}} /\ i \in listed(c, i)
    BY DEF listed, RegistryInv, RegistryTypeOK
  <2>1. /\ DOMAIN sockets' = Tracked \cup {i} /\ DOMAIN sockets' \subseteq SocketIds
        /\ sockets' \in [DOMAIN sockets' -> SocketState]
        /\ sockets'[i] = [channel |-> c, ready |-> "OPEN", pongAge |-> 0]
        /\ \A x \in Tracked : x # i => sockets'[x] = sockets[x]
    <3> DEFINE v == [channel |-> c, ready |-> "OPEN", pongAge |-> 0]
    <3>1. sockets' = Put(sockets, i, v) /\ Tracked = DOMAIN sockets
      BY <1>1 DEF trackClient, Tracked
    <3>2. v \in SocketState
      BY <2>s
    <3> HIDE DEF v
    <3>3. /\ DOMAIN Put(sockets, i, v) = DOMAIN sockets \cup {i}
          /\ DOMAIN Put(sockets, i, v) \subseteq SocketIds
          /\ Put(sockets, i, v) \in [DOMAIN Put(sockets, i, v) -> SocketState]
          /\ Put(sockets, i, v)[i] = v
          /\ \A x \in DOMAIN sockets : x # i => Put(sockets, i, v)[x] = sockets[x]
      BY <1>f, <3>2 DEF Put
    <3> QED
      BY <3>1, <3>3 DEF v
  <2>2. /\ DOMAIN channels' = DOMAIN channels \cup {c} /\ DOMAIN channels' \subseteq Channels
        /\ channels' \in [DOMAIN channels' -> (SUBSET SocketIds) \ {{}}]
        /\ channels'[c] = listed(c, i)
        /\ \A x \in DOMAIN channels : x # c => channels'[x] = channels[x]
    <3> DEFINE v == listed(c, i)
    <3>1. channels' = Put(channels, c, v)
      BY <1>1 DEF trackClient
    <3>2. v \in (SUBSET SocketIds) \ {{}}
      BY <2>l
    <3> HIDE DEF v
    <3>3. /\ DOMAIN Put(channels, c, v) = DOMAIN channels \cup {c}
          /\ DOMAIN Put(channels, c, v) \subseteq Channels
          /\ Put(channels, c, v) \in [DOMAIN Put(channels, c, v) -> (SUBSET SocketIds) \ {{}}]
          /\ Put(channels, c, v)[c] = v
          /\ \A x \in DOMAIN channels : x # c => Put(channels, c, v)[x] = channels[x]
      BY <1>f, <3>2 DEF Put
    <3> QED
      BY <3>1, <3>3 DEF v
  <2>3. \A x \in DOMAIN channels : channels[x] \subseteq channels'[x]
    BY <2>2 DEF listed
  <2>4. i \notin DOMAIN pinged
    BY <1>1 DEF trackClient, RegistryInv, PingsAreOfLive, Live
  <2>5. RegistryTypeOK'
    BY <1>1, <2>1, <2>2 DEF trackClient, RegistryInv, RegistryTypeOK, Tracked
  <2>6. \A x \in SocketIds : x # i => clients'[x] = clients[x]
    BY <1>1 DEF trackClient, RegistryInv, RegistryTypeOK
  <2>7. PingsAreOfLive'
    BY <1>1, <2>4, <2>6 DEF trackClient, RegistryInv, RegistryTypeOK, PingsAreOfLive, Live
  <2>8. LiveAreListed'
    BY <2>1, <2>2, <2>3, <2>6, <2>l DEF RegistryInv, LiveAreListed, Live, Tracked
  <2>9. PongsAreRecent'
    <3> SUFFICES ASSUME NEW x \in SocketIds, Live(x)'
                 PROVE  IF x \in DOMAIN pinged'
                        THEN sockets'[x].pongAge <= pingSocketsIntervalMs + pinged'[x]
                        ELSE sockets'[x].pongAge <= pingSocketsIntervalMs - nextCheck'
      BY DEF PongsAreRecent
    <3>1. CASE x = i
      BY <3>1, <1>1, <2>1, <2>4 DEF trackClient, RegistryInv, RegistryTypeOK
    <3>2. CASE x # i
      BY <3>2, <1>1, <2>1, <2>6
         DEF trackClient, RegistryInv, PongsAreRecent, LiveAreListed, Live
    <3> QED
      BY <3>1, <3>2
  <2> QED
    BY <2>5, <2>7, <2>8, <2>9 DEF RegistryInv
<1>2. ASSUME NEW i \in SocketIds, pong(i)
      PROVE  RegistryInv'
  <2>1. Live(i) /\ i \in Tracked
    BY <1>2 DEF pong, Live, RegistryInv, LiveAreListed
  <2>2. sockets' = [sockets EXCEPT ![i].pongAge = 0]
    BY <1>2, <2>1 DEF pong
  <2>3. /\ DOMAIN pinged' = DOMAIN pinged \ {i} /\ DOMAIN pinged' \subseteq SocketIds
        /\ pinged' \in [DOMAIN pinged' -> 0..PongWithin]
        /\ \A x \in DOMAIN pinged \ {i} : pinged'[x] = pinged[x]
    <3>1. pinged' = Forget(pinged, {i})
      BY <1>2 DEF pong
    <3> QED
      BY <3>1, <1>f DEF Forget
  <2>4. /\ DOMAIN sockets' = DOMAIN sockets
        /\ sockets' \in [DOMAIN sockets -> SocketState]
        /\ sockets'[i].pongAge = 0
        /\ \A x \in DOMAIN sockets : /\ sockets'[x].channel = sockets[x].channel
                                     /\ sockets'[x].ready = sockets[x].ready
                                     /\ x # i => sockets'[x] = sockets[x]
    BY <2>1, <2>2, <1>d, <1>t DEF RegistryInv, RegistryTypeOK, SocketState, Tracked
  <2>5. RegistryTypeOK'
    BY <1>2, <2>3, <2>4 DEF pong, RegistryInv, RegistryTypeOK, Tracked
  <2>6. PingsAreOfLive'
    BY <1>2, <2>3 DEF pong, RegistryInv, PingsAreOfLive, Live
  <2>7. LiveAreListed'
    BY <1>2, <2>4 DEF pong, RegistryInv, LiveAreListed, Live, Tracked
  <2>8. PongsAreRecent'
    <3> SUFFICES ASSUME NEW x \in SocketIds, Live(x)'
                 PROVE  IF x \in DOMAIN pinged'
                        THEN sockets'[x].pongAge <= pingSocketsIntervalMs + pinged'[x]
                        ELSE sockets'[x].pongAge <= pingSocketsIntervalMs - nextCheck'
      BY DEF PongsAreRecent
    <3>1. CASE x = i
      BY <3>1, <1>2, <2>3, <2>4 DEF pong, RegistryInv, RegistryTypeOK
    <3>2. CASE x # i
      BY <3>2, <1>2, <2>3, <2>4
         DEF pong, RegistryInv, PongsAreRecent, LiveAreListed, Live, Tracked
    <3> QED
      BY <3>1, <3>2
  <2> QED
    BY <2>5, <2>6, <2>7, <2>8 DEF RegistryInv
<1>3. ASSUME NEW i \in SocketIds, Close(i) \/ Vanish(i)
      PROVE  RegistryInv'
  <2>1. /\ DOMAIN pinged' = DOMAIN pinged \ {i} /\ DOMAIN pinged' \subseteq SocketIds
        /\ pinged' \in [DOMAIN pinged' -> 0..PongWithin]
        /\ \A x \in DOMAIN pinged \ {i} : pinged'[x] = pinged[x]
    <3>1. pinged' = Forget(pinged, {i})
      BY <1>3 DEF Close, Vanish
    <3> QED
      BY <3>1, <1>f DEF Forget
  <2>2. /\ DOMAIN sockets' = DOMAIN sockets
        /\ sockets' \in [DOMAIN sockets -> SocketState]
        /\ \A x \in DOMAIN sockets : x # i => sockets'[x] = sockets[x]
    BY <1>3, <1>d DEF Close, Vanish, RegistryInv, RegistryTypeOK, SocketState, Tracked
  <2>3. /\ clients' \in [SocketIds -> {"absent", "live", "gone"}]
        /\ clients'[i] = "gone"
        /\ \A x \in SocketIds : x # i => clients'[x] = clients[x]
    BY <1>3 DEF Close, Vanish, RegistryInv, RegistryTypeOK
  <2>4. UNCHANGED <<channels, nextCheck, nextGc, deadFor>>
    BY <1>3 DEF Close, Vanish
  <2>5. RegistryTypeOK'
    BY <2>1, <2>2, <2>3, <2>4 DEF RegistryInv, RegistryTypeOK, Tracked
  <2>6. PingsAreOfLive'
    BY <2>1, <2>3 DEF RegistryInv, RegistryTypeOK, PingsAreOfLive, Live
  <2>7. LiveAreListed'
    BY <2>2, <2>3, <2>4 DEF RegistryInv, LiveAreListed, Live, Tracked
  <2>8. PongsAreRecent'
    <3> SUFFICES ASSUME NEW x \in SocketIds, Live(x)'
                 PROVE  IF x \in DOMAIN pinged'
                        THEN sockets'[x].pongAge <= pingSocketsIntervalMs + pinged'[x]
                        ELSE sockets'[x].pongAge <= pingSocketsIntervalMs - nextCheck'
      BY DEF PongsAreRecent
    <3>1. x # i /\ Live(x)
      BY <2>3 DEF Live
    <3> QED
      BY <3>1, <2>1, <2>2, <2>4 DEF RegistryInv, PongsAreRecent, LiveAreListed, Tracked
  <2> QED
    BY <2>5, <2>6, <2>7, <2>8 DEF RegistryInv
<1>4. ASSUME NEW S, channels' = cleanChannels(S), UNCHANGED <<sockets, clients, pinged, nextCheck, deadFor>>,
             nextGc' \in 0..gcChannelsIntervalMs
      PROVE  RegistryInv'
  <2>1. RegistryTypeOK
    BY DEF RegistryInv
  <2>2. RegistryTypeOK'
    BY <1>4, <2>1, CleanKeepsActive DEF RegistryTypeOK, Tracked
  <2>3. \A c \in DOMAIN channels : \A i \in channels[c] :
          Active(i) => c \in DOMAIN channels' /\ i \in channels'[c]
    BY <1>4, <2>1, CleanKeepsActive
  <2>4. LiveAreListed'
    BY <1>4, <2>3 DEF RegistryInv, LiveAreListed, Live, Tracked, Active
  <2>5. PingsAreOfLive' /\ PongsAreRecent'
    BY <1>4 DEF RegistryInv, PingsAreOfLive, PongsAreRecent, Live
  <2> QED
    BY <2>2, <2>4, <2>5 DEF RegistryInv
<1>5. ASSUME NEW c \in Channels, sendToChannel(c)
      PROVE  RegistryInv'
  BY <1>4, <1>5 DEF sendToChannel, RegistryInv, RegistryTypeOK
<1>6. CASE gc
  BY <1>4, <1>6 DEF gc
<1>7. CASE checkSockets
  <2> DEFINE kept == {i \in Tracked : ~Unresponsive(i) /\ Active(i)}
  <2>1. /\ nextCheck = 0 /\ nextCheck' = pingSocketsIntervalMs
        /\ sockets' = Forget(sockets, Tracked \ kept)
        /\ pinged' = [i \in DOMAIN pinged \cup {k \in kept : clients[k] = "live"} |->
                        IF i \in DOMAIN pinged THEN pinged[i] ELSE 0]
        /\ UNCHANGED <<channels, clients, nextGc, deadFor>>
    BY <1>7 DEF checkSockets
  <2>2. \A i \in SocketIds : Live(i) =>
           i \in kept /\ (i \notin DOMAIN pinged => sockets[i].pongAge <= pingSocketsIntervalMs)
    BY <2>1, NoneOverdue
  <2>3. kept \subseteq Tracked /\ kept \subseteq SocketIds
    BY DEF RegistryInv, RegistryTypeOK
  <2> HIDE DEF kept
  <2>4. /\ DOMAIN sockets' = kept
        /\ sockets' \in [DOMAIN sockets' -> SocketState]
        /\ \A i \in kept : sockets'[i] = sockets[i]
    <3>1. /\ DOMAIN sockets' = DOMAIN sockets \ (Tracked \ kept)
          /\ sockets' \in [DOMAIN sockets' -> SocketState]
          /\ \A x \in DOMAIN sockets \ (Tracked \ kept) : sockets'[x] = sockets[x]
      <4>1. sockets' = Forget(sockets, Tracked \ kept)
        BY <2>1
      <4> QED
        BY <4>1, <1>f DEF Forget
    <3> QED
      BY <3>1, <2>3 DEF Tracked
  <2>5. /\ DOMAIN pinged' = DOMAIN pinged \cup {k \in kept : Live(k)}
        /\ \A i \in DOMAIN pinged' : pinged'[i] = IF i \in DOMAIN pinged THEN pinged[i] ELSE 0
        /\ pinged' = [i \in DOMAIN pinged' |-> pinged'[i]]
    BY <2>1 DEF Live
  <2>6. DOMAIN pinged' \subseteq SocketIds /\ pinged' \in [DOMAIN pinged' -> 0..PongWithin]
    <3>1. DOMAIN pinged' \subseteq SocketIds
      BY <2>5, <2>3, <1>f
    <3>2. \A i \in DOMAIN pinged' : pinged'[i] \in 0..PongWithin
      BY <2>5, <1>f
    <3>3. pinged' \in [DOMAIN pinged' -> 0..PongWithin]
      BY <3>2, <2>5
    <3> QED
      BY <3>1, <3>3
  <2>7. RegistryTypeOK'
    <3>1. /\ UNCHANGED <<channels, clients, nextGc, deadFor>>
          /\ nextCheck' \in 0..pingSocketsIntervalMs /\ RegistryTypeOK
      BY <2>1 DEF RegistryInv
    <3>2. DOMAIN sockets' \subseteq SocketIds
      BY <2>3, <2>4
    <3> QED
      BY <3>1, <3>2, <2>4, <2>6 DEF RegistryTypeOK, Tracked
  <2>8. PingsAreOfLive'
    BY <2>1, <2>5 DEF RegistryInv, PingsAreOfLive, Live
  <2>9. LiveAreListed'
    BY <2>1, <2>2, <2>4 DEF RegistryInv, LiveAreListed, Live, Tracked
  <2>10. PongsAreRecent'
    <3> SUFFICES ASSUME NEW x \in SocketIds, Live(x)'
                 PROVE  IF x \in DOMAIN pinged'
                        THEN sockets'[x].pongAge <= pingSocketsIntervalMs + pinged'[x]
                        ELSE sockets'[x].pongAge <= pingSocketsIntervalMs - nextCheck'
      BY DEF PongsAreRecent
    <3>1. Live(x) /\ x \in kept
      BY <2>1, <2>2 DEF Live
    <3>2. x \in DOMAIN pinged' /\ sockets'[x] = sockets[x]
      BY <3>1, <2>4, <2>5
    <3>3. CASE x \in DOMAIN pinged
      BY <3>1, <3>2, <3>3, <2>5 DEF RegistryInv, PongsAreRecent
    <3>4. CASE x \notin DOMAIN pinged
      BY <3>1, <3>2, <3>4, <2>2, <2>5
    <3> QED
      BY <3>3, <3>4
  <2> QED
    BY <2>7, <2>8, <2>9, <2>10 DEF RegistryInv
<1>8. CASE Tick
  <2>1. /\ nextCheck # 0 /\ nextGc # 0
        /\ nextCheck' = nextCheck - 1 /\ nextGc' = nextGc - 1
        /\ nextCheck \in 0..pingSocketsIntervalMs /\ nextGc \in 0..gcChannelsIntervalMs
        /\ UNCHANGED <<channels, clients>>
    BY <1>8 DEF Tick, Due, RegistryInv, RegistryTypeOK
  <2>2. /\ DOMAIN sockets' = DOMAIN sockets
        /\ \A i \in DOMAIN sockets :
             /\ sockets'[i].channel = sockets[i].channel
             /\ sockets'[i].ready = sockets[i].ready
             /\ sockets'[i].pongAge = Older(sockets[i].pongAge)
             /\ sockets'[i] \in SocketState
        /\ sockets' = [i \in DOMAIN sockets |-> sockets'[i]]
    <3>1. sockets' = [i \in DOMAIN sockets |-> [sockets[i] EXCEPT !.pongAge = Older(@)]]
      BY <1>8 DEF Tick, Tracked
    <3>2. ASSUME NEW i \in DOMAIN sockets
          PROVE  /\ sockets[i].pongAge \in 0..AgeBound
                 /\ Older(sockets[i].pongAge) \in 0..AgeBound
      BY <1>d, OlderIsAge DEF SocketState
    <3> QED
      BY <3>1, <3>2, <1>d DEF SocketState
  <2>3. /\ DOMAIN pinged' = DOMAIN pinged
        /\ \A i \in DOMAIN pinged : /\ pinged[i] \in 0..PongWithin
                                    /\ pinged'[i] = pinged[i] + 1
                                    /\ pinged'[i] \in 0..PongWithin
        /\ pinged' = [i \in DOMAIN pinged |-> pinged'[i]]
    BY <1>8 DEF Tick, RegistryInv, RegistryTypeOK
  <2>4. deadFor' \in [SocketIds -> 0..AgeBound]
    <3>1. \A i \in SocketIds : Older(deadFor[i]) \in 0..AgeBound
      BY OlderIsAge DEF RegistryInv, RegistryTypeOK
    <3> QED
      <4>1. deadFor' = [i \in SocketIds |-> IF clients[i] = "gone" THEN Older(deadFor[i]) ELSE 0]
        BY <1>8 DEF Tick
      <4> QED
        BY <3>1, <4>1, <1>t
  <2>5. RegistryTypeOK'
    <3>1. sockets' \in [DOMAIN sockets' -> SocketState]
      BY <2>2
    <3>2. pinged' \in [DOMAIN pinged' -> 0..PongWithin]
      BY <2>3
    <3>3. UNCHANGED <<channels, clients>> /\ RegistryTypeOK
      BY <2>1 DEF RegistryInv
    <3>4. nextCheck' \in 0..pingSocketsIntervalMs /\ nextGc' \in 0..gcChannelsIntervalMs
      BY <2>1
    <3>5. DOMAIN sockets' \subseteq SocketIds /\ DOMAIN pinged' \subseteq SocketIds
      BY <1>f, <2>2, <2>3
    <3> QED
      BY <3>1, <3>2, <3>3, <3>4, <3>5, <2>4 DEF RegistryTypeOK, Tracked
  <2>6. PingsAreOfLive'
    BY <2>1, <2>3 DEF RegistryInv, PingsAreOfLive, Live
  <2>7. LiveAreListed'
    BY <2>1, <2>2 DEF RegistryInv, LiveAreListed, Live, Tracked
  <2>8. PongsAreRecent'
    <3> SUFFICES ASSUME NEW x \in SocketIds, Live(x)'
                 PROVE  IF x \in DOMAIN pinged'
                        THEN sockets'[x].pongAge <= pingSocketsIntervalMs + pinged'[x]
                        ELSE sockets'[x].pongAge <= pingSocketsIntervalMs - nextCheck'
      BY DEF PongsAreRecent
    <3>1. Live(x) /\ x \in DOMAIN sockets
      BY <2>1 DEF Live, RegistryInv, LiveAreListed, Tracked
    <3>2. sockets[x].pongAge \in 0..AgeBound
      BY <3>1, <1>d DEF SocketState
    <3>3. sockets'[x].pongAge \in 0..AgeBound /\ sockets'[x].pongAge <= sockets[x].pongAge + 1
      BY <3>1, <3>2, <2>2, OlderIsAge
    <3>4. CASE x \in DOMAIN pinged
      <4>1. sockets[x].pongAge <= pingSocketsIntervalMs + pinged[x]
        BY <3>1, <3>4 DEF RegistryInv, PongsAreRecent
      <4> QED
        BY <4>1, <3>2, <3>3, <3>4, <2>3, <1>t
    <3>5. CASE x \notin DOMAIN pinged
      <4>1. sockets[x].pongAge <= pingSocketsIntervalMs - nextCheck
        BY <3>1, <3>5 DEF RegistryInv, PongsAreRecent
      <4> QED
        BY <4>1, <3>2, <3>3, <3>5, <2>1, <2>3, <1>t
    <3> QED
      BY <3>4, <3>5
  <2> QED
    BY <2>5, <2>6, <2>7, <2>8 DEF RegistryInv
<1>9. CASE UNCHANGED registryVars
  BY <1>9 DEF registryVars, RegistryInv, RegistryTypeOK, PingsAreOfLive, LiveAreListed,
     PongsAreRecent, Live, Tracked
<1> QED
  BY <1>1, <1>2, <1>3, <1>5, <1>6, <1>7, <1>8, <1>9 DEF RegistryNext

-------------------------------------------------------------------------------
(* What clients that went away leave behind *)

\* The clock of a client that went away starts at zero.
ClocksStart == \A i \in SocketIds : clients[i] # "gone" => deadFor[i] = 0

\* A socket of a client that went away has not had a pong since; it is dropped by the
\* check after it is overdue.
GoneSocketsAge ==
  \A i \in SocketIds :
    clients[i] = "gone" /\ i \in Tracked =>
      /\ deadFor[i] <= sockets[i].pongAge \/ sockets[i].ready = "CLOSED"
      /\ deadFor[i] <= socketResponseTimeoutMs + pingSocketsIntervalMs - nextCheck

\* A place in a channel outlasts the socket by one interval of the collection.
GonePlacesAge ==
  \A i \in SocketIds :
    clients[i] = "gone" /\ i \in Listed =>
      deadFor[i] <= socketResponseTimeoutMs + pingSocketsIntervalMs
                      + gcChannelsIntervalMs - nextGc

GoneInv == ClocksStart /\ GoneSocketsAge /\ GonePlacesAge

LEMMA GoneInit == RegistryInit => GoneInv
BY TimersAssumption DEF RegistryInit, GoneInv, ClocksStart, GoneSocketsAge, GonePlacesAge, Tracked

\* Cleaning lists nobody anew, and of a cleaned channel only active sockets remain.
LEMMA CleanListsNobody ==
  ASSUME RegistryTypeOK, NEW S, channels' = cleanChannels(S), NEW i \in Listed'
  PROVE  i \in Listed /\ (S = DOMAIN channels => Active(i))
<1> DEFINE kept == [c \in DOMAIN channels |->
                      IF c \in S THEN {k \in channels[c] : Active(k)} ELSE channels[c]]
<1>1. channels' = [c \in DOMAIN channels \ {d \in S : kept[d] = {}} |-> kept[c]]
  BY DEF cleanChannels, Forget
<1>2. PICK c \in DOMAIN channels : i \in kept[c]
  BY <1>1 DEF Listed
<1>3. i \in channels[c] /\ (c \in S => Active(i))
  BY <1>2
<1> QED
  BY <1>3 DEF Listed

LEMMA GoneStep == RegistryInv /\ GoneInv /\ [RegistryNext]_registryVars => GoneInv'
<1> SUFFICES ASSUME RegistryInv, GoneInv, [RegistryNext]_registryVars
             PROVE  GoneInv'
  OBVIOUS
<1> USE TimersAssumption
<1>t. /\ RegistryTypeOK
      /\ nextCheck \in 0..pingSocketsIntervalMs /\ nextGc \in 0..gcChannelsIntervalMs
      /\ deadFor \in [SocketIds -> 0..AgeBound] /\ AgeBound \in Nat
      /\ clients \in [SocketIds -> {"absent", "live", "gone"}]
  BY DEF RegistryInv, RegistryTypeOK, AgeBound
<1>d. \A i \in Tracked : sockets[i] \in SocketState /\ sockets[i].pongAge \in 0..AgeBound
  BY DEF RegistryInv, RegistryTypeOK, SocketState
<1>1. ASSUME NEW i \in SocketIds, NEW c \in Channels, trackClient(i, c)
      PROVE  GoneInv'
  <2>1. /\ UNCHANGED <<deadFor, nextCheck, nextGc>>
        /\ \A x \in SocketIds : clients'[x] = "gone" => x # i /\ clients[x] = "gone"
        /\ \A x \in SocketIds : clients[x] = "gone" => clients'[x] = "gone"
    BY <1>1, <1>t DEF trackClient
  <2>2. \A x \in Tracked' : x # i => x \in Tracked /\ sockets'[x] = sockets[x]
    BY <1>1 DEF trackClient, Put, Tracked
  <2>3. \A x \in Listed' : x # i => x \in Listed
    <3>1. channels' = [k \in DOMAIN channels \cup {c} |->
                          IF k = c THEN listed(c, i) ELSE channels[k]]
      BY <1>1 DEF trackClient, Put
    <3> SUFFICES ASSUME NEW x \in Listed', x # i
                 PROVE  x \in Listed
      OBVIOUS
    <3>2. PICK k \in DOMAIN channels \cup {c} : x \in channels'[k]
      BY <3>1 DEF Listed
    <3>3. k \in DOMAIN channels /\ x \in channels[k]
      BY <3>1, <3>2 DEF listed
    <3> QED
      BY <3>3 DEF Listed
  <2>4. ClocksStart'
    BY <2>1 DEF GoneInv, ClocksStart
  <2>5. GoneSocketsAge' /\ GonePlacesAge'
    BY <2>1, <2>2, <2>3 DEF GoneInv, GoneSocketsAge, GonePlacesAge
  <2> QED
    BY <2>4, <2>5 DEF GoneInv
<1>2. ASSUME NEW i \in SocketIds, pong(i)
      PROVE  GoneInv'
  <2>1. UNCHANGED <<deadFor, nextCheck, nextGc, clients, channels>> /\ clients[i] = "live"
    BY <1>2 DEF pong
  <2>2. \A x \in Tracked' : x # i => x \in Tracked /\ sockets'[x] = sockets[x]
    BY <1>2 DEF pong, Tracked
  <2> QED
    BY <2>1, <2>2 DEF GoneInv, ClocksStart, GoneSocketsAge, GonePlacesAge, Listed
<1>3. ASSUME NEW i \in SocketIds, Close(i) \/ Vanish(i)
      PROVE  GoneInv'
  <2>1. /\ UNCHANGED <<deadFor, nextCheck, nextGc, channels>>
        /\ \A x \in SocketIds : x # i => clients'[x] = clients[x]
    BY <1>3, <1>t DEF Close, Vanish
  <2>2. deadFor[i] = 0 /\ clients'[i] = "gone"
    BY <1>3, <1>t DEF Close, Vanish, GoneInv, ClocksStart
  <2>3. \A x \in Tracked' : /\ x \in Tracked
                            /\ sockets'[x].pongAge = sockets[x].pongAge
                            /\ x # i => sockets'[x] = sockets[x]
    BY <1>3, <1>d DEF Close, Vanish, Tracked, SocketState
  <2>4. ClocksStart'
    BY <2>1, <2>2 DEF GoneInv, ClocksStart
  <2>5. GoneSocketsAge'
    <3> SUFFICES ASSUME NEW x \in SocketIds, clients'[x] = "gone", x \in Tracked'
                 PROVE  /\ deadFor'[x] <= sockets'[x].pongAge \/ sockets'[x].ready = "CLOSED"
                        /\ deadFor'[x] <= socketResponseTimeoutMs + pingSocketsIntervalMs - nextCheck'
      BY DEF GoneSocketsAge
    <3>1. CASE x = i
      BY <3>1, <2>1, <2>2, <2>3, <1>t, <1>d
    <3>2. CASE x # i
      BY <3>2, <2>1, <2>3 DEF GoneInv, GoneSocketsAge
    <3> QED
      BY <3>1, <3>2
  <2>6. GonePlacesAge'
    BY <2>1, <2>2, <1>t DEF GoneInv, GonePlacesAge, Listed
  <2> QED
    BY <2>4, <2>5, <2>6 DEF GoneInv
<1>4. ASSUME NEW c \in Channels, sendToChannel(c)
      PROVE  GoneInv'
  <2>1. /\ UNCHANGED <<deadFor, nextCheck, nextGc, clients, sockets>>
        /\ channels' = cleanChannels({c})
    BY <1>4 DEF sendToChannel
  <2>2. \A i \in Listed' : i \in Listed
    BY <2>1, <1>t, CleanListsNobody
  <2> QED
    BY <2>1, <2>2 DEF GoneInv, ClocksStart, GoneSocketsAge, GonePlacesAge, Tracked
<1>5. CASE checkSockets
  <2>1. /\ nextCheck = 0 /\ nextCheck' = pingSocketsIntervalMs
        /\ UNCHANGED <<deadFor, nextGc, clients, channels>>
    BY <1>5 DEF checkSockets
  <2>2. \A i \in Tracked' : i \in Tracked /\ ~Unresponsive(i) /\ Active(i)
                            /\ sockets'[i] = sockets[i]
    BY <1>5 DEF checkSockets, Forget, Tracked
  <2>3. GoneSocketsAge'
    <3> SUFFICES ASSUME NEW x \in SocketIds, clients'[x] = "gone", x \in Tracked'
                 PROVE  /\ deadFor'[x] <= sockets'[x].pongAge
                        /\ deadFor'[x] <= socketResponseTimeoutMs + pingSocketsIntervalMs - nextCheck'
      BY DEF GoneSocketsAge
    <3>1. x \in Tracked /\ sockets'[x] = sockets[x] /\ sockets[x].ready = "OPEN"
          /\ sockets[x].pongAge < socketResponseTimeoutMs
      BY <2>2, <1>d DEF Unresponsive, Active
    <3>2. deadFor[x] <= sockets[x].pongAge
      BY <3>1, <2>1 DEF GoneInv, GoneSocketsAge
    <3> QED
      BY <3>1, <3>2, <2>1, <1>t, <1>d
  <2> QED
    BY <2>1, <2>3 DEF GoneInv, ClocksStart, GonePlacesAge, Listed
<1>6. CASE gc
  <2>1. /\ UNCHANGED <<deadFor, nextCheck, clients, sockets>>
        /\ nextGc = 0 /\ nextGc' = gcChannelsIntervalMs
        /\ channels' = cleanChannels(DOMAIN channels)
    BY <1>6 DEF gc
  <2>2. \A i \in Listed' : i \in Tracked
    BY <2>1, <1>t, CleanListsNobody DEF Active
  <2>3. GonePlacesAge'
    BY <2>1, <2>2, <1>t DEF GoneInv, GoneSocketsAge, GonePlacesAge
  <2> QED
    BY <2>1, <2>3 DEF GoneInv, ClocksStart, GoneSocketsAge, Tracked
<1>7. CASE Tick
  <2>1. /\ UNCHANGED <<channels, clients>>
        /\ nextCheck' = nextCheck - 1 /\ nextGc' = nextGc - 1
    BY <1>7 DEF Tick
  <2>2. \A i \in SocketIds :
          /\ clients[i] = "gone" => deadFor'[i] = Older(deadFor[i])
          /\ clients[i] # "gone" => deadFor'[i] = 0
    BY <1>7 DEF Tick
  <2>3. \A i \in SocketIds : Older(deadFor[i]) \in 0..AgeBound /\ Older(deadFor[i]) <= deadFor[i] + 1
    BY <1>t, OlderIsAge
  <2>4. \A i \in Tracked' : /\ i \in Tracked
                            /\ sockets'[i].pongAge = Older(sockets[i].pongAge)
                            /\ sockets'[i].ready = sockets[i].ready
    BY <1>7, <1>d DEF Tick, Tracked, SocketState
  <2>5. GoneSocketsAge'
    <3> SUFFICES ASSUME NEW x \in SocketIds, clients'[x] = "gone", x \in Tracked'
                 PROVE  /\ deadFor'[x] <= sockets'[x].pongAge \/ sockets'[x].ready = "CLOSED"
                        /\ deadFor'[x] <= socketResponseTimeoutMs + pingSocketsIntervalMs - nextCheck'
      BY DEF GoneSocketsAge
    <3>1. /\ deadFor[x] <= sockets[x].pongAge \/ sockets[x].ready = "CLOSED"
          /\ deadFor[x] <= socketResponseTimeoutMs + pingSocketsIntervalMs - nextCheck
      BY <2>1, <2>4 DEF GoneInv, GoneSocketsAge
    <3>2. deadFor'[x] <= socketResponseTimeoutMs + pingSocketsIntervalMs - nextCheck'
      BY <3>1, <2>1, <2>2, <2>3, <1>t
    <3>3. ASSUME deadFor[x] <= sockets[x].pongAge
          PROVE  deadFor'[x] <= sockets'[x].pongAge
      BY <3>3, <2>1, <2>2, <2>4, <1>t, <1>d DEF Older
    <3> QED
      BY <3>1, <3>2, <3>3, <2>4
  <2>6. GonePlacesAge'
    <3> SUFFICES ASSUME NEW x \in SocketIds, clients'[x] = "gone", x \in Listed'
                 PROVE  deadFor'[x] <= socketResponseTimeoutMs + pingSocketsIntervalMs
                                         + gcChannelsIntervalMs - nextGc'
      BY DEF GonePlacesAge
    <3>1. deadFor[x] <= socketResponseTimeoutMs + pingSocketsIntervalMs
                          + gcChannelsIntervalMs - nextGc
      BY <2>1 DEF GoneInv, GonePlacesAge, Listed
    <3> QED
      BY <3>1, <2>1, <2>2, <2>3, <1>t
  <2>7. ClocksStart'
    BY <2>1, <2>2 DEF ClocksStart
  <2> QED
    BY <2>5, <2>6, <2>7 DEF GoneInv
<1>8. CASE UNCHANGED registryVars
  BY <1>8 DEF registryVars, GoneInv, ClocksStart, GoneSocketsAge, GonePlacesAge, Tracked, Listed
<1> QED
  BY <1>1, <1>2, <1>3, <1>4, <1>5, <1>6, <1>7, <1>8 DEF RegistryNext

-------------------------------------------------------------------------------
(* The theorems *)

\* The types hold: every key of the registries is a known connection or channel, no
\* channel is left registered without an id, and no ping waits longer than an answer.
THEOREM RegistryTypeCorrect == RegistrySpec => []RegistryTypeOK
<1>1. RegistryInv => RegistryTypeOK
  BY DEF RegistryInv
<1> QED
  BY InitEstablishes, StepPreserves, <1>1, PTL DEF RegistrySpec

\* A client that answers its pings keeps its socket and its place in its channel,
\* whichever sockets are terminated and channels collected around it.
THEOREM LiveAreServed == RegistrySpec => []LiveClientsAreServed
<1>1. RegistryInv => LiveClientsAreServed
  BY DEF RegistryInv, LiveAreListed, LiveClientsAreServed, Live
<1> QED
  BY InitEstablishes, StepPreserves, <1>1, PTL DEF RegistrySpec

\* Nothing of a client that went away is kept for longer than its timeout and the
\* interval of the timer that reclaims it, whether or not the server was told.
THEOREM GoneAreReclaimed == RegistrySpec => []GoneClientsAreReclaimed
<1>1. RegistryInv /\ GoneInv => GoneClientsAreReclaimed
  <2> SUFFICES ASSUME RegistryInv, GoneInv
               PROVE  GoneClientsAreReclaimed
    OBVIOUS
  <2>1. /\ nextCheck \in 0..pingSocketsIntervalMs /\ nextGc \in 0..gcChannelsIntervalMs
        /\ deadFor \in [SocketIds -> 0..AgeBound] /\ AgeBound \in Nat
    BY TimersAssumption DEF RegistryInv, RegistryTypeOK, AgeBound
  <2> QED
    BY <2>1, TimersAssumption DEF GoneInv, GoneSocketsAge, GonePlacesAge, GoneClientsAreReclaimed
<1> QED
  BY InitEstablishes, StepPreserves, GoneInit, GoneStep, <1>1, PTL DEF RegistrySpec

(***************************************************************************)
(* The cache of chart data, for any users, row level filters, questions    *)
(* and slots, and any number of requests, edits and losses. No property of *)
(* an answer is inductive: an answer is as good as the entry that it was   *)
(* read from, which another request stored. CacheInv says of every entry   *)
(* that its result is what its key promises, and of every request where it *)
(* stands between what it saw and what is there.                           *)
(***************************************************************************)
Results == [row : Nat, parts : Nat, data : Nat, filters : FilterSets]
Keys == Questions \X FilterSets \X Nat

Requests ==
  [phase : Waiting \cup Over, user : Readers, question : Questions, force : BOOLEAN,
   async : BOOLEAN, seen : [row : Nat, parts : Nat], row : Nat, since : Nat,
   answer : Results \cup {Nothing}, lost : BOOLEAN]

CacheTypes ==
  /\ dataset \in [row : Nat, parts : Nat] /\ source \in Nat
  /\ data_cache \subseteq [key : Keys, result : Results]
  /\ contexts \subseteq Questions
  /\ ask \in [Slots -> Requests \cup {NoAsk}]
  /\ asked \in 0..MaxAsked /\ moves \in 0..MaxMoves
  /\ dataset.row <= moves /\ dataset.parts <= moves /\ source <= moves

\* A result is of the filters and of the dataset's row that its key names, and there
\* is one result for a key.
KeepsPromise(e) == e.result.filters = e.key[2] /\ e.result.row = e.key[3]
EntriesAreSound ==
  /\ \A e \in data_cache : KeepsPromise(e)
  /\ \A d, e \in data_cache : d.key = e.key => d = e

\* What a request has seen is no newer than what there is.
SeesThePast(q) ==
  /\ q.seen.row <= q.row /\ q.row <= dataset.row
  /\ q.seen.parts <= dataset.parts /\ q.since <= source

\* An answer, given or about to be stored.
IsFresh(q) == q.answer.data >= q.since /\ q.answer.parts >= q.seen.parts
AnswerIsSound(q) ==
  /\ q.phase = "store" => /\ q.answer \in Results /\ q.answer.row = q.row
                          /\ q.answer.filters = Filters[q.user] /\ IsFresh(q)
  /\ q.phase = "answered" => /\ q.answer \in Results /\ q.answer.row >= q.seen.row
                             /\ q.answer.filters = Filters[q.user]
                             /\ q.force => IsFresh(q)
  /\ q.phase = "retrieve" => ~q.force

\* Until something is lost, what a job needs of the caches is there.
Kept(q) == \E e \in data_cache : e.key = <<q.question, Filters[q.user], q.row>>
JobIsServed(q) ==
  /\ q.phase \in Waiting /\ ~q.lost =>
       /\ q.row = dataset.row
       /\ q.phase \in {"cached", "done", "retrieve"} => Kept(q)
       /\ q.phase = "done" => q.question \in contexts
  /\ q.phase = "not found" => q.lost

SoundRequest(q) == SeesThePast(q) /\ AnswerIsSound(q) /\ JobIsServed(q)

CacheInv ==
  /\ CacheTypes /\ EntriesAreSound
  /\ \A r \in Slots : ask[r] # NoAsk => SoundRequest(ask[r])

-----------------------------------------------------------------------------
LEMMA NoAskHasNoPhase ==
  ASSUME CacheTypes, NEW r \in Slots, ask[r].phase # Nothing
  PROVE  ask[r] \in Requests /\ ask[r] # NoAsk
BY DEF CacheTypes, NoAsk

LEMMA InitCacheInv == CacheInit => CacheInv
BY CacheAssumption DEF CacheInit, CacheInv, CacheTypes, EntriesAreSound

(***************************************************************************)
(* A step that changes one request only, keeps the rest as it is: all that *)
(* is to show is that the request after the step is sound.                 *)
(***************************************************************************)
LEMMA OneRequest ==
  ASSUME CacheInv, NEW r \in Slots, NEW q \in Requests,
         ask' = [ask EXCEPT ![r] = q],
         UNCHANGED <<dataset, source, data_cache, contexts, moves>>,
         asked' \in 0..MaxAsked,
         SoundRequest(q)
  PROVE  CacheInv'
<1>1. CacheTypes'
  BY DEF CacheInv, CacheTypes
<1>2. EntriesAreSound'
  BY DEF CacheInv, EntriesAreSound
<1>3. ASSUME NEW s \in Slots, ask'[s] # NoAsk
      PROVE  SoundRequest(ask[s])'
  <2>1. SoundRequest(ask'[s])
    BY <1>3 DEF CacheInv, CacheTypes
  <2> QED
    BY <2>1 DEF SoundRequest, SeesThePast, AnswerIsSound, IsFresh, JobIsServed, Kept
<1> QED BY <1>1, <1>2, <1>3 DEF CacheInv

(***************************************************************************)
(* What is in the cache answers the requests whose key it has.             *)
(***************************************************************************)
LEMMA HitsAnswer ==
  ASSUME CacheInv, NEW r \in Slots, ask[r] \in Requests, NEW e \in Hits(KeyOf(r))
  PROVE  /\ e.result \in Results
         /\ e.result.filters = Filters[ask[r].user] /\ e.result.row = ask[r].row
BY DEF CacheInv, CacheTypes, EntriesAreSound, KeepsPromise, Hits, KeyOf, CacheKey, Keys, Requests

LEMMA AskStep ==
  ASSUME CacheInv, NEW r \in Slots, Ask(r)
  PROVE  CacheInv'
<1>1. PICK u \in Readers, q \in Questions, force \in BOOLEAN, async \in BOOLEAN :
        ask' = [ask EXCEPT ![r] =
                 [NoAsk EXCEPT !.phase = "lookup", !.user = u, !.question = q, !.force = force,
                               !.async = async, !.seen = dataset, !.row = dataset.row,
                               !.since = source]]
  BY DEF Ask
<1>2. PICK new : new = [NoAsk EXCEPT !.phase = "lookup", !.user = u, !.question = q,
                                     !.force = force, !.async = async, !.seen = dataset,
                                     !.row = dataset.row, !.since = source]
  OBVIOUS
<1>3. new \in Requests
  BY <1>2 DEF CacheInv, CacheTypes, NoAsk, Requests, Waiting
<1>4. SoundRequest(new)
  <2>1. /\ new.phase = "lookup" /\ new.seen = dataset /\ new.row = dataset.row
        /\ new.since = source
    BY <1>2 DEF NoAsk
  <2>2. SeesThePast(new)
    BY <2>1 DEF CacheInv, CacheTypes, SeesThePast
  <2>3. AnswerIsSound(new) /\ JobIsServed(new)
    BY <2>1 DEF AnswerIsSound, JobIsServed
  <2> QED BY <2>2, <2>3 DEF SoundRequest
<1>5. asked' \in 0..MaxAsked
  BY CacheAssumption DEF Ask, CacheInv, CacheTypes
<1> QED BY <1>1, <1>2, <1>3, <1>4, <1>5, OneRequest DEF Ask

LEMMA LookupStep ==
  ASSUME CacheInv, NEW r \in Slots, Lookup(r)
  PROVE  CacheInv'
<1>1. ask[r] \in Requests /\ SoundRequest(ask[r])
  BY NoAskHasNoPhase DEF CacheInv, Lookup, Nothing
<1>2. CASE \E e \in Entries(r) : Goes(r, "answered", e.result)
  <2>1. PICK e \in Entries(r) : Goes(r, "answered", e.result)
    BY <1>2
  <2>2. ~ask[r].force /\ e \in Hits(KeyOf(r))
    BY <2>1, <1>1 DEF Entries
  <2> DEFINE new == [ask[r] EXCEPT !.phase = "answered", !.answer = e.result]
  <2>3. /\ e.result \in Results
        /\ e.result.filters = Filters[ask[r].user] /\ e.result.row = ask[r].row
    BY <2>2, <1>1, HitsAnswer
  <2>4. new \in Requests /\ SoundRequest(new)
    BY <1>1, <2>2, <2>3 DEF Requests, Over, Waiting, SoundRequest, SeesThePast, AnswerIsSound, JobIsServed
  <2>5. ask' = [ask EXCEPT ![r] = new]
    BY <2>1 DEF Goes, CacheInv, CacheTypes
  <2> QED BY <2>4, <2>5, OneRequest DEF Lookup, CacheInv, CacheTypes
<1>3. CASE Goes(r, IF ask[r].async THEN "queued" ELSE "query", Nothing)
  <2> DEFINE next == IF ask[r].async THEN "queued" ELSE "query"
             new == [ask[r] EXCEPT !.phase = next, !.answer = Nothing]
  <2>1. new \in Requests /\ SoundRequest(new)
    BY <1>1 DEF Requests, Waiting, Lookup, SoundRequest, SeesThePast, AnswerIsSound, JobIsServed
  <2>2. ask' = [ask EXCEPT ![r] = new]
    BY <1>3 DEF Goes, CacheInv, CacheTypes
  <2> QED BY <2>1, <2>2, OneRequest DEF Lookup, CacheInv, CacheTypes
<1> QED BY <1>2, <1>3 DEF Lookup

LEMMA StartJobStep ==
  ASSUME CacheInv, NEW r \in Slots, StartJob(r)
  PROVE  CacheInv'
<1>1. ask[r] \in Requests /\ SoundRequest(ask[r])
  BY NoAskHasNoPhase DEF CacheInv, StartJob, Nothing
<1> DEFINE hits == IF ask[r].force THEN {}
                   ELSE Hits(CacheKey(ask[r].question, Filters[ask[r].user], dataset.row))
           new == [ask[r] EXCEPT !.row = dataset.row,
                                 !.phase = IF hits = {} THEN "query" ELSE "cached"]
<1>2. ask' = [ask EXCEPT ![r] = new]
  BY DEF StartJob, CacheInv, CacheTypes
<1>3. new \in Requests
  BY <1>1 DEF Requests, Waiting, CacheInv, CacheTypes
<1>4. hits # {} => \E e \in data_cache : e.key = <<ask[r].question, Filters[ask[r].user], dataset.row>>
  BY DEF Hits, CacheKey
<1>5. SoundRequest(new)
  <2>1. /\ new.phase \in {"query", "cached"} /\ new.row = dataset.row
        /\ new.phase = "cached" => hits # {}
        /\ \A f \in {"user", "question", "seen", "since", "lost"} : new[f] = ask[r][f]
    BY <1>1 DEF Requests
  <2>2. SeesThePast(new) /\ AnswerIsSound(new)
    BY <1>1, <2>1 DEF Requests, CacheInv, CacheTypes, SoundRequest, SeesThePast, AnswerIsSound
  <2>3. JobIsServed(new)
    BY <1>1, <1>4, <2>1 DEF JobIsServed, Kept
  <2> QED BY <2>2, <2>3 DEF SoundRequest
<1> QED BY <1>2, <1>3, <1>5, OneRequest DEF StartJob, CacheInv, CacheTypes

LEMMA RunQuestionStep ==
  ASSUME CacheInv, NEW r \in Slots, RunQuestion(r)
  PROVE  CacheInv'
<1>1. ask[r] \in Requests /\ SoundRequest(ask[r])
  BY NoAskHasNoPhase DEF CacheInv, RunQuestion, Nothing
<1>2. CASE Goes(r, "failed", Nothing)
  <2> DEFINE new == [ask[r] EXCEPT !.phase = "failed", !.answer = Nothing]
  <2>1. new \in Requests /\ SoundRequest(new)
    BY <1>1 DEF Requests, Over, Waiting, SoundRequest, SeesThePast, AnswerIsSound, JobIsServed
  <2>2. ask' = [ask EXCEPT ![r] = new]
    BY <1>2 DEF Goes, CacheInv, CacheTypes
  <2> QED BY <2>1, <2>2, OneRequest DEF RunQuestion, CacheInv, CacheTypes
<1>3. ASSUME NEW parts \in ask[r].seen.parts..dataset.parts,
             Goes(r, "store", [row |-> ask[r].row, parts |-> parts, data |-> source,
                               filters |-> Filters[ask[r].user]])
      PROVE  CacheInv'
  <2> DEFINE result == [row |-> ask[r].row, parts |-> parts, data |-> source,
                        filters |-> Filters[ask[r].user]]
             new == [ask[r] EXCEPT !.phase = "store", !.answer = result]
  <2>1. result \in Results
    BY <1>1, <1>3 DEF Results, Requests, FilterSets, CacheInv, CacheTypes
  <2>2. new \in Requests
    BY <1>1, <2>1 DEF Requests, Waiting
  <2>3. SeesThePast(new) /\ JobIsServed(new)
    BY <1>1 DEF Requests, Waiting, RunQuestion, SoundRequest, SeesThePast, JobIsServed
  <2>4. AnswerIsSound(new)
    BY <1>1, <1>3, <2>1 DEF Requests, CacheInv, CacheTypes, SoundRequest, SeesThePast, AnswerIsSound, IsFresh
  <2>5. ask' = [ask EXCEPT ![r] = new]
    BY <1>3 DEF Goes, CacheInv, CacheTypes
  <2> QED BY <2>2, <2>3, <2>4, <2>5, OneRequest DEF RunQuestion, CacheInv, CacheTypes, SoundRequest
<1> QED BY <1>2, <1>3 DEF RunQuestion

LEMMA RetrieveStep ==
  ASSUME CacheInv, NEW r \in Slots, Retrieve(r)
  PROVE  CacheInv'
<1>1. ask[r] \in Requests /\ SoundRequest(ask[r])
  BY NoAskHasNoPhase DEF CacheInv, Retrieve, Nothing
<1> DEFINE new == IF ask[r].question \in contexts
                  THEN [ask[r] EXCEPT !.phase = "retrieve", !.row = dataset.row, !.force = FALSE]
                  ELSE [ask[r] EXCEPT !.phase = "not found", !.answer = Nothing]
<1>2. ask' = [ask EXCEPT ![r] = new]
  BY DEF Retrieve, Goes, CacheInv, CacheTypes
<1>3. new \in Requests
  BY <1>1 DEF Requests, Waiting, Over, CacheInv, CacheTypes
<1>4. SoundRequest(new)
  <2>1. CASE ask[r].question \in contexts
    <3>1. /\ new.phase = "retrieve" /\ new.row = dataset.row /\ ~new.force
          /\ \A f \in {"user", "question", "seen", "since", "lost"} : new[f] = ask[r][f]
      BY <1>1, <2>1 DEF Requests
    <3>2. SeesThePast(new) /\ AnswerIsSound(new)
      BY <1>1, <3>1 DEF Requests, CacheInv, CacheTypes, SoundRequest, SeesThePast, AnswerIsSound
    <3>3. ask[r].phase = "done" /\ "done" \in Waiting
      BY DEF Retrieve, Waiting
    <3>4. JobIsServed(new)
      BY <1>1, <3>1, <3>3 DEF SoundRequest, JobIsServed, Kept
    <3> QED BY <3>2, <3>4 DEF SoundRequest
  <2>2. CASE ask[r].question \notin contexts
    BY <1>1, <2>2 DEF Requests, Retrieve, Waiting, SoundRequest, SeesThePast, AnswerIsSound, JobIsServed
  <2> QED BY <2>1, <2>2
<1> QED BY <1>2, <1>3, <1>4, OneRequest DEF Retrieve, CacheInv, CacheTypes

LEMMA ReadCachedStep ==
  ASSUME CacheInv, NEW r \in Slots, ReadCached(r)
  PROVE  CacheInv'
<1>1. ask[r] \in Requests /\ SoundRequest(ask[r])
  BY NoAskHasNoPhase DEF CacheInv, ReadCached, Nothing
<1>2. ~ask[r].force
  BY <1>1 DEF ReadCached, SoundRequest, AnswerIsSound
<1>3. CASE \E e \in Entries(r) : Goes(r, "answered", e.result)
  <2>1. PICK e \in Hits(KeyOf(r)) : Goes(r, "answered", e.result)
    BY <1>2, <1>3 DEF Entries
  <2> DEFINE new == [ask[r] EXCEPT !.phase = "answered", !.answer = e.result]
  <2>3. /\ e.result \in Results
        /\ e.result.filters = Filters[ask[r].user] /\ e.result.row = ask[r].row
    BY <1>1, HitsAnswer
  <2>4. new \in Requests /\ SoundRequest(new)
    BY <1>1, <1>2, <2>3 DEF Requests, Over, Waiting, SoundRequest, SeesThePast, AnswerIsSound, JobIsServed
  <2>5. ask' = [ask EXCEPT ![r] = new]
    BY <2>1 DEF Goes, CacheInv, CacheTypes
  <2> QED BY <2>4, <2>5, OneRequest DEF ReadCached, CacheInv, CacheTypes
<1>4. CASE Entries(r) = {} /\ Goes(r, "not found", Nothing)
  <2> DEFINE new == [ask[r] EXCEPT !.phase = "not found", !.answer = Nothing]
  <2>1. ~Kept(ask[r])
    BY <1>2, <1>4 DEF Kept, Entries, Hits, KeyOf, CacheKey
  <2>2. new \in Requests /\ SoundRequest(new)
    BY <1>1, <2>1 DEF Requests, Over, Waiting, ReadCached, SoundRequest, SeesThePast, AnswerIsSound, JobIsServed
  <2>3. ask' = [ask EXCEPT ![r] = new]
    BY <1>4 DEF Goes, CacheInv, CacheTypes
  <2> QED BY <2>2, <2>3, OneRequest DEF ReadCached, CacheInv, CacheTypes
<1> QED BY <1>3, <1>4 DEF ReadCached

-----------------------------------------------------------------------------
(* The steps that change a cache *)

LEMMA StoreStep ==
  ASSUME CacheInv, NEW r \in Slots, Store(r)
  PROVE  CacheInv'
<1>1. ask[r] \in Requests /\ SoundRequest(ask[r]) /\ ask[r].phase = "store"
  BY NoAskHasNoPhase DEF CacheInv, Store, Nothing
<1>2. PICK taken \in BOOLEAN :
        /\ data_cache' = IF taken THEN Stored(r) ELSE data_cache
        /\ taken \/ moves < MaxMoves
        /\ moves' = IF taken THEN moves ELSE moves + 1
        /\ ask' = [ask EXCEPT ![r].phase = IF ask[r].async THEN "cached" ELSE "answered",
                              ![r].answer = IF ask[r].async THEN Nothing ELSE @,
                              ![r].lost = @ \/ ~taken]
  BY DEF Store
<1>a. PICK new : new = [ask[r] EXCEPT !.phase = IF ask[r].async THEN "cached" ELSE "answered",
                                      !.answer = IF ask[r].async THEN Nothing ELSE @,
                                      !.lost = @ \/ ~taken]
  OBVIOUS
<1>b. PICK entry : entry = [key |-> KeyOf(r), result |-> ask[r].answer]
  OBVIOUS
<1>3. ask' = [ask EXCEPT ![r] = new]
  BY <1>2, <1>a DEF CacheInv, CacheTypes
<1>4. new \in Requests
  BY <1>1, <1>a DEF Requests, Waiting, Over
<1>5. /\ new.phase = IF ask[r].async THEN "cached" ELSE "answered"
      /\ new.answer = IF ask[r].async THEN Nothing ELSE ask[r].answer
      /\ new.lost = (ask[r].lost \/ ~taken)
      /\ \A f \in {"user", "question", "force", "seen", "row", "since"} : new[f] = ask[r][f]
  BY <1>1, <1>a DEF Requests
<1>6. /\ entry \in [key : Keys, result : Results] /\ KeepsPromise(entry)
      /\ entry.key = <<ask[r].question, Filters[ask[r].user], ask[r].row>>
  BY <1>1, <1>b DEF Requests, KeyOf, CacheKey, Keys, FilterSets, KeepsPromise, SoundRequest, AnswerIsSound
<1>7. /\ \A e \in data_cache' : e \in data_cache \/ e = entry
      /\ taken => entry \in data_cache'
      /\ \A e \in data_cache : \E d \in data_cache' : d.key = e.key
      /\ \A e \in data_cache' : taken /\ e.key = entry.key => e = entry
  BY <1>2, <1>b DEF Stored
<1>8. CacheTypes'
  <2>1. data_cache' \subseteq [key : Keys, result : Results]
    BY <1>6, <1>7 DEF CacheInv, CacheTypes
  <2>2. ask' \in [Slots -> Requests \cup {NoAsk}]
    BY <1>3, <1>4 DEF CacheInv, CacheTypes
  <2>3. moves' \in 0..MaxMoves /\ moves <= moves'
    BY <1>2, CacheAssumption DEF CacheInv, CacheTypes
  <2>4. dataset.row <= moves' /\ dataset.parts <= moves' /\ source <= moves'
    BY <2>3, CacheAssumption DEF CacheInv, CacheTypes
  <2> QED BY <2>1, <2>2, <2>3, <2>4 DEF CacheInv, CacheTypes, Store
<1>9. EntriesAreSound'
  <2>1. CASE taken
    BY <1>6, <1>7, <2>1 DEF CacheInv, EntriesAreSound
  <2>2. CASE ~taken
    BY <1>2, <2>2 DEF CacheInv, EntriesAreSound
  <2> QED BY <2>1, <2>2
<1>10. \A q : Kept(q) => Kept(q)'
  BY <1>7 DEF Kept
<1>11. (SeesThePast(new) /\ AnswerIsSound(new))'
  BY <1>1, <1>5 DEF Store, Requests, SoundRequest, SeesThePast, AnswerIsSound, IsFresh, CacheInv, CacheTypes
<1>12. JobIsServed(new)'
  <2>1. taken => Kept(new)'
    BY <1>5, <1>6, <1>7 DEF Kept
  <2>2. ask[r].phase \in Waiting
    BY <1>1 DEF Waiting
  <2> QED BY <1>1, <1>5, <2>1, <2>2 DEF Store, SoundRequest, JobIsServed
<1>13. ASSUME NEW s \in Slots, ask'[s] # NoAsk
       PROVE  SoundRequest(ask[s])'
  <2>1. CASE s = r
    <3>1. ask'[s] = new
      BY <1>3, <2>1 DEF CacheInv, CacheTypes
    <3> QED BY <1>11, <1>12, <3>1 DEF SoundRequest
  <2>2. CASE s # r
    <3>1. ask'[s] = ask[s] /\ SoundRequest(ask[s])
      BY <1>3, <1>13, <2>2 DEF CacheInv, CacheTypes
    <3> QED
      BY <1>10, <3>1 DEF Store, SoundRequest, SeesThePast, AnswerIsSound, IsFresh, JobIsServed
  <2> QED BY <2>1, <2>2
<1> QED BY <1>8, <1>9, <1>13 DEF CacheInv

LEMMA FinishJobStep ==
  ASSUME CacheInv, NEW r \in Slots, FinishJob(r)
  PROVE  CacheInv'
<1>1. ask[r] \in Requests /\ SoundRequest(ask[r]) /\ ask[r].phase = "cached"
  BY NoAskHasNoPhase DEF CacheInv, FinishJob, Nothing
<1>a. PICK new : new = [ask[r] EXCEPT !.phase = "done", !.answer = Nothing]
  OBVIOUS
<1>2. ask' = [ask EXCEPT ![r] = new]
  BY <1>a DEF FinishJob, Goes, CacheInv, CacheTypes
<1>3. /\ new \in Requests /\ new.phase = "done"
      /\ \A f \in {"user", "question", "force", "seen", "row", "since", "lost"} : new[f] = ask[r][f]
  BY <1>1, <1>a DEF Requests, Waiting
<1>4. CacheTypes'
  BY <1>1, <1>2, <1>3 DEF FinishJob, Requests, CacheInv, CacheTypes
<1>5. EntriesAreSound'
  BY DEF FinishJob, CacheInv, EntriesAreSound
<1>6. (SeesThePast(new) /\ AnswerIsSound(new))'
  BY <1>1, <1>3 DEF FinishJob, SoundRequest, SeesThePast, AnswerIsSound
<1>7. JobIsServed(new)'
  <2>1. ask[r].phase \in Waiting
    BY <1>1 DEF Waiting
  <2> QED BY <1>1, <1>3, <2>1 DEF FinishJob, SoundRequest, JobIsServed, Kept
<1>8. ASSUME NEW s \in Slots, ask'[s] # NoAsk
      PROVE  SoundRequest(ask[s])'
  <2>1. CASE s = r
    <3>1. ask'[s] = new
      BY <1>2, <2>1 DEF CacheInv, CacheTypes
    <3> QED BY <1>6, <1>7, <3>1 DEF SoundRequest
  <2>2. CASE s # r
    <3>1. ask'[s] = ask[s] /\ SoundRequest(ask[s])
      BY <1>2, <1>8, <2>2 DEF CacheInv, CacheTypes
    <3> QED
      BY <3>1 DEF FinishJob, SoundRequest, SeesThePast, AnswerIsSound, IsFresh, JobIsServed, Kept
  <2> QED BY <2>1, <2>2
<1> QED BY <1>4, <1>5, <1>8 DEF CacheInv

(***************************************************************************)
(* A move that may lose something marks the requests that wait for it, and *)
(* changes nothing else about them: what it takes away is only asked of    *)
(* the others.                                                             *)
(***************************************************************************)
LEMMA LosingMove ==
  ASSUME CacheInv, CacheTypes', EntriesAreSound', UNCHANGED source,
         dataset.row <= dataset'.row, dataset.parts <= dataset'.parts,
         NEW hit \in SUBSET Slots,
         \A r \in Slots : ask'[r] = IF ask[r].phase \in Waiting /\ r \in hit
                                   THEN [ask[r] EXCEPT !.lost = TRUE] ELSE ask[r],
         \A q \in Requests : (\E r \in Slots \ hit : ask[r] = q) =>
            /\ dataset'.row = dataset.row
            /\ Kept(q) => Kept(q)'
            /\ q.question \in contexts => q.question \in contexts'
  PROVE  CacheInv'
<1> SUFFICES ASSUME NEW r \in Slots, ask'[r] # NoAsk
             PROVE  SoundRequest(ask[r])'
  BY DEF CacheInv
<1>1. NoAsk.phase \notin Waiting
  BY DEF Waiting, NoAsk, Nothing
<1>2. PICK q : q = ask[r]
  OBVIOUS
<1>3. q \in Requests /\ SoundRequest(q)
  BY <1>1, <1>2 DEF CacheInv, CacheTypes
<1>4. PICK n : n = ask'[r]
  OBVIOUS
<1>5. /\ \A f \in {"phase", "user", "question", "force", "seen", "row", "since", "answer"} :
           n[f] = q[f]
      /\ n.lost = (q.lost \/ (q.phase \in Waiting /\ r \in hit))
      /\ n.lost \in BOOLEAN
  BY <1>2, <1>3, <1>4 DEF Requests
<1>6. (SeesThePast(n))'
  BY <1>3, <1>5 DEF Requests, SoundRequest, SeesThePast, CacheInv, CacheTypes
<1>7. (AnswerIsSound(n))'
  BY <1>3, <1>5 DEF SoundRequest, AnswerIsSound, IsFresh
<1>8. (JobIsServed(n))'
  <2>1. CASE r \in hit
    BY <1>3, <1>5, <2>1 DEF SoundRequest, JobIsServed
  <2>2. CASE r \notin hit
    <3>1. /\ dataset'.row = dataset.row
          /\ Kept(q) => Kept(q)'
          /\ q.question \in contexts => q.question \in contexts'
      BY <1>2, <1>3, <2>2
    <3>2. Kept(q)' => Kept(n)'
      BY <1>5 DEF Kept
    <3> QED BY <1>3, <1>5, <2>2, <3>1, <3>2 DEF SoundRequest, JobIsServed
  <2> QED BY <2>1, <2>2
<1> QED BY <1>4, <1>6, <1>7, <1>8 DEF SoundRequest

LEMMA MoveTypes ==
  ASSUME CacheInv, Move
  PROVE  /\ moves' \in 0..MaxMoves /\ moves' = moves + 1
         /\ dataset.row + 1 <= moves' /\ dataset.parts + 1 <= moves' /\ source + 1 <= moves'
         /\ dataset.row <= moves' /\ dataset.parts <= moves' /\ source <= moves'
BY CacheAssumption DEF Move, CacheInv, CacheTypes

\* Requests that were marked keep their types.
LEMMA LosingTypes ==
  ASSUME CacheInv, NEW hit \in SUBSET Slots,
         ask' = [r \in Slots |-> IF ask[r].phase \in Waiting /\ r \in hit
                                 THEN [ask[r] EXCEPT !.lost = TRUE] ELSE ask[r]]
  PROVE  ask' \in [Slots -> Requests \cup {NoAsk}]
<1> SUFFICES ASSUME NEW r \in Slots
             PROVE  ask'[r] \in Requests \cup {NoAsk}
  OBVIOUS
<1>1. NoAsk.phase \notin Waiting
  BY DEF Waiting, NoAsk, Nothing
<1>2. ask[r] \in Requests \cup {NoAsk}
  BY DEF CacheInv, CacheTypes
<1>3. ask[r] \in Requests => [ask[r] EXCEPT !.lost = TRUE] \in Requests
  BY DEF Requests
<1> QED BY <1>1, <1>2, <1>3

LEMMA EditRowStep ==
  ASSUME CacheInv, EditRow
  PROVE  CacheInv'
<1>1. ask' = [r \in Slots |-> IF ask[r].phase \in Waiting /\ r \in Slots
                              THEN [ask[r] EXCEPT !.lost = TRUE] ELSE ask[r]]
  BY DEF EditRow, Losing
<1>2. /\ dataset' \in [row : Nat, parts : Nat]
      /\ dataset'.row = dataset.row + 1 /\ dataset'.parts = dataset.parts + 1
  BY DEF EditRow, CacheInv, CacheTypes
<1>3. CacheTypes'
  <2>1. ask' \in [Slots -> Requests \cup {NoAsk}]
    BY <1>1, LosingTypes
  <2>2. /\ moves' \in 0..MaxMoves
        /\ dataset'.row <= moves' /\ dataset'.parts <= moves' /\ source <= moves'
    BY <1>2, MoveTypes DEF EditRow
  <2> QED BY <1>2, <2>1, <2>2 DEF EditRow, CacheInv, CacheTypes
<1>4. EntriesAreSound'
  BY DEF EditRow, CacheInv, EntriesAreSound
<1>5. dataset.row <= dataset'.row /\ dataset.parts <= dataset'.parts
  BY <1>2 DEF CacheInv, CacheTypes
<1>6. \A r \in Slots : ask'[r] = IF ask[r].phase \in Waiting /\ r \in Slots
                                 THEN [ask[r] EXCEPT !.lost = TRUE] ELSE ask[r]
  BY <1>1
<1> QED BY <1>3, <1>4, <1>5, <1>6, LosingMove DEF EditRow

LEMMA DropResultStep ==
  ASSUME CacheInv, DropResult
  PROVE  CacheInv'
<1>1. PICK e \in data_cache :
        /\ data_cache' = data_cache \ {e}
        /\ ask' = [r \in Slots |-> IF ask[r].phase \in Waiting /\ ask[r].question = e.key[1]
                                   THEN [ask[r] EXCEPT !.lost = TRUE] ELSE ask[r]]
  BY DEF DropResult, Losing
<1>2. PICK hit \in SUBSET Slots : hit = {r \in Slots : ask[r].question = e.key[1]}
  OBVIOUS
<1>3. ask' = [r \in Slots |-> IF ask[r].phase \in Waiting /\ r \in hit
                              THEN [ask[r] EXCEPT !.lost = TRUE] ELSE ask[r]]
  BY <1>1, <1>2
<1>4. CacheTypes'
  <2>1. ask' \in [Slots -> Requests \cup {NoAsk}]
    BY <1>3, LosingTypes
  <2>2. /\ moves' \in 0..MaxMoves
        /\ dataset.row <= moves' /\ dataset.parts <= moves' /\ source <= moves'
    BY MoveTypes DEF DropResult
  <2> QED BY <1>1, <2>1, <2>2 DEF DropResult, CacheInv, CacheTypes
<1>5. EntriesAreSound'
  BY <1>1 DEF CacheInv, EntriesAreSound
<1>6. ASSUME NEW q \in Requests, q.question # e.key[1], Kept(q)
      PROVE  Kept(q)'
  BY <1>1, <1>6 DEF Kept
<1>7. dataset.row <= dataset'.row /\ dataset.parts <= dataset'.parts
  BY DEF DropResult, CacheInv, CacheTypes
<1> QED BY <1>2, <1>3, <1>4, <1>5, <1>6, <1>7, LosingMove DEF DropResult

LEMMA DropContextStep ==
  ASSUME CacheInv, DropContext
  PROVE  CacheInv'
<1>1. PICK q \in contexts :
        /\ contexts' = contexts \ {q}
        /\ ask' = [r \in Slots |-> IF ask[r].phase \in Waiting /\ ask[r].question = q
                                   THEN [ask[r] EXCEPT !.lost = TRUE] ELSE ask[r]]
  BY DEF DropContext, Losing
<1>2. PICK hit \in SUBSET Slots : hit = {r \in Slots : ask[r].question = q}
  OBVIOUS
<1>3. ask' = [r \in Slots |-> IF ask[r].phase \in Waiting /\ r \in hit
                              THEN [ask[r] EXCEPT !.lost = TRUE] ELSE ask[r]]
  BY <1>1, <1>2
<1>4. CacheTypes'
  <2>1. ask' \in [Slots -> Requests \cup {NoAsk}]
    BY <1>3, LosingTypes
  <2>2. /\ moves' \in 0..MaxMoves
        /\ dataset.row <= moves' /\ dataset.parts <= moves' /\ source <= moves'
    BY MoveTypes DEF DropContext
  <2> QED BY <1>1, <2>1, <2>2 DEF DropContext, CacheInv, CacheTypes
<1>5. EntriesAreSound'
  BY DEF DropContext, CacheInv, EntriesAreSound
<1>6. \A n : Kept(n) => Kept(n)'
  BY DEF DropContext, Kept
<1>7. dataset.row <= dataset'.row /\ dataset.parts <= dataset'.parts
  BY DEF DropContext, CacheInv, CacheTypes
<1> QED BY <1>1, <1>2, <1>3, <1>4, <1>5, <1>6, <1>7, LosingMove DEF DropContext

\* What is new in the source or among the columns takes nothing away.
LEMMA NewerStep ==
  ASSUME CacheInv, EditParts \/ NewRows
  PROVE  CacheInv'
<1>1. /\ dataset' \in [row : Nat, parts : Nat] /\ source' \in Nat
      /\ dataset'.row = dataset.row /\ dataset.parts <= dataset'.parts /\ source <= source'
      /\ dataset'.parts <= moves' /\ source' <= moves'
  BY MoveTypes DEF EditParts, NewRows, CacheInv, CacheTypes
<1>2. CacheTypes'
  BY <1>1, MoveTypes DEF EditParts, NewRows, CacheInv, CacheTypes
<1>3. EntriesAreSound'
  BY DEF EditParts, NewRows, CacheInv, EntriesAreSound
<1>4. ASSUME NEW r \in Slots, ask'[r] # NoAsk
      PROVE  SoundRequest(ask[r])'
  <2>1. PICK q : q = ask[r] /\ q \in Requests /\ SoundRequest(q) /\ ask'[r] = q
    BY <1>4 DEF EditParts, NewRows, CacheInv, CacheTypes
  <2>2. (SeesThePast(q))'
    BY <1>1, <2>1 DEF Requests, SoundRequest, SeesThePast, CacheInv, CacheTypes
  <2>3. (AnswerIsSound(q) /\ JobIsServed(q))'
    BY <1>1, <2>1 DEF EditParts, NewRows, SoundRequest, AnswerIsSound, IsFresh, JobIsServed, Kept
  <2> QED BY <2>1, <2>2, <2>3 DEF SoundRequest
<1> QED BY <1>2, <1>3, <1>4 DEF CacheInv

LEMMA StepKeepsCacheInv == CacheInv /\ [CacheNext]_cacheVars => CacheInv'
<1> SUFFICES ASSUME CacheInv, [CacheNext]_cacheVars
             PROVE  CacheInv'
  OBVIOUS
<1>1. ASSUME NEW r \in Slots, Serves(r)
      PROVE  CacheInv'
  BY <1>1, LookupStep, StartJobStep, RunQuestionStep, StoreStep, FinishJobStep, RetrieveStep,
     ReadCachedStep DEF Serves
<1>2. CASE UNCHANGED cacheVars
  <2>1. CacheTypes' /\ EntriesAreSound'
    BY <1>2 DEF cacheVars, CacheInv, CacheTypes, EntriesAreSound
  <2>2. \A q : SoundRequest(q) => SoundRequest(q)'
    BY <1>2 DEF cacheVars, SoundRequest, SeesThePast, AnswerIsSound, IsFresh, JobIsServed, Kept
  <2> QED BY <1>2, <2>1, <2>2 DEF cacheVars, CacheInv
<1> QED
  BY <1>1, <1>2, AskStep, EditRowStep, NewerStep, DropResultStep, DropContextStep DEF CacheNext

LEMMA CacheInvariance == CacheSpec => []CacheInv
BY InitCacheInv, StepKeepsCacheInv, PTL DEF CacheSpec

-----------------------------------------------------------------------------
(* The variables keep their types; the cache holds one result for a key (the cache_key of a *)
(* query context, under which set_and_log_cache stores). *)
THEOREM CacheTypeCorrect == CacheSpec => []DatasetCacheTypeOK
<1>1. CacheInv => DatasetCacheTypeOK
  <2> SUFFICES ASSUME CacheInv
               PROVE  DatasetCacheTypeOK
    OBVIOUS
  <2>1. ASSUME NEW e \in data_cache
        PROVE  Cardinality(Hits(e.key)) = 1
    <3>1. Hits(e.key) = {e}
      BY DEF Hits, CacheInv, EntriesAreSound
    <3> QED BY <3>1, FS_Singleton
  <2>2. \A r \in Slots : ask[r] = NoAsk \/ ask[r].phase \in Waiting \cup Over
    BY DEF CacheInv, CacheTypes, Requests
  <2>3. dataset.row \in 0..MaxMoves /\ dataset.parts \in 0..MaxMoves /\ source \in 0..MaxMoves
    BY CacheAssumption DEF CacheInv, CacheTypes
  <2> QED BY <2>1, <2>2, <2>3 DEF DatasetCacheTypeOK, CacheInv, CacheTypes
<1> QED BY <1>1, CacheInvariance, PTL

(* Whatever request computed and stored it, an answer holds the rows that the asking user's *)
(* filters leave, of the dataset's row as the user saw it or newer (get_df_payload and the *)
(* cache_key of query_context.py). *)
THEOREM RightRowsServed == CacheSpec => []ServesRightRows
<1>1. CacheInv => ServesRightRows
  BY DEF CacheInv, CacheTypes, SoundRequest, AnswerIsSound, ServesRightRows, OwnRowsOnly,
     ReflectsDatasetRow, Answered, NoAsk, Nothing
<1> QED BY <1>1, CacheInvariance, PTL

(* A forced refresh that is answered at once is fresh, and a job that is done is served from *)
(* the caches unless they lost it (data_from_cache, load_chart_data_into_cache). *)
THEOREM AnsweredAsTold == CacheSpec => []AnswersAsTold
<1>1. CacheInv => ForceIsFresh
  BY DEF CacheInv, SoundRequest, AnswerIsSound, IsFresh, ForceIsFresh, Answered, NoAsk, Nothing
<1>2. CacheInv => DoneIsServed
  <2>1. NoAsk.phase # "not found"
    BY DEF NoAsk, Nothing
  <2> QED BY <2>1 DEF CacheInv, SoundRequest, JobIsServed, DoneIsServed
<1> QED BY <1>1, <1>2, CacheInvariance, PTL DEF AnswersAsTold

(***************************************************************************)
(* The limit of time series, for any finite sets of groups and times and   *)
(* any tables and requests. The sums and peaks by which groups are ranked  *)
(* are folds, and so recursive functions on sets: RecursionTheorems says   *)
(* that they exist, and what is shown of them is shown of a least          *)
(* counterexample.                                                         *)
(***************************************************************************)
\* The sum of a row, as MapThenSumSet takes it: of some time first, then of the rest.
SumBody(row, f, s) ==
  IF s = {} THEN 0
  ELSE LET t == CHOOSE t \in s : TRUE IN row[t] + f[s \ {t}]

Sums == INSTANCE RecursionTheorems WITH Def <- SumBody

LEMMA LeastOfSets ==
  ASSUME NEW S, IsFiniteSet(S), NEW B \in SUBSET SUBSET S, B # {}
  PROVE  \E T \in B : \A U \in B : U \subseteq T => U = T
BY Sums!LeastSubset DEF IsFiniteSet, Sums!IsFiniteSet

LEMMA SumsExist ==
  ASSUME NEW row, NEW range, IsFiniteSet(range)
  PROVE  \E f : f = [s \in SUBSET range |-> SumBody(row, f, s)]
<1> DEFINE m == [s \in SUBSET range |-> Cardinality(s)]
<1>1. m \in [SUBSET range -> Nat]
  BY FS_Subset, FS_CardinalityType
<1>2. ASSUME NEW f, NEW g, NEW s \in SUBSET range,
             \A r \in SUBSET range : m[r] < m[s] => f[r] = g[r]
      PROVE  SumBody(row, f, s) = SumBody(row, g, s)
  <2>1. CASE s = {}
    BY <2>1 DEF SumBody
  <2>2. CASE s # {}
    <3> DEFINE t == CHOOSE t \in s : TRUE
    <3>1. t \in s
      BY <2>2
    <3>2. IsFiniteSet(s)
      BY FS_Subset
    <3>3. m[s \ {t}] < m[s]
      <4>1. Cardinality(s \ {t}) = Cardinality(s) - 1 /\ Cardinality(s) \in Nat
        BY <3>1, <3>2, FS_RemoveElement, FS_CardinalityType
      <4> QED BY <4>1
    <3>4. f[s \ {t}] = g[s \ {t}]
      BY <1>2, <3>3
    <3> QED BY <3>4 DEF SumBody
  <2> QED BY <2>1, <2>2
<1>3. Sums!ReadsSmaller(row, SUBSET range, m)
  <2> HIDE DEF m
  <2> QED BY <1>2 DEF Sums!ReadsSmaller
<1> HIDE DEF m
<1> QED BY <1>1, <1>3, Sums!RecursionIsDefined

\* There is a sum exactly when there is something to add.
LEMMA SumIsPositive ==
  ASSUME NEW tbl, NEW g, NEW range, IsFiniteSet(range),
         \A t \in range : tbl[g][t] \in Nat
  PROVE  /\ Total(tbl, g, range) \in Nat
         /\ Total(tbl, g, range) > 0 <=> \E t \in range : tbl[g][t] > 0
<1> DEFINE f == CHOOSE f : f = [s \in SUBSET range |-> SumBody(tbl[g], f, s)]
<1>1. Total(tbl, g, range) = f[range]
  BY DEF Total, MapThenSumSet, MapThenFoldSet, SumBody
<1>2. f = [s \in SUBSET range |-> SumBody(tbl[g], f, s)]
  BY SumsExist
<1> HIDE DEF f
<1> DEFINE Right(s) == f[s] \in Nat /\ (f[s] > 0 <=> \E t \in s : tbl[g][t] > 0)
           Wrong == {s \in SUBSET range : ~Right(s)}
<1>3. SUFFICES ASSUME Wrong # {} PROVE FALSE
  <2>1. range \in SUBSET range
    OBVIOUS
  <2> QED BY <1>1, <1>3, <2>1
<1>4. PICK s \in Wrong : \A r \in Wrong : r \subseteq s => r = s
  <2>1. Wrong \in SUBSET SUBSET range
    OBVIOUS
  <2> HIDE DEF Wrong
  <2> QED BY <1>3, <2>1, LeastOfSets
<1>5. f[s] = SumBody(tbl[g], f, s)
  BY <1>2, <1>4
<1>6. CASE s = {}
  BY <1>4, <1>5, <1>6 DEF SumBody
<1>7. CASE s # {}
  <2> DEFINE t == CHOOSE t \in s : TRUE
  <2>1. t \in s /\ t \in range
    BY <1>7, <1>4
  <2>2. Right(s \ {t})
    <3>1. s \ {t} \in SUBSET range /\ s \ {t} # s /\ s \ {t} \subseteq s
      BY <2>1, <1>4
    <3> QED BY <3>1, <1>4
  <2>3. f[s] = tbl[g][t] + f[s \ {t}]
    BY <1>5, <1>7 DEF SumBody
  <2>4. tbl[g][t] \in Nat
    BY <2>1
  <2> HIDE DEF t
  <2>5. Right(s)
    BY <2>1, <2>2, <2>3, <2>4
  <2> QED BY <2>5, <1>4
<1> QED BY <1>6, <1>7
-------------------------------------------------------------------------------
\* A finite set of numbers has a greatest one.
LEMMA GreatestNumber ==
  ASSUME NEW S, IsFiniteSet(S), S # {}
  PROVE  S \subseteq Nat => \E n \in S : \A k \in S : n >= k
<1> DEFINE From(n) == {k \in S : k >= n}
           B == {From(n) : n \in S}
<1>1. PICK T \in B : \A U \in B : U \subseteq T => U = T
  <2>1. B \in SUBSET SUBSET S /\ B # {}
    OBVIOUS
  <2> HIDE DEF B
  <2> QED BY <2>1, LeastOfSets
<1>2. PICK n \in S : T = From(n)
  BY <1>1
<1>3. HAVE S \subseteq Nat
<1>4. ASSUME NEW k \in S, k > n PROVE FALSE
  <2>1. From(k) \subseteq From(n)
    <3>1. \A j \in S : j >= k => j >= n
      BY <1>3, <1>4
    <3> QED BY <3>1, Zenon
  <2>2. From(k) = From(n)
    BY <2>1, <1>1, <1>2
  <2>3. n \in From(n) /\ n \notin From(k)
    BY <1>3, <1>4
  <2> QED BY <2>2, <2>3
<1> QED BY <1>3, <1>4

AllGroups == Groups \cup {Null}
Tables == [AllGroups -> [Times -> Nat]]

LEMMA RequestTypes ==
  ASSUME query_obj \in SeriesRequests
  PROVE  /\ query_obj.range \subseteq Times
         /\ InnerRange \subseteq Times /\ IsFiniteSet(InnerRange)
         /\ query_obj.timeseries_limit \in Nat
         /\ query_obj.having \in Nat
         /\ {query_obj.allows_joins, query_obj.time_groupby_inline} \subseteq BOOLEAN
         /\ {query_obj.limit_metric, query_obj.order_desc} \subseteq BOOLEAN
<1>1. InnerRange \subseteq Times
  BY SeriesAssumption DEF InnerRange
<1> QED BY <1>1, SeriesAssumption, FS_Subset

\* What series are compared by is a number where there is a time to take it of.
LEMMA MeasureIsNumber ==
  ASSUME query_obj \in SeriesRequests, NEW tbl \in Tables, NEW g \in AllGroups,
         InnerRange # {}
  PROVE  OrderedBy(tbl, g, InnerRange) \in Nat
<1>1. InnerRange \subseteq Times /\ IsFiniteSet(InnerRange)
  BY RequestTypes
<1>2. \A t \in InnerRange : tbl[g][t] \in Nat
  BY <1>1 DEF Tables
<1>3. Total(tbl, g, InnerRange) \in Nat
  BY <1>1, <1>2, SumIsPositive
<1>4. Peak(tbl, g, InnerRange) \in Nat
  <2> DEFINE S == {tbl[g][t] : t \in InnerRange}
  <2>1. S \subseteq Nat /\ S # {}
    BY <1>2
  <2>2. IsFiniteSet(S)
    <3> DEFINE f == [t \in InnerRange |-> tbl[g][t]]
    <3>1. f \in Surjection(InnerRange, S)
      BY DEF Surjection
    <3> HIDE DEF f, S
    <3> QED BY <1>1, <3>1, FS_Surjection
  <2>3. PICK n \in S : \A k \in S : n >= k
    <3> HIDE DEF S
    <3> QED BY <2>1, <2>2, GreatestNumber
  <2>4. Max(S) \in S
    <3> HIDE DEF S
    <3> QED BY <2>3 DEF Max
  <2>5. Peak(tbl, g, InnerRange) = Max(S)
    BY DEF Peak
  <2> HIDE DEF S
  <2> QED BY <2>1, <2>4, <2>5
<1> QED BY <1>3, <1>4 DEF OrderedBy

-------------------------------------------------------------------------------
(* The inductive invariant *)

\* The groups that the ranking query returns, of those of atRanking ...
Candidates ==
  {g \in GroupsFound(atRanking, InnerRange) :
     query_obj.allows_joins \/ Total(atRanking, g, InnerRange) > query_obj.having}
\* ... and its order, if it has one.
Precedence == {p \in AllGroups \X AllGroups : Ordered /\ Beats(p[1], p[2])}

Ranked ==
  \/ ~Limited
  \/ top_groups \in FirstOf(Candidates, Precedence)
  \/ ~query_obj.allows_joins /\ top_groups = {}

Joined ==
  IF ~Limited THEN AllGroups
  ELSE IF query_obj.allows_joins THEN top_groups \ {Null}
  ELSE IF top_groups = {} THEN AllGroups ELSE top_groups

SeriesInv ==
  /\ SeriesTypeOK
  /\ query_obj \in SeriesRequests
  /\ atRanking \in Tables
  /\ phase = "prequeried" => Limited /\ ~query_obj.allows_joins
  /\ phase # "asked" => Ranked
  /\ phase = "answered" => points = PointsOf(Joined)

LEMMA PointsTyped ==
  ASSUME NEW joined, joined \subseteq AllGroups, query_obj.range \subseteq Times
  PROVE  PointsOf(joined) \subseteq AllGroups \X Times
BY DEF PointsOf

LEMMA RankingTyped ==
  ASSUME NEW tbl, NEW range, NEW before, NEW found \in SUBSET AllGroups,
         NEW top \in FirstOf(found, before)
  PROVE  top \subseteq AllGroups
BY DEF FirstOf

LEMMA InitSeriesInv == SeriesInit => SeriesInv
BY SeriesAssumption DEF SeriesInit, SeriesInv, SeriesTypeOK, Tables, AllGroups

LEMMA UnlimitedStep ==
  ASSUME SeriesInv, QueryUnlimited
  PROVE  SeriesInv'
<1> USE DEF QueryUnlimited
<1>1. ~Limited'
  BY DEF Limited
<1>2. points' = PointsOf(Joined)'
  BY <1>1 DEF Joined, PointsOf, where_clause_and, row_level_filters, AllGroups
<1>3. points' \subseteq AllGroups \X Times
  <2>1. query_obj.range \subseteq Times
    BY RequestTypes DEF SeriesInv
  <2> QED BY <2>1, PointsTyped DEF AllGroups
<1>4. Ranked'
  BY <1>1 DEF Ranked
<1> QED BY <1>2, <1>3, <1>4 DEF SeriesInv, SeriesTypeOK, Tables, AllGroups

LEMMA SubqueryStep ==
  ASSUME SeriesInv, QueryWithSubquery
  PROVE  SeriesInv'
<1> USE DEF QueryWithSubquery
<1>1. /\ query_obj.allows_joins /\ query_obj \in SeriesRequests /\ query_obj' = query_obj
      /\ Limited'
  BY DEF SeriesInv, Limited
<1>2. Candidates' = GroupsFound(table, InnerRange)
  BY <1>1 DEF Candidates, GroupsFound, where_clause_and, row_level_filters, InnerRange
<1>3. Precedence' = IF query_obj.order_desc THEN Descending ELSE Ascending
  <2>1. \A x : OrderedBy(atRanking, x, InnerRange)' = OrderedBy(table, x, InnerRange)
    BY <1>1 DEF OrderedBy, InnerRange
  <2>2. Precedence' = {p \in AllGroups \X AllGroups :
                         IF ~query_obj.order_desc
                         THEN OrderedBy(table, p[1], InnerRange) < OrderedBy(table, p[2], InnerRange)
                         ELSE OrderedBy(table, p[1], InnerRange) > OrderedBy(table, p[2], InnerRange)}
    BY <1>1, <2>1 DEF Precedence, Ordered, Beats, AllGroups
  <2>3. Descending = {p \in AllGroups \X AllGroups :
                        OrderedBy(table, p[1], InnerRange) > OrderedBy(table, p[2], InnerRange)}
    BY DEF Descending, AllGroups
  <2>4. Ascending = {p \in AllGroups \X AllGroups :
                       OrderedBy(table, p[1], InnerRange) < OrderedBy(table, p[2], InnerRange)}
    <3>1. ASSUME NEW g \in AllGroups, NEW h \in AllGroups
          PROVE  <<g, h>> \in Ascending <=> <<h, g>> \in Descending
      <4>1. ASSUME <<g, h>> \in Ascending PROVE <<h, g>> \in Descending
        BY <4>1 DEF Ascending, Descending
      <4>2. ASSUME <<h, g>> \in Descending PROVE <<g, h>> \in Ascending
        BY <4>2, <<g, h>> = << <<h, g>>[2], <<h, g>>[1] >>, Zenon DEF Ascending
      <4> QED BY <4>1, <4>2
    <3>2. Ascending \subseteq AllGroups \X AllGroups
      BY <2>3 DEF Ascending
    <3>3. \A p \in Ascending : p = <<p[1], p[2]>> /\ p[1] \in AllGroups /\ p[2] \in AllGroups
      BY <3>2
    <3> DEFINE Less == {p \in AllGroups \X AllGroups :
                          OrderedBy(table, p[1], InnerRange) < OrderedBy(table, p[2], InnerRange)}
    <3>4. \A g, h \in AllGroups : <<g, h>> \in Ascending <=> <<g, h>> \in Less
      BY <3>1, <2>3
    <3>5. \A p \in Less : p = <<p[1], p[2]>> /\ p[1] \in AllGroups /\ p[2] \in AllGroups
      OBVIOUS
    <3>6. Ascending = Less
      <4> HIDE DEF Less
      <4>1. ASSUME NEW p \in Ascending PROVE p \in Less
        <5>1. p = <<p[1], p[2]>> /\ <<p[1], p[2]>> \in Less
          BY <3>3, <3>4
        <5> QED BY <5>1, Zenon
      <4>2. ASSUME NEW p \in Less PROVE p \in Ascending
        <5>1. p = <<p[1], p[2]>> /\ <<p[1], p[2]>> \in Ascending
          BY <3>4, <3>5
        <5> QED BY <5>1, Zenon
      <4> QED BY <4>1, <4>2
    <3> QED BY <3>6
  <2> QED BY <2>2, <2>3, <2>4
<1>4. Ranked'
  BY <1>2, <1>3 DEF Ranked, FirstOf
<1>5. top_groups' \subseteq AllGroups
  BY <1>2 DEF FirstOf, GroupsFound, AllGroups
<1>6. points' = PointsOf(Joined)'
  BY <1>1 DEF Joined, PointsOf, where_clause_and, row_level_filters
<1>7. points' \subseteq AllGroups \X Times
  <2>1. top_groups' \ {Null} \subseteq AllGroups /\ query_obj.range \subseteq Times
    BY <1>5, <1>1, RequestTypes
  <2> QED BY <2>1, PointsTyped
<1> QED BY <1>4, <1>5, <1>6, <1>7 DEF SeriesInv, SeriesTypeOK, Tables, AllGroups

LEMMA PrequeryStep ==
  ASSUME SeriesInv, Prequery
  PROVE  SeriesInv'
<1> USE DEF Prequery
<1>1. ~query_obj.allows_joins /\ query_obj' = query_obj /\ Limited'
  BY DEF Limited
<1>2. Candidates' = {g \in GroupsFound(table, InnerRange) :
                       Total(table, g, InnerRange) > query_obj.having}
  BY <1>1 DEF Candidates, GroupsFound, where_clause_and, row_level_filters, InnerRange
<1>3. Precedence' = IF query_obj.limit_metric THEN Descending ELSE {}
  <2>1. \A x : OrderedBy(atRanking, x, InnerRange)' = OrderedBy(table, x, InnerRange)
    BY <1>1 DEF OrderedBy, InnerRange
  <2> QED BY <1>1, <2>1 DEF Precedence, Ordered, Beats, AllGroups, Descending
<1>4. Ranked'
  BY <1>2, <1>3 DEF Ranked, FirstOf
<1>5. top_groups' \subseteq AllGroups
  BY <1>2 DEF FirstOf, GroupsFound, AllGroups
<1> QED BY <1>1, <1>4, <1>5 DEF SeriesInv, SeriesTypeOK, Tables, AllGroups

\* The answer is what the query returns for the groups of the prequery, whatever was
\* inserted since.
LEMMA AnswerStep ==
  ASSUME SeriesInv, QueryAfterPrequery
  PROVE  SeriesInv'
<1> USE DEF QueryAfterPrequery
<1>1. Ranked'
  BY DEF SeriesInv, Ranked, Candidates, Precedence, GroupsFound, where_clause_and,
         row_level_filters, InnerRange, Ordered, Beats, OrderedBy, FirstOf, Limited
<1>2. ~query_obj.allows_joins /\ Limited'
  BY DEF SeriesInv, Limited
<1>3. points' = PointsOf(Joined)'
  BY <1>2 DEF Joined, PointsOf, where_clause_and, row_level_filters, AllGroups
<1>4. points' \subseteq AllGroups \X Times
  <2>1. query_obj.range \subseteq Times /\ top_groups \subseteq AllGroups
    BY RequestTypes DEF SeriesInv, SeriesTypeOK, AllGroups
  <2>2. (IF top_groups = {} THEN AllGroups ELSE top_groups) \subseteq AllGroups
    BY <2>1
  <2> QED BY <2>1, <2>2, PointsTyped DEF AllGroups
<1> QED BY <1>1, <1>3, <1>4 DEF SeriesInv, SeriesTypeOK, Tables, AllGroups

LEMMA InsertStep ==
  ASSUME SeriesInv, NEW g \in AllGroups, NEW t \in Times, InsertRow(g, t)
  PROVE  SeriesInv'
<1> USE DEF InsertRow
<1>1. Ranked'
  BY DEF SeriesInv, Ranked, Candidates, Precedence, GroupsFound, where_clause_and,
         row_level_filters, InnerRange, Ordered, Beats, OrderedBy, FirstOf, Limited
<1>2. table' \in Tables
  BY DEF SeriesInv, SeriesTypeOK, Tables, AllGroups
<1> QED BY <1>1, <1>2 DEF Limited, SeriesInv, SeriesTypeOK, Tables, AllGroups

LEMMA SeriesStep ==
  SeriesInv /\ [SeriesNext]_seriesVars => SeriesInv'
<1> SUFFICES ASSUME SeriesInv, [SeriesNext]_seriesVars PROVE SeriesInv'
  OBVIOUS
<1>1. CASE QueryWithSubquery
  BY <1>1, SubqueryStep
<1>2. CASE Prequery
  BY <1>2, PrequeryStep
<1>3. CASE PrequeryFails
  BY <1>3 DEF PrequeryFails, Limited, SeriesInv, SeriesTypeOK, Ranked, Tables, AllGroups
<1>4. CASE QueryAfterPrequery
  BY <1>4, AnswerStep
<1>5. CASE \E g \in Groups \cup {Null}, t \in Times : InsertRow(g, t)
  BY <1>5, InsertStep DEF AllGroups
<1>6. CASE UNCHANGED seriesVars
  <2>1. Ranked' <=> Ranked
    BY <1>6 DEF seriesVars, Ranked, Candidates, Precedence, GroupsFound, where_clause_and,
                row_level_filters, InnerRange, Ordered, Beats, OrderedBy, FirstOf, Limited
  <2>2. PointsOf(Joined)' = PointsOf(Joined)
    BY <1>6 DEF seriesVars, Limited, Joined, PointsOf, where_clause_and, row_level_filters
  <2> QED BY <1>6, <2>1, <2>2 DEF seriesVars, Limited, SeriesInv, SeriesTypeOK
<1>7. CASE QueryUnlimited
  BY <1>7, UnlimitedStep
<1> QED BY <1>1, <1>2, <1>3, <1>4, <1>5, <1>6, <1>7 DEF SeriesNext

-------------------------------------------------------------------------------
(* The series that are shown *)

\* Of the series that compete and the groups that the ranking query returns one is as
\* good as the other, but for HAVING.
LEMMA FoundCompete ==
  ASSUME SeriesInv
  PROVE  Competing = GroupsFound(atRanking, InnerRange)
<1>1. InnerRange \subseteq Times /\ IsFiniteSet(InnerRange)
  BY RequestTypes DEF SeriesInv
<1>2. ASSUME NEW g \in AllGroups
      PROVE  Total(atRanking, g, InnerRange) > 0 <=> \E t \in InnerRange : atRanking[g][t] > 0
  <2>1. \A t \in InnerRange : atRanking[g][t] \in Nat
    BY <1>1 DEF SeriesInv, Tables
  <2> QED BY <1>1, <2>1, SumIsPositive
<1> QED BY <1>2 DEF Competing, GroupsFound, AllGroups

LEMMA JoinedAreCandidates ==
  ASSUME SeriesInv, phase = "answered", Limited, query_obj.allows_joins \/ top_groups # {}
  PROVE  /\ top_groups \in FirstOf(Candidates, Precedence)
         /\ Joined = IF query_obj.allows_joins THEN top_groups \ {Null} ELSE top_groups
         /\ points = PointsOf(Joined)
         /\ top_groups \subseteq Candidates /\ Candidates \subseteq Competing
         /\ query_obj.having = 0 \/ query_obj.allows_joins => Candidates = Competing
<1>1. top_groups \in FirstOf(Candidates, Precedence) /\ points = PointsOf(Joined)
  BY DEF SeriesInv, Ranked
<1>2. top_groups \subseteq Candidates
  BY <1>1 DEF FirstOf
<1>3. Candidates \subseteq Competing
  BY FoundCompete DEF Candidates
<1>4. query_obj.having = 0 \/ query_obj.allows_joins => Candidates = Competing
  BY FoundCompete DEF Candidates, Competing
<1> QED BY <1>1, <1>2, <1>3, <1>4 DEF Joined

\* Without a limit all series are shown.
LEMMA AllSeries ==
  ASSUME SeriesInv, phase = "answered", ~Limited, NEW h \in Groups \cup {Null}, where_clause_and(h)
  PROVE  ~IsMissing(h)
<1>1. points = PointsOf(AllGroups)
  BY DEF SeriesInv, Joined
<1> SUFFICES ASSUME IsMissing(h) PROVE FALSE
  OBVIOUS
<1>2. PICK t \in query_obj.range : table[h][t] > query_obj.having
  BY DEF IsMissing
<1>3. <<h, t>> \in points
  BY <1>1, <1>2 DEF PointsOf, AllGroups
<1> QED BY <1>3 DEF IsMissing, Shown

LEMMA TopSeries ==
  ASSUME SeriesInv, phase = "answered", Limited, query_obj.allows_joins \/ top_groups # {}
  PROVE  /\ LimitedToTheTop
         /\ Shown \subseteq Competing
         /\ \A h \in Competing : IsMissing(h) => Outnumbered(h)
<1> DEFINE limit == query_obj.timeseries_limit
<1>1. limit \in Nat /\ query_obj.having \in Nat /\ query_obj.range \subseteq Times
  BY RequestTypes DEF SeriesInv
<1>2. /\ top_groups \in FirstOf(Candidates, Precedence)
      /\ Joined = IF query_obj.allows_joins THEN top_groups \ {Null} ELSE top_groups
      /\ points = PointsOf(Joined)
      /\ top_groups \subseteq Candidates /\ Candidates \subseteq Competing
      /\ query_obj.having = 0 \/ query_obj.allows_joins => Candidates = Competing
  BY JoinedAreCandidates
<1>3. Competing \subseteq AllGroups /\ IsFiniteSet(AllGroups)
  <2>1. IsFiniteSet(AllGroups)
    BY SeriesAssumption, FS_AddElement DEF AllGroups
  <2> QED BY <2>1 DEF Competing, AllGroups
<1>4. IsFiniteSet(top_groups) /\ IsFiniteSet(Competing) /\ Cardinality(top_groups) \in Nat
  BY <1>2, <1>3, FS_Subset, FS_CardinalityType
<1>5. Cardinality(top_groups) <= limit
  BY <1>1, <1>2, <1>4 DEF FirstOf
<1>6. Shown \subseteq Joined /\ Joined \subseteq top_groups
  BY <1>2 DEF Shown, PointsOf
<1>7. Cardinality(Shown) <= limit
  <2>1. Cardinality(Shown) <= Cardinality(top_groups) /\ Cardinality(Shown) \in Nat
    <3>1. Shown \subseteq top_groups
      BY <1>6
    <3> QED BY <3>1, <1>4, FS_Subset, FS_CardinalityType
  <2> QED BY <2>1, <1>1, <1>4, <1>5
<1>8. ASSUME Ordered, query_obj.having = 0 \/ query_obj.allows_joins, NEW g \in Shown
      PROVE  Cardinality({h \in Competing : Beats(h, g)}) < limit
  <2> DEFINE better == {h \in Competing : Beats(h, g)}
  <2>1. g \in top_groups /\ g \in AllGroups
    BY <1>2, <1>3, <1>6, <1>8
  <2>2. ~Beats(g, g)
    <3>1. InnerRange # {}
      BY <2>1, <1>2 DEF Candidates, GroupsFound
    <3>2. OrderedBy(atRanking, g, InnerRange) \in Nat
      BY <2>1, <3>1, MeasureIsNumber DEF SeriesInv
    <3> QED BY <3>2 DEF Beats
  <2>3. better \subseteq top_groups \ {g}
    <3>1. ASSUME NEW h \in better, h \notin top_groups PROVE FALSE
      <4>1. h \in Candidates /\ h \in AllGroups
        BY <3>1, <1>2, <1>3, <1>8
      <4>2. <<h, g>> \in (Candidates \ top_groups) \X top_groups
        BY <4>1, <3>1, <2>1
      <4>3. <<h, g>> \in Precedence
        BY <4>1, <2>1, <3>1, <1>8 DEF Precedence
      <4> QED BY <4>2, <4>3, <1>2 DEF FirstOf
    <3> QED BY <3>1, <2>2
  <2>4. Cardinality(top_groups \ {g}) = Cardinality(top_groups) - 1 /\ IsFiniteSet(top_groups \ {g})
    BY <2>1, <1>4, FS_RemoveElement
  <2>5. Cardinality(better) <= Cardinality(top_groups \ {g}) /\ Cardinality(better) \in Nat
    <3> HIDE DEF better
    <3> QED BY <2>3, <2>4, FS_Subset, FS_CardinalityType
  <2> HIDE DEF better
  <2>6. Cardinality(better) < limit
    BY <2>4, <2>5, <1>1, <1>4, <1>5
  <2> QED BY <2>6 DEF better
<1>9. ASSUME NEW h \in Competing, IsMissing(h), ~(h = Null /\ query_obj.allows_joins)
      PROVE  Cardinality({g \in Competing \ {h} : Ordered => ~Beats(h, g)}) >= limit
  <2>1. query_obj.having = 0 /\ h \notin Shown
    BY <1>9 DEF IsMissing
  <2>2. h \notin top_groups
    <3>1. SUFFICES ASSUME h \in top_groups PROVE FALSE
      OBVIOUS
    <3>2. h \in Joined /\ where_clause_and(h) /\ h \in AllGroups
      BY <3>1, <1>2, <1>3, <1>9 DEF Competing
    <3>3. PICK t \in query_obj.range : table[h][t] > query_obj.having
      BY <1>9, <2>1 DEF IsMissing
    <3>4. <<h, t>> \in points
      BY <3>2, <3>3, <1>2 DEF PointsOf
    <3> QED BY <3>4, <2>1 DEF Shown
  <2>3. Cardinality(top_groups) = limit
    BY <2>1, <2>2, <1>2, <1>9 DEF FirstOf
  <2> DEFINE others == {g \in Competing \ {h} : Ordered => ~Beats(h, g)}
  <2>4. top_groups \subseteq others
    <3>1. ASSUME NEW g \in top_groups, Ordered, Beats(h, g) PROVE FALSE
      <4>1. h \in Candidates /\ h \in AllGroups /\ g \in AllGroups
        BY <2>1, <3>1, <1>2, <1>3, <1>9
      <4>2. <<h, g>> \in (Candidates \ top_groups) \X top_groups
        BY <4>1, <3>1, <2>2
      <4>3. <<h, g>> \in Precedence
        BY <4>1, <3>1 DEF Precedence
      <4> QED BY <4>2, <4>3, <1>2 DEF FirstOf
    <3> QED BY <3>1, <2>2, <1>2
  <2>5. IsFiniteSet(others)
    BY <1>4, FS_Subset
  <2> HIDE DEF others
  <2>6. Cardinality(others) >= limit
    <3>1. Cardinality(top_groups) <= Cardinality(others) /\ Cardinality(others) \in Nat
      BY <2>4, <2>5, FS_Subset, FS_CardinalityType
    <3> QED BY <3>1, <2>3, <1>1
  <2> QED BY <2>6 DEF others
<1>10. Shown \subseteq Competing
  BY <1>2, <1>6
<1>11. LimitedToTheTop
  BY <1>7, <1>8 DEF LimitedToTheTop
<1> QED BY <1>9, <1>10, <1>11 DEF Outnumbered

\* Of the series shown no point is left out.
LEMMA PointsAreComplete ==
  ASSUME SeriesInv, phase = "answered", NEW g \in Shown, NEW t \in query_obj.range,
         table[g][t] > query_obj.having
  PROVE  <<g, t>> \in points
<1>1. points = PointsOf(Joined)
  BY DEF SeriesInv
<1> QED BY <1>1 DEF Shown, PointsOf

\* The variables of the query of a limited time series keep their types.
THEOREM SeriesTypeCorrect == SeriesSpec => []SeriesTypeOK
<1>1. SeriesInv => SeriesTypeOK
  BY DEF SeriesInv
<1> QED BY <1>1, InitSeriesInv, SeriesStep, PTL DEF SeriesSpec

\* Whatever the groups, times, filters and limits, the chart shows of the groups that
\* compete the top ones where the limit applies, with or without joins, and all of them
\* where it does not (get_sqla_query and _get_top_groups of connectors/sqla/models.py),
\* but for the exceptions that the property names.
THEOREM TopSeriesShown == SeriesSpec => []ShowsTheTopSeries
<1>1. SeriesInv => ShowsTheTopSeries
  BY TopSeries, AllSeries, PointsAreComplete DEF ShowsTheTopSeries
<1> QED BY <1>1, InitSeriesInv, SeriesStep, PTL DEF SeriesSpec

-------------------------------------------------------------------------------
(***************************************************************************)
(* The beat sends every time of the crontab once, for every period of the  *)
(* beat, every margin, every crontab, every range of delays and any number *)
(* of beats, when the delays stay on one side of the margin.  The heart is *)
(* WindowIs: the window of a beat then holds one minute, the beat's own or *)
(* the one after it.                                                       *)
(***************************************************************************)

(* A task runs between its least and its greatest delay after its beat.    *)
FiredRecently ==
    \A b \in fired : b * Minute <= now /\ now <= b * Minute + delays[2]

(* The minute that the windows hold, counted from the beat's.              *)
Offset == IF delays[2] < Margin THEN 0 ELSE 1

(* What is sent is what the windows held.                                  *)
SentByWindow ==
    OneSide =>
        /\ \A p \in sent : p[1] = p[2] + Offset
        /\ \A b \in ran, c \in cron : c = b + Offset => <<c, b>> \in sent

CronInv == CronTypeOK /\ FiredRecently /\ SentByWindow

-----------------------------------------------------------------------------
(* Minutes in order are in order when counted in units of time.            *)
LEMMA Multiples ==
    ASSUME NEW a \in Nat, NEW b \in Nat
    PROVE  /\ a * Minute \in Nat
           /\ (a + 1) * Minute = a * Minute + Minute
           /\ a <= b => a * Minute <= b * Minute
BY ClockAssumption

(* The window of a task that runs in time.                                 *)
LEMMA WindowIs ==
    ASSUME CronTypeOK, OneSide, NEW b \in 0..Minutes,
           b * Minute + delays[1] <= now, now <= b * Minute + delays[2]
    PROVE  cron_schedule_window = {c \in cron : c = b + Offset}
<1> DEFINE M == Minute
           t == b * Minute
<1>1. /\ M \in Nat /\ Margin \in Nat /\ 0 < Margin /\ Margin < M /\ now \in Nat
      /\ delays[1] \in Nat /\ delays[2] \in Nat /\ b \in Nat /\ t \in Nat
      /\ cron \subseteq Nat
    BY ClockAssumption, Multiples DEF CronTypeOK
<1>2. ASSUME NEW c \in cron
      PROVE  (now - Margin < c * M /\ c * M < now + (M - Margin))
               <=> c = b + Offset
    <2>1. c \in Nat /\ c * M \in Nat /\ (b + 1) * M = t + M
        BY <1>1, Multiples
    <2>2. (b + 2) * M = t + M + M
        <3>1. b + 1 \in Nat /\ (b + 1) + 1 = b + 2
            BY <1>1
        <3> QED BY <1>1, <2>1, <3>1, Multiples
    <2>3. /\ c <= b => c * M <= t
          /\ b + 1 <= c => t + M <= c * M
          /\ b + 2 <= c => t + M + M <= c * M
        <3>1. b + 1 \in Nat /\ b + 2 \in Nat
            BY <1>1
        <3> QED BY <1>1, <2>1, <2>2, <3>1, Multiples
    <2>4. c + 1 <= b => c * M + M <= t
        <3>1. c + 1 \in Nat /\ (c + 1) * M = c * M + M
            BY <2>1, Multiples
        <3> QED BY <1>1, <3>1, Multiples
    <2> DEFINE x == c * M
    <2>5. x \in Nat /\ (c = b => x = t) /\ (c = b + 1 => x = t + M)
        BY <2>1
    <2> HIDE DEF x, t, M
    <2>6. CASE delays[2] < Margin
        <3>1. Offset = 0
            BY <2>6 DEF Offset
        <3>2. c = b => now - Margin < x /\ x < now + (M - Margin)
            BY <1>1, <2>5, <2>6 DEF t
        <3>3. c + 1 <= b => ~(now - Margin < x)
            BY <1>1, <2>4, <2>5 DEF x, t, M
        <3>4. b + 1 <= c => ~(x < now + (M - Margin))
            BY <1>1, <2>3, <2>5, <2>6 DEF x, t, M
        <3>5. c + 1 <= b \/ c = b \/ b + 1 <= c
            BY <1>1, <2>1
        <3> QED BY <1>1, <2>1, <3>1, <3>2, <3>3, <3>4, <3>5 DEF x
    <2>7. CASE ~(delays[2] < Margin)
        <3>1. Offset = 1 /\ Margin < delays[1] /\ delays[2] < M + Margin
            BY <2>7 DEF Offset, OneSide, M
        <3>2. c = b + 1 => now - Margin < x /\ x < now + (M - Margin)
            BY <1>1, <2>5, <3>1 DEF t
        <3>3. c <= b => ~(now - Margin < x)
            BY <1>1, <2>3, <2>5, <3>1 DEF x, t, M
        <3>4. b + 2 <= c => ~(x < now + (M - Margin))
            BY <1>1, <2>3, <2>5, <3>1 DEF x, t, M
        <3>5. c <= b \/ c = b + 1 \/ b + 2 <= c
            BY <1>1, <2>1
        <3> QED BY <1>1, <2>1, <3>1, <3>2, <3>3, <3>4, <3>5 DEF x
    <2> QED BY <2>6, <2>7
<1> QED BY <1>2 DEF cron_schedule_window

-----------------------------------------------------------------------------
(* A window holds times of the crontab only.                               *)
LEMMA WindowTyped == cron_schedule_window \subseteq cron
BY DEF cron_schedule_window

(* Every step keeps the types.                                             *)
LEMMA CronTypes == CronTypeOK /\ [CronNext]_cronVars => CronTypeOK'
<1> SUFFICES ASSUME CronTypeOK, [CronNext]_cronVars PROVE CronTypeOK'
    OBVIOUS
<1>1. ASSUME NEW b \in 0..Minutes, Beat(b) PROVE CronTypeOK'
    BY <1>1 DEF Beat, CronTypeOK
<1>2. ASSUME NEW b \in 0..Minutes, scheduler(b) PROVE CronTypeOK'
    <2>1. sent' \subseteq cron \X (0..Minutes)
        BY <1>2, WindowTyped DEF scheduler, CronTypeOK
    <2> QED BY <1>2, <2>1 DEF scheduler, CronTypeOK
<1>3. CASE Advance
    BY <1>3 DEF Advance, CronTypeOK
<1>4. CASE UNCHANGED cronVars
    BY <1>4 DEF cronVars, CronTypeOK
<1> QED BY <1>1, <1>2, <1>3, <1>4 DEF CronNext

(* The invariant holds in the beginning.                                   *)
LEMMA InitCronInv == CronInit => CronInv
BY ClockAssumption DEF CronInit, CronInv, CronTypeOK, FiredRecently, SentByWindow

(* Every step preserves it.                                                *)
LEMMA NextCronInv == CronInv /\ [CronNext]_cronVars => CronInv'
<1> SUFFICES ASSUME CronInv, [CronNext]_cronVars PROVE CronInv'
    OBVIOUS
<1>0. CronTypeOK /\ CronTypeOK' /\ FiredRecently /\ SentByWindow
    BY CronTypes DEF CronInv
<1>1. /\ delays \in Nat \X Nat /\ now \in Nat
      /\ \A b \in 0..Minutes : b * Minute \in Nat
    BY <1>0, Multiples, ClockAssumption DEF CronTypeOK
<1>2. ASSUME NEW b \in 0..Minutes, Beat(b) PROVE FiredRecently' /\ SentByWindow'
    <2>1. FiredRecently'
        <3> SUFFICES ASSUME NEW a \in fired'
                     PROVE  /\ a * Minute <= now'
                            /\ now' <= a * Minute + delays'[2]
            BY DEF FiredRecently
        <3>1. now' = now /\ delays' = delays /\ fired' = fired \cup {b}
            BY <1>2 DEF Beat
        <3>2. CASE a \in fired
            BY <1>0, <3>1, <3>2 DEF FiredRecently
        <3>3. CASE a = b
            <4>1. now = a * Minute
                BY <1>2, <3>3 DEF Beat
            <4> QED BY <1>1, <3>1, <4>1
        <3> QED BY <3>1, <3>2, <3>3
    <2>2. SentByWindow'
        BY <1>0, <1>2 DEF Beat, SentByWindow, OneSide, Offset
    <2> QED BY <2>1, <2>2
<1>3. ASSUME NEW b \in 0..Minutes, scheduler(b)
      PROVE  FiredRecently' /\ SentByWindow'
    <2>1. FiredRecently'
        BY <1>0, <1>3 DEF scheduler, FiredRecently
    <2>2. ASSUME OneSide
          PROVE  /\ \A p \in sent' : p[1] = p[2] + Offset
                 /\ \A a \in ran', c \in cron :
                        c = a + Offset => <<c, a>> \in sent'
        <3>1. b * Minute + delays[1] <= now /\ now <= b * Minute + delays[2]
            BY <1>0, <1>1, <1>3 DEF scheduler, FiredRecently
        <3>2. cron_schedule_window = {c \in cron : c = b + Offset}
            BY <1>0, <2>2, <3>1, WindowIs
        <3>3. /\ sent' = sent \cup ({c \in cron : c = b + Offset} \X {b})
              /\ ran' = ran \cup {b}
            BY <1>3, <3>2 DEF scheduler
        <3> QED BY <1>0, <2>2, <3>3 DEF SentByWindow
    <2>3. SentByWindow'
        BY <1>3, <2>2 DEF SentByWindow, scheduler, OneSide, Offset
    <2> QED BY <2>1, <2>3
<1>4. ASSUME Advance PROVE FiredRecently' /\ SentByWindow'
    <2>1. FiredRecently'
        <3> SUFFICES ASSUME NEW b \in fired
                     PROVE  /\ b * Minute <= now + 1
                            /\ now + 1 <= b * Minute + delays[2]
            BY <1>4 DEF Advance, FiredRecently
        <3>1. b * Minute <= now /\ now < b * Minute + delays[2]
            BY <1>0, <1>4 DEF Advance, FiredRecently
        <3>2. b * Minute \in Nat
            BY <1>0, <1>1 DEF CronTypeOK
        <3> QED BY <1>1, <3>1, <3>2
    <2>2. SentByWindow'
        BY <1>0, <1>4 DEF Advance, SentByWindow, OneSide, Offset
    <2> QED BY <2>1, <2>2
<1>5. ASSUME UNCHANGED cronVars PROVE FiredRecently' /\ SentByWindow'
    <2>1. FiredRecently'
        BY <1>0, <1>5 DEF cronVars, FiredRecently
    <2>2. SentByWindow'
        BY <1>0, <1>5 DEF cronVars, SentByWindow, OneSide, Offset
    <2> QED BY <2>1, <2>2
<1>6. FiredRecently' /\ SentByWindow'
    BY <1>2, <1>3, <1>4, <1>5 DEF CronNext
<1> QED BY <1>0, <1>6 DEF CronInv

(* The invariant holds in every state.                                     *)
LEMMA CronInvariance == CronSpec => []CronInv
BY InitCronInv, NextCronInv, PTL DEF CronSpec

-----------------------------------------------------------------------------
(* Every variable keeps its type: what is sent was due, and by a beat.     *)
THEOREM CronTypeCorrect == CronSpec => []CronTypeOK
<1>1. CronInv => CronTypeOK
    BY DEF CronInv
<1> QED BY <1>1, CronInvariance, PTL

(* No cron time is sent by two beats (cron_schedule_window), whatever the  *)
(* crontab, while the delays stay on one side of the margin.               *)
THEOREM EverySentOnce == CronSpec => []SentOnce
<1>1. CronInv => SentOnce
    <2> SUFFICES ASSUME CronInv, OneSide, NEW p \in sent, NEW q \in sent,
                        p[1] = q[1]
                 PROVE  p = q
        BY DEF SentOnce
    <2>1. p[1] = p[2] + Offset /\ q[1] = q[2] + Offset
        BY DEF CronInv, SentByWindow
    <2>2. p \in cron \X (0..Minutes) /\ q \in cron \X (0..Minutes)
        BY DEF CronInv, CronTypeOK
    <2>3. p[2] = q[2]
        <3>1. p[2] \in Int /\ q[2] \in Int /\ Offset \in Int
            BY <2>2 DEF Offset
        <3>2. p[2] + Offset = q[2] + Offset
            BY <2>1
        <3>3. \A x, y, z \in Int : x + z = y + z => x = y
            OBVIOUS
        <3> QED BY <3>1, <3>2, <3>3
    <2> QED BY <2>2, <2>3
<1> QED BY <1>1, CronInvariance, PTL

(* None is left out: its own beat sends it, or the one before.             *)
THEOREM NoneIsMissed == CronSpec => []NoneMissed
<1>1. CronInv => NoneMissed
    <2> SUFFICES ASSUME CronInv, OneSide, NEW c \in cron, c > 0,
                        {c - 1, c} \subseteq ran
                 PROVE  \E b \in ran : <<c, b>> \in sent
        BY DEF NoneMissed
    <2>1. c \in Nat
        BY DEF CronInv, CronTypeOK
    <2>2. CASE Offset = 0
        BY <2>1, <2>2 DEF CronInv, SentByWindow
    <2>3. CASE Offset = 1
        BY <2>1, <2>3 DEF CronInv, SentByWindow
    <2> QED BY <2>2, <2>3 DEF Offset
<1> QED BY <1>1, CronInvariance, PTL

===============================================================================
