----------------------------- MODULE StreamFeed -----------------------------
(***************************************************************************)
(* Live data between the indexer's server (leverx-server: stream.rs,       *)
(* ws.rs) and the tabs of the web app (indexer-ws.ts, AppStreamContext,    *)
(* useIndexer).  A tab counts which of its hooks want a channel and        *)
(* subscribes over one WebSocket, which it reopens when it closes.  The    *)
(* server keeps one set of active channels for all connections; a poller   *)
(* reads new rows of leverx_events and publishes a fresh snapshot of each  *)
(* active channel a row touches to the broadcast buffer of every           *)
(* connection, which heartbeats share.  A snapshot is abstracted to the    *)
(* number of rows of its channel it contains, an event that touches        *)
(* several channels to several rows of one timestamp.                      *)
(***************************************************************************)
EXTENDS Integers, Sequences, FiniteSets

CONSTANTS
  Tabs, Hooks, TabOf,  \* the hooks mounted in each tab
  Channels, Wants,     \* what each hook may come to want, among the channels
  PageLimit,           \* rows one poll reads
  HubSize,             \* messages the broadcast buffer holds for a connection
  MaxRows, MaxToggles, MaxSockets, MaxErrors  \* bounds: rows indexed, changes
                       \* of what a hook wants, sockets opened, failed pushes

System == "_system"    \* what heartbeats are published to

ASSUME StreamAssumption ==
  /\ IsFiniteSet(Hooks) /\ TabOf \in [Hooks -> Tabs]
  /\ Wants \in [Hooks -> SUBSET SUBSET Channels] /\ System \notin Channels
  /\ PageLimit \in Nat \ {0} /\ HubSize \in Nat \ {0}
  /\ MaxRows \in Nat /\ MaxToggles \in Nat /\ MaxSockets \in Nat /\ MaxErrors \in Nat

Sockets == 1..MaxSockets
None == 0

VARIABLES
  \* the tab
  wanted,      \* subscriberChannels: what each hook wants
  refs,        \* channelRefs of each tab
  asked,       \* IndexerWebSocket.subscribed of each tab
  pending,     \* IndexerWebSocket.pendingSubscribe of each tab
  current,     \* IndexerWebSocket.socket of each tab, or None
  timer,       \* tabs with a reconnect timer
  status,      \* IndexerWebSocket.status of each tab
  shown,       \* the snapshot in the query cache of each tab
  \* the sockets
  owner,       \* the tab that opened a socket, in the order they were opened
  socket,      \* readyState of each socket opened
  inbox,       \* messages of the client the server has not handled
  \* the server
  conn,        \* the connection of each socket: none, up, down (closed, not cleaned up), gone
  subscribed,  \* channels of each connection
  tracking,    \* channels a subscribe has answered but not yet tracked
  hub,         \* broadcast messages each connection has not received
  active,      \* StreamHub.active
  \* the poller
  rows,        \* leverx_events: the channel each row touches, and its timestamp_ms
  cursor,      \* timestamp of the last row dispatched
  page,        \* rows read and not dispatched yet
  polled,      \* the active set read with the page
  toggles, errors,
  missed       \* channels whose last broadcast a connection lost: a history
               \* of the buffer, which no step reads

tabVars == <<wanted, refs, asked, pending, timer, shown>>
linkVars == <<current, status, owner, socket>>
serverVars == <<conn, subscribed, tracking, active>>
pollVars == <<cursor, page, polled, errors>>
vars == <<tabVars, linkVars, inbox, serverVars, hub, rows, pollVars, toggles, missed>>

Opened == 1..Len(owner)
Tab(s) == owner[s]
RowsUpTo(n, ch) == Cardinality({i \in 1..n : rows[i].channel = ch})
Fresh(ch) == RowsUpTo(Len(rows), ch)
IsOpen(s) == s # None /\ socket[s] = "open"

-----------------------------------------------------------------------------
(* The tab *)

(* syncSubscriberChannels: the channels whose first or last subscriber this is *)
Entering(h, chs) == {ch \in chs \ wanted[h] : refs[TabOf[h]][ch] = 0}
Leaving(h, chs) == {ch \in wanted[h] \ chs : refs[TabOf[h]][ch] = 1}

CountedRefs(h, chs) ==
  [ch \in Channels |->
     refs[TabOf[h]][ch] + (IF ch \in chs \ wanted[h] THEN 1 ELSE 0)
                        - (IF ch \in wanted[h] \ chs THEN 1 ELSE 0)]

(* openSocket: a new socket becomes the tab's own, whatever became of the last *)
OpenSocket(t) ==
  /\ Len(owner) < MaxSockets
  /\ owner' = Append(owner, t)
  /\ socket' = [socket EXCEPT ![Len(owner) + 1] = "connecting"]
  /\ current' = [current EXCEPT ![t] = Len(owner) + 1]
  /\ status' = [status EXCEPT ![t] = "connecting"]

(* connect(): opens a socket only when the tab has none that is open or opening *)
Connect(t) ==
  IF current[t] # None /\ socket[current[t]] \in {"open", "connecting"}
  THEN UNCHANGED linkVars
  ELSE OpenSocket(t)

(* AppStreamProvider mounts *)
AppMounts(t) ==
  /\ status[t] = "idle"
  /\ OpenSocket(t)
  /\ UNCHANGED <<tabVars, inbox, serverVars, hub, rows, pollVars, toggles, missed>>

Message(op, chs) == IF chs = {} THEN << >> ELSE <<[op |-> op, channels |-> chs]>>

(* subscribe, flushSubscribe and unsubscribe: sent on the current socket when
   it is open, kept in pendingSubscribe until then *)
SetChannels(h, chs) ==
  LET t == TabOf[h]
      due == pending[t] \cup Entering(h, chs)
      sending == IsOpen(current[t])
  IN /\ toggles < MaxToggles
     /\ chs # wanted[h]
     /\ toggles' = toggles + 1
     /\ wanted' = [wanted EXCEPT ![h] = chs]
     /\ refs' = [refs EXCEPT ![t] = CountedRefs(h, chs)]
     /\ asked' = [asked EXCEPT ![t] = (@ \cup Entering(h, chs)) \ Leaving(h, chs)]
     /\ pending' = [pending EXCEPT ![t] = IF sending THEN {} ELSE due \ Leaving(h, chs)]
     /\ inbox' = IF sending
                 THEN [inbox EXCEPT ![current[t]] =
                         @ \o Message("subscribe", due) \o Message("unsubscribe", Leaving(h, chs))]
                 ELSE inbox
     /\ IF Entering(h, chs) # {} THEN Connect(t) ELSE UNCHANGED linkVars
     /\ UNCHANGED <<timer, shown, serverVars, hub, rows, pollVars, missed>>

(* the "open" event: the tab is live and flushes what is pending, on the
   socket that is its own by now *)
SocketOpens(s) ==
  LET t == Tab(s)
      own == current[t]
      flush == own = s \/ IsOpen(own)
  IN /\ socket[s] = "connecting"
     /\ socket' = [socket EXCEPT ![s] = "open"]
     /\ status' = [status EXCEPT ![t] = "open"]
     /\ conn' = [conn EXCEPT ![s] = "up"]
     /\ pending' = [pending EXCEPT ![t] = IF flush THEN {} ELSE @]
     /\ inbox' = IF flush /\ own # None
                 THEN [inbox EXCEPT ![own] = @ \o Message("subscribe", pending[t])]
                 ELSE inbox
     /\ UNCHANGED <<wanted, refs, asked, timer, shown, current, owner, subscribed, tracking,
                    active, hub, rows, pollVars, toggles, missed>>

(* the "close" event: the tab has no socket any more and schedules a reconnect *)
SocketCloses(s) ==
  LET t == Tab(s) IN
  /\ socket[s] \in {"connecting", "open"}
  /\ socket' = [socket EXCEPT ![s] = "closed"]
  /\ conn' = [conn EXCEPT ![s] = IF @ = "up" THEN "down" ELSE @]
  /\ current' = [current EXCEPT ![t] = None]
  /\ status' = [status EXCEPT ![t] = "closed"]
  /\ timer' = timer \cup {t}
  /\ UNCHANGED <<wanted, refs, asked, pending, shown, owner, inbox, subscribed, tracking,
                 active, hub, rows, pollVars, toggles, missed>>

ReconnectTimer(t) ==
  /\ t \in timer
  /\ timer' = timer \ {t}
  /\ OpenSocket(t)
  /\ UNCHANGED <<wanted, refs, asked, pending, shown, inbox, serverVars, hub, rows, pollVars, toggles, missed>>

(* useIndexer*: refetchInterval polls REST unless the stream is live *)
Refetch(t, ch) ==
  /\ status[t] # "open"
  /\ refs[t][ch] > 0
  /\ shown' = [shown EXCEPT ![t][ch] = Fresh(ch)]
  /\ UNCHANGED <<wanted, refs, asked, pending, timer, linkVars, inbox, serverVars, hub, rows,
                 pollVars, toggles, missed>>

(* applyIndexerStreamMessage: a snapshot replaces what the cache shows *)
Show(s, snapshots) ==
  shown' = IF socket[s] = "open"
           THEN [shown EXCEPT ![Tab(s)] =
                   [ch \in Channels |-> IF ch \in DOMAIN snapshots THEN snapshots[ch] ELSE @[ch]]]
           ELSE shown

-----------------------------------------------------------------------------
(* The server's side of a connection: one message at a time *)

(* subscribe: the channels are accepted and their snapshots sent ... *)
AcceptSubscribe(s) ==
  /\ conn[s] \in {"up", "down"} /\ tracking[s] = {}
  /\ inbox[s] # << >> /\ Head(inbox[s]).op = "subscribe"
  /\ LET chs == Head(inbox[s]).channels
     IN /\ subscribed' = [subscribed EXCEPT ![s] = @ \cup chs]
        /\ tracking' = [tracking EXCEPT ![s] = chs]
        /\ Show(s, [ch \in chs |-> Fresh(ch)])
        /\ missed' = [missed EXCEPT ![s] = @ \ chs]
  /\ inbox' = [inbox EXCEPT ![s] = Tail(@)]
  /\ UNCHANGED <<wanted, refs, asked, pending, timer, linkVars, conn, active, hub, rows, pollVars, toggles>>

(* ... and only then is the poller told of them *)
TrackChannels(s) ==
  /\ tracking[s] # {}
  /\ active' = active \cup tracking[s]
  /\ tracking' = [tracking EXCEPT ![s] = {}]
  /\ UNCHANGED <<tabVars, linkVars, inbox, conn, subscribed, hub, rows, pollVars, toggles, missed>>

HandleUnsubscribe(s) ==
  /\ conn[s] \in {"up", "down"} /\ tracking[s] = {}
  /\ inbox[s] # << >> /\ Head(inbox[s]).op = "unsubscribe"
  /\ LET removed == Head(inbox[s]).channels \cap subscribed[s]
     IN /\ subscribed' = [subscribed EXCEPT ![s] = @ \ removed]
        /\ active' = active \ removed
  /\ inbox' = [inbox EXCEPT ![s] = Tail(@)]
  /\ UNCHANGED <<tabVars, linkVars, conn, tracking, hub, rows, pollVars, toggles, missed>>

(* hub_rx: a broadcast is forwarded when the connection subscribed its channel *)
Deliver(s) ==
  /\ conn[s] = "up" /\ tracking[s] = {}
  /\ hub[s] # << >>
  /\ LET msg == Head(hub[s])
     IN Show(s, [ch \in {msg.channel} \cap subscribed[s] |-> msg.version])
  /\ hub' = [hub EXCEPT ![s] = Tail(@)]
  /\ UNCHANGED <<wanted, refs, asked, pending, timer, linkVars, inbox, serverVars, rows, pollVars, toggles, missed>>

TeardownKeepsActive(s) ==
  /\ conn[s] = "down" /\ tracking[s] = {}
  /\ conn' = [conn EXCEPT ![s] = "gone"]
  /\ subscribed' = [subscribed EXCEPT ![s] = {}]
  /\ inbox' = [inbox EXCEPT ![s] = << >>]
  /\ hub' = [hub EXCEPT ![s] = << >>]
  /\ missed' = [missed EXCEPT ![s] = {}]
  /\ UNCHANGED <<tabVars, linkVars, tracking, active, rows, pollVars, toggles>>

(* The loop ends on a closed socket and untracks what it had subscribed. *)
Teardown(s) ==
  /\ conn[s] = "down" /\ tracking[s] = {}
  /\ conn' = [conn EXCEPT ![s] = "gone"]
  /\ active' = active \ subscribed[s]
  /\ subscribed' = [subscribed EXCEPT ![s] = {}]
  /\ inbox' = [inbox EXCEPT ![s] = << >>]
  /\ hub' = [hub EXCEPT ![s] = << >>]
  /\ missed' = [missed EXCEPT ![s] = {}]
  /\ UNCHANGED <<tabVars, linkVars, tracking, rows, pollVars, toggles>>

-----------------------------------------------------------------------------
(* The indexer commits a row; the poller reads and publishes. *)

Stamps == IF rows = << >> THEN {1} ELSE {rows[Len(rows)].ms, rows[Len(rows)].ms + 1}

(* Rows come in the order of their checkpoints; those of one checkpoint, and
   of two in one millisecond, share their timestamp. *)
IndexRow(ch, ms) ==
  /\ Len(rows) < MaxRows
  /\ rows' = Append(rows, [channel |-> ch, ms |-> ms])
  /\ UNCHANGED <<tabVars, linkVars, inbox, serverVars, hub, pollVars, toggles, missed>>

UnreadRows == {i \in 1..Len(rows) : rows[i].ms > cursor}

(* The first rows by timestamp, in any order of those that share one. *)
IsPage(chosen, unread) ==
  /\ chosen # {} /\ Cardinality(chosen) <= PageLimit
  /\ Cardinality(chosen) < PageLimit => chosen = unread
  /\ \A i \in chosen, j \in unread \ chosen : rows[i].ms <= rows[j].ms

(* poll_once: rows past the cursor and, once for the page, the active set *)
ReadPage ==
  /\ page = {}
  /\ \E chosen \in SUBSET UnreadRows : IsPage(chosen, UnreadRows) /\ page' = chosen
  /\ polled' = active
  /\ UNCHANGED <<tabVars, linkVars, inbox, serverVars, hub, rows, cursor, errors, toggles, missed>>

BufferedUnbounded(queue, msg) == Append(queue, msg)
BufferedOldest(queue, msg) == IF Len(queue) < HubSize THEN Append(queue, msg) ELSE queue

(* The broadcast buffer keeps the newest messages of a slow receiver, whatever
   their channels; the receiver goes on with what is left (Lagged). *)
Buffered(queue, msg) ==
  IF Len(queue) < HubSize THEN Append(queue, msg) ELSE Append(Tail(queue), msg)

ChannelsIn(queue) == {queue[i].channel : i \in 1..Len(queue)} \cap Channels

Publish(msg) ==
  LET receives(s) == conn[s] = "up"
  IN /\ hub' = [s \in Sockets |-> IF receives(s) THEN Buffered(hub[s], msg) ELSE hub[s]]
     /\ missed' = [s \in Sockets |->
                     IF receives(s)
                     THEN (missed[s] \cup ChannelsIn(hub[s])) \ ChannelsIn(hub'[s])
                     ELSE missed[s]]

Heartbeat ==
  /\ Publish([channel |-> System, version |-> 0])
  /\ UNCHANGED <<tabVars, linkVars, inbox, serverVars, rows, pollVars, toggles>>

\* The row of the page that is dispatched next.
IsNext(i) == i \in page /\ \A j \in page : rows[i].ms <= rows[j].ms

(* dispatch_event: the snapshot published is read when the row is dispatched *)
DispatchRow(i) ==
  /\ IsNext(i)
  /\ cursor' = rows[i].ms
  /\ page' = page \ {i}
  /\ polled' = IF page' = {} THEN {} ELSE polled
  /\ LET ch == rows[i].channel
     IN IF ch \in polled THEN Publish([channel |-> ch, version |-> Fresh(ch)])
                         ELSE UNCHANGED <<hub, missed>>
  /\ UNCHANGED <<tabVars, linkVars, inbox, serverVars, rows, errors, toggles>>

(* A query of the dispatch fails: the cursor is already past the row, and what
   the page has of later timestamps is read again by the next poll. *)
DispatchFails(i) ==
  /\ IsNext(i)
  /\ errors < MaxErrors
  /\ errors' = errors + 1
  /\ cursor' = rows[i].ms
  /\ page' = {} /\ polled' = {}
  /\ UNCHANGED <<tabVars, linkVars, inbox, serverVars, hub, rows, toggles, missed>>

-----------------------------------------------------------------------------
Init ==
  /\ wanted = [h \in Hooks |-> {}]
  /\ refs = [t \in Tabs |-> [ch \in Channels |-> 0]]
  /\ asked = [t \in Tabs |-> {}]
  /\ pending = [t \in Tabs |-> {}]
  /\ current = [t \in Tabs |-> None]
  /\ timer = {}
  /\ status = [t \in Tabs |-> "idle"]
  /\ shown = [t \in Tabs |-> [ch \in Channels |-> 0]]
  /\ owner = << >>
  /\ socket = [s \in Sockets |-> "none"]
  /\ inbox = [s \in Sockets |-> << >>]
  /\ conn = [s \in Sockets |-> "none"]
  /\ subscribed = [s \in Sockets |-> {}]
  /\ tracking = [s \in Sockets |-> {}]
  /\ hub = [s \in Sockets |-> << >>]
  /\ active = {}
  /\ rows = << >>
  /\ cursor = 0 /\ page = {} /\ polled = {}
  /\ toggles = 0 /\ errors = 0
  /\ missed = [s \in Sockets |-> {}]

Serve(s) ==
  \/ AcceptSubscribe(s) \/ TrackChannels(s) \/ HandleUnsubscribe(s)
  \/ Deliver(s) \/ Teardown(s)

Poll == ReadPage \/ \E i \in page : DispatchRow(i)

Next ==
  \/ \E h \in Hooks : \E chs \in Wants[h] : SetChannels(h, chs)
  \/ \E t \in Tabs : AppMounts(t) \/ ReconnectTimer(t)
  \/ \E s \in Opened : SocketOpens(s) \/ SocketCloses(s)
  \/ \E s \in Opened : Serve(s)
  \/ \E t \in Tabs, ch \in Channels : Refetch(t, ch)
  \/ \E ch \in Channels, ms \in Stamps : IndexRow(ch, ms)
  \/ Heartbeat
  \/ Poll
  \/ \E i \in page : DispatchFails(i)

(* The poller's loop and every connection's loop keep running. *)
Fairness ==
  /\ WF_vars(Poll)
  /\ \A s \in Sockets : WF_vars(s \in Opened /\ Serve(s))

Spec == Init /\ [][Next]_vars
LiveSpec == Spec /\ Fairness

-----------------------------------------------------------------------------
TypeOK ==
  /\ wanted \in [Hooks -> SUBSET Channels]
  /\ refs \in [Tabs -> [Channels -> 0..Cardinality(Hooks)]]
  /\ current \in [Tabs -> Opened \cup {None}] /\ timer \subseteq Tabs
  /\ status \in [Tabs -> {"idle", "connecting", "open", "closed"}]
  /\ shown \in [Tabs -> [Channels -> 0..MaxRows]]
  /\ socket \in [Sockets -> {"none", "connecting", "open", "closed"}]
  /\ conn \in [Sockets -> {"none", "up", "down", "gone"}]
  /\ \A s \in Sockets : Len(hub[s]) <= HubSize /\ tracking[s] \subseteq subscribed[s]
  /\ active \subseteq Channels /\ polled \subseteq Channels
  /\ cursor \in Nat /\ page \subseteq 1..Len(rows) /\ \A i \in page : rows[i].ms >= cursor

(* A tab asks for exactly the channels some mounted hook wants, however hooks
   that share a channel mount, change and unmount. *)
RegistryMatchesHooks ==
  \A t \in Tabs, ch \in Channels :
    /\ refs[t][ch] = Cardinality({h \in Hooks : TabOf[h] = t /\ ch \in wanted[h]})
    /\ ch \in asked[t] <=> refs[t][ch] > 0
    /\ ch \in pending[t] => ch \in asked[t]

(* The poller builds snapshots only for channels a connection subscribed: no
   way of closing, and no order of closing and subscribing, leaves a channel
   active for nobody. *)
ActiveHasReader == \A ch \in active : \E s \in Opened : ch \in subscribed[s]

(* From the hooks of a page to the poller, nobody asks for what nobody wants. *)
NothingAskedForNobody == RegistryMatchesHooks /\ ActiveHasReader

(* A tab catches up with the rows of a channel that is polled for its open
   connection, through slow receivers, pages and channels that come and go,
   unless
     - the connection or the channel is dropped first;
     - a query of the poller failed, which loses the rest of that timestamp;
     - a row it does not show has the timestamp of another row: a page that
       ends between the two loses the second, and so does a poll that comes
       before the second is indexed;
     - the receiver was so slow that messages of other channels, or
       heartbeats, took the place of the last snapshot of this one.  What
       snapshots of its own channel displace is never lost. *)
Streaming(s, ch) ==
  s \in Opened /\ IsOpen(s) /\ conn[s] = "up" /\ ch \in subscribed[s] \cap active
Unread(ch) == \E i \in UnreadRows \ page : rows[i].channel = ch
ShowsAll(s, ch) == shown[Tab(s)][ch] = Fresh(ch)
Ambiguous(s, ch) ==
  \E i, j \in 1..Len(rows) : /\ rows[i].channel = ch /\ shown[Tab(s)][ch] < RowsUpTo(i, ch)
                             /\ i # j /\ rows[i].ms = rows[j].ms

UpdatesReachTabs ==
  \A s \in Sockets, ch \in Channels :
    (Streaming(s, ch) /\ Unread(ch))
      ~> (\/ ~Streaming(s, ch) \/ ShowsAll(s, ch)
          \/ errors > 0 \/ Ambiguous(s, ch) \/ ch \in missed[s])
=============================================================================
