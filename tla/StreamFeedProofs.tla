-------------------------- MODULE StreamFeedProofs --------------------------
(***************************************************************************)
(* For any number of tabs, hooks, channels and sockets: the stream's state *)
(* keeps its types and bounds, a tab asks for exactly what its hooks want, *)
(* and the poller reads for nobody who left.                               *)
(***************************************************************************)
EXTENDS StreamFeed, FiniteSetTheorems, SequenceTheorems, TLAPS

MessageType == [op : {"subscribe", "unsubscribe"}, channels : SUBSET Channels]
BroadcastType == [channel : Channels \cup {System}, version : 0..MaxRows]
RowType == [channel : Channels, ms : Nat]

-----------------------------------------------------------------------------
(* The inductive invariant: TypeOK, with the types of what it leaves open. *)

TabTypes ==
  /\ wanted \in [Hooks -> SUBSET Channels]
  /\ refs \in [Tabs -> [Channels -> Nat]]
  /\ asked \in [Tabs -> SUBSET Channels]
  /\ pending \in [Tabs -> SUBSET Channels]
  /\ timer \subseteq Tabs
  /\ shown \in [Tabs -> [Channels -> 0..MaxRows]]

LinkTypes ==
  /\ owner \in Seq(Tabs) /\ Len(owner) <= MaxSockets
  /\ current \in [Tabs -> Opened \cup {None}]
  /\ status \in [Tabs -> {"idle", "connecting", "open", "closed"}]
  /\ socket \in [Sockets -> {"none", "connecting", "open", "closed"}]

ServerTypes ==
  /\ inbox \in [Sockets -> Seq(MessageType)]
  /\ conn \in [Sockets -> {"none", "up", "down", "gone"}]
  /\ subscribed \in [Sockets -> SUBSET Channels]
  /\ tracking \in [Sockets -> SUBSET Channels]
  /\ \A s \in Sockets : tracking[s] \subseteq subscribed[s]
  /\ active \subseteq Channels

HubTypes ==
  /\ hub \in [Sockets -> Seq(BroadcastType)]
  /\ \A s \in Sockets : Len(hub[s]) <= HubSize

PollTypes ==
  /\ rows \in Seq(RowType) /\ Len(rows) <= MaxRows
  /\ cursor \in Nat /\ page \subseteq 1..Len(rows)
  /\ \A i \in page : rows[i].ms >= cursor
  /\ polled \subseteq Channels

Types == TabTypes /\ LinkTypes /\ ServerTypes /\ HubTypes /\ PollTypes

StreamInv == Types /\ RegistryMatchesHooks /\ ActiveHasReader

-----------------------------------------------------------------------------
(* Counting hooks *)

(* The hooks of a tab that want a channel, when each hook wants w[h]. *)
Wanting(w, t, ch) == {h \in Hooks : TabOf[h] = t /\ ch \in w[h]}

(* What the hooks want when one of them turns to chs. *)
Changed(w, h, chs) == [w EXCEPT ![h] = chs]

(* A tab has finitely many hooks on a channel. *)
LEMMA WantingIsFinite ==
  ASSUME NEW w, NEW t, NEW ch
  PROVE  /\ IsFiniteSet(Wanting(w, t, ch))
         /\ Cardinality(Wanting(w, t, ch)) \in 0..Cardinality(Hooks)
<1>1. Wanting(w, t, ch) \in SUBSET Hooks
  BY DEF Wanting
<1>2. /\ IsFiniteSet(Wanting(w, t, ch))
      /\ Cardinality(Wanting(w, t, ch)) <= Cardinality(Hooks)
  BY <1>1, FS_Subset, StreamAssumption
<1>3. Cardinality(Wanting(w, t, ch)) \in Nat /\ Cardinality(Hooks) \in Nat
  BY <1>2, FS_CardinalityType, StreamAssumption
<1> QED BY <1>2, <1>3

(* The counts of a channel before and after a hook turns to chs. *)
Recounted(w, after, h, chs, t, ch) ==
  /\ t # TabOf[h] => Wanting(after, t, ch) = Wanting(w, t, ch)
  /\ t = TabOf[h] =>
       Cardinality(Wanting(after, t, ch)) =
         Cardinality(Wanting(w, t, ch)) + (IF ch \in chs \ w[h] THEN 1 ELSE 0)
                                        - (IF ch \in w[h] \ chs THEN 1 ELSE 0)
  /\ t = TabOf[h] /\ ch \in w[h] => Cardinality(Wanting(w, t, ch)) > 0

(* One hook starts or stops to want a channel: the count follows by one, and
   only in its own tab. *)
LEMMA Recount ==
  ASSUME NEW w \in [Hooks -> SUBSET Channels], NEW h \in Hooks, NEW chs \in SUBSET Channels,
         NEW after, after = Changed(w, h, chs), NEW t, NEW ch
  PROVE  Recounted(w, after, h, chs, t, ch)
<1> DEFINE before == Wanting(w, t, ch)
<1>0. IsFiniteSet(before) /\ Cardinality(before) \in Nat
  BY WantingIsFinite, FS_CardinalityType
<1>1. ASSUME t # TabOf[h] PROVE Wanting(after, t, ch) = before
  BY <1>1 DEF Wanting, Changed
<1>2. ASSUME t = TabOf[h], ch \in w[h] PROVE Cardinality(before) > 0
  <2>1. before # {}
    BY <1>2 DEF Wanting, Changed
  <2> HIDE DEF before
  <2> QED BY <2>1, <1>0, FS_EmptySet
<1>3. ASSUME t = TabOf[h], ch \in chs \ w[h]
      PROVE  Cardinality(Wanting(after, t, ch)) = Cardinality(before) + 1
  <2>1. Wanting(after, t, ch) = before \cup {h} /\ h \notin before
    BY <1>3 DEF Wanting, Changed
  <2> HIDE DEF before
  <2> QED BY <2>1, <1>0, FS_AddElement
<1>4. ASSUME t = TabOf[h], ch \in w[h] \ chs
      PROVE  Cardinality(Wanting(after, t, ch)) = Cardinality(before) - 1
  <2>1. Wanting(after, t, ch) = before \ {h} /\ h \in before
    BY <1>4 DEF Wanting, Changed
  <2> HIDE DEF before
  <2> QED BY <2>1, <1>0, FS_RemoveElement
<1>5. ASSUME t = TabOf[h], ch \in chs <=> ch \in w[h]
      PROVE  Wanting(after, t, ch) = before
  BY <1>5 DEF Wanting, Changed
<1> HIDE DEF before
<1>6. ASSUME t = TabOf[h]
      PROVE  Cardinality(Wanting(after, t, ch)) =
               Cardinality(before) + (IF ch \in chs \ w[h] THEN 1 ELSE 0)
                                   - (IF ch \in w[h] \ chs THEN 1 ELSE 0)
  <2>1. CASE ch \in chs /\ ch \notin w[h]
    BY <2>1, <1>3, <1>6, <1>0
  <2>2. CASE ch \notin chs /\ ch \in w[h]
    BY <2>2, <1>4, <1>6, <1>0
  <2>3. CASE ch \in chs <=> ch \in w[h]
    BY <2>3, <1>5, <1>6, <1>0
  <2> QED BY <2>1, <2>2, <2>3
<1> QED BY <1>1, <1>2, <1>6 DEF before, Recounted

(* A snapshot counts some of the rows. *)
LEMMA FreshIsBounded ==
  ASSUME PollTypes, NEW ch
  PROVE  Fresh(ch) \in 0..MaxRows
<1> DEFINE found == {i \in 1..Len(rows) : rows[i].channel = ch}
<1>1. Len(rows) \in Nat /\ Len(rows) <= MaxRows
  BY DEF PollTypes
<1>2. IsFiniteSet(1..Len(rows)) /\ Cardinality(1..Len(rows)) = Len(rows)
  <2>1. 1 \in Int /\ Len(rows) \in Int
    BY <1>1
  <2>2. /\ IsFiniteSet(1..Len(rows))
        /\ Cardinality(1..Len(rows)) = IF 1 > Len(rows) THEN 0 ELSE Len(rows) - 1 + 1
    BY <2>1, FS_Interval
  <2> QED BY <2>2, <1>1
<1>3. found \in SUBSET (1..Len(rows))
  OBVIOUS
<1>4. Fresh(ch) = Cardinality(found)
  BY DEF Fresh, RowsUpTo
<1> HIDE DEF found
<1>5. IsFiniteSet(found) /\ Cardinality(found) <= Len(rows)
  BY <1>2, <1>3, FS_Subset
<1>6. Cardinality(found) \in Nat
  BY <1>5, FS_CardinalityType
<1> QED BY <1>1, <1>4, <1>5, <1>6, StreamAssumption

-----------------------------------------------------------------------------
(* The parts of a step *)

(* A message that may be empty, at the end of an inbox. *)
LEMMA MessageAppended ==
  ASSUME NEW queue \in Seq(MessageType), NEW op \in {"subscribe", "unsubscribe"},
         NEW chs \in SUBSET Channels
  PROVE  queue \o Message(op, chs) \in Seq(MessageType)
<1> DEFINE message == [op |-> op, channels |-> chs]
<1>1. message \in MessageType
  BY DEF MessageType
<1>2. Message(op, chs) = << >> \/ Message(op, chs) = <<message>>
  BY DEF Message
<1> HIDE DEF message
<1>3. <<message>> \in Seq(MessageType) /\ << >> \in Seq(MessageType)
  BY <1>1
<1> QED BY <1>2, <1>3, ConcatProperties

(* A new socket keeps the types of the links and those of the rest. *)
LEMMA OpenSocketTypes ==
  ASSUME LinkTypes, NEW t \in Tabs, OpenSocket(t)
  PROVE  LinkTypes' /\ Opened \subseteq Opened'
<1> DEFINE n == Len(owner)
<1>1. n \in Nat /\ n + 1 <= MaxSockets /\ n + 1 \in Sockets
  BY StreamAssumption DEF LinkTypes, OpenSocket, Sockets
<1>2. owner' \in Seq(Tabs) /\ Len(owner') = n + 1
  BY DEF LinkTypes, OpenSocket
<1>3. Opened' = 1..n + 1 /\ Opened = 1..n
  BY <1>2 DEF Opened
<1>4. current' \in [Tabs -> Opened' \cup {None}]
  BY <1>1, <1>3 DEF LinkTypes, OpenSocket, None
<1>5. /\ status' \in [Tabs -> {"idle", "connecting", "open", "closed"}]
      /\ socket' \in [Sockets -> {"none", "connecting", "open", "closed"}]
  BY <1>1 DEF LinkTypes, OpenSocket
<1> QED BY <1>1, <1>2, <1>3, <1>4, <1>5 DEF LinkTypes

(* A socket that was opened is one of the sockets, and a tab's. *)
LEMMA OpenedSockets ==
  ASSUME LinkTypes
  PROVE  /\ Opened \subseteq Sockets /\ None \notin Opened
         /\ \A s \in Opened : Tab(s) \in Tabs
         /\ \A t \in Tabs : current[t] # None => current[t] \in Opened
<1>1. Len(owner) \in Nat /\ Len(owner) <= MaxSockets
  BY DEF LinkTypes
<1>2. Opened \subseteq Sockets /\ None \notin Opened
  BY <1>1, StreamAssumption DEF Opened, Sockets, None
<1>3. \A s \in Opened : Tab(s) \in Tabs
  BY DEF LinkTypes, Opened, Tab
<1> QED BY <1>2, <1>3 DEF LinkTypes

(* What a tab is shown keeps its type. *)
LEMMA ShowTypes ==
  ASSUME shown \in [Tabs -> [Channels -> 0..MaxRows]],
         NEW s, Tab(s) \in Tabs, NEW X \in SUBSET Channels, NEW f \in [X -> 0..MaxRows],
         Show(s, f)
  PROVE  shown' \in [Tabs -> [Channels -> 0..MaxRows]]
<1> DEFINE after == [ch \in Channels |-> IF ch \in DOMAIN f THEN f[ch] ELSE shown[Tab(s)][ch]]
<1>1. after \in [Channels -> 0..MaxRows]
  OBVIOUS
<1>2. shown' = shown \/ shown' = [shown EXCEPT ![Tab(s)] = after]
  BY DEF Show
<1> HIDE DEF after
<1> QED BY <1>1, <1>2

(* A broadcast buffer never holds more than it has room for. *)
LEMMA BufferedIsBounded ==
  ASSUME NEW queue \in Seq(BroadcastType), Len(queue) <= HubSize, NEW msg \in BroadcastType
  PROVE  Buffered(queue, msg) \in Seq(BroadcastType) /\ Len(Buffered(queue, msg)) <= HubSize
<1>1. CASE Len(queue) < HubSize
  <2>1. Append(queue, msg) \in Seq(BroadcastType) /\ Len(Append(queue, msg)) = Len(queue) + 1
    OBVIOUS
  <2> QED BY <1>1, <2>1, StreamAssumption DEF Buffered
<1>2. CASE ~(Len(queue) < HubSize)
  <2>1. Len(queue) = HubSize /\ queue # << >>
    BY <1>2, StreamAssumption
  <2>2. Tail(queue) \in Seq(BroadcastType) /\ Len(Tail(queue)) = HubSize - 1
    BY <2>1, HeadTailProperties
  <2>3. /\ Append(Tail(queue), msg) \in Seq(BroadcastType)
        /\ Len(Append(Tail(queue), msg)) = HubSize
    BY <2>2, StreamAssumption
  <2> QED BY <1>2, <2>3 DEF Buffered
<1> QED BY <1>1, <1>2

-----------------------------------------------------------------------------
(* What each action leaves of the invariant *)

(* The registry looks at the tab alone. *)
LEMMA RegistryFrame ==
  ASSUME RegistryMatchesHooks, UNCHANGED <<wanted, refs, asked, pending>>
  PROVE  RegistryMatchesHooks'
BY DEF RegistryMatchesHooks

(* So does the poller's set: on a socket more, or more subscribed, the reader
   of a channel stays. *)
LEMMA ReaderFrame ==
  ASSUME ActiveHasReader, active' \subseteq active, Opened \subseteq Opened',
         \A s \in Opened : subscribed[s] \subseteq subscribed'[s]
  PROVE  ActiveHasReader'
BY DEF ActiveHasReader

(* connect() opens a socket or leaves the links alone. *)
LEMMA ConnectTypes ==
  ASSUME LinkTypes, NEW t \in Tabs, Connect(t)
  PROVE  LinkTypes' /\ Opened \subseteq Opened'
<1>1. CASE OpenSocket(t)
  BY <1>1, OpenSocketTypes
<1>2. CASE UNCHANGED linkVars
  BY <1>2 DEF linkVars, LinkTypes, Opened
<1> QED BY <1>1, <1>2 DEF Connect

(* Timestamps are numbers. *)
LEMMA StampsType ==
  ASSUME PollTypes
  PROVE  Stamps \subseteq Nat
<1>1. CASE rows = << >>
  BY <1>1 DEF Stamps
<1>2. CASE rows # << >>
  <2>1. Len(rows) \in 1..Len(rows)
    BY <1>2 DEF PollTypes
  <2>2. rows[Len(rows)] \in RowType
    BY <2>1, ElementOfSeq DEF PollTypes
  <2>3. rows[Len(rows)].ms \in Nat
    BY <2>2 DEF RowType
  <2> QED BY <1>2, <2>3 DEF Stamps
<1> QED BY <1>1, <1>2

(* The rows only grow: the page stays among them. *)
LEMMA IndexRowTypes ==
  ASSUME PollTypes, NEW ch \in Channels, NEW ms \in Nat, IndexRow(ch, ms)
  PROVE  PollTypes'
<1> DEFINE row == [channel |-> ch, ms |-> ms]
<1>1. row \in RowType /\ rows' = Append(rows, row)
  BY DEF RowType, IndexRow
<1> HIDE DEF row
<1>2. /\ rows' \in Seq(RowType) /\ Len(rows') = Len(rows) + 1 /\ Len(rows) \in Nat
      /\ \A i \in 1..Len(rows) : rows'[i] = rows[i]
  BY <1>1 DEF PollTypes
<1>3. Len(rows') <= MaxRows
  BY <1>2, StreamAssumption DEF IndexRow
<1>4. UNCHANGED <<cursor, page, polled>>
  BY DEF IndexRow, pollVars
<1> QED BY <1>2, <1>3, <1>4 DEF PollTypes

(* What is published fits the buffers. *)
LEMMA PublishTypes ==
  ASSUME HubTypes, NEW msg \in BroadcastType, Publish(msg)
  PROVE  HubTypes'
<1>1. \A s \in Sockets : hub[s] \in Seq(BroadcastType) /\ Len(hub[s]) <= HubSize
  BY DEF HubTypes
<1>2. \A s \in Sockets : /\ Buffered(hub[s], msg) \in Seq(BroadcastType)
                         /\ Len(Buffered(hub[s], msg)) <= HubSize
  BY <1>1, BufferedIsBounded
<1>3. hub' = [s \in Sockets |-> IF conn[s] = "up" THEN Buffered(hub[s], msg) ELSE hub[s]]
  BY DEF Publish
<1> QED BY <1>1, <1>2, <1>3 DEF HubTypes

(* A change of what a hook wants keeps the registry exact. *)
LEMMA SetChannelsRegistry ==
  ASSUME TabTypes, RegistryMatchesHooks,
         NEW h \in Hooks, NEW chs \in SUBSET Channels, SetChannels(h, chs)
  PROVE  TabTypes' /\ RegistryMatchesHooks'
<1> DEFINE t0 == TabOf[h]
<1> DEFINE W(t, ch) == Cardinality(Wanting(wanted, t, ch))
<1> DEFINE V(t, ch) == Cardinality(Wanting(wanted', t, ch))
<1>0. t0 \in Tabs /\ wanted' = [wanted EXCEPT ![h] = chs] /\ wanted \in [Hooks -> SUBSET Channels]
  BY StreamAssumption DEF SetChannels, TabTypes
<1>1. \A t \in Tabs, ch \in Channels : refs[t][ch] = W(t, ch)
  BY DEF RegistryMatchesHooks, Wanting
<1>2. \A t \in Tabs, ch \in Channels :
        /\ t # t0 => V(t, ch) = W(t, ch)
        /\ t = t0 => V(t, ch) = W(t, ch) + (IF ch \in chs \ wanted[h] THEN 1 ELSE 0)
                                        - (IF ch \in wanted[h] \ chs THEN 1 ELSE 0)
        /\ t = t0 /\ ch \in wanted[h] => W(t, ch) > 0
  <2> HIDE DEF W, V
  <2> SUFFICES ASSUME NEW t \in Tabs, NEW ch \in Channels
               PROVE  /\ t # t0 => V(t, ch) = W(t, ch)
                      /\ t = t0 => V(t, ch) = W(t, ch) + (IF ch \in chs \ wanted[h] THEN 1 ELSE 0)
                                                      - (IF ch \in wanted[h] \ chs THEN 1 ELSE 0)
                      /\ t = t0 /\ ch \in wanted[h] => W(t, ch) > 0
    OBVIOUS
  <2>0. wanted' = Changed(wanted, h, chs)
    BY <1>0 DEF Changed
  <2>1. Recounted(wanted, wanted', h, chs, t, ch)
    BY <1>0, <2>0, Recount
  <2> QED BY <2>1 DEF W, V, Recounted
<1>3. refs' = [refs EXCEPT ![t0] = CountedRefs(h, chs)]
  BY DEF SetChannels
<1>4. \A t \in Tabs, ch \in Channels : W(t, ch) \in Nat /\ V(t, ch) \in Nat
  BY WantingIsFinite, FS_CardinalityType
<1> HIDE DEF W, V
<1>5. \A ch \in Channels :
        CountedRefs(h, chs)[ch] = V(t0, ch)
  BY <1>0, <1>1, <1>2 DEF CountedRefs
<1>6. /\ refs' \in [Tabs -> [Channels -> Nat]]
      /\ \A t \in Tabs, ch \in Channels : refs'[t][ch] = V(t, ch)
  <2>1. CountedRefs(h, chs) \in [Channels -> Nat]
    BY <1>0, <1>4, <1>5 DEF CountedRefs
  <2>2. refs' \in [Tabs -> [Channels -> Nat]]
    BY <1>0, <1>3, <2>1 DEF TabTypes
  <2>3. ASSUME NEW t \in Tabs, NEW ch \in Channels PROVE refs'[t][ch] = V(t, ch)
    <3>1. CASE t = t0
      BY <3>1, <1>0, <1>3, <1>5 DEF TabTypes
    <3>2. CASE t # t0
      BY <3>2, <1>0, <1>1, <1>2, <1>3 DEF TabTypes
    <3> QED BY <3>1, <3>2
  <2> QED BY <2>2, <2>3
<1>7. /\ wanted' \in [Hooks -> SUBSET Channels]
      /\ asked' \in [Tabs -> SUBSET Channels]
      /\ pending' \in [Tabs -> SUBSET Channels]
  BY <1>0 DEF SetChannels, TabTypes, Entering
<1>8. TabTypes'
  BY <1>6, <1>7 DEF TabTypes, SetChannels
<1>9. ASSUME NEW t \in Tabs, NEW ch \in Channels
      PROVE  /\ ch \in asked'[t] <=> V(t, ch) > 0
             /\ ch \in pending'[t] => ch \in asked'[t]
  <2>0. /\ ch \in asked[t] <=> W(t, ch) > 0
        /\ ch \in pending[t] => ch \in asked[t]
    BY <1>1 DEF RegistryMatchesHooks
  <2>1. CASE t = t0
    <3>1. /\ asked'[t] = (asked[t] \cup Entering(h, chs)) \ Leaving(h, chs)
          /\ pending'[t] \subseteq (pending[t] \cup Entering(h, chs)) \ Leaving(h, chs)
      BY <2>1, <1>0 DEF SetChannels, TabTypes
    <3>2. /\ ch \in Entering(h, chs) <=> ch \in chs \ wanted[h] /\ W(t, ch) = 0
          /\ ch \in Leaving(h, chs) <=> ch \in wanted[h] \ chs /\ W(t, ch) = 1
      BY <2>1, <1>0, <1>1 DEF Entering, Leaving
    <3>3. W(t, ch) \in Nat
      BY <1>4
    <3>4. /\ V(t, ch) = W(t, ch) + (IF ch \in chs \ wanted[h] THEN 1 ELSE 0)
                                 - (IF ch \in wanted[h] \ chs THEN 1 ELSE 0)
          /\ ch \in wanted[h] => W(t, ch) > 0
      BY <2>1, <1>2
    <3>5. ch \in asked'[t] <=> V(t, ch) > 0
      BY <2>0, <3>1, <3>2, <3>3, <3>4
    <3> QED BY <2>0, <3>1, <3>5
  <2>2. CASE t # t0
    <3>1. asked'[t] = asked[t] /\ pending'[t] = pending[t] /\ V(t, ch) = W(t, ch)
      BY <2>2, <1>0, <1>2 DEF SetChannels, TabTypes
    <3> QED BY <3>1, <2>0
  <2> QED BY <2>1, <2>2
<1>10. \A t \in Tabs, ch \in Channels :
         V(t, ch) = Cardinality({k \in Hooks : TabOf[k] = t /\ ch \in wanted'[k]})
  BY DEF V, Wanting
<1>11. RegistryMatchesHooks'
  BY <1>6, <1>9, <1>10 DEF RegistryMatchesHooks
<1> QED BY <1>8, <1>11

(* The messages of a change wait for the server on the tab's socket. *)
LEMMA SetChannelsRest ==
  ASSUME Types, NEW h \in Hooks, NEW chs \in SUBSET Channels, SetChannels(h, chs)
  PROVE  LinkTypes' /\ ServerTypes' /\ HubTypes' /\ PollTypes' /\ Opened \subseteq Opened'
<1> DEFINE t == TabOf[h]
<1> DEFINE first == Message("subscribe", pending[t] \cup Entering(h, chs))
<1> DEFINE second == Message("unsubscribe", Leaving(h, chs))
<1> DEFINE sent == inbox[current[t]] \o first \o second
<1>0. t \in Tabs
  BY StreamAssumption
<1>1. LinkTypes' /\ Opened \subseteq Opened'
  <2>1. CASE Connect(t)
    BY <2>1, <1>0, ConnectTypes DEF Types
  <2>2. CASE UNCHANGED linkVars
    BY <2>2 DEF linkVars, LinkTypes, Opened, Types
  <2> QED BY <2>1, <2>2 DEF SetChannels
<1>2. inbox' \in [Sockets -> Seq(MessageType)]
  <2>1. CASE ~IsOpen(current[t])
    BY <2>1 DEF SetChannels, Types, ServerTypes
  <2>2. CASE IsOpen(current[t])
    <3>1. current[t] \in Sockets
      BY <2>2, <1>0, OpenedSockets DEF IsOpen, Types
    <3>2. pending[t] \cup Entering(h, chs) \subseteq Channels /\ Leaving(h, chs) \subseteq Channels
      BY <1>0 DEF Types, TabTypes, Entering, Leaving
    <3>3. inbox[current[t]] \in Seq(MessageType)
      BY <3>1 DEF Types, ServerTypes
    <3>4. inbox[current[t]] \o first \in Seq(MessageType)
      BY <3>2, <3>3, MessageAppended
    <3>5. sent \in Seq(MessageType)
      BY <3>2, <3>4, MessageAppended
    <3>6. inbox' = [inbox EXCEPT ![current[t]] = sent]
      BY <2>2 DEF SetChannels
    <3> HIDE DEF sent
    <3> QED BY <3>1, <3>5, <3>6 DEF Types, ServerTypes
  <2> QED BY <2>1, <2>2
<1>3. ServerTypes'
  BY <1>2 DEF SetChannels, serverVars, ServerTypes, Types
<1>4. HubTypes' /\ PollTypes'
  BY DEF SetChannels, pollVars, Types, HubTypes, PollTypes
<1> QED BY <1>1, <1>3, <1>4

(* A subscribe or an unsubscribe that is handled is a message. *)
LEMMA HandledMessage ==
  ASSUME ServerTypes, NEW s \in Sockets, inbox[s] # << >>
  PROVE  /\ Head(inbox[s]).channels \subseteq Channels
         /\ Tail(inbox[s]) \in Seq(MessageType)
<1>1. Head(inbox[s]) \in MessageType /\ Tail(inbox[s]) \in Seq(MessageType)
  BY HeadTailProperties DEF ServerTypes
<1> QED BY <1>1 DEF MessageType

-----------------------------------------------------------------------------
(* Types: each action keeps each group. *)

(* The app mounts, or a reconnect timer fires. *)
LEMMA TabActionsTypes ==
  ASSUME Types, NEW t \in Tabs, AppMounts(t) \/ ReconnectTimer(t)
  PROVE  Types' /\ Opened \subseteq Opened'
<1>1. OpenSocket(t)
  BY DEF AppMounts, ReconnectTimer
<1>2. LinkTypes' /\ Opened \subseteq Opened'
  BY <1>1, OpenSocketTypes DEF Types
<1>3. TabTypes'
  BY DEF AppMounts, ReconnectTimer, tabVars, Types, TabTypes
<1>4. ServerTypes' /\ HubTypes' /\ PollTypes'
  BY DEF AppMounts, ReconnectTimer, serverVars, pollVars, Types, ServerTypes, HubTypes, PollTypes
<1> QED BY <1>2, <1>3, <1>4 DEF Types

(* A socket opens; what was pending goes to the tab's own. *)
LEMMA SocketOpensTypes ==
  ASSUME Types, NEW s \in Opened, SocketOpens(s)
  PROVE  Types' /\ Opened' = Opened
<1> DEFINE t == Tab(s)
<1> DEFINE own == current[t]
<1> DEFINE sent == inbox[own] \o Message("subscribe", pending[t])
<1>0. t \in Tabs /\ s \in Sockets /\ (own # None => own \in Sockets)
  BY OpenedSockets DEF Types
<1>1. TabTypes'
  BY <1>0 DEF SocketOpens, Types, TabTypes
<1>2. LinkTypes' /\ Opened' = Opened
  BY <1>0 DEF SocketOpens, Types, LinkTypes, Opened
<1>3. inbox' \in [Sockets -> Seq(MessageType)]
  <2>1. CASE inbox' = inbox
    BY <2>1 DEF Types, ServerTypes
  <2>2. CASE own # None /\ inbox' = [inbox EXCEPT ![own] = sent]
    <3>1. inbox[own] \in Seq(MessageType) /\ pending[t] \subseteq Channels
      BY <2>2, <1>0 DEF Types, ServerTypes, TabTypes
    <3>2. sent \in Seq(MessageType)
      BY <3>1, MessageAppended
    <3> HIDE DEF sent
    <3> QED BY <2>2, <3>2, <1>0 DEF Types, ServerTypes
  <2> QED BY <2>1, <2>2 DEF SocketOpens
<1>4. ServerTypes'
  BY <1>0, <1>3 DEF SocketOpens, Types, ServerTypes
<1>5. HubTypes' /\ PollTypes'
  BY DEF SocketOpens, pollVars, Types, HubTypes, PollTypes
<1> QED BY <1>1, <1>2, <1>4, <1>5 DEF Types

(* A socket closes. *)
LEMMA SocketClosesTypes ==
  ASSUME Types, NEW s \in Opened, SocketCloses(s)
  PROVE  Types' /\ Opened' = Opened
<1>0. Tab(s) \in Tabs /\ s \in Sockets
  BY OpenedSockets DEF Types
<1>1. TabTypes'
  BY <1>0 DEF SocketCloses, Types, TabTypes
<1>2. LinkTypes' /\ Opened' = Opened
  BY <1>0 DEF SocketCloses, Types, LinkTypes, Opened
<1>3. ServerTypes'
  BY <1>0 DEF SocketCloses, Types, ServerTypes
<1>4. HubTypes' /\ PollTypes'
  BY DEF SocketCloses, pollVars, Types, HubTypes, PollTypes
<1> QED BY <1>1, <1>2, <1>3, <1>4 DEF Types

(* A tab without a stream polls. *)
LEMMA RefetchTypes ==
  ASSUME Types, NEW t \in Tabs, NEW ch \in Channels, Refetch(t, ch)
  PROVE  Types' /\ Opened' = Opened
<1>1. Fresh(ch) \in 0..MaxRows
  BY FreshIsBounded DEF Types
<1>2. TabTypes'
  BY <1>1 DEF Refetch, Types, TabTypes
<1>3. LinkTypes' /\ Opened' = Opened
  BY DEF Refetch, Types, LinkTypes, linkVars, Opened
<1>4. ServerTypes' /\ HubTypes' /\ PollTypes'
  BY DEF Refetch, serverVars, pollVars, Types, ServerTypes, HubTypes, PollTypes
<1> QED BY <1>2, <1>3, <1>4 DEF Types

(* The server accepts a subscribe. *)
LEMMA AcceptSubscribeTypes ==
  ASSUME Types, NEW s \in Opened, AcceptSubscribe(s)
  PROVE  Types' /\ Opened' = Opened
<1> DEFINE chs == Head(inbox[s]).channels
<1> DEFINE snapshots == [ch \in chs |-> Fresh(ch)]
<1>0. Tab(s) \in Tabs /\ s \in Sockets
  BY OpenedSockets DEF Types
<1>1. chs \in SUBSET Channels /\ Tail(inbox[s]) \in Seq(MessageType)
  BY <1>0, HandledMessage DEF Types, AcceptSubscribe
<1>2. snapshots \in [chs -> 0..MaxRows]
  BY FreshIsBounded DEF Types
<1>3. Show(s, snapshots)
  BY DEF AcceptSubscribe
<1>4. /\ subscribed' = [subscribed EXCEPT ![s] = @ \cup chs]
      /\ tracking' = [tracking EXCEPT ![s] = chs]
      /\ inbox' = [inbox EXCEPT ![s] = Tail(@)]
      /\ conn' = conn /\ active' = active
  BY DEF AcceptSubscribe
<1>5. shown \in [Tabs -> [Channels -> 0..MaxRows]]
  BY DEF Types, TabTypes
<1> HIDE DEF snapshots, chs
<1>6. shown' \in [Tabs -> [Channels -> 0..MaxRows]]
  BY <1>0, <1>1, <1>2, <1>3, <1>5, ShowTypes
<1>7. TabTypes'
  BY <1>6 DEF AcceptSubscribe, Types, TabTypes
<1>8. LinkTypes' /\ Opened' = Opened
  BY DEF AcceptSubscribe, Types, LinkTypes, linkVars, Opened
<1>9. ServerTypes'
  BY <1>0, <1>1, <1>4 DEF Types, ServerTypes
<1>10. HubTypes' /\ PollTypes'
  BY DEF AcceptSubscribe, pollVars, Types, HubTypes, PollTypes
<1> QED BY <1>7, <1>8, <1>9, <1>10 DEF Types

(* The server answers an unsubscribe, tracks, or forgets a connection. *)
LEMMA ServerActionsTypes ==
  ASSUME Types, NEW s \in Opened, TrackChannels(s) \/ HandleUnsubscribe(s) \/ Teardown(s)
  PROVE  Types' /\ Opened' = Opened
<1>0. s \in Sockets
  BY OpenedSockets DEF Types
<1>1. TabTypes'
  BY DEF TrackChannels, HandleUnsubscribe, Teardown, tabVars, Types, TabTypes
<1>2. LinkTypes' /\ Opened' = Opened
  BY DEF TrackChannels, HandleUnsubscribe, Teardown, linkVars, Types, LinkTypes, Opened
<1>3. PollTypes'
  BY DEF TrackChannels, HandleUnsubscribe, Teardown, pollVars, Types, PollTypes
<1>4. CASE TrackChannels(s)
  BY <1>0, <1>1, <1>2, <1>3, <1>4 DEF TrackChannels, Types, ServerTypes, HubTypes
<1>5. CASE HandleUnsubscribe(s)
  <2>1. Tail(inbox[s]) \in Seq(MessageType)
    BY <1>0, <1>5, HandledMessage DEF Types, HandleUnsubscribe
  <2>2. ServerTypes'
    BY <1>0, <1>5, <2>1 DEF HandleUnsubscribe, Types, ServerTypes
  <2>3. HubTypes'
    BY <1>5 DEF HandleUnsubscribe, Types, HubTypes
  <2> QED BY <1>1, <1>2, <1>3, <2>2, <2>3 DEF Types
<1>6. CASE Teardown(s)
  <2>1. << >> \in Seq(MessageType) /\ << >> \in Seq(BroadcastType) /\ Len(<< >>) = 0
    OBVIOUS
  <2>2. ServerTypes'
    BY <1>0, <1>6, <2>1 DEF Teardown, Types, ServerTypes
  <2>3. HubTypes'
    BY <1>0, <1>6, <2>1, StreamAssumption DEF Teardown, Types, HubTypes
  <2> QED BY <1>1, <1>2, <1>3, <2>2, <2>3 DEF Types
<1> QED BY <1>4, <1>5, <1>6

(* A broadcast reaches its connection. *)
LEMMA DeliverTypes ==
  ASSUME Types, NEW s \in Opened, Deliver(s)
  PROVE  Types' /\ Opened' = Opened
<1> DEFINE msg == Head(hub[s])
<1> DEFINE X == {msg.channel} \cap subscribed[s]
<1> DEFINE snapshots == [ch \in X |-> msg.version]
<1>0. Tab(s) \in Tabs /\ s \in Sockets
  BY OpenedSockets DEF Types
<1>1. /\ msg \in BroadcastType /\ Tail(hub[s]) \in Seq(BroadcastType)
      /\ Len(Tail(hub[s])) <= HubSize
  <2>1. hub[s] \in Seq(BroadcastType) /\ hub[s] # << >> /\ Len(hub[s]) <= HubSize
    BY <1>0 DEF Types, HubTypes, Deliver
  <2>2. msg \in BroadcastType /\ Tail(hub[s]) \in Seq(BroadcastType)
        /\ Len(Tail(hub[s])) = Len(hub[s]) - 1 /\ Len(hub[s]) \in Nat
    BY <2>1, HeadTailProperties
  <2> QED BY <2>1, <2>2, StreamAssumption
<1>2. X \in SUBSET Channels /\ snapshots \in [X -> 0..MaxRows]
  <2>1. subscribed[s] \subseteq Channels /\ msg.version \in 0..MaxRows
    BY <1>0, <1>1 DEF Types, ServerTypes, BroadcastType
  <2> HIDE DEF msg
  <2> QED BY <2>1
<1>3. Show(s, snapshots) /\ hub' = [hub EXCEPT ![s] = Tail(@)]
  BY DEF Deliver
<1>4. shown \in [Tabs -> [Channels -> 0..MaxRows]]
  BY DEF Types, TabTypes
<1> HIDE DEF snapshots, X
<1>5. shown' \in [Tabs -> [Channels -> 0..MaxRows]]
  BY <1>0, <1>2, <1>3, <1>4, ShowTypes
<1>6. TabTypes'
  BY <1>5 DEF Deliver, Types, TabTypes
<1>7. LinkTypes' /\ Opened' = Opened
  BY DEF Deliver, Types, LinkTypes, linkVars, Opened
<1>8. HubTypes'
  BY <1>0, <1>1, <1>3 DEF Types, HubTypes
<1>9. ServerTypes' /\ PollTypes'
  BY DEF Deliver, serverVars, pollVars, Types, ServerTypes, PollTypes
<1> QED BY <1>6, <1>7, <1>8, <1>9 DEF Types

(* The indexer commits a row, or the server sends a heartbeat. *)
LEMMA IndexRowKeepsTypes ==
  ASSUME Types, NEW ch \in Channels, NEW ms \in Stamps, IndexRow(ch, ms)
  PROVE  Types' /\ Opened' = Opened
<1>1. PollTypes'
  BY StampsType, IndexRowTypes DEF Types
<1>2. TabTypes' /\ LinkTypes' /\ Opened' = Opened
  BY DEF IndexRow, tabVars, linkVars, Types, TabTypes, LinkTypes, Opened
<1>3. ServerTypes' /\ HubTypes'
  BY DEF IndexRow, serverVars, Types, ServerTypes, HubTypes
<1> QED BY <1>1, <1>2, <1>3 DEF Types

LEMMA HeartbeatTypes ==
  ASSUME Types, Heartbeat
  PROVE  Types' /\ Opened' = Opened
<1> DEFINE msg == [channel |-> System, version |-> 0]
<1>1. msg \in BroadcastType /\ Publish(msg)
  BY StreamAssumption DEF BroadcastType, Heartbeat
<1> HIDE DEF msg
<1>2. HubTypes'
  BY <1>1, PublishTypes DEF Types
<1>3. TabTypes' /\ LinkTypes' /\ Opened' = Opened
  BY DEF Heartbeat, tabVars, linkVars, Types, TabTypes, LinkTypes, Opened
<1>4. ServerTypes' /\ PollTypes'
  BY DEF Heartbeat, serverVars, pollVars, Types, ServerTypes, PollTypes
<1> QED BY <1>2, <1>3, <1>4 DEF Types

(* A row of the page is the first by its timestamp: what follows is not behind
   the cursor it leaves. *)
LEMMA NextRow ==
  ASSUME PollTypes, NEW i, IsNext(i)
  PROVE  /\ rows[i] \in RowType /\ rows[i].ms \in Nat
         /\ \A j \in page : rows[j].ms >= rows[i].ms
<1>1. i \in 1..Len(rows)
  BY DEF PollTypes, IsNext
<1>2. \A j \in page : rows[j] \in RowType
  BY ElementOfSeq DEF PollTypes
<1>3. rows[i] \in RowType
  BY <1>2 DEF IsNext
<1> QED BY <1>2, <1>3 DEF RowType, IsNext

(* The poller reads a page, or gives one up. *)
LEMMA PageTypes ==
  ASSUME Types, ReadPage \/ \E i \in page : DispatchFails(i)
  PROVE  Types' /\ Opened' = Opened
<1>1. PollTypes'
  <2>1. CASE ReadPage
    <3>1. page' \subseteq UnreadRows /\ polled' = active /\ rows' = rows /\ cursor' = cursor
      BY <2>1 DEF ReadPage
    <3>2. UnreadRows \subseteq 1..Len(rows) /\ \A i \in UnreadRows : rows[i].ms > cursor
      BY DEF UnreadRows
    <3>3. \A i \in 1..Len(rows) : rows[i] \in RowType
      BY ElementOfSeq DEF Types, PollTypes
    <3>4. \A i \in UnreadRows : rows[i].ms \in Nat
      BY <3>2, <3>3 DEF RowType
    <3> QED BY <3>1, <3>2, <3>4 DEF Types, PollTypes, ServerTypes
  <2>2. ASSUME NEW i \in page, DispatchFails(i) PROVE PollTypes'
    <3>1. /\ rows' = rows /\ cursor' = rows[i].ms /\ page' = {} /\ polled' = {}
          /\ IsNext(i)
      BY <2>2 DEF DispatchFails
    <3> QED BY <3>1, NextRow DEF Types, PollTypes
  <2> QED BY <2>1, <2>2
<1>2. TabTypes' /\ LinkTypes' /\ Opened' = Opened
  BY DEF ReadPage, DispatchFails, tabVars, linkVars, Types, TabTypes, LinkTypes, Opened
<1>3. ServerTypes' /\ HubTypes'
  BY DEF ReadPage, DispatchFails, serverVars, Types, ServerTypes, HubTypes
<1> QED BY <1>1, <1>2, <1>3 DEF Types

(* The poller publishes a row. *)
LEMMA DispatchRowTypes ==
  ASSUME Types, NEW i, DispatchRow(i)
  PROVE  Types' /\ Opened' = Opened
<1> DEFINE ch == rows[i].channel
           msg == [channel |-> ch, version |-> Fresh(ch)]
<1>1. IsNext(i)
  BY DEF DispatchRow
<1>2. /\ rows[i] \in RowType /\ rows[i].ms \in Nat
      /\ \A j \in page : rows[j].ms >= rows[i].ms
  BY <1>1, NextRow DEF Types
<1>3. msg \in BroadcastType
  BY <1>2, FreshIsBounded DEF Types, BroadcastType, RowType
<1>4. Publish(msg) \/ hub' = hub
  BY DEF DispatchRow
<1> HIDE DEF msg
<1>5. HubTypes'
  BY <1>3, <1>4, PublishTypes DEF Types, HubTypes
<1>6. PollTypes'
  <2>1. /\ rows' = rows /\ cursor' = rows[i].ms /\ page' = page \ {i}
        /\ polled' = {} \/ polled' = polled
    BY DEF DispatchRow
  <2> QED BY <1>2, <2>1 DEF Types, PollTypes
<1>7. TabTypes' /\ LinkTypes' /\ Opened' = Opened
  BY DEF DispatchRow, tabVars, linkVars, Types, TabTypes, LinkTypes, Opened
<1>8. ServerTypes'
  BY DEF DispatchRow, serverVars, Types, ServerTypes
<1> QED BY <1>5, <1>6, <1>7, <1>8 DEF Types

-----------------------------------------------------------------------------
(* Who reads what the poller builds *)

(* What becomes active was subscribed by the connection that tracks it, and
   what a connection drops is not active any more, whoever subscribed it. *)
LEMMA ServeKeepsReaders ==
  ASSUME Types, ActiveHasReader, NEW s \in Opened, Serve(s), Opened' = Opened
  PROVE  ActiveHasReader'
<1>0. s \in Sockets /\ tracking[s] \subseteq subscribed[s] /\ Opened \subseteq Sockets
  BY OpenedSockets DEF Types, ServerTypes
<1>1. subscribed \in [Sockets -> SUBSET Channels]
  BY DEF Types, ServerTypes
<1>2. CASE AcceptSubscribe(s)
  <2>1. active' = active /\ subscribed' = [subscribed EXCEPT ![s] = @ \cup Head(inbox[s]).channels]
    BY <1>2 DEF AcceptSubscribe
  <2>2. \A r \in Opened : subscribed[r] \subseteq subscribed'[r]
    BY <1>0, <1>1, <2>1
  <2> QED BY <2>1, <2>2, ReaderFrame
<1>3. CASE TrackChannels(s)
  BY <1>0, <1>3 DEF TrackChannels, ActiveHasReader
<1>4. CASE HandleUnsubscribe(s)
  <2> DEFINE removed == Head(inbox[s]).channels \cap subscribed[s]
  <2>1. /\ active' = active \ removed
        /\ subscribed' = [subscribed EXCEPT ![s] = @ \ removed]
    BY <1>4 DEF HandleUnsubscribe
  <2> HIDE DEF removed
  <2> QED BY <1>0, <1>1, <2>1 DEF ActiveHasReader
<1>5. CASE Deliver(s)
  BY <1>5 DEF Deliver, serverVars, ActiveHasReader
<1>6. CASE Teardown(s)
  <2>1. /\ active' = active \ subscribed[s]
        /\ subscribed' = [subscribed EXCEPT ![s] = {}]
    BY <1>6 DEF Teardown
  <2> QED BY <1>0, <1>1, <2>1 DEF ActiveHasReader
<1> QED BY <1>2, <1>3, <1>4, <1>5, <1>6 DEF Serve

-----------------------------------------------------------------------------
(* The invariant holds in the initial states. *)
LEMMA StreamInit ==
  Init => StreamInv
<1> SUFFICES ASSUME Init PROVE StreamInv
  OBVIOUS
<1>1. /\ \A S : << >> \in Seq(S)
      /\ Len(<< >>) = 0
  OBVIOUS
<1>2. owner = << >> /\ rows = << >> /\ Opened = {}
  BY <1>1 DEF Init, Opened
<1>3. TabTypes
  BY StreamAssumption DEF Init, TabTypes
<1>4. LinkTypes
  BY <1>1, <1>2, StreamAssumption DEF Init, LinkTypes
<1>5. ServerTypes
  BY <1>1 DEF Init, ServerTypes
<1>6. HubTypes
  BY <1>1, StreamAssumption DEF Init, HubTypes
<1>7. PollTypes
  BY <1>1, <1>2, StreamAssumption DEF Init, PollTypes
<1>8. RegistryMatchesHooks
  <2>1. \A t \in Tabs, ch \in Channels :
          {h \in Hooks : TabOf[h] = t /\ ch \in wanted[h]} = {}
    BY DEF Init
  <2>2. \A t \in Tabs, ch \in Channels :
          /\ refs[t][ch] = 0 /\ asked[t] = {} /\ pending[t] = {}
    BY DEF Init
  <2> QED BY <2>1, <2>2, FS_EmptySet DEF RegistryMatchesHooks
<1>9. ActiveHasReader
  BY DEF Init, ActiveHasReader
<1> QED BY <1>3, <1>4, <1>5, <1>6, <1>7, <1>8, <1>9 DEF StreamInv, Types

(* Every step keeps the invariant. *)
LEMMA StreamNext ==
  StreamInv /\ [Next]_vars => StreamInv'
<1> SUFFICES ASSUME StreamInv, [Next]_vars PROVE StreamInv'
  OBVIOUS
<1>0. Types /\ RegistryMatchesHooks /\ ActiveHasReader
  BY DEF StreamInv
<1>1. ASSUME NEW h \in Hooks, NEW chs \in SUBSET Channels, SetChannels(h, chs) PROVE StreamInv'
  <2>1. TabTypes' /\ RegistryMatchesHooks'
    BY <1>0, <1>1, SetChannelsRegistry DEF Types
  <2>2. /\ LinkTypes' /\ ServerTypes' /\ HubTypes' /\ PollTypes'
        /\ Opened \subseteq Opened'
    BY <1>0, <1>1, SetChannelsRest
  <2>3. active' = active /\ subscribed' = subscribed
    BY <1>1 DEF SetChannels, serverVars
  <2>4. ActiveHasReader'
    BY <1>0, <2>2, <2>3, ReaderFrame
  <2> QED BY <2>1, <2>2, <2>4 DEF StreamInv, Types
<1>2. ASSUME NEW t \in Tabs, AppMounts(t) \/ ReconnectTimer(t) PROVE StreamInv'
  <2>1. Types' /\ Opened \subseteq Opened'
    BY <1>0, <1>2, TabActionsTypes
  <2>2. /\ UNCHANGED <<wanted, refs, asked, pending>>
        /\ active' = active /\ subscribed' = subscribed
    BY <1>2 DEF AppMounts, ReconnectTimer, tabVars, serverVars
  <2> QED BY <1>0, <2>1, <2>2, RegistryFrame, ReaderFrame DEF StreamInv
<1>3. ASSUME NEW s \in Opened, SocketOpens(s) PROVE StreamInv'
  <2>1. Types' /\ Opened' = Opened
    BY <1>0, <1>3, SocketOpensTypes
  <2>2. UNCHANGED <<wanted, refs, asked, active, subscribed>>
    BY <1>3 DEF SocketOpens
  <2>3. \A t \in Tabs : pending'[t] \subseteq pending[t]
    BY <1>0, <1>3 DEF SocketOpens, Types, TabTypes
  <2>4. RegistryMatchesHooks'
    BY <1>0, <2>2, <2>3 DEF RegistryMatchesHooks
  <2>5. ActiveHasReader'
    BY <1>0, <2>1, <2>2, ReaderFrame
  <2> QED BY <2>1, <2>4, <2>5 DEF StreamInv
<1>4. ASSUME NEW s \in Opened, SocketCloses(s) PROVE StreamInv'
  <2>1. Types' /\ Opened' = Opened
    BY <1>0, <1>4, SocketClosesTypes
  <2>2. UNCHANGED <<wanted, refs, asked, pending, active, subscribed>>
    BY <1>4 DEF SocketCloses
  <2> QED BY <1>0, <2>1, <2>2, RegistryFrame, ReaderFrame DEF StreamInv
<1>5. ASSUME NEW s \in Opened, Serve(s) PROVE StreamInv'
  <2>1. Types' /\ Opened' = Opened
    BY <1>0, <1>5, AcceptSubscribeTypes, ServerActionsTypes, DeliverTypes DEF Serve
  <2>2. UNCHANGED <<wanted, refs, asked, pending>>
    BY <1>5 DEF Serve, AcceptSubscribe, TrackChannels, HandleUnsubscribe, Deliver, Teardown, tabVars
  <2>3. ActiveHasReader'
    BY <1>0, <1>5, <2>1, ServeKeepsReaders
  <2> QED BY <1>0, <2>1, <2>2, <2>3, RegistryFrame DEF StreamInv
<1>6. ASSUME NEW t \in Tabs, NEW ch \in Channels, Refetch(t, ch) PROVE StreamInv'
  <2>1. Types' /\ Opened' = Opened
    BY <1>0, <1>6, RefetchTypes
  <2>2. UNCHANGED <<wanted, refs, asked, pending, active, subscribed>>
    BY <1>6 DEF Refetch, serverVars
  <2> QED BY <1>0, <2>1, <2>2, RegistryFrame, ReaderFrame DEF StreamInv
<1>7. ASSUME NEW ch \in Channels, NEW ms \in Stamps, IndexRow(ch, ms) PROVE StreamInv'
  <2>1. Types' /\ Opened' = Opened
    BY <1>0, <1>7, IndexRowKeepsTypes
  <2>2. UNCHANGED <<wanted, refs, asked, pending, active, subscribed>>
    BY <1>7 DEF IndexRow, tabVars, serverVars
  <2> QED BY <1>0, <2>1, <2>2, RegistryFrame, ReaderFrame DEF StreamInv
<1>8. ASSUME Poll \/ Heartbeat \/ \E i \in page : DispatchFails(i) PROVE StreamInv'
  <2>1. Types' /\ Opened' = Opened
    BY <1>0, <1>8, PageTypes, DispatchRowTypes, HeartbeatTypes DEF Poll
  <2>2. UNCHANGED <<wanted, refs, asked, pending, active, subscribed>>
    BY <1>8 DEF Poll, ReadPage, DispatchRow, DispatchFails, Heartbeat, tabVars, serverVars
  <2> QED BY <1>0, <2>1, <2>2, RegistryFrame, ReaderFrame DEF StreamInv
<1>9. CASE UNCHANGED vars
  <2>1. UNCHANGED <<tabVars, linkVars, inbox, serverVars, hub, rows, pollVars>>
    BY <1>9 DEF vars
  <2>2. Types' /\ Opened' = Opened
    BY <1>0, <2>1 DEF tabVars, linkVars, serverVars, pollVars, Types, TabTypes, LinkTypes,
                     ServerTypes, HubTypes, PollTypes, Opened
  <2>3. UNCHANGED <<wanted, refs, asked, pending, active, subscribed>>
    BY <2>1 DEF tabVars, serverVars
  <2> QED BY <1>0, <2>2, <2>3, RegistryFrame, ReaderFrame DEF StreamInv
<1>10. \A h \in Hooks : Wants[h] \subseteq SUBSET Channels
  BY StreamAssumption
<1> QED BY <1>1, <1>2, <1>3, <1>4, <1>5, <1>6, <1>7, <1>8, <1>9, <1>10 DEF Next

(* The invariant holds in every reachable state. *)
THEOREM StreamInvariant == Spec => []StreamInv
<1> QED BY StreamInit, StreamNext, PTL DEF Spec

(* Whatever opens, closes, is slow or fails, the stream's state keeps its
   types: a broadcast buffer is never over its size, the poller's cursor never
   past a row it has still to dispatch nor its page ahead of the index
   (stream.rs, ws.rs), and a count of hooks never below zero or above their
   number (AppStreamContext). *)
THEOREM StreamKeepsItsBounds == Spec => []TypeOK
<1>1. StreamInv => TypeOK
  <2> SUFFICES ASSUME StreamInv PROVE TypeOK
    OBVIOUS
  <2>1. \A t \in Tabs, ch \in Channels : refs[t][ch] \in 0..Cardinality(Hooks)
    <3>1. \A t \in Tabs, ch \in Channels : refs[t][ch] = Cardinality(Wanting(wanted, t, ch))
      BY DEF StreamInv, RegistryMatchesHooks, Wanting
    <3> QED BY <3>1, WantingIsFinite
  <2>2. refs \in [Tabs -> [Channels -> 0..Cardinality(Hooks)]]
    BY <2>1 DEF StreamInv, Types, TabTypes
  <2> QED BY <2>2 DEF StreamInv, Types, TabTypes, LinkTypes, ServerTypes, HubTypes, PollTypes, TypeOK
<1> QED BY <1>1, StreamInvariant, PTL

(* However hooks that share a channel mount, change and unmount, and however
   connections open, close, subscribe and unsubscribe in between, a tab asks for
   exactly what its hooks want (syncSubscriberChannels) and a channel the poller
   builds snapshots for is subscribed by a connection (StreamHub). *)
THEOREM NobodyIsAskedFor == Spec => []NothingAskedForNobody
<1>1. StreamInv => NothingAskedForNobody
  BY DEF StreamInv, NothingAskedForNobody
<1> QED BY <1>1, StreamInvariant, PTL

=============================================================================
