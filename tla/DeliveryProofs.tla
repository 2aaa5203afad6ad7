----------------------------- MODULE DeliveryProofs -----------------------------
(***************************************************************************)
(* Proofs about what a host asks of others.                                *)
(*                                                                         *)
(* Outbound delivery (Delivery), for any number of notifiers, emitters,    *)
(* events, slots, retries and crashes: what keeps an event from being      *)
(* lost, doubled in the air or overtaken is what every step leaves true of *)
(* the lanes, of the queues and of what senders still hold.                *)
(*                                                                         *)
(* The client of an identity provider (SsoClient), for any forms, keys,    *)
(* documents, requests and times: what is cached is at most as much older  *)
(* than it says as a request may take, at both ends (KeysOf, DocOf).       *)
(***************************************************************************)
EXTENDS Delivery, FiniteSetTheorems, SsoClient, TLAPS

Flights == [at : {"insert", "attempt", "backoff", "finish", "prune", "over"}, notifier : NotifierIds, item : Items,
            row : Nat, attempt : Nat, ok : BOOLEAN]
Parcels == NotifierIds \X Items
Errands == [at : {"idle", "enqueue", "drop", "dropped"}, todo : SUBSET Parcels, pushed : SUBSET Parcels, row : Nat]
LogRows == [notifier : NotifierIds, item : Items, status : {"pending", "ok", "failed"}, envelope : BOOLEAN, boot : Nat]

TableTypes ==
    /\ notifier \in [NotifierIds -> [gen : 0 .. MaxRegistrations, enabled : BOOLEAN]]
    /\ registered \in 0 .. MaxRegistrations /\ boot \in Nat
    /\ \A n \in NotifierIds : notifier[n].gen <= registered
    /\ deliveries = [d \in DOMAIN deliveries |-> deliveries[d]]
    /\ \A d \in DOMAIN deliveries : d \in Nat \ {0} /\ deliveries[d] \in LogRows /\ deliveries[d].boot <= boot
QueueTypes ==
    /\ toSend \in [NotifierIds -> Seq(Items)] /\ ahead \in [NotifierIds -> SUBSET NotifierIds]
LaneTypes ==
    /\ flight \in [Lanes -> {Landed} \cup Flights] /\ pumps \in Nat
    /\ \A n \in NotifierIds : flight[n] # Landed => flight[n].notifier = n
SenderTypes ==
    /\ sender \in [Senders -> Errands]
    /\ \A s \in Senders : sender[s].at = "idle" => sender[s] = Quiet
    /\ \A s \in Senders : sender[s].at \in {"idle", "enqueue", "dropped"} => sender[s].pushed = {}
    /\ \A s \in Senders : \A p, q \in sender[s].pushed : p = q
CountTypes ==
    /\ emitted \in [Emitters -> 0 .. MaxEvents] /\ requests \in Nat
    /\ late \in [NotifierIds -> 0 .. 2] /\ sharing \subseteq Lanes
    /\ promised \subseteq NotifierIds \X (1 .. MaxRegistrations) \X EmittedEvents /\ \A p \in promised : p[2] <= registered
DeliveryTypes == TableTypes /\ QueueTypes /\ LaneTypes /\ SenderTypes /\ CountTypes

(* No item is of a registration that is yet to come. *)
KnownItem(item) == item.gen <= registered
Known ==
    /\ \A n \in NotifierIds : \A item \in Queued(n) : KnownItem(item)
    /\ \A l \in Lanes : flight[l] # Landed => KnownItem(flight[l].item)
    /\ \A s \in Senders : \A p \in sender[s].todo \cup sender[s].pushed : KnownItem(p[2])

(* The slots: who flies is counted, and of the queues each has those before it. *)
Lined ==
    \A n \in NotifierIds :
      /\ n \notin ahead[n] /\ (toSend[n] = <<>> => ahead[n] = {})
      /\ \A m \in ahead[n] : toSend[m] # <<>>
Slots == OneAtATime /\ SlotsAreUsed /\ Lined

(* The order: what waits was emitted, and what a sender still holds is newer than what waits. *)
WasEmitted(item) == item.replay \/ (item.event[1] \in Emitters /\ item.event[2] <= emitted[item.event[1]])
Newer(s, p) ==
    p[2].replay \/
      /\ s \in Emitters /\ p[2].event = <<s, emitted[s]>>
      /\ \A item \in Queued(p[1]) \cup Airborne(p[1]) : ~item.replay /\ item.event[1] = s => item.event[2] < emitted[s]
InLine ==
    /\ OrderIsKept
    /\ \A n \in NotifierIds : \A item \in Queued(n) \cup Airborne(n) : WasEmitted(item)
    /\ \A s \in Senders : \A p \in sender[s].todo : Newer(s, p) /\ \A q \in sender[s].todo : p[1] = q[1] => p = q

(* The log: a delivery that has started is in it, unless its notifier is gone. *)
Started(n) ==
    flight[n].at \in {"attempt", "backoff", "finish", "prune", "over"} =>
      Key(n, flight[n].item) \in recorded \/ notifier[n].gen # flight[n].item.gen
Logged == NothingVanishes /\ \A n \in NotifierIds : Started(n)

(* The rows: nobody else is to end the row of a delivery whose notifier is still the same. *)
Holds(l) == HasRow(l) /\ notifier[NotifierOf(l)].gen = flight[l].item.gen
Alone(l) ==
    /\ \A k \in Lanes \ {l} : HasRow(k) => flight[k].row # flight[l].row
    /\ \A s \in Senders : Dropping(s) => sender[s].row # flight[l].row
RowsHeld == PendingIsUnderWay /\ \A l \in Lanes \ sharing : Holds(l) => Alone(l)

(* The retries: the attempt that was about to be made is the last one. *)
LastAttempt(n) ==
    IF Exists(n) THEN late[n] = 0 ELSE late[n] <= 1 /\ (late[n] = 1 => flight[n].at # "attempt")
Retrying == \A n \in NotifierIds : LastAttempt(n)

DeliveryIInv == DeliveryTypes /\ Known /\ Slots /\ InLine /\ Logged /\ RowsHeld /\ Retrying
--------------------------------------------------------------------------------
LEMMA Ids ==
  /\ MaxNotifiers \in Nat \ {0} /\ NotifierIds \subseteq Nat \ {0} /\ NotifierIds \subseteq Lanes /\ TestLane \in Lanes
  /\ TestLane \notin NotifierIds /\ Lanes \ {TestLane} = NotifierIds /\ AnOperator \in Senders /\ Emitters \subseteq Senders
  /\ MaxQueuedPerNotifier \in Nat \ {0} /\ MaxInFlight \in Nat \ {0} /\ AnOperator \notin Emitters
  /\ MaxEvents \in Nat /\ MaxRegistrations \in Nat /\ Registered \in Nat /\ Registered <= MaxRegistrations /\ MaxRequests \in Nat
  BY DeliveryAssumption DEF NotifierIds, Lanes, TestLane, Senders

LEMMA IdsFinite ==
  ASSUME NEW S \in SUBSET NotifierIds
  PROVE  IsFiniteSet(S) /\ Cardinality(S) \in Nat
  <1>1. IsFiniteSet(NotifierIds)
    BY FS_Interval, Ids DEF NotifierIds
  <1>. QED
    BY <1>1, FS_Subset, FS_CardinalityType

LEMMA TailIs ==
  ASSUME NEW q \in Seq(Items), q # <<>>
  PROVE  /\ Tail(q) \in Seq(Items) /\ Head(q) \in Items /\ Head(q) = q[1] /\ 1 \in DOMAIN q
         /\ Len(q) \in Nat \ {0} /\ Len(Tail(q)) = Len(q) - 1
         /\ DOMAIN q = 1 .. Len(q) /\ DOMAIN Tail(q) = 1 .. Len(q) - 1
         /\ \A i \in DOMAIN Tail(q) : Tail(q)[i] = q[i + 1] /\ i + 1 \in DOMAIN q
  OBVIOUS

LEMMA QueueIs ==
  ASSUME QueueTypes, NEW n \in NotifierIds
  PROVE  /\ toSend[n] \in Seq(Items) /\ Len(toSend[n]) \in Nat /\ DOMAIN toSend[n] = 1 .. Len(toSend[n])
         /\ Queued(n) \subseteq Items /\ (toSend[n] = <<>> <=> Len(toSend[n]) = 0)
  BY DEF QueueTypes, Queued

(* What is put in line comes last, and all that was there stays but, past the cap, the oldest. *)
LEMMA CappedIs ==
  ASSUME QueueTypes, NEW n \in NotifierIds, NEW item \in Items
  PROVE  \E shift \in {0, 1}, q \in Seq(Items) :
           /\ q = AppendCapped(n, item) /\ shift = (IF Full(n) THEN 1 ELSE 0)
           /\ Len(q) \in Nat \ {0} /\ Len(q) = Len(toSend[n]) + 1 - shift /\ q[Len(q)] = item /\ DOMAIN q = 1 .. Len(q)
           /\ \A i \in 1 .. Len(q) - 1 : i + shift \in DOMAIN toSend[n] /\ q[i] = toSend[n][i + shift]
  <1>1. toSend[n] \in Seq(Items)
    BY QueueIs
  <1>2. CASE Full(n)
    <2>1. toSend[n] # <<>>
      BY <1>1, <1>2, Ids DEF Full
    <2> DEFINE q == Append(Tail(toSend[n]), item)
    <2>2. q \in Seq(Items) /\ Len(q) = Len(toSend[n]) /\ q[Len(q)] = item /\ DOMAIN q = 1 .. Len(q)
      BY <1>1, <2>1, TailIs
    <2>3. \A i \in 1 .. Len(q) - 1 : i + 1 \in DOMAIN toSend[n] /\ q[i] = toSend[n][i + 1]
      BY <1>1, <2>1, TailIs
    <2>4. q = AppendCapped(n, item)
      BY <1>2 DEF AppendCapped
    <2>5. Len(q) \in Nat \ {0}
      BY <1>1, <2>1, <2>2, TailIs
    <2> HIDE DEF q
    <2>6. 1 \in {0, 1} /\ 1 = (IF Full(n) THEN 1 ELSE 0) /\ Len(q) = Len(toSend[n]) + 1 - 1
      BY <1>1, <1>2, <2>2
    <2>. QED
      BY <2>2, <2>3, <2>4, <2>5, <2>6
  <1>3. CASE ~Full(n)
    <2> DEFINE q == Append(toSend[n], item)
    <2>2. q \in Seq(Items) /\ Len(q) = Len(toSend[n]) + 1 /\ q[Len(q)] = item /\ DOMAIN q = 1 .. Len(q)
      BY <1>1
    <2>3. \A i \in 1 .. Len(q) - 1 : i + 0 \in DOMAIN toSend[n] /\ q[i] = toSend[n][i + 0]
      BY <1>1
    <2>4. q = AppendCapped(n, item)
      BY <1>3 DEF AppendCapped
    <2>5. Len(q) \in Nat \ {0}
      BY <1>1, <2>2
    <2> HIDE DEF q
    <2>6. 0 \in {0, 1} /\ 0 = (IF Full(n) THEN 1 ELSE 0) /\ Len(q) = Len(toSend[n]) + 1 - 0
      BY <1>1, <1>3, <2>2
    <2>. QED
      BY <2>2, <2>3, <2>4, <2>5, <2>6
  <1>. QED
    BY <1>2, <1>3

(* A row gets an id that no row has. *)
LEMMA NewRowIs ==
  ASSUME TableTypes, NEW d \in NextRowIds
  PROVE  d \in Nat \ {0} /\ d \notin DOMAIN deliveries
  BY DEF TableTypes, NextRowIds

LEMMA SenderIs ==
  ASSUME SenderTypes, NEW s \in Senders
  PROVE  /\ sender[s] \in Errands
         /\ sender[s] = [at |-> sender[s].at, todo |-> sender[s].todo, pushed |-> sender[s].pushed, row |-> sender[s].row]
         /\ sender[s].todo \in SUBSET Parcels /\ sender[s].pushed \in SUBSET Parcels /\ sender[s].row \in Nat
  BY DEF SenderTypes, Errands

LEMMA LaneIs ==
  ASSUME LaneTypes, NEW l \in Lanes
  PROVE  /\ flight[l] # Landed => flight[l] \in Flights
         /\ flight[l] # Landed <=> flight[l].at # "idle"
         /\ flight[l].at \in {"insert", "attempt", "backoff", "finish", "prune", "over"} => flight[l] \in Flights
  BY DEF LaneTypes, Landed, Flights

LEMMA DeliveryStarts == DeliveryInit => DeliveryIInv
  <1> SUFFICES ASSUME DeliveryInit PROVE DeliveryIInv
    OBVIOUS
  <1> USE Ids DEF DeliveryInit
  <1>1. TableTypes
    BY DeliveryAssumption DEF TableTypes, Gone, NotifierIds
  <1>2. QueueTypes /\ LaneTypes /\ CountTypes
    BY DEF QueueTypes, LaneTypes, CountTypes
  <1>3. SenderTypes
    BY DEF SenderTypes, Errands, Quiet
  <1>4. Known
    BY DEF Known, Queued, Quiet
  <1>5. Flying = {} /\ \A n \in NotifierIds : Airborne(n) = {} /\ Queued(n) = {}
    BY DEF Flying, Airborne, Queued
  <1>6. Slots
    BY <1>5, FS_EmptySet DEF Slots, OneAtATime, SlotsAreUsed, Lined
  <1>7. InLine
    BY <1>5 DEF InLine, OrderIsKept, Quiet
  <1>8. Logged
    BY DEF Logged, NothingVanishes, Started, Landed
  <1>9. RowsHeld
    BY DEF RowsHeld, PendingIsUnderWay, Holds, HasRow, Landed
  <1>10. Retrying
    BY DEF Retrying, LastAttempt
  <1>. QED
    BY <1>1, <1>2, <1>3, <1>4, <1>6, <1>7, <1>8, <1>9, <1>10 DEF DeliveryIInv, DeliveryTypes
--------------------------------------------------------------------------------
(* What is left alone, or moves on without leaving the air, keeps its part of the invariant. *)
SameAir ==
    \A l \in Lanes : (flight'[l] = Landed <=> flight[l] = Landed) /\ (flight[l] # Landed => flight'[l].item = flight[l].item)

LEMMA AirIsSame ==
  ASSUME SameAir
  PROVE  Flying' = Flying /\ \A n \in NotifierIds : Airborne(n)' = Airborne(n)
  BY Ids DEF SameAir, Flying, Airborne

LEMMA TableStays ==
  ASSUME TableTypes, UNCHANGED <<notifier, deliveries, registered, boot>>
  PROVE  TableTypes'
  BY DEF TableTypes

LEMMA QueuesStay ==
  ASSUME QueueTypes, UNCHANGED <<toSend, ahead>>
  PROVE  QueueTypes'
  BY DEF QueueTypes

LEMMA LanesStay ==
  ASSUME LaneTypes, UNCHANGED <<flight, pumps>>
  PROVE  LaneTypes'
  BY DEF LaneTypes, Landed

LEMMA SendersStay ==
  ASSUME SenderTypes, UNCHANGED sender
  PROVE  SenderTypes'
  BY DEF SenderTypes, Quiet

LEMMA CountsStay ==
  ASSUME CountTypes, UNCHANGED <<emitted, requests, late, sharing, promised, registered>>
  PROVE  CountTypes'
  BY DEF CountTypes

LEMMA KnownStays ==
  ASSUME Known, TableTypes, QueueTypes, LaneTypes, SenderTypes, SameAir, UNCHANGED toSend,
         registered' \in Nat, registered' >= registered,
         \A s \in Senders : sender'[s].todo \cup sender'[s].pushed \subseteq sender[s].todo \cup sender[s].pushed
  PROVE  Known'
  <1>1. \A item \in Items : KnownItem(item) => KnownItem(item)'
    BY DEF KnownItem, Items, TableTypes
  <1>2. \A n \in NotifierIds : \A item \in Queued(n)' : KnownItem(item)'
    BY <1>1, QueueIs DEF Known, Queued
  <1>3. \A l \in Lanes : flight'[l] # Landed => KnownItem(flight[l].item)'
    BY <1>1, LaneIs DEF Known, SameAir, Flights
  <1>4. \A s \in Senders : \A p \in sender'[s].todo \cup sender'[s].pushed : KnownItem(p[2])'
    <2> SUFFICES ASSUME NEW s \in Senders, NEW p \in sender'[s].todo \cup sender'[s].pushed PROVE KnownItem(p[2])'
      OBVIOUS
    <2>1. p \in sender[s].todo \cup sender[s].pushed
      OBVIOUS
    <2>2. p[2] \in Items /\ KnownItem(p[2])
      BY <2>1, SenderIs DEF Known, Parcels
    <2>. QED
      BY <1>1, <2>2
  <1>. QED
    BY <1>2, <1>3, <1>4 DEF Known, SameAir, KnownItem

LEMMA SlotsStay ==
  ASSUME Slots, LaneTypes, SameAir, UNCHANGED <<toSend, ahead, busy, sending>>, pumps' \in Nat, pumps' >= pumps,
         \A s \in Senders : sender[s] # Quiet => sender'[s] # Quiet
  PROVE  Slots'
  <1>1. OneAtATime'
    BY AirIsSame DEF Slots, OneAtATime, Full
  <1>2. SlotsAreUsed'
    BY DEF Slots, SlotsAreUsed, Quiet, LaneTypes
  <1>. QED
    BY <1>1, <1>2 DEF Slots, Lined

LEMMA InLineStays ==
  ASSUME InLine, SenderTypes, \A n \in NotifierIds : Airborne(n)' \subseteq Airborne(n), UNCHANGED <<toSend, emitted>>,
         \A s \in Senders : sender'[s].todo \subseteq sender[s].todo
  PROVE  InLine'
  <1>1. \A n \in NotifierIds : Airborne(n)' \subseteq Airborne(n) /\ Queued(n)' = Queued(n)
    BY DEF Queued
  <1>2. OrderIsKept'
    BY <1>1 DEF InLine, OrderIsKept, InOrder
  <1>3. \A n \in NotifierIds : \A item \in Queued(n)' \cup Airborne(n)' : WasEmitted(item)'
    BY <1>1 DEF InLine, WasEmitted
  <1>4. \A s \in Senders : \A p \in sender'[s].todo : Newer(s, p)' /\ \A q \in sender'[s].todo : p[1] = q[1] => p = q
    <2> SUFFICES ASSUME NEW s \in Senders, NEW p \in sender'[s].todo
                 PROVE  Newer(s, p)' /\ \A q \in sender'[s].todo : p[1] = q[1] => p = q
      OBVIOUS
    <2>1. p \in sender[s].todo /\ p[1] \in NotifierIds
      BY SenderIs DEF Parcels
    <2>2. Newer(s, p) /\ \A q \in sender'[s].todo : p[1] = q[1] => p = q
      BY <2>1 DEF InLine
    <2>3. Newer(s, p)'
      BY <1>1, <2>1, <2>2 DEF Newer
    <2>. QED
      BY <2>2, <2>3
  <1>. QED
    BY <1>2, <1>3, <1>4 DEF InLine

(* Where an event is that has yet to be logged. *)
Under(n) == Queued(n) \cup Airborne(n) \cup HeldFor(n)

LEMMA LoggedGoesOn ==
  ASSUME Logged, CountTypes, UNCHANGED notifier, promised' \subseteq promised, recorded \subseteq recorded',
         \A n \in NotifierIds : \A item \in Under(n) :
            notifier[n].gen = item.gen => item \in Under(n)' \/ Key(n, item) \in recorded',
         \A n \in NotifierIds : Started(n)'
  PROVE  Logged'
  <1>1. NothingVanishes'
    <2> SUFFICES ASSUME NEW p \in promised, notifier[p[1]].gen = p[2], p \notin recorded'
                 PROVE  \E item \in Under(p[1])' : Key(p[1], item) = p
      BY DEF NothingVanishes, Key, Under
    <2>1. p[1] \in NotifierIds
      BY DEF CountTypes
    <2>2. PICK item \in Under(p[1]) : Key(p[1], item) = p
      BY DEF Logged, NothingVanishes, Under
    <2>3. item.gen = p[2]
      BY <2>2 DEF Key
    <2>. QED
      BY <2>1, <2>2, <2>3
  <1>. QED
    BY <1>1 DEF Logged

LEMMA LoggedStays ==
  ASSUME Logged, SameAir, UNCHANGED <<toSend, promised, notifier>>, recorded \subseteq recorded',
         \A n \in NotifierIds : \A item \in HeldFor(n) :
            notifier[n].gen = item.gen => item \in HeldFor(n)' \/ Key(n, item) \in recorded',
         \A n \in NotifierIds : Started(n)', CountTypes
  PROVE  Logged'
  <1>1. \A n \in NotifierIds : Airborne(n)' = Airborne(n) /\ Queued(n)' = Queued(n)
    BY AirIsSame DEF Queued
  <1>2. \A n \in NotifierIds : \A item \in Under(n) :
            notifier[n].gen = item.gen => item \in Under(n)' \/ Key(n, item) \in recorded'
    BY <1>1 DEF Under
  <1>. QED
    BY <1>2, LoggedGoesOn

LEMMA StartedStays ==
  ASSUME Logged, recorded \subseteq recorded', UNCHANGED <<flight, notifier>>
  PROVE  \A n \in NotifierIds : Started(n)'
  BY DEF Logged, Started, Key

LEMMA RowsStay ==
  ASSUME RowsHeld, UNCHANGED <<deliveries, flight, sharing, notifier, boot>>,
         \A s \in Senders : (Dropping(s)' <=> Dropping(s)) /\ (Dropping(s) => sender'[s].row = sender[s].row)
  PROVE  RowsHeld'
  <1>1. \A l \in Lanes : HasRow(l)' = HasRow(l) /\ Holds(l)' = Holds(l) /\ NotifierOf(l)' = NotifierOf(l)
    BY DEF HasRow, Holds, NotifierOf
  <1>2. RowsUnderWay' = RowsUnderWay
    BY <1>1 DEF RowsUnderWay
  <1>3. PendingIsUnderWay'
    BY <1>1, <1>2 DEF RowsHeld, PendingIsUnderWay, RowsOf, HasRow, NotifierOf
  <1>4. \A l \in Lanes \ sharing' : Holds(l)' => Alone(l)'
    BY <1>1 DEF RowsHeld, Alone
  <1>. QED
    BY <1>3, <1>4 DEF RowsHeld

LEMMA RowsGoOn ==
  ASSUME RowsHeld, UNCHANGED <<deliveries, sharing, notifier, boot>>,
         \A s \in Senders : (Dropping(s)' <=> Dropping(s)) /\ (Dropping(s) => sender'[s].row = sender[s].row),
         \A l \in Lanes : HasRow(l)' = HasRow(l) /\ (HasRow(l) => flight'[l].row = flight[l].row
                            /\ flight'[l].item = flight[l].item /\ flight'[l].notifier = flight[l].notifier)
  PROVE  RowsHeld'
  <1>1. \A l \in Lanes : Holds(l)' => Holds(l) /\ flight'[l].row = flight[l].row /\ NotifierOf(l)' = NotifierOf(l)
    BY DEF Holds, NotifierOf
  <1>2. RowsUnderWay' = RowsUnderWay
    BY DEF RowsUnderWay
  <1>3. \A l \in Lanes \ sharing' : Holds(l)' =>
          flight'[l].row \in RowsOf(NotifierOf(l))' /\ deliveries'[flight'[l].row].status = "pending" /\ Alone(l)'
    <2> SUFFICES ASSUME NEW l \in Lanes \ sharing, Holds(l)'
                 PROVE  flight'[l].row \in RowsOf(NotifierOf(l))' /\ deliveries'[flight'[l].row].status = "pending" /\ Alone(l)'
      OBVIOUS
    <2>1. /\ Holds(l) /\ Alone(l) /\ flight'[l].row = flight[l].row /\ NotifierOf(l)' = NotifierOf(l)
          /\ flight[l].row \in RowsOf(NotifierOf(l)) /\ deliveries[flight[l].row].status = "pending"
      BY <1>1 DEF RowsHeld, PendingIsUnderWay, Holds
    <2>2. Alone(l)'
      BY <2>1 DEF Alone
    <2>. QED
      BY <2>1, <2>2 DEF RowsOf
  <1>4. PendingIsUnderWay'
    BY <1>2, <1>3 DEF PendingIsUnderWay, Holds, RowsHeld
  <1>. QED
    BY <1>3, <1>4 DEF RowsHeld

LEMMA RetriesStay ==
  ASSUME Retrying, UNCHANGED <<late, notifier, flight>>
  PROVE  Retrying'
  BY DEF Retrying, LastAttempt, Exists

LEMMA SaysOnly ==
  ASSUME SenderTypes, NEW s \in Senders, NEW what \in Errands, Say(s, what),
         what.at = "idle" => what = Quiet, what.at \in {"idle", "enqueue", "dropped"} => what.pushed = {},
         \A p, q \in what.pushed : p = q
  PROVE  SenderTypes' /\ sender'[s] = what /\ \A t \in Senders \ {s} : sender'[t] = sender[t]
  BY DEF SenderTypes, Say, Quiet

LEMMA SendingIs ==
  ASSUME NEW todo \in SUBSET Parcels
  PROVE  /\ Sending(todo) \in Errands /\ Sending(todo).at = "enqueue" /\ Sending(todo).todo = todo
         /\ Sending(todo).pushed = {} /\ Sending(todo).row = 0 /\ Sending(todo) # Quiet
  BY DEF Sending, Quiet, Errands

LEMMA Emits ==
  ASSUME DeliveryIInv, NEW s \in Emitters, Emit(s)
  PROVE  DeliveryIInv'
  <1> USE DEF DeliveryIInv, DeliveryTypes
  <1> DEFINE e == <<s, emitted[s] + 1>>
             to == {n \in NotifierIds : Exists(n) /\ notifier[n].enabled}
             parcels == {<<n, Item(notifier[n].gen, e, FALSE)>> : n \in to}
  <1>1. /\ UNCHANGED <<notifier, deliveries, toSend, ahead, busy, sending, flight, pumps, registered, requests, boot, recorded, late, sharing>>
        /\ sender[s] = Quiet /\ emitted[s] < MaxEvents /\ emitted' = [emitted EXCEPT ![s] = @ + 1]
        /\ Say(s, Sending(parcels)) /\ promised' = promised \cup {<<n, notifier[n].gen, e>> : n \in to}
        /\ s \in Senders
    BY Ids DEF Emit, dispatcherVars
  <1>2. e \in EmittedEvents /\ emitted[s] + 1 \in 0 .. MaxEvents /\ emitted' \in [Emitters -> 0 .. MaxEvents]
    BY <1>1, Ids DEF CountTypes, EmittedEvents
  <1>3. \A n \in to : /\ n \in NotifierIds /\ notifier[n].gen \in 1 .. MaxRegistrations /\ notifier[n].gen <= registered
                      /\ Item(notifier[n].gen, e, FALSE) \in Items
    BY <1>2, Ids DEF TableTypes, Exists, Item, Items
  <1>4. /\ \A p \in parcels : \E n \in to : p = <<n, Item(notifier[n].gen, e, FALSE)>>
        /\ \A n \in to : <<n, Item(notifier[n].gen, e, FALSE)>> \in parcels
        /\ parcels \in SUBSET Parcels
    <2>1. \A p \in parcels : \E n \in to : p = <<n, Item(notifier[n].gen, e, FALSE)>>
      OBVIOUS
    <2>2. \A n \in to : <<n, Item(notifier[n].gen, e, FALSE)>> \in Parcels
      BY <1>3 DEF Parcels
    <2>. QED
      BY <2>1, <2>2
  <1>0. e[1] = s /\ e[2] = emitted[s] + 1 /\ emitted[s] + 1 = emitted'[s] /\ emitted[s] \in Nat
    BY <1>1, Ids DEF CountTypes
  <1>14. \A n \in to : <<n, notifier[n].gen, e>> \in NotifierIds \X (1 .. MaxRegistrations) \X EmittedEvents
    BY <1>2, <1>3
  <1> HIDE DEF e, to, parcels
  <1>5. SenderTypes' /\ sender'[s] = Sending(parcels) /\ \A t \in Senders \ {s} : sender'[t] = sender[t]
    BY <1>1, <1>4, SaysOnly, SendingIs
  <1>6. TableTypes' /\ QueueTypes' /\ LaneTypes' /\ Retrying'
    BY <1>1, TableStays, QueuesStay, LanesStay, RetriesStay
  <1>7. CountTypes'
    <2>1. \A p \in promised' : p \in NotifierIds \X (1 .. MaxRegistrations) \X EmittedEvents /\ p[2] <= registered
      <3> SUFFICES ASSUME NEW p \in promised'
                   PROVE  p \in NotifierIds \X (1 .. MaxRegistrations) \X EmittedEvents /\ p[2] <= registered
        OBVIOUS
      <3>1. CASE p \in promised
        BY <3>1 DEF CountTypes
      <3>2. CASE p \notin promised
        <4>1. PICK n \in to : p = <<n, notifier[n].gen, e>>
          BY <1>1, <3>2
        <4>. QED
          BY <1>3, <1>14, <4>1
      <3>. QED
        BY <3>1, <3>2
    <2>. QED
      BY <1>1, <1>2, <2>1 DEF CountTypes
  <1>8. Known'
    <2>1. \A p \in parcels : KnownItem(p[2])
      BY <1>3, <1>4 DEF KnownItem, Item
    <2>2. \A t \in Senders : \A p \in sender'[t].todo \cup sender'[t].pushed : KnownItem(p[2])
      <3>1. sender'[s].todo = parcels /\ sender'[s].pushed = {}
        BY <1>4, <1>5, SendingIs
      <3>. QED
        BY <1>5, <2>1, <3>1 DEF Known
    <2>. QED
      BY <1>1, <2>2 DEF Known, KnownItem, Queued
  <1>9. SameAir
    BY <1>1 DEF SameAir, Landed
  <1>10. Slots'
    BY <1>1, <1>4, <1>5, <1>9, SlotsStay, SendingIs DEF LaneTypes
  <1>11. InLine'
    <2>1. \A n \in NotifierIds : Airborne(n)' = Airborne(n) /\ Queued(n)' = Queued(n)
      BY <1>1, <1>9, AirIsSame DEF Queued
    <2>2. OrderIsKept'
      BY <1>1, <2>1 DEF InLine, OrderIsKept, InOrder
    <2>3. \A item \in Items : WasEmitted(item) => WasEmitted(item)'
      <3>1. \A t \in Emitters : emitted[t] \in Nat /\ emitted'[t] \in Nat /\ emitted'[t] >= emitted[t]
        BY <1>1, Ids DEF CountTypes
      <3>2. \A item \in Items : item.event[2] \in Nat
        BY Ids DEF Items, EmittedEvents
      <3>. QED
        BY <3>1, <3>2 DEF WasEmitted
    <2>7. \A n \in NotifierIds : Airborne(n) \cup Queued(n) \subseteq Items
      BY QueueIs, LaneIs, Ids DEF Airborne, Flying, Flights
    <2>4. ASSUME NEW p \in parcels
          PROVE  Newer(s, p)' /\ \A q \in parcels : p[1] = q[1] => p = q
      <3>1. PICK n \in to : p = <<n, Item(notifier[n].gen, e, FALSE)>>
        BY <1>4
      <3>5. n \in NotifierIds /\ p[1] = n /\ p[2] = [gen |-> notifier[n].gen, event |-> e, replay |-> FALSE]
        BY <1>3, <3>1 DEF Item
      <3>2. p[1] = n /\ p[2].event = <<s, emitted'[s]>> /\ p[2].replay = FALSE
        BY <1>0, <3>5 DEF e
      <3>3. \A item \in Queued(n) \cup Airborne(n) : ~item.replay /\ item.event[1] = s => item.event[2] < emitted'[s]
        <4>1. SUFFICES ASSUME NEW item \in Queued(n) \cup Airborne(n), ~item.replay, item.event[1] = s PROVE item.event[2] < emitted'[s]
          OBVIOUS
        <4>2. item.event[2] <= emitted[s]
          BY <3>5, <4>1 DEF InLine, WasEmitted
        <4>3. item \in Items
          BY <2>7, <3>5
        <4>4. item.event[2] \in Nat
          BY <4>3, Ids DEF Items, EmittedEvents
        <4>5. emitted[s] \in Nat /\ emitted'[s] = emitted[s] + 1
          BY <1>0
        <4>. QED
          BY <4>2, <4>4, <4>5
      <3>4. Newer(s, p)'
        BY <1>1, <2>1, <3>5, <3>2, <3>3 DEF Newer
      <3>6. ASSUME NEW q \in parcels, p[1] = q[1] PROVE p = q
        <4>1. PICK m \in to : q = <<m, Item(notifier[m].gen, e, FALSE)>>
          BY <1>4
        <4>. QED
          BY <3>1, <3>6, <4>1
      <3>. QED
        BY <3>4, <3>6
    <2>5. ASSUME NEW t \in Senders \ {s}, NEW p \in sender'[t].todo
          PROVE  Newer(t, p)' /\ \A q \in sender'[t].todo : p[1] = q[1] => p = q
      <3>0. t \in Senders /\ sender'[t] = sender[t] /\ p \in sender[t].todo
        BY <1>5
      <3>1. p \in sender[t].todo /\ p[1] \in NotifierIds /\ sender'[t] = sender[t]
        BY <3>0, SenderIs DEF Parcels
      <3>2. Newer(t, p) /\ \A q \in sender[t].todo : p[1] = q[1] => p = q
        BY <3>1 DEF InLine
      <3>3. t \in Emitters => emitted'[t] = emitted[t]
        BY <1>1 DEF CountTypes
      <3>4. Newer(t, p)'
        BY <2>1, <3>1, <3>2, <3>3 DEF Newer
      <3>. QED
        BY <3>1, <3>2, <3>4
    <2>6. \A t \in Senders : \A p \in sender'[t].todo : Newer(t, p)' /\ \A q \in sender'[t].todo : p[1] = q[1] => p = q
      <3>1. sender'[s].todo = parcels
        BY <1>4, <1>5, SendingIs
      <3>. QED
        BY <2>4, <2>5, <3>1
    <2>8. \A n \in NotifierIds : \A item \in Queued(n)' \cup Airborne(n)' : WasEmitted(item)'
      BY <2>1, <2>3, <2>7 DEF InLine
    <2>. QED
      BY <2>2, <2>6, <2>8 DEF InLine
  <1>12. Logged'
    <2>1. \A n \in NotifierIds : Airborne(n)' = Airborne(n) /\ Queued(n)' = Queued(n) /\ HeldFor(n) \subseteq HeldFor(n)'
      BY <1>1, <1>5, <1>9, AirIsSame DEF Queued, HeldFor, Quiet
    <2>2. \A n \in to : Item(notifier[n].gen, e, FALSE) \in HeldFor(n)'
      BY <1>1, <1>3, <1>4, <1>5, SendingIs DEF HeldFor
    <2>3. NothingVanishes'
      <3> SUFFICES ASSUME NEW p \in promised', notifier[p[1]].gen = p[2], p \notin recorded
                   PROVE  \E item \in Queued(p[1])' \cup Airborne(p[1])' \cup HeldFor(p[1])' : Key(p[1], item) = p
        BY <1>1 DEF NothingVanishes, Key
      <3>1. CASE p \in promised
        <4>1. p[1] \in NotifierIds
          BY <3>1 DEF CountTypes
        <4>2. PICK item \in Queued(p[1]) \cup Airborne(p[1]) \cup HeldFor(p[1]) : Key(p[1], item) = p
          BY <3>1 DEF Logged, NothingVanishes
        <4>. QED
          BY <2>1, <4>1, <4>2
      <3>2. CASE p \notin promised
        <4>1. PICK n \in to : p = <<n, notifier[n].gen, e>>
          BY <1>1, <3>2
        <4>2. Key(n, Item(notifier[n].gen, e, FALSE)) = p /\ p[1] = n
          BY <4>1 DEF Key, Item
        <4>. QED
          BY <2>2, <4>2
      <3>. QED
        BY <3>1, <3>2
    <2>. QED
      BY <1>1, <2>3, StartedStays DEF Logged
  <1>13. RowsHeld'
    <2>1. ~Dropping(s) /\ sender'[s].at # "dropped"
      BY <1>1, <1>4, <1>5, SendingIs DEF Dropping, Quiet
    <2>2. \A t \in Senders : (Dropping(t)' <=> Dropping(t)) /\ (Dropping(t) => sender'[t].row = sender[t].row)
      BY <1>5, <2>1 DEF Dropping
    <2>. QED
      BY <1>1, <2>2, RowsStay
  <1>. QED
    BY <1>5, <1>6, <1>7, <1>8, <1>10, <1>11, <1>12, <1>13

LEMMA Redelivers ==
  ASSUME DeliveryIInv, NEW n \in NotifierIds, Redeliver(n)
  PROVE  DeliveryIInv'
  <1> USE DEF DeliveryIInv, DeliveryTypes
  <1>1. PICK d \in RowsOf(n) :
          Say(AnOperator, Sending({<<n, Item(notifier[n].gen, deliveries[d].item.event, TRUE)>>}))
    BY DEF Redeliver
  <1>2. /\ UNCHANGED <<notifier, deliveries, toSend, ahead, busy, sending, flight, pumps, emitted, registered, boot, promised, recorded, late, sharing>>
        /\ requests' \in Nat /\ sender[AnOperator] = Quiet /\ Exists(n)
    BY DEF Redeliver, dispatcherVars, historyVars, CountTypes
  <1>3. deliveries[d].item \in Items
    BY DEF RowsOf, TableTypes, LogRows
  <1>4. Item(notifier[n].gen, deliveries[d].item.event, TRUE) \in Items /\ notifier[n].gen <= registered
    BY <1>2, <1>3, Ids DEF TableTypes, Exists, Item, Items
  <1>5. PICK p : /\ p = <<n, Item(notifier[n].gen, deliveries[d].item.event, TRUE)>>
                /\ p \in Parcels /\ KnownItem(p[2]) /\ p[2].replay = TRUE
    <2>1. LET p == <<n, Item(notifier[n].gen, deliveries[d].item.event, TRUE)>>
          IN  p \in Parcels /\ KnownItem(p[2]) /\ p[2].replay = TRUE
      BY <1>4 DEF Parcels, KnownItem, Item
    <2>. QED
      BY <2>1
  <1>6. {p} \in SUBSET Parcels /\ Say(AnOperator, Sending({p}))
    BY <1>1, <1>5
  <1>7. SenderTypes' /\ sender'[AnOperator] = Sending({p}) /\ \A t \in Senders \ {AnOperator} : sender'[t] = sender[t]
    BY <1>6, SaysOnly, SendingIs, Ids
  <1>8. sender'[AnOperator].todo = {p} /\ sender'[AnOperator].pushed = {} /\ sender'[AnOperator] # Quiet /\ ~Dropping(AnOperator)'
    BY <1>6, <1>7, SendingIs DEF Dropping
  <1>9. TableTypes' /\ QueueTypes' /\ LaneTypes' /\ CountTypes' /\ Retrying'
    BY <1>2, TableStays, QueuesStay, LanesStay, RetriesStay DEF CountTypes
  <1>10. SameAir
    BY <1>2 DEF SameAir, Landed
  <1>11. Known'
    <2>1. \A t \in Senders : \A q \in sender'[t].todo \cup sender'[t].pushed : KnownItem(q[2])
      BY <1>5, <1>7, <1>8 DEF Known
    <2>. QED
      BY <1>2, <2>1 DEF Known, KnownItem, Queued
  <1>12. Slots'
    BY <1>2, <1>7, <1>8, <1>10, SlotsStay DEF LaneTypes
  <1>13. \A m \in NotifierIds : Airborne(m)' = Airborne(m) /\ Queued(m)' = Queued(m) /\ HeldFor(m) \subseteq HeldFor(m)'
    BY <1>2, <1>7, <1>10, AirIsSame DEF Queued, HeldFor, Quiet
  <1>14. InLine'
    <2>1. OrderIsKept'
      BY <1>2, <1>13 DEF InLine, OrderIsKept, InOrder
    <2>2. \A m \in NotifierIds : \A item \in Queued(m)' \cup Airborne(m)' : WasEmitted(item)'
      BY <1>2, <1>13 DEF InLine, WasEmitted
    <2>3. ASSUME NEW t \in Senders \ {AnOperator}, NEW q \in sender'[t].todo
          PROVE  Newer(t, q)' /\ \A r \in sender'[t].todo : q[1] = r[1] => q = r
      <3>1. t \in Senders /\ sender'[t] = sender[t] /\ q \in sender[t].todo
        BY <1>7
      <3>2. q[1] \in NotifierIds
        BY <3>1, SenderIs DEF Parcels
      <3>3. Newer(t, q) /\ \A r \in sender[t].todo : q[1] = r[1] => q = r
        BY <3>1 DEF InLine
      <3>4. Newer(t, q)'
        BY <1>2, <1>13, <3>2, <3>3 DEF Newer
      <3>. QED
        BY <3>1, <3>3, <3>4
    <2>4. Newer(AnOperator, p)'
      BY <1>5 DEF Newer
    <2>5. \A t \in Senders : \A q \in sender'[t].todo : Newer(t, q)' /\ \A r \in sender'[t].todo : q[1] = r[1] => q = r
      BY <1>8, <2>3, <2>4
    <2>. QED
      BY <2>1, <2>2, <2>5 DEF InLine
  <1>15. Logged'
    BY <1>2, <1>10, <1>13, LoggedStays, StartedStays
  <1>16. RowsHeld'
    <2>1. \A t \in Senders : (Dropping(t)' <=> Dropping(t)) /\ (Dropping(t) => sender'[t].row = sender[t].row)
      BY <1>2, <1>7, <1>8 DEF Dropping, Quiet
    <2>. QED
      BY <1>2, <2>1, RowsStay
  <1>. QED
    BY <1>7, <1>9, <1>11, <1>12, <1>14, <1>15, <1>16
--------------------------------------------------------------------------------
(* The rows: one is begun under an id that no row has, and ended by whoever holds it. *)
LEMMA RowsIn ==
  ASSUME TableTypes, NEW d \in NextRowIds, NEW n \in NotifierIds, NEW item \in Items, NEW envelope \in BOOLEAN,
         deliveries' = Inserted(d, n, item, envelope), UNCHANGED <<notifier, registered, boot>>
  PROVE  /\ TableTypes' /\ DOMAIN deliveries' = DOMAIN deliveries \cup {d}
         /\ deliveries'[d].notifier = n /\ deliveries'[d].status = "pending"
         /\ \A e \in DOMAIN deliveries : e # d /\ deliveries'[e] = deliveries[e]
  <1>1. d \in Nat \ {0} /\ d \notin DOMAIN deliveries
    BY NewRowIs
  <1>2. [notifier |-> n, item |-> item, status |-> "pending", envelope |-> envelope, boot |-> boot] \in LogRows
    BY DEF LogRows, TableTypes
  <1>3. DOMAIN deliveries' = DOMAIN deliveries \cup {d}
    BY DEF Inserted
  <1>4. deliveries'[d] = [notifier |-> n, item |-> item, status |-> "pending", envelope |-> envelope, boot |-> boot]
    BY DEF Inserted
  <1>5. \A e \in DOMAIN deliveries : e # d /\ deliveries'[e] = deliveries[e]
    BY <1>1 DEF Inserted
  <1>6. deliveries' = [e \in DOMAIN deliveries' |-> deliveries'[e]]
    BY <1>3 DEF Inserted
  <1>7. boot' \in Nat /\ deliveries'[d].boot <= boot' /\ deliveries'[d] \in LogRows
    BY <1>2, <1>4 DEF TableTypes
  <1>8. \A e \in DOMAIN deliveries' : e \in Nat \ {0} /\ deliveries'[e] \in LogRows /\ deliveries'[e].boot <= boot'
    BY <1>1, <1>3, <1>5, <1>7 DEF TableTypes
  <1>. QED
    BY <1>3, <1>4, <1>5, <1>6, <1>8 DEF TableTypes

LEMMA RowsEnd ==
  ASSUME TableTypes, NEW d, NEW result \in {"ok", "failed"},
         deliveries' = Finished(d, result), UNCHANGED <<notifier, registered, boot>>
  PROVE  /\ TableTypes' /\ DOMAIN deliveries' = DOMAIN deliveries
         /\ \A e \in DOMAIN deliveries : /\ deliveries'[e].notifier = deliveries[e].notifier /\ deliveries'[e].boot = deliveries[e].boot
                                         /\ IF e = d THEN deliveries'[e].status = result ELSE deliveries'[e] = deliveries[e]
  <1>1. DOMAIN deliveries' = DOMAIN deliveries /\ deliveries' = [e \in DOMAIN deliveries' |-> deliveries'[e]]
    BY DEF Finished, TableTypes
  <1>2. ASSUME NEW e \in DOMAIN deliveries
        PROVE  /\ deliveries'[e] \in LogRows /\ deliveries'[e].notifier = deliveries[e].notifier /\ deliveries'[e].boot = deliveries[e].boot
               /\ IF e = d THEN deliveries'[e].status = result ELSE deliveries'[e] = deliveries[e]
    <2>1. deliveries[e] \in LogRows
      BY DEF TableTypes
    <2>2. CASE e = d
      <3>1. deliveries'[e] = [deliveries[e] EXCEPT !.status = result]
        BY <2>2 DEF Finished, TableTypes
      <3>. QED
        BY <2>1, <2>2, <3>1 DEF LogRows
    <2>3. CASE e # d
      <3>1. deliveries'[e] = deliveries[e]
        BY <2>3 DEF Finished, TableTypes
      <3>. QED
        BY <2>1, <2>3, <3>1
    <2>. QED
      BY <2>2, <2>3
  <1>. QED
    BY <1>1, <1>2 DEF TableTypes

LEMMA RowsKept ==
  ASSUME TableTypes, NEW S \in SUBSET DOMAIN deliveries, deliveries' = RowsLeft(S), UNCHANGED <<registered, boot>>,
         notifier' \in [NotifierIds -> [gen : 0 .. MaxRegistrations, enabled : BOOLEAN]], \A n \in NotifierIds : notifier'[n].gen <= registered
  PROVE  TableTypes' /\ DOMAIN deliveries' = S /\ \A e \in S : deliveries'[e] = deliveries[e]
  BY DEF TableTypes, RowsLeft

(* Whoever goes on to hold a row held it before, and alone as before; one more row may have ended. *)
LEMMA RowEndStays ==
  ASSUME RowsHeld, TableTypes, NEW d, NEW result \in {"ok", "failed"}, deliveries' = Finished(d, result),
         UNCHANGED <<notifier, registered, boot, sharing>>,
         \A l \in Lanes : HasRow(l)' => HasRow(l) /\ flight'[l].row = flight[l].row /\ NotifierOf(l)' = NotifierOf(l)
                                        /\ flight'[l].item = flight[l].item /\ (Alone(l) => flight[l].row # d),
         \A s \in Senders : Dropping(s)' => Dropping(s) /\ sender'[s].row = sender[s].row,
         RowsUnderWay \ {d} \subseteq RowsUnderWay'
  PROVE  RowsHeld'
  <1>1. /\ DOMAIN deliveries' = DOMAIN deliveries
        /\ \A e \in DOMAIN deliveries : /\ deliveries'[e].notifier = deliveries[e].notifier /\ deliveries'[e].boot = deliveries[e].boot
                                        /\ IF e = d THEN deliveries'[e].status = result ELSE deliveries'[e] = deliveries[e]
    BY RowsEnd
  <1>2. ASSUME NEW l \in Lanes \ sharing, Holds(l)'
        PROVE  /\ flight'[l].row \in RowsOf(NotifierOf(l))' /\ deliveries'[flight'[l].row].status = "pending" /\ Alone(l)'
    <2>1. Holds(l) /\ HasRow(l)'
      BY <1>2 DEF Holds
    <2>2. Alone(l) /\ flight[l].row \in RowsOf(NotifierOf(l)) /\ deliveries[flight[l].row].status = "pending"
      BY <2>1 DEF RowsHeld, PendingIsUnderWay, Holds
    <2>3. flight'[l].row = flight[l].row /\ flight[l].row # d /\ NotifierOf(l)' = NotifierOf(l)
      BY <2>1, <2>2
    <2>4. Alone(l)'
      BY <2>2, <2>3 DEF Alone
    <2>. QED
      BY <1>1, <2>2, <2>3, <2>4 DEF RowsOf
  <1>3. ASSUME NEW e \in DOMAIN deliveries', deliveries'[e].status = "pending", deliveries'[e].boot = boot'
        PROVE  e \in RowsUnderWay'
    <2>1. e # d /\ e \in DOMAIN deliveries /\ deliveries[e].status = "pending" /\ deliveries[e].boot = boot
      BY <1>1, <1>3
    <2>. QED
      BY <2>1 DEF RowsHeld, PendingIsUnderWay
  <1>4. PendingIsUnderWay'
    BY <1>2, <1>3 DEF PendingIsUnderWay, Holds
  <1>. QED
    BY <1>2, <1>4 DEF RowsHeld
--------------------------------------------------------------------------------
(* A sender that drops, and a delivery that goes on. *)
LEMMA DropsEnd ==
  ASSUME DeliveryIInv, NEW s \in Senders, Dropped(s)
  PROVE  DeliveryIInv'
  <1> USE DEF DeliveryIInv, DeliveryTypes
  <1>1. /\ UNCHANGED <<notifier, toSend, ahead, busy, sending, flight, pumps, emitted, registered, requests, boot, promised, recorded, late, sharing>>
        /\ sender[s].at = "dropped" /\ deliveries' = Finished(sender[s].row, "failed") /\ Say(s, Sending(sender[s].todo))
    BY DEF Dropped, dispatcherVars, historyVars
  <1>2. SenderTypes' /\ sender'[s] = Sending(sender[s].todo) /\ \A t \in Senders \ {s} : sender'[t] = sender[t]
    <2>1. sender[s].todo \in SUBSET Parcels
      BY SenderIs
    <2>2. Sending(sender[s].todo) \in Errands /\ Sending(sender[s].todo).at = "enqueue" /\ Sending(sender[s].todo).pushed = {}
      BY <2>1, SendingIs
    <2>. QED
      BY <1>1, <2>2, SaysOnly
  <1>3. /\ sender'[s].todo = sender[s].todo /\ sender'[s].pushed = sender[s].pushed /\ sender'[s].pushed = {} /\ sender'[s] # Quiet
        /\ ~Dropping(s)' /\ Dropping(s)
    <2>1. sender[s].todo \in SUBSET Parcels /\ sender[s].pushed = {}
      BY <1>1, SenderIs DEF SenderTypes
    <2>2. sender'[s].todo = sender[s].todo /\ sender'[s].pushed = {} /\ sender'[s] # Quiet /\ sender'[s].at = "enqueue"
      BY <1>2, <2>1, SendingIs
    <2>. QED
      BY <1>1, <2>1, <2>2 DEF Dropping
  <1>4. TableTypes' /\ QueueTypes' /\ LaneTypes' /\ CountTypes' /\ Retrying'
    BY <1>1, RowsEnd, QueuesStay, LanesStay, RetriesStay, CountsStay
  <1>5. SameAir
    BY <1>1 DEF SameAir, Landed
  <1>6. \A t \in Senders : sender'[t].todo = sender[t].todo /\ sender'[t].pushed = sender[t].pushed /\ (sender[t] # Quiet => sender'[t] # Quiet)
    BY <1>2, <1>3
  <1>7. Known' /\ Slots' /\ InLine'
    BY <1>1, <1>5, <1>6, KnownStays, SlotsStay, InLineStays, AirIsSame DEF TableTypes, LaneTypes
  <1>8. Logged'
    <2>1. \A n \in NotifierIds : HeldFor(n)' = HeldFor(n)
      BY <1>6 DEF HeldFor
    <2>. QED
      BY <1>1, <1>5, <2>1, LoggedStays, StartedStays
  <1>9. RowsHeld'
    <2>1. \A l \in Lanes : HasRow(l)' => HasRow(l) /\ flight'[l].row = flight[l].row /\ NotifierOf(l)' = NotifierOf(l)
                                        /\ flight'[l].item = flight[l].item /\ (Alone(l) => flight[l].row # sender[s].row)
      BY <1>1, <1>3 DEF HasRow, NotifierOf, Alone
    <2>2. \A t \in Senders : Dropping(t)' => Dropping(t) /\ sender'[t].row = sender[t].row
      BY <1>2, <1>3 DEF Dropping
    <2>3. RowsUnderWay \ {sender[s].row} \subseteq RowsUnderWay'
      BY <1>1, <1>2 DEF RowsUnderWay, HasRow, Dropping
    <2>. QED
      BY <1>1, <2>1, <2>2, <2>3, RowEndStays
  <1>. QED
    BY <1>2, <1>4, <1>7, <1>8, <1>9

(* What a step of a delivery that stays in the air leaves alone. *)
LEMMA FliesOn ==
  ASSUME DeliveryIInv, NEW l \in Lanes, flight[l] # Landed, NEW what \in Flights, Fly(l, what),
         what.item = flight[l].item, what.notifier = flight[l].notifier,
         UNCHANGED <<notifier, toSend, ahead, busy, sending, pumps, sender, emitted, registered, requests, boot, promised>>,
         recorded \subseteq recorded',
         l \in NotifierIds /\ what.at # "insert" => Key(l, what.item) \in recorded' \/ notifier[l].gen # what.item.gen
  PROVE  /\ QueueTypes' /\ LaneTypes' /\ SenderTypes' /\ Known' /\ Slots' /\ InLine' /\ Logged'
         /\ flight'[l] = what /\ \A k \in Lanes \ {l} : flight'[k] = flight[k]
  <1> USE DEF DeliveryIInv, DeliveryTypes
  <1>1. flight'[l] = what /\ \A k \in Lanes \ {l} : flight'[k] = flight[k]
    BY DEF Fly, LaneTypes
  <1>2. what # Landed /\ what.at # "idle"
    BY DEF Flights, Landed
  <1>3. LaneTypes'
    BY <1>2, Ids DEF LaneTypes, Fly, Landed
  <1>4. SameAir
    BY <1>1, <1>2 DEF SameAir, Landed
  <1>5. QueueTypes' /\ SenderTypes' /\ Known' /\ Slots' /\ InLine'
    BY <1>4, QueuesStay, SendersStay, KnownStays, SlotsStay, InLineStays, AirIsSame DEF TableTypes, LaneTypes
  <1>6. \A n \in NotifierIds : Started(n)'
    <2> SUFFICES ASSUME NEW n \in NotifierIds PROVE Started(n)'
      OBVIOUS
    <2>1. CASE n = l
      BY <1>1, <2>1 DEF Started, Key
    <2>2. CASE n # l
      <3>1. flight'[n] = flight[n] /\ Started(n)
        BY <1>1, <2>2, Ids DEF Logged
      <3>. QED
        BY <3>1 DEF Started, Key
    <2>. QED
      BY <2>1, <2>2
  <1>7. \A n \in NotifierIds : HeldFor(n)' = HeldFor(n)
    BY DEF HeldFor
  <1>8. Logged'
    BY <1>4, <1>6, <1>7, LoggedStays
  <1>. QED
    BY <1>1, <1>3, <1>5, <1>8

LEMMA Attempts ==
  ASSUME DeliveryIInv, NEW l \in Lanes, Attempt(l)
  PROVE  DeliveryIInv'
  <1> USE DEF DeliveryIInv, DeliveryTypes
  <1>1. /\ UNCHANGED <<notifier, deliveries, toSend, ahead, busy, sending, pumps, sender, emitted, registered, requests, boot, promised, recorded, sharing>>
        /\ flight[l].at = "attempt"
        /\ late' = IF l # TestLane /\ ~Exists(l) /\ late[l] < 2 THEN [late EXCEPT ![l] = @ + 1] ELSE late
    BY DEF Attempt, dispatcherVars
  <1>2. PICK ok \in BOOLEAN, at \in {"finish", "backoff"} :
          Fly(l, [flight[l] EXCEPT !.at = at, !.attempt = @ + 1, !.ok = ok])
    BY DEF Attempt
  <1>3. flight[l] # Landed /\ flight[l] \in Flights
    BY <1>1, LaneIs
  <1>4. PICK what : what = [flight[l] EXCEPT !.at = at, !.attempt = @ + 1, !.ok = ok]
    OBVIOUS
  <1>5. /\ what \in Flights /\ what.item = flight[l].item /\ what.notifier = flight[l].notifier /\ what.row = flight[l].row /\ what.at = at
        /\ Fly(l, what)
    <2>1. flight[l].attempt + 1 \in Nat
      BY <1>3 DEF Flights
    <2>. QED
      BY <1>2, <1>3, <1>4, <2>1 DEF Flights
  <1>6. l \in NotifierIds => Key(l, what.item) \in recorded' \/ notifier[l].gen # what.item.gen
    BY <1>1, <1>5 DEF Logged, Started
  <1>7. /\ QueueTypes' /\ LaneTypes' /\ SenderTypes' /\ Known' /\ Slots' /\ InLine' /\ Logged'
        /\ flight'[l] = what /\ \A k \in Lanes \ {l} : flight'[k] = flight[k]
    BY <1>1, <1>3, <1>5, <1>6, FliesOn
  <1>8. TableTypes' /\ CountTypes'
    BY <1>1, TableStays, Ids DEF CountTypes
  <1>9. RowsHeld'
    <2>1. \A k \in Lanes : HasRow(k)' = HasRow(k) /\ (HasRow(k) => flight'[k].row = flight[k].row
                             /\ flight'[k].item = flight[k].item /\ flight'[k].notifier = flight[k].notifier)
      BY <1>1, <1>5, <1>7 DEF HasRow
    <2>2. \A s \in Senders : (Dropping(s)' <=> Dropping(s)) /\ (Dropping(s) => sender'[s].row = sender[s].row)
      BY <1>1 DEF Dropping
    <2>. QED
      BY <1>1, <2>1, <2>2, RowsGoOn
  <1>10. Retrying'
    <2> SUFFICES ASSUME NEW n \in NotifierIds PROVE LastAttempt(n)'
      BY DEF Retrying
    <2>1. LastAttempt(n)
      BY DEF Retrying
    <2>2. CASE n # l
      BY <1>1, <1>7, <2>1, <2>2, Ids DEF LastAttempt, Exists, CountTypes
    <2>3. CASE n = l
      BY <1>1, <1>5, <1>7, <2>1, <2>3, Ids DEF LastAttempt, Exists, CountTypes
    <2>. QED
      BY <2>2, <2>3
  <1>. QED
    BY <1>7, <1>8, <1>9, <1>10

LEMMA BacksOff ==
  ASSUME DeliveryIInv, NEW l \in Lanes, Backoff(l)
  PROVE  DeliveryIInv'
  <1> USE DEF DeliveryIInv, DeliveryTypes
  <1>1. /\ UNCHANGED <<notifier, deliveries, toSend, ahead, busy, sending, pumps, sender, emitted, registered, requests, boot, promised, recorded, late, sharing>>
        /\ flight[l].at = "backoff"
    BY DEF Backoff, dispatcherVars, historyVars
  <1>2. PICK at : at = (IF Exists(l) THEN "attempt" ELSE "finish") /\ GoesTo(l, at)
    BY DEF Backoff
  <1>3. flight[l] # Landed /\ flight[l] \in Flights
    BY <1>1, LaneIs
  <1>4. PICK what : what = [flight[l] EXCEPT !.at = at]
    OBVIOUS
  <1>5. /\ what \in Flights /\ what.item = flight[l].item /\ what.notifier = flight[l].notifier /\ what.row = flight[l].row /\ what.at = at
        /\ Fly(l, what) /\ at \in {"attempt", "finish"}
    BY <1>2, <1>3, <1>4 DEF Flights, GoesTo
  <1>6. l \in NotifierIds => Key(l, what.item) \in recorded' \/ notifier[l].gen # what.item.gen
    BY <1>1, <1>5 DEF Logged, Started
  <1>7. /\ QueueTypes' /\ LaneTypes' /\ SenderTypes' /\ Known' /\ Slots' /\ InLine' /\ Logged'
        /\ flight'[l] = what /\ \A k \in Lanes \ {l} : flight'[k] = flight[k]
    BY <1>1, <1>3, <1>5, <1>6, FliesOn
  <1>8. TableTypes' /\ CountTypes'
    BY <1>1, TableStays, CountsStay
  <1>9. RowsHeld'
    <2>1. \A k \in Lanes : HasRow(k)' = HasRow(k) /\ (HasRow(k) => flight'[k].row = flight[k].row
                             /\ flight'[k].item = flight[k].item /\ flight'[k].notifier = flight[k].notifier)
      BY <1>1, <1>5, <1>7 DEF HasRow
    <2>2. \A s \in Senders : (Dropping(s)' <=> Dropping(s)) /\ (Dropping(s) => sender'[s].row = sender[s].row)
      BY <1>1 DEF Dropping
    <2>. QED
      BY <1>1, <2>1, <2>2, RowsGoOn
  <1>10. Retrying'
    <2> SUFFICES ASSUME NEW n \in NotifierIds PROVE LastAttempt(n)'
      BY DEF Retrying
    <2>1. LastAttempt(n)
      BY DEF Retrying
    <2>2. CASE n # l
      BY <1>1, <1>7, <2>1, <2>2, Ids DEF LastAttempt, Exists, CountTypes
    <2>3. CASE n = l
      BY <1>1, <1>2, <1>5, <1>7, <2>1, <2>3, Ids DEF LastAttempt, Exists, CountTypes
    <2>. QED
      BY <2>2, <2>3
  <1>. QED
    BY <1>7, <1>8, <1>9, <1>10

LEMMA Finishes ==
  ASSUME DeliveryIInv, NEW l \in Lanes, FinishDelivery(l)
  PROVE  DeliveryIInv'
  <1> USE DEF DeliveryIInv, DeliveryTypes
  <1>1. /\ UNCHANGED <<notifier, toSend, ahead, busy, sending, pumps, sender, emitted, registered, requests, boot, promised, recorded, late, sharing>>
        /\ flight[l].at = "finish" /\ GoesTo(l, "prune")
    BY DEF FinishDelivery, dispatcherVars, historyVars
  <1>2. PICK result \in {"ok", "failed"} : deliveries' = Finished(flight[l].row, result)
    BY DEF FinishDelivery
  <1>3. flight[l] # Landed /\ flight[l] \in Flights /\ HasRow(l)
    BY <1>1, LaneIs DEF HasRow
  <1>4. PICK what : what = [flight[l] EXCEPT !.at = "prune"]
    OBVIOUS
  <1>5. /\ what \in Flights /\ what.item = flight[l].item /\ what.notifier = flight[l].notifier /\ what.at = "prune" /\ Fly(l, what)
    BY <1>1, <1>3, <1>4 DEF Flights, GoesTo
  <1>6. l \in NotifierIds => Key(l, what.item) \in recorded' \/ notifier[l].gen # what.item.gen
    BY <1>1, <1>5 DEF Logged, Started
  <1>7. /\ QueueTypes' /\ LaneTypes' /\ SenderTypes' /\ Known' /\ Slots' /\ InLine' /\ Logged'
        /\ flight'[l] = what /\ \A k \in Lanes \ {l} : flight'[k] = flight[k]
    BY <1>1, <1>3, <1>5, <1>6, FliesOn
  <1>8. TableTypes' /\ CountTypes'
    BY <1>1, <1>2, RowsEnd, CountsStay
  <1>9. RowsHeld'
    <2>1. ~HasRow(l)' /\ \A k \in Lanes \ {l} : HasRow(k)' = HasRow(k) /\ flight'[k] = flight[k]
      BY <1>5, <1>7 DEF HasRow
    <2>2. \A k \in Lanes : HasRow(k)' => HasRow(k) /\ flight'[k].row = flight[k].row /\ NotifierOf(k)' = NotifierOf(k)
                                        /\ flight'[k].item = flight[k].item /\ (Alone(k) => flight[k].row # flight[l].row)
      BY <1>3, <2>1 DEF NotifierOf, Alone
    <2>3. \A t \in Senders : Dropping(t)' => Dropping(t) /\ sender'[t].row = sender[t].row
      BY <1>1 DEF Dropping
    <2>4. RowsUnderWay \ {flight[l].row} \subseteq RowsUnderWay'
      BY <1>1, <2>1 DEF RowsUnderWay, Dropping
    <2>. QED
      BY <1>1, <1>2, <2>2, <2>3, <2>4, RowEndStays
  <1>10. Retrying'
    <2> SUFFICES ASSUME NEW n \in NotifierIds PROVE LastAttempt(n)'
      BY DEF Retrying
    <2>. QED
      BY <1>1, <1>5, <1>7, Ids DEF Retrying, LastAttempt, Exists
  <1>. QED
    BY <1>7, <1>8, <1>9, <1>10

LEMMA Prunes ==
  ASSUME DeliveryIInv, NEW l \in Lanes, Prune(l)
  PROVE  DeliveryIInv'
  <1> USE DEF DeliveryIInv, DeliveryTypes
  <1>1. /\ UNCHANGED <<notifier, toSend, ahead, busy, sending, pumps, sender, emitted, registered, requests, boot, promised, recorded, late, sharing>>
        /\ flight[l].at = "prune" /\ GoesTo(l, "over")
    BY DEF Prune, dispatcherVars, historyVars
  <1>2. PICK S \in SUBSET DOMAIN deliveries : deliveries' = RowsLeft(S) /\ \A e \in DOMAIN deliveries : deliveries[e].status = "pending" => e \in S
    BY DEF Prune, Prunable
  <1>3. flight[l] # Landed /\ flight[l] \in Flights /\ ~HasRow(l)
    BY <1>1, LaneIs DEF HasRow
  <1>4. PICK what : what = [flight[l] EXCEPT !.at = "over"]
    OBVIOUS
  <1>5. /\ what \in Flights /\ what.item = flight[l].item /\ what.notifier = flight[l].notifier /\ what.at = "over" /\ Fly(l, what)
    BY <1>1, <1>3, <1>4 DEF Flights, GoesTo
  <1>6. l \in NotifierIds => Key(l, what.item) \in recorded' \/ notifier[l].gen # what.item.gen
    BY <1>1, <1>5 DEF Logged, Started
  <1>7. /\ QueueTypes' /\ LaneTypes' /\ SenderTypes' /\ Known' /\ Slots' /\ InLine' /\ Logged'
        /\ flight'[l] = what /\ \A k \in Lanes \ {l} : flight'[k] = flight[k]
    BY <1>1, <1>3, <1>5, <1>6, FliesOn
  <1>8. TableTypes' /\ CountTypes' /\ DOMAIN deliveries' = S /\ \A e \in S : deliveries'[e] = deliveries[e]
    <2>1. notifier' \in [NotifierIds -> [gen : 0 .. MaxRegistrations, enabled : BOOLEAN]] /\ \A n \in NotifierIds : notifier'[n].gen <= registered
      BY <1>1 DEF TableTypes
    <2>. QED
      BY <1>1, <1>2, <2>1, RowsKept, CountsStay
  <1>9. RowsHeld'
    <2>1. ~HasRow(l)' /\ \A k \in Lanes \ {l} : HasRow(k)' = HasRow(k) /\ flight'[k] = flight[k]
      BY <1>5, <1>7 DEF HasRow
    <2>2. \A k \in Lanes : Holds(k)' => Holds(k) /\ flight'[k].row = flight[k].row /\ NotifierOf(k)' = NotifierOf(k)
      BY <1>1, <2>1 DEF Holds, NotifierOf
    <2>3. \A k \in Lanes : Alone(k) /\ HasRow(k)' => Alone(k)'
      BY <1>1, <1>3, <2>1 DEF Alone, Dropping
    <2>4. RowsUnderWay' = RowsUnderWay
      BY <1>1, <1>3, <2>1 DEF RowsUnderWay, Dropping
    <2>5. ASSUME NEW k \in Lanes \ sharing, Holds(k)'
          PROVE  flight'[k].row \in RowsOf(NotifierOf(k))' /\ deliveries'[flight'[k].row].status = "pending" /\ Alone(k)'
      <3>1. Holds(k) /\ HasRow(k)' /\ flight'[k].row = flight[k].row /\ NotifierOf(k)' = NotifierOf(k)
        BY <2>2, <2>5 DEF Holds
      <3>2. Alone(k) /\ flight[k].row \in RowsOf(NotifierOf(k)) /\ deliveries[flight[k].row].status = "pending"
        BY <3>1 DEF RowsHeld, PendingIsUnderWay, Holds
      <3>. QED
        BY <1>2, <1>8, <2>3, <3>1, <3>2 DEF RowsOf
    <2>6. PendingIsUnderWay'
      BY <1>1, <1>8, <2>4, <2>5 DEF PendingIsUnderWay, Holds, RowsHeld
    <2>. QED
      BY <1>1, <2>5, <2>6 DEF RowsHeld
  <1>10. Retrying'
    BY <1>1, <1>5, <1>7, Ids DEF Retrying, LastAttempt, Exists
  <1>. QED
    BY <1>7, <1>8, <1>9, <1>10

(* A row is begun: by a delivery, which shares its id or is alone with it, or by a sender. *)
LEMMA DeliveriesStart ==
  ASSUME DeliveryIInv, NEW l \in Lanes, StartDelivery(l)
  PROVE  DeliveryIInv'
  <1> USE DEF DeliveryIInv, DeliveryTypes
  <1>1. /\ UNCHANGED <<notifier, toSend, ahead, busy, sending, pumps, sender, emitted, registered, requests, boot, promised, late>>
        /\ flight[l].at = "insert"
    BY DEF StartDelivery, dispatcherVars
  <1>2. flight[l] # Landed /\ flight[l] \in Flights /\ ~HasRow(l) /\ NotifierOf(l) \in NotifierIds /\ flight[l].item \in Items
    BY <1>1, LaneIs DEF HasRow, NotifierOf, Flights
  <1>3. l \in NotifierIds => NotifierOf(l) = l
    BY <1>2 DEF LaneTypes, NotifierOf
  <1>4. ASSUME ~Exists(NotifierOf(l)) PROVE DeliveryIInv'
    <2>1. GoesTo(l, "over") /\ UNCHANGED <<deliveries, recorded, sharing>>
      BY <1>4 DEF StartDelivery
    <2>2. PICK what : what = [flight[l] EXCEPT !.at = "over"]
      OBVIOUS
    <2>3. /\ what \in Flights /\ what.item = flight[l].item /\ what.notifier = flight[l].notifier /\ what.at = "over" /\ Fly(l, what)
      BY <1>2, <2>1, <2>2 DEF Flights, GoesTo
    <2>4. l \in NotifierIds => notifier[l].gen # what.item.gen
      BY <1>2, <1>3, <1>4, <2>3 DEF Exists, Items
    <2>5. /\ QueueTypes' /\ LaneTypes' /\ SenderTypes' /\ Known' /\ Slots' /\ InLine' /\ Logged'
          /\ flight'[l] = what /\ \A k \in Lanes \ {l} : flight'[k] = flight[k]
      BY <1>1, <1>2, <2>1, <2>3, <2>4, FliesOn
    <2>6. TableTypes' /\ CountTypes'
      BY <1>1, <2>1, TableStays, CountsStay
    <2>7. RowsHeld'
      <3>1. \A k \in Lanes : HasRow(k)' = HasRow(k) /\ (HasRow(k) => flight'[k].row = flight[k].row
                             /\ flight'[k].item = flight[k].item /\ flight'[k].notifier = flight[k].notifier)
        BY <1>2, <2>3, <2>5 DEF HasRow
      <3>2. \A s \in Senders : (Dropping(s)' <=> Dropping(s)) /\ (Dropping(s) => sender'[s].row = sender[s].row)
        BY <1>1 DEF Dropping
      <3>. QED
        BY <1>1, <2>1, <3>1, <3>2, RowsGoOn
    <2>8. Retrying'
      BY <1>1, <2>3, <2>5, Ids DEF Retrying, LastAttempt, Exists
    <2>. QED
      BY <2>5, <2>6, <2>7, <2>8
  <1>5. ASSUME Exists(NotifierOf(l)) PROVE DeliveryIInv'
    <2>1. PICK d \in NextRowIds :
            /\ deliveries' = Inserted(d, NotifierOf(l), flight[l].item, l # TestLane)
            /\ recorded' = recorded \cup {Key(NotifierOf(l), flight[l].item)}
            /\ Fly(l, [flight[l] EXCEPT !.at = "attempt", !.row = d])
            /\ sharing' = IF d \in RowsUnderWay THEN sharing \cup {l} ELSE sharing \ {l}
      BY <1>5 DEF StartDelivery
    <2>2. PICK what : what = [flight[l] EXCEPT !.at = "attempt", !.row = d]
      OBVIOUS
    <2>3. /\ what \in Flights /\ what.item = flight[l].item /\ what.notifier = flight[l].notifier /\ what.at = "attempt" /\ what.row = d
          /\ Fly(l, what)
      BY <1>2, <2>1, <2>2, NewRowIs DEF Flights
    <2>4. l \in NotifierIds => Key(l, what.item) \in recorded'
      BY <1>3, <2>1, <2>3
    <2>5. /\ QueueTypes' /\ LaneTypes' /\ SenderTypes' /\ Known' /\ Slots' /\ InLine' /\ Logged'
          /\ flight'[l] = what /\ \A k \in Lanes \ {l} : flight'[k] = flight[k]
      BY <1>1, <1>2, <2>1, <2>3, <2>4, FliesOn
    <2>6. /\ TableTypes' /\ DOMAIN deliveries' = DOMAIN deliveries \cup {d}
          /\ deliveries'[d].notifier = NotifierOf(l) /\ deliveries'[d].status = "pending"
          /\ \A e \in DOMAIN deliveries : e # d /\ deliveries'[e] = deliveries[e]
      BY <1>1, <1>2, <2>1, RowsIn
    <2>7. CountTypes'
      BY <1>1, <2>1 DEF CountTypes
    <2>8. RowsHeld'
      <3>1. HasRow(l)' /\ NotifierOf(l)' = NotifierOf(l) /\ \A k \in Lanes \ {l} : HasRow(k)' = HasRow(k) /\ flight'[k] = flight[k]
        BY <2>3, <2>5 DEF HasRow, NotifierOf
      <3>2. RowsUnderWay' = RowsUnderWay \cup {d}
        BY <1>1, <1>2, <2>3, <2>5, <3>1 DEF RowsUnderWay, Dropping
      <3>3. ASSUME NEW k \in Lanes \ sharing', Holds(k)', k # l
            PROVE  flight'[k].row \in RowsOf(NotifierOf(k))' /\ deliveries'[flight'[k].row].status = "pending" /\ Alone(k)'
        <4>1. k \notin sharing /\ Holds(k) /\ flight'[k] = flight[k] /\ NotifierOf(k)' = NotifierOf(k)
          BY <1>1, <2>1, <3>1, <3>3 DEF Holds, NotifierOf
        <4>2. Alone(k) /\ flight[k].row \in RowsOf(NotifierOf(k)) /\ deliveries[flight[k].row].status = "pending"
          BY <4>1 DEF RowsHeld, PendingIsUnderWay, Holds
        <4>3. flight[k].row \in DOMAIN deliveries /\ flight[k].row # d
          BY <2>6, <4>2 DEF RowsOf
        <4>4. Alone(k)'
          BY <1>1, <2>3, <2>5, <3>1, <3>3, <4>1, <4>2, <4>3 DEF Alone, Dropping
        <4>. QED
          BY <2>6, <4>1, <4>2, <4>3, <4>4 DEF RowsOf
      <3>4. ASSUME l \notin sharing'
            PROVE  flight'[l].row \in RowsOf(NotifierOf(l))' /\ deliveries'[flight'[l].row].status = "pending" /\ Alone(l)'
        <4>1. d \notin RowsUnderWay
          BY <2>1, <3>4
        <4>2. Alone(l)'
          BY <1>1, <2>3, <2>5, <3>1, <4>1 DEF Alone, RowsUnderWay, Dropping
        <4>. QED
          BY <2>3, <2>5, <2>6, <3>1, <4>2 DEF RowsOf
      <3>5. PendingIsUnderWay'
        BY <1>1, <2>6, <3>2, <3>3, <3>4 DEF PendingIsUnderWay, Holds, RowsHeld
      <3>. QED
        BY <3>3, <3>4, <3>5 DEF RowsHeld
    <2>9. Retrying'
      <3> SUFFICES ASSUME NEW n \in NotifierIds PROVE LastAttempt(n)'
        BY DEF Retrying
      <3>1. CASE n # l
        BY <1>1, <2>5, <3>1, Ids DEF Retrying, LastAttempt, Exists
      <3>2. CASE n = l
        BY <1>1, <1>3, <1>5, <3>2 DEF Retrying, LastAttempt, Exists
      <3>. QED
        BY <3>1, <3>2
    <2>. QED
      BY <2>5, <2>6, <2>7, <2>8, <2>9
  <1>. QED
    BY <1>4, <1>5

LEMMA Drops ==
  ASSUME DeliveryIInv, NEW s \in Senders, Drop(s)
  PROVE  DeliveryIInv'
  <1> USE DEF DeliveryIInv, DeliveryTypes
  <1>1. /\ UNCHANGED <<notifier, toSend, ahead, busy, sending, flight, pumps, emitted, registered, requests, boot, promised, late, sharing>>
        /\ sender[s].at = "drop"
    BY DEF Drop, dispatcherVars
  <1>2. PICK p \in sender[s].pushed, d \in NextRowIds :
         IF Exists(p[1])
         THEN /\ deliveries' = Inserted(d, p[1], p[2], FALSE)
              /\ recorded' = recorded \cup {Key(p[1], p[2])}
              /\ Say(s, [at |-> "dropped", todo |-> sender[s].todo, pushed |-> {}, row |-> d])
         ELSE Say(s, Sending(sender[s].todo)) /\ UNCHANGED <<deliveries, recorded>>
    BY DEF Drop
  <1>3. p \in Parcels /\ p[1] \in NotifierIds /\ p[2] \in Items /\ sender[s].todo \in SUBSET Parcels /\ ~Dropping(s)
    BY <1>1, SenderIs DEF Parcels, Dropping
  <1>4. PICK what \in Errands :
          /\ Say(s, what) /\ what.todo = sender[s].todo /\ what.pushed = {} /\ what # Quiet /\ what.at \in {"enqueue", "dropped"}
          /\ what.at = "dropped" <=> Exists(p[1])
          /\ what.at = "dropped" => what.row = d
    <2>1. CASE Exists(p[1])
      <3>1. PICK what : what = [at |-> "dropped", todo |-> sender[s].todo, pushed |-> {}, row |-> d]
        OBVIOUS
      <3>2. what \in Errands /\ what # Quiet
        BY <1>3, <3>1, NewRowIs DEF Errands, Quiet
      <3>. QED
        BY <1>2, <2>1, <3>1, <3>2
    <2>2. CASE ~Exists(p[1])
      <3>1. PICK what : what = Sending(sender[s].todo)
        OBVIOUS
      <3>2. what \in Errands /\ what.at = "enqueue" /\ what.todo = sender[s].todo /\ what.pushed = {} /\ what # Quiet
        BY <1>3, <3>1, SendingIs
      <3>. QED
        BY <1>2, <2>2, <3>1, <3>2
    <2>. QED
      BY <2>1, <2>2
  <1>5. SenderTypes' /\ sender'[s] = what /\ \A t \in Senders \ {s} : sender'[t] = sender[t]
    BY <1>4, SaysOnly
  <1>6. QueueTypes' /\ LaneTypes' /\ CountTypes' /\ Retrying' /\ SameAir
    BY <1>1, QueuesStay, LanesStay, RetriesStay, CountsStay DEF SameAir, Landed
  <1>7. \A t \in Senders : /\ sender'[t].todo = sender[t].todo /\ sender'[t].pushed \subseteq sender[t].pushed
                           /\ sender[t] # Quiet => sender'[t] # Quiet
    BY <1>4, <1>5
  <1>8. Known' /\ Slots' /\ InLine'
    BY <1>1, <1>6, <1>7, KnownStays, SlotsStay, InLineStays, AirIsSame DEF TableTypes, LaneTypes
  <1>9. recorded \subseteq recorded' /\ (Exists(p[1]) => Key(p[1], p[2]) \in recorded')
    BY <1>2
  <1>10. Logged'
    <2>1. ASSUME NEW n \in NotifierIds, NEW item \in HeldFor(n), notifier[n].gen = item.gen
          PROVE  item \in HeldFor(n)' \/ Key(n, item) \in recorded'
      <3>1. PICK t \in Senders : <<n, item>> \in sender[t].todo \cup sender[t].pushed
        BY DEF HeldFor
      <3>2. CASE <<n, item>> \in sender'[t].todo \cup sender'[t].pushed
        BY <3>2 DEF HeldFor
      <3>3. CASE <<n, item>> \notin sender'[t].todo \cup sender'[t].pushed
        <4>1. t = s /\ <<n, item>> \in sender[s].pushed
          BY <1>5, <1>7, <3>1, <3>3
        <4>2. p = <<n, item>>
          BY <4>1 DEF SenderTypes
        <4>3. p[1] = n /\ p[2] = item
          BY <4>2
        <4>4. item \in Items
          BY <1>3, <4>3
        <4>5. Exists(n)
          BY <2>1, <4>4, Ids DEF Exists, Items
        <4>. QED
          BY <1>9, <4>3, <4>5
      <3>. QED
        BY <3>2, <3>3
    <2>. QED
      BY <1>1, <1>6, <1>9, <2>1, LoggedStays, StartedStays
  <1>11. ASSUME Exists(p[1]) PROVE TableTypes' /\ RowsHeld'
    <2>1. /\ TableTypes' /\ DOMAIN deliveries' = DOMAIN deliveries \cup {d}
          /\ deliveries'[d].notifier = p[1] /\ deliveries'[d].status = "pending"
          /\ \A e \in DOMAIN deliveries : e # d /\ deliveries'[e] = deliveries[e]
      BY <1>1, <1>2, <1>3, <1>11, RowsIn
    <2>2. Dropping(s)' /\ sender'[s].row = d /\ \A t \in Senders \ {s} : Dropping(t)' = Dropping(t) /\ sender'[t] = sender[t]
      BY <1>4, <1>5, <1>11 DEF Dropping
    <2>3. \A k \in Lanes : HasRow(k)' = HasRow(k) /\ Holds(k)' = Holds(k) /\ NotifierOf(k)' = NotifierOf(k)
      BY <1>1 DEF HasRow, Holds, NotifierOf
    <2>4. RowsUnderWay' = RowsUnderWay \cup {d}
      BY <1>1, <1>3, <2>2, <2>3 DEF RowsUnderWay
    <2>5. ASSUME NEW k \in Lanes \ sharing, Holds(k)'
          PROVE  flight'[k].row \in RowsOf(NotifierOf(k))' /\ deliveries'[flight'[k].row].status = "pending" /\ Alone(k)'
      <3>1. Alone(k) /\ flight[k].row \in RowsOf(NotifierOf(k)) /\ deliveries[flight[k].row].status = "pending" /\ flight'[k] = flight[k]
        BY <1>1, <2>3, <2>5 DEF RowsHeld, PendingIsUnderWay, Holds
      <3>2. flight[k].row \in DOMAIN deliveries /\ flight[k].row # d
        BY <2>1, <3>1 DEF RowsOf
      <3>3. Alone(k)'
        BY <1>1, <2>2, <2>3, <3>1, <3>2 DEF Alone
      <3>. QED
        BY <2>1, <2>3, <3>1, <3>2, <3>3 DEF RowsOf
    <2>6. PendingIsUnderWay'
      BY <1>1, <2>1, <2>4, <2>5 DEF PendingIsUnderWay, Holds, RowsHeld
    <2>. QED
      BY <1>1, <2>1, <2>5, <2>6 DEF RowsHeld
  <1>12. ASSUME ~Exists(p[1]) PROVE TableTypes' /\ RowsHeld'
    <2>1. UNCHANGED deliveries
      BY <1>2, <1>12
    <2>2. \A t \in Senders : (Dropping(t)' <=> Dropping(t)) /\ (Dropping(t) => sender'[t].row = sender[t].row)
      BY <1>3, <1>4, <1>5, <1>12 DEF Dropping
    <2>. QED
      BY <1>1, <2>1, <2>2, TableStays, RowsStay
  <1>. QED
    BY <1>5, <1>6, <1>8, <1>10, <1>11, <1>12
--------------------------------------------------------------------------------
(* The slot of a delivery that is over is given back. *)
LEMMA Ends ==
  ASSUME DeliveryIInv, NEW l \in Lanes, Over(l)
  PROVE  DeliveryIInv'
  <1> USE DEF DeliveryIInv, DeliveryTypes
  <1>1. /\ UNCHANGED <<notifier, deliveries, toSend, ahead, sender, emitted, registered, requests, boot, promised, recorded, late, sharing>>
        /\ flight[l].at = "over" /\ Fly(l, Landed)
        /\ IF l = TestLane THEN UNCHANGED <<busy, sending, pumps>>
           ELSE busy' = busy \ {l} /\ sending' = sending - 1 /\ pumps' = pumps + 1
    BY DEF Over, historyVars
  <1>2. flight[l] # Landed /\ flight[l] \in Flights /\ ~HasRow(l)
    BY <1>1, LaneIs DEF HasRow
  <1>3. flight'[l] = Landed /\ \A k \in Lanes \ {l} : flight'[k] = flight[k]
    BY <1>1 DEF Fly, LaneTypes
  <1>4. pumps' \in Nat
    BY <1>1, Ids DEF LaneTypes
  <1>5. LaneTypes'
    BY <1>1, <1>3, <1>4 DEF LaneTypes, Fly, Landed
  <1>6. TableTypes' /\ QueueTypes' /\ SenderTypes' /\ CountTypes'
    BY <1>1, TableStays, QueuesStay, SendersStay, CountsStay
  <1>7. Flying' = Flying \ {l}
    BY <1>3, Ids DEF Flying
  <1>8. \A n \in NotifierIds : Airborne(n)' \subseteq Airborne(n) /\ Queued(n)' = Queued(n) /\ HeldFor(n)' = HeldFor(n) /\ (n # l => Airborne(n)' = Airborne(n))
    BY <1>1, <1>3, <1>7, Ids DEF Airborne, Queued, HeldFor
  <1>9. Known'
    <2>1. \A n \in NotifierIds : \A item \in Queued(n)' : KnownItem(item)'
      BY <1>1, <1>8 DEF Known, KnownItem
    <2>. QED
      BY <1>1, <1>3, <2>1 DEF Known, KnownItem
  <1>10. Slots'
    <2>1. CASE l = TestLane
      <3>1. Flying' = Flying /\ UNCHANGED <<toSend, ahead, busy, sending, pumps, sender>>
        BY <1>1, <1>7, <2>1, Ids DEF Flying
      <3>. QED
        BY <3>1 DEF Slots, OneAtATime, SlotsAreUsed, Lined, Quiet
    <2>2. CASE l # TestLane
      <3>1. l \in NotifierIds /\ l \in Flying /\ Flying \in SUBSET NotifierIds
        BY <1>2, <2>2, Ids DEF Flying
      <3>2. Cardinality(Flying \ {l}) = Cardinality(Flying) - 1 /\ Cardinality(Flying) \in Nat
        BY <3>1, IdsFinite, FS_RemoveElement
      <3>3. busy' = Flying' /\ sending' = Cardinality(Flying') /\ sending' <= MaxInFlight
        BY <1>1, <1>7, <2>2, <3>2, Ids DEF Slots, OneAtATime
      <3>4. OneAtATime'
        BY <1>1, <3>3 DEF Slots, OneAtATime
      <3>5. pumps' > 0
        BY <1>1, <2>2 DEF LaneTypes
      <3>6. SlotsAreUsed'
        BY <1>1, <3>5 DEF Slots, SlotsAreUsed
      <3>. QED
        BY <1>1, <3>4, <3>6 DEF Slots, Lined
    <2>. QED
      BY <2>1, <2>2
  <1>11. InLine'
    BY <1>1, <1>8, InLineStays
  <1>12. Logged'
    <2>1. ASSUME NEW n \in NotifierIds, NEW item \in Under(n), notifier[n].gen = item.gen
          PROVE  item \in Under(n)' \/ Key(n, item) \in recorded'
      <3>1. CASE item \in Under(n)'
        BY <3>1
      <3>2. CASE item \notin Under(n)'
        <4>1. n = l /\ item \in Airborne(n)
          BY <1>8, <3>2 DEF Under
        <4>2. item = flight[l].item /\ Started(l)
          BY <4>1 DEF Airborne, Logged
        <4>. QED
          BY <1>1, <2>1, <4>1, <4>2 DEF Started
      <3>. QED
        BY <3>1, <3>2
    <2>2. \A n \in NotifierIds : Started(n)'
      BY <1>1, <1>3, Ids DEF Logged, Started, Key, Landed
    <2>. QED
      BY <1>1, <2>1, <2>2, LoggedGoesOn
  <1>13. RowsHeld'
    <2>1. \A k \in Lanes : HasRow(k)' = HasRow(k) /\ (HasRow(k) => flight'[k].row = flight[k].row
                            /\ flight'[k].item = flight[k].item /\ flight'[k].notifier = flight[k].notifier)
      BY <1>2, <1>3 DEF HasRow, Landed
    <2>2. \A s \in Senders : (Dropping(s)' <=> Dropping(s)) /\ (Dropping(s) => sender'[s].row = sender[s].row)
      BY <1>1 DEF Dropping
    <2>. QED
      BY <1>1, <2>1, <2>2, RowsGoOn
  <1>14. Retrying'
    <2> SUFFICES ASSUME NEW n \in NotifierIds PROVE LastAttempt(n)'
      BY DEF Retrying
    <2>1. flight'[n].at = "attempt" => flight[n].at = "attempt"
      BY <1>3, Ids DEF Landed
    <2>. QED
      BY <1>1, <2>1 DEF Retrying, LastAttempt, Exists
  <1>. QED
    BY <1>5, <1>6, <1>9, <1>10, <1>11, <1>12, <1>13, <1>14
--------------------------------------------------------------------------------
(* A pump: what it starts leaves its queue for the air, and fills the room there is. *)
LEMMA PumpIs ==
  ASSUME DeliveryIInv, PumpDeliveries
  PROVE  \E started \in SUBSET NotifierIds :
           /\ \A n \in started : toSend[n] # <<>> /\ n \notin busy /\ flight[n] = Landed
           /\ toSend' = [n \in NotifierIds |-> IF n \in started THEN Tail(toSend[n]) ELSE toSend[n]]
           /\ ahead' = [n \in NotifierIds |-> {m \in ahead[n] : toSend'[n] # <<>> /\ toSend'[m] # <<>>}]
           /\ busy' = busy \cup started /\ sending' = Cardinality(busy') /\ sending' <= MaxInFlight
           /\ flight' = [l \in Lanes |-> IF l \in started THEN TakeOff(l, Head(toSend[l])) ELSE flight[l]]
           /\ \A n \in NotifierIds : toSend[n] # <<>> /\ n \notin busy' => sending' = MaxInFlight
  <1> USE DEF DeliveryIInv
  <1>1. PICK started \in SUBSET Eligible :
          /\ Cardinality(started) = IF Cardinality(Eligible) < Room THEN Cardinality(Eligible) ELSE Room
          /\ toSend' = [n \in NotifierIds |-> IF n \in started THEN Tail(toSend[n]) ELSE toSend[n]]
          /\ ahead' = [n \in NotifierIds |-> {m \in ahead[n] : toSend'[n] # <<>> /\ toSend'[m] # <<>>}]
          /\ busy' = busy \cup started
          /\ sending' = sending + Cardinality(started)
          /\ flight' = [l \in Lanes |-> IF l \in started THEN TakeOff(l, Head(toSend[l])) ELSE flight[l]]
    BY DEF PumpDeliveries
  <1>2. Eligible \in SUBSET NotifierIds /\ started \in SUBSET NotifierIds /\ Flying \in SUBSET NotifierIds
    BY DEF Eligible, Flying
  <1>3. busy = Flying /\ sending = Cardinality(Flying) /\ sending <= MaxInFlight
    BY DEF Slots, OneAtATime
  <1>4. \A n \in started : toSend[n] # <<>> /\ n \notin busy /\ flight[n] = Landed
    BY <1>3 DEF Eligible, Flying
  <1>5. /\ IsFiniteSet(Eligible) /\ IsFiniteSet(started) /\ IsFiniteSet(busy)
        /\ Cardinality(Eligible) \in Nat /\ Cardinality(started) \in Nat /\ sending \in Nat /\ Room \in Nat
    BY <1>2, <1>3, IdsFinite, Ids DEF Room
  <1>6. Cardinality(busy \cup started) = Cardinality(busy) + Cardinality(started)
    <2>1. busy \cap started = {}
      BY <1>4
    <2>. QED
      BY <1>3, <1>5, <2>1, FS_Union, FS_EmptySet
  <1>7. sending' = Cardinality(busy') /\ sending' <= MaxInFlight
    BY <1>1, <1>3, <1>5, <1>6, Ids DEF Room
  <1>8. ASSUME NEW n \in NotifierIds, toSend[n] # <<>>, n \notin busy' PROVE sending' = MaxInFlight
    <2>1. n \in Eligible \ started
      BY <1>1, <1>8 DEF Eligible
    <2>2. Cardinality(started) # Cardinality(Eligible)
      BY <1>5, <2>1, FS_Subset
    <2>3. Cardinality(started) = Room
      BY <1>1, <2>2
    <2>. QED
      BY <1>1, <1>3, <1>5, <2>3, Ids DEF Room
  <1>. QED
    BY <1>1, <1>2, <1>4, <1>7, <1>8

LEMMA TakeOffIs ==
  ASSUME NEW n \in NotifierIds, NEW item \in Items
  PROVE  /\ TakeOff(n, item) \in Flights /\ TakeOff(n, item) # Landed /\ TakeOff(n, item).at = "insert"
         /\ TakeOff(n, item).item = item /\ TakeOff(n, item).notifier = n
  BY DEF TakeOff, Flights, Landed

LEMMA Pumped ==
  ASSUME DeliveryIInv, PumpDeliveries, SenderTypes', pumps' \in Nat,
         UNCHANGED <<notifier, deliveries, emitted, registered, requests, boot, promised, recorded, late, sharing>>,
         \A s \in Senders : /\ sender'[s].todo = sender[s].todo /\ sender'[s].pushed = sender[s].pushed
                            /\ (Dropping(s)' <=> Dropping(s)) /\ (Dropping(s) => sender'[s].row = sender[s].row)
  PROVE  DeliveryIInv'
  <1> USE DEF DeliveryIInv, DeliveryTypes
  <1>1. PICK started \in SUBSET NotifierIds :
           /\ \A n \in started : toSend[n] # <<>> /\ n \notin busy /\ flight[n] = Landed
           /\ toSend' = [n \in NotifierIds |-> IF n \in started THEN Tail(toSend[n]) ELSE toSend[n]]
           /\ ahead' = [n \in NotifierIds |-> {m \in ahead[n] : toSend'[n] # <<>> /\ toSend'[m] # <<>>}]
           /\ busy' = busy \cup started /\ sending' = Cardinality(busy') /\ sending' <= MaxInFlight
           /\ flight' = [l \in Lanes |-> IF l \in started THEN TakeOff(l, Head(toSend[l])) ELSE flight[l]]
           /\ \A n \in NotifierIds : toSend[n] # <<>> /\ n \notin busy' => sending' = MaxInFlight
    BY PumpIs
  <1>2. ASSUME NEW n \in started
        PROVE  /\ flight[n] = Landed /\ flight'[n] = TakeOff(n, toSend[n][1]) /\ toSend[n][1] \in Items /\ 1 \in DOMAIN toSend[n]
               /\ toSend'[n] \in Seq(Items) /\ DOMAIN toSend[n] = 1 .. Len(toSend[n]) /\ Len(toSend[n]) \in Nat \ {0}
               /\ DOMAIN toSend'[n] = 1 .. Len(toSend[n]) - 1 /\ Len(toSend'[n]) = Len(toSend[n]) - 1 /\ toSend[n] # <<>>
               /\ \A i \in DOMAIN toSend'[n] : toSend'[n][i] = toSend[n][i + 1] /\ i + 1 \in DOMAIN toSend[n]
    <2>1. n \in NotifierIds /\ n \in Lanes /\ toSend[n] # <<>> /\ toSend'[n] = Tail(toSend[n])
      BY <1>1, Ids
    <2>2. toSend[n] \in Seq(Items)
      BY <2>1, QueueIs
    <2>3. PICK q : q = toSend[n]
      OBVIOUS
    <2>4. /\ Tail(q) \in Seq(Items) /\ Head(q) \in Items /\ Head(q) = q[1] /\ 1 \in DOMAIN q
          /\ Len(q) \in Nat \ {0} /\ Len(Tail(q)) = Len(q) - 1
          /\ DOMAIN q = 1 .. Len(q) /\ DOMAIN Tail(q) = 1 .. Len(q) - 1
          /\ \A i \in DOMAIN Tail(q) : Tail(q)[i] = q[i + 1] /\ i + 1 \in DOMAIN q
      BY <2>1, <2>2, <2>3, TailIs
    <2>. QED
      BY <1>1, <2>1, <2>3, <2>4
  <1>3. /\ \A l \in Lanes \ started : flight'[l] = flight[l]
        /\ \A n \in NotifierIds \ started : toSend'[n] = toSend[n]
    BY <1>1
  <1>4. \A n \in started : flight'[n] \in Flights /\ flight'[n] # Landed /\ flight'[n].at = "insert" /\ flight'[n].item = toSend[n][1]
                           /\ flight'[n].notifier = n
    BY <1>2, TakeOffIs
  <1>5. TableTypes' /\ CountTypes'
    BY TableStays, CountsStay
  <1>6. QueueTypes'
    <2>1. \A n \in NotifierIds : toSend'[n] \in Seq(Items)
      BY <1>2, <1>3, QueueIs
    <2>2. toSend' \in [NotifierIds -> Seq(Items)]
      BY <1>1, <2>1
    <2>. QED
      BY <1>1, <2>2 DEF QueueTypes
  <1>7. LaneTypes'
    <2>1. \A l \in Lanes : flight'[l] \in {Landed} \cup Flights
      BY <1>3, <1>4 DEF LaneTypes
    <2>2. flight' \in [Lanes -> {Landed} \cup Flights]
      BY <1>1, <2>1
    <2>3. \A n \in NotifierIds : flight'[n] # Landed => flight'[n].notifier = n
      BY <1>3, <1>4, Ids DEF LaneTypes
    <2>. QED
      BY <2>2, <2>3 DEF LaneTypes, Landed
  <1>8. Flying' = Flying \cup started /\ started \subseteq NotifierIds /\ \A n \in started : n \notin Flying
    <2>1. \A n \in NotifierIds : flight'[n] # Landed <=> flight[n] # Landed \/ n \in started
      BY <1>3, <1>4, Ids
    <2>2. \A n \in started : flight[n] = Landed
      BY <1>2
    <2>. QED
      BY <2>1, <2>2 DEF Flying, Landed
  <1>9. ASSUME NEW n \in NotifierIds
        PROVE  /\ Queued(n)' \cup Airborne(n)' = Queued(n) \cup Airborne(n) /\ Queued(n)' \subseteq Queued(n)
               /\ DOMAIN toSend'[n] \subseteq DOMAIN toSend[n]
    <2>1. CASE n \in started
      <3>1. DOMAIN toSend[n] = 1 .. Len(toSend[n]) /\ Len(toSend[n]) \in Nat \ {0} /\ DOMAIN toSend'[n] = 1 .. Len(toSend[n]) - 1
            /\ \A i \in DOMAIN toSend'[n] : toSend'[n][i] = toSend[n][i + 1] /\ i + 1 \in DOMAIN toSend[n]
        BY <1>2, <2>1
      <3>2. Airborne(n) = {} /\ Airborne(n)' = {toSend[n][1]}
        BY <1>2, <1>4, <1>8, <2>1 DEF Airborne, Flying
      <3>3. Queued(n)' \subseteq Queued(n) /\ toSend[n][1] \in Queued(n)
        BY <3>1 DEF Queued
      <3>4. ASSUME NEW item \in Queued(n), item # toSend[n][1] PROVE item \in Queued(n)'
        <4>1. PICK j \in DOMAIN toSend[n] : item = toSend[n][j]
          BY DEF Queued
        <4>2. j - 1 \in DOMAIN toSend'[n] /\ toSend'[n][j - 1] = item
          <5>1. j - 1 \in DOMAIN toSend'[n]
            BY <3>1, <3>4, <4>1
          <5>2. toSend'[n][j - 1] = toSend[n][(j - 1) + 1]
            BY <3>1, <5>1
          <5>3. (j - 1) + 1 = j
            BY <3>1
          <5>. QED
            BY <4>1, <5>1, <5>2, <5>3
        <4>. QED
          BY <4>2 DEF Queued
      <3>. QED
        BY <3>1, <3>2, <3>3, <3>4
    <2>2. CASE n \notin started
      <3>1. toSend'[n] = toSend[n] /\ flight'[n] = flight[n]
        BY <1>3, <2>2, Ids
      <3>. QED
        BY <1>8, <2>2, <3>1 DEF Queued, Airborne
    <2>. QED
      BY <2>1, <2>2
  <1>10. Known'
    <2>1. \A n \in NotifierIds : \A item \in Queued(n)' \cup Airborne(n)' : KnownItem(item)'
      BY <1>9, Ids DEF Known, KnownItem, Airborne, Flying
    <2>2. ASSUME NEW l \in Lanes, flight'[l] # Landed PROVE KnownItem(flight[l].item)'
      <3>1. CASE l \in started
        <4>1. l \in NotifierIds /\ flight'[l].item \in Airborne(l)'
          BY <1>8, <3>1 DEF Airborne
        <4>. QED
          BY <2>1, <4>1 DEF KnownItem
      <3>2. CASE l \notin started
        <4>1. flight'[l] = flight[l] /\ flight[l] # Landed
          BY <1>3, <2>2, <3>2 DEF Landed
        <4>2. KnownItem(flight[l].item)
          BY <4>1 DEF Known
        <4>. QED
          BY <4>1, <4>2 DEF KnownItem
      <3>. QED
        BY <3>1, <3>2
    <2>3. \A s \in Senders : \A p \in sender'[s].todo \cup sender'[s].pushed : KnownItem(p[2])'
      BY DEF Known, KnownItem
    <2>. QED
      <3>1. \A l \in Lanes : flight'[l] # Landed' => KnownItem(flight[l].item)'
        BY <2>2 DEF Landed
      <3>. QED
        BY <2>1, <2>3, <3>1 DEF Known, KnownItem
  <1>11. Slots'
    <2>1. busy' = Flying' /\ sending' = Cardinality(Flying')
      BY <1>1, <1>8 DEF Slots, OneAtATime
    <2>2. \A n \in NotifierIds : Len(toSend'[n]) <= MaxQueuedPerNotifier
      <3> SUFFICES ASSUME NEW n \in NotifierIds PROVE Len(toSend'[n]) <= MaxQueuedPerNotifier
        OBVIOUS
      <3>1. Len(toSend[n]) <= MaxQueuedPerNotifier /\ Len(toSend[n]) \in Nat
        BY QueueIs DEF Slots, OneAtATime
      <3>2. Len(toSend'[n]) = Len(toSend[n]) \/ Len(toSend'[n]) = Len(toSend[n]) - 1
        BY <1>2, <1>3
      <3>. QED
        BY <3>1, <3>2, Ids
    <2>3. \A n \in NotifierIds : toSend'[n] # <<>> => toSend[n] # <<>>
      BY <1>2, <1>3
    <2>4. \A n, m \in NotifierIds : m \in ahead'[n] <=> m \in ahead[n] /\ toSend'[n] # <<>> /\ toSend'[m] # <<>>
      BY <1>1
    <2>5. SlotsAreUsed'
      BY <1>1, <2>3, <2>4 DEF Slots, SlotsAreUsed
    <2>6. Lined'
      <3> SUFFICES ASSUME NEW n \in NotifierIds
                   PROVE  n \notin ahead'[n] /\ (toSend'[n] = <<>> => ahead'[n] = {}) /\ \A m \in ahead'[n] : toSend'[m] # <<>>
        BY DEF Lined
      <3>1. ahead'[n] = {m \in ahead[n] : toSend'[n] # <<>> /\ toSend'[m] # <<>>}
        BY <1>1
      <3>. QED
        BY <3>1 DEF Slots, Lined
    <2>. QED
      BY <1>1, <2>1, <2>2, <2>5, <2>6 DEF Slots, OneAtATime
  <1>12. InLine'
    <2>1. ASSUME NEW n \in NotifierIds, NEW j \in DOMAIN toSend'[n]
          PROVE  /\ \A item \in Airborne(n)' : InOrder(item, toSend'[n][j])
                 /\ \A i \in DOMAIN toSend'[n] : i < j => InOrder(toSend'[n][i], toSend'[n][j])
      <3>1. /\ \A k \in DOMAIN toSend[n] : /\ \A item \in Airborne(n) : InOrder(item, toSend[n][k])
                                           /\ \A i \in DOMAIN toSend[n] : i < k => InOrder(toSend[n][i], toSend[n][k])
        BY DEF InLine, OrderIsKept
      <3>2. CASE n \in started
        <4>1. DOMAIN toSend[n] = 1 .. Len(toSend[n]) /\ Len(toSend[n]) \in Nat \ {0} /\ DOMAIN toSend'[n] = 1 .. Len(toSend[n]) - 1
              /\ \A i \in DOMAIN toSend'[n] : toSend'[n][i] = toSend[n][i + 1] /\ i + 1 \in DOMAIN toSend[n]
          BY <1>2, <3>2
        <4>2. Airborne(n)' = {toSend[n][1]}
          BY <1>4, <1>8, <3>2 DEF Airborne
        <4>3. 1 \in DOMAIN toSend[n] /\ 1 < j + 1 /\ j + 1 \in DOMAIN toSend[n] /\ toSend'[n][j] = toSend[n][j + 1]
          BY <2>1, <4>1
        <4>4. ASSUME NEW i \in DOMAIN toSend'[n], i < j PROVE InOrder(toSend'[n][i], toSend'[n][j])
          <5>1. i + 1 \in DOMAIN toSend[n] /\ i + 1 < j + 1 /\ toSend'[n][i] = toSend[n][i + 1]
            BY <2>1, <4>1, <4>4
          <5>. QED
            BY <3>1, <4>3, <5>1
        <4>. QED
          BY <3>1, <4>2, <4>3, <4>4
      <3>3. CASE n \notin started
        <4>1. toSend'[n] = toSend[n] /\ Airborne(n)' = Airborne(n)
          BY <1>3, <1>8, <3>3, Ids DEF Airborne
        <4>. QED
          BY <2>1, <3>1, <4>1
      <3>. QED
        BY <3>2, <3>3
    <2>2. OrderIsKept'
      BY <2>1 DEF OrderIsKept, InOrder
    <2>3. \A n \in NotifierIds : \A item \in Queued(n)' \cup Airborne(n)' : WasEmitted(item)'
      BY <1>9 DEF InLine, WasEmitted
    <2>4. ASSUME NEW s \in Senders, NEW p \in sender'[s].todo PROVE Newer(s, p)' /\ \A q \in sender'[s].todo : p[1] = q[1] => p = q
      <3>0. sender[s].todo \in SUBSET Parcels /\ sender'[s].todo = sender[s].todo
        BY SenderIs
      <3>1. p \in sender[s].todo /\ p[1] \in NotifierIds
        BY <3>0 DEF Parcels
      <3>2. Newer(s, p) /\ \A q \in sender'[s].todo : p[1] = q[1] => p = q
        BY <3>1 DEF InLine
      <3>3. Newer(s, p)'
        BY <1>9, <3>1, <3>2 DEF Newer
      <3>. QED
        BY <3>2, <3>3
    <2>. QED
      BY <2>2, <2>3, <2>4 DEF InLine
  <1>13. Logged'
    <2>1. \A n \in NotifierIds : HeldFor(n)' = HeldFor(n)
      BY DEF HeldFor
    <2>2. \A n \in NotifierIds : \A item \in Under(n) : item \in Under(n)'
      BY <1>9, <2>1 DEF Under
    <2>3. \A n \in NotifierIds : Started(n)'
      BY <1>3, <1>4, Ids DEF Logged, Started, Key
    <2>. QED
      BY <2>2, <2>3, LoggedGoesOn
  <1>14. RowsHeld'
    <2>1. \A k \in Lanes : HasRow(k)' = HasRow(k) /\ (HasRow(k) => flight'[k].row = flight[k].row
                            /\ flight'[k].item = flight[k].item /\ flight'[k].notifier = flight[k].notifier)
      <3> SUFFICES ASSUME NEW k \in Lanes
                   PROVE  HasRow(k)' = HasRow(k) /\ (HasRow(k) => flight'[k] = flight[k])
        OBVIOUS
      <3>1. CASE k \in started
        BY <1>2, <1>4, <3>1 DEF HasRow, Landed
      <3>2. CASE k \notin started
        BY <1>3, <3>2 DEF HasRow
      <3>. QED
        BY <3>1, <3>2
    <2>. QED
      BY <2>1, RowsGoOn
  <1>15. Retrying'
    <2> SUFFICES ASSUME NEW n \in NotifierIds PROVE LastAttempt(n)'
      BY DEF Retrying
    <2>1. flight'[n].at = "attempt" => flight[n].at = "attempt"
      BY <1>3, <1>4, Ids
    <2>. QED
      BY <2>1 DEF Retrying, LastAttempt, Exists
  <1>. QED
    BY <1>5, <1>6, <1>7, <1>10, <1>11, <1>12, <1>13, <1>14, <1>15

LEMMA SendersPump ==
  ASSUME DeliveryIInv, NEW s \in Senders, SenderPumps(s)
  PROVE  DeliveryIInv'
  <1> USE DEF DeliveryIInv, DeliveryTypes
  <1>1. /\ UNCHANGED <<notifier, deliveries, pumps, emitted, registered, requests, boot, promised, recorded, late, sharing>>
        /\ sender[s].at = "enqueue" /\ sender[s].todo = {} /\ PumpDeliveries /\ Say(s, Quiet)
    BY DEF SenderPumps, historyVars
  <1>2. sender[s].pushed = {}
    BY <1>1 DEF SenderTypes
  <1>3. Quiet \in Errands /\ Quiet.todo = {} /\ Quiet.pushed = {} /\ Quiet.at = "idle"
    BY DEF Quiet, Errands
  <1>4. SenderTypes' /\ sender'[s] = Quiet /\ \A t \in Senders \ {s} : sender'[t] = sender[t]
    BY <1>1, <1>3, SaysOnly
  <1>5. \A t \in Senders : /\ sender'[t].todo = sender[t].todo /\ sender'[t].pushed = sender[t].pushed
                           /\ (Dropping(t)' <=> Dropping(t)) /\ (Dropping(t) => sender'[t].row = sender[t].row)
    BY <1>1, <1>2, <1>3, <1>4 DEF Dropping
  <1>. QED
    BY <1>1, <1>4, <1>5, Pumped DEF LaneTypes

LEMMA PumpsAfter ==
  ASSUME DeliveryIInv, PumpAfter
  PROVE  DeliveryIInv'
  <1> USE DEF DeliveryIInv, DeliveryTypes
  <1>1. /\ UNCHANGED <<notifier, deliveries, sender, emitted, registered, requests, boot, promised, recorded, late, sharing>>
        /\ PumpDeliveries /\ pumps' \in Nat
    BY DEF PumpAfter, historyVars, LaneTypes
  <1>2. SenderTypes'
    BY <1>1, SendersStay
  <1>3. \A t \in Senders : (Dropping(t)' <=> Dropping(t))
    BY <1>1 DEF Dropping
  <1>. QED
    BY <1>1, <1>2, <1>3, Pumped
--------------------------------------------------------------------------------
(* A sender puts one of its parcels in line, and past the cap takes the oldest of the line. *)
LEMMA Enqueues ==
  ASSUME DeliveryIInv, NEW s \in Senders, Enqueue(s)
  PROVE  DeliveryIInv'
  <1> USE DEF DeliveryIInv, DeliveryTypes
  <1>1. /\ UNCHANGED <<notifier, deliveries, busy, sending, flight, pumps, emitted, registered, requests, boot, promised, recorded, late, sharing>>
        /\ sender[s].at = "enqueue" /\ sender[s].pushed = {}
    BY DEF Enqueue, historyVars, SenderTypes
  <1>2. PICK next \in sender[s].todo :
          /\ toSend' = [toSend EXCEPT ![next[1]] = AppendCapped(next[1], next[2])]
          /\ ahead' = IF toSend[next[1]] = <<>> THEN [ahead EXCEPT ![next[1]] = {m \in NotifierIds : toSend[m] # <<>>}] ELSE ahead
          /\ Say(s, IF Full(next[1]) THEN [at |-> "drop", todo |-> sender[s].todo \ {next}, pushed |-> {<<next[1], Head(toSend[next[1]])>>}, row |-> 0]
                    ELSE Sending(sender[s].todo \ {next}))
    BY DEF Enqueue
  <1>3. sender[s].todo \in SUBSET Parcels
    BY SenderIs
  <1>4. PICK n \in NotifierIds, new \in Items : next = <<n, new>>
    BY <1>3 DEF Parcels
  <1>5. next[1] = n /\ next[2] = new
    BY <1>4
  <1>6. PICK rest \in SUBSET Parcels : rest = sender[s].todo \ {next}
    BY <1>3
  <1>7. /\ toSend' = [toSend EXCEPT ![n] = AppendCapped(n, new)]
        /\ ahead' = IF toSend[n] = <<>> THEN [ahead EXCEPT ![n] = {m \in NotifierIds : toSend[m] # <<>>}] ELSE ahead
        /\ Full(n) => Say(s, [at |-> "drop", todo |-> rest, pushed |-> {<<n, Head(toSend[n])>>}, row |-> 0])
        /\ ~Full(n) => Say(s, Sending(rest))
    BY <1>2, <1>5, <1>6
  <1>8. toSend[n] \in Seq(Items) /\ Len(toSend[n]) \in Nat /\ DOMAIN toSend[n] = 1 .. Len(toSend[n]) /\ (toSend[n] = <<>> <=> Len(toSend[n]) = 0)
    BY QueueIs
  <1>9. PICK shift \in {0, 1}, q \in Seq(Items) :
           /\ q = AppendCapped(n, new) /\ shift = (IF Full(n) THEN 1 ELSE 0)
           /\ Len(q) \in Nat \ {0} /\ Len(q) = Len(toSend[n]) + 1 - shift /\ q[Len(q)] = new /\ DOMAIN q = 1 .. Len(q)
           /\ \A i \in 1 .. Len(q) - 1 : i + shift \in DOMAIN toSend[n] /\ q[i] = toSend[n][i + shift]
    BY CappedIs
  <1>24. PICK k \in Nat \ {0} :
           /\ k = Len(q) /\ k = Len(toSend[n]) + 1 - shift /\ q[k] = new /\ DOMAIN q = 1 .. k
           /\ \A i \in 1 .. k - 1 : i + shift \in DOMAIN toSend[n] /\ q[i] = toSend[n][i + shift]
    BY <1>9
  <1>10. toSend'[n] = q /\ \A m \in NotifierIds \ {n} : toSend'[m] = toSend[m]
    BY <1>7, <1>9 DEF QueueTypes
  <1>11. Full(n) => /\ Head(toSend[n]) \in Items /\ Head(toSend[n]) = toSend[n][1] /\ 1 \in DOMAIN toSend[n]
    BY <1>8, TailIs, Ids DEF Full
  <1>12. PICK what \in Errands :
          /\ Say(s, what) /\ what.todo = rest /\ what # Quiet /\ what.at \in {"enqueue", "drop"}
          /\ what.pushed = IF Full(n) THEN {<<n, toSend[n][1]>>} ELSE {}
          /\ what.at = "drop" <=> Full(n)
    <2>1. CASE Full(n)
      <3>1. PICK what : what = [at |-> "drop", todo |-> rest, pushed |-> {<<n, Head(toSend[n])>>}, row |-> 0]
        OBVIOUS
      <3>2. what \in Errands /\ what # Quiet
        BY <1>11, <2>1, <3>1 DEF Errands, Parcels, Quiet
      <3>. QED
        BY <1>7, <1>11, <2>1, <3>1, <3>2
    <2>2. CASE ~Full(n)
      <3>1. PICK what : what = Sending(rest)
        OBVIOUS
      <3>2. what \in Errands /\ what.at = "enqueue" /\ what.todo = rest /\ what.pushed = {} /\ what # Quiet
        BY <3>1, SendingIs
      <3>. QED
        BY <1>7, <2>2, <3>1, <3>2
    <2>. QED
      BY <2>1, <2>2
  <1>13. SenderTypes' /\ sender'[s] = what /\ \A t \in Senders \ {s} : sender'[t] = sender[t]
    <2>1. \A a, b \in what.pushed : a = b
      BY <1>12
    <2>. QED
      BY <1>12, <2>1, SaysOnly
  <1>14. TableTypes' /\ LaneTypes' /\ CountTypes' /\ Retrying' /\ SameAir
    BY <1>1, TableStays, LanesStay, CountsStay, RetriesStay DEF SameAir, Landed
  <1>15. QueueTypes'
    <2>1. toSend' \in [NotifierIds -> Seq(Items)]
      BY <1>7, <1>9 DEF QueueTypes
    <2>2. ahead' \in [NotifierIds -> SUBSET NotifierIds]
      BY <1>7 DEF QueueTypes
    <2>. QED
      BY <2>1, <2>2 DEF QueueTypes
  (* The line: all that was in it but, past the cap, the oldest, and the new one. *)
  <1>16. /\ \A m \in NotifierIds : Airborne(m)' = Airborne(m)
         /\ \A m \in NotifierIds \ {n} : Queued(m)' = Queued(m)
         /\ Queued(n)' \subseteq Queued(n) \cup {new} /\ new \in Queued(n)'
         /\ Queued(n) \subseteq Queued(n)' \cup (IF Full(n) THEN {toSend[n][1]} ELSE {})
    <2>1. \A m \in NotifierIds : Airborne(m)' = Airborne(m)
      BY <1>14, AirIsSame
    <2>2. \A m \in NotifierIds \ {n} : Queued(m)' = Queued(m)
      BY <1>10 DEF Queued
    <2>3. ASSUME NEW item \in Queued(n)' PROVE item \in Queued(n) \cup {new}
      <3>1. PICK j \in DOMAIN q : item = q[j]
        BY <1>10 DEF Queued
      <3>2. j = k \/ j \in 1 .. k - 1
        BY <1>24, <3>1
      <3>. QED
        BY <1>24, <3>1, <3>2 DEF Queued
    <2>4. new \in Queued(n)'
      <3>1. Len(q) \in DOMAIN q
        BY <1>9
      <3>. QED
        BY <1>9, <1>10, <3>1 DEF Queued
    <2>5. ASSUME NEW item \in Queued(n), item \notin Queued(n)' PROVE Full(n) /\ item = toSend[n][1]
      <3>1. PICK j \in 1 .. Len(toSend[n]) : item = toSend[n][j]
        BY <1>8 DEF Queued
      <3>2. CASE j - shift \in 1 .. k - 1
        <4>1. q[j - shift] = toSend[n][(j - shift) + shift]
          BY <1>24, <3>2
        <4>2. (j - shift) + shift = j /\ j - shift \in DOMAIN q
          BY <1>24, <3>1, <3>2
        <4>. QED
          BY <1>10, <2>5, <3>1, <4>1, <4>2 DEF Queued
      <3>3. CASE j - shift \notin 1 .. k - 1
        <4>1. j = 1 /\ shift = 1
          BY <1>8, <1>24, <3>3
        <4>. QED
          BY <1>9, <3>1, <4>1
      <3>. QED
        BY <3>2, <3>3
    <2>. QED
      BY <2>1, <2>2, <2>3, <2>4, <2>5
  <1>17. Known'
    <2>1. next \in sender[s].todo \cup sender[s].pushed
      BY <1>2
    <2>2. KnownItem(new)
      BY <1>5, <2>1 DEF Known
    <2>3. Full(n) => KnownItem(toSend[n][1])
      BY <1>11 DEF Known, Queued
    <2>4. \A m \in NotifierIds : \A item \in Queued(m)' : KnownItem(item)
      BY <1>16, <2>2 DEF Known
    <2>5. \A p \in sender'[s].todo \cup sender'[s].pushed : KnownItem(p[2])
      <3> SUFFICES ASSUME NEW p \in what.todo \cup what.pushed PROVE KnownItem(p[2])
        BY <1>13
      <3>1. CASE p \in sender[s].todo
        BY <3>1 DEF Known
      <3>2. CASE p \notin sender[s].todo
        <4>1. Full(n) /\ p = <<n, toSend[n][1]>>
          BY <1>6, <1>12, <3>2
        <4>. QED
          BY <2>3, <4>1
      <3>. QED
        BY <3>1, <3>2
    <2>6. \A t \in Senders : \A p \in sender'[t].todo \cup sender'[t].pushed : KnownItem(p[2])
      BY <1>13, <2>5 DEF Known
    <2>. QED
      BY <1>1, <2>4, <2>6 DEF Known, KnownItem, Landed
  <1>18. Slots'
    <2>1. Len(toSend'[n]) <= MaxQueuedPerNotifier
      <3>1. Len(toSend[n]) <= MaxQueuedPerNotifier
        BY DEF Slots, OneAtATime
      <3>. QED
        BY <1>8, <1>9, <1>10, <3>1, Ids DEF Full
    <2>2. OneAtATime'
      BY <1>1, <1>10, <1>14, <2>1, AirIsSame DEF Slots, OneAtATime
    <2>3. toSend'[n] # <<>> /\ \A m \in NotifierIds : toSend[m] # <<>> => toSend'[m] # <<>>
      BY <1>9, <1>10
    <2>4. CASE toSend[n] # <<>>
      <3>1. UNCHANGED ahead /\ \A m \in NotifierIds : toSend'[m] # <<>> <=> toSend[m] # <<>>
        BY <1>7, <1>10, <2>3, <2>4
      <3>2. SlotsAreUsed'
        BY <1>12, <1>13, <3>1 DEF Slots, SlotsAreUsed, Quiet
      <3>3. Lined'
        <4>1. \A m \in NotifierIds : ahead[m] \subseteq NotifierIds
          BY DEF QueueTypes
        <4>. QED
          BY <3>1, <4>1 DEF Slots, Lined
      <3>. QED
        BY <2>2, <3>2, <3>3 DEF Slots
    <2>5. CASE toSend[n] = <<>>
      <3>1. ahead'[n] = {m \in NotifierIds : toSend[m] # <<>>} /\ \A m \in NotifierIds \ {n} : ahead'[m] = ahead[m]
        BY <1>7, <2>5 DEF QueueTypes
      <3>2. \A m \in NotifierIds : n \notin ahead[m] /\ n \notin ahead'[n]
        BY <2>5, <3>1 DEF Slots, Lined
      <3>3. SlotsAreUsed'
        <4> SUFFICES ASSUME NEW j \in NotifierIds, toSend'[j] # <<>>, NEW m \in NotifierIds \ {j}, toSend'[m] # <<>>
                     PROVE  j \in ahead'[m] <=> m \notin ahead'[j]
          BY <1>12, <1>13 DEF SlotsAreUsed, Quiet
        <4>1. CASE j = n
          <5>1. toSend[m] # <<>> /\ m \in ahead'[n] /\ ahead'[m] = ahead[m]
            BY <1>10, <3>1, <4>1
          <5>. QED
            BY <3>2, <4>1, <5>1
        <4>2. CASE m = n
          <5>1. toSend[j] # <<>> /\ j \in ahead'[n] /\ ahead'[j] = ahead[j]
            BY <1>10, <3>1, <4>2
          <5>. QED
            BY <3>2, <4>2, <5>1
        <4>3. CASE j # n /\ m # n
          <5>1. toSend[j] # <<>> /\ toSend[m] # <<>> /\ ahead'[j] = ahead[j] /\ ahead'[m] = ahead[m]
            BY <1>10, <3>1, <4>3
          <5>. QED
            BY <5>1 DEF Slots, SlotsAreUsed
        <4>. QED
          BY <4>1, <4>2, <4>3
      <3>4. Lined'
        <4> SUFFICES ASSUME NEW j \in NotifierIds
                     PROVE  j \notin ahead'[j] /\ (toSend'[j] = <<>> => ahead'[j] = {}) /\ \A m \in ahead'[j] : toSend'[m] # <<>>
          BY DEF Lined
        <4>1. CASE j = n
          BY <2>3, <3>1, <3>2, <4>1
        <4>2. CASE j # n
          <5>1. ahead'[j] = ahead[j] /\ toSend'[j] = toSend[j] /\ ahead[j] \subseteq NotifierIds
            BY <1>10, <3>1, <4>2 DEF QueueTypes
          <5>. QED
            BY <2>3, <5>1 DEF Slots, Lined
        <4>. QED
          BY <4>1, <4>2
      <3>. QED
        BY <2>2, <3>3, <3>4 DEF Slots
    <2>. QED
      BY <2>4, <2>5
  <1>19. Newer(s, next) /\ \A p \in sender[s].todo : next[1] = p[1] => next = p
    BY <1>2 DEF InLine
  <1>20. \A item \in Queued(n) \cup Airborne(n) : InOrder(item, new)
    BY <1>5, <1>19 DEF Newer, InOrder
  <1>21. InLine'
    <2>1. ASSUME NEW j \in DOMAIN q
          PROVE  /\ \A item \in Airborne(n) : InOrder(item, q[j])
                 /\ \A i \in DOMAIN q : i < j => InOrder(q[i], q[j])
      <3>1. \A m \in DOMAIN toSend[n] : /\ \A item \in Airborne(n) : InOrder(item, toSend[n][m])
                                        /\ \A i \in DOMAIN toSend[n] : i < m => InOrder(toSend[n][i], toSend[n][m])
        BY DEF InLine, OrderIsKept
      <3>2. CASE j = k
        <4>1. q[j] = new
          BY <1>24, <3>2
        <4>2. ASSUME NEW i \in DOMAIN q, i < j PROVE q[i] \in Queued(n)
          <5>1. i \in 1 .. k - 1
            BY <1>24, <3>2, <4>2
          <5>. QED
            BY <1>24, <5>1 DEF Queued
        <4>. QED
          BY <1>20, <4>1, <4>2
      <3>3. CASE j # k
        <4>0. j \in 1 .. k - 1
          BY <1>24, <2>1, <3>3
        <4>1. j + shift \in DOMAIN toSend[n] /\ q[j] = toSend[n][j + shift]
          BY <1>24, <4>0
        <4>2. ASSUME NEW i \in DOMAIN q, i < j PROVE InOrder(q[i], q[j])
          <5>1. i \in 1 .. k - 1
            BY <1>24, <4>0, <4>2
          <5>2. i + shift \in DOMAIN toSend[n] /\ q[i] = toSend[n][i + shift]
            BY <1>24, <5>1
          <5>3. i + shift < j + shift
            BY <4>0, <4>2, <5>1
          <5>. QED
            BY <3>1, <4>1, <5>2, <5>3
        <4>. QED
          BY <3>1, <4>1, <4>2
      <3>. QED
        BY <3>2, <3>3
    <2>2. OrderIsKept'
      <3> SUFFICES ASSUME NEW m \in NotifierIds, NEW j \in DOMAIN toSend'[m]
                   PROVE  /\ \A item \in Airborne(m)' : InOrder(item, toSend'[m][j])
                          /\ \A i \in DOMAIN toSend'[m] : i < j => InOrder(toSend'[m][i], toSend'[m][j])
        BY DEF OrderIsKept, InOrder
      <3>1. CASE m = n
        BY <1>10, <1>16, <2>1, <3>1
      <3>2. CASE m # n
        <4>1. toSend'[m] = toSend[m] /\ Airborne(m)' = Airborne(m)
          BY <1>10, <1>16, <3>2
        <4>. QED
          BY <4>1 DEF InLine, OrderIsKept
      <3>. QED
        BY <3>1, <3>2
    <2>3. WasEmitted(new)
      <3>1. s \in Emitters => emitted[s] <= emitted[s]
        BY Ids DEF CountTypes
      <3>. QED
        BY <1>5, <1>19, <3>1 DEF Newer, WasEmitted
    <2>4. \A m \in NotifierIds : \A item \in Queued(m)' \cup Airborne(m)' : WasEmitted(item)'
      BY <1>1, <1>16, <2>3 DEF InLine, WasEmitted
    <2>5. ASSUME NEW t \in Senders, NEW p \in sender'[t].todo PROVE Newer(t, p)' /\ \A r \in sender'[t].todo : p[1] = r[1] => p = r
      <3>1. p \in sender[t].todo /\ (t = s => p # next) /\ sender'[t].todo \subseteq sender[t].todo /\ sender[t].todo \in SUBSET Parcels
        BY <1>6, <1>12, <1>13, SenderIs
      <3>2. p[1] \in NotifierIds
        BY <3>1 DEF Parcels
      <3>3. Newer(t, p) /\ \A r \in sender'[t].todo : p[1] = r[1] => p = r
        BY <3>1 DEF InLine
      <3>4. Newer(t, p)'
        <4>1. CASE p[2].replay
          BY <4>1 DEF Newer
        <4>2. CASE ~p[2].replay /\ p[1] # n
          BY <1>1, <1>16, <3>2, <3>3, <4>2 DEF Newer
        <4>3. CASE ~p[2].replay /\ p[1] = n
          <5>1. t # s
            BY <1>5, <1>19, <3>1, <4>3
          <5>2. new.replay \/ new.event[1] = s
            BY <1>5, <1>19 DEF Newer
          <5>. QED
            BY <1>1, <1>16, <3>3, <4>3, <5>1, <5>2 DEF Newer
        <4>. QED
          BY <4>1, <4>2, <4>3
      <3>. QED
        BY <3>3, <3>4
    <2>. QED
      BY <2>2, <2>4, <2>5 DEF InLine
  <1>22. Logged'
    <2>1. ASSUME NEW m \in NotifierIds, NEW item \in Under(m) PROVE item \in Under(m)'
      <3>1. CASE item \in Queued(m) \cup Airborne(m)
        <4>1. CASE item \in Queued(m)' \cup Airborne(m)'
          BY <4>1 DEF Under
        <4>2. CASE item \notin Queued(m)' \cup Airborne(m)'
          <5>1. m = n /\ Full(n) /\ item = toSend[n][1]
            BY <1>16, <3>1, <4>2
          <5>2. <<m, item>> \in sender'[s].pushed /\ item \in Items
            BY <1>11, <1>12, <1>13, <5>1
          <5>. QED
            BY <5>2 DEF Under, HeldFor
        <4>. QED
          BY <4>1, <4>2
      <3>2. CASE item \in HeldFor(m)
        <4>1. item \in Items /\ \E t \in Senders : <<m, item>> \in sender[t].todo \cup sender[t].pushed
          BY <3>2 DEF HeldFor
        <4>2. PICK t \in Senders : <<m, item>> \in sender[t].todo \cup sender[t].pushed
          BY <4>1
        <4>3. CASE <<m, item>> \in sender'[t].todo \cup sender'[t].pushed
          BY <4>1, <4>3 DEF Under, HeldFor
        <4>4. CASE <<m, item>> \notin sender'[t].todo \cup sender'[t].pushed
          <5>1. t = s
            BY <1>13, <4>2, <4>4
          <5>2. <<m, item>> = next
            BY <1>1, <1>6, <1>12, <1>13, <4>2, <4>4, <5>1
          <5>3. m = n /\ item = new
            BY <1>4, <5>2
          <5>. QED
            BY <1>16, <5>3 DEF Under
        <4>. QED
          BY <4>3, <4>4
      <3>. QED
        BY <3>1, <3>2 DEF Under
    <2>2. \A m \in NotifierIds : Started(m)'
      BY <1>1, StartedStays
    <2>. QED
      BY <1>1, <2>1, <2>2, LoggedGoesOn
  <1>23. RowsHeld'
    <2>1. \A t \in Senders : (Dropping(t)' <=> Dropping(t)) /\ (Dropping(t) => sender'[t].row = sender[t].row)
      BY <1>1, <1>12, <1>13 DEF Dropping
    <2>. QED
      BY <1>1, <2>1, RowsStay
  <1>. QED
    BY <1>13, <1>14, <1>15, <1>17, <1>18, <1>21, <1>22, <1>23
--------------------------------------------------------------------------------
(* The routes: a row comes, is switched, and goes with its log; none of them touches what is under way. *)
SameTraffic == UNCHANGED <<toSend, ahead, busy, sending, flight, pumps, sender, emitted, promised, recorded>>

LEMMA TrafficIsSame ==
  ASSUME DeliveryIInv, SameTraffic, registered' \in Nat, registered' >= registered
  PROVE  /\ QueueTypes' /\ LaneTypes' /\ SenderTypes' /\ Known' /\ Slots' /\ InLine'
         /\ \A n \in NotifierIds : Queued(n)' = Queued(n) /\ Airborne(n)' = Airborne(n) /\ HeldFor(n)' = HeldFor(n)
         /\ \A l \in Lanes : HasRow(l)' = HasRow(l) /\ NotifierOf(l)' = NotifierOf(l) /\ (Alone(l) => Alone(l)')
         /\ RowsUnderWay' = RowsUnderWay
  <1> USE DEF DeliveryIInv, DeliveryTypes, SameTraffic
  <1>1. SameAir
    BY DEF SameAir, Landed
  <1>2. QueueTypes' /\ LaneTypes' /\ SenderTypes' /\ Known' /\ Slots' /\ InLine'
    BY <1>1, QueuesStay, LanesStay, SendersStay, KnownStays, SlotsStay, InLineStays, AirIsSame DEF LaneTypes
  <1>3. \A n \in NotifierIds : Queued(n)' = Queued(n) /\ Airborne(n)' = Airborne(n) /\ HeldFor(n)' = HeldFor(n)
    BY <1>1, AirIsSame DEF Queued, HeldFor
  <1>4. \A l \in Lanes : HasRow(l)' = HasRow(l) /\ NotifierOf(l)' = NotifierOf(l)
    BY DEF HasRow, NotifierOf
  <1>5. \A s \in Senders : Dropping(s)' <=> Dropping(s)
    BY DEF Dropping
  <1>6. \A l \in Lanes : Alone(l) => Alone(l)'
    BY <1>4, <1>5 DEF Alone
  <1>7. RowsUnderWay' = RowsUnderWay
    BY <1>4, <1>5 DEF RowsUnderWay
  <1>. QED
    BY <1>2, <1>3, <1>4, <1>6, <1>7

(* An event promised to a registration that still stands stays where it is. *)
LEMMA LoggedKept ==
  ASSUME DeliveryIInv, SameTraffic, registered' \in Nat, registered' >= registered,
         \A n \in NotifierIds : notifier'[n].gen = notifier[n].gen \/ notifier'[n].gen \notin 1 .. registered
  PROVE  Logged'
  <1> USE DEF DeliveryIInv, DeliveryTypes
  <1>1. \A n \in NotifierIds : Queued(n)' = Queued(n) /\ Airborne(n)' = Airborne(n) /\ HeldFor(n)' = HeldFor(n)
    BY TrafficIsSame
  <1>2. NothingVanishes'
    <2> SUFFICES ASSUME NEW p \in promised, notifier'[p[1]].gen = p[2], p \notin recorded
                 PROVE  \E item \in Queued(p[1])' \cup Airborne(p[1])' \cup HeldFor(p[1])' : Key(p[1], item) = p
      BY DEF NothingVanishes, Key, SameTraffic
    <2>1. p[1] \in NotifierIds /\ p[2] \in 1 .. registered
      BY Ids DEF CountTypes, TableTypes
    <2>2. notifier[p[1]].gen = p[2]
      BY <2>1
    <2>. QED
      BY <1>1, <2>1, <2>2 DEF Logged, NothingVanishes
  <1>3. ASSUME NEW n \in NotifierIds PROVE Started(n)'
    <2>1. Started(n) /\ flight'[n] = flight[n] /\ recorded' = recorded
      BY DEF Logged, SameTraffic
    <2>2. CASE flight[n] = Landed
      BY <2>1, <2>2 DEF Started, Landed
    <2>3. CASE flight[n] # Landed
      <3>1. flight[n].item.gen \in 1 .. registered
        BY <2>3, LaneIs, Ids DEF Known, KnownItem, Flights, Items, TableTypes
      <3>. QED
        BY <2>1, <3>1 DEF Started, Key
    <2>. QED
      BY <2>2, <2>3
  <1>. QED
    BY <1>2, <1>3 DEF Logged

LEMMA Registers ==
  ASSUME DeliveryIInv, RegisterNotifier
  PROVE  DeliveryIInv'
  <1> USE DEF DeliveryIInv, DeliveryTypes
  <1>1. /\ UNCHANGED <<deliveries, requests, boot, sharing>> /\ SameTraffic
        /\ registered < MaxRegistrations /\ registered' = registered + 1
    BY DEF RegisterNotifier, dispatcherVars, SameTraffic
  <1>2. PICK n \in NotifierIds :
         /\ \A m \in NotifierIds : Exists(m) => m < n
         /\ notifier' = [notifier EXCEPT ![n] = [gen |-> registered + 1, enabled |-> TRUE]]
         /\ late' = [late EXCEPT ![n] = 0]
    BY DEF RegisterNotifier
  <1>3. registered \in Nat /\ registered' \in 0 .. MaxRegistrations /\ registered' >= registered /\ registered' \in Nat
    BY <1>1, Ids DEF TableTypes
  <1>4. notifier'[n] = [gen |-> registered + 1, enabled |-> TRUE] /\ \A m \in NotifierIds \ {n} : notifier'[m] = notifier[m]
    BY <1>2 DEF TableTypes
  <1>5. /\ QueueTypes' /\ LaneTypes' /\ SenderTypes' /\ Known' /\ Slots' /\ InLine'
        /\ \A l \in Lanes : HasRow(l)' = HasRow(l) /\ NotifierOf(l)' = NotifierOf(l) /\ (Alone(l) => Alone(l)')
        /\ RowsUnderWay' = RowsUnderWay
    BY <1>1, <1>3, TrafficIsSame
  <1>6. TableTypes'
    <2>1. notifier' \in [NotifierIds -> [gen : 0 .. MaxRegistrations, enabled : BOOLEAN]]
      BY <1>1, <1>2, <1>3, Ids DEF TableTypes
    <2>2. \A m \in NotifierIds : notifier'[m].gen <= registered'
      <3> SUFFICES ASSUME NEW m \in NotifierIds PROVE notifier'[m].gen <= registered'
        OBVIOUS
      <3>1. notifier[m].gen \in Nat /\ notifier[m].gen <= registered
        BY Ids DEF TableTypes
      <3>. QED
        BY <1>1, <1>3, <1>4, <3>1
    <2>. QED
      BY <1>1, <1>3, <2>1, <2>2 DEF TableTypes
  <1>7. CountTypes'
    <2>1. \A p \in promised : p[2] <= registered'
      BY <1>1, <1>3, Ids DEF CountTypes
    <2>. QED
      BY <1>1, <1>2, <2>1 DEF CountTypes, SameTraffic
  <1>8. Logged'
    <2>1. \A m \in NotifierIds : notifier'[m].gen = notifier[m].gen \/ notifier'[m].gen \notin 1 .. registered
      BY <1>3, <1>4
    <2>. QED
      BY <1>1, <1>3, <2>1, LoggedKept
  <1>9. RowsHeld'
    <2>1. ASSUME NEW l \in Lanes, Holds(l)' PROVE Holds(l)
      <3>1. HasRow(l) /\ flight'[l] = flight[l] /\ notifier'[NotifierOf(l)].gen = flight[l].item.gen
        BY <1>1, <1>5, <2>1 DEF Holds, SameTraffic
      <3>2. flight[l] \in Flights /\ flight[l] # Landed
        BY <3>1, LaneIs DEF HasRow
      <3>3. flight[l].item.gen <= registered /\ flight[l].item.gen \in Nat /\ NotifierOf(l) \in NotifierIds
        BY <3>2, Ids DEF Known, KnownItem, Flights, Items, NotifierOf
      <3>4. NotifierOf(l) # n
        BY <1>3, <1>4, <3>1, <3>3
      <3>. QED
        BY <1>4, <3>1, <3>3, <3>4 DEF Holds
    <2>2. ASSUME NEW k \in Lanes \ sharing, Holds(k)'
          PROVE  flight'[k].row \in RowsOf(NotifierOf(k))' /\ deliveries'[flight'[k].row].status = "pending" /\ Alone(k)'
      <3>1. Holds(k) /\ flight'[k] = flight[k]
        BY <1>1, <2>1, <2>2 DEF SameTraffic
      <3>2. Alone(k) /\ flight[k].row \in RowsOf(NotifierOf(k)) /\ deliveries[flight[k].row].status = "pending"
        BY <3>1 DEF RowsHeld, PendingIsUnderWay, Holds
      <3>. QED
        BY <1>1, <1>5, <3>1, <3>2 DEF RowsOf
    <2>3. PendingIsUnderWay'
      BY <1>1, <1>5, <2>2 DEF PendingIsUnderWay, Holds, RowsHeld
    <2>. QED
      BY <1>1, <2>2, <2>3 DEF RowsHeld
  <1>10. Retrying'
    <2> SUFFICES ASSUME NEW m \in NotifierIds PROVE LastAttempt(m)'
      BY DEF Retrying
    <2>1. CASE m # n
      <3>1. notifier'[m] = notifier[m] /\ late'[m] = late[m] /\ flight'[m] = flight[m]
        BY <1>1, <1>2, <1>4, <2>1 DEF CountTypes, SameTraffic
      <3>. QED
        BY <3>1 DEF Retrying, LastAttempt, Exists
    <2>2. CASE m = n
      <3>1. late'[n] = 0 /\ notifier'[n].gen # 0
        BY <1>2, <1>3, <1>4 DEF CountTypes
      <3>. QED
        BY <2>2, <3>1 DEF LastAttempt, Exists
    <2>. QED
      BY <2>1, <2>2
  <1>. QED
    BY <1>5, <1>6, <1>7, <1>8, <1>9, <1>10

LEMMA Switches ==
  ASSUME DeliveryIInv, NEW n \in NotifierIds, NEW enabled \in BOOLEAN, SetEnabled(n, enabled)
  PROVE  DeliveryIInv'
  <1> USE DEF DeliveryIInv, DeliveryTypes
  <1>1. /\ UNCHANGED <<deliveries, registered, boot, late, sharing>> /\ SameTraffic /\ requests' \in Nat
        /\ notifier' = [notifier EXCEPT ![n].enabled = enabled]
    BY DEF SetEnabled, dispatcherVars, historyVars, SameTraffic, CountTypes
  <1>2. /\ notifier' \in [NotifierIds -> [gen : 0 .. MaxRegistrations, enabled : BOOLEAN]]
        /\ \A m \in NotifierIds : notifier'[m].gen = notifier[m].gen
    BY <1>1 DEF TableTypes
  <1>3. registered' \in Nat /\ registered' >= registered
    BY <1>1, Ids DEF TableTypes
  <1>4. /\ QueueTypes' /\ LaneTypes' /\ SenderTypes' /\ Known' /\ Slots' /\ InLine'
        /\ \A l \in Lanes : HasRow(l)' = HasRow(l) /\ NotifierOf(l)' = NotifierOf(l) /\ (Alone(l) => Alone(l)')
        /\ RowsUnderWay' = RowsUnderWay
    BY <1>1, <1>3, TrafficIsSame
  <1>5. TableTypes' /\ CountTypes'
    BY <1>1, <1>2 DEF TableTypes, CountTypes, SameTraffic
  <1>6. Logged'
    BY <1>1, <1>2, <1>3, LoggedKept
  <1>7. RowsHeld'
    <2>1. ASSUME NEW k \in Lanes \ sharing, Holds(k)'
          PROVE  flight'[k].row \in RowsOf(NotifierOf(k))' /\ deliveries'[flight'[k].row].status = "pending" /\ Alone(k)'
      <3>1. HasRow(k) /\ flight'[k] = flight[k]
        BY <1>1, <1>4, <2>1 DEF SameTraffic, Holds
      <3>2. NotifierOf(k) \in NotifierIds
        BY <3>1, LaneIs DEF HasRow, NotifierOf, Flights
      <3>3. Holds(k)
        BY <1>2, <1>4, <2>1, <3>1, <3>2 DEF Holds
      <3>4. Alone(k) /\ flight[k].row \in RowsOf(NotifierOf(k)) /\ deliveries[flight[k].row].status = "pending"
        BY <3>3 DEF RowsHeld, PendingIsUnderWay, Holds
      <3>. QED
        BY <1>1, <1>4, <3>1, <3>4 DEF RowsOf
    <2>2. PendingIsUnderWay'
      BY <1>1, <1>4, <2>1 DEF PendingIsUnderWay, Holds, RowsHeld
    <2>. QED
      BY <1>1, <2>1, <2>2 DEF RowsHeld
  <1>8. Retrying'
    BY <1>1, <1>2 DEF Retrying, LastAttempt, Exists, SameTraffic
  <1>. QED
    BY <1>4, <1>5, <1>6, <1>7, <1>8

LEMMA Removes ==
  ASSUME DeliveryIInv, NEW n \in NotifierIds, RemoveNotifier(n)
  PROVE  DeliveryIInv'
  <1> USE DEF DeliveryIInv, DeliveryTypes
  <1>1. /\ UNCHANGED <<registered, boot, late, sharing>> /\ SameTraffic /\ requests' \in Nat /\ Exists(n)
        /\ notifier' = [notifier EXCEPT ![n] = Gone] /\ deliveries' = RowsLeft(DOMAIN deliveries \ RowsOf(n))
    BY DEF RemoveNotifier, dispatcherVars, historyVars, SameTraffic, CountTypes
  <1>2. notifier'[n] = Gone /\ \A m \in NotifierIds \ {n} : notifier'[m] = notifier[m]
    BY <1>1 DEF TableTypes
  <1>3. registered' \in Nat /\ registered' >= registered
    BY <1>1, Ids DEF TableTypes
  <1>4. /\ QueueTypes' /\ LaneTypes' /\ SenderTypes' /\ Known' /\ Slots' /\ InLine'
        /\ \A l \in Lanes : HasRow(l)' = HasRow(l) /\ NotifierOf(l)' = NotifierOf(l) /\ (Alone(l) => Alone(l)')
        /\ RowsUnderWay' = RowsUnderWay
    BY <1>1, <1>3, TrafficIsSame
  <1>5. TableTypes' /\ DOMAIN deliveries' = DOMAIN deliveries \ RowsOf(n) /\ \A e \in DOMAIN deliveries' : deliveries'[e] = deliveries[e]
    <2>1. notifier' \in [NotifierIds -> [gen : 0 .. MaxRegistrations, enabled : BOOLEAN]]
      BY <1>1, Ids DEF TableTypes, Gone
    <2>2. \A m \in NotifierIds : notifier'[m].gen <= registered
      BY <1>2, Ids DEF TableTypes, Gone
    <2>. QED
      BY <1>1, <2>1, <2>2, RowsKept
  <1>6. CountTypes'
    BY <1>1 DEF CountTypes, SameTraffic
  <1>7. Logged'
    <2>1. \A m \in NotifierIds : notifier'[m].gen = notifier[m].gen \/ notifier'[m].gen \notin 1 .. registered
      BY <1>2 DEF Gone
    <2>. QED
      BY <1>1, <1>3, <2>1, LoggedKept
  <1>8. RowsHeld'
    <2>1. ASSUME NEW k \in Lanes \ sharing, Holds(k)'
          PROVE  flight'[k].row \in RowsOf(NotifierOf(k))' /\ deliveries'[flight'[k].row].status = "pending" /\ Alone(k)'
      <3>1. HasRow(k) /\ flight'[k] = flight[k] /\ notifier'[NotifierOf(k)].gen = flight[k].item.gen
        BY <1>1, <1>4, <2>1 DEF SameTraffic, Holds
      <3>2. flight[k] \in Flights
        BY <3>1, LaneIs DEF HasRow
      <3>3. NotifierOf(k) \in NotifierIds /\ flight[k].item.gen # 0
        BY <3>2, Ids DEF Flights, Items, NotifierOf
      <3>4. NotifierOf(k) # n
        BY <1>2, <3>1, <3>3 DEF Gone
      <3>5. Holds(k)
        BY <1>2, <3>1, <3>3, <3>4 DEF Holds
      <3>6. Alone(k) /\ flight[k].row \in RowsOf(NotifierOf(k)) /\ deliveries[flight[k].row].status = "pending"
        BY <3>5 DEF RowsHeld, PendingIsUnderWay, Holds
      <3>7. flight[k].row \in DOMAIN deliveries'
        BY <1>5, <3>4, <3>6 DEF RowsOf
      <3>. QED
        BY <1>4, <1>5, <3>1, <3>6, <3>7 DEF RowsOf
    <2>2. PendingIsUnderWay'
      BY <1>1, <1>4, <1>5, <2>1 DEF PendingIsUnderWay, Holds, RowsHeld
    <2>. QED
      BY <1>1, <2>1, <2>2 DEF RowsHeld
  <1>9. Retrying'
    <2> SUFFICES ASSUME NEW m \in NotifierIds PROVE LastAttempt(m)'
      BY DEF Retrying
    <2>1. late'[m] = late[m] /\ flight'[m] = flight[m] /\ LastAttempt(m)
      BY <1>1 DEF Retrying, SameTraffic
    <2>2. CASE m # n
      BY <1>2, <2>1, <2>2 DEF LastAttempt, Exists
    <2>3. CASE m = n
      BY <1>1, <1>2, <2>1, <2>3 DEF LastAttempt, Exists, Gone
    <2>. QED
      BY <2>2, <2>3
  <1>. QED
    BY <1>4, <1>5, <1>6, <1>7, <1>8, <1>9

LEMMA Tests ==
  ASSUME DeliveryIInv, NEW n \in NotifierIds, TestNotifier(n)
  PROVE  DeliveryIInv'
  <1> USE DEF DeliveryIInv, DeliveryTypes
  <1>1. /\ UNCHANGED <<notifier, deliveries, toSend, ahead, busy, sending, pumps, sender, emitted, registered, boot, promised, recorded, late, sharing>>
        /\ flight[TestLane] = Landed /\ Exists(n) /\ requests' = requests + 1
        /\ Fly(TestLane, TakeOff(n, Item(notifier[n].gen, <<AnOperator, 0>>, FALSE)))
    BY DEF TestNotifier, dispatcherVars, historyVars
  <1>2. Item(notifier[n].gen, <<AnOperator, 0>>, FALSE) \in Items /\ KnownItem(Item(notifier[n].gen, <<AnOperator, 0>>, FALSE))
    <2>1. <<AnOperator, 0>> \in EmittedEvents
      BY Ids DEF EmittedEvents
    <2>2. notifier[n].gen \in 1 .. MaxRegistrations /\ notifier[n].gen <= registered
      BY <1>1, Ids DEF TableTypes, Exists
    <2>. QED
      BY <2>1, <2>2 DEF Item, Items, KnownItem
  <1>3. PICK what : what = TakeOff(n, Item(notifier[n].gen, <<AnOperator, 0>>, FALSE))
    OBVIOUS
  <1>4. what \in Flights /\ what # Landed /\ what.at = "insert" /\ KnownItem(what.item)
    BY <1>2, <1>3, TakeOffIs
  <1>5. flight'[TestLane] = what /\ \A k \in NotifierIds : flight'[k] = flight[k]
    BY <1>1, <1>3, Ids DEF Fly, LaneTypes
  <1>6. TableTypes' /\ QueueTypes' /\ SenderTypes' /\ CountTypes'
    BY <1>1, TableStays, QueuesStay, SendersStay DEF CountTypes
  <1>7. LaneTypes'
    BY <1>1, <1>3, <1>4, <1>5, Ids DEF LaneTypes, Fly, Landed
  <1>8. Flying' = Flying /\ \A m \in NotifierIds : Airborne(m)' = Airborne(m) /\ Queued(m)' = Queued(m) /\ HeldFor(m)' = HeldFor(m)
    <2>1. Flying' = Flying
      BY <1>5 DEF Flying, Landed
    <2>. QED
      BY <1>1, <1>5, <2>1 DEF Airborne, Queued, HeldFor
  <1>9. Known'
    <2>1. \A l \in Lanes : flight'[l] # Landed => KnownItem(flight'[l].item)
      BY <1>4, <1>5, Ids DEF Known
    <2>. QED
      BY <1>1, <1>8, <2>1 DEF Known, KnownItem, Landed
  <1>10. Slots'
    BY <1>1, <1>8 DEF Slots, OneAtATime, SlotsAreUsed, Lined, Quiet
  <1>11. InLine'
    BY <1>1, <1>8, InLineStays
  <1>12. Logged'
    <2>1. \A m \in NotifierIds : Started(m)'
      BY <1>1, <1>5 DEF Logged, Started, Key
    <2>. QED
      BY <1>1, <1>8, <2>1, LoggedGoesOn DEF Under
  <1>13. RowsHeld'
    <2>1. \A k \in Lanes : HasRow(k)' = HasRow(k) /\ (HasRow(k) => flight'[k].row = flight[k].row
                            /\ flight'[k].item = flight[k].item /\ flight'[k].notifier = flight[k].notifier)
      <3>1. ~HasRow(TestLane) /\ ~HasRow(TestLane)'
        BY <1>1, <1>4, <1>5 DEF HasRow, Landed
      <3>. QED
        BY <1>5, <3>1, Ids DEF HasRow
    <2>2. \A t \in Senders : Dropping(t)' <=> Dropping(t)
      BY <1>1 DEF Dropping
    <2>. QED
      BY <1>1, <2>1, <2>2, RowsGoOn
  <1>14. Retrying'
    BY <1>1, <1>5 DEF Retrying, LastAttempt, Exists
  <1>. QED
    BY <1>6, <1>7, <1>9, <1>10, <1>11, <1>12, <1>13, <1>14

LEMMA Dies ==
  ASSUME DeliveryIInv, ServerDies
  PROVE  DeliveryIInv'
  <1> USE DEF DeliveryIInv, DeliveryTypes
  <1>1. /\ UNCHANGED <<notifier, deliveries, emitted, registered, recorded, late>> /\ requests' \in Nat /\ boot' = boot + 1
        /\ toSend' = [n \in NotifierIds |-> <<>>] /\ ahead' = [n \in NotifierIds |-> {}]
        /\ busy' = {} /\ sending' = 0 /\ flight' = [l \in Lanes |-> Landed] /\ pumps' = 0
        /\ sender' = [s \in Senders |-> Quiet] /\ promised' = {} /\ sharing' = {}
    BY DEF ServerDies, CountTypes
  <1>2. TableTypes'
    <2>1. \A d \in DOMAIN deliveries : deliveries[d].boot \in Nat
      BY DEF TableTypes, LogRows
    <2>. QED
      BY <1>1, <2>1 DEF TableTypes
  <1>3. QueueTypes' /\ LaneTypes' /\ CountTypes'
    BY <1>1, Ids DEF QueueTypes, LaneTypes, CountTypes, Landed
  <1>4. SenderTypes'
    BY <1>1 DEF SenderTypes, Errands, Quiet
  <1>5. Flying' = {} /\ \A n \in NotifierIds : Airborne(n)' = {} /\ Queued(n)' = {}
    BY <1>1, Ids DEF Flying, Airborne, Queued, Landed
  <1>6. \A s \in Senders : sender'[s].todo = {} /\ sender'[s].pushed = {} /\ ~Dropping(s)'
    BY <1>1 DEF Quiet, Dropping
  <1>7. \A l \in Lanes : flight'[l] = Landed /\ ~HasRow(l)' /\ flight'[l].at = "idle"
    BY <1>1 DEF HasRow, Landed
  <1>8. Known'
    BY <1>5, <1>6, <1>7 DEF Known, Landed
  <1>9. Slots'
    <2>1. OneAtATime'
      BY <1>1, <1>5, Ids, FS_EmptySet DEF OneAtATime
    <2>2. SlotsAreUsed' /\ Lined'
      BY <1>1 DEF SlotsAreUsed, Lined
    <2>. QED
      BY <2>1, <2>2 DEF Slots
  <1>10. InLine'
    BY <1>1, <1>5, <1>6 DEF InLine, OrderIsKept
  <1>11. Logged'
    BY <1>1, <1>7, Ids DEF Logged, NothingVanishes, Started
  <1>12. RowsHeld'
    <2>1. \A d \in DOMAIN deliveries : deliveries[d].boot # boot'
      <3> SUFFICES ASSUME NEW d \in DOMAIN deliveries PROVE deliveries[d].boot # boot + 1
        BY <1>1
      <3>1. deliveries[d].boot \in Nat /\ deliveries[d].boot <= boot /\ boot \in Nat
        BY DEF TableTypes, LogRows
      <3>. QED
        BY <3>1
    <2>. QED
      BY <1>1, <1>7, <2>1 DEF RowsHeld, PendingIsUnderWay, Holds
  <1>13. Retrying'
    BY <1>1, <1>7, Ids DEF Retrying, LastAttempt, Exists
  <1>. QED
    BY <1>2, <1>3, <1>4, <1>8, <1>9, <1>10, <1>11, <1>12, <1>13
--------------------------------------------------------------------------------
(* Every step keeps it. *)
LEMMA DeliverySteps == DeliveryIInv /\ [DeliveryNext]_deliveryVars => DeliveryIInv'
  <1> SUFFICES ASSUME DeliveryIInv, [DeliveryNext]_deliveryVars PROVE DeliveryIInv'
    OBVIOUS
  <1>1. CASE UNCHANGED deliveryVars
    <2>1. UNCHANGED <<notifier, deliveries, registered, boot, late, sharing, requests>> /\ SameTraffic
      BY <1>1 DEF deliveryVars, dispatcherVars, historyVars, SameTraffic
    <2>2. SameAir
      BY <2>1 DEF SameAir, Landed, SameTraffic
    <2>3. TableTypes' /\ CountTypes' /\ Retrying'
      BY <2>1, TableStays, CountsStay, RetriesStay DEF DeliveryIInv, DeliveryTypes, SameTraffic
    <2>4. registered' \in Nat /\ registered' >= registered
      BY <2>1, Ids DEF DeliveryIInv, DeliveryTypes, TableTypes
    <2>5. /\ QueueTypes' /\ LaneTypes' /\ SenderTypes' /\ Known' /\ Slots' /\ InLine'
      BY <2>1, <2>4, TrafficIsSame
    <2>6. Logged'
      BY <2>1, <2>4, LoggedKept
    <2>7. \A t \in Senders : Dropping(t)' <=> Dropping(t)
      BY <2>1 DEF Dropping, SameTraffic
    <2>8. RowsHeld'
      BY <2>1, <2>7, RowsStay DEF DeliveryIInv, SameTraffic
    <2>. QED
      BY <2>3, <2>5, <2>6, <2>8 DEF DeliveryIInv, DeliveryTypes
  <1>2. CASE RegisterNotifier \/ ServerDies \/ PumpAfter
    BY <1>2, Registers, Dies, PumpsAfter
  <1>3. CASE \E s \in Emitters : Emit(s)
    BY <1>3, Emits
  <1>4. CASE \E s \in Senders : SenderStep(s)
    BY <1>4, Enqueues, Drops, DropsEnd, SendersPump DEF SenderStep
  <1>5. CASE \E l \in Lanes : Deliver(l)
    BY <1>5, DeliveriesStart, Attempts, BacksOff, Finishes, Prunes, Ends DEF Deliver
  <1>6. CASE \E n \in Managed : Redeliver(n) \/ RemoveNotifier(n) \/ TestNotifier(n) \/ \E enabled \in BOOLEAN : SetEnabled(n, enabled)
    <2>1. Managed \subseteq NotifierIds
      BY DeliveryAssumption
    <2>. QED
      BY <1>6, <2>1, Redelivers, Removes, Tests, Switches
  <1>. QED
    BY <1>1, <1>2, <1>3, <1>4, <1>5, <1>6 DEF DeliveryNext

LEMMA DeliveryHolds == DeliverySpec => []DeliveryIInv
  <1>1. DeliveryInit => DeliveryIInv
    BY DeliveryStarts
  <1>2. DeliveryIInv /\ [DeliveryNext]_deliveryVars => DeliveryIInv'
    BY DeliverySteps
  <1>. QED
    BY <1>1, <1>2, PTL DEF DeliverySpec

(* Every variable of the dispatcher, of its senders and of its log has its type (notify.go,        *)
(* webhooks.go).                                                                                    *)
THEOREM DeliveryTypeCorrect == DeliverySpec => []DeliveryTypeOK
  <1>1. DeliveryIInv => DeliveryTypeOK
    <2> SUFFICES ASSUME DeliveryIInv PROVE DeliveryTypeOK
      OBVIOUS
    <2> USE DEF DeliveryIInv, DeliveryTypes
    <2>1. \A n \in NotifierIds : \A i \in DOMAIN toSend[n] : toSend[n][i] \in Items
      BY QueueIs DEF Queued
    <2>2. sending \in Nat
      <3>1. Flying \in SUBSET NotifierIds
        BY DEF Flying
      <3>. QED
        BY <3>1, IdsFinite DEF Slots, OneAtATime
    <2>3. busy \subseteq NotifierIds
      BY DEF Slots, OneAtATime, Flying
    <2>. QED
      BY <2>1, <2>2, <2>3 DEF DeliveryTypeOK, TableTypes, QueueTypes, LaneTypes, CountTypes, LogRows
  <1>. QED
    BY <1>1, DeliveryHolds, PTL

(* For any number of notifiers, emitters, events, retries and crashes: the slots that are counted  *)
(* are the deliveries that run, a freed slot is used, no event an enabled notifier was to get      *)
(* vanishes without a row, one emitter's events are not overtaken, a pending row is under way and  *)
(* a removed endpoint gets one more attempt at most (notify.go, webhooks.go).                       *)
THEOREM DeliveriesAreSafe == DeliverySpec => []DeliverySafety
  <1>1. DeliveryIInv => DeliverySafety
    BY DEF DeliveryIInv, Slots, InLine, Logged, RowsHeld, Retrying, LastAttempt, RetriesStop, DeliverySafety
  <1>. QED
    BY <1>1, DeliveryHolds, PTL

--------------------------------------------------------------------------------
(* A config reads back: what ParseConfig makes of a form it makes of what it kept.                *)

Parts == {"provider", "mode", "clientId", "patterns", "issuer", "authorize", "token", "userInfo", "emails", "groups", "scopes", "rule"}
\* What the table can say of a provider.
PresetSays(p) ==
    /\ p.mode \in {"", "oidc", "oauth2"} /\ p.site \notin {"own", "GITHUB", "GITLAB"} /\ p.site \notin Insecure
    /\ p.emails \in {"", "github", "bitbucket"} /\ p.groups \in {"", "github", "gitlab"}

LEMMA PresetFacts ==
  ASSUME NEW provider
  PROVE  PresetSays(PresetFor(provider))
  <1>1. PresetSays(NoPreset)
    BY DEF PresetSays, NoPreset, Preset, Insecure
  <1>2. ASSUME NEW p \in DOMAIN Presets
        PROVE  PresetSays(Presets[p])
    <2>1. ASSUME NEW emails \in {"", "github", "bitbucket"}, NEW groups \in {"", "github", "gitlab"}, NEW sufficient, NEW scopes,
                 NEW site, site \notin {"own", "GITHUB", "GITLAB"}, site \notin Insecure
          PROVE  PresetSays(OAuth2(site, emails, groups, sufficient, scopes))
      <3> DEFINE x == OAuth2(site, emails, groups, sufficient, scopes)
      <3>1. x.mode = "oauth2" /\ x.site = site /\ x.emails = emails /\ x.groups = groups
        BY DEF OAuth2, Preset
      <3> HIDE DEF x
      <3>2. PresetSays(x)
        BY <2>1, <3>1 DEF PresetSays
      <3> QED
        BY <3>2 DEF x
    <2>2. ASSUME NEW site, site \notin {"own", "GITHUB", "GITLAB"}, site \notin Insecure
          PROVE  PresetSays(Oidc(site))
      <3> DEFINE x == Oidc(site)
      <3>1. x.mode = "oidc" /\ x.site = site /\ x.emails = "" /\ x.groups = ""
        BY DEF Oidc, Preset
      <3> HIDE DEF x
      <3>2. PresetSays(x)
        BY <2>2, <3>1 DEF PresetSays
      <3> QED
        BY <3>2 DEF x
    <2>3. /\ Presets.github = OAuth2("github", "github", "github", {"read:org", "user", "write:org", "admin:org"}, {"read:user", "user:email"})
          /\ Presets.gitlab = OAuth2("gitlab", "", "gitlab", {"read_api", "api"}, {"read_user"})
          /\ Presets.bitbucket = OAuth2("bitbucket", "bitbucket", "", {}, {"account", "email"})
          /\ Presets.google = Oidc("google") /\ Presets.microsoft = Oidc("<tenant>") /\ Presets.okta = Oidc("<domain>")
          /\ Presets.auth0 = Oidc("<tenant>") /\ Presets.keycloak = Oidc("<realm>")
      BY DEF Presets
    <2>4. p \in {"github", "gitlab", "bitbucket", "google", "microsoft", "okta", "auth0", "keycloak"}
      BY <1>2 DEF Presets
    <2>5. PresetSays(Presets.github) /\ PresetSays(Presets.gitlab) /\ PresetSays(Presets.bitbucket)
      <3>1. \A site \in {"github", "gitlab", "bitbucket", ""} : site \notin {"own", "GITHUB", "GITLAB"} /\ site \notin Insecure
        BY DEF Insecure
      <3>2. PresetSays(Presets.github)
        <4>1. PresetSays(OAuth2("github", "github", "github", {"read:org", "user", "write:org", "admin:org"}, {"read:user", "user:email"}))
          BY <2>1, <3>1
        <4> QED
          BY <2>3, <4>1
      <3>3. PresetSays(Presets.gitlab)
        <4>1. PresetSays(OAuth2("gitlab", "", "gitlab", {"read_api", "api"}, {"read_user"}))
          BY <2>1, <3>1
        <4> QED
          BY <2>3, <4>1
      <3>4. PresetSays(Presets.bitbucket)
        <4>1. PresetSays(OAuth2("bitbucket", "bitbucket", "", {}, {"account", "email"}))
          BY <2>1, <3>1
        <4> QED
          BY <2>3, <4>1
      <3> QED
        BY <3>2, <3>3, <3>4
    <2>6. /\ PresetSays(Presets.google) /\ PresetSays(Presets.microsoft) /\ PresetSays(Presets.okta)
          /\ PresetSays(Presets.auth0) /\ PresetSays(Presets.keycloak)
      BY <2>2, <2>3 DEF Insecure
    <2> QED
      BY <2>4, <2>5, <2>6
  <1> QED
    BY <1>1, <1>2 DEF PresetFor

\* Neither "no provider" nor "custom" has a preset.
LEMMA NoSuchPreset == PresetFor("") = NoPreset /\ PresetFor("custom") = NoPreset
  <1>1. DOMAIN Presets = {"github", "gitlab", "bitbucket", "google", "microsoft", "okta", "auth0", "keycloak"}
    BY DEF Presets
  <1> QED
    BY <1>1 DEF PresetFor

LEMMA Spellings ==
  DOMAIN Respelled = {"GITHUB", "GITLAB"} /\ Respelled["GITHUB"] = "github" /\ Respelled["GITLAB"] = "gitlab"
  BY DEF Respelled
LEMMA SpelledOnce ==
  ASSUME NEW url
  PROVE  Normal(Normal(url)) = Normal(url)
  BY Spellings DEF Normal
LEMMA SpellingIsSafe ==
  ASSUME NEW url, url \notin Insecure
  PROVE  Normal(url) \notin Insecure
  BY Spellings DEF Normal, Insecure
LEMMA SpellingOfOwn ==
  ASSUME NEW url
  PROVE  Normal(url) = "own" <=> url = "own"
  BY Spellings DEF Normal
LEMMA SpellingOfNone ==
  ASSUME NEW url
  PROVE  Normal(url) = "" <=> url = ""
  BY Spellings DEF Normal

\* What each field of a config becomes.
Part(form, part) ==
    LET preset == PresetFor(form.provider)
        oidc == ModeOf(form) = "oidc"
    IN  CASE part = "mode" -> ModeOf(form)
          [] part = "provider" -> IF oidc THEN IF preset = NoPreset THEN "" ELSE form.provider ELSE Typed(form.provider, "custom")
          [] part = "issuer" -> IF oidc THEN Normal(Url(form, "issuer")) ELSE ""
          [] part \in {"authorize", "token", "userInfo"} -> IF oidc THEN "" ELSE Normal(Url(form, part))
          [] part = "emails" -> IF oidc THEN "" ELSE Normal(Inherited(form, "emails", preset.emails))
          [] part = "groups" -> IF oidc THEN "" ELSE Normal(Inherited(form, "groups", preset.groups))
          [] part = "scopes" -> Scoped(Scoped(form.scopes, preset.scopes), IF oidc THEN {"openid", "profile", "email"} ELSE {})
          [] OTHER -> form[part]

LEMMA ParseParts ==
  ASSUME NEW form, DOMAIN form = Parts
  PROVE  DOMAIN ParseConfig(form) = Parts /\ \A part \in Parts : ParseConfig(form)[part] = Part(form, part)
  <1> DEFINE preset == PresetFor(form.provider)
             oidc == ModeOf(form) = "oidc"
             only(value, other) == IF oidc THEN value ELSE other
             v1 == ModeOf(form)
             v2 == only(IF preset = NoPreset THEN "" ELSE form.provider, Typed(form.provider, "custom"))
             v3 == only(Normal(Url(form, "issuer")), "")
             v4 == only("", Normal(Url(form, "authorize")))
             v5 == only("", Normal(Url(form, "token")))
             v6 == only("", Normal(Url(form, "userInfo")))
             v7 == only("", Normal(Inherited(form, "emails", preset.emails)))
             v8 == only("", Normal(Inherited(form, "groups", preset.groups)))
             v9 == Scoped(Scoped(form.scopes, preset.scopes), only({"openid", "profile", "email"}, {}))
  <1>1. /\ v1 = Part(form, "mode") /\ v2 = Part(form, "provider") /\ v3 = Part(form, "issuer")
        /\ v4 = Part(form, "authorize") /\ v5 = Part(form, "token") /\ v6 = Part(form, "userInfo")
        /\ v7 = Part(form, "emails") /\ v8 = Part(form, "groups") /\ v9 = Part(form, "scopes")
        /\ \A part \in {"clientId", "patterns", "rule"} : form[part] = Part(form, part)
    BY DEF Part
  <1>2. ParseConfig(form) = [form EXCEPT !.mode = v1, !.provider = v2, !.issuer = v3, !.authorize = v4, !.token = v5,
                                         !.userInfo = v6, !.emails = v7, !.groups = v8, !.scopes = v9]
    BY DEF ParseConfig
  <1> HIDE DEF v1, v2, v3, v4, v5, v6, v7, v8, v9
  <1> DEFINE cfg == [form EXCEPT !.mode = v1, !.provider = v2, !.issuer = v3, !.authorize = v4, !.token = v5,
                                 !.userInfo = v6, !.emails = v7, !.groups = v8, !.scopes = v9]
  <1>3. /\ DOMAIN cfg = Parts /\ cfg.mode = v1 /\ cfg.provider = v2 /\ cfg.issuer = v3 /\ cfg.authorize = v4 /\ cfg.token = v5
        /\ cfg.userInfo = v6 /\ cfg.emails = v7 /\ cfg.groups = v8 /\ cfg.scopes = v9
        /\ cfg.clientId = form.clientId /\ cfg.patterns = form.patterns /\ cfg.rule = form.rule
    BY DEF Parts
  <1> HIDE DEF cfg
  <1>4. ASSUME NEW part \in Parts
        PROVE  cfg[part] = Part(form, part)
    BY <1>1, <1>3 DEF Parts
  <1> QED
    BY <1>2, <1>3, <1>4 DEF cfg

LEMMA PartsOf ==
  ASSUME NEW form, DOMAIN form = Parts
  PROVE  LET cfg == ParseConfig(form)
             preset == PresetFor(form.provider)
         IN  /\ DOMAIN cfg = Parts
             /\ cfg.mode = ModeOf(form) /\ cfg.clientId = form.clientId /\ cfg.patterns = form.patterns /\ cfg.rule = form.rule
             /\ cfg.mode = "oidc" =>
                  /\ cfg.provider = IF preset = NoPreset THEN "" ELSE form.provider
                  /\ cfg.issuer = Normal(Url(form, "issuer")) /\ cfg.authorize = "" /\ cfg.token = "" /\ cfg.userInfo = ""
                  /\ cfg.emails = "" /\ cfg.groups = ""
                  /\ cfg.scopes = Scoped(Scoped(form.scopes, preset.scopes), {"openid", "profile", "email"})
             /\ cfg.mode # "oidc" =>
                  /\ cfg.provider = Typed(form.provider, "custom") /\ cfg.issuer = ""
                  /\ cfg.authorize = Normal(Url(form, "authorize")) /\ cfg.token = Normal(Url(form, "token"))
                  /\ cfg.userInfo = Normal(Url(form, "userInfo"))
                  /\ cfg.emails = Normal(Inherited(form, "emails", preset.emails))
                  /\ cfg.groups = Normal(Inherited(form, "groups", preset.groups))
                  /\ cfg.scopes = Scoped(Scoped(form.scopes, preset.scopes), {})
  <1> DEFINE cfg == ParseConfig(form)
  <1>1. DOMAIN cfg = Parts /\ \A part \in Parts : cfg[part] = Part(form, part)
    BY ParseParts
  <1> HIDE DEF cfg
  <1>2. /\ cfg.mode = Part(form, "mode") /\ cfg.provider = Part(form, "provider") /\ cfg.issuer = Part(form, "issuer")
        /\ cfg.authorize = Part(form, "authorize") /\ cfg.token = Part(form, "token") /\ cfg.userInfo = Part(form, "userInfo")
        /\ cfg.emails = Part(form, "emails") /\ cfg.groups = Part(form, "groups") /\ cfg.scopes = Part(form, "scopes")
        /\ cfg.clientId = Part(form, "clientId") /\ cfg.patterns = Part(form, "patterns") /\ cfg.rule = Part(form, "rule")
    BY <1>1 DEF Parts
  <1>3. cfg.mode = ModeOf(form) /\ cfg.clientId = form.clientId /\ cfg.patterns = form.patterns /\ cfg.rule = form.rule
    BY <1>2 DEF Part
  <1>4. CASE ModeOf(form) = "oidc"
    BY <1>1, <1>2, <1>3, <1>4 DEF Part, cfg
  <1>5. CASE ModeOf(form) # "oidc"
    BY <1>1, <1>2, <1>3, <1>5 DEF Part, cfg
  <1> QED
    BY <1>4, <1>5

\* What was accepted is accepted again and says what it said, but for endpoints it said nothing of.
LEMMA Rereads ==
  ASSUME NEW form, DOMAIN form = Parts, AcceptedForm(form)
  PROVE  LET cfg == ParseConfig(form)
             read == ParseConfig(cfg)
         IN  AcceptedForm(cfg) /\ \A part \in DOMAIN cfg : read[part] = cfg[part] \/ (part \in {"emails", "groups"} /\ cfg[part] = "")
  <1> DEFINE cfg == ParseConfig(form)
             preset == PresetFor(form.provider)
             read == ParseConfig(cfg)
             again == PresetFor(cfg.provider)
  <1>1. /\ form.provider \in {"", "custom"} \cup DOMAIN Presets
        /\ cfg.mode \in {"oidc", "oauth2"} /\ (preset = NoPreset \/ cfg.mode = preset.mode)
        /\ form.clientId /\ form.patterns # "malformed"
        /\ {cfg.issuer, cfg.authorize, cfg.token, cfg.userInfo, cfg.emails, cfg.groups} \cap Insecure = {}
        /\ cfg.mode = "oidc" => cfg.issuer \notin {""} \cup Placeholders /\ ~form.rule
        /\ cfg.mode # "oidc" => cfg.authorize # "" /\ cfg.token # ""
        /\ cfg.mode # "oidc" /\ form.rule =>
              preset.groups # "" /\ cfg.groups # "" /\ (preset.sufficient # {} => cfg.scopes \cap preset.sufficient # {})
    BY DEF AcceptedForm, RuleIsAnswered
  <1>2. DOMAIN cfg = Parts /\ cfg.clientId = form.clientId /\ cfg.patterns = form.patterns /\ cfg.rule = form.rule
    BY PartsOf
  <1>3. cfg.mode = "oidc" =>
          /\ cfg.provider = IF preset = NoPreset THEN "" ELSE form.provider
          /\ cfg.issuer = Normal(Url(form, "issuer")) /\ cfg.authorize = "" /\ cfg.token = "" /\ cfg.userInfo = ""
          /\ cfg.emails = "" /\ cfg.groups = ""
          /\ cfg.scopes = Scoped(Scoped(form.scopes, preset.scopes), {"openid", "profile", "email"})
    BY PartsOf
  <1>4. cfg.mode # "oidc" =>
          /\ cfg.provider = Typed(form.provider, "custom") /\ cfg.issuer = ""
          /\ cfg.authorize = Normal(Url(form, "authorize")) /\ cfg.token = Normal(Url(form, "token"))
          /\ cfg.userInfo = Normal(Url(form, "userInfo"))
          /\ cfg.emails = Normal(Inherited(form, "emails", preset.emails))
          /\ cfg.groups = Normal(Inherited(form, "groups", preset.groups))
          /\ cfg.scopes = Scoped(Scoped(form.scopes, preset.scopes), {})
    BY PartsOf
  <1> HIDE DEF cfg
  <1>5. /\ DOMAIN read = Parts /\ read.mode = ModeOf(cfg)
        /\ read.clientId = cfg.clientId /\ read.patterns = cfg.patterns /\ read.rule = cfg.rule
    BY <1>2, PartsOf
  <1>6. read.mode = "oidc" =>
          /\ read.provider = IF again = NoPreset THEN "" ELSE cfg.provider
          /\ read.issuer = Normal(Url(cfg, "issuer")) /\ read.authorize = "" /\ read.token = "" /\ read.userInfo = ""
          /\ read.emails = "" /\ read.groups = ""
          /\ read.scopes = Scoped(Scoped(cfg.scopes, again.scopes), {"openid", "profile", "email"})
    BY <1>2, PartsOf
  <1>7. read.mode # "oidc" =>
          /\ read.provider = Typed(cfg.provider, "custom") /\ read.issuer = ""
          /\ read.authorize = Normal(Url(cfg, "authorize")) /\ read.token = Normal(Url(cfg, "token"))
          /\ read.userInfo = Normal(Url(cfg, "userInfo"))
          /\ read.emails = Normal(Inherited(cfg, "emails", again.emails))
          /\ read.groups = Normal(Inherited(cfg, "groups", again.groups))
          /\ read.scopes = Scoped(Scoped(cfg.scopes, again.scopes), {})
    BY <1>2, PartsOf
  <1>8. AcceptedForm(cfg) <=>
          /\ cfg.provider \in {"", "custom"} \cup DOMAIN Presets
          /\ read.mode \in {"oidc", "oauth2"} /\ (again = NoPreset \/ read.mode = again.mode)
          /\ cfg.clientId /\ cfg.patterns # "malformed"
          /\ {read.issuer, read.authorize, read.token, read.userInfo, read.emails, read.groups} \cap Insecure = {}
          /\ IF read.mode = "oidc" THEN read.issuer \notin {""} \cup Placeholders /\ ~cfg.rule
             ELSE /\ read.authorize # "" /\ read.token # ""
                  /\ cfg.rule => again.groups # "" /\ read.groups # "" /\ (again.sufficient # {} => read.scopes \cap again.sufficient # {})
    BY DEF AcceptedForm, RuleIsAnswered
  <1> HIDE DEF preset, read, again
  <1>9. again = preset /\ cfg.provider \in {"", "custom"} \cup DOMAIN Presets
    BY <1>1, <1>3, <1>4, NoSuchPreset DEF Typed, preset, again
  <1>10. read.mode = cfg.mode
    BY <1>1, <1>5 DEF ModeOf, Typed
  <1>11. PresetSays(preset)
    BY PresetFacts DEF preset
  <1>12. CASE cfg.mode = "oidc"
    <2>1. read.issuer = cfg.issuer
      <3>1. Url(cfg, "issuer") = cfg.issuer
        BY <1>1, <1>12 DEF Url, Typed
      <3>2. cfg.issuer = Normal(Url(form, "issuer")) /\ read.issuer = Normal(cfg.issuer)
        BY <1>3, <1>6, <1>10, <1>12, <3>1
      <3> QED
        BY <3>2, SpelledOnce
    <2>2. read.provider = cfg.provider
      BY <1>3, <1>6, <1>9, <1>10, <1>12
    <2>3. cfg.scopes # {} /\ read.scopes = cfg.scopes
      <3>1. cfg.scopes = Scoped(Scoped(form.scopes, preset.scopes), {"openid", "profile", "email"})
        BY <1>3, <1>12
      <3>2. read.scopes = Scoped(Scoped(cfg.scopes, again.scopes), {"openid", "profile", "email"})
        BY <1>6, <1>10, <1>12
      <3>3. {"openid", "profile", "email"} # {}
        OBVIOUS
      <3>4. \A typed, otherwise : otherwise # {} => Scoped(typed, otherwise) # {}
        BY DEF Scoped
      <3>5. \A typed, otherwise : typed # {} => Scoped(typed, otherwise) = typed
        BY DEF Scoped
      <3>6. cfg.scopes # {}
        BY <3>1, <3>3, <3>4
      <3> QED
        BY <3>2, <3>5, <3>6
    <2>4. \A part \in Parts : read[part] = cfg[part]
      <3>1. /\ read.authorize = cfg.authorize /\ read.token = cfg.token /\ read.userInfo = cfg.userInfo
            /\ read.emails = cfg.emails /\ read.groups = cfg.groups
        BY <1>3, <1>6, <1>10, <1>12
      <3> QED
        BY <1>5, <1>10, <2>1, <2>2, <2>3, <3>1 DEF Parts
    <2>5. AcceptedForm(cfg)
      BY <1>1, <1>2, <1>3, <1>6, <1>8, <1>9, <1>10, <1>12, <2>1
    <2> QED
      BY <1>2, <2>4, <2>5 DEF cfg, read
  <1>13. CASE cfg.mode # "oidc"
    <2>1. read.authorize = cfg.authorize /\ read.token = cfg.token
      <3>1. Url(cfg, "authorize") = cfg.authorize /\ Url(cfg, "token") = cfg.token
        BY <1>1, <1>13 DEF Url, Typed
      <3>2. cfg.authorize = Normal(Url(form, "authorize")) /\ read.authorize = Normal(cfg.authorize)
        BY <1>4, <1>7, <1>10, <1>13, <3>1
      <3>3. cfg.token = Normal(Url(form, "token")) /\ read.token = Normal(cfg.token)
        BY <1>4, <1>7, <1>10, <1>13, <3>1
      <3>4. read.authorize = cfg.authorize
        BY <3>2, SpelledOnce
      <3>5. read.token = cfg.token
        BY <3>3, SpelledOnce
      <3> QED
        BY <3>4, <3>5
    <2>2. Url(cfg, "userInfo") = cfg.userInfo /\ read.userInfo = cfg.userInfo
      <3>1. CASE cfg.userInfo # ""
        <4>1. Url(cfg, "userInfo") = cfg.userInfo
          BY <3>1 DEF Url, Typed
        <4>2. cfg.userInfo = Normal(Url(form, "userInfo")) /\ read.userInfo = Normal(cfg.userInfo)
          BY <1>4, <1>7, <1>10, <1>13, <4>1
        <4>3. read.userInfo = cfg.userInfo
          BY <4>2, SpelledOnce
        <4> QED
          BY <4>1, <4>3
      <3>2. CASE cfg.userInfo = ""
        <4>1. Url(form, "userInfo") = ""
          <5>1. Normal(Url(form, "userInfo")) = ""
            BY <1>4, <1>13, <3>2
          <5> QED
            BY <5>1, SpellingOfNone
        <4>2. preset.site = ""
          BY <4>1 DEF Url, Typed, preset
        <4>3. Url(cfg, "userInfo") = ""
          BY <1>9, <3>2, <4>2 DEF Url, Typed, again
        <4> QED
          BY <1>7, <1>10, <1>13, <3>2, <4>3, SpellingOfNone
      <3> QED
        BY <3>1, <3>2
    <2>3. /\ cfg.emails # "" => read.emails = cfg.emails
          /\ cfg.groups # "" => read.groups = cfg.groups
      <3>1. /\ cfg.emails # "" => Inherited(cfg, "emails", again.emails) = cfg.emails
            /\ cfg.groups # "" => Inherited(cfg, "groups", again.groups) = cfg.groups
        BY DEF Inherited, Typed
      <3>2. Normal(cfg.emails) = cfg.emails
        <4>1. cfg.emails = Normal(Inherited(form, "emails", preset.emails))
          BY <1>4, <1>13
        <4> QED
          BY <4>1, SpelledOnce
      <3>3. Normal(cfg.groups) = cfg.groups
        <4>1. cfg.groups = Normal(Inherited(form, "groups", preset.groups))
          BY <1>4, <1>13
        <4> QED
          BY <4>1, SpelledOnce
      <3> QED
        BY <1>7, <1>10, <1>13, <3>1, <3>2, <3>3
    <2>4. read.emails \notin Insecure /\ read.groups \notin Insecure
      <3>1. \A url \in {"", "github", "gitlab", "bitbucket"} : url \notin Insecure
        BY DEF Insecure
      <3>2. ASSUME cfg.emails = ""
            PROVE  Inherited(cfg, "emails", again.emails) \in {"", "github", "gitlab", "bitbucket"}
        BY <1>9, <1>11, <3>2 DEF Inherited, Typed, PresetSays
      <3>3. ASSUME cfg.groups = ""
            PROVE  Inherited(cfg, "groups", again.groups) \in {"", "github", "gitlab", "bitbucket"}
        BY <1>9, <1>11, <3>3 DEF Inherited, Typed, PresetSays
      <3>4. cfg.emails \notin Insecure /\ cfg.groups \notin Insecure
        BY <1>1
      <3>5. ASSUME cfg.emails = ""
            PROVE  read.emails \notin Insecure
        <4>1. read.emails = Normal(Inherited(cfg, "emails", again.emails))
          BY <1>7, <1>10, <1>13
        <4>2. Inherited(cfg, "emails", again.emails) \notin Insecure
          BY <3>1, <3>2, <3>5
        <4> QED
          BY <4>1, <4>2, SpellingIsSafe
      <3>6. ASSUME cfg.groups = ""
            PROVE  read.groups \notin Insecure
        <4>1. read.groups = Normal(Inherited(cfg, "groups", again.groups))
          BY <1>7, <1>10, <1>13
        <4>2. Inherited(cfg, "groups", again.groups) \notin Insecure
          BY <3>1, <3>3, <3>6
        <4> QED
          BY <4>1, <4>2, SpellingIsSafe
      <3> QED
        BY <2>3, <3>4, <3>5, <3>6
    <2>5. read.provider = cfg.provider
      BY <1>4, <1>7, <1>10, <1>13 DEF Typed
    <2>6. read.scopes = cfg.scopes
      BY <1>4, <1>7, <1>9, <1>10, <1>13 DEF Scoped
    <2>7. read.issuer = "" /\ cfg.issuer = ""
      BY <1>4, <1>7, <1>10, <1>13
    <2>8. \A part \in Parts : read[part] = cfg[part] \/ (part \in {"emails", "groups"} /\ cfg[part] = "")
      BY <1>5, <1>10, <2>1, <2>2, <2>3, <2>5, <2>6, <2>7 DEF Parts
    <2>9. AcceptedForm(cfg)
      <3>1. {read.issuer, read.authorize, read.token, read.userInfo, read.emails, read.groups} \cap Insecure = {}
        BY <1>1, <2>1, <2>2, <2>4, <2>7
      <3>2. read.authorize # "" /\ read.token # ""
        BY <1>1, <1>13, <2>1
      <3>3. cfg.rule => again.groups # "" /\ read.groups # "" /\ (again.sufficient # {} => read.scopes \cap again.sufficient # {})
        BY <1>1, <1>2, <1>9, <1>13, <2>3, <2>6
      <3> QED
        BY <1>1, <1>2, <1>8, <1>9, <1>10, <1>13, <3>1, <3>2, <3>3
    <2> QED
      BY <1>2, <2>8, <2>9 DEF cfg, read
  <1> QED
    BY <1>12, <1>13

\* Operators that move a provider to a site of their own and type nothing that says otherwise.
HomeForms == \A form \in Forms : form.userInfo = "own" => {form.emails, form.groups} \subseteq {"", "own"}
LEMMA StaysHome ==
  ASSUME HomeForms, NEW form \in Forms, DOMAIN form = Parts, ParseConfig(form).userInfo = "own"
  PROVE  ParseConfig(form).emails \in {"", "own"} /\ ParseConfig(form).groups \in {"", "own"}
  <1> DEFINE cfg == ParseConfig(form)
             preset == PresetFor(form.provider)
  <1>1. cfg.mode = "oidc" => cfg.userInfo = ""
    BY PartsOf
  <1>2. cfg.mode # "oidc" => /\ cfg.userInfo = Normal(Url(form, "userInfo"))
                             /\ cfg.emails = Normal(Inherited(form, "emails", preset.emails))
                             /\ cfg.groups = Normal(Inherited(form, "groups", preset.groups))
    BY PartsOf
  <1>3. Normal(Url(form, "userInfo")) = "own"
    BY <1>1, <1>2
  <1>4. Url(form, "userInfo") = "own"
    BY <1>3, SpellingOfOwn
  <1>5. preset.site # "own"
    BY PresetFacts DEF PresetSays
  <1>6. form.userInfo = "own"
    BY <1>4, <1>5 DEF Url, Typed
  <1>7. form.emails \in {"", "own"} /\ form.groups \in {"", "own"}
    BY <1>6 DEF HomeForms
  <1>8. Inherited(form, "emails", preset.emails) = form.emails /\ Inherited(form, "groups", preset.groups) = form.groups
    BY <1>4, <1>5 DEF Inherited, Typed
  <1>9. cfg.emails = Normal(form.emails) /\ cfg.groups = Normal(form.groups)
    BY <1>1, <1>2, <1>8
  <1>10. Normal("own") = "own" /\ Normal("") = ""
    BY SpellingOfOwn, SpellingOfNone
  <1> QED
    BY <1>7, <1>9, <1>10

--------------------------------------------------------------------------------
(* The caches: what is held is no older than it says, and a request no older than its timeout.    *)

KeysOf(served, age, sh, go) ==
    served \subseteq Kids /\ \A k \in Kids : (k \notin served => sh[k] <= age) /\ (k \in served => go[k] <= age)
DocOf(d, age, le) == d \in Docs /\ le[d] <= age
Served(sh, go, le, ks, d) ==
    /\ ks \subseteq Kids /\ d \in Docs
    /\ sh \in [Kids -> 0 .. Oldest] /\ go \in [Kids -> 0 .. Oldest] /\ le \in [Docs -> 0 .. Oldest]
    /\ \A k \in Kids : (k \notin ks => sh[k] = 0) /\ (k \in ks => go[k] = 0)
    /\ le[d] = 0
CachedDoc(cache, le) ==
    cache = {} \/ \E d \in Docs, age \in 0 .. Longest : cache = {[doc |-> d, age |-> age]} /\ DocOf(d, age + Timeout, le)
CachedKeys(cache, sh, go) ==
    cache = {} \/ \E served \in SUBSET Kids, age \in 0 .. Longest :
                    cache = {[keys |-> served, age |-> age]} /\ KeysOf(served, age + Timeout, sh, go)
Kept(cfg) == \E form \in Forms : AcceptedForm(form) /\ cfg = ParseConfig(form)
Keepsake(saves) == saves = {} \/ \E cfg : Kept(cfg) /\ saves = {cfg}
Carries(v) == v.token.kid = Unnamed \/ v.token.kid = v.token.signer
Asked(a, sh, go, le) ==
    /\ a.at \in {"idle", "in", "no key", "put", "forget", "delete", "doc", "docs", "exchange", "verify", "keys", "jwks"}
    /\ a.at \in {"put", "doc", "docs"} => Keepsake(a.saves)
    /\ a.at \in {"doc", "docs", "keys", "jwks"} => a.wait \in 0 .. Timeout
    /\ a.at = "doc" => a = [at |-> "doc", wait |-> a.wait, saves |-> a.saves]
    /\ a.at = "docs" => a = [at |-> "docs", wait |-> a.wait, saves |-> a.saves, doc |-> a.doc] /\ DocOf(a.doc, a.wait, le)
    /\ a.at = "verify" => Carries(a)
    /\ a.at \in {"keys", "jwks"} => Carries(a.verify) /\ a.verify.at = "verify"
    /\ a.at = "keys" => a = [at |-> "keys", wait |-> a.wait, verify |-> a.verify]
    /\ a.at = "jwks" => a = [at |-> "jwks", wait |-> a.wait, verify |-> a.verify, keys |-> a.keys] /\ KeysOf(a.keys, a.wait, sh, go)
SsoIInv ==
    /\ Served(shown, gone, left, keys, doc) /\ idpMoved \in 0 .. MaxIdpMoves /\ Keepsake(stored)
    /\ CachedDoc(discovery, left) /\ CachedKeys(jwks, shown, gone)
    /\ asking = [c \in SsoCallers |-> asking[c]] /\ \A c \in SsoCallers : Asked(asking[c], shown, gone, left)

LEMMA SsoConstants ==
  /\ CacheTime \in Nat \ {0} /\ Cooldown \in Nat \ {0} /\ Timeout \in Nat /\ MaxIdpMoves \in Nat
  /\ Longest \in Nat /\ CacheTime <= Longest /\ Cooldown <= Longest /\ Oldest \in Nat /\ Oldest = Longest + Timeout
  /\ \A form \in Forms : DOMAIN form = Parts
  <1>1. \A form \in FormFields : DOMAIN form = Parts
    BY DEF FormFields, Parts
  <1> QED
    BY <1>1, SsoAssumption DEF Longest, Oldest

LEMMA SsoNumbers == CacheTime \in Nat /\ CacheTime > 0 /\ Cooldown \in Nat /\ Cooldown > 0 /\ Timeout \in Nat
  BY SsoConstants

LEMMA YoungEnough ==
  ASSUME NEW age \in 0 .. Longest, age < CacheTime
  PROVE  /\ age + Timeout \in Nat /\ age + Timeout < CacheTime + Timeout
         /\ age < Cooldown => age + Timeout < Cooldown + Timeout
  BY SsoNumbers
LEMMA SoonEnough ==
  ASSUME NEW age \in 0 .. Timeout
  PROVE  age \in Nat /\ age < CacheTime + Timeout /\ age < Cooldown + Timeout
  BY SsoNumbers
LEMMA InTime ==
  ASSUME NEW n \in Nat, NEW age \in Nat, n <= age
  PROVE  (age < CacheTime + Timeout => n < CacheTime + Timeout) /\ (age < Cooldown + Timeout => n < Cooldown + Timeout)
  BY SsoNumbers

LEMMA SsoStarts == SsoInit => SsoIInv
  <1> SUFFICES ASSUME SsoInit
               PROVE  SsoIInv
    OBVIOUS
  <1>1. Served(shown, gone, left, keys, doc)
    <2>1. PICK k \in Kids : keys = {k}
      BY DEF SsoInit
    <2>2. \A n \in {0, Oldest} : n \in 0 .. Oldest
      BY SsoConstants
    <2> HIDE DEF Oldest
    <2> QED
      BY <2>1, <2>2 DEF SsoInit, Served
  <1>2. \A c \in SsoCallers : Asked(asking[c], shown, gone, left)
    BY DEF SsoInit, SsoIdle, Asked
  <1> QED
    BY <1>1, <1>2, SsoConstants DEF SsoInit, SsoIInv, Keepsake, CachedDoc, CachedKeys

\* The provider may only make what is held look younger: it brings back, and leaves just now.
NoOlder(sh, go, le, sh2, go2, le2) ==
    /\ sh \in [Kids -> Nat] /\ go \in [Kids -> Nat] /\ le \in [Docs -> Nat]
    /\ sh2 \in [Kids -> Nat] /\ go2 \in [Kids -> Nat] /\ le2 \in [Docs -> Nat]
    /\ \A k \in Kids : sh2[k] <= sh[k] /\ go2[k] <= go[k]
    /\ \A d \in Docs : le2[d] <= le[d]
LEMMA Younger ==
  ASSUME NEW sh, NEW go, NEW le, NEW sh2, NEW go2, NEW le2, NoOlder(sh, go, le, sh2, go2, le2)
  PROVE  /\ \A a : Asked(a, sh, go, le) => Asked(a, sh2, go2, le2)
         /\ \A cache : CachedDoc(cache, le) => CachedDoc(cache, le2)
         /\ \A cache : CachedKeys(cache, sh, go) => CachedKeys(cache, sh2, go2)
  <1>1. ASSUME NEW served, NEW age \in Nat, KeysOf(served, age, sh, go)
        PROVE  KeysOf(served, age, sh2, go2)
    <2>1. \A k \in Kids : /\ sh[k] \in Nat /\ sh2[k] \in Nat /\ go[k] \in Nat /\ go2[k] \in Nat
                          /\ sh2[k] <= sh[k] /\ go2[k] <= go[k]
      BY DEF NoOlder
    <2> QED
      BY <1>1, <2>1 DEF KeysOf
  <1>2. ASSUME NEW d, NEW age \in Nat, DocOf(d, age, le)
        PROVE  DocOf(d, age, le2)
    <2>1. d \in Docs /\ le[d] \in Nat /\ le2[d] \in Nat /\ le2[d] <= le[d] /\ le[d] <= age
      BY <1>2 DEF DocOf, NoOlder
    <2> QED
      BY <2>1 DEF DocOf
  <1>3. ASSUME NEW a, Asked(a, sh, go, le)
        PROVE  Asked(a, sh2, go2, le2)
    <2>1. a.at \in {"docs", "jwks"} => a.wait \in Nat
      <3>1. a.at \in {"docs", "jwks"} => a.wait \in 0 .. Timeout
        BY <1>3 DEF Asked
      <3>2. \A n \in 0 .. Timeout : n \in Nat
        BY SsoConstants
      <3> QED
        BY <3>1, <3>2
    <2>2. a.at = "docs" => DocOf(a.doc, a.wait, le2)
      BY <1>2, <1>3, <2>1 DEF Asked
    <2>3. a.at = "jwks" => KeysOf(a.keys, a.wait, sh2, go2)
      BY <1>1, <1>3, <2>1 DEF Asked
    <2> QED
      BY <1>3, <2>2, <2>3 DEF Asked
  <1>4. ASSUME NEW cache, CachedDoc(cache, le)
        PROVE  CachedDoc(cache, le2)
    <2>1. \A age \in 0 .. Longest : age + Timeout \in Nat
      BY SsoConstants
    <2> QED
      BY <1>2, <1>4, <2>1 DEF CachedDoc
  <1>5. ASSUME NEW cache, CachedKeys(cache, sh, go)
        PROVE  CachedKeys(cache, sh2, go2)
    <2>1. \A age \in 0 .. Longest : age + Timeout \in Nat
      BY SsoConstants
    <2> QED
      BY <1>1, <1>5, <2>1 DEF CachedKeys
  <1> QED
    BY <1>3, <1>4, <1>5

--------------------------------------------------------------------------------
(* The steps.                                                                                     *)

\* A request moves, the provider stays, and the host keeps what is true.
LEMMA RequestMoves ==
  ASSUME SsoIInv, NEW c \in SsoCallers, NEW a, Becomes(c, a), Asked(a, shown, gone, left), UNCHANGED Provider,
         Keepsake(stored'), CachedDoc(discovery', left), CachedKeys(jwks', shown, gone)
  PROVE  SsoIInv'
  <1>1. asking = [e \in SsoCallers |-> asking[e]] /\ \A e \in SsoCallers : Asked(asking[e], shown, gone, left)
    BY DEF SsoIInv
  <1>2. asking' = [e \in SsoCallers |-> IF e = c THEN a ELSE asking[e]]
    BY <1>1 DEF Becomes
  <1>3. \A e \in SsoCallers : Asked(asking'[e], shown, gone, left)
    BY <1>1, <1>2
  <1>4. asking' = [e \in SsoCallers |-> asking'[e]]
    BY <1>2
  <1>5. shown' = shown /\ gone' = gone /\ left' = left /\ keys' = keys /\ doc' = doc /\ idpMoved' = idpMoved
    BY DEF Provider
  <1> QED
    BY <1>3, <1>4, <1>5 DEF SsoIInv

LEMMA AtRest ==
  ASSUME NEW at \in {"idle", "in", "no key", "forget", "delete"}, NEW a, a = [at |-> at], NEW sh, NEW go, NEW le
  PROVE  Asked(a, sh, go, le)
  <1>1. a.at = at
    OBVIOUS
  <1> QED
    BY <1>1 DEF Asked

LEMMA Setting ==
  ASSUME NEW saves, Keepsake(saves), NEW at \in {"doc", "put"}, NEW sh, NEW go, NEW le
  PROVE  Asked(SsoAsk(at, saves), sh, go, le)
  <1> DEFINE a == [at |-> at, wait |-> 0, saves |-> saves]
  <1>1. a.at = at /\ a.wait = 0 /\ a.saves = saves
    OBVIOUS
  <1>2. a.at = "doc" => a = [at |-> "doc", wait |-> a.wait, saves |-> a.saves]
    BY <1>1
  <1> HIDE DEF a
  <1>3. 0 \in 0 .. Timeout
    BY SsoConstants
  <1>4. Asked(a, sh, go, le)
    BY <1>1, <1>2, <1>3 DEF Asked
  <1> QED
    BY <1>4 DEF a, SsoAsk

LEMMA Sent ==
  ASSUME NEW d, NEW sh, NEW go, NEW le
  PROVE  Asked(Endpoints(d), sh, go, le) /\ Endpoints(d).at = "exchange" /\ Endpoints(d).doc = d
  <1> DEFINE a == Endpoints(d)
  <1>1. a.at = "exchange" /\ a.doc = d
    BY DEF Endpoints
  <1> HIDE DEF a
  <1>2. Asked(a, sh, go, le)
    BY <1>1 DEF Asked
  <1> QED
    BY <1>1, <1>2 DEF a

LEMMA Checking ==
  ASSUME NEW token, token.kid = Unnamed \/ token.kid = token.signer, NEW again, NEW sh, NEW go, NEW le
  PROVE  Asked(Verifying(token, again), sh, go, le) /\ Verifying(token, again).at = "verify"
  <1> DEFINE a == Verifying(token, again)
  <1>1. a.at = "verify" /\ a.token = token
    BY DEF Verifying
  <1> HIDE DEF a
  <1>2. Carries(a)
    BY <1>1 DEF Carries
  <1>3. Asked(a, sh, go, le)
    BY <1>1, <1>2 DEF Asked
  <1> QED
    BY <1>1, <1>3 DEF a

LEMMA VerdictAsked ==
  ASSUME NEW v, Carries(v), NEW served, NEW fit \in BOOLEAN, NEW sh, NEW go, NEW le
  PROVE  Asked(TokenVerdict(v, served, fit), sh, go, le)
  <1>1. \/ TokenVerdict(v, served, fit) = Verifying(v.token, TRUE)
        \/ TokenVerdict(v, served, fit) = [at |-> "no key"]
        \/ TokenVerdict(v, served, fit) = [at |-> "in"]
        \/ TokenVerdict(v, served, fit) = [at |-> "idle"]
    BY DEF TokenVerdict, SsoIdle
  <1>2. Asked(Verifying(v.token, TRUE), sh, go, le)
    BY Checking DEF Carries
  <1>3. \A at \in {"idle", "in", "no key"} : Asked([at |-> at], sh, go, le)
    BY AtRest
  <1> QED
    BY <1>1, <1>2, <1>3

LEMMA Untouched ==
  SsoIInv => /\ Keepsake(stored) /\ CachedDoc(discovery, left) /\ CachedKeys(jwks, shown, gone)
             /\ \A c \in SsoCallers : Asked(asking[c], shown, gone, left)
             /\ Served(shown, gone, left, keys, doc)
  BY DEF SsoIInv

LEMMA Logins ==
  ASSUME SsoIInv, NEW c \in SsoCallers, Login(c)
  PROVE  SsoIInv'
  <1>1. UNCHANGED <<stored, discovery, jwks, Provider>> /\ ((\E d : Becomes(c, Endpoints(d))) \/ Becomes(c, SsoAsk("doc", {})))
    BY DEF Login
  <1>2. Asked(SsoAsk("doc", {}), shown, gone, left)
    BY Setting DEF Keepsake
  <1> QED
    BY <1>1, <1>2, Sent, RequestMoves, Untouched

LEMMA Saves ==
  ASSUME SsoIInv, NEW c \in SsoCallers, NEW form \in Forms, Save(c, form)
  PROVE  SsoIInv'
  <1>1. /\ UNCHANGED <<stored, discovery, jwks, Provider>> /\ AcceptedForm(form)
        /\ \E at \in {"doc", "put"} : Becomes(c, SsoAsk(at, {ParseConfig(form)}))
    BY DEF Save
  <1>2. Keepsake({ParseConfig(form)})
    BY <1>1 DEF Keepsake, Kept
  <1> QED
    BY <1>1, <1>2, Setting, RequestMoves, Untouched

LEMMA DocAnswers ==
  ASSUME SsoIInv, NEW c \in SsoCallers, AnswerDoc(c)
  PROVE  SsoIInv'
  <1> DEFINE a == [at |-> "docs", wait |-> asking[c].wait, saves |-> asking[c].saves, doc |-> doc]
  <1>1. asking[c].at = "doc" /\ Becomes(c, a) /\ UNCHANGED <<stored, discovery, jwks, Provider>>
    BY DEF AnswerDoc
  <1>2. a.at = "docs" /\ a.wait = asking[c].wait /\ a.saves = asking[c].saves /\ a.doc = doc
    OBVIOUS
  <1>3. a = [at |-> "docs", wait |-> a.wait, saves |-> a.saves, doc |-> a.doc]
    OBVIOUS
  <1> HIDE DEF a
  <1>4. a.wait \in 0 .. Timeout /\ Keepsake(a.saves)
    BY <1>1, <1>2, Untouched DEF Asked
  <1>5. DocOf(a.doc, a.wait, left)
    BY <1>2, <1>4, Untouched DEF DocOf, Served
  <1>6. Asked(a, shown, gone, left)
    BY <1>2, <1>3, <1>4, <1>5 DEF Asked
  <1> QED
    BY <1>1, <1>6, RequestMoves, Untouched

LEMMA DocStored ==
  ASSUME SsoIInv, NEW c \in SsoCallers, StoreDoc(c)
  PROVE  SsoIInv'
  <1>1. /\ asking[c].at = "docs" /\ discovery' = {[doc |-> asking[c].doc, age |-> 0]} /\ UNCHANGED <<stored, jwks, Provider>>
        /\ Becomes(c, Endpoints(asking[c].doc)) \/ Becomes(c, SsoAsk("put", asking[c].saves))
    BY DEF StoreDoc
  <1>2. Keepsake(asking[c].saves) /\ asking[c].wait \in 0 .. Timeout /\ DocOf(asking[c].doc, asking[c].wait, left)
    BY <1>1, Untouched DEF Asked
  <1>3. left \in [Docs -> 0 .. Oldest]
    BY Untouched DEF Served
  <1>4. DocOf(asking[c].doc, 0 + Timeout, left)
    <2>1. asking[c].doc \in Docs /\ left[asking[c].doc] \in 0 .. Oldest /\ left[asking[c].doc] <= asking[c].wait
      BY <1>2, <1>3 DEF DocOf
    <2> QED
      BY <1>2, <2>1, SsoConstants DEF DocOf
  <1>5. CachedDoc(discovery', left)
    <2>1. 0 \in 0 .. Longest /\ asking[c].doc \in Docs
      BY <1>2, SsoConstants DEF DocOf
    <2> QED
      BY <1>1, <1>4, <2>1 DEF CachedDoc
  <1>6. Asked(SsoAsk("put", asking[c].saves), shown, gone, left)
    BY <1>2, Setting
  <1> QED
    BY <1>1, <1>5, <1>6, Sent, RequestMoves, Untouched

LEMMA RowsChange ==
  ASSUME SsoIInv, NEW c \in SsoCallers, PutConfig(c) \/ ForgetCaches(c) \/ ForgetFirst(c) \/ DeleteConfig(c)
  PROVE  SsoIInv'
  <1>1. UNCHANGED Provider /\ \E at \in {"idle", "forget", "delete"} : Becomes(c, [at |-> at])
    BY DEF PutConfig, ForgetCaches, ForgetFirst, DeleteConfig, SsoIdle
  <1>2. \A at \in {"idle", "forget", "delete"} : Asked([at |-> at], shown, gone, left)
    BY AtRest
  <1>3. discovery' \in {discovery, {}} /\ jwks' \in {jwks, {}}
    BY DEF PutConfig, ForgetCaches, ForgetFirst, DeleteConfig
  <1>4. CachedDoc(discovery', left) /\ CachedKeys(jwks', shown, gone)
    BY <1>3, Untouched DEF CachedDoc, CachedKeys
  <1>5. \/ stored' \in {stored, {}}
        \/ asking[c].at = "put" /\ stored' = asking[c].saves
    BY DEF PutConfig, ForgetCaches, ForgetFirst, DeleteConfig
  <1>6. Keepsake(stored')
    BY <1>5, Untouched DEF Keepsake, Asked
  <1> QED
    BY <1>1, <1>2, <1>4, <1>6, RequestMoves

LEMMA Exchanges ==
  ASSUME SsoIInv, NEW c \in SsoCallers, Exchange(c)
  PROVE  SsoIInv'
  <1>1. PICK token \in Tokens(c) : Becomes(c, Verifying(token, FALSE))
    BY DEF Exchange
  <1>2. UNCHANGED <<stored, discovery, jwks, Provider>>
    BY DEF Exchange
  <1>3. token.kid = Unnamed \/ token.kid = token.signer
    <2>1. PICK named \in ({Unnamed} \X Kids) \cup {<<k, k>> : k \in Kids} \cup {<<Unknown, Unknown>>} :
            token = [kid |-> named[1], signer |-> named[2], ours |-> doc = asking[c].doc]
      BY DEF Tokens
    <2>2. named[1] = Unnamed \/ named[1] = named[2]
      OBVIOUS
    <2>3. token.kid = named[1] /\ token.signer = named[2]
      BY <2>1
    <2> QED
      BY <2>2, <2>3
  <1>4. Asked(Verifying(token, FALSE), shown, gone, left)
    BY <1>3, Checking
  <1> QED
    BY <1>1, <1>2, <1>4, RequestMoves, Untouched

LEMMA Fetches ==
  ASSUME SsoIInv, NEW c \in SsoCallers, FetchJwks(c)
  PROVE  SsoIInv'
  <1>1. asking[c].at = "verify" /\ UNCHANGED <<stored, discovery, jwks, Provider>> /\ Carries(asking[c])
    BY Untouched DEF FetchJwks, Asked
  <1> DEFINE a == [at |-> "keys", wait |-> 0, verify |-> asking[c]]
  <1>2. (\E hit \in jwks, fit \in BOOLEAN : Becomes(c, TokenVerdict(asking[c], hit.keys, fit))) \/ Becomes(c, a)
    BY DEF FetchJwks
  <1>3. a.at = "keys" /\ a.wait = 0 /\ a.verify = asking[c] /\ a = [at |-> "keys", wait |-> a.wait, verify |-> a.verify]
    OBVIOUS
  <1> HIDE DEF a
  <1>4. Asked(a, shown, gone, left)
    BY <1>1, <1>3, SsoConstants DEF Asked
  <1>5. CASE Becomes(c, a)
    BY <1>1, <1>4, <1>5, RequestMoves, Untouched
  <1>6. CASE \E hit \in jwks, fit \in BOOLEAN : Becomes(c, TokenVerdict(asking[c], hit.keys, fit))
    <2>1. PICK hit \in jwks, fit \in BOOLEAN : Becomes(c, TokenVerdict(asking[c], hit.keys, fit))
      BY <1>6
    <2>2. Asked(TokenVerdict(asking[c], hit.keys, fit), shown, gone, left)
      BY <1>1, VerdictAsked
    <2> QED
      BY <1>1, <2>1, <2>2, RequestMoves, Untouched
  <1> QED
    BY <1>2, <1>5, <1>6

\* An answer of the provider, of these keys, about which it is not older than it says.
LEMMA Answered ==
  ASSUME SsoIInv, NEW c \in SsoCallers, asking[c].at = "keys", NEW served, NEW sh, NEW go, NEW le,
         \A age \in 0 .. Timeout : KeysOf(served, age, sh, go)
  PROVE  Asked([at |-> "jwks", wait |-> asking[c].wait, verify |-> asking[c].verify, keys |-> served], sh, go, le)
  <1> DEFINE a == [at |-> "jwks", wait |-> asking[c].wait, verify |-> asking[c].verify, keys |-> served]
  <1>1. a.at = "jwks" /\ a.wait = asking[c].wait /\ a.verify = asking[c].verify /\ a.keys = served
    OBVIOUS
  <1>2. a = [at |-> "jwks", wait |-> a.wait, verify |-> a.verify, keys |-> a.keys]
    OBVIOUS
  <1> HIDE DEF a
  <1>3. asking[c].wait \in 0 .. Timeout /\ Carries(asking[c].verify) /\ asking[c].verify.at = "verify"
    BY Untouched DEF Asked
  <1>4. Asked(a, sh, go, le)
    BY <1>1, <1>2, <1>3 DEF Asked
  <1> QED
    BY <1>4 DEF a

LEMMA KeysAnswer ==
  ASSUME SsoIInv, NEW c \in SsoCallers, AnswerKeys(c)
  PROVE  SsoIInv'
  <1> DEFINE a == [at |-> "jwks", wait |-> asking[c].wait, verify |-> asking[c].verify, keys |-> keys]
  <1>1. asking[c].at = "keys" /\ Becomes(c, a) /\ UNCHANGED <<stored, discovery, jwks, Provider>>
    BY DEF AnswerKeys
  <1>2. \A age \in 0 .. Timeout : KeysOf(keys, age, shown, gone)
    BY Untouched DEF Served, KeysOf
  <1>3. Asked(a, shown, gone, left)
    BY <1>1, <1>2, Answered
  <1> HIDE DEF a
  <1> QED
    BY <1>1, <1>3, RequestMoves, Untouched

LEMMA KeysStored ==
  ASSUME SsoIInv, NEW c \in SsoCallers, StoreKeys(c)
  PROVE  SsoIInv'
  <1>1. asking[c].at = "jwks" /\ jwks' = {[keys |-> asking[c].keys, age |-> 0]} /\ UNCHANGED <<stored, discovery, Provider>>
    BY DEF StoreKeys
  <1>2. PICK fit \in BOOLEAN : Becomes(c, TokenVerdict(asking[c].verify, asking[c].keys, fit))
    BY DEF StoreKeys
  <1>3. Carries(asking[c].verify) /\ KeysOf(asking[c].keys, asking[c].wait, shown, gone) /\ asking[c].wait \in 0 .. Timeout
    BY <1>1, Untouched DEF Asked
  <1>4. Asked(TokenVerdict(asking[c].verify, asking[c].keys, fit), shown, gone, left)
    BY <1>3, VerdictAsked
  <1>5. KeysOf(asking[c].keys, 0 + Timeout, shown, gone)
    <2>1. shown \in [Kids -> 0 .. Oldest] /\ gone \in [Kids -> 0 .. Oldest]
      BY Untouched DEF Served
    <2>2. \A k \in Kids : shown[k] \in Nat /\ gone[k] \in Nat
      BY <2>1, SsoConstants
    <2> QED
      BY <1>3, <2>2, SsoConstants DEF KeysOf
  <1>6. CachedKeys(jwks', shown, gone)
    <2>1. 0 \in 0 .. Longest /\ asking[c].keys \in SUBSET Kids
      BY <1>5, SsoConstants DEF KeysOf
    <2> QED
      BY <1>1, <1>5, <2>1 DEF CachedKeys
  <1> QED
    BY <1>1, <1>2, <1>4, <1>6, RequestMoves, Untouched

LEMMA Failures ==
  ASSUME SsoIInv, NEW c \in SsoCallers, Fails(c)
  PROVE  SsoIInv'
  <1>1. Becomes(c, [at |-> "idle"]) /\ UNCHANGED <<stored, discovery, jwks, Provider>>
    BY DEF Fails, SsoIdle
  <1>2. Asked([at |-> "idle"], shown, gone, left)
    BY AtRest
  <1> QED
    BY <1>1, <1>2, RequestMoves, Untouched

\* What the provider does, or what becomes of an answer with no keys in it, only makes things younger.
LEMMA ProviderMoves ==
  ASSUME SsoIInv, Served(shown', gone', left', keys', doc'), idpMoved' \in 0 .. MaxIdpMoves, UNCHANGED <<stored, discovery, jwks>>,
         \A k \in Kids : shown'[k] <= shown[k] /\ gone'[k] <= gone[k], \A d \in Docs : left'[d] <= left[d]
  PROVE  /\ CachedDoc(discovery', left') /\ CachedKeys(jwks', shown', gone') /\ Keepsake(stored')
         /\ \A a : Asked(a, shown, gone, left) => Asked(a, shown', gone', left')
  <1>1. \A n \in 0 .. Oldest : n \in Nat
    BY SsoConstants
  <1> HIDE DEF Oldest
  <1>2. /\ shown \in [Kids -> Nat] /\ gone \in [Kids -> Nat] /\ left \in [Docs -> Nat]
        /\ shown' \in [Kids -> Nat] /\ gone' \in [Kids -> Nat] /\ left' \in [Docs -> Nat]
    BY <1>1, Untouched DEF Served
  <1>3. NoOlder(shown, gone, left, shown', gone', left')
    BY <1>2 DEF NoOlder
  <1>4. /\ \A a : Asked(a, shown, gone, left) => Asked(a, shown', gone', left')
        /\ \A cache : CachedDoc(cache, left) => CachedDoc(cache, left')
        /\ \A cache : CachedKeys(cache, shown, gone) => CachedKeys(cache, shown', gone')
    BY <1>3, Younger
  <1> QED
    BY <1>4, Untouched

LEMMA MovesCount == SsoIInv /\ idpMoved < MaxIdpMoves /\ idpMoved' = idpMoved + 1 => idpMoved' \in 0 .. MaxIdpMoves
  <1>1. SsoIInv => idpMoved \in 0 .. MaxIdpMoves
    BY DEF SsoIInv
  <1> QED
    BY <1>1, SsoConstants

LEMMA ClocksAre ==
  ASSUME SsoIInv
  PROVE  /\ \A k \in Kids : shown[k] \in 0 .. Oldest /\ gone[k] \in 0 .. Oldest /\ shown[k] <= shown[k] /\ gone[k] <= gone[k]
         /\ \A d \in Docs : left[d] \in 0 .. Oldest /\ left[d] <= left[d]
         /\ 0 \in 0 .. Oldest /\ \A n \in 0 .. Oldest : 0 <= n
  <1>1. shown \in [Kids -> 0 .. Oldest] /\ gone \in [Kids -> 0 .. Oldest] /\ left \in [Docs -> 0 .. Oldest]
    BY Untouched DEF Served
  <1>2. \A n \in 0 .. Oldest : n <= n /\ 0 <= n
    BY SsoConstants
  <1>3. 0 \in 0 .. Oldest
    BY SsoConstants
  <1> HIDE DEF Oldest
  <1> QED
    BY <1>1, <1>2, <1>3

LEMMA JunkAnswers ==
  ASSUME SsoIInv, NEW c \in SsoCallers, AnswerJunk(c)
  PROVE  SsoIInv'
  <1> DEFINE a == [at |-> "jwks", wait |-> asking[c].wait, verify |-> asking[c].verify, keys |-> {}]
  <1>1. /\ asking[c].at = "keys" /\ Becomes(c, a) /\ shown' = [k \in Kids |-> 0] /\ idpMoved < MaxIdpMoves /\ idpMoved' = idpMoved + 1
        /\ UNCHANGED <<stored, discovery, jwks, doc, keys, gone, left>>
    BY DEF AnswerJunk
  <1>2. Served(shown', gone', left', keys', doc')
    BY <1>1, Untouched, ClocksAre DEF Served
  <1>3. \A k \in Kids : shown'[k] <= shown[k] /\ gone'[k] <= gone[k]
    BY <1>1, ClocksAre
  <1>4. \A d \in Docs : left'[d] <= left[d]
    BY <1>1, ClocksAre
  <1>5. idpMoved' \in 0 .. MaxIdpMoves
    BY <1>1, MovesCount
  <1>6. \A age \in 0 .. Timeout : KeysOf({}, age, shown', gone')
    BY <1>1, SsoConstants DEF KeysOf
  <1>7. Asked(a, shown', gone', left')
    BY <1>1, <1>6, Answered
  <1> HIDE DEF a
  <1>8. /\ CachedDoc(discovery', left') /\ CachedKeys(jwks', shown', gone') /\ Keepsake(stored')
        /\ \A b : Asked(b, shown, gone, left) => Asked(b, shown', gone', left')
    BY <1>1, <1>2, <1>3, <1>4, <1>5, ProviderMoves
  <1>9. asking = [e \in SsoCallers |-> asking[e]] /\ \A e \in SsoCallers : Asked(asking[e], shown, gone, left)
    BY DEF SsoIInv
  <1>10. asking' = [e \in SsoCallers |-> IF e = c THEN a ELSE asking[e]]
    BY <1>1, <1>9 DEF Becomes
  <1>11. \A e \in SsoCallers : Asked(asking'[e], shown', gone', left')
    BY <1>7, <1>8, <1>9, <1>10
  <1>12. asking' = [e \in SsoCallers |-> asking'[e]]
    BY <1>10
  <1> QED
    BY <1>2, <1>5, <1>8, <1>11, <1>12 DEF SsoIInv

LEMMA IdpSteps ==
  ASSUME SsoIInv, (\E served \in SUBSET Kids : Rotate(served)) \/ (\E d \in Docs : MoveIdp(d))
  PROVE  SsoIInv'
  <1>1. idpMoved < MaxIdpMoves /\ idpMoved' = idpMoved + 1 /\ UNCHANGED <<stored, discovery, jwks, asking>>
    BY DEF Rotate, MoveIdp, IdpMoves
  <1>2. /\ Served(shown', gone', left', keys', doc')
        /\ \A k \in Kids : shown'[k] <= shown[k] /\ gone'[k] <= gone[k]
        /\ \A d \in Docs : left'[d] <= left[d]
    <2>1. CASE \E served \in SUBSET Kids : Rotate(served)
      <3>1. PICK served \in SUBSET Kids : Rotate(served)
        BY <2>1
      <3>2. /\ keys' = served /\ UNCHANGED <<doc, left>>
            /\ gone' = [k \in Kids |-> IF k \in served THEN 0 ELSE gone[k]]
            /\ shown' = [k \in Kids |-> IF k \in served THEN shown[k] ELSE 0]
        BY <3>1 DEF Rotate
      <3>3. \A k \in Kids : shown'[k] <= shown[k] /\ gone'[k] <= gone[k]
        BY <3>2, ClocksAre
      <3>4. \A d \in Docs : left'[d] <= left[d]
        BY <3>2, ClocksAre
      <3>5. shown' \in [Kids -> 0 .. Oldest] /\ gone' \in [Kids -> 0 .. Oldest]
        BY <3>2, ClocksAre
      <3>6. \A k \in Kids : (k \notin keys' => shown'[k] = 0) /\ (k \in keys' => gone'[k] = 0)
        BY <3>2
      <3>7. Served(shown', gone', left', keys', doc')
        BY <3>2, <3>5, <3>6, Untouched DEF Served
      <3> QED
        BY <3>3, <3>4, <3>7
    <2>2. CASE \E d \in Docs : MoveIdp(d)
      <3>1. PICK d \in Docs : MoveIdp(d)
        BY <2>2
      <3>2. doc' = d /\ left' = [left EXCEPT ![d] = 0] /\ UNCHANGED <<keys, shown, gone>>
        BY <3>1 DEF MoveIdp
      <3>3. left \in [Docs -> 0 .. Oldest]
        BY Untouched DEF Served
      <3>4. \A e \in Docs : left'[e] = IF e = d THEN 0 ELSE left[e]
        BY <3>2, <3>3
      <3>5. left' \in [Docs -> 0 .. Oldest] /\ left'[d] = 0
        BY <3>2, <3>3, <3>4, ClocksAre
      <3>6. \A e \in Docs : left'[e] <= left[e]
        BY <3>4, ClocksAre
      <3>7. Served(shown', gone', left', keys', doc')
        BY <3>2, <3>5, Untouched DEF Served
      <3> QED
        BY <3>2, <3>6, <3>7, ClocksAre
    <2> QED
      BY <2>1, <2>2
  <1>3. idpMoved' \in 0 .. MaxIdpMoves
    BY <1>1, MovesCount
  <1>4. /\ CachedDoc(discovery', left') /\ CachedKeys(jwks', shown', gone') /\ Keepsake(stored')
        /\ \A a : Asked(a, shown, gone, left) => Asked(a, shown', gone', left')
    BY <1>1, <1>2, <1>3, ProviderMoves
  <1>5. asking' = asking
    BY <1>1
  <1>6. asking' = [c \in SsoCallers |-> asking'[c]] /\ \A c \in SsoCallers : Asked(asking'[c], shown', gone', left')
    BY <1>4, <1>5 DEF SsoIInv
  <1> QED
    BY <1>2, <1>3, <1>4, <1>6 DEF SsoIInv

\* A tick makes everything one older, up to the age from which nothing depends on it.
LEMMA Aging ==
  ASSUME NEW most \in Nat, NEW age \in 0 .. most
  PROVE  Older(age, most) \in 0 .. most /\ Older(age, most) <= age + 1 /\ (age < most => Older(age, most) = age + 1)
         /\ (age = most => Older(age, most) = most)
  BY DEF Older

LEMMA CachesAge ==
  ASSUME NEW sh \in [Kids -> 0 .. Oldest], NEW go \in [Kids -> 0 .. Oldest], NEW le \in [Docs -> 0 .. Oldest],
         NEW sh2 \in [Kids -> 0 .. Oldest], NEW go2 \in [Kids -> 0 .. Oldest], NEW le2 \in [Docs -> 0 .. Oldest],
         \A k \in Kids : sh2[k] <= sh[k] + 1 /\ go2[k] <= go[k] + 1, \A d \in Docs : le2[d] <= le[d] + 1
  PROVE  /\ \A served : \A age \in Nat : KeysOf(served, age, sh, go) => KeysOf(served, age + 1, sh2, go2)
         /\ \A d : \A age \in Nat : DocOf(d, age, le) => DocOf(d, age + 1, le2)
         /\ \A served : served \subseteq Kids => KeysOf(served, Oldest, sh2, go2)
         /\ \A d \in Docs : DocOf(d, Oldest, le2)
  <1>1. /\ \A k \in Kids : sh[k] \in Nat /\ go[k] \in Nat /\ sh2[k] \in Nat /\ go2[k] \in Nat /\ sh2[k] <= Oldest /\ go2[k] <= Oldest
        /\ \A d \in Docs : le[d] \in Nat /\ le2[d] \in Nat /\ le2[d] <= Oldest
    <2>1. \A n \in 0 .. Oldest : n \in Nat /\ n <= Oldest
      BY SsoConstants
    <2> HIDE DEF Oldest
    <2> QED
      BY <2>1
  <1> HIDE DEF Oldest
  <1>2. ASSUME NEW served, NEW age \in Nat, KeysOf(served, age, sh, go)
        PROVE  KeysOf(served, age + 1, sh2, go2)
    <2>1. ASSUME NEW k \in Kids
          PROVE  (k \notin served => sh2[k] <= age + 1) /\ (k \in served => go2[k] <= age + 1)
      <3>1. sh[k] \in Nat /\ go[k] \in Nat /\ sh2[k] \in Nat /\ go2[k] \in Nat /\ sh2[k] <= sh[k] + 1 /\ go2[k] <= go[k] + 1
        BY <1>1
      <3>2. (k \notin served => sh[k] <= age) /\ (k \in served => go[k] <= age)
        BY <1>2 DEF KeysOf
      <3> QED
        BY <3>1, <3>2
    <2> QED
      BY <1>2, <2>1 DEF KeysOf
  <1>3. ASSUME NEW d, NEW age \in Nat, DocOf(d, age, le)
        PROVE  DocOf(d, age + 1, le2)
    <2>1. d \in Docs /\ le[d] <= age
      BY <1>3 DEF DocOf
    <2>2. le[d] \in Nat /\ le2[d] \in Nat /\ le2[d] <= le[d] + 1
      BY <1>1, <2>1
    <2> QED
      BY <2>1, <2>2 DEF DocOf
  <1> QED
    BY <1>1, <1>2, <1>3 DEF KeysOf, DocOf

LEMMA TickKeeps ==
  ASSUME SsoIInv, SsoTick
  PROVE  SsoIInv'
  <1>1. /\ shown \in [Kids -> 0 .. Oldest] /\ gone \in [Kids -> 0 .. Oldest] /\ left \in [Docs -> 0 .. Oldest]
        /\ keys \subseteq Kids /\ doc \in Docs
    BY Untouched DEF Served
  <1>2. /\ shown' = [k \in Kids |-> IF k \in keys THEN Older(shown[k], Oldest) ELSE 0]
        /\ gone' = [k \in Kids |-> IF k \in keys THEN 0 ELSE Older(gone[k], Oldest)]
        /\ left' = [d \in Docs |-> IF d = doc THEN 0 ELSE Older(left[d], Oldest)]
        /\ keys' = keys /\ doc' = doc /\ stored' = stored /\ idpMoved' = idpMoved
    BY DEF SsoTick
  <1>3. \A n \in 0 .. Oldest : Older(n, Oldest) \in 0 .. Oldest /\ Older(n, Oldest) <= n + 1 /\ 0 <= n + 1
    BY Aging, SsoConstants
  <1>4. 0 \in 0 .. Oldest /\ Oldest \in Nat
    BY SsoConstants
  <1> HIDE DEF Oldest
  <1>5. /\ shown' \in [Kids -> 0 .. Oldest] /\ gone' \in [Kids -> 0 .. Oldest] /\ left' \in [Docs -> 0 .. Oldest]
        /\ \A k \in Kids : shown'[k] <= shown[k] + 1 /\ gone'[k] <= gone[k] + 1
        /\ \A d \in Docs : left'[d] <= left[d] + 1
    BY <1>1, <1>2, <1>3, <1>4
  <1>6. Served(shown', gone', left', keys', doc')
    BY <1>1, <1>2, <1>5 DEF Served
  <1>7. /\ \A served : \A age \in Nat : KeysOf(served, age, shown, gone) => KeysOf(served, age + 1, shown', gone')
        /\ \A d : \A age \in Nat : DocOf(d, age, left) => DocOf(d, age + 1, left')
        /\ \A served : served \subseteq Kids => KeysOf(served, Oldest, shown', gone')
        /\ \A d \in Docs : DocOf(d, Oldest, left')
    BY <1>1, <1>5, CachesAge
  <1>8. \A age \in 0 .. Longest : /\ Older(age, Longest) \in 0 .. Longest /\ age + Timeout \in Nat
                                  /\ Older(age, Longest) + Timeout = (age + Timeout) + 1 \/ Older(age, Longest) + Timeout = Oldest
    <2>1. ASSUME NEW age \in 0 .. Longest
          PROVE  /\ Older(age, Longest) \in 0 .. Longest /\ age + Timeout \in Nat
                 /\ Older(age, Longest) + Timeout = (age + Timeout) + 1 \/ Older(age, Longest) + Timeout = Oldest
      <3>1. Older(age, Longest) \in 0 .. Longest /\ (age < Longest => Older(age, Longest) = age + 1) /\ (age = Longest => Older(age, Longest) = Longest)
        BY Aging, SsoConstants
      <3>2. age < Longest \/ age = Longest
        BY SsoConstants
      <3> QED
        BY <3>1, <3>2, SsoConstants
    <2> QED
      BY <2>1
  <1>9. CachedDoc(discovery', left')
    <2>1. discovery' = {[hit EXCEPT !.age = Older(@, Longest)] : hit \in discovery}
      BY DEF SsoTick
    <2>2. CASE discovery = {}
      BY <2>1, <2>2 DEF CachedDoc
    <2>3. CASE discovery # {}
      <3>1. PICK d \in Docs, age \in 0 .. Longest : discovery = {[doc |-> d, age |-> age]} /\ DocOf(d, age + Timeout, left)
        BY <2>3, Untouched DEF CachedDoc
      <3>2. discovery' = {[doc |-> d, age |-> Older(age, Longest)]}
        BY <2>1, <3>1
      <3>3. DocOf(d, Older(age, Longest) + Timeout, left')
        BY <1>7, <1>8, <3>1
      <3> QED
        BY <1>8, <3>1, <3>2, <3>3 DEF CachedDoc
    <2> QED
      BY <2>2, <2>3
  <1>10. CachedKeys(jwks', shown', gone')
    <2>1. jwks' = {[hit EXCEPT !.age = Older(@, Longest)] : hit \in jwks}
      BY DEF SsoTick
    <2>2. CASE jwks = {}
      BY <2>1, <2>2 DEF CachedKeys
    <2>3. CASE jwks # {}
      <3>1. PICK served \in SUBSET Kids, age \in 0 .. Longest : jwks = {[keys |-> served, age |-> age]} /\ KeysOf(served, age + Timeout, shown, gone)
        BY <2>3, Untouched DEF CachedKeys
      <3>2. jwks' = {[keys |-> served, age |-> Older(age, Longest)]}
        BY <2>1, <3>1
      <3>3. KeysOf(served, Older(age, Longest) + Timeout, shown', gone')
        BY <1>7, <1>8, <3>1
      <3> QED
        BY <1>8, <3>1, <3>2, <3>3 DEF CachedKeys
    <2> QED
      BY <2>2, <2>3
  <1>11. ASSUME NEW c \in SsoCallers
         PROVE  Asked(asking'[c], shown', gone', left')
    <2>1. Asked(asking[c], shown, gone, left)
      BY Untouched
    <2>2. CASE asking[c].at \notin {"doc", "docs", "keys", "jwks"}
      <3>1. asking'[c] = asking[c]
        BY <2>2 DEF SsoTick
      <3> QED
        BY <2>1, <2>2, <3>1 DEF Asked
    <2>3. CASE asking[c].at \in {"doc", "docs", "keys", "jwks"}
      <3> DEFINE w == asking[c].wait + 1
      <3>1. asking[c].wait < Timeout /\ asking'[c] = [asking[c] EXCEPT !.wait = w]
        BY <2>3 DEF SsoTick
      <3>2. asking[c].wait \in 0 .. Timeout
        BY <2>1, <2>3 DEF Asked
      <3>3. w \in 0 .. Timeout /\ asking[c].wait \in Nat
        BY <3>1, <3>2, SsoConstants
      <3> HIDE DEF w
      <3>4. CASE asking[c].at = "doc"
        <4>1. asking'[c] = [at |-> "doc", wait |-> w, saves |-> asking[c].saves] /\ Keepsake(asking[c].saves)
          BY <2>1, <3>1, <3>4 DEF Asked
        <4> HIDE DEF w
        <4> QED
          BY <3>3, <4>1 DEF Asked
      <3>5. CASE asking[c].at = "docs"
        <4>1. asking'[c] = [at |-> "docs", wait |-> w, saves |-> asking[c].saves, doc |-> asking[c].doc] /\ Keepsake(asking[c].saves)
          BY <2>1, <3>1, <3>5 DEF Asked
        <4>2. DocOf(asking[c].doc, asking[c].wait, left)
          BY <2>1, <3>5 DEF Asked
        <4>3. DocOf(asking[c].doc, w, left')
          BY <1>7, <3>3, <4>2 DEF w
        <4> QED
          BY <3>3, <4>1, <4>3 DEF Asked
      <3>6. CASE asking[c].at = "keys"
        <4>1. asking'[c] = [at |-> "keys", wait |-> w, verify |-> asking[c].verify] /\ Carries(asking[c].verify) /\ asking[c].verify.at = "verify"
          BY <2>1, <3>1, <3>6 DEF Asked
        <4> QED
          BY <3>3, <4>1 DEF Asked
      <3>7. CASE asking[c].at = "jwks"
        <4>1. /\ asking'[c] = [at |-> "jwks", wait |-> w, verify |-> asking[c].verify, keys |-> asking[c].keys]
              /\ Carries(asking[c].verify) /\ asking[c].verify.at = "verify"
          BY <2>1, <3>1, <3>7 DEF Asked
        <4>2. KeysOf(asking[c].keys, asking[c].wait, shown, gone)
          BY <2>1, <3>7 DEF Asked
        <4>3. KeysOf(asking[c].keys, w, shown', gone')
          BY <1>7, <3>3, <4>2 DEF w
        <4> QED
          BY <3>3, <4>1, <4>3 DEF Asked
      <3> QED
        BY <2>3, <3>4, <3>5, <3>6, <3>7
    <2> QED
      BY <2>2, <2>3
  <1>12. asking' = [c \in SsoCallers |-> asking'[c]]
    BY DEF SsoTick
  <1> QED
    BY <1>2, <1>6, <1>9, <1>10, <1>11, <1>12 DEF SsoIInv

LEMMA SsoSteps == SsoIInv /\ [SsoNext]_ssoVars => SsoIInv'
  <1> SUFFICES ASSUME SsoIInv, [SsoNext]_ssoVars
               PROVE  SsoIInv'
    OBVIOUS
  <1>1. CASE UNCHANGED ssoVars
    BY <1>1 DEF ssoVars, SsoIInv
  <1>2. CASE SsoNext
    BY <1>2, Logins, Saves, DocAnswers, DocStored, RowsChange, Exchanges, Fetches, KeysAnswer, JunkAnswers, KeysStored, Failures,
       IdpSteps, TickKeeps DEF SsoNext
  <1> QED
    BY <1>1, <1>2

LEMMA SsoInvariant == SsoSpec => []SsoIInv
  BY SsoStarts, SsoSteps, PTL DEF SsoSpec

--------------------------------------------------------------------------------
(* What a host may rely on.                                                                       *)

LEMMA SingleOf ==
  ASSUME NEW S, S = {} \/ \E x : S = {x}
  PROVE  Cardinality(S) <= 1
  <1>1. CASE S = {}
    BY <1>1, FS_EmptySet
  <1>2. CASE \E x : S = {x}
    <2>1. PICK x : S = {x}
      BY <1>2
    <2>2. Cardinality({x}) = 1
      BY FS_Singleton
    <2> QED
      BY <2>1, <2>2
  <1> QED
    BY <1>1, <1>2

(* The types of the config, of the two caches and of the ages, for any forms, keys and requests.  *)
THEOREM SsoTypeCorrect == SsoSpec => []SsoTypeOK
  <1>1. SsoIInv => SsoTypeOK
    <2> SUFFICES ASSUME SsoIInv
                 PROVE  SsoTypeOK
      OBVIOUS
    <2>1. Cardinality(stored) <= 1
      BY Untouched, SingleOf DEF Keepsake
    <2>2. Cardinality(discovery) <= 1 /\ \A hit \in discovery : hit.doc \in Docs /\ hit.age \in 0 .. Longest
      <3>1. discovery = {} \/ \E d \in Docs, age \in 0 .. Longest : discovery = {[doc |-> d, age |-> age]}
        BY Untouched DEF CachedDoc
      <3>2. Cardinality(discovery) <= 1
        BY <3>1, SingleOf
      <3> QED
        BY <3>1, <3>2
    <2>3. Cardinality(jwks) <= 1 /\ \A hit \in jwks : hit.keys \subseteq Kids /\ hit.age \in 0 .. Longest
      <3>1. jwks = {} \/ \E served \in SUBSET Kids, age \in 0 .. Longest : jwks = {[keys |-> served, age |-> age]}
        BY Untouched DEF CachedKeys
      <3>2. Cardinality(jwks) <= 1
        BY <3>1, SingleOf
      <3> QED
        BY <3>1, <3>2
    <2>4. keys \subseteq Kids /\ doc \in Docs /\ idpMoved \in 0 .. MaxIdpMoves
      BY DEF SsoIInv, Served
    <2> QED
      BY <2>1, <2>2, <2>3, <2>4, ClocksAre DEF SsoTypeOK
  <1> QED
    BY <1>1, SsoInvariant, PTL

\* A request changes where it is by a step of its own.
Acts(c) ==
    \/ Login(c) \/ AnswerDoc(c) \/ StoreDoc(c) \/ PutConfig(c) \/ ForgetCaches(c) \/ ForgetFirst(c) \/ DeleteConfig(c)
    \/ Exchange(c) \/ FetchJwks(c) \/ AnswerKeys(c) \/ AnswerJunk(c) \/ StoreKeys(c) \/ Fails(c)
    \/ \E form \in Forms : Save(c, form)
LEMMA OwnSteps ==
  ASSUME SsoIInv, SsoNext, NEW c \in SsoCallers, asking'[c].at # asking[c].at
  PROVE  Acts(c)
  <1>1. asking = [e \in SsoCallers |-> asking[e]] /\ Asked(asking[c], shown, gone, left)
    BY DEF SsoIInv
  <1>2. ~((\E served \in SUBSET Kids : Rotate(served)) \/ (\E d \in Docs : MoveIdp(d)))
    <2>1. asking' # asking
      OBVIOUS
    <2> QED
      BY <2>1 DEF Rotate, MoveIdp, IdpMoves
  <1>3. ~SsoTick
    <2>1. CASE asking[c].at \notin {"doc", "docs", "keys", "jwks"}
      BY <2>1 DEF SsoTick
    <2>2. CASE asking[c].at \in {"doc", "docs", "keys", "jwks"}
      <3>1. [asking[c] EXCEPT !.wait = asking[c].wait + 1].at = asking[c].at
        <4> DEFINE w == asking[c].wait + 1
        <4> HIDE DEF w
        <4>1. [asking[c] EXCEPT !.wait = w].at = asking[c].at
          BY <1>1, <2>2 DEF Asked
        <4> QED
          BY <4>1 DEF w
      <3> QED
        BY <2>2, <3>1 DEF SsoTick
    <2> QED
      BY <2>1, <2>2
  <1>4. PICK e \in SsoCallers : Acts(e)
    BY <1>2, <1>3 DEF SsoNext, Acts
  <1>5. \E a : Becomes(e, a)
    BY <1>4 DEF Acts, Login, AnswerDoc, StoreDoc, PutConfig, ForgetCaches, ForgetFirst, DeleteConfig, Exchange, FetchJwks, AnswerKeys,
                AnswerJunk, StoreKeys, Fails, Save
  <1>6. e = c
    BY <1>1, <1>5 DEF Becomes
  <1> QED
    BY <1>4, <1>6

LEMMA NowAt ==
  ASSUME SsoIInv, NEW c \in SsoCallers, NEW a, Becomes(c, a)
  PROVE  asking'[c] = a
  <1>1. asking = [e \in SsoCallers |-> asking[e]]
    BY DEF SsoIInv
  <1> QED
    BY <1>1 DEF Becomes

\* A request that is judged is judged by keys of the provider, fresh enough for what it asks.
LEMMA JudgedByKeys ==
  ASSUME SsoIInv, SsoNext, NEW c \in SsoCallers, asking[c].at \in {"verify", "jwks"}, asking'[c].at \in {"in", "no key"}
  PROVE  /\ Carries(OnBehalf(c))
         /\ \E served : \E age \in Nat, fit \in BOOLEAN :
               /\ KeysOf(served, age, shown, gone) /\ age < CacheTime + Timeout /\ (OnBehalf(c).again => age < Cooldown + Timeout)
               /\ asking'[c] = TokenVerdict(OnBehalf(c), served, fit)
  <1>1. Acts(c)
    BY OwnSteps
  <1>2. FetchJwks(c) \/ StoreKeys(c)
    <2>1. ASSUME Fails(c)
          PROVE  FALSE
      <3>1. asking'[c] = [at |-> "idle"]
        BY <2>1, NowAt DEF Fails, SsoIdle
      <3> QED
        BY <3>1
    <2> QED
      BY <1>1, <2>1 DEF Acts, Login, AnswerDoc, StoreDoc, PutConfig, ForgetCaches, ForgetFirst, DeleteConfig, Exchange, AnswerKeys,
                        AnswerJunk, Save, Ready, Verdicts
  <1>3. Asked(asking[c], shown, gone, left)
    BY DEF SsoIInv
  <1>4. CASE FetchJwks(c)
    <2>1. asking[c].at = "verify" /\ OnBehalf(c) = asking[c] /\ Carries(asking[c])
      BY <1>3, <1>4 DEF FetchJwks, OnBehalf, Asked
    <2>2. ASSUME Becomes(c, [at |-> "keys", wait |-> 0, verify |-> asking[c]])
          PROVE  FALSE
      <3>1. asking'[c] = [at |-> "keys", wait |-> 0, verify |-> asking[c]]
        BY <2>2, NowAt
      <3> QED
        BY <3>1
    <2>3. PICK fresh \in jwks : MayUse(fresh, asking[c].again)
      BY <1>4, <2>2 DEF FetchJwks
    <2>4. PICK hit \in jwks, fit \in BOOLEAN : Becomes(c, TokenVerdict(asking[c], hit.keys, fit))
      BY <1>4, <2>2 DEF FetchJwks
    <2>5. PICK served \in SUBSET Kids, age \in 0 .. Longest : jwks = {[keys |-> served, age |-> age]} /\ KeysOf(served, age + Timeout, shown, gone)
      BY <2>3, Untouched DEF CachedKeys
    <2>6. hit.keys = served /\ fresh.age = age
      <3>1. hit = [keys |-> served, age |-> age] /\ fresh = [keys |-> served, age |-> age]
        BY <2>5
      <3> QED
        BY <3>1
    <2>7. age < CacheTime /\ (asking[c].again => age < Cooldown)
      BY <2>3, <2>6 DEF MayUse
    <2>8. age + Timeout \in Nat /\ age + Timeout < CacheTime + Timeout /\ (asking[c].again => age + Timeout < Cooldown + Timeout)
      BY <2>7, YoungEnough
    <2>9. asking'[c] = TokenVerdict(asking[c], served, fit)
      BY <2>4, <2>6, NowAt
    <2> QED
      BY <2>1, <2>5, <2>8, <2>9
  <1>5. CASE StoreKeys(c)
    <2>1. asking[c].at = "jwks" /\ OnBehalf(c) = asking[c].verify
      BY <1>5 DEF StoreKeys, OnBehalf
    <2>2. Carries(asking[c].verify) /\ KeysOf(asking[c].keys, asking[c].wait, shown, gone) /\ asking[c].wait \in 0 .. Timeout
      BY <1>3, <2>1 DEF Asked
    <2>3. PICK fit \in BOOLEAN : Becomes(c, TokenVerdict(asking[c].verify, asking[c].keys, fit))
      BY <1>5 DEF StoreKeys
    <2>4. asking'[c] = TokenVerdict(asking[c].verify, asking[c].keys, fit)
      BY <2>3, NowAt
    <2>5. asking[c].wait \in Nat /\ asking[c].wait < CacheTime + Timeout /\ asking[c].wait < Cooldown + Timeout
      BY <2>2, SoonEnough
    <2> QED
      BY <2>1, <2>2, <2>4, <2>5
  <1> QED
    BY <1>2, <1>4, <1>5

LEMMA ClocksAreNat ==
  SsoIInv => (\A k \in Kids : shown[k] \in Nat /\ gone[k] \in Nat) /\ (\A d \in Docs : left[d] \in Nat)
  <1>1. \A n \in 0 .. Oldest : n \in Nat
    BY SsoConstants
  <1> HIDE DEF Oldest
  <1> QED
    BY <1>1, ClocksAre

LEMMA Heals ==
  ASSUME SsoIInv, SsoNext, NEW c \in SsoCallers, NEW k \in Kids,
         SsoJudged(c, "no key"), OnBehalf(c).token.signer = k, OnBehalf(c).token.kid # Unknown
  PROVE  shown[k] < (IF OnBehalf(c).token.kid = Unnamed \/ CacheTime < Cooldown THEN CacheTime ELSE Cooldown) + Timeout
  <1> DEFINE v == OnBehalf(c)
  <1>1. PICK served : \E age \in Nat, fit \in BOOLEAN :
          /\ KeysOf(served, age, shown, gone) /\ age < CacheTime + Timeout /\ (v.again => age < Cooldown + Timeout)
          /\ asking'[c] = TokenVerdict(v, served, fit)
    BY JudgedByKeys DEF SsoJudged
  <1>2. PICK age \in Nat, fit \in BOOLEAN :
          /\ KeysOf(served, age, shown, gone) /\ age < CacheTime + Timeout /\ (v.again => age < Cooldown + Timeout)
          /\ asking'[c] = TokenVerdict(v, served, fit)
    BY <1>1
  <1>3. v.token.kid = Unnamed \/ v.token.kid = v.token.signer
    BY JudgedByKeys DEF SsoJudged, Carries
  <1> HIDE DEF v
  <1>4. TokenVerdict(v, served, fit).at = "no key"
    BY <1>2 DEF SsoJudged
  <1>5. k \notin served /\ (Candidates(v.token, served) = {} => v.again)
    BY <1>4 DEF TokenVerdict, Verifying, SsoIdle, v
  <1>6. shown[k] <= age /\ shown[k] \in Nat
    BY <1>2, <1>5, ClocksAreNat DEF KeysOf
  <1>7. v.token.kid # Unnamed => v.again
    BY <1>3, <1>5 DEF Candidates, v
  <1>8. CASE v.token.kid = Unnamed
    <2>1. shown[k] < CacheTime + Timeout
      BY <1>2, <1>6, InTime
    <2> QED
      BY <1>8, <2>1 DEF v
  <1>9. CASE v.token.kid # Unnamed
    <2>1. age < CacheTime + Timeout /\ age < Cooldown + Timeout
      BY <1>2, <1>7, <1>9
    <2>2. shown[k] < CacheTime + Timeout /\ shown[k] < Cooldown + Timeout
      BY <1>6, <2>1, InTime
    <2> QED
      BY <1>9, <2>2 DEF v
  <1> QED
    BY <1>8, <1>9

LEMMA Lapses ==
  ASSUME SsoIInv, SsoNext, NEW c \in SsoCallers
  PROVE  /\ SsoJudged(c, "in") => gone[OnBehalf(c).token.signer] < CacheTime + Timeout
         /\ asking[c].at # "exchange" /\ asking'[c].at = "exchange" => left[asking'[c].doc] < CacheTime + Timeout
  <1>1. ASSUME SsoJudged(c, "in")
        PROVE  gone[OnBehalf(c).token.signer] < CacheTime + Timeout
    <2> DEFINE v == OnBehalf(c)
    <2>1. PICK served : \E age \in Nat, fit \in BOOLEAN :
            KeysOf(served, age, shown, gone) /\ age < CacheTime + Timeout /\ asking'[c] = TokenVerdict(v, served, fit)
      BY <1>1, JudgedByKeys DEF SsoJudged
    <2>2. PICK age \in Nat, fit \in BOOLEAN :
            KeysOf(served, age, shown, gone) /\ age < CacheTime + Timeout /\ asking'[c] = TokenVerdict(v, served, fit)
      BY <2>1
    <2> HIDE DEF v
    <2>3. TokenVerdict(v, served, fit).at = "in"
      BY <1>1, <2>2 DEF SsoJudged
    <2>4. v.token.signer \in served
      BY <2>3 DEF TokenVerdict, Verifying, SsoIdle
    <2>5. gone[v.token.signer] <= age /\ gone[v.token.signer] \in Nat
      BY <2>2, <2>4, ClocksAreNat DEF KeysOf
    <2> QED
      BY <2>2, <2>5, SsoConstants DEF v
  <1>2. ASSUME asking[c].at # "exchange", asking'[c].at = "exchange"
        PROVE  left[asking'[c].doc] < CacheTime + Timeout
    <2>1. Acts(c)
      BY <1>2, OwnSteps
    <2>2. Asked(asking[c], shown, gone, left)
      BY DEF SsoIInv
    <2>3. Login(c) \/ StoreDoc(c)
      <3>1. ASSUME AnswerDoc(c) \/ PutConfig(c) \/ ForgetCaches(c) \/ ForgetFirst(c) \/ DeleteConfig(c) \/ AnswerKeys(c) \/ AnswerJunk(c) \/ Fails(c)
            PROVE  FALSE
        BY <1>2, <3>1, NowAt DEF AnswerDoc, PutConfig, ForgetCaches, ForgetFirst, DeleteConfig, AnswerKeys, AnswerJunk, Fails, SsoIdle
      <3>2. ASSUME NEW form \in Forms, Save(c, form)
            PROVE  FALSE
        BY <1>2, <3>2, NowAt DEF Save, SsoAsk
      <3>3. ~Exchange(c)
        BY <1>2 DEF Exchange
      <3>4. ASSUME NEW u, NEW served, NEW fit
            PROVE  TokenVerdict(u, served, fit).at # "exchange"
        BY DEF TokenVerdict, Verifying, SsoIdle
      <3>5. ~FetchJwks(c) /\ ~StoreKeys(c)
        BY <1>2, <3>4, NowAt DEF FetchJwks, StoreKeys
      <3> QED
        BY <2>1, <3>1, <3>2, <3>3, <3>5 DEF Acts
    <2>4. CASE Login(c)
      <3>1. ~Becomes(c, SsoAsk("doc", {}))
        BY <1>2, NowAt DEF SsoAsk
      <3>2. PICK fresh \in discovery : fresh.age < CacheTime
        BY <2>4, <3>1 DEF Login
      <3>3. PICK hit \in discovery : Becomes(c, Endpoints(hit.doc))
        BY <2>4, <3>1 DEF Login
      <3>4. PICK d \in Docs, age \in 0 .. Longest : discovery = {[doc |-> d, age |-> age]} /\ DocOf(d, age + Timeout, left)
        BY <3>2, Untouched DEF CachedDoc
      <3>5. hit.doc = d /\ age < CacheTime
        BY <3>2, <3>3, <3>4
      <3>6. asking'[c].doc = d
        BY <3>3, <3>5, NowAt, Sent
      <3>7. left[d] <= age + Timeout /\ left[d] \in Nat
        BY <3>4, ClocksAreNat DEF DocOf
      <3> QED
        BY <3>5, <3>6, <3>7, SsoConstants
    <2>5. CASE StoreDoc(c)
      <3>1. asking[c].at = "docs" /\ ~Becomes(c, SsoAsk("put", asking[c].saves))
        BY <1>2, <2>5, NowAt DEF StoreDoc, SsoAsk
      <3>2. asking'[c].doc = asking[c].doc
        BY <2>5, <3>1, NowAt, Sent DEF StoreDoc
      <3>3. DocOf(asking[c].doc, asking[c].wait, left) /\ asking[c].wait \in 0 .. Timeout
        BY <2>2, <3>1 DEF Asked
      <3>4. left[asking[c].doc] <= asking[c].wait /\ left[asking[c].doc] \in Nat
        BY <3>3, ClocksAreNat DEF DocOf
      <3> QED
        BY <3>2, <3>3, <3>4, SsoConstants
    <2> QED
      BY <2>3, <2>4, <2>5
  <1> QED
    BY <1>1, <1>2

LEMMA KeptIsGood ==
  ASSUME SsoIInv, HomeForms
  PROVE  ReadsBack /\ TokensStayHome
  <1>1. ASSUME NEW cfg \in stored
        PROVE  \E form \in Forms : AcceptedForm(form) /\ cfg = ParseConfig(form) /\ DOMAIN form = Parts
    BY Untouched, SsoConstants DEF Keepsake, Kept
  <1>2. ASSUME NEW cfg \in stored
        PROVE  /\ AcceptedForm(cfg)
               /\ LET read == ParseConfig(cfg)
                  IN  \A part \in DOMAIN cfg : read[part] = cfg[part] \/ (part \in {"emails", "groups"} /\ cfg[part] = "")
    <2>1. PICK form \in Forms : AcceptedForm(form) /\ cfg = ParseConfig(form) /\ DOMAIN form = Parts
      BY <1>1
    <2> QED
      BY <2>1, Rereads
  <1>3. ASSUME NEW cfg \in stored, cfg.userInfo = "own"
        PROVE  cfg.emails \in {"", "own"} /\ cfg.groups \in {"", "own"}
    <2>1. PICK form \in Forms : AcceptedForm(form) /\ cfg = ParseConfig(form) /\ DOMAIN form = Parts
      BY <1>1
    <2> QED
      BY <1>3, <2>1, StaysHome
  <1>4. ReadsBack
    BY <1>2 DEF ReadsBack
  <1>5. TokensStayHome
    BY <1>3 DEF TokensStayHome
  <1> QED
    BY <1>4, <1>5

(* What is kept of an identity provider is safe to rely on, whatever it rotates or moves and      *)
(* however slow its answers are: a config reads back as what was accepted, and keeps to the site  *)
(* its operator named; a key that was added is accepted, one that was withdrawn refused, and an   *)
(* endpoint that was left forgotten, within the time a cache is trusted and one request.          *)
THEOREM SsoIsSafe == HomeForms /\ SsoSpec => SsoSafety
  <1>1. SsoIInv /\ HomeForms => ReadsBack /\ TokensStayHome
    BY KeptIsGood
  <1>2. SsoIInv /\ [SsoNext]_ssoVars =>
          [\A c \in SsoCallers, k \in Kids :
             SsoJudged(c, "no key") /\ OnBehalf(c).token.signer = k /\ OnBehalf(c).token.kid # Unknown =>
               shown[k] < (IF OnBehalf(c).token.kid = Unnamed \/ CacheTime < Cooldown THEN CacheTime ELSE Cooldown) + Timeout
           ]_ssoVars
    BY Heals
  <1>3. SsoIInv /\ [SsoNext]_ssoVars =>
          [\A c \in SsoCallers :
             /\ SsoJudged(c, "in") => gone[OnBehalf(c).token.signer] < CacheTime + Timeout
             /\ asking[c].at # "exchange" /\ asking'[c].at = "exchange" => left[asking'[c].doc] < CacheTime + Timeout
           ]_ssoVars
    BY Lapses
  <1>4. SsoSpec => RotationHeals
    BY <1>2, SsoInvariant, PTL DEF SsoSpec, RotationHeals
  <1>5. SsoSpec => LeftLapses
    BY <1>3, SsoInvariant, PTL DEF SsoSpec, LeftLapses
  <1>6. HomeForms => HomeForms'
    BY DEF HomeForms
  <1>7. HomeForms /\ SsoSpec => [](ReadsBack /\ TokensStayHome)
    BY <1>1, <1>6, SsoInvariant, PTL DEF SsoSpec
  <1> QED
    BY <1>4, <1>5, <1>7, PTL DEF SsoSafety
================================================================================
