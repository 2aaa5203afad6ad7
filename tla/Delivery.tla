------------------------------- MODULE Delivery -------------------------------
(***************************************************************************)
(* Outbound notifications: the bus that calls its listeners inline         *)
(* (events/events.go), the dispatcher that queues an event per notifier    *)
(* and delivers each queue one at a time (notify/notify.go), the table of  *)
(* notifiers and the log of deliveries (webhooks/webhooks.go), and the     *)
(* routes that enable, remove, test and redeliver (api/routes.go).         *)
(* Goroutines interleave at every statement of SQL and every lock.  Both   *)
(* tables are declared INTEGER PRIMARY KEY without AUTOINCREMENT           *)
(* (store/migrations.go), so SQLite gives a new row the highest id in use  *)
(* plus one and takes the id of a deleted last row again.  Rows have no    *)
(* name, url or secret here but a generation: which registration it is.    *)
(***************************************************************************)
EXTENDS Integers, Sequences, FiniteSets

CONSTANTS
    MaxNotifiers,          \* bound on the ids of notifiers in use at once
    Registered,            \* the notifiers there are to begin with
    MaxRegistrations,      \* bound on notifiers ever registered
    Managed,               \* the ids the operator's requests are about
    Emitters,              \* goroutines that emit events, one after the other
    MaxEvents,             \* bound on the events each of them emits
    MaxRequests,           \* bound on crashes and requests to redeliver, test, enable and remove
    MaxQueuedPerNotifier, MaxInFlight, Retries, MaxDeliveriesPerNotifier

NotifierIds == 1 .. MaxNotifiers
AnOperator == "operator"
Senders == Emitters \cup {AnOperator}
TestLane == 0
Lanes == NotifierIds \cup {TestLane}

ASSUME DeliveryAssumption ==
    /\ MaxNotifiers \in Nat \ {0} /\ Managed \subseteq NotifierIds /\ MaxRegistrations \in Nat /\ Registered \in 0 .. MaxNotifiers
    /\ Registered <= MaxRegistrations /\ MaxEvents \in Nat
    /\ MaxRequests \in Nat /\ Retries \in Nat
    /\ MaxQueuedPerNotifier \in Nat \ {0} /\ MaxInFlight \in Nat \ {0}
    /\ MaxDeliveriesPerNotifier \in Nat \ {0}
    /\ AnOperator \notin Emitters

VARIABLES
    notifier,    \* id -> its registration (0: no row) and whether it is enabled
    deliveries,  \* the table: id -> row
    toSend,      \* id -> what waits for it
    ahead,       \* id -> the queues that exist since before its queue does
    busy, sending,
    flight,      \* lane -> the delivery under way
    pumps,       \* deliveries that ended and have yet to pump
    sender,      \* what each emitter or the operator's request is about to do
    emitted,     \* emitter -> events so far
    registered, requests, boot,
    promised,    \* events that were to go to a registration, of this boot
    recorded,    \* those that ever had a row in the log
    late,        \* id -> attempts made since its notifier was removed, up to 2
    sharing      \* lanes whose row has an id that somebody else still held when it was given out

dispatcherVars == <<toSend, ahead, busy, sending>>
historyVars == <<promised, recorded, late, sharing>>
deliveryVars == <<notifier, deliveries, dispatcherVars, flight, pumps, sender, emitted,
                  registered, requests, boot, historyVars>>

Exists(n) == notifier[n].gen # 0
Item(g, e, replay) == [gen |-> g, event |-> e, replay |-> replay]
Key(n, item) == <<n, item.gen, item.event>>

-----------------------------------------------------------------------------
(* The log                                                                  *)

\* The highest id in use plus one.
NextRowIds ==
    {d + 1 : d \in {e \in DOMAIN deliveries \cup {0} : \A f \in DOMAIN deliveries : f <= e}}
RowsOf(n) == {d \in DOMAIN deliveries : deliveries[d].notifier = n}
Inserted(row, n, item, envelope) ==
    [d \in DOMAIN deliveries \cup {row} |->
       IF d = row THEN [notifier |-> n, item |-> item, status |-> "pending", envelope |-> envelope, boot |-> boot]
       ELSE deliveries[d]]
Finished_Always(d, result) == [e \in DOMAIN deliveries \cup {d} |-> IF e = d THEN [status |-> result] ELSE deliveries[e]]
Finished(d, result) ==
    IF d \in DOMAIN deliveries THEN [deliveries EXCEPT ![d].status = result] ELSE deliveries

\* The newest rows are kept, and of the others those that are pending.
Prunable(n, d) ==
    /\ d \in RowsOf(n) /\ deliveries[d].status # "pending"
    /\ Cardinality({e \in RowsOf(n) : e > d}) >= MaxDeliveriesPerNotifier
RowsLeft(rows) == [d \in rows |-> deliveries[d]]

-----------------------------------------------------------------------------
(* The dispatcher, under its mutex                                          *)

Landed == [at |-> "idle"]
TakeOff(n, item) == [at |-> "insert", notifier |-> n, item |-> item, row |-> 0, attempt |-> 0, ok |-> FALSE]

Eligible == {n \in NotifierIds : toSend[n] # <<>> /\ n \notin busy}
Room == IF sending < MaxInFlight THEN MaxInFlight - sending ELSE 0

\* As many as there is room for, none before one whose queue is older; a queue that is empty is
\* forgotten.
PumpDeliveries ==
    \E started \in SUBSET Eligible :
      /\ \A n \in started : ahead[n] \cap Eligible \subseteq started
      /\ Cardinality(started) = IF Cardinality(Eligible) < Room THEN Cardinality(Eligible) ELSE Room
      /\ toSend' = [n \in NotifierIds |-> IF n \in started THEN Tail(toSend[n]) ELSE toSend[n]]
      /\ ahead' = [n \in NotifierIds |-> {m \in ahead[n] : toSend'[n] # <<>> /\ toSend'[m] # <<>>}]
      /\ busy' = busy \cup started
      /\ sending' = sending + Cardinality(started)
      /\ flight' = [l \in Lanes |-> IF l \in started THEN TakeOff(l, Head(toSend[l])) ELSE flight[l]]

Full(n) == Len(toSend[n]) >= MaxQueuedPerNotifier

\* Past the cap the oldest makes room.
AppendCapped(n, item) == Append(IF Full(n) THEN Tail(toSend[n]) ELSE toSend[n], item)

-----------------------------------------------------------------------------
(* Emitting and redelivering                                                *)

Quiet == [at |-> "idle", todo |-> {}, pushed |-> {}, row |-> 0]
Sending(todo) == [Quiet EXCEPT !.at = "enqueue", !.todo = todo]
Say(s, what) == sender' = [sender EXCEPT ![s] = what]

\* Emit, Dispatch: the subscribers are read once, each with the row it has now.
Emit(s) ==
    /\ sender[s] = Quiet /\ emitted[s] < MaxEvents
    /\ emitted' = [emitted EXCEPT ![s] = @ + 1]
    /\ LET e == <<s, emitted[s] + 1>>
           to == {n \in NotifierIds : Exists(n) /\ notifier[n].enabled}
       IN /\ Say(s, Sending({<<n, Item(notifier[n].gen, e, FALSE)>> : n \in to}))
          /\ promised' = promised \cup {<<n, notifier[n].gen, e>> : n \in to}
    /\ UNCHANGED <<notifier, deliveries, dispatcherVars, flight, pumps, registered, requests,
                   boot, recorded, late, sharing>>

\* POST redeliver: a row of this notifier with its envelope, enabled or not.
Redeliver(n) ==
    /\ sender[AnOperator] = Quiet /\ requests < MaxRequests /\ Exists(n)
    /\ requests' = requests + 1
    /\ \E d \in RowsOf(n) :
         /\ deliveries[d].envelope
         /\ Say(AnOperator, Sending({<<n, Item(notifier[n].gen, deliveries[d].item.event, TRUE)>>}))
    /\ UNCHANGED <<notifier, deliveries, dispatcherVars, flight, pumps, emitted, registered,
                   boot, historyVars>>

\* enqueue: one notifier; the event that makes room is written to the log after the lock.
Enqueue(s) ==
    /\ sender[s].at = "enqueue"
    /\ \E next \in sender[s].todo :
         /\ \A other \in sender[s].todo : other[1] <= next[1]
         /\ LET n == next[1]  rest == sender[s].todo \ {next}
            IN /\ toSend' = [toSend EXCEPT ![n] = AppendCapped(n, next[2])]
               /\ ahead' = IF toSend[n] = <<>> THEN [ahead EXCEPT ![n] = {m \in NotifierIds : toSend[m] # <<>>}] ELSE ahead
               /\ Say(s, IF Full(n) THEN [at |-> "drop", todo |-> rest, pushed |-> {<<n, Head(toSend[n])>>}, row |-> 0]
                         ELSE Sending(rest))
    /\ UNCHANGED <<notifier, deliveries, busy, sending, flight, pumps, emitted, registered,
                   requests, boot, historyVars>>

Drop_Silent(s) ==
    /\ sender[s].at = "drop"
    /\ Say(s, Sending(sender[s].todo))
    /\ UNCHANGED <<notifier, deliveries, dispatcherVars, flight, pumps, emitted, registered, requests,
                   boot, historyVars>>
\* drop: a row without an envelope, if the notifier is still there, and then its end.
Drop(s) ==
    /\ sender[s].at = "drop"
    /\ \E p \in sender[s].pushed, d \in NextRowIds :
         IF Exists(p[1])
         THEN /\ deliveries' = Inserted(d, p[1], p[2], FALSE)
              /\ recorded' = recorded \cup {Key(p[1], p[2])}
              /\ Say(s, [at |-> "dropped", todo |-> sender[s].todo, pushed |-> {}, row |-> d])
         ELSE Say(s, Sending(sender[s].todo)) /\ UNCHANGED <<deliveries, recorded>>
    /\ UNCHANGED <<notifier, dispatcherVars, flight, pumps, emitted, registered, requests, boot,
                   promised, late, sharing>>

Dropped(s) ==
    /\ sender[s].at = "dropped"
    /\ deliveries' = Finished(sender[s].row, "failed")
    /\ Say(s, Sending(sender[s].todo))
    /\ UNCHANGED <<notifier, dispatcherVars, flight, pumps, emitted, registered, requests, boot, historyVars>>

SenderPumps(s) ==
    /\ sender[s].at = "enqueue" /\ sender[s].todo = {}
    /\ PumpDeliveries /\ Say(s, Quiet)
    /\ UNCHANGED <<notifier, deliveries, pumps, emitted, registered, requests, boot, historyVars>>

-----------------------------------------------------------------------------
(* A delivery                                                               *)

NotifierOf(l) == flight[l].notifier
Fly(l, what) == flight' = [flight EXCEPT ![l] = what]
GoesTo(l, at) == Fly(l, [flight[l] EXCEPT !.at = at])

\* The rows that a delivery or a drop is going to end.
HasRow(l) == flight[l].at \in {"attempt", "backoff", "finish"}
Dropping(s) == sender[s].at = "dropped"
RowsUnderWay ==
    {flight[l].row : l \in {k \in Lanes : HasRow(k)}} \cup {sender[s].row : s \in {t \in Senders : Dropping(t)}}

\* SecretOf and StartDelivery: a notifier that is gone before either has no secret or breaks the
\* foreign key, and the delivery is over.  A test keeps no envelope.
StartDelivery(l) ==
    /\ flight[l].at = "insert"
    /\ LET n == NotifierOf(l)
       IN \E d \in NextRowIds :
            IF Exists(n)
            THEN /\ deliveries' = Inserted(d, n, flight[l].item, l # TestLane)
                 /\ recorded' = recorded \cup {Key(n, flight[l].item)}
                 /\ Fly(l, [flight[l] EXCEPT !.at = "attempt", !.row = d])
                 /\ sharing' = IF d \in RowsUnderWay THEN sharing \cup {l} ELSE sharing \ {l}
            ELSE GoesTo(l, "over") /\ UNCHANGED <<deliveries, recorded, sharing>>
    /\ UNCHANGED <<notifier, dispatcherVars, pumps, sender, emitted, registered, requests, boot,
                   promised, late>>

\* One Send, under its timeout; the endpoint is the one of the row that was queued.
Attempt(l) ==
    /\ flight[l].at = "attempt"
    /\ LET last == flight[l].attempt + 1 > Retries \/ l = TestLane
       IN \E ok \in BOOLEAN :
            Fly(l, [flight[l] EXCEPT !.at = IF ok \/ last THEN "finish" ELSE "backoff",
                                     !.attempt = @ + 1, !.ok = ok])
    /\ late' = IF l # TestLane /\ ~Exists(l) /\ late[l] < 2 THEN [late EXCEPT ![l] = @ + 1] ELSE late
    /\ UNCHANGED <<notifier, deliveries, dispatcherVars, pumps, sender, emitted, registered,
                   requests, boot, promised, recorded, sharing>>

\* After the delay: a notifier that was removed meanwhile gets no further attempt.
Backoff(l) ==
    /\ flight[l].at = "backoff"
    /\ GoesTo(l, IF Exists(l) THEN "attempt" ELSE "finish")
    /\ UNCHANGED <<notifier, deliveries, dispatcherVars, pumps, sender, emitted, registered,
                   requests, boot, historyVars>>

\* FinishDelivery, NoteResult and Prune: three statements; the second shows in no property.
FinishDelivery(l) ==
    /\ flight[l].at = "finish"
    /\ deliveries' = Finished(flight[l].row, IF flight[l].ok THEN "ok" ELSE "failed")
    /\ GoesTo(l, "prune")
    /\ UNCHANGED <<notifier, dispatcherVars, pumps, sender, emitted, registered, requests, boot, historyVars>>

Prune(l) ==
    /\ flight[l].at = "prune"
    /\ deliveries' = RowsLeft({d \in DOMAIN deliveries : ~Prunable(NotifierOf(l), d)})
    /\ GoesTo(l, "over")
    /\ UNCHANGED <<notifier, dispatcherVars, pumps, sender, emitted, registered, requests, boot, historyVars>>

Over_Forgets(l) ==
    /\ flight[l].at = "over"
    /\ Fly(l, Landed)
    /\ IF l = TestLane THEN UNCHANGED <<busy, sending>>
       ELSE busy' = busy \ {l} /\ sending' = sending - 1
    /\ UNCHANGED <<notifier, deliveries, toSend, ahead, pumps, sender, emitted, registered, requests,
                   boot, historyVars>>
\* The slot is given back, and the pump is a second critical section.
Over(l) ==
    /\ flight[l].at = "over"
    /\ Fly(l, Landed)
    /\ IF l = TestLane THEN UNCHANGED <<busy, sending, pumps>>
       ELSE busy' = busy \ {l} /\ sending' = sending - 1 /\ pumps' = pumps + 1
    /\ UNCHANGED <<notifier, deliveries, toSend, ahead, sender, emitted, registered, requests,
                   boot, historyVars>>

PumpAfter ==
    /\ pumps > 0
    /\ pumps' = pumps - 1 /\ PumpDeliveries
    /\ UNCHANGED <<notifier, deliveries, sender, emitted, registered, requests, boot, historyVars>>

Deliver(l) ==
    StartDelivery(l) \/ Attempt(l) \/ Backoff(l) \/ FinishDelivery(l) \/ Prune(l) \/ Over(l)

-----------------------------------------------------------------------------
(* The notifiers' routes, and a crash                                       *)

Gone == [gen |-> 0, enabled |-> FALSE]

\* The highest id in use plus one, here too.
RegisterNotifier ==
    /\ registered < MaxRegistrations
    /\ \E n \in NotifierIds :
         /\ n # 1 => Exists(n - 1)
         /\ \A m \in NotifierIds : Exists(m) => m < n
         /\ notifier' = [notifier EXCEPT ![n] = [gen |-> registered + 1, enabled |-> TRUE]]
         /\ late' = [late EXCEPT ![n] = 0]
    /\ registered' = registered + 1
    /\ UNCHANGED <<deliveries, dispatcherVars, flight, pumps, sender, emitted, requests, boot,
                   promised, recorded, sharing>>

SetEnabled(n, enabled) ==
    /\ Exists(n) /\ requests < MaxRequests /\ requests' = requests + 1
    /\ notifier' = [notifier EXCEPT ![n].enabled = enabled]
    /\ UNCHANGED <<deliveries, dispatcherVars, flight, pumps, sender, emitted, registered, boot, historyVars>>

\* Its log goes with it; its queue stays.
RemoveNotifier(n) ==
    /\ Exists(n) /\ requests < MaxRequests /\ requests' = requests + 1
    /\ notifier' = [notifier EXCEPT ![n] = Gone]
    /\ deliveries' = RowsLeft(DOMAIN deliveries \ RowsOf(n))
    /\ UNCHANGED <<dispatcherVars, flight, pumps, sender, emitted, registered, boot, historyVars>>

\* POST test: straight to the endpoint, past the queue and the cap.
TestNotifier(n) ==
    /\ flight[TestLane] = Landed /\ Exists(n)
    /\ requests < MaxRequests /\ requests' = requests + 1
    /\ Fly(TestLane, TakeOff(n, Item(notifier[n].gen, <<AnOperator, 0>>, FALSE)))
    /\ UNCHANGED <<notifier, deliveries, dispatcherVars, pumps, sender, emitted, registered, boot, historyVars>>

ServerDies ==
    /\ requests < MaxRequests /\ requests' = requests + 1
    /\ boot' = boot + 1
    /\ toSend' = [n \in NotifierIds |-> <<>>] /\ ahead' = [n \in NotifierIds |-> {}]
    /\ busy' = {} /\ sending' = 0
    /\ flight' = [l \in Lanes |-> Landed] /\ pumps' = 0
    /\ sender' = [s \in Senders |-> Quiet]
    /\ promised' = {} /\ sharing' = {}
    /\ UNCHANGED <<notifier, deliveries, emitted, registered, recorded, late>>

DeliveryInit ==
    /\ notifier = [n \in NotifierIds |-> IF n <= Registered THEN [gen |-> n, enabled |-> TRUE] ELSE Gone]
    /\ deliveries = <<>>
    /\ toSend = [n \in NotifierIds |-> <<>>] /\ ahead = [n \in NotifierIds |-> {}]
    /\ busy = {} /\ sending = 0 /\ pumps = 0
    /\ flight = [l \in Lanes |-> Landed]
    /\ sender = [s \in Senders |-> Quiet]
    /\ emitted = [s \in Emitters |-> 0]
    /\ registered = Registered /\ requests = 0 /\ boot = 0
    /\ promised = {} /\ recorded = {}
    /\ late = [n \in NotifierIds |-> 0] /\ sharing = {}

SenderStep(s) == Enqueue(s) \/ Drop(s) \/ Dropped(s) \/ SenderPumps(s)

DeliveryNext ==
    \/ RegisterNotifier \/ ServerDies \/ PumpAfter
    \/ \E s \in Emitters : Emit(s)
    \/ \E s \in Senders : SenderStep(s)
    \/ \E l \in Lanes : Deliver(l)
    \/ \E n \in Managed :
         Redeliver(n) \/ RemoveNotifier(n) \/ TestNotifier(n) \/ \E enabled \in BOOLEAN : SetEnabled(n, enabled)

\* Goroutines run, and an attempt ends by its timeout.
DeliveryFairness ==
    /\ WF_deliveryVars(PumpAfter)
    /\ \A s \in Senders : WF_deliveryVars(SenderStep(s))
    /\ \A l \in Lanes : WF_deliveryVars(Deliver(l))

DeliverySpec == DeliveryInit /\ [][DeliveryNext]_deliveryVars /\ DeliveryFairness
--------------------------------------------------------------------------------
(* What the dispatcher and its log promise.                                  *)

EmittedEvents == (Senders \X (0 .. MaxEvents))
Items == [gen : 1 .. MaxRegistrations, event : EmittedEvents, replay : BOOLEAN]

\* Every variable has its type.
DeliveryTypeOK ==
    /\ notifier \in [NotifierIds -> [gen : 0 .. MaxRegistrations, enabled : BOOLEAN]]
    /\ \A d \in DOMAIN deliveries :
         deliveries[d] \in [notifier : NotifierIds, item : Items, status : {"pending", "ok", "failed"},
                            envelope : BOOLEAN, boot : Nat]
    /\ \A n \in NotifierIds : \A i \in DOMAIN toSend[n] : toSend[n][i] \in Items
    /\ ahead \in [NotifierIds -> SUBSET NotifierIds]
    /\ busy \subseteq NotifierIds /\ sending \in Nat /\ pumps \in Nat
    /\ late \in [NotifierIds -> 0 .. 2] /\ sharing \subseteq Lanes

Flying == {n \in NotifierIds : flight[n] # Landed}

\* One delivery per notifier and MaxInFlight in all (notify.go:669-677, 749-795): the slots that
\* are counted are the deliveries that run, and no queue is longer than its cap.
OneAtATime ==
    /\ busy = Flying /\ sending = Cardinality(Flying) /\ sending <= MaxInFlight
    /\ \A n \in NotifierIds : Len(toSend[n]) <= MaxQueuedPerNotifier

\* A freed slot is used (notify.go:747-748): while an event waits for a notifier that has none
\* under way and there is room, somebody has yet to pump; and of two queues one is first.
SlotsAreUsed ==
    \A n \in NotifierIds :
      toSend[n] # <<>> =>
        /\ n \in busy \/ sending = MaxInFlight \/ pumps > 0 \/ \E s \in Senders : sender[s] # Quiet
        /\ \A m \in NotifierIds \ {n} : toSend[m] # <<>> => (n \in ahead[m] <=> m \notin ahead[n])

\* What waits for a notifier, what is under way to it, and what a sender still has for it.
Queued(n) == {toSend[n][i] : i \in DOMAIN toSend[n]}
Airborne(n) == IF n \in Flying THEN {flight[n].item} ELSE {}
HeldFor(n) == {item \in Items : \E s \in Senders : <<n, item>> \in sender[s].todo \cup sender[s].pushed}

\* Silence would be the failure this exists to remove (notify.go:797): an event a notifier was to
\* get is on its way to it or has had a row in its log, also when it was pushed out of the queue.
NothingVanishes ==
    \A p \in promised :
      notifier[p[1]].gen = p[2] =>
        p \in recorded \/ \E item \in Queued(p[1]) \cup Airborne(p[1]) \cup HeldFor(p[1]) : Key(p[1], item) = p

\* An emitter's events reach a notifier in the order it emitted them (events.go:221-223): the
\* one under way and the ones that wait are in that order, whoever else emits.
InOrder(a, b) == ~a.replay /\ ~b.replay /\ a.event[1] = b.event[1] => a.event[2] < b.event[2]
OrderIsKept ==
    \A n \in NotifierIds : \A j \in DOMAIN toSend[n] :
      /\ \A item \in Airborne(n) : InOrder(item, toSend[n][j])
      /\ \A i \in DOMAIN toSend[n] : i < j => InOrder(toSend[n][i], toSend[n][j])

\* A delivery under way finds its row, and finds it pending, however many newer ones are logged and
\* pruned meanwhile (webhooks.go:401-406) - unless the row was given an id that the delivery of a
\* removed notifier still held; and only a crash leaves a pending row that nobody is to end.
PendingIsUnderWay ==
  /\ \A l \in Lanes \ sharing :
      HasRow(l) /\ notifier[NotifierOf(l)].gen = flight[l].item.gen =>
        /\ flight[l].row \in RowsOf(NotifierOf(l))
        /\ deliveries[flight[l].row].status = "pending"
  /\ \A d \in DOMAIN deliveries :
      (deliveries[d].status = "pending" /\ deliveries[d].boot = boot) => d \in RowsUnderWay

\* The same without the exception, which is what the comment says of Prune.
PendingIsAlwaysFound ==
  \A l \in Lanes :
      HasRow(l) /\ notifier[NotifierOf(l)].gen = flight[l].item.gen => flight[l].row \in RowsOf(NotifierOf(l))

\* The endpoint an operator has removed gets the attempt that was about to be made and no other
\* (notify.go:827-832), until the id is given to another notifier.
RetriesStop == \A n \in NotifierIds : ~Exists(n) => late[n] <= 1

\* Every queue is worked off and every delivery ends, whatever the endpoints answer, what is
\* removed meanwhile, and however many events push each other out.
QueuesDrain ==
    /\ \A n \in NotifierIds : []<>(toSend[n] = <<>>)
    /\ \A l \in Lanes : []<>(flight[l] = Landed)

\* What the queues, the slots and the log keep between any two steps (notify.go, webhooks.go).
DeliverySafety ==
    OneAtATime /\ SlotsAreUsed /\ NothingVanishes /\ OrderIsKept /\ PendingIsUnderWay /\ RetriesStop
================================================================================
