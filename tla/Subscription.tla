---------------------------- MODULE Subscription ----------------------------
(***************************************************************************)
(* The subscriptions of one process (internal/eventstore/subscription.go;  *)
(* v1/subscription.go is the same code for the older handlers): a registry *)
(* under one mutex, a queue of limited size per subscription, a goroutine  *)
(* running notify per push and one receiving goroutine per subscription    *)
(* (ProjectionHandler.subscribe).                                          *)
(*                                                                         *)
(* notify sends while it holds the mutex, and a panic of the receiver ends *)
(* in Unsubscribe, which receives while it holds the mutex.                *)
(***************************************************************************)
EXTENDS Naturals, SequencesExt

CONSTANTS
    Subs,        \* subscriptions
    ByType,      \* those made with SubscribeEventTypes
    Types,       \* the aggregate types of a subscription
    Nil,         \* a nil entry of the registry
    Pushes,      \* pushes whose goroutine runs notify
    Batch,       \* the events of a push: sequences of [type, push, nr]
    Free,        \* the mutex is not held
    QueueSize,   \* capacity of EventQueue
    MaxPanics    \* bound: how many receivers panic

AggTypes == UNION {Types[s] : s \in Subs}
Events == UNION {ToSet(Batch[p]) : p \in Pushes}

ASSUME SubscriptionAssumption ==
    /\ ByType \subseteq Subs /\ Nil \notin Subs
    /\ Free \notin Subs \cup Pushes /\ Subs \cap Pushes = {}
    /\ QueueSize \in Nat \ {0} /\ MaxPanics \in Nat
    /\ Batch \in [Pushes -> Seq(Events)]

VARIABLES
    subscriptions,  \* the registry: the subscriptions of an aggregate type
    mutex,          \* subsMutext: who holds it
    queue,          \* Events of a subscription
    closed,         \* whether Events is closed
    receiver,       \* where the receiving goroutine is
    sender,         \* where the goroutine running notify is
    at,             \* the loops of the notify that holds the mutex: event, subscription
    received,       \* history: what a receiver has taken from its queue
    due,            \* history: what it should get, in the order of the notifications
    crashed,        \* a panic nobody recovers has ended the process
    panics

vars == <<subscriptions, mutex, queue, closed, receiver, sender, at, received, due, crashed, panics>>

-----------------------------------------------------------------------------

\* Where a subscription is registered: SubscribeEventTypes makes a list of the right length but
\* leaves it empty, so it registers under the aggregate type "", which no event has.
Registered(s) == IF s \in ByType THEN {} ELSE Types[s]

\* SubscribeAggregates, SubscribeEventTypes, before the receiver is started.
Subscribe(s) ==
    /\ receiver[s] = "new"
    /\ mutex = Free
    /\ subscriptions' = [t \in AggTypes |->
                           IF t \in Registered(s) THEN Append(subscriptions[t], s) ELSE subscriptions[t]]
    /\ receiver' = [receiver EXCEPT ![s] = "receive"]
    /\ UNCHANGED <<mutex, queue, closed, sender, at, received, due, crashed, panics>>

\* What a subscription is meant to get of the events of a push from the k-th on: all events of
\* the aggregates it names (SubscribeEventTypes: when it provides no event types for them).
DueFrom(s, p, k) ==
    LET n == Len(Batch[p])
        last[i \in 0..n] ==
            IF i = 0 THEN <<>>
            ELSE IF Batch[p][n + 1 - i].type \in Types[s] THEN <<Batch[p][n + 1 - i]>> \o last[i - 1]
            ELSE last[i - 1]
    IN  last[n + 1 - k]

Start == [event |-> 1, sub |-> 1]

\* notify takes the mutex.
Notify(p) ==
    /\ sender[p] = "start"
    /\ mutex = Free
    /\ mutex' = p
    /\ sender' = [sender EXCEPT ![p] = "send"]
    /\ at' = Start
    /\ due' = [s \in Subs |-> IF receiver[s] = "new" THEN due[s] ELSE due[s] \o DueFrom(s, p, 1)]
    /\ UNCHANGED <<subscriptions, queue, closed, receiver, received, crashed, panics>>

\* The subscriptions of the aggregate type of the event that notify is at, if there are any.
Current(p) ==
    LET t == Batch[p][at.event].type IN IF t \in AggTypes THEN subscriptions[t] ELSE <<>>

AtSubscription(p) ==
    sender[p] = "send" /\ at.event <= Len(Batch[p]) /\ at.sub <= Len(Current(p))

\* Mutant: a send does not wait for room in the queue.
SendUnbounded(p) ==
    /\ AtSubscription(p)
    /\ Current(p)[at.sub] # Nil
    /\ queue' = [queue EXCEPT ![Current(p)[at.sub]] = Append(@, Batch[p][at.event])]
    /\ at' = [at EXCEPT !.sub = @ + 1]
    /\ UNCHANGED <<subscriptions, mutex, closed, receiver, sender, received, due, crashed, panics>>

\* Mutant: an event is dropped when the queue is full.
SendDropping(p) ==
    /\ AtSubscription(p)
    /\ LET s == Current(p)[at.sub]
       IN  /\ s # Nil
           /\ queue' = IF Len(queue[s]) = QueueSize THEN queue
                       ELSE [queue EXCEPT ![s] = Append(@, Batch[p][at.event])]
    /\ at' = [at EXCEPT !.sub = @ + 1]
    /\ UNCHANGED <<subscriptions, mutex, closed, receiver, sender, received, due, crashed, panics>>

\* sub.Events <- event waits while the queue is full.  A nil subscription, or a closed
\* channel, is a panic in a goroutine that does not recover.
Send(p) ==
    /\ AtSubscription(p)
    /\ LET s == Current(p)[at.sub]
       IN  IF s = Nil \/ (s \in Subs /\ closed[s])
           THEN crashed' = TRUE /\ UNCHANGED <<queue, at>>
           ELSE /\ Len(queue[s]) < QueueSize
                /\ queue' = [queue EXCEPT ![s] = Append(@, Batch[p][at.event])]
                /\ at' = [at EXCEPT !.sub = @ + 1]
                /\ UNCHANGED crashed
    /\ UNCHANGED <<subscriptions, mutex, closed, receiver, sender, received, due, panics>>

\* The next event.
NextEvent(p) ==
    /\ sender[p] = "send"
    /\ at.event <= Len(Batch[p])
    /\ at.sub > Len(Current(p))
    /\ at' = [event |-> at.event + 1, sub |-> 1]
    /\ UNCHANGED <<subscriptions, mutex, queue, closed, receiver, sender, received, due, crashed, panics>>

\* Mutant: the mutex is not unlocked.
NotifyEndLocked(p) ==
    /\ sender[p] = "send"
    /\ at.event > Len(Batch[p])
    /\ sender' = [sender EXCEPT ![p] = "done"]
    /\ at' = Start
    /\ UNCHANGED <<subscriptions, mutex, queue, closed, receiver, received, due, crashed, panics>>

\* notify returns.
NotifyEnd(p) ==
    /\ sender[p] = "send"
    /\ at.event > Len(Batch[p])
    /\ mutex' = Free
    /\ sender' = [sender EXCEPT ![p] = "done"]
    /\ at' = Start
    /\ UNCHANGED <<subscriptions, queue, closed, receiver, received, due, crashed, panics>>

-----------------------------------------------------------------------------

\* subscribe takes an event and those that are there already (checkAdditionalEvents).
Receive(s) ==
    /\ receiver[s] = "receive"
    /\ \E n \in 1..Len(queue[s]) :
         /\ received' = [received EXCEPT ![s] = @ \o SubSeq(queue[s], 1, n)]
         /\ queue' = [queue EXCEPT ![s] = SubSeq(@, n + 1, Len(@))]
    /\ receiver' = [receiver EXCEPT ![s] = "process"]
    /\ UNCHANGED <<subscriptions, mutex, closed, sender, at, due, crashed, panics>>

\* Process returns.
Process(s) ==
    /\ receiver[s] = "process"
    /\ receiver' = [receiver EXCEPT ![s] = "receive"]
    /\ UNCHANGED <<subscriptions, mutex, queue, closed, sender, at, received, due, crashed, panics>>

\* Process panics, and subscribe recovers and calls Unsubscribe.
Panic(s) ==
    /\ receiver[s] = "process"
    /\ panics < MaxPanics
    /\ panics' = panics + 1
    /\ receiver' = [receiver EXCEPT ![s] = "panicked"]
    /\ UNCHANGED <<subscriptions, mutex, queue, closed, sender, at, received, due, crashed>>

\* Mutant: the last entry overwrites the first one.
WithoutFirst(subs, s) ==
    LET last == Len(subs)
    IN  IF s \notin ToSet(subs) THEN subs
        ELSE [k \in 1..last |-> IF k = last THEN Nil ELSE IF k = 1 THEN subs[last] ELSE subs[k]]

\* The loop over one list: the last entry moves to the place of s and leaves nil behind; the
\* shorter slice is not stored.
Without(subs, s) ==
    LET last == Len(subs)
    IN  IF s \notin ToSet(subs) THEN subs
        ELSE [k \in 1..last |-> IF k = last THEN Nil
                            ELSE IF subs[k] = s THEN subs[last] ELSE subs[k]]

\* Mutant: it does not wait for the mutex.
UnsubscribeAtOnce(s) ==
    /\ receiver[s] = "panicked"
    /\ mutex' = s
    /\ subscriptions' = [t \in AggTypes |->
                           IF t \in Types[s] THEN Without(subscriptions[t], s) ELSE subscriptions[t]]
    /\ receiver' = [receiver EXCEPT ![s] = "unsubscribe"]
    /\ UNCHANGED <<queue, closed, sender, at, received, due, crashed, panics>>

\* Unsubscribe takes the mutex and removes the subscription.
Unsubscribe(s) ==
    /\ receiver[s] = "panicked"
    /\ mutex = Free
    /\ mutex' = s
    /\ subscriptions' = [t \in AggTypes |->
                           IF t \in Types[s] THEN Without(subscriptions[t], s) ELSE subscriptions[t]]
    /\ receiver' = [receiver EXCEPT ![s] = "unsubscribe"]
    /\ UNCHANGED <<queue, closed, sender, at, received, due, crashed, panics>>

\* It receives one more event before it closes the channel, and only then unlocks.
Close(s) ==
    /\ receiver[s] = "unsubscribe"
    /\ queue[s] # <<>>
    /\ queue' = [queue EXCEPT ![s] = Tail(@)]
    /\ closed' = [closed EXCEPT ![s] = TRUE]
    /\ mutex' = Free
    /\ receiver' = [receiver EXCEPT ![s] = "ended"]
    /\ UNCHANGED <<subscriptions, sender, at, received, due, crashed, panics>>

-----------------------------------------------------------------------------

Init ==
    /\ subscriptions = [t \in AggTypes |-> <<>>]
    /\ mutex = Free
    /\ queue = [s \in Subs |-> <<>>]
    /\ closed = [s \in Subs |-> FALSE]
    /\ receiver = [s \in Subs |-> "new"]
    /\ sender = [p \in Pushes |-> "start"]
    /\ at = Start
    /\ received = [s \in Subs |-> <<>>]
    /\ due = [s \in Subs |-> <<>>]
    /\ crashed = FALSE
    /\ panics = 0

Next ==
    /\ ~crashed
    /\ \/ \E p \in Pushes : Notify(p) \/ Send(p) \/ NextEvent(p) \/ NotifyEnd(p)
       \/ \E s \in Subs : \/ Subscribe(s) \/ Receive(s) \/ Process(s)
                          \/ Panic(s) \/ Unsubscribe(s) \/ Close(s)

Spec == Init /\ [][Next]_vars

\* Every goroutine that can take a step of its own takes it.
FairSpec ==
    /\ Spec
    /\ \A p \in Pushes : WF_vars(~crashed /\ (Notify(p) \/ Send(p) \/ NextEvent(p) \/ NotifyEnd(p)))
    /\ \A s \in Subs : WF_vars(~crashed /\ (Receive(s) \/ Process(s) \/ Unsubscribe(s) \/ Close(s)))

-----------------------------------------------------------------------------
(* Properties                                                              *)

\* The variables have their types; a queue never holds more than its capacity.
TypeOK ==
    /\ subscriptions \in [AggTypes -> Seq(Subs \cup {Nil})]
    /\ mutex \in {Free} \cup Pushes \cup Subs
    /\ queue \in [Subs -> Seq(Events)] /\ \A s \in Subs : Len(queue[s]) <= QueueSize
    /\ closed \in [Subs -> BOOLEAN]
    /\ receiver \in [Subs -> {"new", "receive", "process", "panicked", "unsubscribe", "ended"}]
    /\ sender \in [Pushes -> {"start", "send", "done"}]
    /\ at \in [event : Nat \ {0}, sub : Nat \ {0}]
    /\ received \in [Subs -> Seq(Events)]
    /\ due \in [Subs -> Seq(Events)]
    /\ crashed \in BOOLEAN
    /\ panics \in 0..MaxPanics

\* A live subscription has a first part of what it is due while a notify runs, else all of it.
Delivered(s) ==
    receiver[s] \in {"receive", "process", "panicked"} =>
        IF mutex \in Pushes THEN IsPrefix(received[s] \o queue[s], due[s])
        ELSE received[s] \o queue[s] = due[s]

(***************************************************************************)
(* Every subscription made with SubscribeAggregates gets each event of its *)
(* aggregates once, batches as a whole, in the same order for all          *)
(* subscriptions, however sends, full queues and the panics and removal of *)
(* other subscriptions interleave (the mutex is held for a whole batch).   *)
(* Those made with SubscribeEventTypes are excepted: its comment says that *)
(* they get the event types they ask for, or all events of the aggregate,  *)
(* but they are registered where notify finds none and get nothing.        *)
(***************************************************************************)
DeliveredInOrder == \A s \in Subs \ ByType : Delivered(s)

(***************************************************************************)
(* notify never sends to the closed channel of a subscription that has     *)
(* gone: what Unsubscribe leaves in the registry never names it.           *)
(***************************************************************************)
NeverToClosed ==
    \A s \in Subs : closed[s] => \A t \in AggTypes : s \notin ToSet(subscriptions[t])

(***************************************************************************)
(* What notify has found in the registry stays true until it has sent its  *)
(* last event, however often it waits for room: no subscription is added,  *)
(* removed or closed in between.  With NeverToClosed, no send meets a      *)
(* closed channel.                                                         *)
(***************************************************************************)
QuietWhileSending ==
    [][(\E p \in Pushes : sender[p] = "send") => UNCHANGED <<subscriptions, closed>>]_vars

(***************************************************************************)
(* Sending under the mutex to queues of limited size does not lock         *)
(* everybody out: every notification ends, as long as no receiver panics.  *)
(***************************************************************************)
NotifyEnds == \A p \in Pushes : (sender[p] = "start") ~> (sender[p] = "done" \/ panics > 0)
=============================================================================
