------------------------------ MODULE EventLog ------------------------------
(***************************************************************************)
(* The table eventstore.events and what the rest of ZITADEL relies on it   *)
(* to be: a log to which whole pushes are appended atomically, in which    *)
(* the events of one aggregate type of one instance (a "stream") and the   *)
(* events of one aggregate are linked lists in the order of their sequence *)
(* numbers.                                                                *)
(*                                                                         *)
(* LogSpec is the abstract specification.  EventStore, which has the       *)
(* transactions and the SQL statements, implements it; Projection uses the *)
(* same rows as its input.                                                 *)
(***************************************************************************)
EXTENDS Integers

CONSTANTS
    Instances,  \* instance ids (tenants)
    AggTypes,   \* aggregate types
    AggIDs,     \* aggregate ids
    Owners,     \* resource owners
    NoOwner     \* SQL NULL in the column resource_owner

ASSUME OwnersAssumption == NoOwner \notin Owners

VARIABLE events  \* the committed rows of eventstore.events

(***************************************************************************)
(* The columns the code computes with.  prevAgg and prevType stand for     *)
(* previous_aggregate_sequence and previous_aggregate_type_sequence; SQL   *)
(* NULL is read by the Go code (type Sequence) as 0.                       *)
(***************************************************************************)
Event ==
    [inst : Instances, atype : AggTypes, aid : AggIDs, owner : Owners,
     seq : Nat \ {0}, prevAgg : Nat, prevType : Nat]

\* Two events of the same aggregate type of the same instance.
SameStream(e, f) == e.inst = f.inst /\ e.atype = f.atype

\* Two events of the same aggregate.
SameAggregate(e, f) == SameStream(e, f) /\ e.aid = f.aid

\* MAX(event_sequence) over rows, NULL (0) when there is none.
MaxSequence(rows) ==
    IF rows = {} THEN 0
    ELSE CHOOSE s \in {e.seq : e \in rows} : \A e \in rows : e.seq <= s

Stream(rows, i, t) == {e \in rows : e.inst = i /\ e.atype = t}
Aggregate(rows, i, t, a) == {e \in Stream(rows, i, t) : e.aid = a}
Before(rows, s) == {e \in rows : e.seq < s}

-----------------------------------------------------------------------------

(***************************************************************************)
(* e is linked to rows: its two links name the latest earlier event of its *)
(* stream and of its aggregate, and it has the owner the aggregate has.    *)
(***************************************************************************)
Linked(e, rows) ==
    /\ e.prevType = MaxSequence(Before(Stream(rows, e.inst, e.atype), e.seq))
    /\ e.prevAgg = MaxSequence(Before(Aggregate(rows, e.inst, e.atype, e.aid), e.seq))
    /\ \A f \in rows : SameAggregate(e, f) => e.owner = f.owner

LogInit == events = {}

(***************************************************************************)
(* One push: new rows, each later than everything its stream had, linked   *)
(* to what was there and to each other.                                    *)
(***************************************************************************)
LogAppend ==
    LET new == events' \ events
    IN  /\ events \subseteq events'
        /\ new \subseteq Event
        /\ \A e \in new : \A f \in events : SameStream(e, f) => f.seq < e.seq
        /\ \A e \in new : \A f \in events' : e.inst = f.inst /\ e.seq = f.seq => e = f
        /\ \A e \in new : Linked(e, events')

(***************************************************************************)
(* What eventstore.Push promises its readers ("pushes the events in a      *)
(* single transaction"): rows are only ever added, a whole push at once,   *)
(* at the end of their streams and linked to what is there.                *)
(***************************************************************************)
LogSpec == LogInit /\ [][LogAppend]_events

-----------------------------------------------------------------------------

(***************************************************************************)
(* In every stream and in every aggregate the links are a single list in   *)
(* sequence order that starts at the first event, and an aggregate has one *)
(* resource owner ("an aggregate can only be managed by one organisation", *)
(* repository/event.go).                                                   *)
(***************************************************************************)
StreamsAreLists == \A e \in events : Linked(e, events)
=============================================================================
