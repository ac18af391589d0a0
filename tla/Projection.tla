----------------------------- MODULE Projection -----------------------------
(***************************************************************************)
(* A projection: the read model kept up to date from the events by         *)
(* ProjectionHandler (internal/eventstore/handler/handler_projection.go)   *)
(* and StatementHandler (internal/eventstore/handler/crdb).                *)
(*                                                                         *)
(* Goroutines of all ZITADEL processes work on the same tables:            *)
(*   Subscribers  read the events their process has pushed from a queue;   *)
(*   Schedulers   fetch what is newer than the current sequences, for the  *)
(*                timer or for a query that triggers the projection.       *)
(* All of them reduce events to statements and run Update, a transaction,  *)
(* which is modelled statement by statement.  The locks schedulers take    *)
(* are left out on purpose: queries trigger without them, so Update has to *)
(* be right without.                                                       *)
(*                                                                         *)
(* A statement is the event it was reduced from: Sequence is seq and       *)
(* PreviousSequence is prevType.                                           *)
(***************************************************************************)
EXTENDS EventLog, SequencesExt

CONSTANTS
    Subscribers, Schedulers,
    BulkLimit,        \* events fetched at once
    Retries,          \* how often Process runs Update again
    MaxFailureCount,  \* failures of a statement after which it is skipped
    Unreducible,      \* sequences of the events that reduce answers with an error
    SequenceBound,    \* bound: largest event sequence
    Notified,         \* bound: sequences of events that subscribers may be notified of
    MaxFaults,        \* bound: crashes and errors of the database
    Serializable      \* isolation of the database, see EventStore

Workers == Subscribers \cup Schedulers

VARIABLES
    current,     \* current_sequences: the last sequence handled, 0 when there is no row
    failures,    \* failed_events: failure_count by sequence
    handled,     \* history: the statements committed, in order, and whether executed
    unsent,      \* events whose notify goroutine has not reached a subscriber's queue
    queue,       \* EventQueue of a subscriber
    pc,          \* where a worker is
    statements,  \* Process: the statements
    index,       \* Process: index returned by the last Update, from -1
    retry,       \* Process: the loop variable
    tx,          \* Update: the state of its transaction
    faults       \* how many faults have happened

workerVars == <<pc, statements, index, retry, tx>>
vars == <<events, current, failures, handled, unsent, queue, workerVars, faults>>

ASSUME WorkersAssumption == Subscribers \cap Schedulers = {}
ASSUME LimitsAssumption ==
    /\ BulkLimit \in Nat \ {0} /\ Retries \in Nat /\ MaxFailureCount \in Nat
    /\ SequenceBound \in Nat /\ Notified \subseteq Nat /\ Unreducible \subseteq Nat
    /\ MaxFaults \in Nat /\ Serializable \in BOOLEAN

-----------------------------------------------------------------------------

NoSequences == [i \in Instances |-> [t \in AggTypes |-> 0]]
NoTx == [insts |-> {}, list |-> <<>>, aliased |-> FALSE, next |-> 1, last |-> -1,
         base |-> NoSequences, seqs |-> NoSequences, failed |-> {}, done |-> <<>>]

InTx(w) == pc[w] \in {"exec", "commit"}

\* ORDER BY event_sequence: the orders it allows.
InSequenceOrder(S) ==
    {q \in SetToSeqs(S) : \A k, l \in DOMAIN q : k < l => q[k].seq <= q[l].seq}

\* The rows of current_sequences of these instances.
SequencesOf(insts) == [i \in Instances |-> IF i \in insts THEN current[i] ELSE NoSequences[i]]

\* SELECT ... FOR UPDATE waits for the transactions that hold rows of these instances.
RowsFree(w, insts) ==
    \A v \in Workers \ {w} :
        InTx(v) => \A i \in insts \cap tx[v].insts, t \in AggTypes : tx[v].base[i][t] = 0

-----------------------------------------------------------------------------
(* The event store, and the way from Push to a subscriber's queue          *)

\* A push commits.  Its sequence was drawn earlier: other streams may be ahead of it.
\* Only subscribers of the pushing process are notified.
Push(i, t, s) ==
    /\ \A e \in events : e.inst = i => e.seq # s
    /\ \A e \in Stream(events, i, t) : e.seq < s
    /\ \E a \in AggIDs, o \in Owners :
         LET e == [inst |-> i, atype |-> t, aid |-> a, owner |-> o, seq |-> s,
                   prevAgg |-> MaxSequence(Aggregate(events, i, t, a)),
                   prevType |-> MaxSequence(Stream(events, i, t))]
         IN  /\ Linked(e, events)
             /\ events' = events \cup {e}
             /\ \E W \in SUBSET {w \in Subscribers : s \in Notified} :
                  unsent' = unsent \cup {<<e, w>> : w \in W}
    /\ UNCHANGED <<current, failures, handled, queue, workerVars, faults>>

\* The goroutines running notify are not ordered among each other.
Notify ==
    \E m \in unsent :
        /\ unsent' = unsent \ {m}
        /\ queue' = [queue EXCEPT ![m[2]] = IF pc[m[2]] = "dead" THEN @ ELSE Append(@, m[1])]
        /\ UNCHANGED <<events, current, failures, handled, workerVars, faults>>

-----------------------------------------------------------------------------
(* Where the statements come from                                          *)

\* Process returns, with or without an error; subscribe and the scheduler go on.
Return(w) ==
    /\ pc' = [pc EXCEPT ![w] = "idle"]
    /\ statements' = [statements EXCEPT ![w] = <<>>]
    /\ index' = [index EXCEPT ![w] = -1]
    /\ retry' = [retry EXCEPT ![w] = 0]
    /\ tx' = [tx EXCEPT ![w] = NoTx]

\* reduce has a statement for every event; an error depends on nothing but the event.
Reducible(evts) == \A k \in DOMAIN evts : evts[k].seq \notin Unreducible

\* Process has the statements of these events.
StartProcess(w, evts) ==
    /\ pc' = [pc EXCEPT ![w] = "update"]
    /\ statements' = [statements EXCEPT ![w] = evts]
    /\ index' = [index EXCEPT ![w] = -1]
    /\ retry' = [retry EXCEPT ![w] = 0]
    /\ tx' = [tx EXCEPT ![w] = NoTx]

\* Process reduces all the events first and returns the first error: no statement is executed
\* and no failure is counted.
Process(w, evts) == IF Reducible(evts) THEN StartProcess(w, evts) ELSE Return(w)

\* subscribe: the first event, and by checkAdditionalEvents all that are there.
TakeQueue(w) ==
    /\ w \in Subscribers
    /\ pc[w] = "idle"
    /\ queue[w] # <<>>
    /\ Process(w, queue[w])
    /\ queue' = [queue EXCEPT ![w] = <<>>]
    /\ UNCHANGED <<events, current, failures, handled, unsent, faults>>

\* searchQuery in FetchEvents reads the current sequences, outside a transaction, of the instance
\* a query is about or of those schedule takes together (concurrentInstances).
ReadSequences(w) ==
    /\ w \in Schedulers
    /\ pc[w] = "idle"
    /\ \E insts \in SUBSET Instances \ {{}} :
         /\ RowsFree(w, insts)
         /\ tx' = [tx EXCEPT ![w] = [NoTx EXCEPT !.insts = insts, !.base = SequencesOf(insts)]]
    /\ pc' = [pc EXCEPT ![w] = "fetch"]
    /\ UNCHANGED <<events, current, failures, handled, unsent, queue, statements, index, retry, faults>>

\* The events dbSearchQuery asks for: those after the sequences that were read.
Newer(w) == {e \in events : e.inst \in tx[w].insts /\ e.seq > tx[w].base[e.inst][e.atype]}

\* Filter in FetchEvents, limited to BulkLimit.
Fetch(w) ==
    /\ pc[w] = "fetch"
    /\ IF Newer(w) = {}
       THEN Return(w)
       ELSE \E q \in InSequenceOrder(Newer(w)) :
               Process(w, SubSeq(q, 1, Min({BulkLimit, Len(q)})))
    /\ UNCHANGED <<events, current, failures, handled, unsent, queue, faults>>

-----------------------------------------------------------------------------
(* Process and Update                                                      *)

\* Slicing beyond the statements panics; the goroutine recovers and ends, a subscriber unsubscribes.
Panic(w) ==
    /\ pc[w] = "update"
    /\ index[w] + 1 > Len(statements[w])
    /\ pc' = [pc EXCEPT ![w] = "dead"]
    /\ queue' = [v \in Subscribers |-> IF v = w THEN <<>> ELSE queue[v]]
    /\ UNCHANGED <<events, current, failures, handled, unsent, statements, index, retry, tx, faults>>

\* fetchPreviousStmts: what is between the current sequences of the transaction and stmt.
PreviousEvents(stmt, insts) ==
    {e \in events :
        /\ e.inst \in insts
        /\ current[e.inst][e.atype] # 0
        /\ ~(stmt.seq <= current[e.inst][e.atype] /\ stmt.inst = e.inst)
        /\ e.seq > current[e.inst][e.atype]
        /\ e.seq < stmt.seq}

\* Update: BEGIN, the current sequences, and what has to come before a creation event; Process
\* returns the error if that cannot be reduced.
BeginUpdate(w) ==
    /\ pc[w] = "update"
    /\ index[w] + 1 <= Len(statements[w])
    /\ LET stmts == SubSeq(statements[w], index[w] + 2, Len(statements[w]))
           insts == {stmts[k].inst : k \in DOMAIN stmts}
       IN  IF stmts = <<>>
           THEN Return(w)
           ELSE /\ RowsFree(w, insts)
                /\ \E previous \in
                      IF stmts[1].prevType = 0
                      THEN InSequenceOrder(PreviousEvents(stmts[1], insts)) ELSE {<<>>} :
                     IF Reducible(previous)
                     THEN /\ tx' = [tx EXCEPT ![w] =
                                 [NoTx EXCEPT !.insts = insts,
                                              !.list = previous \o stmts,
                                              !.aliased = stmts[1].prevType # 0,
                                              !.base = SequencesOf(insts),
                                              !.seqs = SequencesOf(insts)]]
                          /\ pc' = [pc EXCEPT ![w] = "exec"]
                          /\ UNCHANGED <<statements, index, retry>>
                     ELSE Return(w)
    /\ UNCHANGED <<events, current, failures, handled, unsent, queue, faults>>

\* Mutant: the loop takes one turn too many.
ContinueTooFar(w, t) ==
    /\ tx' = [tx EXCEPT ![w] = t]
    /\ pc' = [pc EXCEPT ![w] = IF t.next <= Len(t.list) + 1 THEN "exec" ELSE "commit"]

\* The loop of executeStmts goes on with transaction state t, or is left.
Continue(w, t) ==
    /\ tx' = [tx EXCEPT ![w] = t]
    /\ pc' = [pc EXCEPT ![w] = IF t.next <= Len(t.list) THEN "exec" ELSE "commit"]
Break(w, t) ==
    /\ tx' = [tx EXCEPT ![w] = t]
    /\ pc' = [pc EXCEPT ![w] = "commit"]

\* The statement counts as handled; how is "executed", or "skipped" after too many failures.
Done(t, stmt, how) ==
    [t EXCEPT !.seqs[stmt.inst][stmt.atype] = stmt.seq,
              !.last = t.next - 1,
              !.next = t.next + 1,
              !.done = Append(@, [stmt |-> stmt, how |-> how])]

\* copy() on the slice of the transaction moves the elements of Process's slice if they share it.
DropFrom(w, t) ==
    LET off == index[w] + 1
    IN  [k \in DOMAIN statements[w] |->
           IF t.aliased /\ k >= off + t.next /\ k < off + Len(t.list)
           THEN statements[w][k + 1] ELSE statements[w][k]]

\* Mutants: an event handled before is not dropped; a gap is only seen in one direction; the
\* count is not carried from one failure to the next; a statement is skipped one failure late.
HandledBefore(stmt, seq) == seq # 0 /\ stmt.seq < seq
GapBehind(stmt, seq) ==
    seq # 0 /\ stmt.seq > seq /\ stmt.prevType > 0 /\ stmt.prevType < seq
FailureCountOne(stmt) == 1
TooManyFailuresLate(count) == count > MaxFailureCount

\* What executeStmts compares with the current sequence of the statement's stream.
AlreadyHandled(stmt, seq) == seq # 0 /\ stmt.seq <= seq
GapBefore(stmt, seq) ==
    seq # 0 /\ stmt.seq > seq /\ stmt.prevType > 0 /\ stmt.prevType # seq

\* handleFailedStmt: the count it stores, and whether the statement is now skipped.
FailureCount(stmt) == failures[stmt.inst][stmt.seq] + 1
TooManyFailures(count) == count >= MaxFailureCount

\* One turn of the loop in executeStmts.
ExecuteStmt(w) ==
    /\ pc[w] = "exec"
    /\ LET t == tx[w]
           stmt == t.list[t.next]
           seq == t.seqs[stmt.inst][stmt.atype]
           count == FailureCount(stmt)
       IN  \/ /\ AlreadyHandled(stmt, seq)
              /\ Continue(w, [t EXCEPT !.list = RemoveAt(@, t.next)])
              /\ statements' = [statements EXCEPT ![w] = DropFrom(w, t)]
           \/ /\ GapBefore(stmt, seq)
              /\ Break(w, t)
              /\ UNCHANGED statements
           \/ /\ ~AlreadyHandled(stmt, seq) /\ ~GapBefore(stmt, seq)
              /\ UNCHANGED statements
              /\ \/ Continue(w, Done(t, stmt, "executed"))
                 \/ LET u == [t EXCEPT !.failed = @ \cup {[stmt |-> stmt, count |-> count]}]
                    IN  IF TooManyFailures(count)
                        THEN Continue(w, Done(u, stmt, "skipped"))
                        ELSE Break(w, u)
    /\ UNCHANGED <<events, current, failures, handled, unsent, queue, index, retry, faults>>

\* updateCurrentSequences writes every sequence the transaction knows, if a statement was handled.
UpdatedSequences(t) ==
    [i \in Instances |-> [a \in AggTypes |->
        IF t.last >= 0 /\ i \in t.insts /\ t.seqs[i][a] # 0 THEN t.seqs[i][a] ELSE current[i][a]]]

\* setFailureCount of the statements that failed.
UpdatedFailures(t) ==
    [i \in Instances |-> [s \in 1..SequenceBound |->
        IF \E f \in t.failed : f.stmt.inst = i /\ f.stmt.seq = s
        THEN (CHOOSE f \in t.failed : f.stmt.inst = i /\ f.stmt.seq = s).count
        ELSE failures[i][s]]]

\* COMMIT, and what Process does with the index.
CommitUpdate(w) ==
    /\ pc[w] = "commit"
    /\ LET t == tx[w]
       IN  /\ Serializable =>
                /\ \A i \in t.insts : current[i] = t.base[i]
                /\ \A f \in t.failed : failures[f.stmt.inst][f.stmt.seq] = f.count - 1
           /\ current' = UpdatedSequences(t)
           /\ failures' = UpdatedFailures(t)
           /\ handled' = handled \o t.done
           /\ IF t.last < Len(t.list) - 1 /\ retry[w] < Retries
              THEN /\ index' = [index EXCEPT ![w] = t.last]
                   /\ retry' = [retry EXCEPT ![w] = @ + 1]
                   /\ pc' = [pc EXCEPT ![w] = "update"]
                   /\ tx' = [tx EXCEPT ![w] = NoTx]
                   /\ UNCHANGED statements
              ELSE Return(w)
    /\ UNCHANGED <<events, unsent, queue, faults>>

\* COMMIT fails because another transaction was first; Process returns the error.
CommitConflict(w) ==
    /\ pc[w] = "commit"
    /\ Serializable
    /\ \/ \E i \in tx[w].insts : current[i] # tx[w].base[i]
       \/ \E f \in tx[w].failed : failures[f.stmt.inst][f.stmt.seq] # f.count - 1
    /\ Return(w)
    /\ UNCHANGED <<events, current, failures, handled, unsent, queue, faults>>

\* Mutant: statements are executed outside the transaction and stay when it is rolled back.
ProcessFailsKeeping(w) ==
    /\ pc[w] \in {"fetch", "update", "exec", "commit"}
    /\ faults < MaxFaults
    /\ faults' = faults + 1
    /\ Return(w)
    /\ handled' = handled \o tx[w].done
    /\ UNCHANGED <<events, current, failures, unsent, queue>>

\* A query, BEGIN or COMMIT fails: FetchEvents or Process returns the error.
ProcessFails(w) ==
    /\ pc[w] \in {"fetch", "update", "exec", "commit"}
    /\ faults < MaxFaults
    /\ faults' = faults + 1
    /\ Return(w)
    /\ UNCHANGED <<events, current, failures, handled, unsent, queue>>

\* The process stops and starts again: what is queued for its subscriber is lost.
Restart(w) ==
    /\ faults < MaxFaults
    /\ faults' = faults + 1
    /\ Return(w)
    /\ queue' = [v \in Subscribers |-> IF v = w THEN <<>> ELSE queue[v]]
    /\ unsent' = {m \in unsent : m[2] # w}
    /\ UNCHANGED <<events, current, failures, handled>>

-----------------------------------------------------------------------------

Init ==
    /\ LogInit
    /\ current = NoSequences
    /\ failures = [i \in Instances |-> [s \in 1..SequenceBound |-> 0]]
    /\ handled = <<>>
    /\ unsent = {}
    /\ queue = [w \in Subscribers |-> <<>>]
    /\ pc = [w \in Workers |-> "idle"]
    /\ statements = [w \in Workers |-> <<>>]
    /\ index = [w \in Workers |-> -1]
    /\ retry = [w \in Workers |-> 0]
    /\ tx = [w \in Workers |-> NoTx]
    /\ faults = 0

Next ==
    \/ \E i \in Instances, t \in AggTypes, s \in 1..SequenceBound : Push(i, t, s)
    \/ Notify
    \/ \E w \in Workers :
          \/ TakeQueue(w) \/ ReadSequences(w) \/ Fetch(w) \/ Panic(w) \/ BeginUpdate(w)
          \/ ExecuteStmt(w) \/ CommitUpdate(w) \/ CommitConflict(w) \/ ProcessFails(w) \/ Restart(w)

Spec == Init /\ [][Next]_vars

\* Every goroutine that can take a step of its own takes it.
Fairness ==
    \A w \in Workers :
        WF_vars(ReadSequences(w) \/ Fetch(w) \/ TakeQueue(w) \/ Panic(w) \/ BeginUpdate(w)
                \/ ExecuteStmt(w) \/ CommitUpdate(w) \/ CommitConflict(w))

FairSpec == Spec /\ Fairness

-----------------------------------------------------------------------------
(* Properties                                                              *)

\* The variables have their types; the loop of executeStmts stays within its statements, also
\* when it drops some, and the index Update returns is one it has passed.
TypeOK ==
    /\ events \subseteq Event
    /\ current \in [Instances -> [AggTypes -> 0..SequenceBound]]
    /\ failures \in [Instances -> [1..SequenceBound -> Nat]]
    /\ handled \in Seq([stmt : Event, how : {"executed", "skipped"}])
    /\ unsent \subseteq Event \X Subscribers
    /\ queue \in [Subscribers -> Seq(Event)]
    /\ pc \in [Workers -> {"idle", "fetch", "update", "exec", "commit", "dead"}]
    /\ statements \in [Workers -> Seq(Event)]
    /\ index \in [Workers -> Int]
    /\ retry \in [Workers -> 0..Retries]
    /\ \A w \in Workers :
          /\ tx[w].insts \subseteq Instances
          /\ tx[w].list \in Seq(Event)
          /\ tx[w].next \in Nat \ {0}
          /\ pc[w] = "exec" => tx[w].next <= Len(tx[w].list)
          /\ tx[w].last \in Int /\ tx[w].last < tx[w].next
    /\ faults \in 0..MaxFaults

HandledOf(i, t) == {k \in DOMAIN handled : handled[k].stmt.inst = i /\ handled[k].stmt.atype = t}

(***************************************************************************)
(* Whatever the order of queues, fetches, retries and restarts, and with   *)
(* several goroutines in Update, the statements of a stream are handled in *)
(* the order of the stream, each once, without leaving one out between two *)
(* that were handled (the checks in executeStmts).                         *)
(***************************************************************************)
HandledInOrder ==
    \A i \in Instances, t \in AggTypes : \A k, l \in HandledOf(i, t) :
        k < l /\ (\A m \in HandledOf(i, t) : m <= k \/ m >= l)
            => handled[l].stmt.prevType = handled[k].stmt.seq

(***************************************************************************)
(* current_sequences holds for every stream the last sequence that was     *)
(* handled ("The sequence that was last processed",                        *)
(* docs/concepts/eventstore/implementation.md), also after rollbacks: a    *)
(* fetch that starts there repeats nothing.                                *)
(***************************************************************************)
CurrentIsLast ==
    \A i \in Instances, t \in AggTypes :
        current[i][t] = MaxSequence({handled[k].stmt : k \in HandledOf(i, t)})

(***************************************************************************)
(* Update implements the abstract consumer: in one step, and under every   *)
(* interleaving of queues, fetches, retries and conflicting transactions,  *)
(* it commits statements that follow each other along the links of their   *)
(* streams and moves current_sequences to the last of them; a step that    *)
(* commits no statement leaves the sequences as they are.                  *)
(***************************************************************************)
Abstract == INSTANCE Consumer WITH position <- current, output <- handled
ImplementsConsumer == Abstract!Spec

(***************************************************************************)
(* A statement is left out only after it has failed MaxFailureCount times, *)
(* counted over all goroutines, retries and restarts; a failure is never   *)
(* counted beyond that (handleFailedStmt).                                 *)
(***************************************************************************)
SkippedAfterFailures ==
    /\ \A k \in DOMAIN handled :
          handled[k].how = "skipped" =>
              failures[handled[k].stmt.inst][handled[k].stmt.seq] = Max({1, MaxFailureCount})
    /\ \A i \in Instances, s \in 1..SequenceBound :
          failures[i][s] <= Max({1, MaxFailureCount})

Pushed(i, t, s) == \E e \in events : e.inst = i /\ e.atype = t /\ e.seq = s

(***************************************************************************)
(* docs/concepts/eventstore/implementation.md on failed events: they are   *)
(* skipped "so that the projection is not blocked": the current sequence   *)
(* passes every event sooner or later.                                     *)
(***************************************************************************)
NotBlocked ==
    \A i \in Instances, t \in AggTypes, s \in 1..SequenceBound :
        Pushed(i, t, s) ~> current[i][t] >= s

\* The next fetch meets an event that cannot be reduced: it is among the first BulkLimit ones
\* that are not handled.
FetchRefused ==
    \E e \in events :
        /\ e.seq \in Unreducible
        /\ Cardinality({f \in events : f.seq > current[f.inst][f.atype] /\ f.seq <= e.seq}) <= BulkLimit

(***************************************************************************)
(* What the code keeps of NotBlocked: with failing statements, lost        *)
(* notifications, conflicts and restarts every event is passed sooner or   *)
(* later, unless the schedulers have panicked (projection_blocked) or an   *)
(* event that reduce refuses comes within the next fetch.  Then nothing is *)
(* handled, not even the events before it (Process), until a version of    *)
(* the code that can reduce it is started.                                 *)
(***************************************************************************)
BlockedByReduceOnly ==
    \A i \in Instances, t \in AggTypes, s \in 1..SequenceBound :
        Pushed(i, t, s) ~> \/ current[i][t] >= s
                           \/ FetchRefused
                           \/ \A w \in Schedulers : pc[w] = "dead"
=============================================================================
