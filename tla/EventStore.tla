----------------------------- MODULE EventStore -----------------------------
(***************************************************************************)
(* Eventstore.Push (internal/eventstore/eventstore.go) and the SQL         *)
(* repository under it (internal/eventstore/repository/sql/crdb.go), with  *)
(* the statements of concurrent transactions interleaved.                  *)
(*                                                                         *)
(* A client is a goroutine in Push.  The database is external.  It is what *)
(* the code gets from crdb.ExecuteTx(ctx, db, nil, ...), where the nil     *)
(* options leave the isolation level to the server's default:              *)
(*   Serializable = TRUE   CockroachDB: a transaction reads one snapshot   *)
(*                         and commits only if what it read is unchanged;  *)
(*   Serializable = FALSE  PostgreSQL's READ COMMITTED: every statement    *)
(*                         reads what is committed when it starts.         *)
(* Under both, a statement that inserts a key another open transaction has *)
(* inserted waits for that transaction.                                    *)
(***************************************************************************)
EXTENDS EventLog, Sequences

CONSTANTS
    Clients,       \* goroutines that push
    Batches,       \* the pushes they may make, a subset of Batch
    NoID,          \* an empty aggregate id, which a command must not have
    System,        \* the instance id "": sequence system_seq, global constraints
    Fields,        \* unique_type and unique_field of a constraint
    ToLower,       \* strings.ToLower on the field
    MaxSequences,  \* bound: values drawn from one database sequence
    Serializable   \* isolation of the database

\* A command: what commandsToRepository reads of it.
Command == [atype : AggTypes, aid : AggIDs \cup {NoID}, owner : Owners \cup {NoOwner}]

\* A unique constraint of a command.
Constraint == [action : {"add", "remove", "instanceRemove"}, field : Fields, global : BOOLEAN]

\* The arguments of one Push: the commands and all their constraints, in order.
Batch == [inst : Instances, cmds : Seq(Command), cons : Seq(Constraint)]

\* A row of eventstore.unique_constraints.
UniqueRow == [inst : Instances, field : Fields]

ASSUME BatchesAssumption == Batches \subseteq Batch
ASSUME SystemAssumption == System \in Instances
ASSUME ToLowerAssumption ==
    /\ ToLower \in [Fields -> Fields]
    /\ \A f \in Fields : ToLower[ToLower[f]] = ToLower[f]
ASSUME MaxSequencesAssumption == MaxSequences \in [Instances -> Nat]
ASSUME NoIDAssumption == NoID \notin AggIDs
ASSUME SerializableAssumption == Serializable \in BOOLEAN

VARIABLES
    uniques,    \* the committed rows of eventstore.unique_constraints
    sequences,  \* the last value drawn from each database sequence
    created,    \* the instances whose sequence exists
    pc,         \* where a client is in Push
    batch,      \* the events and constraints the client pushes
    at,         \* index of its next statement
    scanned,    \* what Scan has read into the events to push, over all attempts
    pending,    \* the row its INSERT has computed and not yet written
    staged,     \* event rows its transaction has written
    added,      \* constraint rows its transaction has inserted
    removed,    \* constraint rows its transaction has deleted, its own included
    snapshot,   \* what its transaction reads if it is serializable
    outcome,    \* what the last Push returned to the client
    notified,   \* history: events handed to "go notify"
    claims      \* history: committed constraint changes, in commit order

txVars == <<batch, at, scanned, pending, staged, added, removed, snapshot>>
esVars == <<events, uniques, sequences, created, pc, txVars, outcome, notified, claims>>

Outcomes == {"none", "ok", "invalid", "exists", "failed", "unknown"}
PCs == {"idle", "query", "write", "constraints", "commit"}

Open(c) == pc[c] # "idle"

-----------------------------------------------------------------------------
(* What the statements of a transaction see                                *)

EventsSeen(c) == (IF Serializable THEN snapshot[c].events ELSE events) \cup staged[c]

UniquesSeen(c) ==
    ((IF Serializable THEN snapshot[c].uniques ELSE uniques) \ removed[c]) \cup added[c]

\* Mutant: the index on the previous sequence of the aggregate type is missing.
CollideWithoutTypeLink(e, f) ==
    e.inst = f.inst /\ (e.seq = f.seq \/ (e.prevAgg # 0 /\ e.prevAgg = f.prevAgg))

\* Two rows the primary key or one of the two unique indices forbids (NULLs do not collide).
Collide(e, f) ==
    /\ e.inst = f.inst
    /\ \/ e.seq = f.seq
       \/ e.prevAgg # 0 /\ e.prevAgg = f.prevAgg
       \/ e.prevType # 0 /\ e.prevType = f.prevType

\* Mutants: the field is kept as it was spelled; a global constraint is kept per instance.
UniqueRowsAsSpelled(i, con) ==
    IF con.action = "instanceRemove" THEN {u \in UniqueRow : u.inst = i}
    ELSE {[inst |-> IF con.global THEN System ELSE i, field |-> con.field]}
UniqueRowsPerInstance(i, con) ==
    IF con.action = "instanceRemove" THEN {u \in UniqueRow : u.inst = i}
    ELSE {[inst |-> i, field |-> ToLower[con.field]]}

\* The constraint rows a change is about; a global one is kept under the instance "".
UniqueRowsOf(i, con) ==
    LET scope == IF con.global THEN System ELSE i
    IN  IF con.action = "instanceRemove" THEN {u \in UniqueRow : u.inst = scope}
        ELSE {[inst |-> scope, field |-> ToLower[con.field]]}

\* What a serializable transaction has read is still what is committed.
ReadsUnchanged(c) ==
    /\ \A e \in staged[c] :
          Stream(events, e.inst, e.atype) = Stream(snapshot[c].events, e.inst, e.atype)
    /\ \A k \in DOMAIN batch[c].cons :
          \A u \in UniqueRowsOf(batch[c].inst, batch[c].cons[k]) :
             u \in uniques <=> u \in snapshot[c].uniques

-----------------------------------------------------------------------------
(* Push                                                                    *)

EmptySnapshot == [events |-> {}, uniques |-> {}]
EmptyBatch == [inst |-> System, cmds |-> <<>>, cons |-> <<>>]
\* An event before its columns are scanned.
NoRow == [inst |-> NoOwner, atype |-> NoOwner, aid |-> NoOwner, owner |-> NoOwner,
          seq |-> 0, prevAgg |-> 0, prevType |-> 0]

\* The transaction of c is over.
EndTx(c) ==
    /\ pc' = [pc EXCEPT ![c] = "idle"]
    /\ batch' = [batch EXCEPT ![c] = EmptyBatch]
    /\ scanned' = [scanned EXCEPT ![c] = <<>>]
    /\ at' = [at EXCEPT ![c] = 1]
    /\ pending' = [pending EXCEPT ![c] = NoRow]
    /\ staged' = [staged EXCEPT ![c] = {}]
    /\ added' = [added EXCEPT ![c] = {}]
    /\ removed' = [removed EXCEPT ![c] = {}]
    /\ snapshot' = [snapshot EXCEPT ![c] = EmptySnapshot]

\* What mapEvents is given: the events as the statements have left them.
ScannedRows(c) == {scanned[c][k] : k \in DOMAIN scanned[c]}

\* The first statement of a transaction after those for the events.
AfterEvents(b) == IF b.cons = <<>> THEN "commit" ELSE "constraints"

\* Mutant: a command without aggregate id is not refused.
AcceptedAny(b) == TRUE

\* commandsToRepository refuses a command without aggregate id before any statement.
Accepted(b) == \A k \in DOMAIN b.cmds : b.cmds[k].aid # NoID

\* BEGIN, also when ExecuteTx runs its function again.
BeginTx(c, b) ==
    /\ pc' = [pc EXCEPT ![c] = IF b.cmds = <<>> THEN AfterEvents(b) ELSE "query"]
    /\ batch' = [batch EXCEPT ![c] = b]
    /\ at' = [at EXCEPT ![c] = 1]
    /\ pending' = [pending EXCEPT ![c] = NoRow]
    /\ staged' = [staged EXCEPT ![c] = {}]
    /\ added' = [added EXCEPT ![c] = {}]
    /\ removed' = [removed EXCEPT ![c] = {}]
    /\ snapshot' = [snapshot EXCEPT ![c] = [events |-> events, uniques |-> uniques]]

Push(c) ==
    /\ ~Open(c)
    /\ \E b \in Batches :
          IF Accepted(b)
          THEN /\ BeginTx(c, b)
               /\ scanned' = [scanned EXCEPT ![c] = [k \in DOMAIN b.cmds |-> NoRow]]
               /\ outcome' = [outcome EXCEPT ![c] = "none"]
          ELSE outcome' = [outcome EXCEPT ![c] = "invalid"] /\ UNCHANGED <<pc, txVars>>
    /\ UNCHANGED <<events, uniques, sequences, created, notified, claims>>

\* Mutant: the owner of the command is preferred to the owner of the aggregate.
InsertedRowOwnOwner(c, cmd, s) ==
    LET i == batch[c].inst
        aggregate == Aggregate(EventsSeen(c), i, cmd.atype, cmd.aid)
        last == MaxSequence(aggregate)
    IN  [inst |-> i, atype |-> cmd.atype, aid |-> cmd.aid,
         owner |-> IF aggregate = {} \/ cmd.owner # NoOwner THEN cmd.owner
                   ELSE (CHOOSE e \in aggregate : e.seq = last).owner,
         seq |-> s, prevAgg |-> last,
         prevType |-> MaxSequence(Stream(EventsSeen(c), i, cmd.atype))]

\* Mutant: the last sequence of the aggregate type is looked up in the aggregate.
InsertedRowOwnType(c, cmd, s) ==
    LET i == batch[c].inst
        aggregate == Aggregate(EventsSeen(c), i, cmd.atype, cmd.aid)
        last == MaxSequence(aggregate)
    IN  [inst |-> i, atype |-> cmd.atype, aid |-> cmd.aid,
         owner |-> IF aggregate = {} THEN cmd.owner
                   ELSE (CHOOSE e \in aggregate : e.seq = last).owner,
         seq |-> s, prevAgg |-> last, prevType |-> last]

\* The row crdbInsert computes for a command: links and owner from the latest rows, COALESCE.
InsertedRow(c, cmd, s) ==
    LET i == batch[c].inst
        stream == Stream(EventsSeen(c), i, cmd.atype)
        aggregate == Aggregate(EventsSeen(c), i, cmd.atype, cmd.aid)
        last == MaxSequence(aggregate)
    IN  [inst |-> i, atype |-> cmd.atype, aid |-> cmd.aid,
         owner |-> IF aggregate = {} THEN cmd.owner
                   ELSE (CHOOSE e \in aggregate : e.seq = last).owner,
         seq |-> s, prevAgg |-> last, prevType |-> MaxSequence(stream)]

\* The SELECT part of crdbInsert: NEXTVAL is not undone by a rollback.
QueryRow(c) ==
    /\ pc[c] = "query"
    /\ batch[c].inst \in created
    /\ sequences[batch[c].inst] < MaxSequences[batch[c].inst]
    /\ LET s == sequences[batch[c].inst] + 1
       IN  /\ sequences' = [sequences EXCEPT ![batch[c].inst] = s]
           /\ pending' = [pending EXCEPT ![c] = InsertedRow(c, batch[c].cmds[at[c]], s)]
    /\ pc' = [pc EXCEPT ![c] = "write"]
    /\ UNCHANGED <<events, uniques, created, batch, at, scanned, staged, added, removed,
                   snapshot, outcome, notified, claims>>

\* The INSERT part: NOT NULL, the unique indices, and Scan into the pushed event.
WriteRow(c) ==
    /\ pc[c] = "write"
    /\ pending[c].owner # NoOwner
    /\ \A f \in events : ~Collide(pending[c], f)
    /\ \A d \in Clients : \A f \in staged[d] : ~Collide(pending[c], f)
    /\ staged' = [staged EXCEPT ![c] = @ \cup {pending[c]}]
    /\ pending' = [pending EXCEPT ![c] = NoRow]
    /\ scanned' = [scanned EXCEPT ![c][at[c]] = pending[c]]
    /\ batch' = [batch EXCEPT ![c].cmds[at[c]].owner = pending[c].owner]
    /\ IF at[c] < Len(batch[c].cmds)
       THEN at' = [at EXCEPT ![c] = @ + 1] /\ pc' = [pc EXCEPT ![c] = "query"]
       ELSE at' = [at EXCEPT ![c] = 1] /\ pc' = [pc EXCEPT ![c] = AfterEvents(batch[c])]
    /\ UNCHANGED <<events, uniques, sequences, created, added, removed, snapshot,
                   outcome, notified, claims>>

\* The transaction is rolled back and Push returns an error.
Rollback(c, result) ==
    /\ EndTx(c)
    /\ outcome' = [outcome EXCEPT ![c] = result]
    /\ UNCHANGED <<events, uniques, sequences, created, notified, claims>>

\* One turn of the loop in handleUniqueConstraints.  A row the transaction has inserted or
\* deleted stays locked until the transaction ends, also one it has inserted and deleted.
HandleUniqueConstraint(c) ==
    /\ pc[c] = "constraints"
    /\ LET con == batch[c].cons[at[c]]
           rows == UniqueRowsOf(batch[c].inst, con)
           advance ==
             /\ at' = [at EXCEPT ![c] = @ + 1]
             /\ pc' = [pc EXCEPT ![c] = IF at[c] < Len(batch[c].cons) THEN @ ELSE "commit"]
             /\ UNCHANGED <<events, uniques, sequences, created, batch, scanned, pending,
                            staged, snapshot, outcome, notified, claims>>
       IN  \/ /\ con.action = "add"
              /\ \A d \in Clients \ {c} : rows \cap (added[d] \cup removed[d]) = {}
              /\ IF rows \cap UniquesSeen(c) # {}
                 THEN Rollback(c, "exists")
                 ELSE /\ added' = [added EXCEPT ![c] = @ \cup rows]
                      /\ UNCHANGED removed
                      /\ advance
           \/ /\ con.action # "add"
              /\ LET hit == rows \cap UniquesSeen(c)
                 IN  /\ \A d \in Clients \ {c} : hit \cap removed[d] = {}
                     /\ added' = [added EXCEPT ![c] = @ \ hit]
                     /\ removed' = [removed EXCEPT ![c] = @ \cup hit]
              /\ advance

\* Mutant: subscribers are notified before the error is looked at.
FailNotified(c) ==
    /\ Open(c)
    /\ EndTx(c)
    /\ outcome' = [outcome EXCEPT ![c] = "failed"]
    /\ notified' = notified \cup (ScannedRows(c) \ {NoRow})
    /\ UNCHANGED <<events, uniques, sequences, created, claims>>

\* Any statement may fail: no sequence, NULL owner, a collision, a deadlock, PushTimeout.
Fail(c) == Open(c) /\ Rollback(c, "failed")

\* ExecuteTx runs the function again after a serialization failure (SQLSTATE 40001).
Retry(c) ==
    /\ Serializable
    /\ Open(c)
    /\ BeginTx(c, batch[c])
    /\ UNCHANGED <<events, uniques, sequences, created, scanned, outcome, notified, claims>>

\* COMMIT, and what Push does after it.  With "unknown" the rows are stored but the caller
\* gets an error and nobody is notified: the answer was lost, or mapEvents failed.
Commit(c) ==
    /\ pc[c] = "commit"
    /\ Serializable => ReadsUnchanged(c)
    /\ events' = events \cup staged[c]
    /\ uniques' = (uniques \ removed[c]) \cup added[c]
    /\ claims' = claims \o [k \in DOMAIN batch[c].cons |->
                              [inst |-> batch[c].inst, con |-> batch[c].cons[k]]]
    /\ \/ notified' = notified \cup ScannedRows(c) /\ outcome' = [outcome EXCEPT ![c] = "ok"]
       \/ UNCHANGED notified /\ outcome' = [outcome EXCEPT ![c] = "unknown"]
    /\ EndTx(c)
    /\ UNCHANGED <<sequences, created>>

\* CREATE SEQUENCE fails if the sequence exists; the one of the system instance always does.
CreateInstance(i) ==
    /\ i \notin created
    /\ created' = created \cup {i}
    /\ UNCHANGED <<events, uniques, sequences, pc, txVars, outcome, notified, claims>>

-----------------------------------------------------------------------------

Init ==
    /\ LogInit
    /\ uniques = {}
    /\ sequences = [i \in Instances |-> 0]
    /\ created = {System}
    /\ pc = [c \in Clients |-> "idle"]
    /\ batch = [c \in Clients |-> EmptyBatch]
    /\ at = [c \in Clients |-> 1]
    /\ scanned = [c \in Clients |-> <<>>]
    /\ pending = [c \in Clients |-> NoRow]
    /\ staged = [c \in Clients |-> {}]
    /\ added = [c \in Clients |-> {}]
    /\ removed = [c \in Clients |-> {}]
    /\ snapshot = [c \in Clients |-> EmptySnapshot]
    /\ outcome = [c \in Clients |-> "none"]
    /\ notified = {}
    /\ claims = <<>>

Next ==
    \/ \E c \in Clients :
          \/ Push(c) \/ QueryRow(c) \/ WriteRow(c) \/ HandleUniqueConstraint(c)
          \/ Fail(c) \/ Retry(c) \/ Commit(c)
    \/ \E i \in Instances : CreateInstance(i)

Spec == Init /\ [][Next]_esVars

-----------------------------------------------------------------------------
(* Properties                                                              *)

\* A row an INSERT has computed: it may still lack an owner.
PendingRow ==
    [inst : Instances, atype : AggTypes, aid : AggIDs, owner : Owners \cup {NoOwner},
     seq : Nat \ {0}, prevAgg : Nat, prevType : Nat]

\* The variables have their types; the statement a transaction is at (the loops of CRDB.Push and
\* handleUniqueConstraints) exists, and every row that is stored has an owner.
TypeOK ==
    /\ events \subseteq Event
    /\ uniques \subseteq UniqueRow
    /\ sequences \in [Instances -> Nat]
    /\ created \subseteq Instances
    /\ pc \in [Clients -> PCs]
    /\ batch \in [Clients -> Batch]
    /\ at \in [Clients -> Nat \ {0}]
    /\ snapshot \in [Clients -> [events : SUBSET Event, uniques : SUBSET UniqueRow]]
    /\ DOMAIN scanned = Clients
    /\ pending = [c \in Clients |-> pending[c]]
    /\ \A c \in Clients :
          /\ pc[c] = "write" => pending[c] \in PendingRow
          /\ pc[c] \in {"query", "write"} => at[c] \in DOMAIN batch[c].cmds
          /\ pc[c] = "constraints" => at[c] \in DOMAIN batch[c].cons
    /\ staged \in [Clients -> SUBSET Event]
    /\ added \in [Clients -> SUBSET UniqueRow]
    /\ removed \in [Clients -> SUBSET UniqueRow]
    /\ outcome \in [Clients -> Outcomes]
    /\ claims \in Seq([inst : Instances, con : Constraint])

\* Whether a committed change claims, or releases, the name f of instance i, ignoring case.
Scope(claim) == IF claim.con.global THEN System ELSE claim.inst
Adds(claim, i, f) ==
    claim.con.action = "add" /\ Scope(claim) = i /\ ToLower[claim.con.field] = ToLower[f]
Releases(claim, i, f) ==
    /\ Scope(claim) = i
    /\ \/ claim.con.action = "instanceRemove"
       \/ claim.con.action = "remove" /\ ToLower[claim.con.field] = ToLower[f]
Holding(i, f) ==
    \E k \in DOMAIN claims :
        /\ Adds(claims[k], i, f)
        /\ \A l \in (k + 1)..Len(claims) : ~Releases(claims[l], i, f)

(***************************************************************************)
(* Unique constraints do their work across concurrent pushes: of two       *)
(* committed pushes that claim the same name (handleUniqueConstraints)     *)
(* another one released it between them.                                   *)
(***************************************************************************)
ClaimedOnce ==
    \A i \in Instances, f \in Fields : \A k, l \in DOMAIN claims :
        k < l /\ Adds(claims[k], i, f) /\ Adds(claims[l], i, f)
            => \E m \in (k + 1)..(l - 1) : Releases(claims[m], i, f)

(***************************************************************************)
(* The table unique_constraints holds exactly the names that committed     *)
(* pushes have claimed and not released: a rollback, a retry or a removal  *)
(* of a whole instance leaves none behind and takes none away.             *)
(***************************************************************************)
UniquesMatchClaims ==
    \A i \in Instances, f \in Fields :
        Holding(i, f) <=> \E u \in uniques : u.inst = i /\ u.field = ToLower[f]

(***************************************************************************)
(* Push notifies subscribers only of events that are stored, with the      *)
(* sequence and the links they are stored with, however often ExecuteTx    *)
(* ran the transaction.                                                    *)
(***************************************************************************)
NotifiedIsStored == notified \subseteq events

(***************************************************************************)
(* What is left of the lists on a database that does not isolate pushes:   *)
(* the unique indices still give every event at most one successor, and a  *)
(* link that is not NULL names a stored earlier event of the same stream.  *)
(***************************************************************************)
NoForks ==
    /\ \A e, f \in events :
          SameStream(e, f) /\ e.prevType = f.prevType /\ e.prevType # 0 => e = f
    /\ \A e \in events :
          e.prevType # 0 =>
              \E f \in events : SameStream(e, f) /\ f.seq = e.prevType /\ f.seq < e.seq
=============================================================================
