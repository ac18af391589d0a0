-------------------------- MODULE EventStoreProofs --------------------------
(***************************************************************************)
(* Proofs about EventStore, for every set of clients, pushes and bounds:   *)
(* its type invariant, that its streams and aggregates are linked lists in *)
(* sequence order when the database isolates pushes, and that it then      *)
(* implements the abstract log LogSpec.                                    *)
(***************************************************************************)
EXTENDS EventStore, SequenceTheorems, WellFoundedInduction, TLAPS

-----------------------------------------------------------------------------
(* The maximum of a bounded set of rows                                    *)

\* A nonempty set of naturals with an upper bound has a largest element.
LEMMA LargestNatural ==
    ASSUME NEW S \in SUBSET Nat, S # {}, NEW b \in Nat, \A s \in S : s <= b
    PROVE  \E m \in S : \A s \in S : s <= m
<1> DEFINE T == {b - s : s \in S}
<1>1. T \subseteq Nat /\ T # {}
  <2>1. \A s \in S : b - s \in Nat
    OBVIOUS
  <2>2. PICK s \in S : TRUE
    OBVIOUS
  <2>3. b - s \in T
    BY <2>2
  <2> QED  BY <2>1, <2>3
<1>2. PICK x \in T : \A y \in T : ~(<<y, x>> \in OpToRel(<, Nat))
  <2> HIDE DEF T
  <2> QED  BY <1>1, NatLessThanWellFounded, WFMin
<1>3. PICK m \in S : x = b - m
  OBVIOUS
<1>4. ASSUME NEW s \in S PROVE s <= m
  <2>1. b - s \in T /\ b - s \in Nat /\ b - m \in Nat
    OBVIOUS
  <2>2. ~(<<b - s, b - m>> \in OpToRel(<, Nat))
    BY <2>1, <1>2, <1>3
  <2>3. ~(b - s < b - m)
    BY <2>1, <2>2 DEF OpToRel
  <2> QED  BY <2>3
<1> QED  BY <1>3, <1>4

\* MaxSequence of rows with bounded sequences: one of them has it and none exceeds it.
LEMMA MaxSequenceFacts ==
    ASSUME NEW rows, \A e \in rows : e.seq \in Nat,
           NEW b \in Nat, \A e \in rows : e.seq <= b
    PROVE  /\ MaxSequence(rows) \in Nat
           /\ rows # {} => \E e \in rows : e.seq = MaxSequence(rows)
           /\ \A e \in rows : e.seq <= MaxSequence(rows)
<1>1. CASE rows = {}
  BY <1>1 DEF MaxSequence
<1>2. CASE rows # {}
  <2> DEFINE S == {e.seq : e \in rows}
  <2>1. \E m \in S : \A s \in S : s <= m
    <3>1. S \in SUBSET Nat /\ S # {} /\ \A s \in S : s <= b
      BY <1>2
    <3> HIDE DEF S
    <3> QED  BY <3>1, LargestNatural
  <2>2. \E m \in S : \A e \in rows : e.seq <= m
    BY <2>1
  <2>3. MaxSequence(rows) = CHOOSE m \in S : \A e \in rows : e.seq <= m
    BY <1>2 DEF MaxSequence
  <2>4. MaxSequence(rows) \in S /\ \A e \in rows : e.seq <= MaxSequence(rows)
    <3> HIDE DEF S
    <3> QED  BY <2>2, <2>3
  <2> QED  BY <2>4
<1> QED  BY <1>1, <1>2

-----------------------------------------------------------------------------

(***************************************************************************)
(* The inductive invariant.  What one transaction has computed is right    *)
(* with respect to what that transaction sees (its snapshot and its own    *)
(* rows); ReadsUnchanged carries it over to the table at the commit.       *)
(***************************************************************************)

\* Every row has a sequence its database sequence has given out.
Drawn ==
    /\ \A e \in events : e.seq <= sequences[e.inst]
    /\ \A c \in Clients : \A e \in staged[c] : e.seq <= sequences[e.inst]
    /\ \A c \in Clients : pc[c] = "write" => pending[c].seq <= sequences[pending[c].inst]

\* A snapshot was once the table; nothing is staged outside of a transaction, and a
\* transaction is about commands that commandsToRepository has accepted.
Snapshots ==
    \A c \in Clients :
        /\ snapshot[c].events \subseteq events
        /\ IF pc[c] = "idle" THEN staged[c] = {} ELSE Accepted(batch[c])

BaseInv == TypeOK /\ Drawn /\ Snapshots

\* No two rows of an instance have the same sequence.
DistinctRows ==
    /\ \A e, f \in events : e.inst = f.inst /\ e.seq = f.seq => e = f
    /\ \A c \in Clients : \A e \in staged[c] : \A f \in events : e.inst = f.inst => e.seq # f.seq
    /\ \A c, d \in Clients : \A e \in staged[c] : \A f \in staged[d] :
          e.inst = f.inst /\ e.seq = f.seq => c = d /\ e = f

\* What c sees when the database is serializable.
Seen(c) == snapshot[c].events \cup staged[c]

\* The rows of a transaction are later than its snapshot.
RowsAfterSnapshot(c) ==
    /\ \A e \in staged[c] :
          /\ e.inst = batch[c].inst
          /\ \A f \in snapshot[c].events : f.inst = e.inst => f.seq < e.seq
    /\ pc[c] = "write" =>
          /\ pending[c].inst = batch[c].inst
          /\ \A f \in Seen(c) : f.inst = pending[c].inst => f.seq < pending[c].seq

\* They are linked to what the transaction sees.
RowsLinked(c) ==
    /\ \A e \in staged[c] : Linked(e, Seen(c))
    /\ pc[c] = "write" => Linked(pending[c], Seen(c))

IInv ==
    /\ BaseInv /\ DistinctRows /\ StreamsAreLists
    /\ \A c \in Clients : RowsAfterSnapshot(c) /\ RowsLinked(c)

-----------------------------------------------------------------------------
(* Facts about single transactions                                         *)

\* Scan writes an owner into a pushed event: the batch keeps its type and its ids.
LEMMA ScanOwner ==
    ASSUME NEW b \in Batch, Accepted(b), NEW k \in DOMAIN b.cmds, NEW o \in Owners
    PROVE  LET u == [b EXCEPT !.cmds[k].owner = o]
           IN  /\ u \in Batch /\ Accepted(u)
               /\ u.inst = b.inst /\ u.cons = b.cons
               /\ Len(u.cmds) = Len(b.cmds) /\ DOMAIN u.cmds = DOMAIN b.cmds
<1> DEFINE cmd == [b.cmds[k] EXCEPT !.owner = o]
           cmds == [b.cmds EXCEPT ![k] = cmd]
           u == [b EXCEPT !.cmds[k].owner = o]
<1>1. b.cmds \in Seq(Command) /\ b.cmds[k] \in Command /\ k \in 1..Len(b.cmds)
  BY DEF Batch
<1>2. cmd \in Command /\ cmd.aid = b.cmds[k].aid
  BY <1>1 DEF Command
<1>3. cmds \in Seq(Command) /\ Len(cmds) = Len(b.cmds) /\ DOMAIN cmds = DOMAIN b.cmds
  BY <1>1, <1>2, ExceptSeq
<1>4. u = [b EXCEPT !.cmds = cmds]
  OBVIOUS
<1>5. u \in Batch /\ u.inst = b.inst /\ u.cons = b.cons /\ u.cmds = cmds
  BY <1>3, <1>4 DEF Batch
<1>6. Accepted(u)
  <2> SUFFICES ASSUME NEW j \in DOMAIN cmds PROVE cmds[j].aid # NoID
    BY <1>5 DEF Accepted
  <2>1. cmds[j].aid = b.cmds[j].aid
    BY <1>1, <1>2, <1>3
  <2> QED  BY <2>1, <1>3 DEF Accepted
<1> QED  BY <1>3, <1>5, <1>6

\* What crdbInsert computes is a row, and it links to the rows the statement sees.
LEMMA InsertedRowFacts ==
    ASSUME BaseInv, NEW c \in Clients, pc[c] = "query",
           NEW s \in Nat \ {0}
    PROVE  LET row == InsertedRow(c, batch[c].cmds[at[c]], s)
               aggregate == Aggregate(EventsSeen(c), row.inst, row.atype, row.aid)
           IN  /\ row \in PendingRow
               /\ row.inst = batch[c].inst /\ row.seq = s
               /\ row.prevType = MaxSequence(Stream(EventsSeen(c), row.inst, row.atype))
               /\ row.prevAgg = MaxSequence(aggregate)
               /\ aggregate # {} => \E e \in aggregate : row.owner = e.owner
<1> DEFINE cmd == batch[c].cmds[at[c]]
           i == batch[c].inst
           stream == Stream(EventsSeen(c), i, cmd.atype)
           agg == Aggregate(EventsSeen(c), i, cmd.atype, cmd.aid)
           row == InsertedRow(c, cmd, s)
<1>1. /\ cmd \in Command /\ cmd.aid # NoID /\ i \in Instances
  <2>1. batch[c] \in Batch /\ at[c] \in DOMAIN batch[c].cmds
    BY DEF BaseInv, TypeOK
  <2>2. Accepted(batch[c])
    BY DEF BaseInv, Snapshots
  <2>3. batch[c].cmds \in Seq(Command) /\ i \in Instances
    BY <2>1 DEF Batch
  <2> QED  BY <2>1, <2>2, <2>3 DEF Accepted
<1>2. EventsSeen(c) \subseteq Event /\ \A e \in EventsSeen(c) : e.inst = i => e.seq <= sequences[i]
  BY DEF BaseInv, TypeOK, Snapshots, Drawn, EventsSeen
<1>3. sequences[i] \in Nat
  BY <1>1 DEF BaseInv, TypeOK
<1>4. \A e \in stream : e \in Event /\ e.seq \in Nat /\ e.seq <= sequences[i]
  BY <1>2 DEF Stream, Event
<1>5. \A e \in agg : e \in Event /\ e.seq \in Nat /\ e.seq <= sequences[i]
  BY <1>4 DEF Aggregate
<1> HIDE DEF stream, agg
<1>6. MaxSequence(stream) \in Nat
  BY <1>3, <1>4, MaxSequenceFacts
<1>7. MaxSequence(agg) \in Nat /\ (agg # {} => \E e \in agg : e.seq = MaxSequence(agg))
  BY <1>3, <1>5, MaxSequenceFacts
<1> DEFINE last == CHOOSE e \in agg : e.seq = MaxSequence(agg)
<1>8. agg # {} => last \in agg
  BY <1>7
<1> HIDE DEF last
<1>9. row = [inst |-> i, atype |-> cmd.atype, aid |-> cmd.aid,
             owner |-> IF agg = {} THEN cmd.owner ELSE last.owner,
             seq |-> s, prevAgg |-> MaxSequence(agg), prevType |-> MaxSequence(stream)]
  BY DEF InsertedRow, stream, agg, last
<1>10. agg # {} => last.owner \in Owners
  BY <1>5, <1>8 DEF Event
<1>11. row \in PendingRow
  BY <1>1, <1>6, <1>7, <1>9, <1>10 DEF PendingRow, Command
<1>12. /\ row.inst = i /\ row.seq = s /\ row.prevType = MaxSequence(stream)
       /\ row.prevAgg = MaxSequence(agg) /\ row.atype = cmd.atype /\ row.aid = cmd.aid
       /\ agg # {} => row.owner = last.owner
  BY <1>9
<1> QED  BY <1>8, <1>11, <1>12 DEF stream, agg

-----------------------------------------------------------------------------
(* The type invariant                                                      *)

\* The base invariant holds when the tables are empty and nobody pushes.
LEMMA BaseInit == Init => BaseInv
<1> SUFFICES ASSUME Init PROVE BaseInv
  OBVIOUS
<1>1. TypeOK
  BY SystemAssumption, EmptySeq
     DEF Init, LogInit, TypeOK, EmptyBatch, EmptySnapshot, Batch, PCs, Outcomes
<1>2. Drawn /\ Snapshots
  BY DEF Init, LogInit, Drawn, Snapshots, EmptySnapshot
<1> QED  BY <1>1, <1>2 DEF BaseInv

\* BEGIN and the start of a new attempt.
LEMMA BeginTxBase ==
    ASSUME BaseInv, NEW c \in Clients, NEW b \in Batch, Accepted(b), BeginTx(c, b),
           UNCHANGED <<events, uniques, sequences, created, notified, claims>>,
           outcome' \in [Clients -> Outcomes], DOMAIN scanned' = Clients
    PROVE  BaseInv'
<1> USE DEF BaseInv, BeginTx, NoRow
<1>1. b.cmds \in Seq(Command) /\ b.cons \in Seq(Constraint)
  BY DEF Batch
<1>2. /\ pc'[c] \in {"query", "constraints", "commit"}
      /\ pc'[c] = "query" => 1 \in DOMAIN b.cmds
      /\ pc'[c] = "constraints" => 1 \in DOMAIN b.cons
  BY <1>1 DEF AfterEvents, TypeOK
<1>3. TypeOK'
  <2>1. pending' = [d \in Clients |-> pending'[d]]
    BY Zenon DEF TypeOK
  <2>2. \A d \in Clients :
          /\ (pc[d] = "write")' => pending'[d] \in PendingRow
          /\ (pc[d] \in {"query", "write"})' => at'[d] \in DOMAIN batch'[d].cmds
          /\ (pc[d] = "constraints")' => at'[d] \in DOMAIN batch'[d].cons
    BY <1>2 DEF TypeOK
  <2>3. /\ pc' \in [Clients -> PCs] /\ batch' \in [Clients -> Batch]
        /\ at' \in [Clients -> Nat \ {0}]
        /\ snapshot' \in [Clients -> [events : SUBSET Event, uniques : SUBSET UniqueRow]]
        /\ staged' \in [Clients -> SUBSET Event]
        /\ added' \in [Clients -> SUBSET UniqueRow]
        /\ removed' \in [Clients -> SUBSET UniqueRow]
    BY <1>2 DEF TypeOK, PCs
  <2> QED  BY <2>1, <2>2, <2>3 DEF TypeOK
<1>4. Drawn'
  BY <1>2 DEF Drawn, TypeOK
<1>5. Snapshots'
  BY <1>2 DEF Snapshots, TypeOK, Accepted
<1> QED  BY <1>3, <1>4, <1>5

\* The end of a transaction, whatever it has added to the tables.
LEMMA EndTxBase ==
    ASSUME BaseInv, NEW c \in Clients, EndTx(c),
           UNCHANGED <<sequences, created>>,
           events \subseteq events', events' \subseteq events \cup staged[c],
           uniques' \subseteq UniqueRow,
           outcome' \in [Clients -> Outcomes],
           claims' \in Seq([inst : Instances, con : Constraint])
    PROVE  BaseInv'
<1> USE DEF BaseInv, EndTx, NoRow, EmptySnapshot, EmptyBatch
<1>1. EmptyBatch \in Batch
  BY SystemAssumption, EmptySeq DEF Batch
<1>2. TypeOK'
  <2>1. pending' = [d \in Clients |-> pending'[d]]
    BY Zenon DEF TypeOK
  <2>2. \A d \in Clients :
          /\ (pc[d] = "write")' => pending'[d] \in PendingRow
          /\ (pc[d] \in {"query", "write"})' => at'[d] \in DOMAIN batch'[d].cmds
          /\ (pc[d] = "constraints")' => at'[d] \in DOMAIN batch'[d].cons
    BY DEF TypeOK
  <2>3. /\ pc' \in [Clients -> PCs] /\ batch' \in [Clients -> Batch]
        /\ at' \in [Clients -> Nat \ {0}]
        /\ snapshot' \in [Clients -> [events : SUBSET Event, uniques : SUBSET UniqueRow]]
        /\ staged' \in [Clients -> SUBSET Event]
        /\ added' \in [Clients -> SUBSET UniqueRow]
        /\ removed' \in [Clients -> SUBSET UniqueRow]
    BY <1>1 DEF TypeOK, PCs
  <2>4. events' \subseteq Event
    BY DEF TypeOK
  <2> QED  BY <2>1, <2>2, <2>3, <2>4 DEF TypeOK
<1>3. Drawn'
  BY DEF Drawn, TypeOK
<1>4. Snapshots'
  BY DEF Snapshots, TypeOK, Accepted
<1> QED  BY <1>2, <1>3, <1>4

\* A rolled back transaction leaves nothing but the sequence values it drew.
LEMMA RollbackBase ==
    ASSUME BaseInv, NEW c \in Clients, NEW result \in Outcomes, Rollback(c, result)
    PROVE  BaseInv'
<1>1. outcome' \in [Clients -> Outcomes]
  BY DEF BaseInv, TypeOK, Rollback
<1>2. EndTx(c) /\ UNCHANGED <<events, uniques, sequences, created, notified, claims>>
  BY DEF Rollback
<1> QED  BY <1>1, <1>2, EndTxBase DEF BaseInv, TypeOK

\* The start of a Push, or its refusal by commandsToRepository.
LEMMA PushBase == ASSUME BaseInv, NEW c \in Clients, Push(c) PROVE BaseInv'
<1> PICK b \in Batches :
      IF Accepted(b)
      THEN /\ BeginTx(c, b)
           /\ scanned' = [scanned EXCEPT ![c] = [k \in DOMAIN b.cmds |-> NoRow]]
           /\ outcome' = [outcome EXCEPT ![c] = "none"]
      ELSE outcome' = [outcome EXCEPT ![c] = "invalid"] /\ UNCHANGED <<pc, txVars>>
  BY DEF Push
<1>1. b \in Batch /\ outcome' \in [Clients -> Outcomes]
  BY BatchesAssumption DEF BaseInv, TypeOK, Outcomes
<1>2. UNCHANGED <<events, uniques, sequences, created, notified, claims>>
  BY DEF Push
<1>3. CASE Accepted(b)
  <2>1. DOMAIN scanned' = Clients
    BY <1>3 DEF BaseInv, TypeOK
  <2> QED  BY <1>1, <1>2, <1>3, <2>1, BeginTxBase
<1>4. CASE ~Accepted(b)
  <2>1. UNCHANGED <<events, uniques, sequences, created, pc, txVars, notified, claims>>
    BY <1>2, <1>4
  <2> QED  BY <1>1, <2>1 DEF BaseInv, TypeOK, Drawn, Snapshots, Accepted, txVars
<1> QED  BY <1>3, <1>4

\* The SELECT of crdbInsert draws a new sequence value and computes a row of the right type.
LEMMA QueryRowBase == ASSUME BaseInv, NEW c \in Clients, QueryRow(c) PROVE BaseInv'
<1> USE DEF BaseInv
<1> DEFINE i == batch[c].inst
           s == sequences[i] + 1
           row == InsertedRow(c, batch[c].cmds[at[c]], s)
<1>1. /\ pc[c] = "query" /\ pc' = [pc EXCEPT ![c] = "write"]
      /\ sequences' = [sequences EXCEPT ![i] = s]
      /\ pending' = [pending EXCEPT ![c] = row]
      /\ UNCHANGED <<events, uniques, created, batch, at, scanned, staged, added, removed,
                     snapshot, outcome, notified, claims>>
  BY DEF QueryRow
<1>2. i \in Instances /\ sequences[i] \in Nat /\ s \in Nat \ {0}
  BY DEF TypeOK, Batch
<1>3. row \in PendingRow /\ row.inst = i /\ row.seq = s
  BY <1>1, <1>2, InsertedRowFacts
<1> HIDE DEF row
<1>4. TypeOK'
  <2>1. pending' = [d \in Clients |-> pending'[d]]
    BY <1>1, Zenon DEF TypeOK
  <2>2. \A d \in Clients :
          /\ (pc[d] = "write")' => pending'[d] \in PendingRow
          /\ (pc[d] \in {"query", "write"})' => at'[d] \in DOMAIN batch'[d].cmds
          /\ (pc[d] = "constraints")' => at'[d] \in DOMAIN batch'[d].cons
    BY <1>1, <1>3 DEF TypeOK
  <2> QED  BY <1>1, <1>2, <2>1, <2>2 DEF TypeOK, PCs
<1>5. \A j \in Instances : sequences[j] <= sequences'[j]
  BY <1>1, <1>2 DEF TypeOK
<1>6. sequences' \in [Instances -> Nat] /\ sequences'[i] = s
  BY <1>1, <1>2 DEF TypeOK
<1>7. Drawn'
  <2>1. \A e \in events' : e.seq <= sequences'[e.inst]
    BY <1>1, <1>5, <1>6 DEF TypeOK, Drawn, Event
  <2>2. ASSUME NEW d \in Clients, NEW e \in staged'[d] PROVE e.seq <= sequences'[e.inst]
    BY <1>1, <1>5, <1>6 DEF TypeOK, Drawn, Event
  <2>3. ASSUME NEW d \in Clients, pc'[d] = "write"
        PROVE  pending'[d].seq <= sequences'[pending'[d].inst]
    <3>1. CASE d = c
      BY <3>1, <1>1, <1>2, <1>3, <1>6 DEF TypeOK
    <3>2. CASE d # c
      <4>1. pending'[d] = pending[d] /\ pc[d] = "write" /\ pending[d] \in PendingRow
        BY <2>3, <3>2, <1>1 DEF TypeOK
      <4> QED  BY <4>1, <1>5, <1>6 DEF TypeOK, Drawn, PendingRow
    <3> QED  BY <3>1, <3>2
  <2> QED  BY <2>1, <2>2, <2>3 DEF Drawn
<1>8. Snapshots'
  BY <1>1 DEF Snapshots, TypeOK, Accepted
<1> QED  BY <1>4, <1>7, <1>8

\* The INSERT of crdbInsert stores a row with an owner and moves to the next statement.
LEMMA WriteRowBase == ASSUME BaseInv, NEW c \in Clients, WriteRow(c) PROVE BaseInv'
<1> USE DEF BaseInv
<1> DEFINE row == pending[c]
           b == [batch[c] EXCEPT !.cmds[at[c]].owner = row.owner]
<1>1. /\ pc[c] = "write" /\ row.owner # NoOwner
      /\ staged' = [staged EXCEPT ![c] = @ \cup {row}]
      /\ pending' = [pending EXCEPT ![c] = NoRow]
      /\ DOMAIN scanned' = DOMAIN scanned
      /\ UNCHANGED <<events, uniques, sequences, created, added, removed, snapshot,
                     outcome, notified, claims>>
  BY DEF WriteRow
<1>2. row \in Event
  BY <1>1 DEF TypeOK, PendingRow, Event
<1>3. batch[c] \in Batch /\ Accepted(batch[c]) /\ at[c] \in DOMAIN batch[c].cmds
  BY <1>1 DEF TypeOK, Snapshots
<1>4. batch' = [batch EXCEPT ![c] = b]
  BY DEF WriteRow
<1>5. /\ b \in Batch /\ Accepted(b) /\ b.cons = batch[c].cons
      /\ Len(b.cmds) = Len(batch[c].cmds) /\ DOMAIN b.cmds = DOMAIN batch[c].cmds
  BY <1>2, <1>3, ScanOwner DEF Event
<1> HIDE DEF b
<1>6. batch[c].cmds \in Seq(Command) /\ batch[c].cons \in Seq(Constraint)
  BY <1>3 DEF Batch
<1>7. /\ pc' \in [Clients -> PCs] /\ at' \in [Clients -> Nat \ {0}]
      /\ pc'[c] \in {"query", "constraints", "commit"}
      /\ \A d \in Clients \ {c} : pc'[d] = pc[d] /\ at'[d] = at[d]
      /\ pc'[c] = "query" => at'[c] \in DOMAIN b.cmds
      /\ pc'[c] = "constraints" => at'[c] \in DOMAIN b.cons
  <2>1. CASE at[c] < Len(batch[c].cmds)
    <3>1. at' = [at EXCEPT ![c] = @ + 1] /\ pc' = [pc EXCEPT ![c] = "query"]
      BY <2>1 DEF WriteRow
    <3>2. at[c] + 1 \in DOMAIN b.cmds /\ at[c] + 1 \in Nat \ {0}
      BY <2>1, <1>3, <1>5, <1>6 DEF TypeOK
    <3> QED  BY <3>1, <3>2 DEF TypeOK, PCs
  <2>2. CASE ~(at[c] < Len(batch[c].cmds))
    <3>1. at' = [at EXCEPT ![c] = 1] /\ pc' = [pc EXCEPT ![c] = AfterEvents(batch[c])]
      BY <2>2 DEF WriteRow
    <3>2. /\ AfterEvents(batch[c]) \in {"constraints", "commit"}
          /\ AfterEvents(batch[c]) = "constraints" => 1 \in DOMAIN b.cons
      BY <1>5, <1>6, EmptySeq DEF AfterEvents
    <3> QED  BY <3>1, <3>2 DEF TypeOK, PCs
  <2> QED  BY <2>1, <2>2
<1>8. TypeOK'
  <2>1. pending' = [d \in Clients |-> pending'[d]]
    BY <1>1, Zenon DEF TypeOK
  <2>2. \A d \in Clients :
          /\ (pc[d] = "write")' => pending'[d] \in PendingRow
          /\ (pc[d] \in {"query", "write"})' => at'[d] \in DOMAIN batch'[d].cmds
          /\ (pc[d] = "constraints")' => at'[d] \in DOMAIN batch'[d].cons
    BY <1>1, <1>4, <1>7 DEF TypeOK
  <2>3. batch' \in [Clients -> Batch] /\ staged' \in [Clients -> SUBSET Event]
    BY <1>1, <1>2, <1>4, <1>5 DEF TypeOK
  <2> QED  BY <1>1, <1>7, <2>1, <2>2, <2>3 DEF TypeOK
<1>9. Drawn'
  BY <1>1, <1>7 DEF Drawn, TypeOK
<1>10. Snapshots'
  BY <1>1, <1>4, <1>5, <1>7 DEF Snapshots, TypeOK, Accepted
<1> QED  BY <1>8, <1>9, <1>10

\* A turn of handleUniqueConstraints touches constraint rows only.
LEMMA ConstraintBase ==
    ASSUME BaseInv, NEW c \in Clients, HandleUniqueConstraint(c) PROVE BaseInv'
<1> USE DEF BaseInv
<1> DEFINE con == batch[c].cons[at[c]]
           rows == UniqueRowsOf(batch[c].inst, con)
<1>1. /\ pc[c] = "constraints" /\ at[c] \in DOMAIN batch[c].cons
      /\ batch[c] \in Batch /\ batch[c].cons \in Seq(Constraint) /\ at[c] \in Nat
  BY DEF HandleUniqueConstraint, TypeOK, Batch
<1>2. con \in Constraint /\ batch[c].inst \in Instances
  BY <1>1 DEF Batch
<1>3. rows \subseteq UniqueRow
  BY <1>2, SystemAssumption, ToLowerAssumption DEF UniqueRowsOf, UniqueRow, Constraint
<1>4. CASE Rollback(c, "exists")
  BY <1>4, RollbackBase DEF Outcomes
<1>5. CASE /\ at' = [at EXCEPT ![c] = @ + 1]
           /\ pc' = [pc EXCEPT ![c] = IF at[c] < Len(batch[c].cons) THEN @ ELSE "commit"]
           /\ UNCHANGED <<events, uniques, sequences, created, batch, scanned, pending,
                          staged, snapshot, outcome, notified, claims>>
           /\ added' \in [Clients -> SUBSET UniqueRow]
           /\ removed' \in [Clients -> SUBSET UniqueRow]
  <2>1. /\ pc' \in [Clients -> PCs] /\ at' \in [Clients -> Nat \ {0}]
        /\ pc'[c] \in {"constraints", "commit"}
        /\ \A d \in Clients \ {c} : pc'[d] = pc[d] /\ at'[d] = at[d]
        /\ pc'[c] = "constraints" => at'[c] \in DOMAIN batch[c].cons
    BY <1>1, <1>5 DEF TypeOK, PCs
  <2>2. \A d \in Clients :
          /\ (pc[d] = "write")' => pending'[d] \in PendingRow
          /\ (pc[d] \in {"query", "write"})' => at'[d] \in DOMAIN batch'[d].cmds
          /\ (pc[d] = "constraints")' => at'[d] \in DOMAIN batch'[d].cons
    BY <1>5, <2>1 DEF TypeOK
  <2>3. TypeOK'
    BY <1>5, <2>1, <2>2 DEF TypeOK
  <2>4. Drawn' /\ Snapshots'
    BY <1>1, <1>5, <2>1 DEF TypeOK, Drawn, Snapshots, Accepted
  <2> QED  BY <2>3, <2>4
<1>6. added[c] \subseteq UniqueRow /\ removed[c] \subseteq UniqueRow /\ uniques \subseteq UniqueRow
  BY DEF TypeOK
<1>7. CASE con.action = "add"
  <2>1. CASE rows \cap UniquesSeen(c) # {}
    BY <1>4, <1>7, <2>1 DEF HandleUniqueConstraint
  <2>2. CASE rows \cap UniquesSeen(c) = {}
    <3>1. added' = [added EXCEPT ![c] = @ \cup rows] /\ UNCHANGED removed
      BY <1>7, <2>2 DEF HandleUniqueConstraint
    <3>2. /\ added' \in [Clients -> SUBSET UniqueRow]
          /\ removed' \in [Clients -> SUBSET UniqueRow]
      BY <1>3, <3>1 DEF TypeOK
    <3> QED  BY <1>5, <1>7, <2>2, <3>2 DEF HandleUniqueConstraint
  <2> QED  BY <2>1, <2>2
<1>8. CASE con.action # "add"
  <2> DEFINE hit == rows \cap UniquesSeen(c)
  <2>1. /\ added' = [added EXCEPT ![c] = @ \ hit]
        /\ removed' = [removed EXCEPT ![c] = @ \cup hit]
    BY <1>8 DEF HandleUniqueConstraint
  <2>2. hit \subseteq UniqueRow
    BY <1>3
  <2> HIDE DEF hit
  <2>3. /\ added' \in [Clients -> SUBSET UniqueRow]
        /\ removed' \in [Clients -> SUBSET UniqueRow]
    BY <2>1, <2>2 DEF TypeOK
  <2> QED  BY <1>5, <1>8, <2>3 DEF HandleUniqueConstraint
<1> QED  BY <1>7, <1>8

\* COMMIT makes typed rows visible and notifies of what it stored.
LEMMA CommitBase == ASSUME BaseInv, NEW c \in Clients, Commit(c) PROVE BaseInv'
<1> USE DEF BaseInv
<1> DEFINE Claimed == [inst : Instances, con : Constraint]
           new == [k \in DOMAIN batch[c].cons |->
                     [inst |-> batch[c].inst, con |-> batch[c].cons[k]]]
<1>1. batch[c].inst \in Instances /\ batch[c].cons \in Seq(Constraint)
  BY DEF TypeOK, Batch
<1>2. new \in Seq(Claimed)
  <2>1. DOMAIN batch[c].cons = 1..Len(batch[c].cons) /\ Len(batch[c].cons) \in Nat
    BY <1>1
  <2>2. \A k \in 1..Len(batch[c].cons) :
          [inst |-> batch[c].inst, con |-> batch[c].cons[k]] \in Claimed
    BY <1>1, <2>1
  <2> QED  BY <2>1, <2>2, SeqDef
<1>3. claims' \in Seq(Claimed)
  <2>1. claims' = claims \o new /\ claims \in Seq(Claimed)
    BY DEF Commit, TypeOK
  <2> HIDE DEF new, Claimed
  <2> QED  BY <1>2, <2>1, ConcatProperties
<1>4. /\ events \subseteq events' /\ events' \subseteq events \cup staged[c]
      /\ uniques' \subseteq UniqueRow
      /\ outcome' \in [Clients -> Outcomes]
      /\ EndTx(c) /\ UNCHANGED <<sequences, created>>
  BY DEF Commit, TypeOK, Outcomes
<1> QED  BY <1>3, <1>4, EndTxBase

\* Every step preserves the part of the invariant that does not depend on the isolation.
LEMMA BaseStep == BaseInv /\ [Next]_esVars => BaseInv'
<1> SUFFICES ASSUME BaseInv, [Next]_esVars PROVE BaseInv'
  OBVIOUS
<1>1. ASSUME NEW c \in Clients, Fail(c) PROVE BaseInv'
  BY <1>1, RollbackBase DEF Fail, Outcomes
<1>2. ASSUME NEW c \in Clients, Retry(c) PROVE BaseInv'
  <2>1. /\ batch[c] \in Batch /\ Accepted(batch[c]) /\ outcome' \in [Clients -> Outcomes]
        /\ DOMAIN scanned' = Clients
    BY <1>2 DEF BaseInv, TypeOK, Snapshots, Retry, Open
  <2> QED  BY <1>2, <2>1, BeginTxBase DEF Retry
<1>3. ASSUME NEW i \in Instances, CreateInstance(i) PROVE BaseInv'
  BY <1>3 DEF CreateInstance, txVars, BaseInv, TypeOK, Drawn, Snapshots, Accepted
<1>4. CASE UNCHANGED esVars
  BY <1>4 DEF esVars, txVars, BaseInv, TypeOK, Drawn, Snapshots, Accepted
<1> QED  BY <1>1, <1>2, <1>3, <1>4, PushBase, QueryRowBase, WriteRowBase, ConstraintBase,
            CommitBase DEF Next

\* TypeOK holds in every state of EventStore, whatever the isolation of the database.
THEOREM TypeCorrect == Spec => []TypeOK
<1>1. BaseInv => TypeOK
  BY DEF BaseInv
<1> QED  BY <1>1, BaseInit, BaseStep, PTL DEF Spec

-----------------------------------------------------------------------------
(* Streams and aggregates are linked lists                                 *)

\* Linked depends only on the earlier rows of the stream and on the owners.
LEMMA LinkedTransfer ==
    ASSUME NEW e, NEW S, NEW T,
           Before(Stream(S, e.inst, e.atype), e.seq) = Before(Stream(T, e.inst, e.atype), e.seq),
           \A f \in T : SameAggregate(e, f) => e.owner = f.owner,
           Linked(e, S)
    PROVE  Linked(e, T)
<1>1. Before(Aggregate(S, e.inst, e.atype, e.aid), e.seq)
        = {f \in Before(Stream(S, e.inst, e.atype), e.seq) : f.aid = e.aid}
  BY DEF Before, Aggregate
<1>2. Before(Aggregate(T, e.inst, e.atype, e.aid), e.seq)
        = {f \in Before(Stream(T, e.inst, e.atype), e.seq) : f.aid = e.aid}
  BY DEF Before, Aggregate
<1> QED  BY <1>1, <1>2 DEF Linked

\* The state of a transaction that no step of others touches.
Local(c) == <<pc[c], batch[c].inst, pending[c], staged[c], snapshot[c].events>>

\* A step that leaves a client's rows alone keeps what is known of them.
LEMMA LocalUnchanged ==
    ASSUME NEW c \in Clients, Local(c)' = Local(c), RowsAfterSnapshot(c), RowsLinked(c)
    PROVE  (RowsAfterSnapshot(c) /\ RowsLinked(c))'
BY DEF Local, RowsAfterSnapshot, RowsLinked, Seen

\* A transaction without rows.
LEMMA LocalEmpty ==
    ASSUME NEW c \in Clients, staged'[c] = {}, pc'[c] # "write"
    PROVE  (RowsAfterSnapshot(c) /\ RowsLinked(c))'
BY DEF RowsAfterSnapshot, RowsLinked

\* A step that leaves the table alone and after which c has no rows.
LEMMA EmptyStep ==
    ASSUME IInv, BaseInv', NEW c \in Clients, UNCHANGED events,
           staged' = [staged EXCEPT ![c] = {}], pc'[c] # "write",
           \A d \in Clients \ {c} : Local(d)' = Local(d)
    PROVE  IInv'
<1>1. staged'[c] = {} /\ \A d \in Clients \ {c} : staged'[d] = staged[d]
  BY DEF IInv, BaseInv, TypeOK
<1>2. DistinctRows'
  BY <1>1 DEF IInv, DistinctRows
<1>3. StreamsAreLists'
  BY DEF IInv, StreamsAreLists
<1>4. \A d \in Clients : (RowsAfterSnapshot(d) /\ RowsLinked(d))'
  BY <1>1, LocalEmpty, LocalUnchanged DEF IInv
<1> QED  BY <1>2, <1>3, <1>4 DEF IInv

\* A step that touches no row at all.
LEMMA SameRowsStep ==
    ASSUME IInv, BaseInv', UNCHANGED <<events, staged>>,
           \A d \in Clients : Local(d)' = Local(d)
    PROVE  IInv'
<1>1. DistinctRows' /\ StreamsAreLists'
  BY DEF IInv, DistinctRows, StreamsAreLists
<1>2. \A d \in Clients : (RowsAfterSnapshot(d) /\ RowsLinked(d))'
  BY LocalUnchanged DEF IInv
<1> QED  BY <1>1, <1>2 DEF IInv

\* In what a transaction sees, an aggregate has one owner.
LEMMA OneOwnerSeen ==
    ASSUME IInv, NEW c \in Clients, NEW e \in Seen(c), NEW f \in Seen(c), SameAggregate(e, f)
    PROVE  e.owner = f.owner
<1>1. CASE e \in staged[c]
  BY <1>1 DEF IInv, RowsLinked, Linked
<1>2. CASE f \in staged[c]
  <2>1. SameAggregate(f, e)
    BY DEF SameAggregate, SameStream
  <2> QED  BY <1>2, <2>1 DEF IInv, RowsLinked, Linked
<1>3. CASE e \in snapshot[c].events /\ f \in snapshot[c].events
  BY <1>3 DEF IInv, BaseInv, Snapshots, StreamsAreLists, Linked
<1> QED  BY <1>1, <1>2, <1>3 DEF Seen

\* The row of a QueryRow is later than all that its transaction sees, and linked to it.
LEMMA QueryRowList ==
    ASSUME Serializable, IInv, BaseInv', NEW c \in Clients, QueryRow(c) PROVE IInv'
<1> DEFINE i == batch[c].inst
           s == sequences[i] + 1
           row == InsertedRow(c, batch[c].cmds[at[c]], s)
<1> USE DEF BaseInv
<1>1. /\ pc[c] = "query" /\ pc' = [pc EXCEPT ![c] = "write"]
      /\ pending' = [pending EXCEPT ![c] = row]
      /\ UNCHANGED <<events, batch, staged, snapshot>>
  BY DEF QueryRow
<1>2. i \in Instances /\ sequences[i] \in Nat /\ s \in Nat \ {0}
  BY DEF IInv, TypeOK, Batch
<1>3. EventsSeen(c) = Seen(c)
  BY DEF EventsSeen, Seen
<1>4. /\ row \in PendingRow /\ row.inst = i /\ row.seq = s
      /\ row.prevType = MaxSequence(Stream(Seen(c), row.inst, row.atype))
      /\ row.prevAgg = MaxSequence(Aggregate(Seen(c), row.inst, row.atype, row.aid))
      /\ Aggregate(Seen(c), row.inst, row.atype, row.aid) # {} =>
           \E e \in Aggregate(Seen(c), row.inst, row.atype, row.aid) : row.owner = e.owner
  <2>1. BaseInv
    BY DEF IInv
  <2> HIDE DEF BaseInv
  <2>2. /\ row \in PendingRow /\ row.inst = i /\ row.seq = s
        /\ row.prevType = MaxSequence(Stream(EventsSeen(c), row.inst, row.atype))
        /\ row.prevAgg = MaxSequence(Aggregate(EventsSeen(c), row.inst, row.atype, row.aid))
        /\ Aggregate(EventsSeen(c), row.inst, row.atype, row.aid) # {} =>
             \E e \in Aggregate(EventsSeen(c), row.inst, row.atype, row.aid) :
                row.owner = e.owner
    BY <1>1, <1>2, <2>1, InsertedRowFacts
  <2> QED  BY Zenon, <1>3, <2>2
<1> HIDE DEF row
<1>5. /\ pc'[c] = "write" /\ pending'[c] = row /\ Seen(c)' = Seen(c)
      /\ \A d \in Clients \ {c} : Local(d)' = Local(d)
  BY <1>1 DEF IInv, TypeOK, Seen, Local
<1>6. \A f \in Seen(c) : f \in Event /\ (f.inst = i => f.seq < s)
  BY <1>2 DEF IInv, TypeOK, Drawn, Snapshots, Seen, Event
<1>7. Linked(row, Seen(c))
  <2>1. Before(Stream(Seen(c), row.inst, row.atype), row.seq)
          = Stream(Seen(c), row.inst, row.atype)
    BY <1>4, <1>6 DEF Before, Stream
  <2>2. Before(Aggregate(Seen(c), row.inst, row.atype, row.aid), row.seq)
          = Aggregate(Seen(c), row.inst, row.atype, row.aid)
    BY <1>4, <1>6 DEF Before, Aggregate, Stream
  <2>3. ASSUME NEW f \in Seen(c), SameAggregate(row, f) PROVE row.owner = f.owner
    <3>1. f \in Aggregate(Seen(c), row.inst, row.atype, row.aid)
      BY <2>3 DEF SameAggregate, SameStream, Aggregate, Stream
    <3>2. PICK e \in Aggregate(Seen(c), row.inst, row.atype, row.aid) : row.owner = e.owner
      BY <1>4, <3>1
    <3>3. e \in Seen(c) /\ SameAggregate(e, f)
      BY <3>1 DEF SameAggregate, SameStream, Aggregate, Stream
    <3> QED  BY <3>2, <3>3, OneOwnerSeen
  <2> QED  BY <1>4, <2>1, <2>2, <2>3 DEF Linked
<1>8. RowsAfterSnapshot(c)'
  <2>1. RowsAfterSnapshot(c)
    BY DEF IInv
  <2> QED  BY <1>1, <1>4, <1>5, <1>6, <2>1 DEF RowsAfterSnapshot
<1>9. RowsLinked(c)'
  <2>1. RowsLinked(c)
    BY DEF IInv
  <2> QED  BY <1>1, <1>5, <1>7, <2>1 DEF RowsLinked
<1>10. \A d \in Clients : (RowsAfterSnapshot(d) /\ RowsLinked(d))'
  BY <1>5, <1>8, <1>9, LocalUnchanged DEF IInv
<1>11. DistinctRows' /\ StreamsAreLists'
  BY <1>1 DEF IInv, DistinctRows, StreamsAreLists
<1> QED  BY <1>10, <1>11 DEF IInv

\* The row that WriteRow adds is later than the others of its transaction.
LEMMA WriteRowList ==
    ASSUME IInv, BaseInv', NEW c \in Clients, WriteRow(c) PROVE IInv'
<1> USE DEF BaseInv
<1> DEFINE row == pending[c]
<1>1. /\ pc[c] = "write" /\ row.owner # NoOwner
      /\ \A f \in events : ~Collide(row, f)
      /\ \A d \in Clients : \A f \in staged[d] : ~Collide(row, f)
      /\ staged' = [staged EXCEPT ![c] = @ \cup {row}]
      /\ UNCHANGED <<events, snapshot>>
  BY DEF WriteRow
<1>2. row \in Event
  BY <1>1 DEF IInv, TypeOK, PendingRow, Event
<1>3. /\ staged'[c] = staged[c] \cup {row}
      /\ \A d \in Clients \ {c} : staged'[d] = staged[d] /\ Local(d)' = Local(d)
      /\ pc'[c] # "write"
      /\ Seen(c)' = Seen(c) \cup {row}
  BY <1>1 DEF IInv, TypeOK, WriteRow, Local, Seen, AfterEvents
<1>4. batch'[c].inst = batch[c].inst
  <2>1. batch' = [batch EXCEPT ![c].cmds[at[c]].owner = row.owner]
    BY DEF WriteRow
  <2>2. batch[c] \in Batch /\ Accepted(batch[c]) /\ at[c] \in DOMAIN batch[c].cmds
    BY <1>1 DEF IInv, TypeOK, Snapshots
  <2> QED  BY <1>2, <2>1, <2>2, ScanOwner DEF IInv, TypeOK, Event
<1>5. DistinctRows'
  <2>1. \A f \in events : row.inst = f.inst => row.seq # f.seq
    BY <1>1 DEF Collide
  <2>2. \A d \in Clients : \A f \in staged[d] : row.inst = f.inst => row.seq # f.seq
    BY <1>1 DEF Collide
  <2>3. \A d \in Clients : \A e \in staged'[d] : \A f \in events' : e.inst = f.inst => e.seq # f.seq
    BY <1>1, <1>3, <2>1 DEF IInv, DistinctRows
  <2>4. \A c1, d1 \in Clients : \A e \in staged'[c1] : \A f \in staged'[d1] :
          e.inst = f.inst /\ e.seq = f.seq => c1 = d1 /\ e = f
    BY <1>3, <2>2 DEF IInv, DistinctRows
  <2> QED  BY <1>1, <2>3, <2>4 DEF IInv, DistinctRows
<1>6. RowsAfterSnapshot(c) /\ RowsLinked(c)
  BY DEF IInv
<1>7. \A f \in Seen(c) : f.inst = row.inst => f.seq < row.seq
  BY <1>1, <1>6 DEF RowsAfterSnapshot
<1>8. RowsAfterSnapshot(c)'
  BY <1>1, <1>3, <1>4, <1>6, <1>7 DEF RowsAfterSnapshot, Seen
<1>9. Linked(row, Seen(c))
  BY <1>1, <1>6 DEF RowsLinked
<1>10. Linked(row, Seen(c) \cup {row})
  <2>1. Before(Stream(Seen(c), row.inst, row.atype), row.seq)
          = Before(Stream(Seen(c) \cup {row}, row.inst, row.atype), row.seq)
    BY <1>2 DEF Before, Stream, Event
  <2>2. \A f \in Seen(c) \cup {row} : SameAggregate(row, f) => row.owner = f.owner
    BY <1>9 DEF Linked
  <2> QED  BY <1>9, <2>1, <2>2, LinkedTransfer
<1>11. ASSUME NEW e \in staged[c] PROVE Linked(e, Seen(c) \cup {row})
  <2>1. Linked(e, Seen(c)) /\ e \in Seen(c) /\ e \in Event
    BY <1>6 DEF RowsLinked, Seen, IInv, TypeOK
  <2>2. e.inst = row.inst /\ e.seq < row.seq
    BY <1>1, <1>6, <1>7, <2>1 DEF RowsAfterSnapshot
  <2>3. Before(Stream(Seen(c), e.inst, e.atype), e.seq)
          = Before(Stream(Seen(c) \cup {row}, e.inst, e.atype), e.seq)
    BY <1>2, <2>1, <2>2 DEF Before, Stream, Event
  <2>4. SameAggregate(e, row) => e.owner = row.owner
    BY <1>9, <2>1 DEF Linked, SameAggregate, SameStream
  <2>5. \A f \in Seen(c) \cup {row} : SameAggregate(e, f) => e.owner = f.owner
    BY <2>1, <2>4 DEF Linked
  <2> QED  BY <2>1, <2>3, <2>5, LinkedTransfer
<1>12. RowsLinked(c)'
  BY <1>3, <1>10, <1>11 DEF RowsLinked
<1>13. \A d \in Clients : (RowsAfterSnapshot(d) /\ RowsLinked(d))'
  BY <1>3, <1>8, <1>12, LocalUnchanged DEF IInv
<1>14. StreamsAreLists'
  BY <1>1 DEF IInv, StreamsAreLists
<1> QED  BY <1>5, <1>13, <1>14 DEF IInv

\* A commit whose reads are unchanged appends its rows to the lists.
LEMMA CommitLinks ==
    ASSUME Serializable, IInv, NEW c \in Clients, Commit(c)
    PROVE  /\ events' = events \cup staged[c] /\ staged[c] \subseteq Event
           /\ \A e \in staged[c] : \A f \in events : SameStream(e, f) => f.seq < e.seq
           /\ \A e \in events' : Linked(e, events')
<1> DEFINE old == snapshot[c].events
<1>1. events' = events \cup staged[c] /\ ReadsUnchanged(c)
  BY DEF Commit
<1>2. /\ events \subseteq Event /\ staged[c] \subseteq Event /\ old \subseteq events
      /\ RowsAfterSnapshot(c) /\ RowsLinked(c)
  BY DEF IInv, BaseInv, TypeOK, Snapshots
<1>3. ASSUME NEW e \in staged[c], NEW f \in events, SameStream(e, f)
      PROVE  f \in old /\ f.seq < e.seq
  <2>1. f \in Stream(events, e.inst, e.atype)
    BY <1>3 DEF Stream, SameStream
  <2>2. f \in Stream(old, e.inst, e.atype)
    BY <1>1, <2>1 DEF ReadsUnchanged
  <2>3. f \in old /\ f.inst = e.inst
    BY <2>2 DEF Stream
  <2> QED  BY <1>2, <2>3 DEF RowsAfterSnapshot
<1>4. ASSUME NEW e \in staged[c] PROVE Linked(e, events')
  <2>1. Linked(e, Seen(c))
    BY <1>2 DEF RowsLinked
  <2>2. Stream(Seen(c), e.inst, e.atype) = Stream(events', e.inst, e.atype)
    <3>1. Stream(events, e.inst, e.atype) = Stream(old, e.inst, e.atype)
      BY <1>1 DEF ReadsUnchanged
    <3> QED  BY <1>1, <3>1 DEF Seen, Stream
  <2>3. ASSUME NEW f \in events', SameAggregate(e, f) PROVE e.owner = f.owner
    <3>1. f \in Seen(c)
      BY <1>1, <1>3, <2>3 DEF Seen, SameAggregate
    <3> QED  BY <2>1, <2>3, <3>1 DEF Linked
  <2> QED  BY <2>1, <2>2, <2>3, LinkedTransfer
<1>5. ASSUME NEW e \in events PROVE Linked(e, events')
  <2>1. Linked(e, events) /\ e \in Event
    BY <1>2 DEF IInv, StreamsAreLists
  <2>2. \A f \in staged[c] : SameStream(e, f) => e.seq < f.seq /\ e \in old
    BY <1>3 DEF SameStream
  <2>3. Before(Stream(events, e.inst, e.atype), e.seq)
          = Before(Stream(events', e.inst, e.atype), e.seq)
    BY <1>1, <1>2, <2>1, <2>2 DEF Before, Stream, SameStream, Event
  <2>4. ASSUME NEW f \in staged[c], SameAggregate(e, f) PROVE e.owner = f.owner
    <3>1. e \in Seen(c) /\ SameAggregate(f, e)
      BY <2>2, <2>4 DEF Seen, SameAggregate, SameStream
    <3> QED  BY <1>2, <3>1 DEF RowsLinked, Linked
  <2>5. \A f \in events' : SameAggregate(e, f) => e.owner = f.owner
    BY <1>1, <2>1, <2>4 DEF Linked
  <2> QED  BY <2>1, <2>3, <2>5, LinkedTransfer
<1> QED  BY <1>1, <1>2, <1>3, <1>4, <1>5

\* COMMIT preserves the whole invariant, for the committing client and the others.
LEMMA CommitList ==
    ASSUME Serializable, IInv, BaseInv', NEW c \in Clients, Commit(c) PROVE IInv'
<1>1. /\ events' = events \cup staged[c] /\ EndTx(c)
  BY DEF Commit
<1>2. /\ staged'[c] = {} /\ pc'[c] = "idle"
      /\ \A d \in Clients \ {c} : staged'[d] = staged[d] /\ Local(d)' = Local(d)
  BY <1>1 DEF EndTx, IInv, BaseInv, TypeOK, Local
<1>3. DistinctRows'
  BY <1>1, <1>2 DEF IInv, DistinctRows
<1>4. StreamsAreLists'
  BY CommitLinks DEF StreamsAreLists
<1>5. \A d \in Clients : (RowsAfterSnapshot(d) /\ RowsLinked(d))'
  BY <1>2, LocalEmpty, LocalUnchanged DEF IInv
<1> QED  BY <1>3, <1>4, <1>5 DEF IInv

\* A rollback preserves the whole invariant.
LEMMA RollbackList ==
    ASSUME IInv, BaseInv', NEW c \in Clients, NEW result, Rollback(c, result) PROVE IInv'
<1>1. EndTx(c) /\ UNCHANGED events
  BY DEF Rollback
<1>2. /\ staged' = [staged EXCEPT ![c] = {}] /\ pc'[c] # "write"
      /\ \A d \in Clients \ {c} : Local(d)' = Local(d)
  BY <1>1 DEF EndTx, IInv, BaseInv, TypeOK, Local
<1> QED  BY <1>1, <1>2, EmptyStep

\* The start of an attempt preserves the whole invariant.
LEMMA BeginTxList ==
    ASSUME IInv, BaseInv', NEW c \in Clients, NEW b, BeginTx(c, b), UNCHANGED events PROVE IInv'
<1>1. /\ staged' = [staged EXCEPT ![c] = {}] /\ pc'[c] # "write"
      /\ \A d \in Clients \ {c} : Local(d)' = Local(d)
  BY DEF BeginTx, AfterEvents, IInv, BaseInv, TypeOK, Local
<1> QED  BY <1>1, EmptyStep

\* The whole invariant holds initially.
LEMMA ListInit == Init => IInv
<1> SUFFICES ASSUME Init PROVE IInv
  OBVIOUS
<1>1. DistinctRows /\ StreamsAreLists
  BY DEF Init, LogInit, DistinctRows, StreamsAreLists
<1>2. \A c \in Clients : RowsAfterSnapshot(c) /\ RowsLinked(c)
  BY DEF Init, RowsAfterSnapshot, RowsLinked
<1> QED  BY <1>1, <1>2, BaseInit DEF IInv

\* Every step of a serializable database preserves the inductive invariant.
LEMMA ListStep == ASSUME Serializable PROVE IInv /\ [Next]_esVars => IInv'
<1> SUFFICES ASSUME IInv, [Next]_esVars PROVE IInv'
  OBVIOUS
<1> BaseInv'
  BY BaseStep DEF IInv
<1>1. ASSUME NEW c \in Clients, Push(c) PROVE IInv'
  <2>1. PICK b \in Batches :
          IF Accepted(b) THEN BeginTx(c, b) ELSE UNCHANGED <<pc, txVars>>
    BY <1>1 DEF Push
  <2>2. UNCHANGED events
    BY <1>1 DEF Push
  <2>3. CASE BeginTx(c, b)
    BY <2>2, <2>3, BeginTxList
  <2>4. CASE UNCHANGED <<pc, txVars>>
    BY <2>2, <2>4, SameRowsStep DEF txVars, Local
  <2> QED  BY <2>1, <2>3, <2>4
<1>2. ASSUME NEW c \in Clients, HandleUniqueConstraint(c) PROVE IInv'
  <2>1. CASE Rollback(c, "exists")
    BY <2>1, RollbackList
  <2>2. CASE /\ pc[c] = "constraints" /\ UNCHANGED <<events, batch, pending, staged, snapshot>>
             /\ pc' = [pc EXCEPT ![c] = IF at[c] < Len(batch[c].cons) THEN @ ELSE "commit"]
    <3>1. \A d \in Clients : pc'[d] = "write" <=> pc[d] = "write"
      BY <2>2 DEF IInv, BaseInv, TypeOK
    <3>2. \A d \in Clients : (RowsAfterSnapshot(d) /\ RowsLinked(d))'
      BY <2>2, <3>1 DEF IInv, RowsAfterSnapshot, RowsLinked, Seen
    <3>3. DistinctRows' /\ StreamsAreLists'
      BY <2>2 DEF IInv, DistinctRows, StreamsAreLists
    <3> QED  BY <3>2, <3>3 DEF IInv
  <2> QED  BY <1>2, <2>1, <2>2 DEF HandleUniqueConstraint
<1>3. ASSUME NEW c \in Clients, Fail(c) PROVE IInv'
  BY <1>3, RollbackList DEF Fail
<1>4. ASSUME NEW c \in Clients, Retry(c) PROVE IInv'
  BY <1>4, BeginTxList DEF Retry
<1>5. ASSUME NEW i \in Instances, CreateInstance(i) PROVE IInv'
  BY <1>5, SameRowsStep DEF CreateInstance, txVars, Local
<1>6. CASE UNCHANGED esVars
  BY <1>6, SameRowsStep DEF esVars, txVars, Local
<1> QED  BY <1>1, <1>2, <1>3, <1>4, <1>5, <1>6, QueryRowList, WriteRowList, CommitList DEF Next

-----------------------------------------------------------------------------
(* The theorems                                                            *)

\* On a serializable database, whatever pushes run concurrently, fail or are retried: in
\* every stream and aggregate the previous sequences form one list in sequence order, and
\* an aggregate has one resource owner.
THEOREM ListsCorrect == ASSUME Serializable PROVE Spec => []StreamsAreLists
<1>1. IInv => StreamsAreLists
  BY DEF IInv
<1> QED  BY <1>1, ListInit, ListStep, PTL DEF Spec

\* Every step of EventStore appends a whole push to the log or leaves the log alone.
LEMMA StepAppends == ASSUME Serializable, IInv, [Next]_esVars PROVE [LogAppend]_events
<1>1. ASSUME NEW c \in Clients, Commit(c) PROVE LogAppend
  <2>1. /\ events' = events \cup staged[c] /\ staged[c] \subseteq Event
        /\ \A e \in staged[c] : \A f \in events : SameStream(e, f) => f.seq < e.seq
        /\ \A e \in events' : Linked(e, events')
    BY <1>1, CommitLinks
  <2>2. \A e \in events' \ events : \A f \in events' : e.inst = f.inst /\ e.seq = f.seq => e = f
    BY <2>1 DEF IInv, DistinctRows
  <2> QED  BY <2>1, <2>2 DEF LogAppend
<1>2. ASSUME NEW c \in Clients, HandleUniqueConstraint(c) PROVE UNCHANGED events
  BY <1>2 DEF HandleUniqueConstraint, Rollback
<1>3. ASSUME NEW c \in Clients,
             Push(c) \/ QueryRow(c) \/ WriteRow(c) \/ Fail(c) \/ Retry(c)
      PROVE  UNCHANGED events
  BY <1>3 DEF Push, QueryRow, WriteRow, Fail, Retry, Rollback
<1>4. ASSUME NEW i \in Instances, CreateInstance(i) PROVE UNCHANGED events
  BY <1>4 DEF CreateInstance
<1>5. CASE UNCHANGED esVars
  BY <1>5 DEF esVars
<1> QED  BY <1>1, <1>2, <1>3, <1>4, <1>5 DEF Next

\* Push is atomic: with its transactions interleaved statement by statement, EventStore
\* implements the log to which whole pushes are appended.
THEOREM ImplementsLog == ASSUME Serializable PROVE Spec => LogSpec
<1>1. Init => LogInit
  BY DEF Init
<1>2. IInv /\ [Next]_esVars => [LogAppend]_events
  BY StepAppends
<1> QED  BY <1>1, <1>2, ListInit, ListStep, PTL DEF Spec, LogSpec

-----------------------------------------------------------------------------
(* What subscribers are told                                               *)

(***************************************************************************)
(* The events to push have been scanned from rows of the current attempt,  *)
(* up to the statement the transaction is at; after the last statement for *)
(* an event nothing is left of an earlier attempt.                         *)
(***************************************************************************)
Scanned(c) ==
    Open(c) =>
        /\ DOMAIN scanned[c] = DOMAIN batch[c].cmds
        /\ \A k \in DOMAIN batch[c].cmds :
              pc[c] \in {"constraints", "commit"} \/ k < at[c] => scanned[c][k] \in staged[c]

ScanInv == BaseInv /\ NotifiedIsStored /\ \A c \in Clients : Scanned(c)

\* A client that takes no part in a step keeps what it has scanned.
LEMMA ScannedKept ==
    ASSUME NEW d \in Clients, Scanned(d),
           UNCHANGED <<pc[d], batch[d], at[d], scanned[d], staged[d]>>
    PROVE  Scanned(d)'
  BY DEF Scanned, Open

\* Only the client of an action moves.
LEMMA OthersStay ==
    ASSUME BaseInv, NEW c \in Clients, NEW d \in Clients \ {c},
           \/ Push(c) \/ QueryRow(c) \/ WriteRow(c) \/ HandleUniqueConstraint(c)
           \/ Fail(c) \/ Retry(c) \/ Commit(c)
    PROVE  UNCHANGED <<pc[d], batch[d], at[d], scanned[d], staged[d]>>
<1> USE DEF BaseInv, TypeOK
<1>1. CASE Push(c)
  BY <1>1 DEF Push, BeginTx, txVars
<1>2. CASE QueryRow(c) \/ WriteRow(c)
  BY <1>2 DEF QueryRow, WriteRow
<1>3. CASE HandleUniqueConstraint(c)
  BY <1>3 DEF HandleUniqueConstraint, Rollback, EndTx
<1>4. CASE Fail(c) \/ Commit(c)
  BY <1>4 DEF Fail, Rollback, EndTx, Commit
<1>5. CASE Retry(c)
  BY <1>5 DEF Retry, BeginTx
<1> QED  BY <1>1, <1>2, <1>3, <1>4, <1>5

\* Every step keeps the scanned events in line with the rows, for the client that moves.
LEMMA ScannedStep ==
    ASSUME ScanInv, NEW c \in Clients,
           \/ Push(c) \/ QueryRow(c) \/ WriteRow(c) \/ HandleUniqueConstraint(c)
           \/ Fail(c) \/ Retry(c) \/ Commit(c)
    PROVE  Scanned(c)'
<1> USE DEF ScanInv, BaseInv
<1>0. /\ batch[c] \in Batch /\ batch[c].cmds \in Seq(Command)
      /\ at[c] \in Nat \ {0} /\ DOMAIN scanned = Clients
  BY DEF TypeOK, Batch
<1>1. ASSUME NEW b \in Batch, BeginTx(c, b), DOMAIN scanned'[c] = DOMAIN b.cmds
      PROVE  Scanned(c)'
  <2>1. /\ pc'[c] = (IF b.cmds = <<>> THEN AfterEvents(b) ELSE "query")
        /\ batch'[c] = b /\ at'[c] = 1
    BY <1>1 DEF TypeOK, BeginTx
  <2>2. b.cmds \in Seq(Command)
    BY DEF Batch
  <2>3. \A k \in DOMAIN b.cmds : b.cmds # <<>> /\ ~(k < 1)
    BY <2>2
  <2> QED  BY <1>1, <2>1, <2>3 DEF Scanned
<1>2. CASE Push(c)
  <2>1. PICK b \in Batches :
      IF Accepted(b)
      THEN /\ BeginTx(c, b)
           /\ scanned' = [scanned EXCEPT ![c] = [k \in DOMAIN b.cmds |-> NoRow]]
           /\ outcome' = [outcome EXCEPT ![c] = "none"]
      ELSE outcome' = [outcome EXCEPT ![c] = "invalid"] /\ UNCHANGED <<pc, txVars>>
    BY <1>2 DEF Push
  <2>2. CASE Accepted(b)
    BY <1>0, <1>1, <2>1, <2>2, BatchesAssumption
  <2>3. CASE ~Accepted(b)
    BY <1>2, <2>1, <2>3 DEF Push, Scanned, Open, txVars
  <2> QED  BY <2>2, <2>3
<1>3. CASE QueryRow(c)
  BY <1>3 DEF QueryRow, Scanned, Open, TypeOK
<1>4. CASE WriteRow(c)
  <2>1. /\ pc[c] = "write" /\ at[c] \in DOMAIN batch[c].cmds
        /\ staged'[c] = staged[c] \cup {pending[c]}
        /\ scanned'[c] = [scanned[c] EXCEPT ![at[c]] = pending[c]]
    BY <1>0, <1>4 DEF WriteRow, TypeOK
  <2>2. /\ DOMAIN scanned[c] = DOMAIN batch[c].cmds
        /\ \A k \in DOMAIN batch[c].cmds : k < at[c] => scanned[c][k] \in staged[c]
    BY <2>1 DEF Scanned, Open
  <2>3. DOMAIN batch'[c].cmds = DOMAIN batch[c].cmds
    BY <1>4 DEF WriteRow, TypeOK
  <2>4. \A k \in DOMAIN batch[c].cmds : k <= at[c] => scanned'[c][k] \in staged'[c]
    <3> SUFFICES ASSUME NEW k \in DOMAIN batch[c].cmds, k <= at[c]
                 PROVE  scanned'[c][k] \in staged'[c]
      OBVIOUS
    <3>1. k \in Nat
      BY <1>0
    <3>2. CASE k = at[c]
      BY <2>1, <2>2, <3>2
    <3>3. CASE k < at[c]
      BY <2>1, <2>2, <3>3, <1>0, <3>1
    <3> QED  BY <1>0, <3>1, <3>2, <3>3
  <2>5. CASE at[c] < Len(batch[c].cmds)
    <3>1. pc'[c] = "query" /\ at'[c] = at[c] + 1
      BY <1>4, <2>5 DEF WriteRow, TypeOK
    <3>2. \A k \in DOMAIN batch[c].cmds : k < at'[c] => k <= at[c]
      BY <1>0, <3>1
    <3> QED  BY <2>1, <2>2, <2>3, <2>4, <3>1, <3>2 DEF Scanned
  <2>6. CASE ~(at[c] < Len(batch[c].cmds))
    <3>1. \A k \in DOMAIN batch[c].cmds : k <= at[c]
      BY <1>0, <2>6
    <3> QED  BY <2>1, <2>2, <2>3, <2>4, <3>1 DEF Scanned
  <2> QED  BY <2>5, <2>6
<1>5. ASSUME pc'[c] = "idle" PROVE Scanned(c)'
  BY <1>5 DEF Scanned, Open
<1>6. CASE HandleUniqueConstraint(c)
  <2>1. CASE Rollback(c, "exists")
    BY <1>5, <2>1 DEF Rollback, EndTx, TypeOK
  <2>2. CASE UNCHANGED <<batch, scanned, staged>>
    <3>1. pc[c] = "constraints"
      BY <1>6 DEF HandleUniqueConstraint
    <3> QED  BY <2>2, <3>1 DEF Scanned, Open
  <2> QED  BY <1>6, <2>1, <2>2 DEF HandleUniqueConstraint
<1>7. CASE Fail(c) \/ Commit(c)
  BY <1>5, <1>7 DEF Fail, Rollback, Commit, EndTx, TypeOK
<1>8. CASE Retry(c)
  <2>1. BeginTx(c, batch[c]) /\ DOMAIN scanned'[c] = DOMAIN batch[c].cmds
    BY <1>8 DEF Retry, Scanned
  <2> QED  BY <1>0, <1>1, <2>1
<1> QED  BY <1>2, <1>3, <1>4, <1>6, <1>7, <1>8

\* The invariant is preserved; COMMIT is where notified grows.
LEMMA ScanStep == ScanInv /\ [Next]_esVars => ScanInv'
<1> SUFFICES ASSUME ScanInv, [Next]_esVars
             PROVE  NotifiedIsStored' /\ \A d \in Clients : Scanned(d)'
  BY BaseStep DEF ScanInv
<1>1. BaseInv /\ NotifiedIsStored /\ \A d \in Clients : Scanned(d)
  BY DEF ScanInv
<1>2. ASSUME NEW c \in Clients,
             \/ Push(c) \/ QueryRow(c) \/ WriteRow(c) \/ HandleUniqueConstraint(c)
             \/ Fail(c) \/ Retry(c) \/ Commit(c)
      PROVE  \A d \in Clients : Scanned(d)'
  <2>1. Scanned(c)'
    BY <1>2, ScannedStep
  <2>2. ASSUME NEW d \in Clients \ {c} PROVE Scanned(d)'
    BY <1>1, <1>2, OthersStay, ScannedKept
  <2> QED  BY <2>1, <2>2
<1>3. ASSUME NEW c \in Clients, Commit(c) PROVE NotifiedIsStored'
  <2>1. ScannedRows(c) \subseteq staged[c]
    BY <1>1, <1>3 DEF Commit, Scanned, Open, ScannedRows
  <2> QED  BY <1>1, <1>3, <2>1 DEF Commit, NotifiedIsStored
<1>4. ASSUME NEW c \in Clients,
             \/ Push(c) \/ QueryRow(c) \/ WriteRow(c) \/ HandleUniqueConstraint(c)
             \/ Fail(c) \/ Retry(c)
      PROVE  NotifiedIsStored'
  <2>1. UNCHANGED <<events, notified>>
    BY <1>4 DEF Push, QueryRow, WriteRow, HandleUniqueConstraint, Fail, Retry, Rollback
  <2> QED  BY <1>1, <2>1 DEF NotifiedIsStored
<1>5. ASSUME UNCHANGED <<events, notified, pc, txVars>>
      PROVE  NotifiedIsStored' /\ \A d \in Clients : Scanned(d)'
  BY <1>1, <1>5 DEF NotifiedIsStored, Scanned, Open, txVars
<1>6. ASSUME NEW i \in Instances, CreateInstance(i)
      PROVE  NotifiedIsStored' /\ \A d \in Clients : Scanned(d)'
  BY <1>5, <1>6 DEF CreateInstance
<1>7. CASE UNCHANGED esVars
  BY <1>5, <1>7 DEF esVars
<1> QED  BY <1>2, <1>3, <1>4, <1>6, <1>7 DEF Next

(***************************************************************************)
(* Subscribers are handed events exactly as they are stored, although Push *)
(* reads them from what the statements of several attempts have scanned    *)
(* into the same objects.                                                  *)
(***************************************************************************)
THEOREM NotifiedCorrect == Spec => []NotifiedIsStored
<1>1. Init => ScanInv
  <2>1. Init => NotifiedIsStored /\ \A c \in Clients : Scanned(c)
    BY DEF Init, NotifiedIsStored, Scanned, Open
  <2> QED  BY <2>1, BaseInit DEF ScanInv
<1>2. ScanInv => NotifiedIsStored
  BY DEF ScanInv
<1> QED  BY <1>1, <1>2, ScanStep, PTL DEF Spec

-----------------------------------------------------------------------------
(* What the unique indices alone guarantee                                 *)

\* The row the link of e names is among rows.
LinkStored(e, rows) ==
    e.prevType # 0 => \E f \in rows : SameStream(e, f) /\ f.seq = e.prevType /\ f.seq < e.seq

\* What is stored or may still be.
Store == events \cup UNION {staged[c] : c \in Clients}

ForkInv ==
    /\ BaseInv
    /\ \A e, f \in Store : Collide(e, f) => e = f
    /\ \A e \in events : LinkStored(e, events)
    /\ \A c \in Clients :
          /\ \A e \in staged[c] : LinkStored(e, events \cup staged[c])
          /\ pc[c] = "write" => LinkStored(pending[c], events \cup staged[c])

LEMMA LinkStoredMonotonic ==
    ASSUME NEW e, NEW R, NEW S, R \subseteq S, LinkStored(e, R) PROVE LinkStored(e, S)
BY DEF LinkStored

\* A step that stores nothing: transactions go on with the rows they have, or lose them.
LEMMA ForkKeep ==
    ASSUME ForkInv, BaseInv', UNCHANGED events,
           \A d \in Clients :
              /\ staged'[d] = staged[d] \/ staged'[d] = {}
              /\ pc'[d] = "write" =>
                    pc[d] = "write" /\ pending'[d] = pending[d] /\ staged'[d] = staged[d]
    PROVE  ForkInv'
<1>1. Store' \subseteq Store
  BY DEF Store
<1>2. \A e, f \in Store' : Collide(e, f) => e = f
  BY <1>1 DEF ForkInv
<1>3. \A e \in events' : LinkStored(e, events')
  BY DEF ForkInv
<1>4. \A d \in Clients :
         /\ \A e \in staged'[d] : LinkStored(e, events' \cup staged'[d])
         /\ pc'[d] = "write" => LinkStored(pending'[d], events' \cup staged'[d])
  BY DEF ForkInv
<1> QED  BY <1>2, <1>3, <1>4 DEF ForkInv

LEMMA QueryRowFork == ASSUME ForkInv, BaseInv', NEW c \in Clients, QueryRow(c) PROVE ForkInv'
<1> DEFINE i == batch[c].inst
           s == sequences[i] + 1
           row == InsertedRow(c, batch[c].cmds[at[c]], s)
           rows == Stream(EventsSeen(c), row.inst, row.atype)
<1>1. /\ pc[c] = "query" /\ pc' = [pc EXCEPT ![c] = "write"]
      /\ pending' = [pending EXCEPT ![c] = row] /\ UNCHANGED <<events, staged>>
  BY DEF QueryRow
<1>2. i \in Instances /\ sequences[i] \in Nat /\ s \in Nat \ {0}
  BY DEF ForkInv, BaseInv, TypeOK, Batch
<1>3. row.inst = i /\ row.seq = s /\ row.prevType = MaxSequence(rows)
  BY <1>1, <1>2, InsertedRowFacts DEF ForkInv
<1>4. EventsSeen(c) \subseteq events \cup staged[c]
  BY DEF EventsSeen, ForkInv, BaseInv, Snapshots
<1> HIDE DEF row
<1>5. \A e \in rows : /\ e \in events \cup staged[c] /\ e.inst = row.inst /\ e.atype = row.atype
                      /\ e.seq \in Nat /\ e.seq <= sequences[i]
  BY <1>3, <1>4 DEF Stream, ForkInv, BaseInv, TypeOK, Drawn, Event
<1> HIDE DEF rows
<1>6. rows # {} => \E e \in rows : e.seq = MaxSequence(rows)
  BY <1>2, <1>5, MaxSequenceFacts
<1>7. LinkStored(row, events \cup staged[c])
  <2>1. rows = {} => row.prevType = 0
    BY <1>3 DEF MaxSequence
  <2>2. ASSUME rows # {}
        PROVE  \E e \in events \cup staged[c] :
                  SameStream(row, e) /\ e.seq = row.prevType /\ e.seq < row.seq
    <3>1. PICK e \in rows : e.seq = MaxSequence(rows)
      BY <1>6, <2>2
    <3>2. e.seq < s
      BY <1>2, <1>5
    <3> QED  BY <1>3, <1>5, <3>1, <3>2 DEF SameStream
  <2> QED  BY <2>1, <2>2 DEF LinkStored
<1>8. \A d \in Clients : pc'[d] = "write" => LinkStored(pending'[d], events \cup staged[d])
  <2>1. ASSUME NEW d \in Clients \ {c} PROVE pc'[d] = pc[d] /\ pending'[d] = pending[d]
    BY <1>1 DEF ForkInv, BaseInv, TypeOK
  <2>2. pending'[c] = row
    BY <1>1 DEF ForkInv, BaseInv, TypeOK
  <2> QED  BY <1>7, <2>1, <2>2 DEF ForkInv
<1>9. Store' = Store
  BY <1>1 DEF Store
<1> QED  BY <1>1, <1>8, <1>9 DEF ForkInv

LEMMA WriteRowFork == ASSUME ForkInv, BaseInv', NEW c \in Clients, WriteRow(c) PROVE ForkInv'
<1> DEFINE row == pending[c]
<1>1. /\ pc[c] = "write"
      /\ \A f \in events : ~Collide(row, f)
      /\ \A d \in Clients : \A f \in staged[d] : ~Collide(row, f)
      /\ staged' = [staged EXCEPT ![c] = @ \cup {row}] /\ UNCHANGED events
  BY DEF WriteRow
<1>2. /\ staged'[c] = staged[c] \cup {row} /\ pc'[c] # "write"
      /\ \A d \in Clients \ {c} : staged'[d] = staged[d] /\ pc'[d] = pc[d] /\ pending'[d] = pending[d]
  BY <1>1 DEF ForkInv, BaseInv, TypeOK, WriteRow, AfterEvents
<1>3. Store' \subseteq Store \cup {row}
  BY <1>1, <1>2 DEF Store
<1>4. \A f \in Store : ~Collide(row, f) /\ ~Collide(f, row)
  BY <1>1 DEF Store, Collide
<1>5. \A e, f \in Store' : Collide(e, f) => e = f
  BY <1>3, <1>4 DEF ForkInv
<1>6. LinkStored(row, events \cup staged[c])
  BY <1>1 DEF ForkInv
<1>7. \A e \in staged'[c] : LinkStored(e, events' \cup staged'[c])
  <2>1. events \cup staged[c] \subseteq events' \cup staged'[c]
    BY <1>1, <1>2
  <2>2. \A e \in staged'[c] : LinkStored(e, events \cup staged[c])
    BY <1>2, <1>6 DEF ForkInv
  <2> QED  BY <2>1, <2>2, LinkStoredMonotonic
<1>8. \A d \in Clients :
         /\ \A e \in staged'[d] : LinkStored(e, events' \cup staged'[d])
         /\ pc'[d] = "write" => LinkStored(pending'[d], events' \cup staged'[d])
  <2> HIDE DEF row
  <2> QED  BY <1>1, <1>2, <1>7 DEF ForkInv
<1> QED  BY <1>1, <1>5, <1>8 DEF ForkInv

LEMMA CommitFork == ASSUME ForkInv, BaseInv', NEW c \in Clients, Commit(c) PROVE ForkInv'
<1>1. events' = events \cup staged[c] /\ EndTx(c)
  BY DEF Commit
<1>2. /\ staged'[c] = {} /\ pc'[c] = "idle"
      /\ \A d \in Clients \ {c} : staged'[d] = staged[d] /\ pc'[d] = pc[d] /\ pending'[d] = pending[d]
  BY <1>1 DEF EndTx, ForkInv, BaseInv, TypeOK
<1>3. Store' \subseteq Store
  BY <1>1, <1>2 DEF Store
<1>4. \A e \in events' : LinkStored(e, events')
  <2>1. events \subseteq events'
    BY <1>1
  <2> QED  BY <1>1, <2>1, LinkStoredMonotonic DEF ForkInv
<1>5. ASSUME NEW d \in Clients
      PROVE  /\ \A e \in staged'[d] : LinkStored(e, events' \cup staged'[d])
             /\ pc'[d] = "write" => LinkStored(pending'[d], events' \cup staged'[d])
  <2>1. CASE d = c
    BY <1>2, <2>1
  <2>2. CASE d # c
    <3>1. events \cup staged[d] \subseteq events' \cup staged'[d]
      BY <1>1, <1>2, <2>2
    <3> QED  BY <1>2, <2>2, <3>1, LinkStoredMonotonic DEF ForkInv
  <2> QED  BY <2>1, <2>2
<1>6. \A e, f \in Store' : Collide(e, f) => e = f
  BY <1>3 DEF ForkInv
<1> QED  BY <1>4, <1>5, <1>6 DEF ForkInv

LEMMA ForkStep == ForkInv /\ [Next]_esVars => ForkInv'
<1> SUFFICES ASSUME ForkInv, [Next]_esVars PROVE ForkInv'
  OBVIOUS
<1>1. BaseInv /\ BaseInv'
  BY BaseStep DEF ForkInv
<1>2. ASSUME NEW c \in Clients, NEW b, BeginTx(c, b), UNCHANGED events PROVE ForkInv'
  <2>1. \A d \in Clients :
           /\ staged'[d] = staged[d] \/ staged'[d] = {}
           /\ pc'[d] = "write" =>
                 pc[d] = "write" /\ pending'[d] = pending[d] /\ staged'[d] = staged[d]
    BY <1>1, <1>2 DEF BeginTx, AfterEvents, BaseInv, TypeOK
  <2> QED  BY <1>1, <1>2, <2>1, ForkKeep
<1>3. ASSUME NEW c \in Clients, EndTx(c), UNCHANGED events PROVE ForkInv'
  <2>1. \A d \in Clients :
           /\ staged'[d] = staged[d] \/ staged'[d] = {}
           /\ pc'[d] = "write" =>
                 pc[d] = "write" /\ pending'[d] = pending[d] /\ staged'[d] = staged[d]
    BY <1>1, <1>3 DEF EndTx, BaseInv, TypeOK
  <2> QED  BY <1>1, <1>3, <2>1, ForkKeep
<1>4. ASSUME UNCHANGED <<events, pc, txVars>> PROVE ForkInv'
  BY <1>1, <1>4, ForkKeep DEF txVars
<1>5. ASSUME NEW c \in Clients, Push(c) PROVE ForkInv'
  <2>1. UNCHANGED events /\ ((\E b \in Batches : BeginTx(c, b)) \/ UNCHANGED <<pc, txVars>>)
    BY <1>5 DEF Push
  <2> QED  BY <1>2, <1>4, <2>1
<1>6. ASSUME NEW c \in Clients, Fail(c) \/ Retry(c) PROVE ForkInv'
  BY <1>2, <1>3, <1>6 DEF Fail, Retry, Rollback
<1>7. ASSUME NEW c \in Clients, HandleUniqueConstraint(c) PROVE ForkInv'
  <2>1. CASE Rollback(c, "exists")
    BY <1>3, <2>1 DEF Rollback
  <2>2. CASE /\ pc[c] = "constraints" /\ UNCHANGED <<events, pending, staged>>
             /\ pc' = [pc EXCEPT ![c] = IF at[c] < Len(batch[c].cons) THEN @ ELSE "commit"]
    <3>1. \A d \in Clients : pc'[d] = "write" => pc[d] = "write"
      BY <1>1, <2>2 DEF BaseInv, TypeOK
    <3> QED  BY <1>1, <2>2, <3>1, ForkKeep
  <2> QED  BY <1>7, <2>1, <2>2 DEF HandleUniqueConstraint
<1>8. ASSUME NEW i \in Instances, CreateInstance(i) PROVE ForkInv'
  BY <1>4, <1>8 DEF CreateInstance
<1>9. CASE UNCHANGED esVars
  BY <1>4, <1>9 DEF esVars
<1> QED  BY <1>1, <1>5, <1>6, <1>7, <1>8, <1>9, QueryRowFork, WriteRowFork, CommitFork DEF Next

(***************************************************************************)
(* Also on a database that does not isolate pushes: no two events of a     *)
(* stream follow the same one, and an event's link names an earlier event  *)
(* of its stream that is stored (the unique indices on the two previous    *)
(* sequences).                                                             *)
(***************************************************************************)
THEOREM ForksExcluded == Spec => []NoForks
<1>1. Init => ForkInv
  <2>1. Init => events = {} /\ \A c \in Clients : staged[c] = {} /\ pc[c] # "write"
    BY DEF Init, LogInit
  <2> QED  BY <2>1, BaseInit DEF ForkInv, Store
<1>2. ForkInv => NoForks
  <2> SUFFICES ASSUME ForkInv PROVE NoForks
    OBVIOUS
  <2>1. \A e, f \in events :
           SameStream(e, f) /\ e.prevType = f.prevType /\ e.prevType # 0 => e = f
    BY DEF ForkInv, Store, Collide, SameStream
  <2> QED  BY <2>1 DEF ForkInv, LinkStored, NoForks
<1> QED  BY <1>1, <1>2, ForkStep, PTL DEF Spec

-----------------------------------------------------------------------------
(* Unique constraints                                                      *)

\* The row that stands for the name f of instance i.
Row(i, f) == [inst |-> i, field |-> ToLower[f]]

\* The constraints of its push that the transaction of c has been through.
Executed(c) == IF pc[c] \in {"constraints", "commit"} THEN 1..(at[c] - 1) ELSE {}
ClaimOf(c, k) == [inst |-> batch[c].inst, con |-> batch[c].cons[k]]

\* The transaction has claimed the name and not released it again; it has released it; it has
\* claimed it without releasing it before.
TxHolds(c, i, f) ==
    \E k \in Executed(c) :
        /\ Adds(ClaimOf(c, k), i, f)
        /\ \A l \in Executed(c) : l > k => ~Releases(ClaimOf(c, l), i, f)
TxReleases(c, i, f) == \E k \in Executed(c) : Releases(ClaimOf(c, k), i, f)
TxClaims(c, i, f) ==
    \E k \in Executed(c) :
        /\ Adds(ClaimOf(c, k), i, f)
        /\ \A l \in Executed(c) : l < k => ~Releases(ClaimOf(c, l), i, f)

(***************************************************************************)
(* What the rows a transaction has inserted and deleted say about the      *)
(* constraints it has been through.  Nobody else may claim a name it has   *)
(* claimed: a serializable database has its snapshot for that, the other   *)
(* one the locks.                                                          *)
(***************************************************************************)
TxUniques(c) ==
    /\ pc[c] = "commit" => at[c] = Len(batch[c].cons) + 1
    /\ pc[c] \notin {"constraints", "commit"} => added[c] = {} /\ removed[c] = {}
    /\ \A i \in Instances, f \in Fields :
          /\ Row(i, f) \in added[c] <=> TxHolds(c, i, f)
          /\ Row(i, f) \in removed[c] => TxReleases(c, i, f)
          /\ TxReleases(c, i, f) /\ Serializable /\ Row(i, f) \in snapshot[c].uniques =>
                Row(i, f) \in removed[c]
          /\ TxClaims(c, i, f) =>
                /\ Row(i, f) \in added[c] \cup removed[c]
                /\ IF Serializable THEN Row(i, f) \notin snapshot[c].uniques
                   ELSE /\ Row(i, f) \notin uniques
                        /\ \A d \in Clients \ {c} : Row(i, f) \notin added[d]
          /\ \A k, l \in Executed(c) :
                k < l /\ Adds(ClaimOf(c, k), i, f) /\ Adds(ClaimOf(c, l), i, f)
                    => \E m \in Executed(c) : k < m /\ m < l /\ Releases(ClaimOf(c, m), i, f)

\* The names that are held have a row; when transactions are isolated no other row exists.
RowsMatch ==
    \A i \in Instances, f \in Fields :
        /\ Holding(i, f) => Row(i, f) \in uniques
        /\ Serializable /\ Row(i, f) \in uniques => Holding(i, f)

UniquesInv == BaseInv /\ ClaimedOnce /\ RowsMatch /\ \A c \in Clients : TxUniques(c)

-----------------------------------------------------------------------------
(* UniquesInv is inductive                                                 *)

\* The rows of a constraint are those of the names it claims or releases.
LEMMA RowsOfClaim ==
    ASSUME NEW inst \in Instances, NEW con \in Constraint, NEW i \in Instances, NEW f \in Fields
    PROVE  LET claim == [inst |-> inst, con |-> con]
               named == Row(i, f) \in UniqueRowsOf(inst, con)
           IN  /\ con.action = "add" => (named <=> Adds(claim, i, f)) /\ ~Releases(claim, i, f)
               /\ con.action # "add" => (named <=> Releases(claim, i, f)) /\ ~Adds(claim, i, f)
<1>1. con.field \in Fields /\ con.action \in {"add", "remove", "instanceRemove"}
  BY DEF Constraint
<1>2. ToLower[f] \in Fields /\ Row(i, f) \in UniqueRow
  BY ToLowerAssumption DEF Row, UniqueRow
<1>3. CASE con.action = "instanceRemove"
  BY <1>2, <1>3 DEF UniqueRowsOf, Adds, Releases, Scope, Row
<1>4. CASE con.action # "instanceRemove"
  <2> DEFINE scope == IF con.global THEN System ELSE inst
             claim == [inst |-> inst, con |-> con]
  <2>1. Row(i, f) \in UniqueRowsOf(inst, con) <=> i = scope /\ ToLower[f] = ToLower[con.field]
    BY <1>4 DEF UniqueRowsOf, Row
  <2>2. Scope(claim) = scope /\ claim.con = con
    BY DEF Scope
  <2> QED  BY <1>1, <1>4, <2>1, <2>2 DEF Adds, Releases
<1> QED  BY <1>3, <1>4

\* A transaction that has not come to a constraint.
LEMMA TxEmpty ==
    ASSUME NEW c \in Clients, Executed(c) = {}, added[c] = {}, removed[c] = {},
           pc[c] = "commit" => at[c] = Len(batch[c].cons) + 1
    PROVE  TxUniques(c)
<1>1. \A i \in Instances, f \in Fields :
         ~TxHolds(c, i, f) /\ ~TxReleases(c, i, f) /\ ~TxClaims(c, i, f)
  BY DEF TxHolds, TxReleases, TxClaims
<1> QED  BY <1>1 DEF TxUniques

\* A transaction that takes no part in the step.
LEMMA TxKept ==
    ASSUME NEW c \in Clients, TxUniques(c),
           UNCHANGED <<pc[c], at[c], batch[c], added[c], removed[c], snapshot[c]>>,
           ~Serializable => \A i \in Instances, f \in Fields : TxClaims(c, i, f) =>
                /\ Row(i, f) \notin uniques'
                /\ \A d \in Clients \ {c} : Row(i, f) \notin added'[d]
    PROVE  TxUniques(c)'
<1>1. Executed(c)' = Executed(c) /\ \A k : ClaimOf(c, k)' = ClaimOf(c, k)
  BY DEF Executed, ClaimOf
<1>2. \A i \in Instances, f \in Fields :
         /\ TxHolds(c, i, f)' <=> TxHolds(c, i, f)
         /\ TxReleases(c, i, f)' <=> TxReleases(c, i, f)
         /\ TxClaims(c, i, f)' <=> TxClaims(c, i, f)
         /\ Row(i, f)' = Row(i, f)
  BY <1>1 DEF TxHolds, TxReleases, TxClaims, Adds, Releases, Scope, Row
<1>3. pc'[c] = "commit" => at'[c] = Len(batch'[c].cons) + 1
  BY DEF TxUniques
<1>4. pc'[c] \notin {"constraints", "commit"} => added'[c] = {} /\ removed'[c] = {}
  BY DEF TxUniques
<1>5. ASSUME NEW i \in Instances, NEW f \in Fields
      PROVE  /\ Row(i, f) \in added'[c] <=> TxHolds(c, i, f)'
             /\ Row(i, f) \in removed'[c] => TxReleases(c, i, f)'
             /\ TxReleases(c, i, f)' /\ Serializable /\ Row(i, f) \in snapshot'[c].uniques =>
                   Row(i, f) \in removed'[c]
             /\ TxClaims(c, i, f)' => Row(i, f) \in added'[c] \cup removed'[c]
             /\ TxClaims(c, i, f)' /\ Serializable => Row(i, f) \notin snapshot'[c].uniques
  BY <1>2 DEF TxUniques
<1>6. ASSUME NEW i \in Instances, NEW f \in Fields, TxClaims(c, i, f)', ~Serializable
      PROVE  /\ Row(i, f) \notin uniques'
             /\ \A d \in Clients \ {c} : Row(i, f) \notin added'[d]
  BY <1>2, <1>6
<1>7. ASSUME NEW i \in Instances, NEW f \in Fields, NEW k \in Executed(c)', NEW l \in Executed(c)',
             k < l, Adds(ClaimOf(c, k)', i, f), Adds(ClaimOf(c, l)', i, f)
      PROVE  \E m \in Executed(c)' : k < m /\ m < l /\ Releases(ClaimOf(c, m)', i, f)
  BY <1>1, <1>7 DEF TxUniques
<1> QED  BY <1>3, <1>4, <1>5, <1>6, <1>7 DEF TxUniques, Row, Adds, Releases, Scope

\* One more constraint.
LEMMA AdvanceFacts ==
    ASSUME NEW c \in Clients, NEW n \in Nat \ {0}, Executed(c) = 1..(n - 1), Executed(c)' = 1..n,
           UNCHANGED batch[c], NEW i \in Instances, NEW f \in Fields,
           Adds(ClaimOf(c, n), i, f) => ~Releases(ClaimOf(c, n), i, f)
    PROVE  /\ TxHolds(c, i, f)' <=> \/ TxHolds(c, i, f) /\ ~Releases(ClaimOf(c, n), i, f)
                                    \/ Adds(ClaimOf(c, n), i, f)
           /\ TxReleases(c, i, f)' <=> TxReleases(c, i, f) \/ Releases(ClaimOf(c, n), i, f)
           /\ TxClaims(c, i, f)' <=> \/ TxClaims(c, i, f)
                                     \/ Adds(ClaimOf(c, n), i, f) /\ ~TxReleases(c, i, f)
<1>1. \A k : ClaimOf(c, k)' = ClaimOf(c, k)
  BY DEF ClaimOf
<1>2. /\ \A k \in 1..n : k \in 1..(n - 1) \/ k = n
      /\ \A k \in 1..(n - 1) : k \in 1..n /\ k < n /\ n > k /\ ~(n < k) /\ ~(k > n)
      /\ n \in 1..n /\ ~(n > n) /\ ~(n < n)
  OBVIOUS
<1> DEFINE A(k) == Adds(ClaimOf(c, k), i, f)
           R(k) == Releases(ClaimOf(c, k), i, f)
<1>3. /\ TxHolds(c, i, f) <=> \E k \in 1..(n - 1) : A(k) /\ \A l \in 1..(n - 1) : l > k => ~R(l)
      /\ TxHolds(c, i, f)' <=> \E k \in 1..n : A(k) /\ \A l \in 1..n : l > k => ~R(l)
  BY <1>1 DEF TxHolds, Adds, Releases, Scope
<1>4. /\ TxReleases(c, i, f) <=> \E k \in 1..(n - 1) : R(k)
      /\ TxReleases(c, i, f)' <=> \E k \in 1..n : R(k)
  BY <1>1 DEF TxReleases, Releases, Scope
<1>5. /\ TxClaims(c, i, f) <=> \E k \in 1..(n - 1) : A(k) /\ \A l \in 1..(n - 1) : l < k => ~R(l)
      /\ TxClaims(c, i, f)' <=> \E k \in 1..n : A(k) /\ \A l \in 1..n : l < k => ~R(l)
  BY <1>1 DEF TxClaims, Adds, Releases, Scope
<1> HIDE DEF A, R
<1>6. TxHolds(c, i, f)' <=> (TxHolds(c, i, f) /\ ~R(n)) \/ A(n)
  BY <1>2, <1>3
<1>7. TxReleases(c, i, f)' <=> TxReleases(c, i, f) \/ R(n)
  BY <1>2, <1>4
<1>8. TxClaims(c, i, f)' <=> TxClaims(c, i, f) \/ (A(n) /\ ~TxReleases(c, i, f))
  BY <1>2, <1>4, <1>5
<1> QED  BY <1>6, <1>7, <1>8 DEF A, R

\* A turn of handleUniqueConstraints keeps its own transaction in line.
LEMMA ConstraintUniques ==
    ASSUME UniquesInv, NEW c \in Clients, HandleUniqueConstraint(c), ~Rollback(c, "exists")
    PROVE  /\ TxUniques(c)' /\ UNCHANGED <<uniques, claims, snapshot, batch>>
           /\ \A d \in Clients \ {c} : UNCHANGED <<pc[d], at[d], added[d], removed[d]>>
           /\ \A i \in Instances, f \in Fields :
                 Row(i, f) \in added'[c] =>
                    \/ Row(i, f) \in added[c]
                    \/ \A d \in Clients \ {c} : Row(i, f) \notin added[d] \cup removed[d]
<1> DEFINE n == at[c]
           con == batch[c].cons[n]
           inst == batch[c].inst
           rows == UniqueRowsOf(inst, con)
           hit == rows \cap UniquesSeen(c)
<1>1. /\ pc[c] = "constraints" /\ UNCHANGED <<uniques, claims, snapshot, batch>>
      /\ at' = [at EXCEPT ![c] = n + 1]
      /\ pc' = [pc EXCEPT ![c] = IF n < Len(batch[c].cons) THEN pc[c] ELSE "commit"]
  BY DEF HandleUniqueConstraint
<1>2. \/ /\ con.action = "add" /\ hit = {}
         /\ \A d \in Clients \ {c} : rows \cap (added[d] \cup removed[d]) = {}
         /\ added' = [added EXCEPT ![c] = @ \cup rows] /\ removed' = removed
      \/ /\ con.action # "add"
         /\ added' = [added EXCEPT ![c] = @ \ hit]
         /\ removed' = [removed EXCEPT ![c] = @ \cup hit]
  BY Zenon DEF HandleUniqueConstraint
<1>3. /\ n \in Nat \ {0} /\ n \in DOMAIN batch[c].cons /\ batch[c].cons \in Seq(Constraint)
      /\ inst \in Instances /\ con \in Constraint
  BY <1>1 DEF UniquesInv, BaseInv, TypeOK, Batch
<1>4. /\ pc'[c] \in {"constraints", "commit"} /\ at'[c] = n + 1
      /\ pc'[c] = "commit" => at'[c] = Len(batch[c].cons) + 1
      /\ \A d \in Clients \ {c} : pc'[d] = pc[d] /\ at'[d] = at[d]
  <2>1. n <= Len(batch[c].cons) /\ Len(batch[c].cons) \in Nat
    BY <1>3
  <2>2. /\ pc'[c] = (IF n < Len(batch[c].cons) THEN pc[c] ELSE "commit") /\ at'[c] = n + 1
        /\ \A d \in Clients \ {c} : pc'[d] = pc[d] /\ at'[d] = at[d]
    BY <1>1 DEF UniquesInv, BaseInv, TypeOK
  <2> QED  BY <1>1, <1>3, <2>1, <2>2
<1>5. Executed(c) = 1..(n - 1) /\ Executed(c)' = 1..n
  <2>1. Executed(c) = 1..(n - 1)
    BY <1>1 DEF Executed
  <2>2. Executed(c)' = 1..(at'[c] - 1)
    BY <1>4 DEF Executed
  <2> HIDE DEF n
  <2>3. at'[c] - 1 = n
    BY <1>3, <1>4
  <2> QED  BY <2>1, <2>2, <2>3
<1>6. \/ /\ con.action = "add" /\ hit = {}
         /\ \A d \in Clients \ {c} : rows \cap (added[d] \cup removed[d]) = {}
         /\ added'[c] = added[c] \cup rows /\ removed'[c] = removed[c]
      \/ /\ con.action # "add"
         /\ added'[c] = added[c] \ hit /\ removed'[c] = removed[c] \cup hit
  BY <1>2 DEF UniquesInv, BaseInv, TypeOK
<1>7. \A d \in Clients \ {c} : added'[d] = added[d] /\ removed'[d] = removed[d]
  BY <1>2 DEF UniquesInv, BaseInv, TypeOK
<1>8. TxUniques(c)
  BY DEF UniquesInv
<1>9. ClaimOf(c, n) = [inst |-> inst, con |-> con] /\ \A k : ClaimOf(c, k)' = ClaimOf(c, k)
  BY <1>1 DEF ClaimOf
<1> HIDE DEF n, con, inst, rows, hit
<1>10. ASSUME NEW i \in Instances, NEW f \in Fields
       PROVE  /\ Row(i, f) \in added'[c] <=> TxHolds(c, i, f)'
              /\ Row(i, f) \in removed'[c] => TxReleases(c, i, f)'
              /\ TxReleases(c, i, f)' /\ Serializable /\ Row(i, f) \in snapshot'[c].uniques =>
                    Row(i, f) \in removed'[c]
              /\ TxClaims(c, i, f)' =>
                    /\ Row(i, f) \in added'[c] \cup removed'[c]
                    /\ IF Serializable THEN Row(i, f) \notin snapshot'[c].uniques
                       ELSE /\ Row(i, f) \notin uniques'
                            /\ \A d \in Clients \ {c} : Row(i, f) \notin added'[d]
              /\ \A k, l \in Executed(c)' :
                    k < l /\ Adds(ClaimOf(c, k)', i, f) /\ Adds(ClaimOf(c, l)', i, f)
                       => \E m \in Executed(c)' : k < m /\ m < l /\ Releases(ClaimOf(c, m)', i, f)
              /\ Row(i, f) \in added'[c] =>
                    \/ Row(i, f) \in added[c]
                    \/ \A d \in Clients \ {c} : Row(i, f) \notin added[d] \cup removed[d]
  <2> DEFINE r == Row(i, f)
             A(k) == Adds(ClaimOf(c, k), i, f)
             R(k) == Releases(ClaimOf(c, k), i, f)
  <2>1. /\ con.action = "add" => (r \in rows <=> A(n)) /\ ~R(n)
        /\ con.action # "add" => (r \in rows <=> R(n)) /\ ~A(n)
    BY <1>3, <1>9, RowsOfClaim DEF rows
  <2>2. UNCHANGED batch[c]
    BY <1>1
  <2>3. /\ TxHolds(c, i, f)' <=> (TxHolds(c, i, f) /\ ~R(n)) \/ A(n)
        /\ TxReleases(c, i, f)' <=> TxReleases(c, i, f) \/ R(n)
        /\ TxClaims(c, i, f)' <=> TxClaims(c, i, f) \/ (A(n) /\ ~TxReleases(c, i, f))
    BY <1>3, <1>5, <2>1, <2>2, AdvanceFacts
  <2>4. /\ r \in added[c] <=> TxHolds(c, i, f)
        /\ r \in removed[c] => TxReleases(c, i, f)
        /\ TxReleases(c, i, f) /\ Serializable /\ r \in snapshot[c].uniques => r \in removed[c]
        /\ TxClaims(c, i, f) =>
              /\ r \in added[c] \cup removed[c]
              /\ IF Serializable THEN r \notin snapshot[c].uniques
                 ELSE r \notin uniques /\ \A d \in Clients \ {c} : r \notin added[d]
    BY <1>8 DEF TxUniques
  <2>5. \A k, l \in 1..(n - 1) : k < l /\ A(k) /\ A(l) => \E m \in 1..(n - 1) : k < m /\ m < l /\ R(m)
    BY <1>5, <1>8 DEF TxUniques
  <2>6. TxHolds(c, i, f) <=> \E k \in 1..(n - 1) : A(k) /\ \A l \in 1..(n - 1) : l > k => ~R(l)
    BY <1>5 DEF TxHolds
  <2>7. r \in hit <=> r \in rows /\ \/ r \in added[c]
                                     \/ /\ r \notin removed[c]
                                        /\ r \in IF Serializable THEN snapshot[c].uniques ELSE uniques
    BY DEF hit, UniquesSeen
  <2> HIDE DEF r, A, R
  <2>8. r \in added'[c] <=> TxHolds(c, i, f)'
    BY <1>6, <2>1, <2>3, <2>4, <2>7
  <2>9. r \in removed'[c] => TxReleases(c, i, f)'
    BY <1>6, <2>1, <2>3, <2>4, <2>7
  <2>10. TxReleases(c, i, f)' /\ Serializable /\ r \in snapshot'[c].uniques => r \in removed'[c]
    BY <1>1, <1>6, <2>1, <2>3, <2>4, <2>7
  <2>11. TxClaims(c, i, f)' => r \in added'[c] \cup removed'[c]
    BY <1>6, <2>1, <2>3, <2>4, <2>7
  <2>12. ASSUME TxClaims(c, i, f)', Serializable PROVE r \notin snapshot'[c].uniques
    BY <1>1, <1>6, <2>1, <2>3, <2>4, <2>7, <2>12
  <2>13. ASSUME TxClaims(c, i, f)', ~Serializable
         PROVE  r \notin uniques' /\ \A d \in Clients \ {c} : r \notin added'[d]
    BY <1>1, <1>6, <1>7, <2>1, <2>3, <2>4, <2>7, <2>13
  <2>14. ASSUME NEW k \in 1..n, NEW l \in 1..n, k < l, A(k), A(l)
         PROVE  \E m \in 1..n : k < m /\ m < l /\ R(m)
    <3>1. k \in 1..(n - 1) /\ \A m \in 1..(n - 1) : m \in 1..n /\ m < n
      BY <1>3, <2>14
    <3>2. CASE l = n
      <4>1. con.action = "add" /\ r \in rows /\ hit = {}
        BY <1>6, <2>1, <2>14, <3>2
      <4>2. ~TxHolds(c, i, f)
        BY <2>4, <2>7, <4>1
      <4>3. \E m \in 1..(n - 1) : m > k /\ R(m)
        BY <2>6, <2>14, <3>1, <4>2
      <4> QED  BY <1>3, <3>1, <3>2, <4>3
    <3>3. CASE l # n
      <4>1. l \in 1..(n - 1)
        BY <1>3, <3>3
      <4> QED  BY <2>5, <2>14, <3>1, <4>1
    <3> QED  BY <3>2, <3>3
  <2>15. r \in added'[c] => \/ r \in added[c]
                            \/ \A d \in Clients \ {c} : r \notin added[d] \cup removed[d]
    BY <1>6
  <2> QED  BY <1>5, <1>9, <2>8, <2>9, <2>10, <2>11, <2>12, <2>13, <2>14, <2>15 DEF r, A, R
<1>11. TxUniques(c)'
  BY <1>1, <1>4, <1>10 DEF TxUniques, Row, Adds, Releases, Scope
<1> QED  BY <1>1, <1>4, <1>7, <1>10, <1>11

\* COMMIT appends the claims of the transaction.
LEMMA CommitClaims ==
    ASSUME UniquesInv, NEW c \in Clients, Commit(c)
    PROVE  LET n == Len(claims)
               m == Len(batch[c].cons)
           IN  /\ n \in Nat /\ m \in Nat /\ Executed(c) = 1..m /\ Len(claims') = n + m
               /\ DOMAIN claims' = 1..(n + m) /\ DOMAIN claims = 1..n
               /\ \A k \in 1..n : k \in 1..(n + m) /\ claims'[k] = claims[k]
               /\ \A k \in 1..m : n + k \in 1..(n + m) /\ claims'[n + k] = ClaimOf(c, k)
               /\ \A k \in 1..(n + m) : k \in 1..n \/ \E j \in 1..m : k = n + j
<1> DEFINE n == Len(claims)
           m == Len(batch[c].cons)
           Claimed == [inst : Instances, con : Constraint]
           new == [k \in DOMAIN batch[c].cons |->
                     [inst |-> batch[c].inst, con |-> batch[c].cons[k]]]
<1>1. batch[c].inst \in Instances /\ batch[c].cons \in Seq(Constraint) /\ claims \in Seq(Claimed)
  BY DEF UniquesInv, BaseInv, TypeOK, Batch
<1>2. m \in Nat /\ DOMAIN batch[c].cons = 1..m /\ n \in Nat /\ DOMAIN claims = 1..n
  BY <1>1
<1>3. new \in Seq(Claimed) /\ Len(new) = m /\ \A k \in 1..m : new[k] = ClaimOf(c, k)
  <2>1. \A k \in 1..m : [inst |-> batch[c].inst, con |-> batch[c].cons[k]] \in Claimed
    BY <1>1, <1>2
  <2>2. new \in Seq(Claimed)
    BY <1>2, <2>1, SeqDef
  <2> QED  BY <1>2, <2>2 DEF ClaimOf
<1>4. claims' = claims \o new /\ pc[c] = "commit"
  BY DEF Commit
<1>5. Executed(c) = 1..m
  <2>1. at[c] = m + 1
    BY <1>4 DEF UniquesInv, TxUniques
  <2> HIDE DEF m
  <2>2. at[c] - 1 = m
    BY <1>2, <2>1
  <2> QED  BY <1>4, <2>2 DEF Executed
<1> HIDE DEF new, Claimed, n, m
<1>6. /\ Len(claims') = n + m
      /\ \A k \in 1..(n + m) : claims'[k] = IF k <= n THEN claims[k] ELSE new[k - n]
      /\ claims' \in Seq(Claimed)
  BY <1>1, <1>3, <1>4, ConcatProperties DEF n
<1>7. DOMAIN claims' = 1..(n + m)
  BY <1>6
<1>8. \A k \in 1..n : k \in 1..(n + m) /\ claims'[k] = claims[k]
  BY <1>2, <1>6
<1>9. ASSUME NEW k \in 1..m PROVE n + k \in 1..(n + m) /\ claims'[n + k] = ClaimOf(c, k)
  <2>1. n + k \in 1..(n + m) /\ ~(n + k <= n) /\ (n + k) - n = k
    BY <1>2
  <2> QED  BY <1>3, <1>6, <2>1
<1>10. ASSUME NEW k \in 1..(n + m) PROVE k \in 1..n \/ \E j \in 1..m : k = n + j
  <2>1. CASE k > n
    <3>1. k - n \in 1..m /\ k = n + (k - n)
      BY <1>2, <2>1
    <3> QED  BY <3>1
  <2> QED  BY <1>2, <2>1
<1> QED  BY <1>2, <1>5, <1>6, <1>7, <1>8, <1>9, <1>10 DEF n, m

\* The names held after COMMIT.
LEMMA CommitHolding ==
    ASSUME UniquesInv, NEW c \in Clients, Commit(c), NEW i \in Instances, NEW f \in Fields
    PROVE  Holding(i, f)' <=> TxHolds(c, i, f) \/ (Holding(i, f) /\ ~TxReleases(c, i, f))
<1> DEFINE n == Len(claims)
           m == Len(batch[c].cons)
           A(k) == Adds(claims[k], i, f)
           R(k) == Releases(claims[k], i, f)
           B(k) == Adds(claims'[k], i, f)
           S(k) == Releases(claims'[k], i, f)
           X(k) == Adds(ClaimOf(c, k), i, f)
           Y(k) == Releases(ClaimOf(c, k), i, f)
<1>1. /\ n \in Nat /\ m \in Nat /\ Executed(c) = 1..m /\ Len(claims') = n + m
      /\ DOMAIN claims' = 1..(n + m) /\ DOMAIN claims = 1..n
      /\ \A k \in 1..n : k \in 1..(n + m) /\ (A(k) <=> B(k)) /\ (R(k) <=> S(k))
      /\ \A k \in 1..m : n + k \in 1..(n + m) /\ (X(k) <=> B(n + k)) /\ (Y(k) <=> S(n + k))
      /\ \A k \in 1..(n + m) : k \in 1..n \/ \E j \in 1..m : k = n + j
  BY CommitClaims
<1>2. Holding(i, f) <=> \E k \in 1..n : A(k) /\ \A l \in (k + 1)..n : ~R(l)
  BY <1>1 DEF Holding
<1>3. Holding(i, f)' <=> \E k \in 1..(n + m) : B(k) /\ \A l \in (k + 1)..(n + m) : ~S(l)
  BY <1>1 DEF Holding, Adds, Releases, Scope
<1>4. /\ TxHolds(c, i, f) <=> \E k \in 1..m : X(k) /\ \A l \in 1..m : l > k => ~Y(l)
      /\ TxReleases(c, i, f) <=> \E k \in 1..m : Y(k)
  BY <1>1 DEF TxHolds, TxReleases
<1> HIDE DEF n, m, A, R, B, S, X, Y
<1>5. ASSUME Holding(i, f)', ~TxHolds(c, i, f) PROVE Holding(i, f) /\ ~TxReleases(c, i, f)
  <2>1. PICK k \in 1..(n + m) : B(k) /\ \A l \in (k + 1)..(n + m) : ~S(l)
    BY <1>3, <1>5
  <2>2. CASE k \in 1..n
    <3>1. \A l \in (k + 1)..n : l \in (k + 1)..(n + m) /\ l \in 1..n
      BY <1>1, <2>2
    <3>2. \A l \in 1..m : n + l \in (k + 1)..(n + m)
      BY <1>1, <2>2
    <3>3. A(k) /\ \A l \in (k + 1)..n : ~R(l)
      BY <1>1, <2>1, <2>2, <3>1
    <3>4. \A l \in 1..m : ~Y(l)
      BY <1>1, <2>1, <3>2
    <3> QED  BY <1>2, <1>4, <2>2, <3>3, <3>4
  <2>3. ASSUME NEW j \in 1..m, k = n + j PROVE FALSE
    <3>1. \A l \in 1..m : l > j => n + l \in (k + 1)..(n + m)
      BY <1>1, <2>3
    <3>2. X(j) /\ \A l \in 1..m : l > j => ~Y(l)
      BY <1>1, <2>1, <2>3, <3>1
    <3> QED  BY <1>4, <1>5, <3>2
  <2> QED  BY <1>1, <2>1, <2>2, <2>3
<1>6. ASSUME TxHolds(c, i, f) PROVE Holding(i, f)'
  <2>1. PICK j \in 1..m : X(j) /\ \A l \in 1..m : l > j => ~Y(l)
    BY <1>4, <1>6
  <2>2. n + j \in 1..(n + m) /\ B(n + j)
    BY <1>1, <2>1
  <2>3. ASSUME NEW l \in (n + j + 1)..(n + m) PROVE ~S(l)
    <3>1. l - n \in 1..m /\ l - n > j /\ n + (l - n) = l
      BY <1>1, <2>3
    <3> QED  BY <1>1, <2>1, <3>1
  <2> QED  BY <1>3, <2>2, <2>3
<1>7. ASSUME Holding(i, f), ~TxReleases(c, i, f) PROVE Holding(i, f)'
  <2>1. PICK k \in 1..n : A(k) /\ \A l \in (k + 1)..n : ~R(l)
    BY <1>2, <1>7
  <2>2. k \in 1..(n + m) /\ B(k)
    BY <1>1, <2>1
  <2>3. ASSUME NEW l \in (k + 1)..(n + m) PROVE ~S(l)
    <3>1. l \in 1..(n + m) /\ (l \in 1..n => l \in (k + 1)..n)
      BY <1>1, <2>3
    <3>2. CASE l \in 1..n
      BY <1>1, <2>1, <3>1, <3>2
    <3>3. ASSUME NEW j \in 1..m, l = n + j PROVE ~S(l)
      BY <1>1, <1>4, <1>7, <3>3
    <3> QED  BY <1>1, <3>1, <3>2, <3>3
  <2> QED  BY <1>3, <2>2, <2>3
<1> QED  BY <1>5, <1>6, <1>7

\* What a committing transaction says about a name is about a row it has read.
LEMMA CommitReads ==
    ASSUME UniquesInv, NEW c \in Clients, Commit(c), Serializable,
           NEW i \in Instances, NEW f \in Fields, NEW k \in Executed(c),
           Adds(ClaimOf(c, k), i, f) \/ Releases(ClaimOf(c, k), i, f)
    PROVE  Row(i, f) \in uniques <=> Row(i, f) \in snapshot[c].uniques
<1>1. k \in DOMAIN batch[c].cons
  <2>1. Executed(c) = 1..Len(batch[c].cons) /\ batch[c].cons \in Seq(Constraint)
    BY CommitClaims DEF UniquesInv, BaseInv, TypeOK, Batch
  <2> QED  BY <2>1
<1>2. batch[c].inst \in Instances /\ batch[c].cons[k] \in Constraint
  BY <1>1 DEF UniquesInv, BaseInv, TypeOK, Batch
<1>3. Row(i, f) \in UniqueRowsOf(batch[c].inst, batch[c].cons[k])
  BY <1>2, RowsOfClaim DEF ClaimOf
<1>4. ReadsUnchanged(c)
  BY DEF Commit
<1> QED  BY <1>1, <1>3, <1>4 DEF ReadsUnchanged

\* COMMIT claims no name that is held.
LEMMA CommitUniques == ASSUME UniquesInv, BaseInv', NEW c \in Clients, Commit(c) PROVE UniquesInv'
<1>1. /\ uniques' = (uniques \ removed[c]) \cup added[c] /\ EndTx(c)
  BY DEF Commit
<1>2. TxUniques(c)
  BY DEF UniquesInv
<1>3. \A d \in Clients : TxUniques(d)'
  <2> SUFFICES ASSUME NEW d \in Clients PROVE TxUniques(d)'
    OBVIOUS
  <2>1. CASE d = c
    <3>1. added'[c] = {} /\ removed'[c] = {} /\ pc'[c] = "idle"
      BY <1>1 DEF EndTx, UniquesInv, BaseInv, TypeOK
    <3>2. \A i \in Instances, g \in Fields :
             ~TxHolds(c, i, g)' /\ ~TxReleases(c, i, g)' /\ ~TxClaims(c, i, g)'
      BY <3>1 DEF TxHolds, TxReleases, TxClaims, Executed
    <3>3. Executed(c)' = {}
      BY <3>1 DEF Executed
    <3> QED  BY <2>1, <3>1, <3>2, <3>3 DEF TxUniques
  <2>2. CASE d # c
    <3>1. UNCHANGED <<pc[d], at[d], batch[d], added[d], removed[d], snapshot[d]>>
      BY <1>1, <2>2 DEF EndTx, UniquesInv, BaseInv, TypeOK
    <3>2. \A g \in Clients : added'[g] \subseteq added[g]
      BY <1>1 DEF EndTx, UniquesInv, BaseInv, TypeOK
    <3>3. TxUniques(d)
      BY DEF UniquesInv
    <3>4. ~Serializable => \A i \in Instances, f \in Fields : TxClaims(d, i, f) =>
                /\ Row(i, f) \notin uniques'
                /\ \A g \in Clients \ {d} : Row(i, f) \notin added'[g]
      BY <1>1, <2>2, <3>2, <3>3 DEF TxUniques
    <3> QED  BY <3>1, <3>3, <3>4, TxKept
  <2> QED  BY <2>1, <2>2
<1>4. ASSUME NEW i \in Instances, NEW f \in Fields
      PROVE  /\ Holding(i, f)' => Row(i, f) \in uniques'
             /\ Serializable /\ Row(i, f) \in uniques' => Holding(i, f)'
  <2>1. Holding(i, f)' <=> TxHolds(c, i, f) \/ (Holding(i, f) /\ ~TxReleases(c, i, f))
    BY CommitHolding
  <2>2. /\ Row(i, f) \in added[c] <=> TxHolds(c, i, f)
        /\ Row(i, f) \in removed[c] => TxReleases(c, i, f)
        /\ TxReleases(c, i, f) /\ Serializable /\ Row(i, f) \in snapshot[c].uniques =>
              Row(i, f) \in removed[c]
    BY <1>2 DEF TxUniques
  <2>3. /\ Holding(i, f) => Row(i, f) \in uniques
        /\ Serializable /\ Row(i, f) \in uniques => Holding(i, f)
    BY DEF UniquesInv, RowsMatch
  <2>4. TxReleases(c, i, f) /\ Serializable =>
           (Row(i, f) \in uniques <=> Row(i, f) \in snapshot[c].uniques)
    BY CommitReads DEF TxReleases
  <2> QED  BY <1>1, <2>1, <2>2, <2>3, <2>4
<1>5. ClaimedOnce'
  <2> DEFINE n == Len(claims)
             m == Len(batch[c].cons)
  <2> SUFFICES ASSUME NEW i \in Instances, NEW f \in Fields,
                      NEW k \in 1..(n + m), NEW l \in 1..(n + m), k < l,
                      Adds(claims'[k], i, f), Adds(claims'[l], i, f)
               PROVE  \E h \in (k + 1)..(l - 1) : Releases(claims'[h], i, f)
    <3>1. DOMAIN claims' = 1..(n + m)
      BY CommitClaims
    <3> QED  BY <3>1 DEF ClaimedOnce, Adds, Releases, Scope
  <2> DEFINE A(h) == Adds(claims[h], i, f)
             R(h) == Releases(claims[h], i, f)
             B(h) == Adds(claims'[h], i, f)
             S(h) == Releases(claims'[h], i, f)
             X(h) == Adds(ClaimOf(c, h), i, f)
             Y(h) == Releases(ClaimOf(c, h), i, f)
  <2>1. /\ n \in Nat /\ m \in Nat /\ Executed(c) = 1..m
        /\ DOMAIN claims = 1..n
        /\ \A h \in 1..n : h \in 1..(n + m) /\ (A(h) <=> B(h)) /\ (R(h) <=> S(h))
        /\ \A h \in 1..m : n + h \in 1..(n + m) /\ (X(h) <=> B(n + h)) /\ (Y(h) <=> S(n + h))
        /\ \A h \in 1..(n + m) : h \in 1..n \/ \E j \in 1..m : h = n + j
    BY CommitClaims
  <2>2. \A g, h \in 1..n : g < h /\ A(g) /\ A(h) => \E j \in (g + 1)..(h - 1) : R(j)
    BY <2>1 DEF UniquesInv, ClaimedOnce
  <2>3. Holding(i, f) <=> \E g \in 1..n : A(g) /\ \A h \in (g + 1)..n : ~R(h)
    BY <2>1 DEF Holding
  <2>4. TxClaims(c, i, f) <=> \E g \in 1..m : X(g) /\ \A h \in 1..m : h < g => ~Y(h)
    BY <2>1 DEF TxClaims
  <2>5. \A g, h \in 1..m : g < h /\ X(g) /\ X(h) => \E j \in 1..m : g < j /\ j < h /\ Y(j)
    BY <1>2, <2>1 DEF TxUniques
  <2>6. ~(Holding(i, f) /\ TxClaims(c, i, f))
    <3>1. Holding(i, f) => Row(i, f) \in uniques
      BY DEF UniquesInv, RowsMatch
    <3>2. TxClaims(c, i, f) =>
             Row(i, f) \notin IF Serializable THEN snapshot[c].uniques ELSE uniques
      BY <1>2 DEF TxUniques
    <3>3. TxClaims(c, i, f) /\ Serializable =>
             (Row(i, f) \in uniques <=> Row(i, f) \in snapshot[c].uniques)
      BY CommitReads DEF TxClaims
    <3> QED  BY <3>1, <3>2, <3>3
  <2>7. B(k) /\ B(l)
    OBVIOUS
  <2> HIDE DEF n, m, A, R, B, S, X, Y
  <2>8. CASE l \in 1..n
    <3>1. k \in 1..n
      BY <2>1, <2>8
    <3>2. PICK j \in (k + 1)..(l - 1) : R(j)
      BY <2>1, <2>2, <2>7, <2>8, <3>1
    <3>3. j \in 1..n
      BY <2>1, <2>8, <3>1, <3>2
    <3>4. S(j)
      BY <2>1, <3>2, <3>3
    <3> QED  BY <3>2, <3>4 DEF S
  <2>9. ASSUME NEW g \in 1..m, l = n + g, k \in 1..n
        PROVE  \E h \in (k + 1)..(l - 1) : S(h)
    <3>1. A(k) /\ X(g)
      BY <2>1, <2>7, <2>9
    <3>2. CASE \E h \in (k + 1)..n : R(h)
      <4>1. PICK h \in (k + 1)..n : R(h)
        BY <3>2
      <4>2. h \in 1..n /\ h \in (k + 1)..(l - 1)
        BY <2>1, <2>9, <4>1
      <4> QED  BY <2>1, <4>1, <4>2
    <3>3. CASE ~\E h \in (k + 1)..n : R(h)
      <4>1. Holding(i, f)
        BY <2>3, <2>9, <3>1, <3>3
      <4>2. PICK h \in 1..m : h < g /\ Y(h)
        BY <2>4, <2>6, <3>1, <4>1
      <4>3. n + h \in (k + 1)..(l - 1)
        BY <2>1, <2>9, <4>2
      <4> QED  BY <2>1, <4>2, <4>3
    <3> QED  BY <3>2, <3>3
  <2>10. ASSUME NEW g \in 1..m, l = n + g, NEW p \in 1..m, k = n + p
         PROVE  \E h \in (k + 1)..(l - 1) : S(h)
    <3>1. X(g) /\ X(p) /\ p < g
      BY <2>1, <2>7, <2>10
    <3>2. PICK j \in 1..m : p < j /\ j < g /\ Y(j)
      BY <2>5, <3>1
    <3>3. n + j \in (k + 1)..(l - 1)
      BY <2>1, <2>10, <3>2
    <3> QED  BY <2>1, <3>2, <3>3
  <2>11. l \in 1..n \/ \E g \in 1..m : l = n + g
    BY <2>1
  <2>12. k \in 1..n \/ \E p \in 1..m : k = n + p
    BY <2>1
  <2> QED  BY <2>8, <2>9, <2>10, <2>11, <2>12 DEF S
<1> QED  BY <1>3, <1>4, <1>5 DEF UniquesInv, RowsMatch, Row

\* A step of c outside the constraints; the others keep what they have.
LEMMA UniquesKeep ==
    ASSUME UniquesInv, BaseInv', NEW c \in Clients, UNCHANGED <<uniques, claims>>,
           Executed(c)' = {}, added'[c] = {}, removed'[c] = {},
           pc'[c] = "commit" => at'[c] = Len(batch'[c].cons) + 1,
           \A d \in Clients \ {c} :
              UNCHANGED <<pc[d], at[d], batch[d], added[d], removed[d], snapshot[d]>>
    PROVE  UniquesInv'
<1>1. ClaimedOnce' /\ RowsMatch'
  BY DEF UniquesInv, ClaimedOnce, RowsMatch, Holding, Row, Adds, Releases, Scope
<1>2. TxUniques(c)'
  <2>1. \A i \in Instances, f \in Fields :
           ~TxHolds(c, i, f)' /\ ~TxReleases(c, i, f)' /\ ~TxClaims(c, i, f)'
    BY DEF TxHolds, TxReleases, TxClaims
  <2> QED  BY <2>1 DEF TxUniques
<1>3. ASSUME NEW d \in Clients, d # c PROVE TxUniques(d)'
  <2>1. TxUniques(d) /\ UNCHANGED <<pc[d], at[d], batch[d], added[d], removed[d], snapshot[d]>>
    BY <1>3 DEF UniquesInv
  <2>2. \A g \in Clients : added'[g] \subseteq added[g]
    OBVIOUS
  <2>3. ~Serializable => \A i \in Instances, f \in Fields : TxClaims(d, i, f) =>
              /\ Row(i, f) \notin uniques'
              /\ \A g \in Clients \ {d} : Row(i, f) \notin added'[g]
    BY <2>1, <2>2 DEF TxUniques
  <2> QED  BY <2>1, <2>3, TxKept
<1> QED  BY <1>1, <1>2, <1>3 DEF UniquesInv

\* A step that touches none of it.
LEMMA UniquesSame ==
    ASSUME UniquesInv, BaseInv',
           UNCHANGED <<uniques, claims, pc, at, batch, added, removed, snapshot>>
    PROVE  UniquesInv'
<1>1. ClaimedOnce' /\ RowsMatch'
  BY DEF UniquesInv, ClaimedOnce, RowsMatch, Holding, Row, Adds, Releases, Scope
<1>2. ASSUME NEW d \in Clients PROVE TxUniques(d)'
  <2>1. TxUniques(d)
    BY DEF UniquesInv
  <2>2. ~Serializable => \A i \in Instances, f \in Fields : TxClaims(d, i, f) =>
              /\ Row(i, f) \notin uniques'
              /\ \A g \in Clients \ {d} : Row(i, f) \notin added'[g]
    BY <2>1 DEF TxUniques
  <2> QED  BY <2>1, <2>2, TxKept
<1> QED  BY <1>1, <1>2 DEF UniquesInv

LEMMA UniquesStep == UniquesInv /\ [Next]_esVars => UniquesInv'
<1> SUFFICES ASSUME UniquesInv, [Next]_esVars PROVE UniquesInv'
  OBVIOUS
<1>1. BaseInv /\ BaseInv'
  BY BaseStep DEF UniquesInv
<1>2. ASSUME NEW c \in Clients, NEW b \in Batch, BeginTx(c, b), UNCHANGED <<uniques, claims>>
      PROVE  UniquesInv'
  <2>1. /\ pc'[c] = (IF b.cmds = <<>> THEN AfterEvents(b) ELSE "query") /\ at'[c] = 1
        /\ batch'[c] = b /\ added'[c] = {} /\ removed'[c] = {}
        /\ \A d \in Clients \ {c} :
              UNCHANGED <<pc[d], at[d], batch[d], added[d], removed[d], snapshot[d]>>
    BY <1>1, <1>2 DEF BeginTx, BaseInv, TypeOK
  <2>2. Executed(c)' = {}
    BY <2>1 DEF Executed
  <2>3. pc'[c] = "commit" => at'[c] = Len(batch'[c].cons) + 1
    BY <2>1 DEF AfterEvents
  <2> QED  BY <1>1, <1>2, <2>1, <2>2, <2>3, UniquesKeep
<1>3. ASSUME NEW c \in Clients, EndTx(c), UNCHANGED <<uniques, claims>> PROVE UniquesInv'
  <2>1. /\ pc'[c] = "idle" /\ added'[c] = {} /\ removed'[c] = {}
        /\ \A d \in Clients \ {c} :
              UNCHANGED <<pc[d], at[d], batch[d], added[d], removed[d], snapshot[d]>>
    BY <1>1, <1>3 DEF EndTx, BaseInv, TypeOK
  <2>2. Executed(c)' = {}
    BY <2>1 DEF Executed
  <2> QED  BY <1>1, <1>3, <2>1, <2>2, UniquesKeep
<1>4. ASSUME NEW c \in Clients, Push(c) PROVE UniquesInv'
  <2>1. UNCHANGED <<uniques, claims>> /\ ((\E b \in Batches : BeginTx(c, b)) \/ UNCHANGED <<pc, txVars>>)
    BY <1>4 DEF Push
  <2> QED  BY <1>1, <1>2, <2>1, BatchesAssumption, UniquesSame DEF txVars
<1>5. ASSUME NEW c \in Clients, Fail(c) \/ Retry(c) PROVE UniquesInv'
  <2>1. batch[c] \in Batch
    BY <1>1 DEF BaseInv, TypeOK
  <2> QED  BY <1>2, <1>3, <1>5, <2>1 DEF Fail, Retry, Rollback
<1>6. ASSUME NEW c \in Clients, QueryRow(c) PROVE UniquesInv'
  <2>1. /\ pc[c] = "query" /\ pc' = [pc EXCEPT ![c] = "write"]
        /\ UNCHANGED <<uniques, claims, batch, at, added, removed, snapshot>>
    BY <1>6 DEF QueryRow
  <2>2. pc'[c] = "write" /\ \A d \in Clients \ {c} : pc'[d] = pc[d]
    BY <1>1, <2>1 DEF BaseInv, TypeOK
  <2>3. added[c] = {} /\ removed[c] = {}
    BY <2>1 DEF UniquesInv, TxUniques
  <2>4. Executed(c)' = {}
    BY <2>2 DEF Executed
  <2> QED  BY <1>1, <2>1, <2>2, <2>3, <2>4, UniquesKeep
<1>7. ASSUME NEW c \in Clients, WriteRow(c) PROVE UniquesInv'
  <2>1. /\ pc[c] = "write"
        /\ batch' = [batch EXCEPT ![c].cmds[at[c]].owner = pending[c].owner]
        /\ \/ at' = [at EXCEPT ![c] = @ + 1] /\ pc' = [pc EXCEPT ![c] = "query"]
           \/ at' = [at EXCEPT ![c] = 1] /\ pc' = [pc EXCEPT ![c] = AfterEvents(batch[c])]
        /\ UNCHANGED <<uniques, claims, added, removed, snapshot>>
    BY <1>7 DEF WriteRow
  <2>2. /\ \/ pc'[c] = "query"
           \/ at'[c] = 1 /\ pc'[c] = AfterEvents(batch[c])
        /\ batch'[c].cons = batch[c].cons
        /\ \A d \in Clients \ {c} : UNCHANGED <<pc[d], at[d], batch[d]>>
    BY <1>1, <2>1, SMTT(30) DEF BaseInv, TypeOK, Batch
  <2>3. added[c] = {} /\ removed[c] = {}
    BY <2>1 DEF UniquesInv, TxUniques
  <2>4. Executed(c)' = {}
    BY <2>2 DEF Executed
  <2>5. pc'[c] = "commit" => at'[c] = Len(batch'[c].cons) + 1
    BY <2>2 DEF AfterEvents
  <2> QED  BY <1>1, <2>1, <2>2, <2>3, <2>4, <2>5, UniquesKeep
<1>8. ASSUME NEW c \in Clients, HandleUniqueConstraint(c) PROVE UniquesInv'
  <2>1. CASE Rollback(c, "exists")
    BY <1>3, <2>1 DEF Rollback
  <2>2. CASE ~Rollback(c, "exists")
    <3>1. /\ TxUniques(c)' /\ UNCHANGED <<uniques, claims, snapshot, batch>>
          /\ \A d \in Clients \ {c} : UNCHANGED <<pc[d], at[d], added[d], removed[d]>>
          /\ \A i \in Instances, f \in Fields :
                Row(i, f) \in added'[c] =>
                   \/ Row(i, f) \in added[c]
                   \/ \A d \in Clients \ {c} : Row(i, f) \notin added[d] \cup removed[d]
      BY <1>8, <2>2, ConstraintUniques
    <3>2. ClaimedOnce' /\ RowsMatch'
      BY <3>1 DEF UniquesInv, ClaimedOnce, RowsMatch, Holding, Row, Adds, Releases, Scope
    <3>3. ASSUME NEW d \in Clients, d # c PROVE TxUniques(d)'
      <4>1. TxUniques(d) /\ UNCHANGED <<pc[d], at[d], batch[d], added[d], removed[d], snapshot[d]>>
        BY <3>1, <3>3 DEF UniquesInv
      <4>2. ~Serializable => \A i \in Instances, f \in Fields : TxClaims(d, i, f) =>
                  /\ Row(i, f) \notin uniques'
                  /\ \A g \in Clients \ {d} : Row(i, f) \notin added'[g]
        <5> SUFFICES ASSUME ~Serializable, NEW i \in Instances, NEW f \in Fields,
                            TxClaims(d, i, f)
                     PROVE  /\ Row(i, f) \notin uniques'
                            /\ \A g \in Clients \ {d} : Row(i, f) \notin added'[g]
          OBVIOUS
        <5>1. /\ Row(i, f) \in added[d] \cup removed[d] /\ Row(i, f) \notin uniques
              /\ \A g \in Clients \ {d} : Row(i, f) \notin added[g]
          BY <4>1 DEF TxUniques
        <5>2. Row(i, f) \notin added'[c]
          BY <3>1, <3>3, <5>1
        <5>3. \A g \in Clients \ {c, d} : Row(i, f) \notin added'[g]
          BY <3>1, <5>1
        <5> QED  BY <3>1, <5>1, <5>2, <5>3
      <4> QED  BY <4>1, <4>2, TxKept
    <3> QED  BY <1>1, <3>1, <3>2, <3>3 DEF UniquesInv
  <2> QED  BY <2>1, <2>2
<1>9. ASSUME NEW i \in Instances, CreateInstance(i) PROVE UniquesInv'
  BY <1>1, <1>9, UniquesSame DEF CreateInstance, txVars
<1>10. CASE UNCHANGED esVars
  BY <1>1, <1>10, UniquesSame DEF esVars, txVars
<1> QED  BY <1>1, <1>4, <1>5, <1>6, <1>7, <1>8, <1>9, <1>10, CommitUniques DEF Next

LEMMA UniquesInit == Init => UniquesInv
<1> SUFFICES ASSUME Init PROVE UniquesInv
  OBVIOUS
<1>1. claims = <<>> /\ uniques = {}
  BY DEF Init
<1>2. ClaimedOnce /\ RowsMatch
  BY <1>1 DEF ClaimedOnce, RowsMatch, Holding
<1>3. ASSUME NEW c \in Clients PROVE TxUniques(c)
  <2>1. pc[c] = "idle" /\ added[c] = {} /\ removed[c] = {}
    BY DEF Init
  <2>2. Executed(c) = {}
    BY <2>1 DEF Executed
  <2> QED  BY <2>1, <2>2, TxEmpty
<1> QED  BY <1>2, <1>3, BaseInit DEF UniquesInv

(***************************************************************************)
(* On either isolation level: two pushes that are committed never claim    *)
(* the same name unless it was released between them                       *)
(* (handleUniqueConstraints), for any number of pushes running at once.    *)
(***************************************************************************)
THEOREM NamesClaimedOnce == Spec => []ClaimedOnce
<1>1. UniquesInv => ClaimedOnce
  BY DEF UniquesInv
<1> QED  BY <1>1, UniquesInit, UniquesStep, PTL DEF Spec

(***************************************************************************)
(* When transactions are isolated the table unique_constraints holds the   *)
(* names that committed pushes have claimed and not released, and no       *)
(* other.                                                                  *)
(***************************************************************************)
THEOREM TableMatchesClaims == ASSUME Serializable PROVE Spec => []UniquesMatchClaims
<1>1. UniquesInv => UniquesMatchClaims
  <2> SUFFICES ASSUME UniquesInv, NEW i \in Instances, NEW f \in Fields
               PROVE  Holding(i, f) <=> \E u \in uniques : u.inst = i /\ u.field = ToLower[f]
    BY DEF UniquesMatchClaims
  <2>1. Holding(i, f) <=> Row(i, f) \in uniques
    BY DEF UniquesInv, RowsMatch
  <2>2. \A u \in uniques : u.inst = i /\ u.field = ToLower[f] => u = Row(i, f)
    BY DEF UniquesInv, BaseInv, TypeOK, UniqueRow, Row
  <2>3. Row(i, f).inst = i /\ Row(i, f).field = ToLower[f]
    BY DEF Row
  <2> QED  BY <2>1, <2>2, <2>3
<1> QED  BY <1>1, UniquesInit, UniquesStep, PTL DEF Spec
=============================================================================
