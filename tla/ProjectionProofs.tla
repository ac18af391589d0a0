-------------------------- MODULE ProjectionProofs --------------------------
(***************************************************************************)
(* Proofs about Projection, for every set of workers, every log, every     *)
(* bulk limit and every number of retries, failures and faults: its type   *)
(* invariant and, when the database isolates transactions, that the        *)
(* statements of a stream are handled in order and once, that              *)
(* current_sequences is the last of them, that a statement is skipped only *)
(* after it has failed often enough, and that the handler implements the   *)
(* abstract Consumer.                                                      *)
(***************************************************************************)
EXTENDS Projection, SequenceTheorems, FiniteSetTheorems, WellFoundedInduction, TLAPS

-----------------------------------------------------------------------------
(* The maximum of a bounded set of rows                                    *)

\* A nonempty set of naturals with an upper bound has a largest element.
LEMMA LargestNatural ==
    ASSUME NEW S \in SUBSET Nat, S # {}, NEW b \in Nat, \A s \in S : s <= b
    PROVE  \E m \in S : \A s \in S : s <= m
<1> DEFINE T == {b - s : s \in S}
<1>1. T \subseteq Nat /\ T # {}
  <2>1. \A s \in S : b - s \in Nat
    OBVIOUS
  <2>2. PICK s \in S : TRUE
    OBVIOUS
  <2>3. b - s \in T
    BY <2>2
  <2> QED  BY <2>1, <2>3
<1>2. PICK x \in T : \A y \in T : ~(<<y, x>> \in OpToRel(<, Nat))
  <2> HIDE DEF T
  <2> QED  BY <1>1, NatLessThanWellFounded, WFMin
<1>3. PICK m \in S : x = b - m
  OBVIOUS
<1>4. ASSUME NEW s \in S PROVE s <= m
  <2>1. b - s \in T /\ b - s \in Nat /\ b - m \in Nat
    OBVIOUS
  <2>2. ~(<<b - s, b - m>> \in OpToRel(<, Nat))
    BY <2>1, <1>2, <1>3
  <2>3. ~(b - s < b - m)
    BY <2>1, <2>2 DEF OpToRel
  <2> QED  BY <2>3
<1> QED  BY <1>3, <1>4

\* MaxSequence of rows with bounded sequences: one of them has it and none exceeds it.
LEMMA MaxSequenceFacts ==
    ASSUME NEW rows, \A e \in rows : e.seq \in Nat,
           NEW b \in Nat, \A e \in rows : e.seq <= b
    PROVE  /\ MaxSequence(rows) \in Nat
           /\ rows # {} => \E e \in rows : e.seq = MaxSequence(rows)
           /\ \A e \in rows : e.seq <= MaxSequence(rows)
<1>1. CASE rows = {}
  BY <1>1 DEF MaxSequence
<1>2. CASE rows # {}
  <2> DEFINE S == {e.seq : e \in rows}
  <2>1. \E m \in S : \A s \in S : s <= m
    <3>1. S \in SUBSET Nat /\ S # {} /\ \A s \in S : s <= b
      BY <1>2
    <3> HIDE DEF S
    <3> QED  BY <3>1, LargestNatural
  <2>2. \E m \in S : \A e \in rows : e.seq <= m
    BY <2>1
  <2>3. MaxSequence(rows) = CHOOSE m \in S : \A e \in rows : e.seq <= m
    BY <1>2 DEF MaxSequence
  <2>4. MaxSequence(rows) \in S /\ \A e \in rows : e.seq <= MaxSequence(rows)
    <3> HIDE DEF S
    <3> QED  BY <2>2, <2>3
  <2> QED  BY <2>4
<1> QED  BY <1>1, <1>2

-----------------------------------------------------------------------------
(* The first invariant: types, and the bounds of the loops                 *)

SequencesType == [Instances -> [AggTypes -> 0..SequenceBound]]
Entry(E) == [stmt : E, how : {"executed", "skipped"}]
Failure(E) == [stmt : E, count : Nat \ {0}]

\* The state of a transaction whose statements are events of E.
TxType(E) ==
    [insts : SUBSET Instances, list : Seq(E), aliased : BOOLEAN, next : Nat \ {0}, last : Int,
     base : SequencesType, seqs : SequencesType, failed : SUBSET Failure(E), done : Seq(Entry(E))]

\* The log: sequences name the events of an instance, and prevType names the event before.
LogInv ==
    /\ events \subseteq Event
    /\ IsFiniteSet(events)
    /\ \A e \in events : e.seq <= SequenceBound /\ e.prevType < e.seq
    /\ \A e, f \in events : e.inst = f.inst /\ e.seq = f.seq => e = f
    /\ \A e, f \in events : SameStream(e, f) /\ f.seq < e.seq => f.seq <= e.prevType

\* Like TypeOK, but statements are events of the log.
Types ==
    /\ current \in SequencesType
    /\ failures \in [Instances -> [1..SequenceBound -> Nat]]
    /\ handled \in Seq(Entry(events))
    /\ unsent \subseteq events \X Subscribers
    /\ queue \in [Subscribers -> Seq(events)]
    /\ pc \in [Workers -> {"idle", "fetch", "update", "exec", "commit", "dead"}]
    /\ statements \in [Workers -> Seq(events)]
    /\ index \in [Workers -> Int]
    /\ retry \in [Workers -> 0..Retries]
    /\ tx \in [Workers -> TxType(events)]
    /\ faults \in 0..MaxFaults

\* Where the loop of executeStmts is; the slice of a transaction that shares the slice of
\* Process ends where that one ends.
LoopInv(w) ==
    /\ index[w] >= -1
    /\ tx[w].last >= -1 /\ tx[w].last < tx[w].next
    /\ pc[w] = "exec" => tx[w].next <= Len(tx[w].list)
    /\ InTx(w) /\ tx[w].aliased => index[w] + 1 + Len(tx[w].list) <= Len(statements[w])
    /\ InTx(w) => \A k \in DOMAIN tx[w].list : tx[w].list[k].inst \in tx[w].insts

BaseInv == LogInv /\ Types /\ \A w \in Workers : LoopInv(w)

-----------------------------------------------------------------------------
(* The second invariant: what a transaction has done                       *)

\* The current sequences of a transaction, and those stored, are sequences of the stream.
Known(E, seqs) ==
    \A i \in Instances, t \in AggTypes :
        seqs[i][t] # 0 => \E e \in E : e.inst = i /\ e.atype = t /\ e.seq = seqs[i][t]

\* What a transaction has done leads from the sequences it has read to those it will write.
TxOrder(E, t) ==
    /\ \A i \in Instances : i \notin t.insts => t.base[i] = t.seqs[i]
    /\ t.last = -1 <=> t.done = <<>>
    /\ Known(E, t.seqs)
    /\ \A i \in Instances, a \in AggTypes :
          /\ Abstract!Follows(t.done, i, a, t.base[i][a], t.seqs[i][a])
          /\ t.base[i][a] <= t.seqs[i][a]
          /\ \A k \in Abstract!OfStream(t.done, i, a) :
                t.base[i][a] < t.done[k].stmt.seq /\ t.done[k].stmt.seq <= t.seqs[i][a]

\* What the output of the consumer looks like: HandledInOrder, and the position is that of the
\* last event handled.
OutputInv ==
    \A i \in Instances, t \in AggTypes :
        /\ Abstract!Follows(handled, i, t, 0, current[i][t])
        /\ \A k \in Abstract!OfStream(handled, i, t) : handled[k].stmt.seq <= current[i][t]

OrderInv ==
    /\ BaseInv
    /\ Known(events, current)
    /\ OutputInv
    /\ \A w \in Workers : InTx(w) => TxOrder(events, tx[w])

-----------------------------------------------------------------------------
(* The third invariant: failures                                           *)

Enough == Max({1, MaxFailureCount})

\* A failure that was counted is at most the last one, and the last one is followed by the
\* statement being handled: who does not see that works on sequences that have changed.
FailedInv(w) ==
    LET t == tx[w]
    IN  /\ \A f \in t.failed :
              /\ f.stmt.inst \in t.insts
              /\ t.base[f.stmt.inst][f.stmt.atype] < f.stmt.seq
              /\ f.count > Enough => f.stmt.seq <= current[f.stmt.inst][f.stmt.atype]
              /\ \/ pc[w] = "commit" /\ f.count < Enough
                 \/ f.count >= Enough /\ f.stmt.seq <= t.seqs[f.stmt.inst][f.stmt.atype]
        /\ \A f, g \in t.failed : f.stmt = g.stmt => f = g
        /\ \A k \in DOMAIN t.done :
              t.done[k].how = "skipped" =>
                  \E f \in t.failed : f.stmt = t.done[k].stmt /\ f.count >= Enough

FailuresInv ==
    /\ SkippedAfterFailures
    /\ \A e \in events : failures[e.inst][e.seq] >= Enough => e.seq <= current[e.inst][e.atype]
    /\ \A i \in Instances, s \in 1..SequenceBound :
          failures[i][s] > 0 => \E e \in events : e.inst = i /\ e.seq = s
    /\ \A w \in Workers : InTx(w) => FailedInv(w)

-----------------------------------------------------------------------------
(* Facts about the operators                                               *)

LEMMA MinFacts ==
    ASSUME NEW m \in Int, NEW n \in Int
    PROVE  Min({m, n}) \in {m, n} /\ Min({m, n}) <= m /\ Min({m, n}) <= n
<1>1. \E x \in {m, n} : \A y \in {m, n} : x <= y
  OBVIOUS
<1> QED  BY <1>1 DEF Min

LEMMA EnoughFacts == /\ Enough \in Nat \ {0}
                     /\ \A n \in Nat \ {0} : TooManyFailures(n) <=> n >= Enough
<1>1. \E x \in {1, MaxFailureCount} : \A y \in {1, MaxFailureCount} : x >= y
  BY LimitsAssumption
<1>2. Enough \in {1, MaxFailureCount} /\ Enough >= 1 /\ Enough >= MaxFailureCount
  BY <1>1, LimitsAssumption DEF Enough, Max
<1> QED  BY <1>2, LimitsAssumption DEF TooManyFailures

\* ORDER BY returns sequences of the rows.
LEMMA OrderedRows ==
    ASSUME NEW S, IsFiniteSet(S), NEW q \in InSequenceOrder(S)
    PROVE  q \in Seq(S)
<1>1. Cardinality(S) \in Nat
  BY FS_CardinalityType
<1>2. q \in [1..Cardinality(S) -> S]
  BY DEF InSequenceOrder, SetToSeqs
<1> QED  BY <1>1, <1>2, SeqDef

LEMMA NoTxType == ASSUME NEW E PROVE NoTx \in TxType(E)
<1>1. NoSequences \in SequencesType
  BY LimitsAssumption DEF NoSequences, SequencesType
<1>2. <<>> \in Seq(E) /\ <<>> \in Seq(Entry(E))
  BY EmptySeq
<1> QED  BY <1>1, <1>2 DEF NoTx, TxType

LEMMA TxTypeMonotonic ==
    ASSUME NEW E, NEW F, E \subseteq F
    PROVE  /\ Seq(E) \subseteq Seq(F) /\ Seq(Entry(E)) \subseteq Seq(Entry(F))
           /\ TxType(E) \subseteq TxType(F)
<1>1. Entry(E) \subseteq Entry(F) /\ Failure(E) \subseteq Failure(F)
  BY DEF Entry, Failure
<1>2. Seq(E) \subseteq Seq(F) /\ Seq(Entry(E)) \subseteq Seq(Entry(F))
  BY <1>1, SeqMonotonic
<1>3. SUBSET Failure(E) \subseteq SUBSET Failure(F)
  BY <1>1
<1>4. TxType(E) \subseteq TxType(F)
  <2> HIDE DEF Failure, Entry
  <2> QED  BY <1>2, <1>3 DEF TxType
<1> QED  BY <1>2, <1>4

LEMMA SequencesOfType ==
    ASSUME current \in SequencesType, NEW insts
    PROVE  SequencesOf(insts) \in SequencesType
BY LimitsAssumption DEF SequencesOf, SequencesType, NoSequences

\* What Done does to a transaction.
IsDone(E, t, stmt, how, d) ==
    /\ d \in TxType(E)
    /\ d.insts = t.insts /\ d.list = t.list /\ d.aliased = t.aliased
    /\ d.next = t.next + 1 /\ d.last = t.next - 1
    /\ d.base = t.base /\ d.failed = t.failed
    /\ d.seqs = [t.seqs EXCEPT ![stmt.inst][stmt.atype] = stmt.seq]
    /\ d.done = Append(t.done, [stmt |-> stmt, how |-> how])

LEMMA DoneFacts ==
    ASSUME NEW E, NEW t \in TxType(E), NEW stmt \in E, stmt.inst \in Instances,
           stmt.atype \in AggTypes, stmt.seq \in 0..SequenceBound,
           NEW how \in {"executed", "skipped"}
    PROVE  IsDone(E, t, stmt, how, Done(t, stmt, how))
<1> DEFINE h == [stmt |-> stmt, how |-> how]
           seqs == [t.seqs EXCEPT ![stmt.inst][stmt.atype] = stmt.seq]
           d == Done(t, stmt, how)
<1>1. h \in Entry(E)
  BY DEF Entry
<1>2. Append(t.done, h) \in Seq(Entry(E))
  <2> HIDE DEF h
  <2>1. t.done \in Seq(Entry(E))
    BY DEF TxType
  <2> QED  BY <1>1, <2>1, AppendProperties
<1>3. seqs \in SequencesType
  <2>1. t.seqs \in SequencesType
    BY DEF TxType
  <2> QED  BY <2>1 DEF SequencesType
<1>4. d = [t EXCEPT !.seqs = seqs, !.last = t.next - 1, !.next = t.next + 1,
                    !.done = Append(t.done, h)]
  BY DEF Done, TxType
<1> HIDE DEF seqs, h, d
<1>5. t.next - 1 \in Int /\ t.next + 1 \in Nat \ {0}
  BY DEF TxType
<1> DEFINE app == Append(t.done, h)
<1> HIDE DEF app
<1>6. /\ d \in TxType(E) /\ d.insts = t.insts /\ d.list = t.list /\ d.aliased = t.aliased
      /\ d.next = t.next + 1 /\ d.last = t.next - 1 /\ d.base = t.base /\ d.failed = t.failed
      /\ d.seqs = seqs /\ d.done = app
  BY <1>2, <1>3, <1>4, <1>5 DEF TxType, app
<1> QED  BY <1>6 DEF seqs, h, d, app, IsDone

\* What dropping a statement does to a transaction.
LEMMA RemoveFacts ==
    ASSUME NEW E, NEW s \in Seq(E), NEW n \in 1..Len(s)
    PROVE  /\ RemoveAt(s, n) \in Seq(E)
           /\ Len(RemoveAt(s, n)) = Len(s) - 1
           /\ \A k \in DOMAIN RemoveAt(s, n) : \E l \in DOMAIN s : RemoveAt(s, n)[k] = s[l]
<1> DEFINE p == SubSeq(s, 1, n - 1)
           q == SubSeq(s, n + 1, Len(s))
           r == RemoveAt(s, n)
<1>1. Len(s) \in Nat /\ \A k \in 1..Len(s) : s[k] \in E
  BY ElementOfSeq
<1>2. p \in Seq(E) /\ Len(p) = n - 1 /\ \A k \in 1..(n - 1) : p[k] = s[k]
  <2>1. \A k \in 1..(n - 1) : s[k] \in E
    BY <1>1
  <2>2. Len(p) = IF 1 <= n - 1 THEN n - 1 - 1 + 1 ELSE 0
    BY <1>1, <2>1, SubSeqProperties
  <2>3. \A k \in 1..(n - 1 - 1 + 1) : p[k] = s[1 + k - 1]
    BY <1>1, <2>1, SubSeqProperties
  <2>4. p \in Seq(E)
    BY <1>1, <2>1, SubSeqProperties
  <2> HIDE DEF p
  <2> QED  BY <2>2, <2>3, <2>4
<1>3. q \in Seq(E) /\ Len(q) = Len(s) - n /\ \A k \in 1..(Len(s) - n) : q[k] = s[n + k]
  <2>1. \A k \in (n + 1)..Len(s) : s[k] \in E
    BY <1>1
  <2>2. Len(q) = IF n + 1 <= Len(s) THEN Len(s) - (n + 1) + 1 ELSE 0
    BY <1>1, <2>1, SubSeqProperties
  <2>3. \A k \in 1..(Len(s) - (n + 1) + 1) : q[k] = s[(n + 1) + k - 1]
    BY <1>1, <2>1, SubSeqProperties
  <2>4. q \in Seq(E)
    BY <1>1, <2>1, SubSeqProperties
  <2> HIDE DEF q
  <2> QED  BY <1>1, <2>2, <2>3, <2>4
<1>4. r = p \o q
  BY DEF RemoveAt
<1> HIDE DEF p, q, r
<1>5. r \in Seq(E) /\ Len(r) = Len(s) - 1
      /\ \A k \in 1..Len(r) : r[k] = IF k <= n - 1 THEN p[k] ELSE q[k - (n - 1)]
  <2>1. p \o q \in Seq(E) /\ Len(p \o q) = Len(p) + Len(q)
    BY <1>2, <1>3, ConcatProperties
  <2>2. \A k \in 1..(Len(p) + Len(q)) : (p \o q)[k] = IF k <= Len(p) THEN p[k] ELSE q[k - Len(p)]
    BY <1>2, <1>3, ConcatProperties
  <2>3. Len(r) = Len(p) + Len(q) /\ Len(p) + Len(q) = Len(s) - 1
    BY <1>1, <1>2, <1>3, <1>4, <2>1
  <2> QED  BY <1>2, <1>4, <2>1, <2>2, <2>3
<1>6. ASSUME NEW k \in 1..Len(r) PROVE \E l \in 1..Len(s) : r[k] = s[l]
  <2>1. k \in Nat /\ k >= 1 /\ k <= Len(s) - 1
    BY <1>1, <1>5
  <2>2. CASE k <= n - 1
    <3>1. r[k] = p[k] /\ p[k] = s[k] /\ k \in 1..Len(s)
      BY <1>1, <1>2, <1>5, <2>1, <2>2
    <3> QED  BY <3>1
  <2>3. CASE k > n - 1
    <3>1. k - (n - 1) \in 1..(Len(s) - n) /\ k + 1 \in 1..Len(s)
      BY <1>1, <2>1, <2>3
    <3>2. r[k] = q[k - (n - 1)] /\ q[k - (n - 1)] = s[n + (k - (n - 1))]
      BY <1>1, <1>3, <1>5, <2>1, <2>3, <3>1
    <3>3. n + (k - (n - 1)) = k + 1
      BY <2>1
    <3> QED  BY <3>1, <3>2, <3>3
  <2> QED  BY <2>1, <2>2, <2>3
<1>7. DOMAIN r = 1..Len(r) /\ DOMAIN s = 1..Len(s)
  BY <1>5
<1> QED  BY <1>5, <1>6, <1>7 DEF r

-----------------------------------------------------------------------------
(* BaseInv is inductive                                                    *)

LEMMA BaseInit == Init => BaseInv
<1> SUFFICES ASSUME Init PROVE BaseInv
  OBVIOUS
<1>1. LogInv
  BY FS_EmptySet DEF Init, LogInit, LogInv
<1>2. \A E : <<>> \in Seq(E)
  BY EmptySeq
<1>3. NoTx \in TxType(events) /\ NoSequences \in SequencesType
  BY NoTxType, LimitsAssumption DEF NoSequences, SequencesType
<1>4. Types
  BY <1>2, <1>3, LimitsAssumption DEF Init, Types
<1>5. \A w \in Workers : LoopInv(w)
  BY DEF Init, LoopInv, InTx, NoTx
<1> QED  BY <1>1, <1>4, <1>5 DEF BaseInv

\* A step between two transactions.
LEMMA BetweenBase ==
    ASSUME BaseInv, NEW w \in Workers, NEW p \in {"idle", "update"}, NEW evts \in Seq(events),
           NEW ix \in Int, ix >= -1, NEW re \in 0..Retries,
           pc' = [pc EXCEPT ![w] = p], statements' = [statements EXCEPT ![w] = evts],
           index' = [index EXCEPT ![w] = ix], retry' = [retry EXCEPT ![w] = re],
           tx' = [tx EXCEPT ![w] = NoTx], events' = events,
           current' \in SequencesType, failures' \in [Instances -> [1..SequenceBound -> Nat]],
           handled' \in Seq(Entry(events)), unsent' \subseteq events \X Subscribers,
           queue' \in [Subscribers -> Seq(events)], faults' \in 0..MaxFaults
    PROVE  BaseInv'
<1>1. LogInv'
  BY DEF BaseInv, LogInv
<1>2. NoTx \in TxType(events)
  BY NoTxType
<1>3. Types'
  BY <1>2, LimitsAssumption DEF BaseInv, Types
<1>4. ASSUME NEW v \in Workers PROVE LoopInv(v)'
  <2>1. CASE v = w
    <3>1. pc'[w] = p /\ tx'[w] = NoTx /\ index'[w] = ix
      BY DEF BaseInv, Types
    <3> QED  BY <2>1, <3>1 DEF LoopInv, InTx, NoTx
  <2>2. CASE v # w
    <3>1. /\ pc'[v] = pc[v] /\ tx'[v] = tx[v] /\ index'[v] = index[v]
          /\ statements'[v] = statements[v] /\ LoopInv(v)
      BY <2>2 DEF BaseInv, Types
    <3> QED  BY <3>1 DEF LoopInv, InTx
  <2> QED  BY <2>1, <2>2
<1> QED  BY <1>1, <1>3, <1>4 DEF BaseInv

\* A step that ends or begins Process.
LEMMA ResetBase ==
    ASSUME BaseInv, NEW w \in Workers, NEW p \in {"idle", "update"}, NEW evts \in Seq(events),
           pc' = [pc EXCEPT ![w] = p], statements' = [statements EXCEPT ![w] = evts],
           index' = [index EXCEPT ![w] = -1], retry' = [retry EXCEPT ![w] = 0],
           tx' = [tx EXCEPT ![w] = NoTx], events' = events,
           current' \in SequencesType, failures' \in [Instances -> [1..SequenceBound -> Nat]],
           handled' \in Seq(Entry(events)), unsent' \subseteq events \X Subscribers,
           queue' \in [Subscribers -> Seq(events)], faults' \in 0..MaxFaults
    PROVE  BaseInv'
<1>1. -1 \in Int /\ -1 >= -1 /\ 0 \in 0..Retries
  BY LimitsAssumption
<1> QED  BY <1>1, BetweenBase

\* A step of a transaction.
LEMMA TxBase ==
    ASSUME BaseInv, NEW w \in Workers, NEW p \in {"fetch", "exec", "commit"},
           NEW u \in TxType(events), NEW stmts \in Seq(events),
           pc' = [pc EXCEPT ![w] = p], tx' = [tx EXCEPT ![w] = u],
           statements' = [statements EXCEPT ![w] = stmts],
           u.last >= -1, u.last < u.next, p = "exec" => u.next <= Len(u.list),
           u.aliased => index[w] + 1 + Len(u.list) <= Len(stmts),
           \A k \in DOMAIN u.list : u.list[k].inst \in u.insts,
           UNCHANGED <<events, current, failures, handled, unsent, queue, index, retry, faults>>
    PROVE  BaseInv'
<1>1. LogInv'
  BY DEF BaseInv, LogInv
<1>2. Types'
  BY DEF BaseInv, Types
<1>3. ASSUME NEW v \in Workers PROVE LoopInv(v)'
  <2>1. CASE v = w
    <3>1. pc'[w] = p /\ tx'[w] = u /\ index'[w] = index[w] /\ index[w] >= -1
          /\ statements'[w] = stmts
      BY DEF BaseInv, Types, LoopInv
    <3> QED  BY <2>1, <3>1 DEF LoopInv, InTx
  <2>2. CASE v # w
    <3>1. /\ pc'[v] = pc[v] /\ tx'[v] = tx[v] /\ index'[v] = index[v]
          /\ statements'[v] = statements[v] /\ LoopInv(v)
      BY <2>2 DEF BaseInv, Types
    <3> QED  BY <3>1 DEF LoopInv, InTx
  <2> QED  BY <2>1, <2>2
<1> QED  BY <1>1, <1>2, <1>3 DEF BaseInv

\* What a push adds to the log.
LEMMA PushFacts ==
    ASSUME LogInv, NEW i \in Instances, NEW t \in AggTypes, NEW s \in 1..SequenceBound,
           Push(i, t, s)
    PROVE  /\ LogInv'
           /\ \E e \in Event : e.inst = i /\ e.atype = t /\ e.seq = s /\ events' = events \cup {e}
           /\ \E W \in SUBSET Subscribers : \E e \in events' : unsent' = unsent \cup {<<e, v>> : v \in W}
<1>1. PICK a \in AggIDs, o \in Owners :
         LET e == [inst |-> i, atype |-> t, aid |-> a, owner |-> o, seq |-> s,
                   prevAgg |-> MaxSequence(Aggregate(events, i, t, a)),
                   prevType |-> MaxSequence(Stream(events, i, t))]
         IN  /\ events' = events \cup {e}
             /\ \E W \in SUBSET {w \in Subscribers : s \in Notified} :
                  unsent' = unsent \cup {<<e, w>> : w \in W}
  BY DEF Push
<1> DEFINE e == [inst |-> i, atype |-> t, aid |-> a, owner |-> o, seq |-> s,
                 prevAgg |-> MaxSequence(Aggregate(events, i, t, a)),
                 prevType |-> MaxSequence(Stream(events, i, t))]
<1>2. /\ \A f \in Stream(events, i, t) : f.seq \in Nat /\ f.seq < s /\ f.seq <= s
      /\ \A f \in Aggregate(events, i, t, a) : f.seq \in Nat /\ f.seq <= s
      /\ s \in Nat \ {0} /\ s <= SequenceBound
  BY LimitsAssumption DEF Push, LogInv, Stream, Aggregate, Event
<1>3. /\ MaxSequence(Stream(events, i, t)) \in Nat
      /\ Stream(events, i, t) # {} =>
            \E f \in Stream(events, i, t) : f.seq = MaxSequence(Stream(events, i, t))
      /\ \A f \in Stream(events, i, t) : f.seq <= MaxSequence(Stream(events, i, t))
  BY <1>2, MaxSequenceFacts
<1>4. MaxSequence(Aggregate(events, i, t, a)) \in Nat
  BY <1>2, MaxSequenceFacts
<1>5. MaxSequence(Stream(events, i, t)) < s
  <2>1. CASE Stream(events, i, t) = {}
    <3>1. MaxSequence(Stream(events, i, t)) = 0
      BY <2>1 DEF MaxSequence
    <3> QED  BY <1>2, <3>1
  <2>2. CASE Stream(events, i, t) # {}
    BY <1>2, <1>3, <2>2
  <2> QED  BY <2>1, <2>2
<1>6. /\ e \in Event /\ e.inst = i /\ e.atype = t /\ e.seq = s /\ e.prevType < e.seq
      /\ \A f \in events : SameStream(e, f) => f.seq <= e.prevType /\ f.seq < e.seq
      /\ \A f \in events : f.inst = e.inst => f.seq # e.seq
  BY <1>2, <1>3, <1>4, <1>5 DEF Event, SameStream, Stream, Push
<1>7. events' = events \cup {e}
  BY <1>1
<1>8. \E W \in SUBSET Subscribers : unsent' = unsent \cup {<<e, v>> : v \in W}
  BY <1>1
<1> HIDE DEF e
<1>9. LogInv'
  <2>1. events' \subseteq Event /\ IsFiniteSet(events')
    BY <1>6, <1>7, FS_AddElement DEF LogInv
  <2>2. \A f \in events' : f.seq <= SequenceBound /\ f.prevType < f.seq
    BY <1>2, <1>6, <1>7 DEF LogInv
  <2>3. \A f, g \in events' : f.inst = g.inst /\ f.seq = g.seq => f = g
    BY <1>6, <1>7 DEF LogInv
  <2>4. ASSUME NEW f \in events', NEW g \in events', SameStream(f, g), g.seq < f.seq
        PROVE  g.seq <= f.prevType
    <3>1. CASE f = e
      BY <1>6, <1>7, <2>4, <3>1 DEF Event
    <3>2. CASE f # e /\ g = e
      <4>1. f \in events /\ SameStream(e, f) /\ f.seq \in Nat /\ e.seq \in Nat
        BY <1>6, <1>7, <2>4, <3>2 DEF SameStream, LogInv, Event
      <4> QED  BY <1>6, <2>4, <3>2, <4>1
    <3>3. CASE f # e /\ g # e
      BY <1>7, <2>4, <3>3 DEF LogInv
    <3> QED  BY <3>1, <3>2, <3>3
  <2> QED  BY <2>1, <2>2, <2>3, <2>4 DEF LogInv
<1> QED  BY <1>6, <1>7, <1>8, <1>9

\* Nothing but Push and Notify changes.
LEMMA PushBase ==
    ASSUME BaseInv, NEW i \in Instances, NEW t \in AggTypes, NEW s \in 1..SequenceBound, Push(i, t, s)
    PROVE  BaseInv'
<1>1. LogInv' /\ events \subseteq events'
  BY PushFacts DEF BaseInv
<1>2. UNCHANGED <<current, failures, handled, queue, pc, statements, index, retry, tx, faults>>
  BY DEF Push, workerVars
<1>3. unsent' \subseteq events' \X Subscribers
  BY <1>1, PushFacts DEF BaseInv, Types
<1>4. /\ Seq(events) \subseteq Seq(events') /\ Seq(Entry(events)) \subseteq Seq(Entry(events'))
      /\ TxType(events) \subseteq TxType(events')
  BY <1>1, TxTypeMonotonic
<1>5. Types'
  BY <1>2, <1>3, <1>4 DEF BaseInv, Types
<1>6. \A w \in Workers : LoopInv(w)'
  BY <1>2 DEF BaseInv, LoopInv, InTx
<1> QED  BY <1>1, <1>5, <1>6 DEF BaseInv

LEMMA NotifyBase == ASSUME BaseInv, Notify PROVE BaseInv'
<1>1. PICK m \in unsent :
        /\ unsent' = unsent \ {m}
        /\ queue' = [queue EXCEPT ![m[2]] = IF pc[m[2]] = "dead" THEN @ ELSE Append(@, m[1])]
  BY DEF Notify
<1>2. UNCHANGED <<events, current, failures, handled, pc, statements, index, retry, tx, faults>>
  BY DEF Notify, workerVars
<1>3. m[1] \in events /\ m[2] \in Subscribers
  BY DEF BaseInv, Types
<1>4. queue[m[2]] \in Seq(events) /\ Append(queue[m[2]], m[1]) \in Seq(events)
  BY <1>3, AppendProperties DEF BaseInv, Types
<1>5. queue' \in [Subscribers -> Seq(events)]
  BY <1>1, <1>4 DEF BaseInv, Types
<1>6. Types'
  BY <1>1, <1>2, <1>5 DEF BaseInv, Types
<1>7. LogInv' /\ \A w \in Workers : LoopInv(w)'
  BY <1>2 DEF BaseInv, LogInv, LoopInv, InTx
<1> QED  BY <1>6, <1>7 DEF BaseInv
\* Process begins with events, or returns because one of them cannot be reduced.
LEMMA ProcessBase ==
    ASSUME BaseInv, NEW w \in Workers, NEW evts \in Seq(events), Process(w, evts),
           queue' \in [Subscribers -> Seq(events)],
           UNCHANGED <<events, current, failures, handled, unsent, faults>>
    PROVE  BaseInv'
<1>1. CASE StartProcess(w, evts)
  BY <1>1, ResetBase DEF StartProcess, BaseInv, Types
<1>2. CASE Return(w)
  <2>1. <<>> \in Seq(events)
    BY EmptySeq
  <2> QED  BY <1>2, <2>1, ResetBase DEF Return, BaseInv, Types
<1> QED  BY Zenon, <1>1, <1>2 DEF Process

\* Where the statements come from.
LEMMA SourceBase ==
    ASSUME BaseInv, NEW w \in Workers, TakeQueue(w) \/ ReadSequences(w) \/ Fetch(w)
    PROVE  BaseInv'
<1>1. CASE TakeQueue(w)
  <2>1. queue[w] \in Seq(events) /\ queue' \in [Subscribers -> Seq(events)]
    BY <1>1, EmptySeq DEF TakeQueue, BaseInv, Types
  <2>2. Process(w, queue[w]) /\ UNCHANGED <<events, current, failures, handled, unsent, faults>>
    BY <1>1 DEF TakeQueue
  <2> QED  BY Zenon, <2>1, <2>2, ProcessBase
<1>2. CASE ReadSequences(w)
  <2>1. PICK insts \in SUBSET Instances :
           tx' = [tx EXCEPT ![w] = [NoTx EXCEPT !.insts = insts, !.base = SequencesOf(insts)]]
    BY <1>2 DEF ReadSequences
  <2> DEFINE u == [NoTx EXCEPT !.insts = insts, !.base = SequencesOf(insts)]
  <2>2. SequencesOf(insts) \in SequencesType
    BY SequencesOfType DEF BaseInv, Types
  <2>3. /\ u \in TxType(events) /\ u.last = -1 /\ u.next = 1 /\ u.list = <<>> /\ u.aliased = FALSE
    BY <2>2, NoTxType DEF TxType, NoTx
  <2>4. /\ pc' = [pc EXCEPT ![w] = "fetch"] /\ statements' = [statements EXCEPT ![w] = statements[w]]
        /\ statements[w] \in Seq(events)
        /\ UNCHANGED <<events, current, failures, handled, unsent, queue, index, retry, faults>>
    BY <1>2 DEF ReadSequences, BaseInv, Types
  <2>5. tx' = [tx EXCEPT ![w] = u] /\ \A k \in DOMAIN u.list : u.list[k].inst \in u.insts
    BY <2>1, <2>3
  <2>6. u.last >= -1 /\ u.last < u.next /\ ~u.aliased
    BY <2>3
  <2> HIDE DEF u
  <2> QED  BY <2>3, <2>4, <2>5, <2>6, TxBase
<1>3. CASE Fetch(w)
  <2>1. UNCHANGED <<events, current, failures, handled, unsent, queue, faults>>
    BY <1>3 DEF Fetch
  <2>2. CASE Newer(w) = {}
    <3>1. Return(w) /\ <<>> \in Seq(events)
      BY <1>3, <2>2, EmptySeq DEF Fetch
    <3> QED  BY <2>1, <3>1, ResetBase DEF Return, BaseInv, Types
  <2>3. CASE Newer(w) # {}
    <3>1. PICK q \in InSequenceOrder(Newer(w)) :
             Process(w, SubSeq(q, 1, Min({BulkLimit, Len(q)})))
      BY <1>3, <2>3 DEF Fetch
    <3>2. Newer(w) \in SUBSET events /\ IsFiniteSet(Newer(w))
      BY FS_Subset DEF Newer, BaseInv, LogInv
    <3>3. q \in Seq(events)
      BY <3>2, OrderedRows, SeqMonotonic
    <3> DEFINE n == Min({BulkLimit, Len(q)})
    <3>4. Len(q) \in Nat /\ n \in Int /\ n <= Len(q)
      <4>1. Len(q) \in Int /\ BulkLimit \in Int /\ Len(q) \in Nat
        BY <3>3, LimitsAssumption
      <4>2. n \in {BulkLimit, Len(q)} /\ n <= Len(q)
        BY <4>1, MinFacts
      <4> QED  BY <4>1, <4>2
    <3>5. \A k \in 1..n : q[k] \in events
      BY <3>3, <3>4, ElementOfSeq
    <3> HIDE DEF n
    <3>6. SubSeq(q, 1, n) \in Seq(events)
      BY <3>4, <3>5, SubSeqProperties
    <3>7. queue' \in [Subscribers -> Seq(events)]
      BY <2>1 DEF BaseInv, Types
    <3> QED  BY Zenon, <2>1, <3>1, <3>6, <3>7, ProcessBase DEF n
  <2> QED  BY <2>2, <2>3
<1> QED  BY <1>1, <1>2, <1>3

LEMMA FailBase ==
    ASSUME BaseInv, NEW w \in Workers,
           Panic(w) \/ CommitConflict(w) \/ ProcessFails(w) \/ Restart(w)
    PROVE  BaseInv'
<1>1. <<>> \in Seq(events) /\ [v \in Subscribers |-> IF v = w THEN <<>> ELSE queue[v]]
                                 \in [Subscribers -> Seq(events)]
  BY EmptySeq DEF BaseInv, Types
<1>2. CASE Panic(w)
  <2>1. /\ pc' = [pc EXCEPT ![w] = "dead"] /\ queue' \in [Subscribers -> Seq(events)]
        /\ UNCHANGED <<events, current, failures, handled, unsent, statements, index, retry, tx, faults>>
    BY <1>1, <1>2 DEF Panic
  <2>2. LogInv' /\ Types'
    BY <2>1 DEF BaseInv, LogInv, Types
  <2>3. \A v \in Workers : LoopInv(v)'
    BY <2>1 DEF BaseInv, Types, LoopInv, InTx
  <2> QED  BY <2>2, <2>3 DEF BaseInv
<1>3. CASE CommitConflict(w)
  BY <1>1, <1>3, ResetBase DEF CommitConflict, Return, BaseInv, Types
<1>4. CASE ProcessFails(w)
  <2>1. faults' \in 0..MaxFaults
    BY <1>4, LimitsAssumption DEF ProcessFails, BaseInv, Types
  <2> QED  BY <1>1, <1>4, <2>1, ResetBase DEF ProcessFails, Return, BaseInv, Types
<1>5. CASE Restart(w)
  <2>1. faults' \in 0..MaxFaults /\ unsent' \subseteq events \X Subscribers
    BY <1>5, LimitsAssumption DEF Restart, BaseInv, Types
  <2> QED  BY Zenon, <1>1, <1>5, <2>1, ResetBase DEF Restart, Return, BaseInv, Types
<1> QED  BY <1>2, <1>3, <1>4, <1>5

\* The statements a transaction begins with.
LEMMA BeginFacts ==
    ASSUME BaseInv, NEW w \in Workers, BeginUpdate(w)
    PROVE  LET stmts == SubSeq(statements[w], index[w] + 2, Len(statements[w]))
               insts == {stmts[k].inst : k \in DOMAIN stmts}
           IN  \/ Return(w)
               \/ \E list \in Seq(events), aliased \in BOOLEAN :
                     /\ pc' = [pc EXCEPT ![w] = "exec"]
                     /\ tx' = [tx EXCEPT ![w] = [NoTx EXCEPT !.insts = insts, !.list = list,
                                  !.aliased = aliased, !.base = SequencesOf(insts),
                                  !.seqs = SequencesOf(insts)]]
                     /\ UNCHANGED <<statements, index, retry>>
                     /\ list # <<>> /\ insts \subseteq Instances
                     /\ aliased => index[w] + 1 + Len(list) <= Len(statements[w])
                     /\ \A k \in DOMAIN list : list[k].inst \in insts
<1> DEFINE stmts == SubSeq(statements[w], index[w] + 2, Len(statements[w]))
           insts == {stmts[k].inst : k \in DOMAIN stmts}
<1>1. /\ statements[w] \in Seq(events) /\ index[w] \in Int /\ index[w] >= -1
      /\ Len(statements[w]) \in Nat /\ index[w] + 1 <= Len(statements[w])
  <2>1. statements[w] \in Seq(events) /\ index[w] \in Int
    BY DEF BaseInv, Types
  <2>2. index[w] >= -1
    BY DEF BaseInv, LoopInv
  <2>3. index[w] + 1 <= Len(statements[w])
    BY Zenon DEF BeginUpdate
  <2>4. Len(statements[w]) \in Nat
    BY <2>1
  <2> QED  BY <2>1, <2>2, <2>3, <2>4
<1>2. \A k \in (index[w] + 2)..Len(statements[w]) : statements[w][k] \in events
  BY <1>1, ElementOfSeq
<1>3. /\ stmts \in Seq(events)
      /\ Len(stmts) = IF index[w] + 2 <= Len(statements[w])
                      THEN Len(statements[w]) - (index[w] + 2) + 1 ELSE 0
  BY <1>1, <1>2, SubSeqProperties
<1>4. Len(stmts) + index[w] + 1 = Len(statements[w])
  BY <1>1, <1>3, SMTT(30)
<1> HIDE DEF stmts
<1>5. insts \subseteq Instances
  BY <1>3 DEF BaseInv, LogInv, Event
<1>6. CASE stmts = <<>>
  BY <1>6 DEF BeginUpdate, stmts
<1>7. CASE stmts # <<>>
  <2> DEFINE allowed == IF stmts[1].prevType = 0
                        THEN InSequenceOrder(PreviousEvents(stmts[1], insts)) ELSE {<<>>}
  <2>1. PICK previous \in allowed :
           ~Return(w) =>
             /\ tx' = [tx EXCEPT ![w] = [NoTx EXCEPT !.insts = insts,
                     !.list = previous \o stmts, !.aliased = stmts[1].prevType # 0,
                     !.base = SequencesOf(insts), !.seqs = SequencesOf(insts)]]
             /\ pc' = [pc EXCEPT ![w] = "exec"]
             /\ UNCHANGED <<statements, index, retry>>
    BY Zenon, <1>7 DEF BeginUpdate, stmts
  <2>3. previous \in Seq(events) /\ (stmts[1].prevType # 0 => previous = <<>>)
        /\ \A k \in DOMAIN previous : previous[k].inst \in insts
    <3>1. CASE stmts[1].prevType # 0
      BY <3>1, EmptySeq
    <3>2. CASE stmts[1].prevType = 0
      <4> DEFINE P == PreviousEvents(stmts[1], insts)
      <4>1. P \in SUBSET events /\ (\A e \in P : e.inst \in insts) /\ IsFiniteSet(P)
        BY FS_Subset DEF PreviousEvents, BaseInv, LogInv
      <4>2. previous \in InSequenceOrder(P)
        BY <3>2
      <4> HIDE DEF P, insts
      <4>3. previous \in Seq(P)
        BY <4>1, <4>2, OrderedRows
      <4>4. previous \in Seq(events) /\ \A k \in DOMAIN previous : previous[k] \in P
        BY <4>1, <4>3, SeqMonotonic
      <4> QED  BY <3>2, <4>1, <4>4
    <3> QED  BY <3>1, <3>2
  <2> DEFINE list == previous \o stmts
  <2>4. /\ list \in Seq(events) /\ Len(list) = Len(previous) + Len(stmts)
        /\ \A k \in 1..(Len(previous) + Len(stmts)) :
              list[k] = IF k <= Len(previous) THEN previous[k] ELSE stmts[k - Len(previous)]
    BY <1>3, <2>3, ConcatProperties
  <2>5. Len(stmts) \in Nat \ {0} /\ Len(previous) \in Nat /\ DOMAIN list = 1..Len(list)
        /\ DOMAIN stmts = 1..Len(stmts) /\ DOMAIN previous = 1..Len(previous)
    BY <1>3, <1>7, <2>3, <2>4, EmptySeq
  <2>6. ASSUME NEW k \in DOMAIN list PROVE list[k].inst \in insts
    <3>1. k \in 1..(Len(previous) + Len(stmts))
      BY <2>4, <2>5
    <3>2. CASE k <= Len(previous)
      <4>1. k \in DOMAIN previous /\ list[k] = previous[k]
        BY <2>4, <2>5, <3>1, <3>2
      <4> HIDE DEF list, insts
      <4> QED  BY <2>3, <4>1
    <3>3. CASE ~(k <= Len(previous))
      <4>1. k - Len(previous) \in DOMAIN stmts /\ list[k] = stmts[k - Len(previous)]
        BY <2>4, <2>5, <3>1, <3>3
      <4> HIDE DEF list
      <4> QED  BY <4>1
    <3> QED  BY <3>2, <3>3
  <2>7. stmts[1].prevType # 0 => index[w] + 1 + Len(list) <= Len(statements[w])
    <3>1. stmts[1].prevType # 0 => Len(previous) = 0
      BY <2>3
    <3> HIDE DEF list
    <3> QED  BY <1>1, <1>4, <2>4, <2>5, <3>1
  <2>8. list # <<>> /\ (stmts[1].prevType # 0) \in BOOLEAN
    BY <2>4, <2>5
  <2> HIDE DEF insts, list
  <2>9. ~Return(w) => \E l \in Seq(events), aliased \in BOOLEAN :
            /\ tx' = [tx EXCEPT ![w] = [NoTx EXCEPT !.insts = insts, !.list = l,
                         !.aliased = aliased, !.base = SequencesOf(insts),
                         !.seqs = SequencesOf(insts)]]
            /\ l # <<>>
            /\ aliased => index[w] + 1 + Len(l) <= Len(statements[w])
            /\ \A k \in DOMAIN l : l[k].inst \in insts
    <3>1. ~Return(w) => tx' = [tx EXCEPT ![w] = [NoTx EXCEPT !.insts = insts, !.list = list,
                         !.aliased = stmts[1].prevType # 0, !.base = SequencesOf(insts),
                         !.seqs = SequencesOf(insts)]]
      BY <2>1 DEF list
    <3> QED  BY <2>4, <2>6, <2>7, <2>8, <3>1
  <2> QED  BY Zenon, <1>5, <2>1, <2>9 DEF insts, stmts
<1> QED  BY Zenon, <1>6, <1>7
LEMMA BeginBase ==
    ASSUME BaseInv, NEW w \in Workers, BeginUpdate(w)
    PROVE  BaseInv'
<1> DEFINE stmts == SubSeq(statements[w], index[w] + 2, Len(statements[w]))
           insts == {stmts[k].inst : k \in DOMAIN stmts}
<1>1. UNCHANGED <<events, current, failures, handled, unsent, queue, faults>>
  BY Zenon DEF BeginUpdate
<1>2. CASE Return(w)
  <2>1. <<>> \in Seq(events)
    BY EmptySeq
  <2> QED  BY <1>1, <1>2, <2>1, ResetBase DEF Return, BaseInv, Types
<1>3. CASE \E list \in Seq(events), aliased \in BOOLEAN :
              /\ pc' = [pc EXCEPT ![w] = "exec"]
              /\ tx' = [tx EXCEPT ![w] = [NoTx EXCEPT !.insts = insts, !.list = list,
                           !.aliased = aliased, !.base = SequencesOf(insts),
                           !.seqs = SequencesOf(insts)]]
              /\ UNCHANGED <<statements, index, retry>>
              /\ list # <<>> /\ insts \subseteq Instances
              /\ aliased => index[w] + 1 + Len(list) <= Len(statements[w])
              /\ \A k \in DOMAIN list : list[k].inst \in insts
  <2> HIDE DEF insts
  <2>1. PICK list \in Seq(events), aliased \in BOOLEAN :
              /\ pc' = [pc EXCEPT ![w] = "exec"]
              /\ tx' = [tx EXCEPT ![w] = [NoTx EXCEPT !.insts = insts, !.list = list,
                           !.aliased = aliased, !.base = SequencesOf(insts),
                           !.seqs = SequencesOf(insts)]]
              /\ UNCHANGED <<statements, index, retry>>
              /\ list # <<>> /\ insts \subseteq Instances
              /\ aliased => index[w] + 1 + Len(list) <= Len(statements[w])
              /\ \A k \in DOMAIN list : list[k].inst \in insts
    BY <1>3
  <2> DEFINE u == [NoTx EXCEPT !.insts = insts, !.list = list, !.aliased = aliased,
                               !.base = SequencesOf(insts), !.seqs = SequencesOf(insts)]
  <2>2. SequencesOf(insts) \in SequencesType
    BY SequencesOfType DEF BaseInv, Types
  <2>3. /\ u \in TxType(events) /\ u.last = -1 /\ u.next = 1 /\ u.list = list
        /\ u.aliased = aliased /\ u.insts = insts
    BY <2>1, <2>2, NoTxType DEF TxType, NoTx
  <2>4. /\ tx' = [tx EXCEPT ![w] = u] /\ statements' = [statements EXCEPT ![w] = statements[w]]
        /\ statements[w] \in Seq(events)
    BY <2>1 DEF BaseInv, Types
  <2>5. Len(list) \in Nat \ {0}
    BY <2>1, EmptySeq
  <2> HIDE DEF u
  <2>6. /\ u.last >= -1 /\ u.last < u.next /\ u.next <= Len(u.list)
        /\ u.aliased => index[w] + 1 + Len(u.list) <= Len(statements[w])
        /\ \A k \in DOMAIN u.list : u.list[k].inst \in u.insts
    BY <2>1, <2>3, <2>5
  <2> QED  BY <1>1, <2>1, <2>3, <2>4, <2>6, TxBase
<1> QED  BY Zenon, <1>2, <1>3, BeginFacts

\* What the moved slice of Process still is.
LEMMA DropFacts ==
    ASSUME BaseInv, NEW w \in Workers, pc[w] = "exec"
    PROVE  /\ DropFrom(w, tx[w]) \in Seq(events)
           /\ Len(DropFrom(w, tx[w])) = Len(statements[w])
<1> DEFINE t == tx[w]
           off == index[w] + 1
           d == DropFrom(w, t)
<1>1. /\ statements[w] \in Seq(events) /\ index[w] \in Int
      /\ t \in TxType(events)
  BY DEF BaseInv, Types
<1>2. /\ index[w] >= -1 /\ t.next <= Len(t.list)
      /\ t.aliased => index[w] + 1 + Len(t.list) <= Len(statements[w])
  BY DEF BaseInv, LoopInv, InTx
<1>3. t.next \in Nat \ {0} /\ t.list \in Seq(events) /\ Len(t.list) \in Nat /\ off \in Nat
      /\ Len(statements[w]) \in Nat /\ DOMAIN statements[w] = 1..Len(statements[w])
  BY <1>1, <1>2 DEF TxType
<1>4. d = [k \in 1..Len(statements[w]) |->
             IF t.aliased /\ k >= off + t.next /\ k < off + Len(t.list)
             THEN statements[w][k + 1] ELSE statements[w][k]]
  BY <1>3 DEF DropFrom
<1>5. ASSUME NEW k \in 1..Len(statements[w]) PROVE d[k] \in events
  <2>1. CASE t.aliased /\ k >= off + t.next /\ k < off + Len(t.list)
    <3>1. k + 1 \in 1..Len(statements[w])
      BY <1>2, <1>3, <2>1
    <3>2. d[k] = statements[w][k + 1]
      BY <1>4, <2>1
    <3> QED  BY <1>1, <3>1, <3>2, ElementOfSeq
  <2>2. CASE ~(t.aliased /\ k >= off + t.next /\ k < off + Len(t.list))
    BY <1>1, <1>4, <2>2, ElementOfSeq
  <2> QED  BY <2>1, <2>2
<1> HIDE DEF d
<1>6. d \in [1..Len(statements[w]) -> events]
  BY <1>4, <1>5
<1>7. d \in Seq(events) /\ Len(d) = Len(statements[w])
  BY <1>3, <1>6
<1> QED  BY <1>7 DEF d

\* The alternatives of a turn of executeStmts, with what it does to the transaction.
ExecCases(w, stmt, seq, count) ==
    LET t == tx[w]
        u == [t EXCEPT !.failed = @ \cup {[stmt |-> stmt, count |-> count]}]
    IN  \/ /\ AlreadyHandled(stmt, seq)
           /\ Continue(w, [t EXCEPT !.list = RemoveAt(@, t.next)])
           /\ statements' = [statements EXCEPT ![w] = DropFrom(w, t)]
        \/ /\ GapBefore(stmt, seq)
           /\ Break(w, t)
           /\ UNCHANGED statements
        \/ /\ ~AlreadyHandled(stmt, seq) /\ ~GapBefore(stmt, seq)
           /\ UNCHANGED statements
           /\ \/ Continue(w, Done(t, stmt, "executed"))
              \/ TooManyFailures(count) /\ Continue(w, Done(u, stmt, "skipped"))
              \/ ~TooManyFailures(count) /\ Break(w, u)

LEMMA ExecFacts ==
    ASSUME BaseInv, NEW w \in Workers, ExecuteStmt(w)
    PROVE  LET t == tx[w]
               stmt == t.list[t.next]
               seq == t.seqs[stmt.inst][stmt.atype]
               count == FailureCount(stmt)
           IN  /\ ExecCases(w, stmt, seq, count)
               /\ pc[w] = "exec" /\ t \in TxType(events) /\ t.next \in 1..Len(t.list)
               /\ stmt \in events /\ stmt \in Event /\ stmt.inst \in t.insts
               /\ stmt.inst \in Instances /\ stmt.atype \in AggTypes
               /\ stmt.seq \in 1..SequenceBound /\ stmt.prevType \in Nat
               /\ seq \in 0..SequenceBound /\ count \in Nat \ {0}
               /\ UNCHANGED <<events, current, failures, handled, unsent, queue, index, retry, faults>>
<1> DEFINE t == tx[w]
           stmt == t.list[t.next]
           seq == t.seqs[stmt.inst][stmt.atype]
           count == FailureCount(stmt)
<1>1. /\ pc[w] = "exec" /\ ExecCases(w, stmt, seq, count)
      /\ UNCHANGED <<events, current, failures, handled, unsent, queue, index, retry, faults>>
  BY Zenon DEF ExecuteStmt, ExecCases
<1>2. t \in TxType(events)
  BY DEF BaseInv, Types
<1>3. /\ t.next \in Nat \ {0} /\ t.list \in Seq(events) /\ t.seqs \in SequencesType
  BY <1>2 DEF TxType
<1>4. t.next <= Len(t.list) /\ \A k \in DOMAIN t.list : t.list[k].inst \in t.insts
  BY Zenon, <1>1 DEF BaseInv, LoopInv, InTx
<1>5. t.next \in 1..Len(t.list) /\ t.next \in DOMAIN t.list
  BY <1>3, <1>4
<1>6. stmt \in events /\ stmt.inst \in t.insts
  BY <1>3, <1>4, <1>5, ElementOfSeq
<1> HIDE DEF stmt, t
<1>7. /\ stmt \in Event /\ stmt.inst \in Instances /\ stmt.atype \in AggTypes
      /\ stmt.seq \in 1..SequenceBound /\ stmt.prevType \in Nat
  BY <1>6, LimitsAssumption DEF BaseInv, LogInv, Event
<1>8. seq \in 0..SequenceBound
  BY <1>3, <1>7 DEF SequencesType
<1>9. count \in Nat \ {0}
  <2>1. failures[stmt.inst][stmt.seq] \in Nat
    BY Zenon, <1>7 DEF BaseInv, Types
  <2> QED  BY <2>1 DEF FailureCount
<1> QED  BY Zenon, <1>1, <1>2, <1>5, <1>6, <1>7, <1>8, <1>9 DEF stmt, t

LEMMA ExecBase ==
    ASSUME BaseInv, NEW w \in Workers, ExecuteStmt(w)
    PROVE  BaseInv'
<1> DEFINE t == tx[w]
           stmt == t.list[t.next]
           seq == t.seqs[stmt.inst][stmt.atype]
           count == FailureCount(stmt)
           u == [t EXCEPT !.failed = @ \cup {[stmt |-> stmt, count |-> count]}]
<1>1. /\ ExecCases(w, stmt, seq, count)
      /\ pc[w] = "exec" /\ t \in TxType(events) /\ t.next \in 1..Len(t.list)
      /\ stmt \in events /\ stmt.inst \in Instances /\ stmt.atype \in AggTypes
      /\ stmt.seq \in 1..SequenceBound /\ count \in Nat \ {0}
      /\ UNCHANGED <<events, current, failures, handled, unsent, queue, index, retry, faults>>
  BY Zenon, ExecFacts
<1>2. /\ t.last >= -1 /\ t.last < t.next /\ t.next <= Len(t.list)
      /\ t.aliased => index[w] + 1 + Len(t.list) <= Len(statements[w])
      /\ \A k \in DOMAIN t.list : t.list[k].inst \in t.insts
  BY Zenon, <1>1 DEF BaseInv, LoopInv, InTx
<1>3. statements[w] \in Seq(events) /\ statements = [statements EXCEPT ![w] = statements[w]]
      /\ index[w] \in Int
  BY DEF BaseInv, Types
<1>4. /\ t.list \in Seq(events) /\ t.next \in Nat \ {0} /\ t.last \in Int /\ Len(t.list) \in Nat
      /\ t.failed \subseteq Failure(events) /\ Len(statements[w]) \in Nat
  <2>1. /\ t.list \in Seq(events) /\ t.next \in Nat \ {0} /\ t.last \in Int
        /\ t.failed \subseteq Failure(events)
    BY Zenon, <1>1 DEF TxType
  <2> QED  BY <1>3, <2>1
<1>5. /\ u \in TxType(events) /\ u.list = t.list /\ u.next = t.next /\ u.last = t.last
      /\ u.aliased = t.aliased /\ u.insts = t.insts
  <2>1. [stmt |-> stmt, count |-> count] \in Failure(events)
    BY Zenon, <1>1 DEF Failure
  <2> DEFINE fs == t.failed \cup {[stmt |-> stmt, count |-> count]}
  <2>2. fs \subseteq Failure(events) /\ u = [t EXCEPT !.failed = fs]
    BY Zenon, <1>1, <1>4, <2>1 DEF TxType
  <2> HIDE DEF fs, stmt, u, t
  <2> QED  BY <1>1, <2>2 DEF TxType
<1> HIDE DEF t, stmt, seq, count, u
<1>6. CASE /\ Continue(w, [t EXCEPT !.list = RemoveAt(@, t.next)])
           /\ statements' = [statements EXCEPT ![w] = DropFrom(w, t)]
  <2> DEFINE r == RemoveAt(t.list, t.next)
             v == [t EXCEPT !.list = r]
  <2>1. /\ r \in Seq(events) /\ Len(r) = Len(t.list) - 1
        /\ \A k \in DOMAIN r : \E l \in DOMAIN t.list : r[k] = t.list[l]
    BY <1>1, <1>4, RemoveFacts
  <2>2. DropFrom(w, t) \in Seq(events) /\ Len(DropFrom(w, t)) = Len(statements[w])
    BY <1>1, DropFacts DEF t
  <2> DEFINE p == IF v.next <= Len(v.list) THEN "exec" ELSE "commit"
  <2>3. v = [t EXCEPT !.list = RemoveAt(@, t.next)]
    OBVIOUS
  <2> HIDE DEF r
  <2>4. /\ v \in TxType(events) /\ v.list = r /\ v.next = t.next /\ v.last = t.last
        /\ v.aliased = t.aliased /\ v.insts = t.insts
    BY <1>1, <2>1 DEF TxType
  <2> HIDE DEF v
  <2>5. tx' = [tx EXCEPT ![w] = v] /\ pc' = [pc EXCEPT ![w] = p] /\ p \in {"exec", "commit"}
        /\ (p = "exec" => v.next <= Len(v.list))
    BY <1>6, <2>3 DEF Continue
  <2>6. /\ v.last >= -1 /\ v.last < v.next
        /\ v.aliased => index[w] + 1 + Len(v.list) <= Len(DropFrom(w, t))
        /\ \A k \in DOMAIN v.list : v.list[k].inst \in v.insts
    <3>1. \A k \in DOMAIN r : r[k].inst \in t.insts
      BY <1>2, <2>1
    <3> QED  BY <1>2, <1>3, <1>4, <2>1, <2>2, <2>4, <3>1
  <2> HIDE DEF p
  <2> QED  BY <1>1, <1>6, <2>2, <2>4, <2>5, <2>6, TxBase
<1>7. ASSUME NEW v \in TxType(events), v.list = t.list, v.aliased = t.aliased,
             v.insts = t.insts, v.last >= -1, v.last < v.next,
             Continue(w, v) \/ Break(w, v), UNCHANGED statements
      PROVE  BaseInv'
  <2> DEFINE p == IF Continue(w, v) /\ v.next <= Len(v.list) THEN "exec" ELSE "commit"
  <2>1. tx' = [tx EXCEPT ![w] = v] /\ pc' = [pc EXCEPT ![w] = p]
    BY <1>7 DEF Continue, Break
  <2>2. p \in {"exec", "commit"} /\ (p = "exec" => v.next <= Len(v.list))
    OBVIOUS
  <2>3. statements' = [statements EXCEPT ![w] = statements[w]]
    BY <1>3, <1>7
  <2>4. /\ v.aliased => index[w] + 1 + Len(v.list) <= Len(statements[w])
        /\ \A k \in DOMAIN v.list : v.list[k].inst \in v.insts
    BY <1>2, <1>7
  <2> HIDE DEF p
  <2> QED  BY <1>1, <1>3, <1>7, <2>1, <2>2, <2>3, <2>4, TxBase
<1>8. ASSUME NEW v \in TxType(events), v.list = t.list, v.aliased = t.aliased, v.next = t.next,
             v.insts = t.insts, NEW how \in {"executed", "skipped"},
             Continue(w, Done(v, stmt, how)), UNCHANGED statements
      PROVE  BaseInv'
  <2> DEFINE d == Done(v, stmt, how)
  <2>1. /\ d \in TxType(events) /\ d.list = v.list /\ d.aliased = v.aliased /\ d.insts = v.insts
        /\ d.next = v.next + 1 /\ d.last = v.next - 1
    <3>1. stmt.seq \in 0..SequenceBound
      BY <1>1
    <3>2. /\ stmt \in events /\ stmt.inst \in Instances /\ stmt.atype \in AggTypes
          /\ v \in TxType(events) /\ how \in {"executed", "skipped"}
      BY <1>1, <1>8
    <3>3. IsDone(events, v, stmt, how, d)
      BY <3>1, <3>2, DoneFacts
    <3> QED  BY <3>3 DEF IsDone
  <2> HIDE DEF d
  <2>2. d.last >= -1 /\ d.last < d.next
    BY <1>4, <1>8, <2>1
  <2>3. Continue(w, d)
    BY <1>8 DEF d
  <2> QED  BY <1>7, <1>8, <2>1, <2>2, <2>3
<1>9. CASE Break(w, t) /\ UNCHANGED statements
  BY <1>1, <1>2, <1>7, <1>9
<1>10. CASE Break(w, u) /\ UNCHANGED statements
  BY <1>2, <1>5, <1>7, <1>10
<1>11. CASE (Continue(w, Done(t, stmt, "executed")) \/ Continue(w, Done(u, stmt, "skipped")))
            /\ UNCHANGED statements
  BY <1>1, <1>5, <1>8, <1>11
<1> QED
  <2>1. \/ /\ Continue(w, [t EXCEPT !.list = RemoveAt(@, t.next)])
           /\ statements' = [statements EXCEPT ![w] = DropFrom(w, t)]
        \/ Break(w, t) /\ UNCHANGED statements
        \/ Break(w, u) /\ UNCHANGED statements
        \/ /\ Continue(w, Done(t, stmt, "executed")) \/ Continue(w, Done(u, stmt, "skipped"))
           /\ UNCHANGED statements
    BY <1>1, Zenon DEF ExecCases, t, u
  <2> QED  BY <1>6, <1>9, <1>10, <1>11, <2>1
\* What COMMIT writes.
LEMMA CommitFacts ==
    ASSUME BaseInv, NEW w \in Workers
    PROVE  /\ tx[w] \in TxType(events)
           /\ UpdatedSequences(tx[w]) \in SequencesType
           /\ UpdatedFailures(tx[w]) \in [Instances -> [1..SequenceBound -> Nat]]
           /\ handled \o tx[w].done \in Seq(Entry(events))
<1> DEFINE t == tx[w]
<1>1. t \in TxType(events) /\ current \in SequencesType
      /\ failures \in [Instances -> [1..SequenceBound -> Nat]] /\ handled \in Seq(Entry(events))
  BY DEF BaseInv, Types
<1>2. /\ t.seqs \in SequencesType /\ t.done \in Seq(Entry(events))
      /\ \A f \in t.failed : f.count \in Nat
  BY <1>1 DEF TxType, Failure
<1> HIDE DEF t
<1>3. UpdatedSequences(t) \in SequencesType
  BY <1>1, <1>2 DEF UpdatedSequences, SequencesType
<1>4. UpdatedFailures(t) \in [Instances -> [1..SequenceBound -> Nat]]
  <2>1. ASSUME NEW i \in Instances, NEW s \in 1..SequenceBound
        PROVE  UpdatedFailures(t)[i][s] \in Nat
    <3>1. CASE \E f \in t.failed : f.stmt.inst = i /\ f.stmt.seq = s
      <4> DEFINE g == CHOOSE f \in t.failed : f.stmt.inst = i /\ f.stmt.seq = s
      <4>1. g \in t.failed
        BY <3>1
      <4>2. UpdatedFailures(t)[i][s] = g.count
        BY <3>1 DEF UpdatedFailures
      <4> QED  BY <1>2, <4>1, <4>2
    <3>2. CASE ~\E f \in t.failed : f.stmt.inst = i /\ f.stmt.seq = s
      BY <1>1, <3>2 DEF UpdatedFailures
    <3> QED  BY <3>1, <3>2
  <2>2. /\ UpdatedFailures(t) = [i \in Instances |-> UpdatedFailures(t)[i]]
        /\ \A i \in Instances :
              UpdatedFailures(t)[i] = [s \in 1..SequenceBound |-> UpdatedFailures(t)[i][s]]
    BY DEF UpdatedFailures
  <2> QED  BY <2>1, <2>2
<1>5. handled \o t.done \in Seq(Entry(events))
  BY <1>1, <1>2, ConcatProperties
<1> QED  BY <1>1, <1>3, <1>4, <1>5 DEF t

LEMMA CommitBase == ASSUME BaseInv, NEW w \in Workers, CommitUpdate(w) PROVE BaseInv'
<1> DEFINE t == tx[w]
<1>1. /\ current' \in SequencesType /\ failures' \in [Instances -> [1..SequenceBound -> Nat]]
      /\ handled' \in Seq(Entry(events))
  BY CommitFacts DEF CommitUpdate
<1>2. UNCHANGED <<events, unsent, queue, faults>>
  BY DEF CommitUpdate
<1>3. /\ unsent' \subseteq events \X Subscribers /\ queue' \in [Subscribers -> Seq(events)]
      /\ faults' \in 0..MaxFaults /\ statements \in [Workers -> Seq(events)]
      /\ retry \in [Workers -> 0..Retries]
  BY <1>2 DEF BaseInv, Types
<1>4. CASE t.last < Len(t.list) - 1 /\ retry[w] < Retries
  <2>1. /\ index' = [index EXCEPT ![w] = t.last] /\ retry' = [retry EXCEPT ![w] = retry[w] + 1]
        /\ pc' = [pc EXCEPT ![w] = "update"] /\ tx' = [tx EXCEPT ![w] = NoTx]
        /\ statements' = [statements EXCEPT ![w] = statements[w]]
    BY <1>3, <1>4 DEF CommitUpdate
  <2>2. t.last \in Int /\ t.last >= -1
    BY CommitFacts DEF BaseInv, LoopInv, TxType
  <2>3. retry[w] + 1 \in 0..Retries /\ statements[w] \in Seq(events)
    BY <1>3, <1>4, LimitsAssumption
  <2> QED  BY <1>1, <1>2, <1>3, <2>1, <2>2, <2>3, BetweenBase
<1>5. CASE ~(t.last < Len(t.list) - 1 /\ retry[w] < Retries)
  <2>1. Return(w) /\ <<>> \in Seq(events)
    BY <1>5, EmptySeq DEF CommitUpdate
  <2> QED  BY <1>1, <1>2, <1>3, <2>1, ResetBase DEF Return
<1> QED  BY <1>4, <1>5

LEMMA BaseStep == BaseInv /\ [Next]_vars => BaseInv'
<1> SUFFICES ASSUME BaseInv, [Next]_vars PROVE BaseInv'
  OBVIOUS
<1>1. CASE \E i \in Instances, t \in AggTypes, s \in 1..SequenceBound : Push(i, t, s)
  BY <1>1, PushBase
<1>2. CASE Notify
  BY <1>2, NotifyBase
<1>3. ASSUME NEW w \in Workers,
             \/ TakeQueue(w) \/ ReadSequences(w) \/ Fetch(w) \/ Panic(w) \/ BeginUpdate(w)
             \/ ExecuteStmt(w) \/ CommitUpdate(w) \/ CommitConflict(w) \/ ProcessFails(w) \/ Restart(w)
      PROVE  BaseInv'
  BY <1>3, SourceBase, FailBase, BeginBase, ExecBase, CommitBase
<1>4. CASE UNCHANGED vars
  <2>1. UNCHANGED <<events, current, failures, handled, unsent, queue, pc, statements, index,
                    retry, tx, faults>>
    BY <1>4 DEF vars, workerVars
  <2> QED  BY <2>1 DEF BaseInv, LogInv, Types, LoopInv, InTx
<1> QED  BY <1>1, <1>2, <1>3, <1>4 DEF Next

LEMMA BaseCorrect == Spec => []BaseInv
BY BaseInit, BaseStep, PTL DEF Spec

LEMMA BaseImpliesTypes == BaseInv => TypeOK
<1> SUFFICES ASSUME BaseInv PROVE TypeOK
  OBVIOUS
<1>1. Types /\ LogInv /\ \A w \in Workers : LoopInv(w)
  BY DEF BaseInv
<1>2. Seq(events) \subseteq Seq(Event) /\ Seq(Entry(events)) \subseteq Seq(Entry(Event))
      /\ TxType(events) \subseteq TxType(Event)
  BY <1>1, TxTypeMonotonic DEF LogInv
<1>3. ASSUME NEW w \in Workers
      PROVE  /\ tx[w].insts \subseteq Instances
             /\ tx[w].list \in Seq(Event)
             /\ tx[w].next \in Nat \ {0}
             /\ pc[w] = "exec" => tx[w].next <= Len(tx[w].list)
             /\ tx[w].last \in Int /\ tx[w].last < tx[w].next
  <2>1. tx[w] \in TxType(Event)
    BY <1>1, <1>2 DEF Types
  <2> QED  BY <1>1, <2>1 DEF TxType, LoopInv
<1>4. /\ handled \in Seq([stmt : Event, how : {"executed", "skipped"}])
      /\ unsent \subseteq Event \X Subscribers
      /\ queue \in [Subscribers -> Seq(Event)] /\ statements \in [Workers -> Seq(Event)]
  BY <1>1, <1>2 DEF Types, LogInv, Entry
<1> QED  BY <1>1, <1>3, <1>4 DEF TypeOK, Types, LogInv, SequencesType

(***************************************************************************)
(* The variables of the handler have their types for every instance of the *)
(* constants: the loop of executeStmts, which shortens its slice while it  *)
(* ranges over it, never leaves the slice, and the index it returns is one *)
(* it has passed.                                                          *)
(***************************************************************************)
THEOREM TypeCorrect == Spec => []TypeOK
BY BaseCorrect, BaseImpliesTypes, PTL
-----------------------------------------------------------------------------
(* What follows what                                                       *)

\* One more statement that follows the position.
LEMMA FollowsAppend ==
    ASSUME NEW E, \A e \in E : e.seq \in Nat \ {0}, NEW list \in Seq(Entry(E)),
           NEW h \in Entry(E), NEW i, NEW t, NEW p \in Nat, NEW q \in Nat,
           Abstract!Follows(list, i, t, p, q)
    PROVE  /\ (h.stmt.inst # i \/ h.stmt.atype # t) =>
                 Abstract!Follows(Append(list, h), i, t, p, q)
           /\ h.stmt.inst = i /\ h.stmt.atype = t /\ (q # 0 => h.stmt.prevType = q) =>
                 Abstract!Follows(Append(list, h), i, t, p, h.stmt.seq)
<1> DEFINE app == Append(list, h)
           n == Len(list) + 1
           S == Abstract!OfStream(list, i, t)
           T == Abstract!OfStream(app, i, t)
<1>1. /\ Len(list) \in Nat /\ n \in Nat /\ app \in Seq(Entry(E)) /\ Len(app) = n
      /\ DOMAIN list = 1..Len(list) /\ DOMAIN app = 1..n
      /\ \A k \in 1..Len(list) : app[k] = list[k] /\ list[k] \in Entry(E)
      /\ app[n] = h
  BY AppendProperties, ElementOfSeq
<1> HIDE DEF app, n
<1>2. /\ S \subseteq 1..Len(list) /\ n \notin S /\ \A k \in S : k < n /\ k \in Nat
      /\ \A k \in S : app[k] = list[k] /\ list[k].stmt.seq \in Nat \ {0}
  BY <1>1 DEF Abstract!OfStream, n, Entry
<1>3. T = IF h.stmt.inst = i /\ h.stmt.atype = t THEN S \cup {n} ELSE S
  <2>1. \A k \in 1..n : k \in 1..Len(list) \/ k = n
    BY <1>1 DEF n
  <2>2. \A k \in 1..Len(list) : k \in 1..n
    BY <1>1 DEF n
  <2>3. n \in 1..n
    BY <1>1 DEF n
  <2> QED  BY <1>1, <2>1, <2>2, <2>3 DEF Abstract!OfStream
<1>4. /\ \A k, l \in S : Abstract!Neighbours(S, k, l) => list[l].stmt.prevType = list[k].stmt.seq
      /\ \A k \in S : (\A m \in S : k <= m) /\ p # 0 => list[k].stmt.prevType = p
      /\ \A k \in S : (\A m \in S : m <= k) => q = list[k].stmt.seq
      /\ S = {} => q = p
  BY DEF Abstract!Follows
<1> HIDE DEF S, T
<1>5. CASE h.stmt.inst # i \/ h.stmt.atype # t
  <2>1. T = S
    BY <1>3, <1>5
  <2>2. \A k, l \in T : Abstract!Neighbours(T, k, l) => app[l].stmt.prevType = app[k].stmt.seq
    BY <1>2, <1>4, <2>1
  <2>3. \A k \in T : (\A m \in T : k <= m) /\ p # 0 => app[k].stmt.prevType = p
    BY <1>2, <1>4, <2>1
  <2>4. \A k \in T : (\A m \in T : m <= k) => q = app[k].stmt.seq
    BY <1>2, <1>4, <2>1
  <2>5. T = {} => q = p
    BY <1>4, <2>1
  <2>6. Abstract!Follows(app, i, t, p, q)
    BY <2>2, <2>3, <2>4, <2>5 DEF Abstract!Follows, T
  <2> QED  BY <1>5, <2>6 DEF app
<1>6. CASE h.stmt.inst = i /\ h.stmt.atype = t /\ (q # 0 => h.stmt.prevType = q)
  <2>1. T = S \cup {n}
    BY <1>3, <1>6
  <2>2. ASSUME NEW k \in T, NEW l \in T, Abstract!Neighbours(T, k, l)
        PROVE  app[l].stmt.prevType = app[k].stmt.seq
    <3>1. k < l /\ k # n /\ k \in S
      BY <1>2, <2>1, <2>2 DEF Abstract!Neighbours
    <3>2. CASE l = n
      <4>1. \A m \in S : m <= k
        BY <1>2, <2>1, <2>2, <3>1, <3>2 DEF Abstract!Neighbours
      <4>2. q = list[k].stmt.seq /\ q # 0
        BY <1>2, <1>4, <3>1, <4>1
      <4> QED  BY <1>1, <1>2, <1>6, <3>1, <3>2, <4>2
    <3>3. CASE l # n
      <4>1. Abstract!Neighbours(S, k, l)
        BY <2>1, <2>2, <3>1, <3>3 DEF Abstract!Neighbours
      <4> QED  BY <1>2, <1>4, <2>1, <3>1, <3>3, <4>1
    <3> QED  BY <3>2, <3>3
  <2>3. ASSUME NEW k \in T, \A m \in T : k <= m, p # 0
        PROVE  app[k].stmt.prevType = p
    <3>1. CASE S = {}
      <4>1. k = n /\ q = p
        BY <1>4, <2>1, <2>3, <3>1
      <4> QED  BY <1>1, <1>6, <2>3, <4>1
    <3>2. CASE S # {}
      <4>1. PICK m \in S : TRUE
        BY <3>2
      <4>2. k <= m /\ m < n /\ m \in Nat /\ n \in Nat
        BY <1>1, <1>2, <2>1, <2>3, <4>1
      <4>3. k # n
        BY <4>2
      <4>4. k \in S /\ \A x \in S : k <= x
        BY <2>1, <2>3, <4>3
      <4> QED  BY <1>2, <1>4, <2>3, <4>4
    <3> QED  BY <3>1, <3>2
  <2>4. ASSUME NEW k \in T, \A m \in T : m <= k
        PROVE  h.stmt.seq = app[k].stmt.seq
    <3>1. k = n
      BY <1>1, <1>2, <2>1, <2>4
    <3> QED  BY <1>1, <3>1
  <2>5. T # {}
    BY <2>1
  <2>6. Abstract!Follows(app, i, t, p, h.stmt.seq)
    BY <2>2, <2>3, <2>4, <2>5 DEF Abstract!Follows, T
  <2> QED  BY <1>6, <2>6 DEF app
<1> QED  BY <1>5, <1>6

\* The indices of a stream in the concatenation of two lists.
LEMMA ConcatStream ==
    ASSUME NEW E, NEW a \in Seq(Entry(E)), NEW b \in Seq(Entry(E)), NEW i, NEW t
    PROVE  LET n == Len(a)
               S == Abstract!OfStream(a, i, t)
               T == Abstract!OfStream(b, i, t)
               U == Abstract!OfStream(a \o b, i, t)
           IN  /\ n \in Nat
               /\ \A k \in S : k \in U /\ k \in Int /\ k <= n /\ (a \o b)[k] = a[k]
               /\ \A k \in T : n + k \in U /\ k \in Int /\ n + k > n /\ (a \o b)[n + k] = b[k]
               /\ \A k \in U : k \in Int /\ (k \in S \/ k - n \in T)
<1> DEFINE n == Len(a)
           c == a \o b
<1>1. /\ n \in Nat /\ Len(b) \in Nat /\ DOMAIN a = 1..n /\ DOMAIN b = 1..Len(b)
      /\ DOMAIN c = 1..(n + Len(b))
  BY ConcatProperties, LenProperties
<1>2. \A k \in 1..(n + Len(b)) : c[k] = IF k <= n THEN a[k] ELSE b[k - n]
  BY ConcatProperties
<1> HIDE DEF c, n
<1>3. \A k \in 1..n : k \in 1..(n + Len(b)) /\ k <= n /\ c[k] = a[k]
  BY <1>1, <1>2
<1>4. \A k \in 1..Len(b) : n + k \in 1..(n + Len(b)) /\ n + k > n /\ c[n + k] = b[k]
  <2> SUFFICES ASSUME NEW k \in 1..Len(b)
               PROVE  n + k \in 1..(n + Len(b)) /\ n + k > n /\ c[n + k] = b[k]
    OBVIOUS
  <2>1. n + k \in 1..(n + Len(b)) /\ n + k > n /\ (n + k) - n = k /\ ~(n + k <= n)
    BY <1>1
  <2> QED  BY <1>2, <2>1
<1>5. \A k \in 1..(n + Len(b)) : k \in 1..n \/ (k - n \in 1..Len(b) /\ n + (k - n) = k)
  BY <1>1
<1> QED  BY <1>1, <1>3, <1>4, <1>5 DEF Abstract!OfStream, c, n

\* A list that follows another one.
LEMMA FollowsConcat ==
    ASSUME NEW E, \A e \in E : e.seq \in Nat \ {0}, NEW a \in Seq(Entry(E)), NEW b \in Seq(Entry(E)),
           NEW i, NEW t, NEW p \in Nat, NEW q \in Nat, NEW r \in Nat,
           Abstract!Follows(a, i, t, p, q), Abstract!Follows(b, i, t, q, r)
    PROVE  Abstract!Follows(a \o b, i, t, p, r)
<1> DEFINE n == Len(a)
           c == a \o b
           S == Abstract!OfStream(a, i, t)
           T == Abstract!OfStream(b, i, t)
           U == Abstract!OfStream(c, i, t)
<1>1. /\ n \in Nat
      /\ \A k \in S : k \in U /\ k \in Int /\ k <= n /\ c[k] = a[k]
      /\ \A k \in T : n + k \in U /\ k \in Int /\ n + k > n /\ c[n + k] = b[k]
      /\ \A k \in U : k \in Int /\ (k \in S \/ k - n \in T)
  BY ConcatStream
<1>2. \A k \in S : a[k].stmt.seq \in Nat \ {0}
  <2>1. DOMAIN a = 1..Len(a) /\ \A k \in 1..Len(a) : a[k] \in Entry(E)
    BY ElementOfSeq, LenProperties
  <2>2. \A k \in S : k \in 1..Len(a)
    BY <2>1 DEF Abstract!OfStream
  <2>3. \A x \in Entry(E) : x.stmt \in E
    BY DEF Entry
  <2> HIDE DEF S
  <2> QED  BY <2>1, <2>2, <2>3
<1>3. /\ \A k, l \in S : Abstract!Neighbours(S, k, l) => a[l].stmt.prevType = a[k].stmt.seq
      /\ \A k \in S : (\A m \in S : k <= m) /\ p # 0 => a[k].stmt.prevType = p
      /\ \A k \in S : (\A m \in S : m <= k) => q = a[k].stmt.seq
      /\ S = {} => q = p
  BY DEF Abstract!Follows
<1>4. /\ \A k, l \in T : Abstract!Neighbours(T, k, l) => b[l].stmt.prevType = b[k].stmt.seq
      /\ \A k \in T : (\A m \in T : k <= m) /\ q # 0 => b[k].stmt.prevType = q
      /\ \A k \in T : (\A m \in T : m <= k) => r = b[k].stmt.seq
      /\ T = {} => r = q
  BY DEF Abstract!Follows
<1> HIDE DEF S, T, U, n, c
<1>5. ASSUME NEW k \in U, NEW l \in U, Abstract!Neighbours(U, k, l)
      PROVE  c[l].stmt.prevType = c[k].stmt.seq
  <2>1. k < l /\ \A m \in U : m <= k \/ m >= l
    BY <1>5 DEF Abstract!Neighbours
  <2>2. CASE k \in S /\ l \in S
    <3>1. Abstract!Neighbours(S, k, l)
      BY <1>1, <2>1, <2>2 DEF Abstract!Neighbours
    <3> QED  BY <1>1, <1>3, <2>2, <3>1
  <2>3. CASE k \in S /\ l - n \in T
    <3>1. \A m \in S : m <= k
      <4> SUFFICES ASSUME NEW m \in S PROVE m <= k
        OBVIOUS
      <4>1. m \in U /\ m <= n /\ n + (l - n) > n /\ n + (l - n) = l /\ m \in Int
        BY <1>1, <2>3
      <4> QED  BY <1>1, <2>1, <4>1
    <3>2. \A m \in T : l - n <= m
      <4> SUFFICES ASSUME NEW m \in T PROVE l - n <= m
        OBVIOUS
      <4>1. n + m \in U /\ n + m > n /\ k <= n /\ m \in Int /\ k \in Int /\ l \in Int
        BY <1>1, <2>3
      <4>2. n + m >= l
        BY <1>1, <2>1, <4>1
      <4> QED  BY <1>1, <4>1, <4>2
    <3>3. q = a[k].stmt.seq /\ q # 0
      BY <1>2, <1>3, <2>3, <3>1
    <3>4. b[l - n].stmt.prevType = q
      BY <1>4, <2>3, <3>2, <3>3
    <3>5. n + (l - n) = l
      BY <1>1
    <3> QED  BY <1>1, <2>3, <3>3, <3>4, <3>5
  <2>4. CASE k - n \in T /\ l - n \in T
    <3>1. k \in Int /\ l \in Int /\ n + (k - n) = k /\ n + (l - n) = l
      BY <1>1
    <3>2. Abstract!Neighbours(T, k - n, l - n)
      <4>1. ASSUME NEW m \in T PROVE m <= k - n \/ m >= l - n
        BY <1>1, <2>1, <3>1, <4>1, SMTT(30)
      <4> QED  BY <1>1, <2>1, <2>4, <3>1, <4>1 DEF Abstract!Neighbours
    <3>3. b[l - n].stmt.prevType = b[k - n].stmt.seq
      BY <1>4, <2>4, <3>2
    <3> QED  BY <1>1, <2>4, <3>1, <3>3
  <2>5. ~(k - n \in T /\ l \in S)
    <3>1. k - n \in T => k > n
      <4>1. k \in Int /\ n + (k - n) = k
        BY <1>1
      <4> QED  BY <1>1, <4>1
    <3> QED  BY <1>1, <2>1, <3>1
  <2> QED  BY <1>1, <2>2, <2>3, <2>4, <2>5
<1>6. ASSUME NEW k \in U, \A m \in U : k <= m, p # 0
      PROVE  c[k].stmt.prevType = p
  <2>1. CASE k \in S
    BY <1>1, <1>3, <1>6, <2>1
  <2>2. CASE k \notin S
    <3>1. k \in Int /\ n + (k - n) = k /\ k - n \in T /\ k > n
      <4>1. k \in Int /\ n + (k - n) = k /\ k - n \in T
        BY <1>1, <2>2
      <4> QED  BY <1>1, <4>1
    <3>2. S = {}
      BY <1>1, <1>6, <3>1
    <3>3. \A m \in T : k - n <= m
      <4> SUFFICES ASSUME NEW m \in T PROVE k - n <= m
        OBVIOUS
      <4>1. n + m \in U /\ m \in Int
        BY <1>1
      <4>2. k <= n + m
        BY <1>6, <4>1
      <4> QED  BY <1>1, <3>1, <4>1, <4>2
    <3>4. q = p /\ b[k - n].stmt.prevType = p
      BY <1>3, <1>4, <1>6, <3>1, <3>2, <3>3
    <3> QED  BY <1>1, <3>1, <3>4
  <2> QED  BY <2>1, <2>2
<1>7. ASSUME NEW k \in U, \A m \in U : m <= k
      PROVE  r = c[k].stmt.seq
  <2>1. CASE T = {}
    <3>1. k \in S /\ r = q
      BY <1>1, <1>4, <2>1
    <3>2. \A m \in S : m <= k
      BY <1>1, <1>7
    <3>3. q = a[k].stmt.seq
      BY <1>3, <3>1, <3>2
    <3> QED  BY <1>1, <3>1, <3>3
  <2>2. CASE T # {}
    <3>1. k \in Int /\ n + (k - n) = k
      BY <1>1
    <3>2. k - n \in T
      BY <1>1, <1>7, <2>2
    <3>3. \A m \in T : m <= k - n
      <4> SUFFICES ASSUME NEW m \in T PROVE m <= k - n
        OBVIOUS
      <4>1. n + m \in U /\ m \in Int
        BY <1>1
      <4>2. n + m <= k
        BY <1>7, <4>1
      <4> QED  BY <1>1, <3>1, <4>1, <4>2
    <3>4. r = b[k - n].stmt.seq
      BY <1>4, <3>2, <3>3
    <3>5. c[n + (k - n)] = b[k - n]
      BY <1>1, <3>2
    <3> QED  BY <3>1, <3>4, <3>5
  <2> QED  BY <2>1, <2>2
<1>8. U = {} => r = p
  BY <1>1, <1>3, <1>4
<1> QED  BY <1>5, <1>6, <1>7, <1>8 DEF Abstract!Follows, U, c

\* A list without a statement of the stream.
LEMMA FollowsNone ==
    ASSUME NEW list, NEW i, NEW t, NEW p, Abstract!OfStream(list, i, t) = {}
    PROVE  Abstract!Follows(list, i, t, p, p)
BY DEF Abstract!Follows

-----------------------------------------------------------------------------
(* The steps, as far as transactions are concerned                         *)

\* Nothing is committed and no transaction moves; some may end.
Quiet ==
    /\ events \subseteq events'
    /\ UNCHANGED <<current, failures, handled>>
    /\ \A v \in Workers : InTx(v)' => InTx(v) /\ tx'[v] = tx[v] /\ pc'[v] = pc[v]

\* A transaction of w begins with the sequences that are stored.
Begins(w) ==
    /\ UNCHANGED <<events, current, failures, handled>>
    /\ \A v \in Workers \ {w} : tx'[v] = tx[v] /\ pc'[v] = pc[v]
    /\ tx'[w].base = SequencesOf(tx'[w].insts) /\ tx'[w].seqs = tx'[w].base
    /\ tx'[w].last = -1 /\ tx'[w].done = <<>> /\ tx'[w].failed = {}

\* A step that takes w out of its transaction, or does not put it into one.
LEMMA LeavesQuiet ==
    ASSUME BaseInv, NEW w \in Workers, NEW p, p \notin {"exec", "commit"}, NEW u,
           pc' = [pc EXCEPT ![w] = p], tx' = [tx EXCEPT ![w] = u],
           UNCHANGED <<events, current, failures, handled>>
    PROVE  Quiet
<1>1. ASSUME NEW v \in Workers, InTx(v)' PROVE InTx(v) /\ tx'[v] = tx[v] /\ pc'[v] = pc[v]
  <2>1. v # w
    BY <1>1 DEF InTx, BaseInv, Types
  <2>2. tx'[v] = tx[v] /\ pc'[v] = pc[v]
    BY <2>1 DEF BaseInv, Types
  <2> QED  BY <1>1, <2>2 DEF InTx
<1> QED  BY <1>1 DEF Quiet

LEMMA StepCases ==
    ASSUME BaseInv, [Next]_vars
    PROVE  \/ Quiet
           \/ \E w \in Workers : Begins(w) \/ ExecuteStmt(w) \/ CommitUpdate(w)
<1>1. CASE \E i \in Instances, t \in AggTypes, s \in 1..SequenceBound : Push(i, t, s)
  BY <1>1 DEF Push, workerVars, Quiet, InTx
<1>2. CASE Notify
  BY <1>2 DEF Notify, workerVars, Quiet, InTx
<1>3. CASE UNCHANGED vars
  BY <1>3 DEF vars, workerVars, Quiet, InTx
<1>4. ASSUME NEW w \in Workers, TakeQueue(w) \/ Fetch(w) PROVE Quiet
  <2>1. UNCHANGED <<events, current, failures, handled>>
    BY <1>4, Zenon DEF TakeQueue, Fetch
  <2>2. Return(w) \/ \E evts : StartProcess(w, evts)
    BY <1>4, Zenon DEF TakeQueue, Fetch, Process
  <2> QED  BY <2>1, <2>2, LeavesQuiet DEF Return, StartProcess
<1>5. ASSUME NEW w \in Workers, ReadSequences(w) PROVE Quiet
  <2>1. /\ UNCHANGED <<events, current, failures, handled>> /\ pc' = [pc EXCEPT ![w] = "fetch"]
        /\ \E u : tx' = [tx EXCEPT ![w] = u]
    BY <1>5, Zenon DEF ReadSequences
  <2> QED  BY <2>1, LeavesQuiet
<1>6. ASSUME NEW w \in Workers, Panic(w) PROVE Quiet
  <2>1. UNCHANGED <<events, current, failures, handled, tx>> /\ pc' = [pc EXCEPT ![w] = "dead"]
    BY <1>6, Zenon DEF Panic
  <2>2. tx' = [tx EXCEPT ![w] = tx[w]]
    BY <2>1 DEF BaseInv, Types
  <2> QED  BY <2>1, <2>2, LeavesQuiet
<1>7. ASSUME NEW w \in Workers, CommitConflict(w) \/ ProcessFails(w) \/ Restart(w) PROVE Quiet
  <2>1. UNCHANGED <<events, current, failures, handled>> /\ Return(w)
    BY <1>7, Zenon DEF CommitConflict, ProcessFails, Restart
  <2> QED  BY <2>1, LeavesQuiet DEF Return
<1>8. ASSUME NEW w \in Workers, BeginUpdate(w) PROVE Quiet \/ Begins(w)
  <2> DEFINE stmts == SubSeq(statements[w], index[w] + 2, Len(statements[w]))
             insts == {stmts[k].inst : k \in DOMAIN stmts}
  <2>1. UNCHANGED <<events, current, failures, handled>>
    BY <1>8, Zenon DEF BeginUpdate
  <2>2. CASE Return(w)
    BY Zenon, <2>1, <2>2, LeavesQuiet DEF Return
  <2>3. CASE ~Return(w)
    <3>1. PICK list \in Seq(events), aliased \in BOOLEAN :
              /\ pc' = [pc EXCEPT ![w] = "exec"]
              /\ tx' = [tx EXCEPT ![w] = [NoTx EXCEPT !.insts = insts, !.list = list,
                           !.aliased = aliased, !.base = SequencesOf(insts),
                           !.seqs = SequencesOf(insts)]]
      BY Zenon, <1>8, <2>3, BeginFacts
    <3> HIDE DEF insts
    <3>2. /\ tx'[w] = [NoTx EXCEPT !.insts = insts, !.list = list,
                           !.aliased = aliased, !.base = SequencesOf(insts),
                           !.seqs = SequencesOf(insts)]
          /\ \A v \in Workers \ {w} : tx'[v] = tx[v] /\ pc'[v] = pc[v]
      BY <3>1 DEF BaseInv, Types
    <3>3. /\ tx'[w].base = SequencesOf(insts) /\ tx'[w].seqs = SequencesOf(insts)
          /\ tx'[w].insts = insts /\ tx'[w].last = -1 /\ tx'[w].done = <<>> /\ tx'[w].failed = {}
      BY <3>2 DEF NoTx
    <3> QED  BY <2>1, <3>2, <3>3 DEF Begins
  <2> QED  BY <2>2, <2>3
<1> QED  BY <1>1, <1>2, <1>3, <1>4, <1>5, <1>6, <1>7, <1>8 DEF Next

-----------------------------------------------------------------------------
(* OrderInv is inductive                                                   *)

LEMMA KnownMonotonic ==
    ASSUME NEW E, NEW F, E \subseteq F, NEW seqs, Known(E, seqs)
    PROVE  Known(F, seqs)
BY DEF Known

\* TxOrder is about some fields of a transaction only.
LEMMA TxOrderSame ==
    ASSUME NEW E, NEW F, E \subseteq F, NEW t, NEW u, TxOrder(E, t), u.insts = t.insts,
           u.base = t.base, u.seqs = t.seqs, u.last = t.last, u.done = t.done
    PROVE  TxOrder(F, u)
BY KnownMonotonic DEF TxOrder

LEMMA OrderInit == Init => OrderInv
<1> SUFFICES ASSUME Init PROVE OrderInv
  OBVIOUS
<1>1. Known(events, current) /\ \A i \in Instances, t \in AggTypes : current[i][t] = 0
  BY DEF Init, NoSequences, Known
<1>2. handled = <<>> /\ \A w \in Workers : ~InTx(w)
  BY DEF Init, InTx
<1>3. \A i, t : Abstract!OfStream(handled, i, t) = {}
  BY <1>2 DEF Abstract!OfStream
<1>4. OutputInv
  BY <1>1, <1>3, FollowsNone DEF OutputInv
<1> QED  BY <1>1, <1>2, <1>4, BaseInit DEF OrderInv

LEMMA OrderQuiet == ASSUME OrderInv, BaseInv', Quiet PROVE OrderInv'
<1>1. Known(events', current')
  BY KnownMonotonic DEF OrderInv, Quiet
<1>2. OutputInv'
  BY DEF OrderInv, OutputInv, Quiet
<1>3. \A w \in Workers : InTx(w)' => TxOrder(events', tx'[w])
  BY TxOrderSame DEF OrderInv, Quiet
<1> QED  BY <1>1, <1>2, <1>3 DEF OrderInv

LEMMA OrderBegin == ASSUME OrderInv, BaseInv', NEW w \in Workers, Begins(w) PROVE OrderInv'
<1>1. Known(events', current') /\ OutputInv'
  BY DEF OrderInv, OutputInv, Begins
<1>2. ASSUME NEW v \in Workers, InTx(v)' PROVE TxOrder(events', tx'[v])
  <2>1. CASE v = w
    <3> DEFINE t == tx'[w]
    <3>1. /\ t.base = SequencesOf(t.insts) /\ t.seqs = t.base /\ t.last = -1 /\ t.done = <<>>
          /\ UNCHANGED events
      BY DEF Begins
    <3>2. t.base \in SequencesType
      BY SequencesOfType, <3>1 DEF OrderInv, BaseInv, Types
    <3>3. ASSUME NEW i \in Instances, NEW a \in AggTypes
          PROVE  /\ Abstract!Follows(t.done, i, a, t.base[i][a], t.seqs[i][a])
                 /\ Abstract!OfStream(t.done, i, a) = {}
                 /\ t.base[i][a] <= t.seqs[i][a]
      <4>1. Abstract!OfStream(t.done, i, a) = {}
        BY <3>1 DEF Abstract!OfStream
      <4>2. t.base[i][a] \in 0..SequenceBound
        BY <3>2 DEF SequencesType
      <4> HIDE DEF t
      <4>3. t.base[i][a] <= t.seqs[i][a]
        BY <3>1, <4>2
      <4>4. Abstract!Follows(t.done, i, a, t.base[i][a], t.seqs[i][a])
        BY <3>1, <4>1, FollowsNone
      <4> QED  BY <4>1, <4>3, <4>4
    <3>4. Known(events, t.seqs)
      <4> HIDE DEF t
      <4> QED  BY <3>1 DEF OrderInv, Known, SequencesOf, NoSequences
    <3> HIDE DEF t
    <3>5. TxOrder(events, t)
      BY <3>1, <3>3, <3>4 DEF TxOrder
    <3> QED  BY <2>1, <3>1, <3>5 DEF t
  <2>2. CASE v # w
    <3>1. tx'[v] = tx[v] /\ InTx(v) /\ events' = events
      BY <1>2, <2>2 DEF Begins, InTx
    <3> QED  BY <3>1 DEF OrderInv
  <2> QED  BY <2>1, <2>2
<1> QED  BY <1>1, <1>2 DEF OrderInv

\* A statement that is neither handled already nor after a gap follows the stream.
LEMMA StmtFollows ==
    ASSUME LogInv, NEW seqs \in SequencesType, Known(events, seqs), NEW stmt \in events,
           ~AlreadyHandled(stmt, seqs[stmt.inst][stmt.atype]),
           ~GapBefore(stmt, seqs[stmt.inst][stmt.atype])
    PROVE  LET seq == seqs[stmt.inst][stmt.atype]
           IN  seq < stmt.seq /\ (seq # 0 => stmt.prevType = seq)
<1> DEFINE seq == seqs[stmt.inst][stmt.atype]
<1>1. /\ stmt.inst \in Instances /\ stmt.atype \in AggTypes /\ stmt.seq \in Nat \ {0}
      /\ stmt.prevType \in Nat
  BY DEF LogInv, Event
<1>2. seq \in Nat
  BY <1>1, LimitsAssumption DEF SequencesType
<1>3. CASE seq = 0
  BY <1>1, <1>3
<1>4. CASE seq # 0
  <2>1. PICK e \in events : e.inst = stmt.inst /\ e.atype = stmt.atype /\ e.seq = seq
    BY <1>1, <1>4 DEF Known
  <2>2. seq < stmt.seq
    BY <1>1, <1>2, <1>4 DEF AlreadyHandled
  <2>3. seq <= stmt.prevType
    BY <2>1, <2>2 DEF LogInv, SameStream
  <2> HIDE DEF seq
  <2>4. stmt.prevType > 0 /\ stmt.seq > seq
    BY <1>1, <1>2, <1>4, <2>2, <2>3
  <2>5. stmt.prevType = seq
    BY SMTT(30), <1>4, <2>4 DEF GapBefore, seq
  <2> QED  BY <2>2, <2>5 DEF seq
<1> QED  BY <1>3, <1>4

\* A transaction goes on with such a statement.
LEMMA DoneOrder ==
    ASSUME LogInv, NEW t \in TxType(events), TxOrder(events, t), NEW stmt \in events,
           stmt.inst \in t.insts, t.next \in Nat \ {0},
           ~AlreadyHandled(stmt, t.seqs[stmt.inst][stmt.atype]),
           ~GapBefore(stmt, t.seqs[stmt.inst][stmt.atype]),
           NEW how \in {"executed", "skipped"}, NEW d, IsDone(events, t, stmt, how, d)
    PROVE  TxOrder(events, d)
<1> DEFINE seq == t.seqs[stmt.inst][stmt.atype]
           h == [stmt |-> stmt, how |-> how]
<1>1. /\ t.seqs \in SequencesType /\ t.base \in SequencesType /\ t.done \in Seq(Entry(events))
      /\ h \in Entry(events)
  BY DEF TxType, Entry
<1>2. Known(events, t.seqs)
  BY DEF TxOrder
<1>3. seq < stmt.seq /\ (seq # 0 => stmt.prevType = seq)
  BY <1>1, <1>2, StmtFollows
<1>4. /\ stmt.inst \in Instances /\ stmt.atype \in AggTypes /\ stmt.seq \in Nat \ {0}
  BY DEF LogInv, Event
<1>5. /\ d.insts = t.insts /\ d.base = t.base /\ d.last = t.next - 1 /\ d.done = Append(t.done, h)
      /\ d.seqs = [t.seqs EXCEPT ![stmt.inst][stmt.atype] = stmt.seq]
  BY DEF IsDone
<1>6. \A i \in Instances, a \in AggTypes :
         d.seqs[i][a] = IF i = stmt.inst /\ a = stmt.atype THEN stmt.seq ELSE t.seqs[i][a]
  BY <1>1, <1>4, <1>5 DEF SequencesType
<1>7. \A i \in Instances : i \notin t.insts => d.base[i] = d.seqs[i]
  <2>1. ASSUME NEW i \in Instances, i \notin t.insts PROVE d.seqs[i] = t.seqs[i]
    BY <1>1, <1>5, <2>1 DEF SequencesType
  <2> QED  BY <1>5, <2>1 DEF TxOrder
<1>8. d.done # <<>> /\ d.last # -1
  <2>1. Len(d.done) = Len(t.done) + 1 /\ Len(t.done) \in Nat
    BY <1>1, <1>5, AppendProperties
  <2>2. d.done # <<>>
    <3> SUFFICES ASSUME d.done = <<>> PROVE FALSE
      OBVIOUS
    <3>1. Len(d.done) = 0
      OBVIOUS
    <3> QED  BY <2>1, <3>1
  <2>3. d.last # -1
    BY <1>5
  <2> QED  BY <2>2, <2>3
<1>9. Known(events, d.seqs)
  BY <1>2, <1>6 DEF Known
<1>10. ASSUME NEW i \in Instances, NEW a \in AggTypes
       PROVE  /\ Abstract!Follows(d.done, i, a, d.base[i][a], d.seqs[i][a])
              /\ d.base[i][a] <= d.seqs[i][a]
              /\ \A k \in Abstract!OfStream(d.done, i, a) :
                    d.base[i][a] < d.done[k].stmt.seq /\ d.done[k].stmt.seq <= d.seqs[i][a]
  <2>1. /\ t.base[i][a] \in Nat /\ t.seqs[i][a] \in Nat /\ t.base[i][a] <= t.seqs[i][a]
        /\ Abstract!Follows(t.done, i, a, t.base[i][a], t.seqs[i][a])
    BY <1>1, LimitsAssumption DEF SequencesType, TxOrder
  <2>2. \A e \in events : e.seq \in Nat \ {0}
    BY DEF LogInv, Event
  <2>3. h.stmt = stmt
    OBVIOUS
  <2> HIDE DEF h
  <2>4. /\ (h.stmt.inst # i \/ h.stmt.atype # a) =>
              Abstract!Follows(Append(t.done, h), i, a, t.base[i][a], t.seqs[i][a])
        /\ h.stmt.inst = i /\ h.stmt.atype = a /\ (t.seqs[i][a] # 0 => h.stmt.prevType = t.seqs[i][a]) =>
              Abstract!Follows(Append(t.done, h), i, a, t.base[i][a], h.stmt.seq)
    BY <1>1, <2>1, <2>2, FollowsAppend
  <2>5. Abstract!Follows(d.done, i, a, d.base[i][a], d.seqs[i][a])
    BY <1>3, <1>5, <1>6, <2>3, <2>4
  <2>6. t.seqs[i][a] <= d.seqs[i][a] /\ d.seqs[i][a] \in Nat
    BY <1>3, <1>4, <1>6, <2>1
  <2>7. ASSUME NEW k \in Abstract!OfStream(d.done, i, a)
        PROVE  d.base[i][a] < d.done[k].stmt.seq /\ d.done[k].stmt.seq <= d.seqs[i][a]
    <3>1. /\ Len(t.done) \in Nat /\ DOMAIN d.done = 1..(Len(t.done) + 1)
          /\ DOMAIN t.done = 1..Len(t.done)
          /\ \A l \in 1..Len(t.done) : d.done[l] = t.done[l]
          /\ d.done[Len(t.done) + 1] = h
      BY <1>1, <1>5, AppendProperties
    <3>2. k \in 1..(Len(t.done) + 1) /\ d.done[k].stmt.inst = i /\ d.done[k].stmt.atype = a
      BY <3>1 DEF Abstract!OfStream
    <3>3. CASE k = Len(t.done) + 1
      <4>1. d.done[k].stmt = stmt /\ i = stmt.inst /\ a = stmt.atype
        BY <2>3, <3>1, <3>2, <3>3
      <4> QED  BY <1>3, <1>4, <1>5, <1>6, <2>1, <4>1
    <3>4. CASE k # Len(t.done) + 1
      <4>1. k \in 1..Len(t.done)
        BY <3>1, <3>2, <3>4
      <4>2. k \in Abstract!OfStream(t.done, i, a) /\ d.done[k] = t.done[k]
        BY <3>1, <3>2, <4>1 DEF Abstract!OfStream
      <4>3. t.base[i][a] < t.done[k].stmt.seq /\ t.done[k].stmt.seq <= t.seqs[i][a]
        BY <4>2 DEF TxOrder
      <4>4. t.done[k].stmt.seq \in Nat
        <5>1. t.done[k] \in Entry(events)
          BY <1>1, <4>1, ElementOfSeq
        <5> QED  BY <2>2, <5>1 DEF Entry
      <4> QED  BY <1>5, <2>1, <2>6, <4>2, <4>3, <4>4
    <3> QED  BY <3>3, <3>4
  <2>8. d.base[i][a] <= d.seqs[i][a]
    BY <1>5, <2>1, <2>6
  <2> QED  BY <2>5, <2>7, <2>8
<1> QED  BY <1>5, <1>7, <1>8, <1>9, <1>10 DEF TxOrder

LEMMA OrderExec ==
    ASSUME OrderInv, BaseInv', NEW w \in Workers, ExecuteStmt(w)
    PROVE  OrderInv'
<1> DEFINE t == tx[w]
           stmt == t.list[t.next]
           seq == t.seqs[stmt.inst][stmt.atype]
           count == FailureCount(stmt)
           u == [t EXCEPT !.failed = @ \cup {[stmt |-> stmt, count |-> count]}]
<1>1. /\ ExecCases(w, stmt, seq, count)
      /\ pc[w] = "exec" /\ t \in TxType(events) /\ t.next \in 1..Len(t.list)
      /\ stmt \in events /\ stmt.inst \in t.insts /\ stmt.inst \in Instances
      /\ stmt.atype \in AggTypes /\ stmt.seq \in 1..SequenceBound /\ count \in Nat \ {0}
      /\ UNCHANGED <<events, current, failures, handled, unsent, queue, index, retry, faults>>
  BY Zenon, ExecFacts DEF OrderInv
<1>2. TxOrder(events, t) /\ t.next \in Nat \ {0}
  BY Zenon, <1>1 DEF OrderInv, InTx, TxType
<1>3. /\ u \in TxType(events) /\ TxOrder(events, u) /\ u.insts = t.insts /\ u.seqs = t.seqs
      /\ u.next = t.next
  <2>1. [stmt |-> stmt, count |-> count] \in Failure(events)
    BY Zenon, <1>1 DEF Failure
  <2> DEFINE fs == t.failed \cup {[stmt |-> stmt, count |-> count]}
  <2>2. fs \subseteq Failure(events) /\ u = [t EXCEPT !.failed = fs]
    BY Zenon, <1>1, <2>1 DEF TxType
  <2> HIDE DEF fs, stmt, u, t
  <2>3. /\ u \in TxType(events) /\ u.insts = t.insts /\ u.base = t.base /\ u.seqs = t.seqs
        /\ u.last = t.last /\ u.done = t.done /\ u.next = t.next
    BY <1>1, <2>2 DEF TxType
  <2>4. TxOrder(events, u)
    BY <1>2, <2>3, TxOrderSame
  <2> QED  BY <2>3, <2>4
<1> HIDE DEF t, stmt, seq, count, u
<1>4. SUFFICES ASSUME NEW v, tx' = [tx EXCEPT ![w] = v], TxOrder(events, v),
                      NEW p, pc' = [pc EXCEPT ![w] = p]
               PROVE  OrderInv'
  <2>1. CASE Continue(w, [t EXCEPT !.list = RemoveAt(@, t.next)])
    <3> DEFINE r == RemoveAt(t.list, t.next)
               v == [t EXCEPT !.list = r]
    <3>1. v = [t EXCEPT !.list = RemoveAt(@, t.next)]
      OBVIOUS
    <3> HIDE DEF r
    <3>2. v.insts = t.insts /\ v.base = t.base /\ v.seqs = t.seqs /\ v.last = t.last /\ v.done = t.done
      BY <1>1 DEF TxType
    <3>3. TxOrder(events, v)
      BY <1>2, <3>2, TxOrderSame
    <3>4. \E p : tx' = [tx EXCEPT ![w] = v] /\ pc' = [pc EXCEPT ![w] = p]
      BY <2>1, <3>1 DEF Continue
    <3> QED  BY <1>4, <3>3, <3>4
  <2>2. CASE Break(w, t)
    BY <1>2, <1>4, <2>2 DEF Break
  <2>3. CASE Break(w, u)
    BY <1>3, <1>4, <2>3 DEF Break
  <2>4. ASSUME NEW x \in TxType(events), TxOrder(events, x), x.insts = t.insts, x.seqs = t.seqs,
               x.next = t.next, NEW how \in {"executed", "skipped"},
               ~AlreadyHandled(stmt, seq), ~GapBefore(stmt, seq), Continue(w, Done(x, stmt, how))
        PROVE  OrderInv'
    <3> DEFINE d == Done(x, stmt, how)
    <3>1. stmt.seq \in 0..SequenceBound
      BY <1>1
    <3>2. IsDone(events, x, stmt, how, d)
      BY <1>1, <2>4, <3>1, DoneFacts
    <3>3. /\ ~AlreadyHandled(stmt, x.seqs[stmt.inst][stmt.atype])
          /\ ~GapBefore(stmt, x.seqs[stmt.inst][stmt.atype])
          /\ stmt.inst \in x.insts /\ LogInv /\ x.next \in Nat \ {0}
      BY <1>1, <1>2, <2>4 DEF seq, OrderInv, BaseInv
    <3> HIDE DEF d
    <3>4. TxOrder(events, d)
      BY <1>1, <2>4, <3>2, <3>3, DoneOrder
    <3>5. \E p : tx' = [tx EXCEPT ![w] = d] /\ pc' = [pc EXCEPT ![w] = p]
      BY <2>4 DEF Continue, d
    <3> QED  BY <1>4, <3>4, <3>5
  <2>5. \/ Continue(w, [t EXCEPT !.list = RemoveAt(@, t.next)])
        \/ Break(w, t)
        \/ Break(w, u)
        \/ /\ ~AlreadyHandled(stmt, seq) /\ ~GapBefore(stmt, seq)
           /\ Continue(w, Done(t, stmt, "executed")) \/ Continue(w, Done(u, stmt, "skipped"))
    BY <1>1, Zenon DEF ExecCases, t, u
  <2> QED  BY <1>1, <1>2, <1>3, <2>1, <2>2, <2>3, <2>4, <2>5
<1>5. Known(events', current') /\ OutputInv'
  BY <1>1 DEF OrderInv, OutputInv
<1>6. ASSUME NEW x \in Workers, InTx(x)' PROVE TxOrder(events', tx'[x])
  <2>1. CASE x = w
    BY <1>1, <1>4, <2>1 DEF OrderInv, BaseInv, Types
  <2>2. CASE x # w
    <3>1. tx'[x] = tx[x] /\ pc'[x] = pc[x]
      BY <1>4, <2>2 DEF OrderInv, BaseInv, Types
    <3>2. InTx(x)
      BY <1>6, <3>1 DEF InTx
    <3> QED  BY <1>1, <3>1, <3>2 DEF OrderInv
  <2> QED  BY <2>1, <2>2
<1> QED  BY <1>5, <1>6 DEF OrderInv

\* What COMMIT does to the sequences of a stream, and to the output.
LEMMA CommitOrder ==
    ASSUME Serializable, OrderInv, NEW w \in Workers, CommitUpdate(w),
           NEW i \in Instances, NEW a \in AggTypes
    PROVE  LET t == tx[w]
           IN  /\ current[i][a] \in Nat /\ current'[i][a] \in Nat /\ current[i][a] <= current'[i][a]
               /\ i \in t.insts => current[i][a] = t.base[i][a] /\ current'[i][a] = t.seqs[i][a]
               /\ i \notin t.insts => current'[i][a] = current[i][a]
               /\ Abstract!Follows(t.done, i, a, current[i][a], current'[i][a])
               /\ \A k \in Abstract!OfStream(t.done, i, a) : t.done[k].stmt.seq <= current'[i][a]
<1> DEFINE t == tx[w]
<1>1. pc[w] = "commit" /\ current' = UpdatedSequences(t) /\ \A j \in t.insts : current[j] = t.base[j]
  BY DEF CommitUpdate
<1>2. TxOrder(events, t) /\ t \in TxType(events) /\ current \in SequencesType
  BY <1>1 DEF OrderInv, InTx, BaseInv, Types
<1>3. /\ t.seqs \in SequencesType /\ t.base \in SequencesType /\ t.last \in Int
      /\ t.last >= -1 /\ t.done \in Seq(Entry(events))
  BY <1>2 DEF TxType, OrderInv, BaseInv, LoopInv
<1> HIDE DEF t
<1>4. /\ current[i][a] \in Nat /\ t.seqs[i][a] \in Nat /\ t.base[i][a] \in Nat
      /\ t.base[i][a] <= t.seqs[i][a]
  BY <1>2, <1>3, LimitsAssumption DEF SequencesType, TxOrder
<1>5. current'[i][a] = IF t.last >= 0 /\ i \in t.insts /\ t.seqs[i][a] # 0
                       THEN t.seqs[i][a] ELSE current[i][a]
  BY <1>1 DEF UpdatedSequences
<1>6. CASE i \in t.insts
  <2>1. current[i][a] = t.base[i][a]
    BY <1>1, <1>6
  <2>2. t.last = -1 => t.seqs[i][a] = t.base[i][a]
    <3>1. t.last = -1 => Abstract!OfStream(t.done, i, a) = {}
      BY <1>2 DEF TxOrder, Abstract!OfStream
    <3>2. Abstract!Follows(t.done, i, a, t.base[i][a], t.seqs[i][a])
      BY <1>2 DEF TxOrder
    <3> QED  BY <3>1, <3>2 DEF Abstract!Follows
  <2>3. current'[i][a] = t.seqs[i][a]
    BY <1>3, <1>4, <1>5, <1>6, <2>1, <2>2
  <2>4. Abstract!Follows(t.done, i, a, current[i][a], current'[i][a])
    BY <1>2, <2>1, <2>3 DEF TxOrder
  <2>5. \A k \in Abstract!OfStream(t.done, i, a) : t.done[k].stmt.seq <= current'[i][a]
    BY <1>2, <2>3 DEF TxOrder
  <2> QED  BY <1>4, <1>6, <2>1, <2>3, <2>4, <2>5 DEF t
<1>7. CASE i \notin t.insts
  <2>1. current'[i][a] = current[i][a]
    BY <1>5, <1>7
  <2>2. Abstract!OfStream(t.done, i, a) = {}
    <3>1. t.base[i] = t.seqs[i]
      BY <1>2, <1>7 DEF TxOrder
    <3>2. ASSUME NEW k \in Abstract!OfStream(t.done, i, a) PROVE FALSE
      <4>1. t.base[i][a] < t.done[k].stmt.seq /\ t.done[k].stmt.seq <= t.base[i][a]
        BY <1>2, <3>1 DEF TxOrder
      <4>2. t.done[k] \in Entry(events)
        BY <1>3, ElementOfSeq DEF Abstract!OfStream
      <4>3. t.done[k].stmt.seq \in Nat
        BY <4>2 DEF Entry, OrderInv, BaseInv, LogInv, Event
      <4> QED  BY <1>4, <4>1, <4>3
    <3> QED  BY <3>2
  <2>3. Abstract!Follows(t.done, i, a, current[i][a], current'[i][a])
    BY <2>1, <2>2, FollowsNone
  <2> QED  BY <1>4, <1>7, <2>1, <2>2, <2>3 DEF t
<1> QED  BY <1>6, <1>7

\* What COMMIT leaves alone.
LEMMA CommitFrame ==
    ASSUME BaseInv, NEW w \in Workers, CommitUpdate(w)
    PROVE  /\ events' = events /\ handled' = handled \o tx[w].done
           /\ handled \in Seq(Entry(events)) /\ tx[w].done \in Seq(Entry(events))
           /\ \A v \in Workers : InTx(v)' => v # w /\ InTx(v) /\ tx'[v] = tx[v] /\ pc'[v] = pc[v]
<1>1. events' = events /\ handled' = handled \o tx[w].done
  BY Zenon DEF CommitUpdate
<1>2. handled \in Seq(Entry(events)) /\ tx[w].done \in Seq(Entry(events))
  BY DEF BaseInv, Types, TxType
<1>3. \E p \in {"idle", "update"} : pc' = [pc EXCEPT ![w] = p] /\ tx' = [tx EXCEPT ![w] = NoTx]
  BY DEF CommitUpdate, Return
<1>4. ASSUME NEW v \in Workers, InTx(v)'
      PROVE  v # w /\ InTx(v) /\ tx'[v] = tx[v] /\ pc'[v] = pc[v]
  <2>1. v # w
    BY <1>3, <1>4 DEF InTx, BaseInv, Types
  <2>2. tx'[v] = tx[v] /\ pc'[v] = pc[v]
    BY <1>3, <2>1 DEF BaseInv, Types
  <2> QED  BY <1>4, <2>1, <2>2 DEF InTx
<1> QED  BY <1>1, <1>2, <1>4

LEMMA OrderCommit ==
    ASSUME Serializable, OrderInv, BaseInv', NEW w \in Workers, CommitUpdate(w)
    PROVE  OrderInv'
<1> DEFINE t == tx[w]
<1>1. /\ events' = events /\ handled' = handled \o t.done
      /\ handled \in Seq(Entry(events)) /\ t.done \in Seq(Entry(events))
      /\ \A v \in Workers : InTx(v)' => v # w /\ InTx(v) /\ tx'[v] = tx[v] /\ pc'[v] = pc[v]
  BY CommitFrame DEF OrderInv
<1>2. \A e \in events : e.seq \in Nat \ {0}
  BY DEF OrderInv, BaseInv, LogInv, Event
<1>3. Known(events, t.seqs)
  <2>1. InTx(w)
    BY DEF CommitUpdate, InTx
  <2> QED  BY <2>1 DEF OrderInv, TxOrder
<1>4. ASSUME NEW i \in Instances, NEW a \in AggTypes
      PROVE  /\ current[i][a] \in Nat /\ current'[i][a] \in Nat /\ current[i][a] <= current'[i][a]
             /\ current'[i][a] = t.seqs[i][a] \/ current'[i][a] = current[i][a]
             /\ Abstract!Follows(t.done, i, a, current[i][a], current'[i][a])
             /\ \A k \in Abstract!OfStream(t.done, i, a) : t.done[k].stmt.seq <= current'[i][a]
  BY CommitOrder
<1> HIDE DEF t
<1>5. Known(events', current')
  BY <1>1, <1>3, <1>4 DEF OrderInv, Known
<1>6. ASSUME NEW i \in Instances, NEW a \in AggTypes
      PROVE  /\ Abstract!Follows(handled', i, a, 0, current'[i][a])
             /\ \A k \in Abstract!OfStream(handled', i, a) : handled'[k].stmt.seq <= current'[i][a]
  <2> DEFINE from == current[i][a]
             to == current'[i][a]
             n == Len(handled)
  <2>1. /\ from \in Nat /\ to \in Nat /\ from <= to /\ Abstract!Follows(t.done, i, a, from, to)
        /\ \A k \in Abstract!OfStream(t.done, i, a) : t.done[k].stmt.seq <= to
    BY <1>4
  <2>2. /\ Abstract!Follows(handled, i, a, 0, from)
        /\ \A k \in Abstract!OfStream(handled, i, a) : handled[k].stmt.seq <= from
    BY DEF OrderInv, OutputInv
  <2>3. Abstract!Follows(handled \o t.done, i, a, 0, to)
    <3> HIDE DEF from, to
    <3> QED  BY <1>1, <1>2, <2>1, <2>2, FollowsConcat
  <2>4. ASSUME NEW k \in Abstract!OfStream(handled \o t.done, i, a)
        PROVE  (handled \o t.done)[k].stmt.seq <= to
    <3> HIDE DEF from, to, n
    <3> DEFINE S == Abstract!OfStream(handled, i, a)
               T == Abstract!OfStream(t.done, i, a)
               c == handled \o t.done
    <3>1. /\ n \in Nat /\ k \in Int /\ (k \in S \/ k - n \in T)
          /\ \A l \in S : c[l] = handled[l]
          /\ \A l \in T : c[n + l] = t.done[l]
      BY <1>1, <2>4, ConcatStream, SMTT(30) DEF n
    <3>2. CASE k \in S
      <4>1. c[k] = handled[k] /\ handled[k].stmt.seq <= from
        BY <2>2, <3>1, <3>2
      <4>2. handled[k] \in Entry(events)
        BY <1>1, <3>2, ElementOfSeq DEF Abstract!OfStream
      <4>3. handled[k].stmt.seq \in Nat
        BY <1>2, <4>2 DEF Entry
      <4> HIDE DEF c
      <4> QED  BY <2>1, <4>1, <4>3 DEF c
    <3>3. CASE k - n \in T
      <4>1. n + (k - n) = k
        BY <3>1
      <4> HIDE DEF c
      <4>2. c[n + (k - n)] = t.done[k - n]
        BY <3>1, <3>3
      <4> QED  BY <2>1, <3>3, <4>1, <4>2 DEF c
    <3> QED  BY <3>1, <3>2, <3>3
  <2> QED  BY <1>1, <2>3, <2>4
<1>7. OutputInv'
  BY <1>6 DEF OutputInv
<1>8. \A v \in Workers : InTx(v)' => TxOrder(events', tx'[v])
  BY <1>1 DEF OrderInv
<1> QED  BY <1>5, <1>7, <1>8 DEF OrderInv

LEMMA OrderStep == ASSUME Serializable PROVE OrderInv /\ [Next]_vars => OrderInv'
<1> SUFFICES ASSUME OrderInv, [Next]_vars PROVE OrderInv'
  OBVIOUS
<1>1. BaseInv /\ BaseInv'
  BY BaseStep DEF OrderInv
<1> QED  BY <1>1, StepCases, OrderQuiet, OrderBegin, OrderExec, OrderCommit

LEMMA OrderCorrect == ASSUME Serializable PROVE Spec => []OrderInv
BY OrderInit, OrderStep, PTL DEF Spec

(***************************************************************************)
(* With isolated transactions the statements of a stream are handled in    *)
(* the order of the stream, each once and none left out in between, by any *)
(* number of subscribers and schedulers, whatever is queued, fetched,      *)
(* retried, lost in a crash or in conflict (the comparison in executeStmts *)
(* with the sequence that Update has locked, and that COMMIT writes).      *)
(***************************************************************************)
THEOREM OrderedHandling == ASSUME Serializable PROVE Spec => []HandledInOrder
<1>1. OrderInv => HandledInOrder
  <2> SUFFICES ASSUME OrderInv, NEW i \in Instances, NEW t \in AggTypes,
                      NEW k \in HandledOf(i, t), NEW l \in HandledOf(i, t), k < l,
                      \A m \in HandledOf(i, t) : m <= k \/ m >= l
               PROVE  handled[l].stmt.prevType = handled[k].stmt.seq
    BY DEF HandledInOrder
  <2>1. HandledOf(i, t) = Abstract!OfStream(handled, i, t)
    BY DEF HandledOf, Abstract!OfStream
  <2>2. Abstract!Follows(handled, i, t, 0, current[i][t])
    BY DEF OrderInv, OutputInv
  <2> QED  BY <2>1, <2>2 DEF Abstract!Follows, Abstract!Neighbours
<1> QED  BY <1>1, OrderCorrect, PTL

(***************************************************************************)
(* With isolated transactions current_sequences names, for every stream    *)
(* and in every state, the last statement that was committed, so nothing   *)
(* that Update reads there is repeated or lost after a rollback.           *)
(***************************************************************************)
THEOREM SequencesAreLast == ASSUME Serializable PROVE Spec => []CurrentIsLast
<1>1. OrderInv => CurrentIsLast
  <2> SUFFICES ASSUME OrderInv, NEW i \in Instances, NEW t \in AggTypes
               PROVE  current[i][t] = MaxSequence({handled[k].stmt : k \in HandledOf(i, t)})
    BY DEF CurrentIsLast
  <2> DEFINE S == HandledOf(i, t)
             rows == {handled[k].stmt : k \in S}
  <2>1. S = Abstract!OfStream(handled, i, t)
    BY DEF HandledOf, Abstract!OfStream
  <2>2. /\ \A k \in S : (\A m \in S : m <= k) => current[i][t] = handled[k].stmt.seq
        /\ S = {} => current[i][t] = 0
        /\ \A k \in S : handled[k].stmt.seq <= current[i][t]
    BY <2>1 DEF OrderInv, OutputInv, Abstract!Follows
  <2>3. /\ handled \in Seq(Entry(events)) /\ Len(handled) \in Nat /\ S \subseteq 1..Len(handled)
        /\ current[i][t] \in Nat
    BY LimitsAssumption DEF OrderInv, BaseInv, Types, SequencesType, HandledOf
  <2>4. \A k \in S : handled[k].stmt.seq \in Nat
    <3>1. \A k \in S : handled[k] \in Entry(events)
      BY <2>3, ElementOfSeq
    <3> QED  BY <3>1 DEF Entry, OrderInv, BaseInv, LogInv, Event
  <2> HIDE DEF S
  <2>5. CASE S = {}
    <3>1. MaxSequence(rows) = 0
      BY <2>5 DEF MaxSequence
    <3> QED  BY <2>2, <2>5, <3>1 DEF S
  <2>6. CASE S # {}
    <3>1. S \in SUBSET Nat /\ \A s \in S : s <= Len(handled)
      BY <2>3
    <3>2. PICK m \in S : \A s \in S : s <= m
      BY <2>3, <2>6, <3>1, LargestNatural
    <3>3. current[i][t] = handled[m].stmt.seq /\ handled[m].stmt \in rows
      BY <2>2, <3>2
    <3>4. \A e \in rows : e.seq \in Nat /\ e.seq <= current[i][t]
      BY <2>2, <2>4
    <3> HIDE DEF rows
    <3>5. /\ \E e \in rows : e.seq = MaxSequence(rows)
          /\ \A e \in rows : e.seq <= MaxSequence(rows)
          /\ MaxSequence(rows) \in Nat
      BY <2>3, <3>3, <3>4, MaxSequenceFacts
    <3>6. MaxSequence(rows) <= current[i][t] /\ current[i][t] <= MaxSequence(rows)
      BY <3>3, <3>4, <3>5
    <3>7. current[i][t] = MaxSequence(rows)
      BY <2>3, <3>5, <3>6
    <3> QED  BY <3>7 DEF rows, S
  <2> QED  BY <2>5, <2>6
<1> QED  BY <1>1, OrderCorrect, PTL

-----------------------------------------------------------------------------
(* The handler implements Consumer                                         *)

LEMMA StepHandles ==
    ASSUME Serializable, OrderInv, [Next]_vars
    PROVE  [Abstract!Handle]_<<current, handled>>
<1>1. CASE Quiet \/ \E w \in Workers : Begins(w) \/ ExecuteStmt(w)
  <2>1. ASSUME NEW w \in Workers, ExecuteStmt(w) PROVE UNCHANGED <<current, handled>>
    BY <2>1, Zenon DEF ExecuteStmt
  <2> QED  BY <1>1, <2>1 DEF Quiet, Begins
<1>2. ASSUME NEW w \in Workers, CommitUpdate(w)
      PROVE  [Abstract!Handle]_<<current, handled>>
  <2> DEFINE d == tx[w].done
             new == SubSeq(handled', Len(handled) + 1, Len(handled'))
             n == Len(handled)
  <2>1. /\ events' = events /\ handled' = handled \o d
        /\ handled \in Seq(Entry(events)) /\ d \in Seq(Entry(events))
    BY <1>2, CommitFrame DEF OrderInv
  <2>2. \A i \in Instances, a \in AggTypes :
           /\ Abstract!Follows(d, i, a, current[i][a], current'[i][a])
           /\ current[i][a] \in Nat
    BY <1>2, CommitOrder
  <2> HIDE DEF d
  <2>3. CASE d = <<>>
    <3>1. handled' = handled
      BY <2>1, <2>3, ConcatEmptySeq
    <3>2. \A i \in Instances, a \in AggTypes : current'[i][a] = current[i][a]
      BY <2>2, <2>3 DEF Abstract!Follows, Abstract!OfStream
    <3>3. current \in SequencesType /\ current' \in SequencesType
      BY BaseStep DEF OrderInv, BaseInv, Types
    <3>4. current' = current
      <4>1. ASSUME NEW i \in Instances PROVE current'[i] = current[i]
        BY <3>2, <3>3 DEF SequencesType
      <4> QED  BY <3>3, <4>1 DEF SequencesType
    <3> QED  BY <3>1, <3>4
  <2>4. CASE d # <<>>
    <3>1. /\ n \in Nat /\ Len(d) \in Nat \ {0} /\ Len(handled') = n + Len(d)
          /\ \A k \in 1..(n + Len(d)) : handled'[k] = IF k <= n THEN handled[k] ELSE d[k - n]
      <4>1. n \in Nat /\ Len(d) \in Nat \ {0}
        BY <2>1, <2>4, EmptySeq
      <4> QED  BY <2>1, <4>1, ConcatProperties
    <3>2. new = d
      <4>1. \A k \in (n + 1)..(n + Len(d)) : handled'[k] \in Entry(events)
        <5>1. handled' \in Seq(Entry(events))
          BY <2>1, ConcatProperties
        <5> QED  BY <3>1, <5>1, ElementOfSeq
      <4>2. n + 1 \in Int /\ n + Len(d) \in Int /\ n + 1 <= n + Len(d)
        BY <3>1
      <4>3. /\ new \in Seq(Entry(events)) /\ Len(new) = n + Len(d) - (n + 1) + 1
            /\ \A k \in 1..(n + Len(d) - (n + 1) + 1) : new[k] = handled'[n + 1 + k - 1]
        BY <3>1, <4>1, <4>2, SubSeqProperties
      <4>4. n + Len(d) - (n + 1) + 1 = Len(d)
        BY <3>1
      <4>5. ASSUME NEW k \in 1..Len(d) PROVE new[k] = d[k]
        <5>1. /\ n + 1 + k - 1 = n + k /\ n + k \in 1..(n + Len(d)) /\ ~(n + k <= n)
              /\ (n + k) - n = k
          BY <3>1
        <5>2. new[k] = handled'[n + k]
          <6> HIDE DEF new, n
          <6> QED  BY <4>3, <4>4, <5>1
        <5> HIDE DEF new, n
        <5> QED  BY <3>1, <5>1, <5>2
      <4> HIDE DEF new
      <4> QED  BY <2>1, <4>3, <4>4, <4>5, SeqEqual
    <3>3. handled' = handled \o new /\ new # <<>>
      BY <2>1, <2>4, <3>2
    <3>4. \A k \in DOMAIN new : new[k].stmt \in events
      <4>1. \A k \in DOMAIN d : d[k] \in Entry(events)
        BY <2>1, ElementOfSeq
      <4> HIDE DEF new
      <4> QED  BY <3>2, <4>1 DEF Entry
    <3>5. \A i \in Instances, a \in AggTypes :
             Abstract!Follows(new, i, a, current[i][a], current'[i][a])
      BY <2>2, <3>2
    <3> QED  BY <3>3, <3>4, <3>5 DEF Abstract!Handle
  <2> QED  BY <2>3, <2>4
<1>3. BaseInv
  BY DEF OrderInv
<1> QED  BY <1>1, <1>2, <1>3, StepCases

(***************************************************************************)
(* With isolated transactions the handler implements the abstract          *)
(* consumer: every commit of Update, of any of the workers, is one step    *)
(* that handles statements along the links of their streams and moves      *)
(* current_sequences to the last of them, and every other step stutters.   *)
(***************************************************************************)
THEOREM HandlerConsumes == ASSUME Serializable PROVE Spec => ImplementsConsumer
<1>1. Init => Abstract!Init
  BY DEF Init, Abstract!Init, NoSequences
<1>2. OrderInv /\ [Next]_vars => [Abstract!Handle]_<<current, handled>>
  BY StepHandles
<1> QED  BY <1>1, <1>2, OrderCorrect, PTL DEF Spec, ImplementsConsumer, Abstract!Spec

-----------------------------------------------------------------------------
(* FailuresInv is inductive                                                *)

LEMMA FailuresInit == Init => FailuresInv
<1> SUFFICES ASSUME Init PROVE FailuresInv
  OBVIOUS
<1>1. /\ handled = <<>> /\ events = {} /\ \A w \in Workers : ~InTx(w)
      /\ \A i \in Instances, s \in 1..SequenceBound : failures[i][s] = 0
  BY DEF Init, LogInit, InTx
<1>2. SkippedAfterFailures
  BY <1>1, EnoughFacts DEF SkippedAfterFailures, Enough
<1> QED  BY <1>1, <1>2 DEF FailuresInv

\* A transaction that is left alone, while the log and the sequences grow.
LEMMA FailedSame ==
    ASSUME NEW w \in Workers, FailedInv(w), tx'[w] = tx[w], pc'[w] = pc[w],
           \A f \in tx[w].failed :
              f.count > Enough /\ f.stmt.seq <= current[f.stmt.inst][f.stmt.atype] =>
                  f.stmt.seq <= current'[f.stmt.inst][f.stmt.atype]
    PROVE  FailedInv(w)'
BY ZenonT(30) DEF FailedInv, Enough

LEMMA FailuresQuiet ==
    ASSUME BaseInv, BaseInv', FailuresInv, Quiet PROVE FailuresInv'
<1>1. SkippedAfterFailures'
  BY DEF FailuresInv, Quiet, SkippedAfterFailures
<1>2. \A i \in Instances, s \in 1..SequenceBound :
         failures'[i][s] > 0 => \E e \in events' : e.inst = i /\ e.seq = s
  BY DEF FailuresInv, Quiet
<1>3. ASSUME NEW e \in events', failures'[e.inst][e.seq] >= Enough'
      PROVE  e.seq <= current'[e.inst][e.atype]
  <2>1. e.inst \in Instances /\ e.seq \in 1..SequenceBound
    BY LimitsAssumption DEF BaseInv, LogInv, Event
  <2>2. failures[e.inst][e.seq] \in Nat /\ failures[e.inst][e.seq] >= Enough
        /\ UNCHANGED current
    BY <1>3, <2>1 DEF BaseInv, Types, Quiet, Enough
  <2>3. PICK f \in events : f.inst = e.inst /\ f.seq = e.seq
    <3>1. failures[e.inst][e.seq] > 0
      BY <2>2, EnoughFacts
    <3> QED  BY <2>1, <3>1 DEF FailuresInv
  <2>4. f = e
    BY <2>3 DEF BaseInv, LogInv, Quiet
  <2> QED  BY <2>2, <2>3, <2>4 DEF FailuresInv
<1>4. \A w \in Workers : InTx(w)' => FailedInv(w)'
  BY FailedSame DEF FailuresInv, Quiet
<1> QED  BY <1>1, <1>2, <1>3, <1>4 DEF FailuresInv

LEMMA FailuresBegin ==
    ASSUME BaseInv, FailuresInv, NEW w \in Workers, Begins(w) PROVE FailuresInv'
<1>1. SkippedAfterFailures'
  BY DEF FailuresInv, Begins, SkippedAfterFailures
<1>2. /\ \A e \in events' : failures'[e.inst][e.seq] >= Enough' => e.seq <= current'[e.inst][e.atype]
      /\ \A i \in Instances, s \in 1..SequenceBound :
            failures'[i][s] > 0 => \E e \in events' : e.inst = i /\ e.seq = s
  BY DEF FailuresInv, Begins, Enough
<1>3. ASSUME NEW v \in Workers, InTx(v)' PROVE FailedInv(v)'
  <2>1. CASE v = w
    BY <2>1 DEF FailedInv, Begins
  <2>2. CASE v # w
    <3>1. tx'[v] = tx[v] /\ pc'[v] = pc[v] /\ UNCHANGED current
      BY <2>2 DEF Begins
    <3>2. FailedInv(v)
      BY SMTT(30), <1>3, <3>1 DEF FailuresInv, InTx
    <3> QED  BY <3>1, <3>2, FailedSame
  <2> QED  BY <2>1, <2>2
<1> QED  BY <1>1, <1>2, <1>3 DEF FailuresInv

\* What FailedInv says of a transaction t in state p, as long as the sequences stay.
FailedTx(t, p) ==
    /\ \A f \in t.failed :
          /\ f.stmt.inst \in t.insts
          /\ t.base[f.stmt.inst][f.stmt.atype] < f.stmt.seq
          /\ f.count > Enough => f.stmt.seq <= current[f.stmt.inst][f.stmt.atype]
          /\ \/ p = "commit" /\ f.count < Enough
             \/ f.count >= Enough /\ f.stmt.seq <= t.seqs[f.stmt.inst][f.stmt.atype]
    /\ \A f, g \in t.failed : f.stmt = g.stmt => f = g
    /\ \A k \in DOMAIN t.done :
          t.done[k].how = "skipped" =>
              \E f \in t.failed : f.stmt = t.done[k].stmt /\ f.count >= Enough

\* A statement is handled, after the failures in u.failed.
LEMMA DoneFailed ==
    ASSUME LogInv, NEW u \in TxType(events), NEW stmt \in events,
           u.seqs[stmt.inst][stmt.atype] < stmt.seq,
           NEW how \in {"executed", "skipped"}, NEW d, IsDone(events, u, stmt, how, d),
           \A f \in u.failed :
              /\ f.stmt.inst \in u.insts
              /\ u.base[f.stmt.inst][f.stmt.atype] < f.stmt.seq
              /\ f.count > Enough => f.stmt.seq <= current[f.stmt.inst][f.stmt.atype]
              /\ f.count >= Enough
              /\ f.stmt = stmt \/ f.stmt.seq <= u.seqs[f.stmt.inst][f.stmt.atype],
           \A f, g \in u.failed : f.stmt = g.stmt => f = g,
           \A k \in DOMAIN u.done :
              u.done[k].how = "skipped" =>
                  \E f \in u.failed : f.stmt = u.done[k].stmt /\ f.count >= Enough,
           how = "skipped" => \E f \in u.failed : f.stmt = stmt /\ f.count >= Enough,
           NEW p
    PROVE  FailedTx(d, p)
<1> DEFINE h == [stmt |-> stmt, how |-> how]
<1>1. /\ d.insts = u.insts /\ d.base = u.base /\ d.failed = u.failed
      /\ d.seqs = [u.seqs EXCEPT ![stmt.inst][stmt.atype] = stmt.seq]
      /\ d.done = Append(u.done, h)
  BY DEF IsDone
<1>2. /\ u.seqs \in SequencesType /\ u.done \in Seq(Entry(events))
      /\ u.failed \subseteq Failure(events)
  BY DEF TxType
<1>3. \A e \in events : e.inst \in Instances /\ e.atype \in AggTypes /\ e.seq \in Nat
  BY DEF LogInv, Event
<1>4. \A e \in events :
         d.seqs[e.inst][e.atype] = IF e.inst = stmt.inst /\ e.atype = stmt.atype
                                   THEN stmt.seq ELSE u.seqs[e.inst][e.atype]
  BY <1>1, <1>2, <1>3 DEF SequencesType
<1>5. ASSUME NEW f \in u.failed
      PROVE  f.stmt.seq <= d.seqs[f.stmt.inst][f.stmt.atype]
  <2>1. f.stmt \in events
    BY <1>2 DEF Failure
  <2>2. u.seqs[f.stmt.inst][f.stmt.atype] \in Nat
    BY <1>2, <1>3, <2>1, LimitsAssumption DEF SequencesType
  <2> QED  BY <1>3, <1>4, <2>1, <2>2
<1>6. ASSUME NEW k \in DOMAIN d.done, d.done[k].how = "skipped"
      PROVE  \E f \in d.failed : f.stmt = d.done[k].stmt /\ f.count >= Enough
  <2>1. h \in Entry(events)
    BY DEF Entry
  <2>2. h.stmt = stmt /\ h.how = how
    OBVIOUS
  <2> HIDE DEF h
  <2>3. /\ Len(u.done) \in Nat /\ DOMAIN d.done = 1..(Len(u.done) + 1)
        /\ DOMAIN u.done = 1..Len(u.done)
        /\ \A l \in 1..Len(u.done) : d.done[l] = u.done[l]
        /\ d.done[Len(u.done) + 1] = h
    BY <1>1, <1>2, <2>1, AppendProperties
  <2>4. CASE k = Len(u.done) + 1
    BY <1>1, <1>6, <2>2, <2>3, <2>4
  <2>5. CASE k # Len(u.done) + 1
    <3>1. k \in 1..Len(u.done)
      BY <2>3, <2>5
    <3> QED  BY <1>1, <1>6, <2>3, <3>1
  <2> QED  BY <2>4, <2>5
<1> QED  BY <1>1, <1>5, <1>6 DEF FailedTx

LEMMA FailuresExec ==
    ASSUME OrderInv, FailuresInv, NEW w \in Workers, ExecuteStmt(w)
    PROVE  FailuresInv'
<1> DEFINE t == tx[w]
           stmt == t.list[t.next]
           seq == t.seqs[stmt.inst][stmt.atype]
           count == FailureCount(stmt)
           u == [t EXCEPT !.failed = @ \cup {[stmt |-> stmt, count |-> count]}]
           g == [stmt |-> stmt, count |-> count]
<1>1. /\ ExecCases(w, stmt, seq, count)
      /\ pc[w] = "exec" /\ t \in TxType(events) /\ t.next \in 1..Len(t.list)
      /\ stmt \in events /\ stmt.inst \in t.insts /\ stmt.inst \in Instances
      /\ stmt.atype \in AggTypes /\ stmt.seq \in 1..SequenceBound /\ count \in Nat \ {0}
      /\ UNCHANGED <<events, current, failures, handled, unsent, queue, index, retry, faults>>
  BY Zenon, ExecFacts DEF OrderInv
<1>2. TxOrder(events, t) /\ FailedInv(w) /\ LogInv
  BY Zenon, <1>1 DEF OrderInv, BaseInv, FailuresInv, InTx
<1>3. /\ \A f \in t.failed :
            /\ f.stmt.inst \in t.insts
            /\ t.base[f.stmt.inst][f.stmt.atype] < f.stmt.seq
            /\ f.count > Enough => f.stmt.seq <= current[f.stmt.inst][f.stmt.atype]
            /\ f.count >= Enough /\ f.stmt.seq <= t.seqs[f.stmt.inst][f.stmt.atype]
      /\ \A f, x \in t.failed : f.stmt = x.stmt => f = x
      /\ \A k \in DOMAIN t.done :
            t.done[k].how = "skipped" =>
                \E f \in t.failed : f.stmt = t.done[k].stmt /\ f.count >= Enough
  BY Zenon, <1>1, <1>2 DEF FailedInv
<1>4. /\ u \in TxType(events) /\ u.insts = t.insts /\ u.base = t.base /\ u.seqs = t.seqs
      /\ u.done = t.done /\ u.next = t.next /\ u.failed = t.failed \cup {g}
  <2>1. g \in Failure(events)
    BY Zenon, <1>1 DEF Failure
  <2> DEFINE fs == t.failed \cup {g}
  <2>2. fs \subseteq Failure(events) /\ u = [t EXCEPT !.failed = fs]
    BY Zenon, <1>1, <2>1 DEF TxType
  <2> HIDE DEF fs, stmt, u, t, g
  <2>3. /\ u \in TxType(events) /\ u.insts = t.insts /\ u.base = t.base /\ u.seqs = t.seqs
        /\ u.done = t.done /\ u.next = t.next /\ u.failed = fs
    BY ZenonT(30), <1>1, <2>2 DEF TxType
  <2> QED  BY <2>3 DEF fs
<1>5. g.stmt = stmt /\ g.count = count
  OBVIOUS
<1>6. count > Enough => stmt.seq <= current[stmt.inst][stmt.atype]
  <2>1. failures[stmt.inst][stmt.seq] \in Nat /\ count = failures[stmt.inst][stmt.seq] + 1
    BY Zenon, <1>1 DEF OrderInv, BaseInv, Types, FailureCount
  <2>2. count > Enough => failures[stmt.inst][stmt.seq] >= Enough
    <3> HIDE DEF count
    <3> QED  BY <2>1, EnoughFacts
  <2> QED  BY Zenon, <1>1, <2>2 DEF FailuresInv
<1> HIDE DEF t, stmt, seq, count, u, g
<1>7. TooManyFailures(count) <=> count >= Enough
  BY <1>1, EnoughFacts
<1>8. ASSUME ~AlreadyHandled(stmt, seq), ~GapBefore(stmt, seq)
      PROVE  /\ t.base[stmt.inst][stmt.atype] < stmt.seq
             /\ t.seqs[stmt.inst][stmt.atype] < stmt.seq
             /\ \A f \in t.failed : f.stmt # stmt
  <2>1. t.seqs \in SequencesType /\ t.base \in SequencesType /\ t.failed \subseteq Failure(events)
    BY <1>1 DEF TxType
  <2>2. t.seqs[stmt.inst][stmt.atype] \in Nat /\ t.base[stmt.inst][stmt.atype] \in Nat
    BY <1>1, <2>1, LimitsAssumption DEF SequencesType
  <2>3. t.base[stmt.inst][stmt.atype] <= t.seqs[stmt.inst][stmt.atype]
    BY <1>1, <1>2 DEF TxOrder
  <2>4. t.seqs[stmt.inst][stmt.atype] < stmt.seq
    <3>1. Known(events, t.seqs)
      BY <1>2 DEF TxOrder
    <3> QED  BY <1>1, <1>2, <1>8, <2>1, <3>1, StmtFollows DEF seq
  <2>5. t.base[stmt.inst][stmt.atype] < stmt.seq
    BY <1>1, <2>2, <2>3, <2>4
  <2>6. ASSUME NEW f \in t.failed, f.stmt = stmt PROVE FALSE
    BY <1>1, <1>3, <2>2, <2>4, <2>6
  <2> QED  BY <2>4, <2>5, <2>6
<1>9. SUFFICES ASSUME NEW v, tx' = [tx EXCEPT ![w] = v], NEW p, pc' = [pc EXCEPT ![w] = p],
                      FailedTx(v, p)
               PROVE  FailuresInv'
  <2>1. CASE Continue(w, [t EXCEPT !.list = RemoveAt(@, t.next)])
    <3> DEFINE r == RemoveAt(t.list, t.next)
               v == [t EXCEPT !.list = r]
    <3>1. v = [t EXCEPT !.list = RemoveAt(@, t.next)]
      OBVIOUS
    <3> HIDE DEF r
    <3>2. v.insts = t.insts /\ v.base = t.base /\ v.seqs = t.seqs /\ v.done = t.done
          /\ v.failed = t.failed
      BY <1>1 DEF TxType
    <3> HIDE DEF v
    <3>3. \A p : FailedTx(v, p)
      BY <1>3, <3>2 DEF FailedTx
    <3>4. \E p : tx' = [tx EXCEPT ![w] = v] /\ pc' = [pc EXCEPT ![w] = p]
      BY <2>1, <3>1 DEF Continue
    <3> QED  BY <1>9, <3>3, <3>4
  <2>2. CASE Break(w, t)
    <3>1. FailedTx(t, "commit")
      BY <1>3 DEF FailedTx
    <3> QED  BY <1>9, <2>2, <3>1 DEF Break
  <2>3. CASE Continue(w, Done(t, stmt, "executed")) /\ ~AlreadyHandled(stmt, seq) /\ ~GapBefore(stmt, seq)
    <3> DEFINE d == Done(t, stmt, "executed")
    <3>1. stmt.seq \in 0..SequenceBound
      BY <1>1
    <3>2. IsDone(events, t, stmt, "executed", d)
      BY SMTT(30), <1>1, <3>1, DoneFacts
    <3> HIDE DEF d
    <3>3. \A p : FailedTx(d, p)
      BY <1>1, <1>2, <1>3, <1>8, <2>3, <3>2, DoneFailed
    <3>4. \E p : tx' = [tx EXCEPT ![w] = d] /\ pc' = [pc EXCEPT ![w] = p]
      BY <2>3 DEF Continue, d
    <3> QED  BY <1>9, <3>3, <3>4
  <2>4. CASE /\ Continue(w, Done(u, stmt, "skipped")) /\ TooManyFailures(count)
             /\ ~AlreadyHandled(stmt, seq) /\ ~GapBefore(stmt, seq)
    <3> DEFINE d == Done(u, stmt, "skipped")
    <3>1. stmt.seq \in 0..SequenceBound
      BY <1>1
    <3>2. IsDone(events, u, stmt, "skipped", d)
      BY <1>1, <1>4, <3>1, DoneFacts
    <3> HIDE DEF d
    <3>3. /\ u.seqs[stmt.inst][stmt.atype] < stmt.seq
          /\ \A f \in u.failed :
              /\ f.stmt.inst \in u.insts
              /\ u.base[f.stmt.inst][f.stmt.atype] < f.stmt.seq
              /\ f.count > Enough => f.stmt.seq <= current[f.stmt.inst][f.stmt.atype]
              /\ f.count >= Enough
              /\ f.stmt = stmt \/ f.stmt.seq <= u.seqs[f.stmt.inst][f.stmt.atype]
      BY <1>1, <1>3, <1>4, <1>5, <1>6, <1>7, <1>8, <2>4
    <3>4. \A f, x \in u.failed : f.stmt = x.stmt => f = x
      BY <1>3, <1>4, <1>5, <1>8, <2>4
    <3>5. /\ \A k \in DOMAIN u.done : u.done[k].how = "skipped" =>
                  \E f \in u.failed : f.stmt = u.done[k].stmt /\ f.count >= Enough
          /\ \E f \in u.failed : f.stmt = stmt /\ f.count >= Enough
      BY <1>3, <1>4, <1>5, <1>7, <2>4
    <3>6. \A p : FailedTx(d, p)
      BY <1>1, <1>2, <1>4, <3>2, <3>3, <3>4, <3>5, DoneFailed
    <3>7. \E p : tx' = [tx EXCEPT ![w] = d] /\ pc' = [pc EXCEPT ![w] = p]
      BY <2>4 DEF Continue, d
    <3> QED  BY <1>9, <3>6, <3>7
  <2>5. CASE Break(w, u) /\ ~TooManyFailures(count) /\ ~AlreadyHandled(stmt, seq) /\ ~GapBefore(stmt, seq)
    <3>1. count < Enough
      BY <1>1, <1>7, <2>5, EnoughFacts
    <3>2. \A f \in u.failed :
              /\ f.stmt.inst \in u.insts
              /\ u.base[f.stmt.inst][f.stmt.atype] < f.stmt.seq
              /\ f.count > Enough => f.stmt.seq <= current[f.stmt.inst][f.stmt.atype]
              /\ \/ f.count < Enough
                 \/ f.count >= Enough /\ f.stmt.seq <= u.seqs[f.stmt.inst][f.stmt.atype]
      BY <1>1, <1>3, <1>4, <1>5, <1>6, <1>8, <2>5, <3>1
    <3>3. \A f, x \in u.failed : f.stmt = x.stmt => f = x
      BY <1>3, <1>4, <1>5, <1>8, <2>5
    <3>4. \A k \in DOMAIN u.done : u.done[k].how = "skipped" =>
                  \E f \in u.failed : f.stmt = u.done[k].stmt /\ f.count >= Enough
      BY <1>3, <1>4
    <3>5. FailedTx(u, "commit")
      BY <3>2, <3>3, <3>4 DEF FailedTx
    <3> QED  BY <1>9, <2>5, <3>5 DEF Break
  <2>6. \/ Continue(w, [t EXCEPT !.list = RemoveAt(@, t.next)])
        \/ Break(w, t)
        \/ /\ ~AlreadyHandled(stmt, seq) /\ ~GapBefore(stmt, seq)
           /\ \/ Continue(w, Done(t, stmt, "executed"))
              \/ TooManyFailures(count) /\ Continue(w, Done(u, stmt, "skipped"))
              \/ ~TooManyFailures(count) /\ Break(w, u)
    BY <1>1, Zenon DEF ExecCases, t, u
  <2> QED  BY <2>1, <2>2, <2>3, <2>4, <2>5, <2>6
<1>10. /\ SkippedAfterFailures'
       /\ \A e \in events' : failures'[e.inst][e.seq] >= Enough' => e.seq <= current'[e.inst][e.atype]
       /\ \A i \in Instances, s \in 1..SequenceBound :
            failures'[i][s] > 0 => \E e \in events' : e.inst = i /\ e.seq = s
  BY ZenonT(30), <1>1 DEF FailuresInv, SkippedAfterFailures, Enough
<1>11. ASSUME NEW x \in Workers, InTx(x)' PROVE FailedInv(x)'
  <2>1. CASE x = w
    <3>1. tx'[w] = v /\ pc'[w] = p /\ UNCHANGED current
      BY <1>1, <1>9 DEF OrderInv, BaseInv, Types
    <3>2. FailedTx(v, pc'[w])
      BY <1>9, <3>1
    <3>3. FailedInv(w)'
      <4>1. ASSUME NEW f \in v.failed
            PROVE  /\ f.stmt.inst \in v.insts
                   /\ v.base[f.stmt.inst][f.stmt.atype] < f.stmt.seq
                   /\ f.count > Enough => f.stmt.seq <= current'[f.stmt.inst][f.stmt.atype]
                   /\ \/ pc'[w] = "commit" /\ f.count < Enough
                      \/ f.count >= Enough /\ f.stmt.seq <= v.seqs[f.stmt.inst][f.stmt.atype]
        BY <3>1, <3>2 DEF FailedTx
      <4>2. /\ \A f, y \in v.failed : f.stmt = y.stmt => f = y
            /\ \A k \in DOMAIN v.done :
                  v.done[k].how = "skipped" =>
                      \E f \in v.failed : f.stmt = v.done[k].stmt /\ f.count >= Enough
        BY <3>2 DEF FailedTx
      <4> QED  BY <3>1, <4>1, <4>2 DEF FailedInv, Enough
    <3> QED  BY <2>1, <3>3
  <2>2. CASE x # w
    <3>1. tx'[x] = tx[x] /\ pc'[x] = pc[x]
      BY <1>9, <2>2 DEF OrderInv, BaseInv, Types
    <3>2. FailedInv(x)
      BY <1>11, <3>1 DEF InTx, FailuresInv
    <3> QED  BY <1>1, <3>1, <3>2, FailedSame
  <2> QED  BY <2>1, <2>2
<1> QED  BY <1>10, <1>11 DEF FailuresInv

LEMMA FailuresCommit ==
    ASSUME Serializable, OrderInv, FailuresInv, NEW w \in Workers, CommitUpdate(w)
    PROVE  FailuresInv'
<1> DEFINE t == tx[w]
<1>1. /\ pc[w] = "commit" /\ failures' = UpdatedFailures(t)
      /\ \A f \in t.failed : failures[f.stmt.inst][f.stmt.seq] = f.count - 1
  BY DEF CommitUpdate
<1>2. /\ events' = events /\ handled' = handled \o t.done
      /\ handled \in Seq(Entry(events)) /\ t.done \in Seq(Entry(events))
      /\ \A v \in Workers : InTx(v)' => v # w /\ InTx(v) /\ tx'[v] = tx[v] /\ pc'[v] = pc[v]
  BY CommitFrame DEF OrderInv
<1>3. TxOrder(events, t) /\ FailedInv(w) /\ LogInv /\ t \in TxType(events)
  BY <1>1 DEF OrderInv, BaseInv, Types, FailuresInv, InTx
<1>4. t.failed \subseteq Failure(events)
  BY <1>3 DEF TxType
<1>5. \A i \in Instances, a \in AggTypes :
         /\ current[i][a] \in Nat /\ current'[i][a] \in Nat /\ current[i][a] <= current'[i][a]
         /\ i \in t.insts => current[i][a] = t.base[i][a] /\ current'[i][a] = t.seqs[i][a]
  BY CommitOrder
<1>6. Enough \in Nat \ {0} /\ Enough' = Enough
  BY EnoughFacts DEF Enough
<1>7. \A e \in events : /\ e.inst \in Instances /\ e.atype \in AggTypes
                        /\ e.seq \in Nat \ {0} /\ e.seq \in 1..SequenceBound
                        /\ failures[e.inst][e.seq] \in Nat
  <2>1. \A e \in events : /\ e.inst \in Instances /\ e.atype \in AggTypes
                          /\ e.seq \in Nat \ {0} /\ e.seq \in 1..SequenceBound
    BY <1>3, LimitsAssumption DEF LogInv, Event
  <2> QED  BY <2>1 DEF OrderInv, BaseInv, Types
<1>8. /\ \A f \in t.failed :
              /\ f.stmt.inst \in t.insts
              /\ t.base[f.stmt.inst][f.stmt.atype] < f.stmt.seq
              /\ f.count > Enough => f.stmt.seq <= current[f.stmt.inst][f.stmt.atype]
              /\ f.count >= Enough => f.stmt.seq <= t.seqs[f.stmt.inst][f.stmt.atype]
      /\ \A f, g \in t.failed : f.stmt = g.stmt => f = g
      /\ \A k \in DOMAIN t.done : t.done[k].how = "skipped" =>
              \E f \in t.failed : f.stmt = t.done[k].stmt /\ f.count >= Enough
  <2>1. \A f \in t.failed : f.count \in Nat
    BY <1>4 DEF Failure
  <2> QED  BY <1>3, <1>6, <2>1 DEF FailedInv
<1> HIDE DEF t
\* The count COMMIT writes is at most the last one: who has counted further has read sequences
\* that another transaction has moved on, and COMMIT refuses it.
<1>9. ASSUME NEW f \in t.failed
      PROVE  /\ f.stmt \in events /\ f.count \in Nat /\ f.count <= Enough
             /\ failures[f.stmt.inst][f.stmt.seq] < Enough
             /\ f.count >= Enough => f.stmt.seq <= current'[f.stmt.inst][f.stmt.atype]
  <2>1. f.stmt \in events /\ f.count \in Nat \ {0}
    BY <1>4 DEF Failure
  <2>2. /\ current[f.stmt.inst][f.stmt.atype] = t.base[f.stmt.inst][f.stmt.atype]
        /\ current'[f.stmt.inst][f.stmt.atype] = t.seqs[f.stmt.inst][f.stmt.atype]
        /\ current[f.stmt.inst][f.stmt.atype] \in Nat
    BY <1>5, <1>7, <1>8, <2>1
  <2>3. f.count <= Enough
    BY <1>6, <1>7, <1>8, <2>1, <2>2
  <2>4. failures[f.stmt.inst][f.stmt.seq] = f.count - 1
    BY <1>1
  <2>5. failures[f.stmt.inst][f.stmt.seq] < Enough
    BY <1>6, <2>1, <2>3, <2>4
  <2> QED  BY <1>8, <2>1, <2>2, <2>3, <2>5
<1>10. ASSUME NEW f \in t.failed
       PROVE  failures'[f.stmt.inst][f.stmt.seq] = f.count
  <2> DEFINE i == f.stmt.inst
             s == f.stmt.seq
             g == CHOOSE x \in t.failed : x.stmt.inst = i /\ x.stmt.seq = s
  <2>1. g \in t.failed /\ g.stmt.inst = i /\ g.stmt.seq = s
    BY <1>10
  <2>2. failures'[i][s] = g.count
    BY <1>1, <1>7, <1>9, <1>10 DEF UpdatedFailures
  <2> HIDE DEF g
  <2>3. g.stmt = f.stmt
    BY <1>3, <1>9, <2>1 DEF LogInv
  <2>4. g = f
    BY <1>8, <2>1, <2>3
  <2> QED  BY <2>2, <2>4
<1>11. ASSUME NEW i \in Instances, NEW s \in 1..SequenceBound
       PROVE  \/ failures'[i][s] = failures[i][s]
              \/ \E f \in t.failed : f.stmt.inst = i /\ f.stmt.seq = s
  BY <1>1 DEF UpdatedFailures
<1>12. ASSUME NEW k \in DOMAIN handled', handled'[k].how = "skipped"
       PROVE  failures'[handled'[k].stmt.inst][handled'[k].stmt.seq] = Enough
  <2> DEFINE n == Len(handled)
             h == handled'[k]
  <2>1. /\ n \in Nat /\ Len(t.done) \in Nat /\ DOMAIN handled' = 1..(n + Len(t.done))
        /\ DOMAIN handled = 1..n /\ DOMAIN t.done = 1..Len(t.done)
    BY <1>2, ConcatProperties, LenProperties
  <2>2. h = IF k <= n THEN handled[k] ELSE t.done[k - n]
    BY <1>2, <2>1, ConcatProperties
  <2> HIDE DEF n, h
  <2>3. CASE k <= n
    <3>1. k \in DOMAIN handled /\ h = handled[k]
      BY <2>1, <2>2, <2>3
    <3>2. h \in Entry(events)
      BY <1>2, <3>1, ElementOfSeq
    <3>3. h.stmt \in events
      BY <3>2 DEF Entry
    <3>4. failures[h.stmt.inst][h.stmt.seq] = Enough
      BY <1>12, <3>1 DEF FailuresInv, SkippedAfterFailures, Enough, h
    <3>5. ~\E f \in t.failed : f.stmt.inst = h.stmt.inst /\ f.stmt.seq = h.stmt.seq
      BY <1>6, <1>9, <3>4
    <3>6. failures'[h.stmt.inst][h.stmt.seq] = failures[h.stmt.inst][h.stmt.seq]
      BY <1>7, <1>11, <3>3, <3>5
    <3> QED  BY <3>4, <3>6 DEF h
  <2>4. CASE ~(k <= n)
    <3>1. k - n \in DOMAIN t.done /\ h = t.done[k - n]
      BY <2>1, <2>2, <2>4
    <3>2. PICK f \in t.failed : f.stmt = h.stmt /\ f.count >= Enough
      BY <1>8, <1>12, <3>1 DEF h
    <3>3. f.count = Enough
      BY <1>6, <1>9, <3>2
    <3> QED  BY <1>10, <3>2, <3>3 DEF h
  <2> QED  BY <2>3, <2>4
<1>13. ASSUME NEW i \in Instances, NEW s \in 1..SequenceBound PROVE failures'[i][s] <= Enough
  <2>1. failures[i][s] <= Enough
    BY DEF FailuresInv, SkippedAfterFailures, Enough
  <2> QED  BY <1>9, <1>10, <1>11, <2>1
<1>14. SkippedAfterFailures'
  BY <1>12, <1>13 DEF SkippedAfterFailures, Enough
<1>15. ASSUME NEW e \in events', failures'[e.inst][e.seq] >= Enough'
       PROVE  e.seq <= current'[e.inst][e.atype]
  <2>1. e \in events /\ e.inst \in Instances /\ e.seq \in 1..SequenceBound /\ e.atype \in AggTypes
    BY <1>2, <1>7
  <2>2. CASE \E f \in t.failed : f.stmt.inst = e.inst /\ f.stmt.seq = e.seq
    <3>1. PICK f \in t.failed : f.stmt.inst = e.inst /\ f.stmt.seq = e.seq
      BY <2>2
    <3>2. f.stmt = e
      BY <1>3, <1>9, <2>1, <3>1 DEF LogInv
    <3>3. f.count >= Enough
      BY <1>6, <1>10, <1>15, <3>2
    <3> QED  BY <1>9, <3>2, <3>3
  <2>3. CASE ~\E f \in t.failed : f.stmt.inst = e.inst /\ f.stmt.seq = e.seq
    <3>1. failures[e.inst][e.seq] >= Enough
      BY <1>6, <1>11, <1>15, <2>1, <2>3
    <3>2. e.seq <= current[e.inst][e.atype]
      BY <2>1, <3>1 DEF FailuresInv
    <3> QED  BY <1>5, <1>7, <2>1, <3>2
  <2> QED  BY <2>2, <2>3
<1>16. ASSUME NEW i \in Instances, NEW s \in 1..SequenceBound, failures'[i][s] > 0
       PROVE  \E e \in events' : e.inst = i /\ e.seq = s
  BY <1>2, <1>9, <1>11, <1>16 DEF FailuresInv
<1>17. ASSUME NEW v \in Workers, InTx(v)' PROVE FailedInv(v)'
  <2>1. tx'[v] = tx[v] /\ pc'[v] = pc[v] /\ FailedInv(v)
    BY <1>2, <1>17 DEF FailuresInv
  <2>2. \A f \in tx[v].failed : f.stmt \in events
    BY SMTT(30) DEF OrderInv, BaseInv, Types, TxType, Failure
  <2>3. \A f \in tx[v].failed :
           f.stmt.seq <= current[f.stmt.inst][f.stmt.atype] =>
              f.stmt.seq <= current'[f.stmt.inst][f.stmt.atype]
    BY <1>5, <1>7, <2>2
  <2> QED  BY <2>1, <2>3, FailedSame
<1> QED  BY <1>14, <1>15, <1>16, <1>17 DEF FailuresInv

LEMMA FailuresStep ==
    ASSUME Serializable PROVE OrderInv /\ FailuresInv /\ [Next]_vars => FailuresInv'
<1> SUFFICES ASSUME OrderInv, FailuresInv, [Next]_vars PROVE FailuresInv'
  OBVIOUS
<1>1. BaseInv /\ BaseInv'
  BY BaseStep DEF OrderInv
<1> QED  BY <1>1, StepCases, FailuresQuiet, FailuresBegin, FailuresExec, FailuresCommit

(***************************************************************************)
(* With isolated transactions a statement is skipped only after it has     *)
(* failed MaxFailureCount times (once, if that is 0), however the failures *)
(* are spread over goroutines, retries and restarts, and failed_events     *)
(* never counts beyond that: two goroutines that fail on the same          *)
(* statement do not count one failure for two (handleFailedStmt).          *)
(***************************************************************************)
THEOREM FailuresCounted == ASSUME Serializable PROVE Spec => []SkippedAfterFailures
<1>1. FailuresInv => SkippedAfterFailures
  BY DEF FailuresInv
<1> QED  BY <1>1, FailuresInit, FailuresStep, OrderCorrect, PTL DEF Spec
=============================================================================
