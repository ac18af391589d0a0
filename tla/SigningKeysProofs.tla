-------------------------- MODULE SigningKeysProofs --------------------------
(***************************************************************************)
(* Proofs about SigningKeys: the types, and that two storages never        *)
(* generate a key for the same need when the lease lasts long enough.      *)
(*                                                                         *)
(* KeysFromOneStorage is not inductive.  KeysInv adds what the lease is worth   *)
(* at every stage of a request: a request about to generate holds it, an   *)
(* event the projection has not handled still has the lease it was made    *)
(* under, and a request that has found no key but could find one now       *)
(* cannot get the lease before its try has to end.                         *)
(***************************************************************************)
EXTENDS SigningKeys, SequenceTheorems, TLAPS

lease == locks[Instance]

\* A request holds the lease from LockKey to its push.
LeaseHeld ==
    \A r \in Requests : pc[r] = "generate" =>
        lease.locker = Storage[r] /\ lease.left >= LockDuration - spent[r]

\* What the projection has not handled is under the lease it was generated with, or its worker
\* is gone and the lease runs on.
Sheltered ==
    projected < Len(log) =>
        /\ lease.left + lag >= LockDuration - MaxSpent
        /\ \A k \in (projected + 1)..Len(log) : lease.locker \in {log[k].by, NoStorage}

\* A request will not get the lease in this try.
Blocked(r) == lease.locker # Storage[r] /\ lease.left + spent[r] > MaxSpent

Own(r) == \A k \in Active(Usage[r], Len(log)) : log[k].by = Storage[r]

\* Keys of another storage that a request does not know of keep it from the lease.
StaleReadsBlocked ==
    \A r \in Requests :
        /\ pc[r] \in {"sequence", "ensure", "lock"} => Own(r) \/ Blocked(r)
        /\ pc[r] = "generate" => Own(r)

OneBy == \A u \in Usages : \A k, l \in Active(u, Len(log)) : log[k].by = log[l].by

LongLease == LockDuration > 2 * MaxSpent + MaxLag

Keys == LeaseHeld /\ Sheltered /\ StaleReadsBlocked /\ OneBy

KeysInv == TypeOK /\ (LongLease => Keys)

-----------------------------------------------------------------------------
(* The lease                                                               *)

Lease == [locker : Storages \cup {NoStorage}, left : 0..LockDuration]

LEMMA LeaseType == TypeOK => lease \in Lease /\ locks = [r \in {Instance} |-> lease]
BY DEF TypeOK, lease, Lease, Lock!Locks

\* The statement that locks gets the lease, or leaves it to who has it.
LEMMA RenewLease ==
    ASSUME TypeOK, NEW w \in Storages, Lock!RenewLock(w, {Instance})
    PROVE  /\ locks' \in Lock!Locks
           /\ IF Lock!Granted(w, {Instance}) # {}
              THEN lease' = [locker |-> w, left |-> LockDuration]
              ELSE lease' = lease /\ lease.locker # w /\ lease.left # 0
<1> DEFINE row == [locker |-> w, left |-> LockDuration]
<1>1. locks' = [r \in {Instance} |-> IF r \in Lock!Granted(w, {Instance})
                                     THEN Lock!Row(w, LockDuration) ELSE locks[r]]
  BY DEF Lock!RenewLock, Lock!LockStatement
<1>2. Lock!Row(w, LockDuration) = row
  BY SigningKeysAssumption DEF Lock!Row
<1>3. row \in Lease /\ lease \in Lease
  BY LeaseType, SigningKeysAssumption DEF Lease
<1>4. lease' = IF Instance \in Lock!Granted(w, {Instance}) THEN row ELSE lease
  BY <1>1, <1>2 DEF lease
<1>5. locks' \in Lock!Locks
  BY <1>1, <1>2, <1>3 DEF Lock!Locks, Lease, lease
<1>6. /\ Lock!Granted(w, {Instance}) # {} <=> Instance \in Lock!Granted(w, {Instance})
      /\ Instance \in Lock!Granted(w, {Instance}) <=> lease.locker = w \/ lease.left = 0
  BY DEF Lock!Granted, lease
<1> QED  BY <1>4, <1>5, <1>6

\* A unit of time.
LEMMA ElapseLease ==
    ASSUME TypeOK, Lock!Elapse
    PROVE  /\ locks' \in Lock!Locks
           /\ lease'.left = IF lease.left = 0 THEN 0 ELSE lease.left - 1
           /\ lease'.locker = IF lease'.left = 0 THEN NoStorage ELSE lease.locker
<1> DEFINE left == IF lease.left = 0 THEN 0 ELSE lease.left - 1
           row == [locker |-> IF left = 0 THEN NoStorage ELSE lease.locker, left |-> left]
<1>1. locks' = [r \in {Instance} |->
                  Lock!Row(locks[r].locker, IF locks[r].left = 0 THEN 0 ELSE locks[r].left - 1)]
  BY DEF Lock!Elapse
<1>2. lease' = row
  BY <1>1 DEF Lock!Row, lease
<1>3. lease \in Lease
  BY LeaseType
<1>4. left \in 0..LockDuration
  BY <1>3, SigningKeysAssumption DEF Lease
<1>5. row \in Lease
  BY <1>3, <1>4 DEF Lease
<1>6. locks' \in Lock!Locks
  BY <1>1, <1>2, <1>5 DEF Lock!Locks, Lease, lease
<1> QED  BY <1>2, <1>6

\* A worker that is gone leaves the lease running.
LEMMA AbandonLease ==
    ASSUME TypeOK, NEW w \in Storages, Lock!Abandon(w)
    PROVE  /\ locks' \in Lock!Locks
           /\ lease'.left = lease.left
           /\ lease'.locker = IF lease.locker = w THEN NoStorage ELSE lease.locker
<1> DEFINE row == [lease EXCEPT !.locker = NoStorage]
<1>1. locks' = [r \in {Instance} |-> IF locks[r].locker = w
                                     THEN [locks[r] EXCEPT !.locker = NoStorage] ELSE locks[r]]
  BY DEF Lock!Abandon
<1>2. lease' = IF lease.locker = w THEN row ELSE lease
  BY <1>1 DEF lease
<1>3. lease \in Lease
  BY LeaseType
<1>4. row \in Lease /\ row.left = lease.left /\ row.locker = NoStorage
  BY <1>3 DEF Lease
<1>5. locks' \in Lock!Locks
  BY <1>1, <1>2, <1>3, <1>4 DEF Lock!Locks, Lease, lease
<1> QED  BY <1>2, <1>4, <1>5

-----------------------------------------------------------------------------
(* Types                                                                   *)

Stages == {"idle", "sequence", "ensure", "lock", "generate"}

LEMMA TypeInit == Init => TypeOK
<1> SUFFICES ASSUME Init PROVE TypeOK
  OBVIOUS
<1>1. locks \in Lock!Locks
  <2>1. Lock!Row(NoStorage, 0) \in Lease
    BY SigningKeysAssumption DEF Lock!Row, Lease
  <2> QED  BY <2>1 DEF Init, Lock!LocksInit, Lock!Locks, Lease
<1>2. log \in Seq([usage : Usages, by : Storages]) /\ Len(log) = 0
  BY DEF Init
<1> QED  BY <1>1, <1>2, SigningKeysAssumption DEF Init, TypeOK

\* A step of a request that leaves the events and the projection alone.
LEMMA RequestTypes ==
    ASSUME TypeOK, NEW r \in Requests, locks' \in Lock!Locks, faults' \in 0..MaxFaults,
           UNCHANGED <<log, projected, lag, expired>>,
           \/ EndTry(r)
           \/ /\ \E where \in Stages : Goto(r, where)
              /\ UNCHANGED sequence \/ sequence' = [sequence EXCEPT ![r] = projected]
    PROVE  TypeOK'
<1>1. projected \in Nat /\ 0 \in 0..projected /\ projected \in 0..projected /\ 0 \in 0..MaxSpent
  BY SigningKeysAssumption DEF TypeOK
<1>2. pc' \in [Requests -> Stages]
  BY DEF EndTry, Goto, TypeOK, Stages
<1>3. sequence' \in [Requests -> 0..projected]
  BY <1>1 DEF EndTry, TypeOK
<1>4. spent' \in [Requests -> 0..MaxSpent]
  BY <1>1 DEF EndTry, Goto, TypeOK
<1> QED  BY <1>2, <1>3, <1>4 DEF TypeOK, Stages

LEMMA FaultTypes == TypeOK /\ (Fault \/ UNCHANGED faults) => faults' \in 0..MaxFaults
BY SigningKeysAssumption DEF TypeOK, Fault

LEMMA LockTypes == TypeOK /\ UNCHANGED locks => locks' \in Lock!Locks
BY DEF TypeOK

LEMMA TypeStep == TypeOK /\ [Next]_vars => TypeOK'
<1> SUFFICES ASSUME TypeOK, [Next]_vars PROVE TypeOK'
  OBVIOUS
<1>1. ASSUME NEW r \in Requests, ReadKeys(r) \/ ReadSequence(r) \/ EnsureIsLatestKey(r)
      PROVE  TypeOK'
  <2>1. /\ UNCHANGED <<locks, log, projected, lag, expired, faults>>
        /\ \/ EndTry(r)
           \/ /\ \E where \in Stages : Goto(r, where)
              /\ UNCHANGED sequence \/ sequence' = [sequence EXCEPT ![r] = projected]
    BY <1>1 DEF ReadKeys, ReadSequence, EnsureIsLatestKey, Stages
  <2> QED  BY <2>1, FaultTypes, LockTypes, RequestTypes
<1>2. ASSUME NEW r \in Requests, LockKey(r) PROVE TypeOK'
  <2>1. /\ UNCHANGED <<log, projected, lag, expired, faults>>
        /\ Lock!RenewLock(Storage[r], {Instance})
        /\ EndTry(r) \/ ((\E where \in Stages : Goto(r, where)) /\ UNCHANGED sequence)
    BY <1>2 DEF LockKey, Stages
  <2>2. Storage[r] \in Storages
    BY DEF Storages
  <2> QED  BY <2>1, <2>2, FaultTypes, RenewLease, RequestTypes
<1>3. ASSUME NEW r \in Requests, Generate(r) PROVE TypeOK'
  <2> DEFINE e == [usage |-> Usage[r], by |-> Storage[r]]
  <2>1. /\ EndTry(r) /\ UNCHANGED <<locks, projected, lag, expired>>
        /\ Fault \/ UNCHANGED faults
        /\ log' = log \/ log' = Append(log, e)
    BY <1>3 DEF Generate
  <2>2. e \in [usage : Usages, by : Storages]
    BY DEF Usages, Storages
  <2> HIDE DEF e
  <2>3. log' \in Seq([usage : Usages, by : Storages]) /\ Len(log') \in {Len(log), Len(log) + 1}
    <3> DEFINE T == [usage : Usages, by : Storages]
    <3>1. log \in Seq(T) /\ e \in T
      BY <2>2 DEF TypeOK
    <3> HIDE DEF T
    <3>2. log' \in Seq(T) /\ Len(log') \in {Len(log), Len(log) + 1}
      BY <2>1, <3>1, AppendProperties
    <3> QED  BY <3>2 DEF T
  <2>4. projected' \in 0..Len(log')
    BY <2>1, <2>3 DEF TypeOK
  <2>5. /\ pc' \in [Requests -> Stages] /\ sequence' \in [Requests -> 0..projected]
        /\ spent' \in [Requests -> 0..MaxSpent]
    <3>1. 0 \in 0..projected /\ 0 \in 0..MaxSpent
      BY SigningKeysAssumption DEF TypeOK
    <3> QED  BY <2>1, <3>1 DEF EndTry, TypeOK, Stages
  <2>6. faults' \in 0..MaxFaults
    BY <2>1, FaultTypes
  <2> QED  BY <2>1, <2>3, <2>4, <2>5, <2>6 DEF TypeOK, Stages
<1>4. ASSUME NEW st \in Storages, Crash(st) PROVE TypeOK'
  <2>1. locks' \in Lock!Locks /\ faults' \in 0..MaxFaults
    BY <1>4, AbandonLease, FaultTypes DEF Crash
  <2>2. 0 \in 0..projected /\ 0 \in 0..MaxSpent
    BY SigningKeysAssumption DEF TypeOK
  <2> QED  BY <1>4, <2>1, <2>2 DEF Crash, TypeOK
<1>5. CASE Project
  <2>1. /\ projected' = Len(log) /\ UNCHANGED <<locks, log, expired, requestVars, faults>>
        /\ lag' = 0
    BY <1>5 DEF Project
  <2>2. Len(log) \in Nat /\ Len(log) \in 0..Len(log) /\ projected \in Nat /\ projected <= Len(log)
    BY DEF TypeOK
  <2>3. 1..projected \subseteq 1..Len(log) /\ 0..projected \subseteq 0..Len(log)
    BY <2>2
  <2>4. sequence \in [Requests -> 0..Len(log)] /\ expired \subseteq 1..Len(log)
    BY <2>3 DEF TypeOK
  <2>5. 0 \in 0..MaxLag
    BY SigningKeysAssumption
  <2> QED  BY <2>1, <2>2, <2>4, <2>5 DEF TypeOK, requestVars
<1>6. CASE Expire
  <2>1. /\ UNCHANGED <<locks, log, projected, lag, requestVars, faults>>
        /\ \E k \in 1..projected : expired' = expired \cup {k}
    BY <1>6 DEF Expire, Active
  <2> QED  BY <2>1 DEF TypeOK, requestVars
<1>7. CASE Tick
  <2>1. /\ \A r \in Requests : Working(r) => spent[r] < MaxSpent
        /\ projected < Len(log) => lag < MaxLag
        /\ lag' = (IF projected < Len(log) THEN lag + 1 ELSE 0)
        /\ spent' = [r \in Requests |-> IF Working(r) THEN spent[r] + 1 ELSE 0]
        /\ UNCHANGED <<log, projected, expired, pc, sequence, faults>> /\ Lock!Elapse
    BY <1>7 DEF Tick
  <2>2. lag' \in 0..MaxLag
    BY <2>1, SigningKeysAssumption DEF TypeOK
  <2>3. \A r \in Requests : (IF Working(r) THEN spent[r] + 1 ELSE 0) \in 0..MaxSpent
    BY <2>1, SigningKeysAssumption DEF TypeOK
  <2>4. spent' \in [Requests -> 0..MaxSpent]
    BY <2>1, <2>3
  <2>5. locks' \in Lock!Locks
    BY <2>1, ElapseLease
  <2> QED  BY <2>1, <2>2, <2>4, <2>5 DEF TypeOK
<1>8. CASE UNCHANGED vars
  BY <1>8 DEF vars, requestVars, TypeOK
<1> QED  BY <1>1, <1>2, <1>3, <1>4, <1>5, <1>6, <1>7, <1>8 DEF Next, Step

(***************************************************************************)
(* The variables have their types: the read model of the keys is never     *)
(* ahead of the events, and no key expires before it is projected.         *)
(***************************************************************************)
THEOREM TypeCorrect == Spec => []TypeOK
BY TypeInit, TypeStep, PTL DEF Spec

-----------------------------------------------------------------------------
(* KeysInv is inductive                                                    *)

\* The numbers the argument is about.
LEMMA Numbers ==
    ASSUME TypeOK
    PROVE  /\ LockDuration \in Nat \ {0} /\ MaxSpent \in Nat /\ MaxLag \in Nat
           /\ lease.left \in 0..LockDuration /\ lag \in 0..MaxLag
           /\ projected \in Nat /\ Len(log) \in Nat /\ projected <= Len(log)
           /\ \A r \in Requests : /\ spent[r] \in 0..MaxSpent
                                  /\ Storage[r] \in Storages /\ Storage[r] # NoStorage
<1>1. lease.left \in 0..LockDuration
  BY LeaseType DEF Lease
<1> QED  BY <1>1, SigningKeysAssumption DEF TypeOK, Storages

\* Requests go on reading, or give up.
LEMMA QuietKeys ==
    ASSUME Keys, UNCHANGED <<locks, log, projected, lag, expired>>,
           \A r \in Requests :
              \/ pc'[r] = "idle"
              \/ /\ spent'[r] = spent[r]
                 /\ \/ pc'[r] = pc[r]
                    \/ pc'[r] \in {"sequence", "ensure", "lock"} /\ (Own(r) \/ Blocked(r))
    PROVE  Keys'
<1>1. lease' = lease /\ \A u, n : Active(u, n)' = Active(u, n)
  BY DEF lease, Active
<1>2. \A r \in Requests : /\ Own(r) => Own(r)'
                          /\ Blocked(r) /\ spent'[r] = spent[r] => Blocked(r)'
  BY <1>1 DEF Own, Blocked
<1>3. LeaseHeld'
  BY <1>1 DEF Keys, LeaseHeld
<1>4. Sheltered'
  BY <1>1 DEF Keys, Sheltered
<1>5. StaleReadsBlocked'
  BY <1>2 DEF Keys, StaleReadsBlocked
<1>6. OneBy'
  BY <1>1 DEF Keys, OneBy
<1> QED  BY <1>3, <1>4, <1>5, <1>6 DEF Keys

\* Who reads no key although there is one of another storage cannot get the lease.
LEMMA StartBlocked ==
    ASSUME TypeOK, Keys, LongLease, NEW r \in Requests, Active(Usage[r], projected) = {}
    PROVE  Own(r) \/ Blocked(r)
<1> SUFFICES ASSUME NEW k \in Active(Usage[r], Len(log)), log[k].by # Storage[r] PROVE Blocked(r)
  BY DEF Own
<1>1. k \in (projected + 1)..Len(log)
  BY Numbers DEF Active
<1>2. projected < Len(log)
  BY <1>1, Numbers
<1>3. lease.left + lag >= LockDuration - MaxSpent /\ lease.locker \in {log[k].by, NoStorage}
  BY <1>1, <1>2 DEF Keys, Sheltered
<1>4. lease.left + spent[r] > MaxSpent
  <2>1. /\ lease.left \in Nat /\ lag \in 0..MaxLag /\ spent[r] \in Nat
        /\ LockDuration \in Nat /\ MaxSpent \in Nat /\ MaxLag \in Nat
    BY Numbers
  <2>2. LockDuration > MaxSpent + MaxSpent + MaxLag
    BY <2>1 DEF LongLease
  <2> QED  BY <1>3, <2>1, <2>2
<1>5. lease.locker # Storage[r]
  BY <1>3, Numbers
<1> QED  BY <1>4, <1>5 DEF Blocked

LEMMA ReadsKeys ==
    ASSUME TypeOK, Keys, LongLease, NEW r \in Requests,
           ReadKeys(r) \/ ReadSequence(r) \/ EnsureIsLatestKey(r)
    PROVE  Keys'
<1>1. UNCHANGED <<locks, log, projected, lag, expired>>
  BY DEF ReadKeys, ReadSequence, EnsureIsLatestKey
<1>2. \/ EndTry(r)
      \/ Active(Usage[r], projected) = {} /\ Goto(r, "sequence")
      \/ pc[r] \in {"sequence", "ensure"} /\ \E where \in {"ensure", "lock"} : Goto(r, where)
  BY DEF ReadKeys, ReadSequence, EnsureIsLatestKey
<1>3. CASE EndTry(r)
  <2>1. pc'[r] = "idle" /\ \A q \in Requests \ {r} : pc'[q] = pc[q] /\ spent'[q] = spent[q]
    BY <1>3 DEF EndTry, TypeOK
  <2> QED  BY <1>1, <2>1, QuietKeys
<1>4. ASSUME NEW where \in {"sequence", "ensure", "lock"}, Goto(r, where), Own(r) \/ Blocked(r)
      PROVE  Keys'
  <2>1. /\ pc'[r] = where /\ spent' = spent
        /\ \A q \in Requests \ {r} : pc'[q] = pc[q]
    BY <1>4 DEF Goto, TypeOK
  <2> QED  BY <1>1, <1>4, <2>1, QuietKeys
<1>5. pc[r] \in {"sequence", "ensure"} => Own(r) \/ Blocked(r)
  BY DEF Keys, StaleReadsBlocked
<1> QED  BY <1>2, <1>3, <1>4, <1>5, StartBlocked

LEMMA LockKeys == ASSUME TypeOK, Keys, LongLease, NEW r \in Requests, LockKey(r) PROVE Keys'
<1> DEFINE granted == Lock!Granted(Storage[r], {Instance}) # {}
<1>1. /\ pc[r] = "lock" /\ UNCHANGED <<log, projected, lag, expired>>
      /\ Lock!RenewLock(Storage[r], {Instance})
      /\ IF granted THEN Goto(r, "generate") ELSE EndTry(r)
  BY DEF LockKey
<1>2. IF granted
      THEN lease' = [locker |-> Storage[r], left |-> LockDuration]
      ELSE locks' = locks
  <2>1. Storage[r] \in Storages
    BY Numbers
  <2>2. IF granted THEN lease' = [locker |-> Storage[r], left |-> LockDuration]
        ELSE lease' = lease
    BY <1>1, <2>1, RenewLease
  <2>3. locks' = [i \in {Instance} |-> lease'] /\ locks = [i \in {Instance} |-> lease]
    BY <1>1, LeaseType DEF Lock!RenewLock, Lock!LockStatement, lease
  <2> QED  BY <2>2, <2>3
<1>3. granted => lease.locker = Storage[r] \/ lease.left = 0
  BY DEF Lock!Granted, lease
<1> HIDE DEF granted
<1>4. CASE ~granted
  <2>1. pc'[r] = "idle" /\ \A q \in Requests \ {r} : pc'[q] = pc[q] /\ spent'[q] = spent[q]
    BY <1>1, <1>4 DEF EndTry, TypeOK
  <2> QED  BY <1>1, <1>2, <1>4, <2>1, QuietKeys
<1>5. CASE granted
  <2>1. /\ lease'.locker = Storage[r] /\ lease'.left = LockDuration
        /\ pc'[r] = "generate" /\ spent' = spent
        /\ \A q \in Requests \ {r} : pc'[q] = pc[q]
    BY <1>1, <1>2, <1>5 DEF Goto, TypeOK
  <2>2. \A u, n : Active(u, n)' = Active(u, n)
    BY <1>1 DEF Active
  <2>3. \A q \in Requests : Own(q) => Own(q)'
    BY <1>1, <2>2 DEF Own
  <2>4. LeaseHeld'
    <3> SUFFICES ASSUME NEW q \in Requests, pc'[q] = "generate"
                 PROVE  lease'.locker = Storage[q] /\ lease'.left >= LockDuration - spent'[q]
      BY DEF LeaseHeld
    <3>1. lease'.left >= LockDuration - spent'[q]
      BY <2>1, Numbers
    <3>2. CASE q # r
      <4>1. lease.locker = Storage[q] /\ lease.left >= LockDuration - spent[q]
        BY <2>1, <3>2 DEF Keys, LeaseHeld
      <4>2. lease.left # 0
        BY <4>1, Numbers DEF LongLease
      <4> QED  BY <1>3, <1>5, <2>1, <3>1, <4>1, <4>2
    <3> QED  BY <2>1, <3>1, <3>2
  <2>5. Sheltered'
    <3> SUFFICES ASSUME projected < Len(log)
                 PROVE  /\ lease'.left + lag >= LockDuration - MaxSpent
                        /\ \A k \in (projected + 1)..Len(log) : lease'.locker \in {log[k].by, NoStorage}
      BY <1>1 DEF Sheltered
    <3>1. /\ lease.left + lag >= LockDuration - MaxSpent
          /\ \A k \in (projected + 1)..Len(log) : lease.locker \in {log[k].by, NoStorage}
      BY DEF Keys, Sheltered
    <3>2. lease.left # 0
      BY <3>1, Numbers DEF LongLease
    <3>3. lease.locker = Storage[r]
      BY <1>3, <1>5, <3>2
    <3>4. lease'.left + lag >= LockDuration - MaxSpent
      BY <2>1, Numbers
    <3> QED  BY <2>1, <3>1, <3>3, <3>4
  <2>6. StaleReadsBlocked'
    <3> SUFFICES ASSUME NEW q \in Requests
                 PROVE  /\ pc'[q] \in {"sequence", "ensure", "lock"} => Own(q)' \/ Blocked(q)'
                        /\ pc'[q] = "generate" => Own(q)'
      BY DEF StaleReadsBlocked
    <3>1. Blocked(q) => lease.left # 0 /\ lease.locker # Storage[q]
      BY Numbers DEF Blocked
    <3>2. CASE q = r
      <4>1. ~Blocked(r)
        BY <1>3, <1>5, <3>1, <3>2
      <4>2. Own(r)
        BY <1>1, <4>1 DEF Keys, StaleReadsBlocked
      <4> QED  BY <2>1, <2>3, <3>2, <4>2
    <3>3. CASE q # r
      <4>1. Blocked(q) => Blocked(q)'
        BY <1>3, <1>5, <2>1, <3>1, Numbers DEF Blocked, LongLease
      <4> QED  BY <2>1, <2>3, <3>3, <4>1 DEF Keys, StaleReadsBlocked
    <3> QED  BY <3>2, <3>3
  <2>7. OneBy'
    BY <1>1, <2>2 DEF Keys, OneBy
  <2> QED  BY <2>4, <2>5, <2>6, <2>7 DEF Keys
<1> QED  BY <1>4, <1>5

LEMMA GenerateKeys == ASSUME TypeOK, Keys, LongLease, NEW r \in Requests, Generate(r) PROVE Keys'
<1> DEFINE e == [usage |-> Usage[r], by |-> Storage[r]]
           n == Len(log)
<1>1. /\ pc[r] = "generate" /\ EndTry(r) /\ UNCHANGED <<locks, projected, lag, expired>>
      /\ log' = log \/ log' = Append(log, e)
  BY DEF Generate
<1>2. pc'[r] = "idle" /\ \A q \in Requests \ {r} : pc'[q] = pc[q] /\ spent'[q] = spent[q]
  BY <1>1 DEF EndTry, TypeOK
<1>3. CASE log' = log
  BY <1>1, <1>2, <1>3, QuietKeys
<1>4. CASE log' = Append(log, e)
  <2>1. e.usage = Usage[r] /\ e.by = Storage[r]
    OBVIOUS
  <2> HIDE DEF e
  <2>2. /\ n \in Nat /\ Len(log') = n + 1 /\ log'[n + 1] = e
        /\ \A k \in 1..n : log'[k] = log[k]
    BY <1>4, AppendProperties DEF TypeOK
  <2> HIDE DEF n
  <2>3. ASSUME NEW u, NEW k \in Active(u, Len(log))'
        PROVE  \/ k \in Active(u, n) /\ k \in 1..n /\ log'[k].by = log[k].by
               \/ u = Usage[r] /\ log'[k].by = Storage[r]
    <3>1. k \in 1..(n + 1) /\ log'[k].usage = u /\ k \notin expired
      BY <1>1, <2>2 DEF Active
    <3>2. k \in 1..n \/ k = n + 1
      BY <2>2, <3>1
    <3> QED  BY <2>1, <2>2, <3>1, <3>2 DEF Active
  <2>4. /\ lease' = lease /\ lease.locker = Storage[r]
        /\ lease.left >= LockDuration - spent[r]
    BY <1>1 DEF Keys, LeaseHeld, lease
  <2>5. Own(r)
    BY <1>1 DEF Keys, StaleReadsBlocked
  <2>6. lease.left >= LockDuration - MaxSpent /\ lease.left > MaxSpent
    <3>1. /\ lease.left \in Nat /\ spent[r] \in 0..MaxSpent
          /\ LockDuration \in Nat /\ MaxSpent \in Nat /\ MaxLag \in Nat
      BY Numbers
    <3>2. LockDuration > MaxSpent + MaxSpent + MaxLag
      BY <3>1 DEF LongLease
    <3> QED  BY <2>4, <3>1, <3>2
  <2>7. LeaseHeld'
    BY <1>2, <2>4 DEF Keys, LeaseHeld
  <2>8. Sheltered'
    <3>1. lease'.left + lag' >= LockDuration - MaxSpent
      BY <1>1, <2>4, <2>6, Numbers
    <3>2. ASSUME NEW k \in (projected + 1)..(n + 1) PROVE lease.locker \in {log'[k].by, NoStorage}
      <4>1. CASE k = n + 1
        BY <2>1, <2>2, <2>4, <4>1
      <4>2. CASE k # n + 1
        <5>1. projected \in Nat
          BY Numbers
        <5>2. k \in (projected + 1)..n /\ k \in 1..n /\ projected < n
          BY <2>2, <4>2, <5>1
        <5> QED  BY <2>2, <5>2 DEF Keys, Sheltered, n
      <4> QED  BY <4>1, <4>2
    <3> QED  BY <1>1, <2>2, <2>4, <3>1, <3>2 DEF Sheltered
  <2>9. ASSUME NEW q \in Requests, Own(q), Storage[q] = Storage[r] PROVE Own(q)'
    BY <2>3, <2>9 DEF Own, n
  <2>10. ASSUME NEW q \in Requests
         PROVE  /\ pc'[q] \in {"sequence", "ensure", "lock"} => Own(q)' \/ Blocked(q)'
                /\ pc'[q] = "generate" => Own(q)'
    <3>1. CASE q = r
      BY <1>2, <3>1
    <3>2. CASE q # r /\ pc[q] \in {"sequence", "ensure", "lock"}
      <4>1. Own(q) \/ Blocked(q)
        BY <3>2 DEF Keys, StaleReadsBlocked
      <4>2. CASE Storage[q] # Storage[r]
        <5>1. Blocked(q)'
          BY <1>2, <2>4, <2>6, <3>2, <4>2, Numbers DEF Blocked
        <5> QED  BY <1>2, <3>2, <5>1
      <4>3. CASE Storage[q] = Storage[r]
        <5>1. Own(q)
          BY <2>4, <4>1, <4>3 DEF Blocked
        <5> QED  BY <2>9, <4>3, <5>1
      <4> QED  BY <1>2, <3>2, <4>2, <4>3
    <3>3. CASE q # r /\ pc[q] = "generate"
      <4>1. Own(q) /\ Storage[q] = Storage[r]
        BY <2>4, <3>3 DEF Keys, StaleReadsBlocked, LeaseHeld
      <4> QED  BY <2>9, <4>1
    <3> QED  BY <1>2, <3>1, <3>2, <3>3
  <2>11. StaleReadsBlocked'
    BY <2>10 DEF StaleReadsBlocked
  <2>12. OneBy'
    <3> SUFFICES ASSUME NEW u \in Usages, NEW k \in Active(u, Len(log))', NEW l \in Active(u, Len(log))'
                 PROVE  log'[k].by = log'[l].by
      BY DEF OneBy
    <3>1. \A h \in Active(Usage[r], n) : log[h].by = Storage[r]
      BY <2>5 DEF Own, n
    <3>2. \A g, h \in Active(u, n) : log[g].by = log[h].by
      BY DEF Keys, OneBy, n
    <3> QED  BY <2>3, <3>1, <3>2
  <2> QED  BY <2>7, <2>8, <2>11, <2>12 DEF Keys
<1> QED  BY <1>1, <1>3, <1>4

LEMMA CrashKeys == ASSUME TypeOK, Keys, NEW st \in Storages, Crash(st) PROVE Keys'
<1>1. /\ Lock!Abandon(st) /\ UNCHANGED <<log, projected, lag, expired>>
      /\ \A q \in Requests : Storage[q] = st => pc'[q] = "idle"
      /\ \A q \in Requests : Storage[q] # st => pc'[q] = pc[q] /\ spent'[q] = spent[q]
  BY DEF Crash
<1>2. /\ lease'.left = lease.left
      /\ lease'.locker = IF lease.locker = st THEN NoStorage ELSE lease.locker
  BY <1>1, AbandonLease
<1>3. \A u, n : Active(u, n)' = Active(u, n)
  BY <1>1 DEF Active
<1>4. \A q \in Requests : /\ Own(q) => Own(q)'
                          /\ Blocked(q) /\ Storage[q] # st => Blocked(q)'
  BY <1>1, <1>2, <1>3, Numbers DEF Own, Blocked
<1>5. LeaseHeld'
  BY <1>1, <1>2 DEF Keys, LeaseHeld
<1>6. Sheltered'
  BY <1>1, <1>2 DEF Keys, Sheltered
<1>7. StaleReadsBlocked'
  BY <1>1, <1>4 DEF Keys, StaleReadsBlocked
<1>8. OneBy'
  BY <1>1, <1>3 DEF Keys, OneBy
<1> QED  BY <1>5, <1>6, <1>7, <1>8 DEF Keys

LEMMA ProjectKeys == ASSUME TypeOK, Keys, Project PROVE Keys'
<1>1. projected' = Len(log) /\ UNCHANGED <<locks, log, expired, pc, spent>>
  BY DEF Project, requestVars
<1>2. lease' = lease /\ \A u, n : Active(u, n)' = Active(u, n)
  BY <1>1 DEF lease, Active
<1>3. \A q \in Requests : (Own(q) => Own(q)') /\ (Blocked(q) => Blocked(q)')
  BY <1>1, <1>2 DEF Own, Blocked
<1>4. LeaseHeld' /\ OneBy'
  BY <1>1, <1>2 DEF Keys, LeaseHeld, OneBy
<1>5. Sheltered'
  BY <1>1, Numbers DEF Sheltered
<1>6. StaleReadsBlocked'
  BY <1>1, <1>3 DEF Keys, StaleReadsBlocked
<1> QED  BY <1>4, <1>5, <1>6 DEF Keys

LEMMA ExpireKeys == ASSUME TypeOK, Keys, Expire PROVE Keys'
<1>1. expired \subseteq expired' /\ UNCHANGED <<locks, log, projected, lag, pc, spent>>
  BY DEF Expire, requestVars
<1>2. lease' = lease /\ \A u, n : Active(u, n)' \subseteq Active(u, n)
  BY <1>1 DEF lease, Active
<1>3. \A q \in Requests : (Own(q) => Own(q)') /\ (Blocked(q) => Blocked(q)')
  BY <1>1, <1>2 DEF Own, Blocked
<1>4. LeaseHeld' /\ Sheltered' /\ OneBy'
  BY <1>1, <1>2 DEF Keys, LeaseHeld, Sheltered, OneBy
<1>5. StaleReadsBlocked'
  BY <1>1, <1>3 DEF Keys, StaleReadsBlocked
<1> QED  BY <1>4, <1>5 DEF Keys

LEMMA TickKeys == ASSUME TypeOK, TypeOK', Keys, LongLease, Tick PROVE Keys'
<1>1. /\ \A r \in Requests : pc[r] # "idle" => spent[r] < MaxSpent /\ spent'[r] = spent[r] + 1
      /\ projected < Len(log) => lag < MaxLag /\ lag' = lag + 1
      /\ UNCHANGED <<log, projected, expired, pc>> /\ Lock!Elapse
  BY DEF Tick, Working
<1>2. /\ lease'.left = IF lease.left = 0 THEN 0 ELSE lease.left - 1
      /\ lease'.locker = IF lease'.left = 0 THEN NoStorage ELSE lease.locker
  BY <1>1, ElapseLease
<1>3. \A u, n : Active(u, n)' = Active(u, n)
  BY <1>1 DEF Active
<1>4. ASSUME NEW q \in Requests, pc[q] # "idle", Blocked(q) PROVE Blocked(q)'
  <2>1. spent[q] < MaxSpent /\ spent'[q] = spent[q] + 1
    BY <1>1, <1>4
  <2>2. lease'.left + spent'[q] > MaxSpent /\ lease'.left # 0
    BY <1>2, <1>4, <2>1, Numbers DEF Blocked
  <2> QED  BY <1>2, <1>4, <2>2 DEF Blocked
<1>5. LeaseHeld'
  <2> SUFFICES ASSUME NEW q \in Requests, pc[q] = "generate"
               PROVE  lease'.locker = Storage[q] /\ lease'.left >= LockDuration - spent'[q]
    BY <1>1 DEF LeaseHeld
  <2>1. lease.locker = Storage[q] /\ lease.left >= LockDuration - spent[q]
    BY DEF Keys, LeaseHeld
  <2>2. spent[q] < MaxSpent /\ spent'[q] = spent[q] + 1
    BY <1>1
  <2>3. /\ lease.left \in Nat /\ spent[q] \in Nat
        /\ LockDuration \in Nat /\ MaxSpent \in Nat /\ MaxLag \in Nat
    BY Numbers
  <2>4. lease.left > MaxSpent + 1
    <3>1. LockDuration > MaxSpent + MaxSpent + MaxLag
      BY <2>3 DEF LongLease
    <3> QED  BY <2>1, <2>2, <2>3, <3>1
  <2>5. lease'.left = lease.left - 1 /\ lease'.left # 0
    BY <1>2, <2>3, <2>4
  <2>6. lease'.left >= LockDuration - spent'[q]
    BY <2>1, <2>2, <2>3, <2>5
  <2> QED  BY <1>2, <2>1, <2>5, <2>6
<1>6. Sheltered'
  <2> SUFFICES ASSUME projected < Len(log)
               PROVE  /\ lease'.left + lag' >= LockDuration - MaxSpent
                      /\ \A k \in (projected + 1)..Len(log) : lease'.locker \in {log[k].by, NoStorage}
    BY <1>1 DEF Sheltered
  <2>1. /\ lease.left + lag >= LockDuration - MaxSpent
        /\ \A k \in (projected + 1)..Len(log) : lease.locker \in {log[k].by, NoStorage}
    BY DEF Keys, Sheltered
  <2>2. lease'.left + lag' >= LockDuration - MaxSpent
    BY <1>1, <1>2, <2>1, Numbers
  <2> QED  BY <1>2, <2>1, <2>2
<1>7. StaleReadsBlocked'
  <2>1. \A q \in Requests : Own(q) => Own(q)'
    BY <1>1, <1>3 DEF Own
  <2> QED  BY <1>1, <1>4, <2>1 DEF Keys, StaleReadsBlocked
<1>8. OneBy'
  BY <1>1, <1>3 DEF Keys, OneBy
<1> QED  BY <1>5, <1>6, <1>7, <1>8 DEF Keys

LEMMA KeysStep == KeysInv /\ [Next]_vars => KeysInv'
<1> SUFFICES ASSUME KeysInv, [Next]_vars PROVE KeysInv'
  OBVIOUS
<1>1. TypeOK /\ TypeOK'
  BY TypeStep DEF KeysInv
<1>2. LongLease' <=> LongLease
  BY DEF LongLease
<1>3. ASSUME LongLease PROVE Keys'
  <2>1. Keys
    BY <1>3 DEF KeysInv, Keys
  <2>2. CASE UNCHANGED vars
    BY <2>1, <2>2, QuietKeys DEF vars, requestVars
  <2> QED  BY <1>1, <1>3, <2>1, <2>2, ReadsKeys, LockKeys, GenerateKeys, CrashKeys, ProjectKeys,
              ExpireKeys, TickKeys DEF Next, Step
<1> QED  BY <1>1, <1>2, <1>3 DEF KeysInv, Keys

(***************************************************************************)
(* For any number of processes and requests of both protocols, crashes and *)
(* failing pushes: if the lease lasts longer than two tries and the lag of *)
(* the projection, two storages never generate a key for the same need     *)
(* (getSigningKey, lockAndGenerateSigningKeyPair and the same functions    *)
(* for certificates).                                                      *)
(***************************************************************************)
THEOREM OneStorageGenerates == Spec => []KeysFromOneStorage
<1>1. Init => KeysInv
  <2> SUFFICES ASSUME Init PROVE KeysInv
    OBVIOUS
  <2>1. TypeOK
    BY TypeInit
  <2>2. log = <<>> /\ projected = 0 /\ \A r \in Requests : pc[r] = "idle"
    BY DEF Init
  <2>3. Len(log) = 0 /\ 1..Len(log) = {}
    BY <2>2
  <2>4. Sheltered /\ OneBy
    BY <2>2, <2>3 DEF Sheltered, OneBy, Active
  <2> QED  BY <2>1, <2>2, <2>4 DEF KeysInv, Keys, LeaseHeld, StaleReadsBlocked
<1>2. KeysInv => KeysFromOneStorage
  BY DEF KeysInv, Keys, KeysFromOneStorage, LongLease, OneBy
<1> QED  BY <1>1, <1>2, KeysStep, PTL DEF Spec
=============================================================================
