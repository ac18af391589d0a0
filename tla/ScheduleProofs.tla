--------------------------- MODULE ScheduleProofs ---------------------------
(***************************************************************************)
(* Proofs about Schedule: the types, that the leases keep processes apart, *)
(* and that no event falls out of a window that is wide enough.            *)
(*                                                                         *)
(* Exclusive says who works at the same time.  LeaseInv says why it holds: *)
(* a scheduler whose renewal is not overdue holds the rows it works on,    *)
(* for longer than it takes until the renewal.  For the instances this     *)
(* needs that they are locked one by one: a statement for several of them  *)
(* counts as a success when it got one.                                    *)
(***************************************************************************)
EXTENDS Schedule, FiniteSetTheorems, TLAPS

\* The scheduler has every row of the lease until after the next renewal.
Held(s, k) ==
    \A r \in Leased(s, k) : locks[r].locker = s /\ locks[r].left >= renew[s][k] + 1

OneInstance(s) == \A i, j \in chunk[s] : i = j

Secured(s, k) == renew[s][k] \notin {Off, Late} => Held(s, k)
Safe(s) == OneInstance(s) /\ \A k \in {"system", "chunk"} : Secured(s, k)

LeaseInv == TypeOK /\ \A s \in Schedulers : Safe(s)

-----------------------------------------------------------------------------
(* Helpers                                                                 *)

Lease == [locker : Schedulers \cup {NoScheduler}, left : 0..RequeueAfter]

LEMMA MinOfTwo == ASSUME NEW a \in Int, NEW b \in Int PROVE Min({a, b}) = IF a <= b THEN a ELSE b
<1> DEFINE m == IF a <= b THEN a ELSE b
<1>1. m \in {a, b} /\ \A y \in {a, b} : m <= y
  OBVIOUS
<1>2. \A x \in {a, b} : (\A y \in {a, b} : x <= y) => x = m
  OBVIOUS
<1> HIDE DEF m
<1>3. Min({a, b}) = m
  BY <1>1, <1>2 DEF Min
<1> QED  BY <1>3 DEF m

LEMMA Constants ==
    /\ RequeueAfter \in Nat /\ RequeueAfter >= 2 /\ HandleActiveInstances \in Nat /\ MaxTurn \in Nat
    /\ MaxFaults \in Nat /\ Renewed \in Late..Off /\ Off \in Late..Off /\ Late \in Late..Off
    /\ Renewed # Off /\ Off > 0 /\ Instances \subseteq Rows /\ System \in Rows
    /\ System \notin Instances /\ NoScheduler \notin Schedulers
BY ScheduleAssumption DEF Renewed, Off, Late, Rows

LEMMA LockTypes ==
    ASSUME TypeOK
    PROVE  /\ \A r \in Rows : locks[r] \in Lease /\ locks[r].left \in 0..RequeueAfter
           /\ locks = [r \in Rows |-> locks[r]]
<1>1. locks \in [Rows -> Lease]
  BY DEF TypeOK, Lock!Locks, Lease
<1> QED  BY <1>1 DEF Lease

\* The statement changes the rows that are free or its own, and no other.
LEMMA Statement ==
    ASSUME TypeOK, NEW s \in Schedulers, NEW rows \in SUBSET Rows,
           Lock!RenewLock(s, rows) \/ Lock!Unlock(s, rows)
    PROVE  /\ locks' \in Lock!Locks
           /\ \A r \in Rows : locks[r].locker # s /\ locks[r].left # 0 => locks'[r] = locks[r]
           /\ \A r \in Rows \ rows : locks'[r] = locks[r]
           /\ Lock!RenewLock(s, rows) =>
                 \A r \in rows : locks[r].locker = s \/ locks[r].left = 0 =>
                    locks'[r].locker = s /\ locks'[r].left = RequeueAfter
<1> DEFINE row(d) == Lock!Row(s, d)
<1>1. PICK d \in {0, RequeueAfter} :
         /\ locks' = [r \in Rows |-> IF r \in Lock!Granted(s, rows) THEN row(d) ELSE locks[r]]
         /\ Lock!RenewLock(s, rows) => d = RequeueAfter
  <2>1. CASE Lock!RenewLock(s, rows)
    BY <2>1 DEF Lock!RenewLock, Lock!LockStatement
  <2>2. CASE Lock!Unlock(s, rows) /\ ~Lock!RenewLock(s, rows)
    BY <2>2 DEF Lock!Unlock, Lock!LockStatement
  <2> QED  BY <2>1, <2>2
<1>2. row(0) \in Lease /\ row(RequeueAfter) = [locker |-> s, left |-> RequeueAfter]
      /\ row(RequeueAfter) \in Lease
  BY Constants DEF Lock!Row, Lease
<1>3. \A r \in Rows : r \in Lock!Granted(s, rows) <=>
                         r \in rows /\ (locks[r].locker = s \/ locks[r].left = 0)
  BY DEF Lock!Granted
<1> HIDE DEF row
<1>4. locks' \in Lock!Locks
  <2>1. locks' \in [Rows -> Lease]
    BY <1>1, <1>2, LockTypes
  <2> QED  BY <2>1 DEF Lock!Locks, Lease
<1>5. \A r \in Rows : locks'[r] = IF r \in Lock!Granted(s, rows) THEN row(d) ELSE locks[r]
  BY <1>1
<1>6. ASSUME NEW r \in rows, Lock!RenewLock(s, rows), locks[r].locker = s \/ locks[r].left = 0
      PROVE  locks'[r].locker = s /\ locks'[r].left = RequeueAfter
  BY <1>1, <1>2, <1>3, <1>5, <1>6
<1> QED  BY <1>3, <1>4, <1>5, <1>6

LEMMA ElapseLocks ==
    ASSUME TypeOK, Lock!Elapse
    PROVE  /\ locks' \in Lock!Locks
           /\ \A r \in Rows : locks[r].left > 1 =>
                 locks'[r].left = locks[r].left - 1 /\ locks'[r].locker = locks[r].locker
<1> DEFINE left(r) == IF locks[r].left = 0 THEN 0 ELSE locks[r].left - 1
           row(r) == Lock!Row(locks[r].locker, left(r))
<1>1. locks' = [r \in Rows |-> row(r)]
  BY DEF Lock!Elapse
<1>2. \A r \in Rows : left(r) \in 0..RequeueAfter /\ (locks[r].left > 1 => left(r) = locks[r].left - 1 /\ left(r) # 0)
  BY LockTypes, Constants
<1>3. \A r \in Rows : row(r) = [locker |-> IF left(r) = 0 THEN NoScheduler ELSE locks[r].locker,
                                left |-> left(r)]
  BY DEF Lock!Row
<1> HIDE DEF left, row
<1>4. \A r \in Rows : row(r) \in Lease
  BY <1>2, <1>3, LockTypes DEF Lease
<1>5. locks' \in [Rows -> Lease]
  BY <1>1, <1>4
<1> QED  BY <1>1, <1>2, <1>3, <1>5 DEF Lock!Locks, Lease

LEMMA AbandonLocks ==
    ASSUME TypeOK, NEW s \in Schedulers, Lock!Abandon(s)
    PROVE  /\ locks' \in Lock!Locks
           /\ \A r \in Rows : locks[r].locker # s => locks'[r] = locks[r]
<1> DEFINE row(r) == [locks[r] EXCEPT !.locker = NoScheduler]
<1>1. locks' = [r \in Rows |-> IF locks[r].locker = s THEN row(r) ELSE locks[r]]
  BY DEF Lock!Abandon
<1>2. \A r \in Rows : row(r) \in Lease
  BY LockTypes DEF Lease
<1> HIDE DEF row
<1>3. locks' \in [Rows -> Lease]
  BY <1>1, <1>2, LockTypes
<1> QED  BY <1>1, <1>3 DEF Lock!Locks, Lease

-----------------------------------------------------------------------------
(* TypeOK is inductive                                                     *)

Places == {"wait", "lock", "ids", "next", "trigger", "unlock", "release", "ended"}

\* The variables of the loop, of a scheduler that goes on or goes back to its timer.
LoopTyped ==
    /\ pc \in [Schedulers -> Places]
    /\ timer \in [Schedulers -> 0..RequeueAfter]
    /\ spent \in [Schedulers -> 0..MaxTurn]

LEMMA LoopTypes ==
    ASSUME TypeOK, NEW s \in Schedulers,
           \/ Requeue(s)
           \/ \E where \in Places : Goto(s, where)
           \/ UNCHANGED <<pc, timer, spent>>
    PROVE  LoopTyped'
<1>1. 0 \in 0..MaxTurn /\ RequeueAfter \in 0..RequeueAfter
  BY Constants
<1>2. LoopTyped
  BY DEF TypeOK, LoopTyped, Places
<1>3. CASE Requeue(s)
  BY <1>1, <1>2, <1>3 DEF Requeue, LoopTyped, Places
<1>4. ASSUME NEW where \in Places, Goto(s, where) PROVE LoopTyped'
  BY <1>2, <1>4 DEF Goto, LoopTyped
<1>5. CASE UNCHANGED <<pc, timer, spent>>
  BY <1>2, <1>5 DEF LoopTyped
<1> QED  BY <1>3, <1>4, <1>5

LEMMA FaultTypes == TypeOK /\ (Fault \/ NoFault) => faults' \in 0..MaxFaults
BY Constants DEF TypeOK, Fault, NoFault

\* One renewer of one scheduler is set.
LEMMA RenewTypes ==
    ASSUME TypeOK, NEW s \in Schedulers, NEW k \in Renewers, NEW v \in Late..Off,
           renew' = [renew EXCEPT ![s][k] = v]
    PROVE  renew' \in [Schedulers -> [Renewers -> Late..Off]]
BY DEF TypeOK

LEMMA RenewerNames == "system" \in Renewers /\ "chunk" \in Renewers /\ "leaked" \in Renewers
BY DEF Renewers

LEMMA LeasedRows ==
    ASSUME TypeOK, NEW s \in Schedulers, NEW k \in Renewers PROVE Leased(s, k) \in SUBSET Rows
BY Constants DEF TypeOK, Leased

LEMMA TypeInit == Init => TypeOK
<1> SUFFICES ASSUME Init PROVE TypeOK
  OBVIOUS
<1>1. Lock!Row(NoScheduler, 0) \in Lease
  BY Constants DEF Lock!Row, Lease
<1>2. locks \in Lock!Locks
  BY <1>1 DEF Init, Lock!LocksInit, Lock!Locks, Lease
<1>3. /\ 0 \in 0..RequeueAfter /\ 0 \in 0..MaxTurn /\ 0 \in 0..MaxFaults
      /\ HandleActiveInstances \in 0..HandleActiveInstances
  BY Constants
<1>4. renew \in [Schedulers -> [Renewers -> Late..Off]]
  BY Constants DEF Init
<1> QED  BY <1>2, <1>3, <1>4 DEF Init, TypeOK

LEMMA LoopStepTypes == ASSUME TypeOK, NEW s \in Schedulers, Loop(s) PROVE TypeOK'
<1>1. CASE Fire(s)
  <2>1. /\ UNCHANGED <<locks, stored, pending, age, todo, chunk, failed, renew, slow>>
        /\ Fault \/ NoFault
        /\ Requeue(s) \/ \E where \in Places : Goto(s, where)
        /\ succeeded' = succeeded \/ succeeded' = [succeeded EXCEPT ![s] = @ \/ stored]
    BY <1>1 DEF Fire, Places
  <2>2. succeeded' \in [Schedulers -> BOOLEAN]
    BY <2>1, Zenon DEF TypeOK
  <2> QED  BY <2>1, <2>2, LoopTypes, FaultTypes DEF TypeOK, LoopTyped, Places
<1>2. CASE LockSystem(s)
  <2>1. /\ UNCHANGED <<stored, pending, age, succeeded, todo, chunk, failed, slow>>
        /\ Fault \/ NoFault
        /\ Requeue(s) \/ \E where \in Places : Goto(s, where)
        /\ UNCHANGED locks \/ Lock!RenewLock(s, {System})
        /\ UNCHANGED renew \/ renew' = [renew EXCEPT ![s]["system"] = Renewed]
    BY <1>2 DEF LockSystem, Places
  <2>2. locks' \in Lock!Locks
    BY <2>1, Statement, Constants DEF TypeOK
  <2>3. renew' \in [Schedulers -> [Renewers -> Late..Off]]
    BY <2>1, RenewTypes, RenewerNames, Constants DEF TypeOK
  <2> QED  BY <2>1, <2>2, <2>3, LoopTypes, FaultTypes DEF TypeOK, LoopTyped, Places
<1>3. CASE InstanceIDs(s)
  <2> DEFINE m == Min({renew[s]["leaked"], renew[s]["system"]})
  <2>1. /\ UNCHANGED <<locks, stored, pending, age, succeeded, chunk, slow>>
        /\ Fault \/ NoFault
        /\ Requeue(s) \/ \E where \in Places : Goto(s, where)
        /\ UNCHANGED todo \/ todo' = [todo EXCEPT ![s] = Scheduled(s)]
        /\ UNCHANGED failed \/ failed' = [failed EXCEPT ![s] = FALSE]
        /\ UNCHANGED renew \/ renew' = [renew EXCEPT ![s]["leaked"] = m, ![s]["system"] = Off]
    BY <1>3 DEF InstanceIDs, Places
  <2>2. renew[s]["leaked"] \in Late..Off /\ renew[s]["system"] \in Late..Off
    BY RenewerNames DEF TypeOK
  <2>3. m \in Late..Off
    BY <2>2, MinOfTwo, Constants DEF Late, Off
  <2> HIDE DEF m
  <2>4. renew' \in [Schedulers -> [Renewers -> Late..Off]]
    <3> DEFINE leaked == [renew EXCEPT ![s]["leaked"] = m]
    <3>1. leaked \in [Schedulers -> [Renewers -> Late..Off]]
      BY <2>3, RenewerNames DEF TypeOK
    <3> HIDE DEF leaked
    <3>2. [leaked EXCEPT ![s]["system"] = Off] \in [Schedulers -> [Renewers -> Late..Off]]
      BY <3>1, RenewerNames, Constants
    <3>3. UNCHANGED renew \/ renew' = [leaked EXCEPT ![s]["system"] = Off]
      BY <2>1, Zenon DEF leaked
    <3> QED  BY <3>2, <3>3 DEF TypeOK
  <2>5. todo' \in [Schedulers -> SUBSET Instances] /\ failed' \in [Schedulers -> BOOLEAN]
    BY <2>1 DEF TypeOK, Scheduled
  <2> QED  BY <2>1, <2>4, <2>5, LoopTypes, FaultTypes DEF TypeOK, LoopTyped, Places
<1>4. CASE LockInstances(s)
  <2>1. PICK c \in kSubset(Min({ConcurrentInstances, Cardinality(todo[s])}), todo[s]) :
           /\ todo' = [todo EXCEPT ![s] = @ \ c]
           /\ Fault \/ NoFault
           /\ UNCHANGED <<pc, timer, spent>> \/ \E where \in Places : Goto(s, where)
           /\ UNCHANGED locks \/ Lock!RenewLock(s, c)
           /\ UNCHANGED renew \/ renew' = [renew EXCEPT ![s]["chunk"] = Renewed]
           /\ UNCHANGED chunk \/ chunk' = [chunk EXCEPT ![s] = c]
           /\ UNCHANGED failed \/ failed' = [failed EXCEPT ![s] = TRUE]
    BY <1>4 DEF LockInstances, Places
  <2>2. c \subseteq todo[s] /\ todo[s] \subseteq Instances
    BY DEF kSubset, TypeOK
  <2>3. c \in SUBSET Rows
    BY <2>2, Constants
  <2>4. locks' \in Lock!Locks
    BY <2>1, <2>3, Statement DEF TypeOK
  <2>5. renew' \in [Schedulers -> [Renewers -> Late..Off]]
    BY <2>1, RenewTypes, RenewerNames, Constants DEF TypeOK
  <2>6. /\ todo' \in [Schedulers -> SUBSET Instances] /\ chunk' \in [Schedulers -> SUBSET Instances]
        /\ failed' \in [Schedulers -> BOOLEAN]
    BY <2>1, <2>2 DEF TypeOK
  <2>7. UNCHANGED <<stored, pending, age, succeeded, slow>>
    BY <1>4 DEF LockInstances
  <2> QED  BY <2>1, <2>4, <2>5, <2>6, <2>7, LoopTypes, FaultTypes DEF TypeOK, LoopTyped, Places
<1>5. CASE Trigger(s)
  <2>1. /\ UNCHANGED <<locks, stored, age, succeeded, todo, chunk, slow>>
        /\ Fault \/ NoFault
        /\ \E where \in Places : Goto(s, where)
        /\ pending' \subseteq pending
        /\ UNCHANGED failed \/ failed' = [failed EXCEPT ![s] = TRUE]
        /\ renew' = [renew EXCEPT ![s]["chunk"] = Off]
    BY <1>5 DEF Trigger, Places
  <2>2. renew' \in [Schedulers -> [Renewers -> Late..Off]]
    BY <2>1, RenewTypes, RenewerNames, Constants
  <2>3. failed' \in [Schedulers -> BOOLEAN] /\ pending' \subseteq Instances
    BY <2>1 DEF TypeOK
  <2> QED  BY <2>1, <2>2, <2>3, LoopTypes, FaultTypes DEF TypeOK, LoopTyped, Places
<1>6. CASE UnlockInstances(s)
  <2>1. /\ UNCHANGED <<stored, pending, age, succeeded, todo, failed, renew, slow>>
        /\ Fault \/ NoFault
        /\ \E where \in Places : Goto(s, where)
        /\ UNCHANGED locks \/ Lock!Unlock(s, chunk[s])
        /\ chunk' = [chunk EXCEPT ![s] = {}]
    BY <1>6 DEF UnlockInstances, Places
  <2>2. chunk[s] \in SUBSET Rows
    BY Constants DEF TypeOK
  <2>3. locks' \in Lock!Locks
    BY <2>1, <2>2, Statement DEF TypeOK
  <2>4. chunk' \in [Schedulers -> SUBSET Instances]
    BY <2>1 DEF TypeOK
  <2> QED  BY <2>1, <2>3, <2>4, LoopTypes, FaultTypes DEF TypeOK, LoopTyped, Places
<1>7. CASE Finish(s)
  <2>1. /\ UNCHANGED <<locks, pending, age, succeeded, todo, chunk, failed, renew, slow>>
        /\ Fault \/ NoFault
        /\ Requeue(s) \/ \E where \in Places : Goto(s, where)
        /\ UNCHANGED stored \/ stored' = (stored \/ ~failed[s])
    BY <1>7 DEF Finish, Places
  <2>2. stored' \in BOOLEAN
    BY <2>1, Zenon DEF TypeOK
  <2> QED  BY <2>1, <2>2, LoopTypes, FaultTypes DEF TypeOK, LoopTyped, Places
<1>8. CASE Release(s)
  <2>1. /\ UNCHANGED <<stored, pending, age, todo, chunk, failed, slow>>
        /\ Fault \/ NoFault
        /\ Requeue(s)
        /\ UNCHANGED locks \/ Lock!Unlock(s, {System})
        /\ renew' = [renew EXCEPT ![s]["system"] = Off]
        /\ succeeded' = [succeeded EXCEPT ![s] = ~failed[s]]
    BY <1>8 DEF Release
  <2>2. locks' \in Lock!Locks
    BY <2>1, Statement, Constants DEF TypeOK
  <2>3. renew' \in [Schedulers -> [Renewers -> Late..Off]]
    BY <2>1, RenewTypes, RenewerNames, Constants
  <2>4. succeeded' \in [Schedulers -> BOOLEAN]
    BY <2>1, Zenon DEF TypeOK
  <2> QED  BY <2>1, <2>2, <2>3, <2>4, LoopTypes, FaultTypes DEF TypeOK, LoopTyped, Places
<1> QED  BY <1>1, <1>2, <1>3, <1>4, <1>5, <1>6, <1>7, <1>8 DEF Loop

LEMMA TypeStep == TypeOK /\ [Next]_vars => TypeOK'
<1> SUFFICES ASSUME TypeOK, [Next]_vars PROVE TypeOK'
  OBVIOUS
<1>1. ASSUME NEW s \in Schedulers, Restart(s) PROVE TypeOK'
  <2>1. locks' \in Lock!Locks /\ faults' \in 0..MaxFaults
    BY <1>1, AbandonLocks, FaultTypes DEF Restart
  <2>2. 0 \in 0..RequeueAfter /\ 0 \in 0..MaxTurn /\ Off \in Late..Off
    BY Constants
  <2>3. UNCHANGED <<stored, pending, age, slow>>
    BY <1>1 DEF Restart
  <2>4. /\ pc' \in [Schedulers -> Places] /\ timer' \in [Schedulers -> 0..RequeueAfter]
        /\ spent' \in [Schedulers -> 0..MaxTurn] /\ succeeded' \in [Schedulers -> BOOLEAN]
    BY <1>1, <2>2 DEF Restart, TypeOK, Places
  <2>5. /\ todo' \in [Schedulers -> SUBSET Instances] /\ chunk' \in [Schedulers -> SUBSET Instances]
        /\ failed' \in [Schedulers -> BOOLEAN]
    BY <1>1 DEF Restart, TypeOK
  <2>6. renew' \in [Schedulers -> [Renewers -> Late..Off]]
    BY <1>1, <2>2 DEF Restart, TypeOK
  <2> QED  BY <2>1, <2>3, <2>4, <2>5, <2>6 DEF TypeOK, Places
<1>6. ASSUME NEW s \in Schedulers, Panic(s) PROVE TypeOK'
  <2>1. faults' \in 0..MaxFaults
    BY <1>6, FaultTypes DEF Panic
  <2>2. 0 \in 0..MaxTurn /\ Off \in Late..Off
    BY Constants
  <2>3. UNCHANGED <<locks, stored, pending, age, timer, succeeded, failed, slow>>
    BY <1>6 DEF Panic
  <2>4. /\ pc' \in [Schedulers -> Places] /\ spent' \in [Schedulers -> 0..MaxTurn]
        /\ todo' \in [Schedulers -> SUBSET Instances] /\ chunk' \in [Schedulers -> SUBSET Instances]
    BY <1>6, <2>2 DEF Panic, TypeOK, Places
  <2>5. renew' \in [Schedulers -> [Renewers -> Late..Off]]
    BY <1>6, <2>2 DEF Panic, TypeOK
  <2> QED  BY <2>1, <2>3, <2>4, <2>5 DEF TypeOK, Places
<1>2. ASSUME NEW s \in Schedulers, NEW k \in Renewers, Renew(s, k) PROVE TypeOK'
  <2>1. /\ UNCHANGED <<stored, pending, age, loopVars, slow>>
        /\ Fault \/ NoFault
        /\ UNCHANGED locks \/ Lock!RenewLock(s, Leased(s, k))
        /\ \/ renew' = [renew EXCEPT ![s][k] = Renewed]
           \/ renew' = [renew EXCEPT ![s] = [j \in Renewers |-> IF j \in Ends(k) THEN Off ELSE @[j]]]
    BY <1>2 DEF Renew
  <2>2. locks' \in Lock!Locks
    BY <2>1, LeasedRows, Statement DEF TypeOK
  <2>3. renew' \in [Schedulers -> [Renewers -> Late..Off]]
    <3> DEFINE ended == [j \in Renewers |-> IF j \in Ends(k) THEN Off ELSE renew[s][j]]
    <3>1. CASE renew' = [renew EXCEPT ![s][k] = Renewed]
      BY <3>1, RenewTypes, Constants
    <3>2. CASE renew' = [renew EXCEPT ![s] = ended]
      <4>1. ended \in [Renewers -> Late..Off]
        BY Constants DEF TypeOK
      <4> HIDE DEF ended
      <4> QED  BY <3>2, <4>1 DEF TypeOK
    <3> QED  BY <2>1, <3>1, <3>2
  <2> QED  BY <2>1, <2>2, <2>3, FaultTypes DEF TypeOK, loopVars
<1>3. ASSUME NEW i \in Instances, Push(i) PROVE TypeOK'
  <2>1. age' \in [Instances -> 0..HandleActiveInstances]
    BY <1>3, Constants DEF Push, TypeOK
  <2> QED  BY <1>3, <2>1 DEF Push, TypeOK, loopVars
<1>4. CASE Tick
  <2>1. /\ \A s \in Schedulers : Resting(s) \/ spent[s] < MaxTurn
        /\ \A s \in Schedulers : pc[s] = "wait" => timer[s] > 0
        /\ Fault \/ NoFault
        /\ Lock!Elapse
        /\ age' = [i \in Instances |-> Min({age[i] + 1, HandleActiveInstances})]
        /\ timer' = [s \in Schedulers |-> IF pc[s] = "wait" THEN timer[s] - 1 ELSE timer[s]]
        /\ spent' = [s \in Schedulers |-> IF Resting(s) THEN 0 ELSE spent[s] + 1]
        /\ slow' = (slow \/ \E s \in Schedulers : spent'[s] > NormalTurn)
        /\ renew' = [s \in Schedulers |-> [k \in Renewers |->
                   IF renew[s][k] \in {Off, Late} THEN renew[s][k] ELSE renew[s][k] - 1]]
        /\ UNCHANGED <<stored, pending, pc, succeeded, todo, chunk, failed>>
    BY <1>4 DEF Tick
  <2>2. locks' \in Lock!Locks /\ faults' \in 0..MaxFaults
    BY <2>1, ElapseLocks, FaultTypes
  <2>3. age' \in [Instances -> 0..HandleActiveInstances]
    <3>1. ASSUME NEW i \in Instances
          PROVE  Min({age[i] + 1, HandleActiveInstances}) \in 0..HandleActiveInstances
      <4>1. age[i] + 1 \in Nat /\ HandleActiveInstances \in Nat
        BY Constants DEF TypeOK
      <4> QED  BY <4>1, MinOfTwo
    <3> QED  BY <2>1, <3>1
  <2>4. timer' \in [Schedulers -> 0..RequeueAfter]
    BY <2>1, Constants DEF TypeOK
  <2>5. spent' \in [Schedulers -> 0..MaxTurn]
    BY <2>1, Constants DEF TypeOK
  <2>6. slow' \in BOOLEAN
    BY <2>1, Zenon DEF TypeOK
  <2>7. renew' \in [Schedulers -> [Renewers -> Late..Off]]
    <3>1. ASSUME NEW s \in Schedulers, NEW k \in Renewers
          PROVE  (IF renew[s][k] \in {Off, Late} THEN renew[s][k] ELSE renew[s][k] - 1) \in Late..Off
      <4>1. renew[s][k] \in Late..Off
        BY DEF TypeOK
      <4> QED  BY <4>1, Constants DEF Late, Off
    <3> QED  BY <2>1, <3>1
  <2> QED  BY <2>1, <2>2, <2>3, <2>4, <2>5, <2>6, <2>7 DEF TypeOK
<1>5. CASE UNCHANGED vars
  BY <1>5 DEF vars, loopVars, TypeOK
<1> QED  BY <1>1, <1>2, <1>3, <1>4, <1>5, <1>6, LoopStepTypes DEF Next

(***************************************************************************)
(* The variables have their types: no timer, renewal, lease or age runs    *)
(* out of its range.                                                       *)
(***************************************************************************)
THEOREM TypeCorrect == Spec => []TypeOK
BY TypeInit, TypeStep, PTL DEF Spec

-----------------------------------------------------------------------------
(* LeaseInv is inductive                                                   *)

\* A renewal that is due at some time and not overdue leaves time on the lease.
LEMMA SecuredRows ==
    ASSUME LeaseInv, NEW s \in Schedulers, NEW k \in {"system", "chunk"},
           renew[s][k] \notin {Off, Late}, NEW r \in Leased(s, k)
    PROVE  /\ r \in Rows /\ locks[r].locker = s /\ locks[r].left >= renew[s][k] + 1
           /\ locks[r].left \in Nat /\ locks[r].left # 0
           /\ renew[s][k] \in 0..(RequeueAfter - 1)
<1>1. k \in Renewers
  BY DEF Renewers
<1>2. r \in Rows
  BY <1>1, LeasedRows DEF LeaseInv
<1>3. renew[s][k] \in 0..(RequeueAfter - 1)
  <2>1. renew[s][k] \in Late..Off
    BY <1>1 DEF LeaseInv, TypeOK
  <2> QED  BY <2>1, Constants DEF Late, Off
<1>4. locks[r].locker = s /\ locks[r].left >= renew[s][k] + 1
  BY DEF LeaseInv, Safe, Secured, Held
<1>5. locks[r].left \in Nat
  BY <1>2, LockTypes DEF LeaseInv
<1> QED  BY <1>2, <1>3, <1>4, <1>5

\* A renewer nothing happens to keeps its rows, unless somebody takes them.
LEMMA StaysSecured ==
    ASSUME LeaseInv, NEW s \in Schedulers, NEW k \in {"system", "chunk"},
           renew'[s][k] = renew[s][k], Leased(s, k)' = Leased(s, k),
           \A r \in Leased(s, k) : locks[r].locker = s /\ locks[r].left # 0 =>
              \/ locks'[r] = locks[r]
              \/ locks'[r].locker = s /\ locks'[r].left = RequeueAfter
    PROVE  Secured(s, k)'
<1> SUFFICES ASSUME renew[s][k] \notin {Off, Late}, NEW r \in Leased(s, k)
             PROVE  locks'[r].locker = s /\ locks'[r].left >= renew[s][k] + 1
  BY DEF Secured, Held, Off, Late
<1>1. /\ locks[r].locker = s /\ locks[r].left >= renew[s][k] + 1 /\ locks[r].left # 0
      /\ renew[s][k] \in 0..(RequeueAfter - 1)
  BY SecuredRows
<1>2. CASE locks'[r] = locks[r]
  BY <1>1, <1>2
<1>3. CASE locks'[r].locker = s /\ locks'[r].left = RequeueAfter
  BY <1>1, <1>3, Constants
<1> QED  BY <1>1, <1>2, <1>3

\* A renewer that has just got its rows.
LEMMA GetsSecured ==
    ASSUME NEW s \in Schedulers, NEW k \in {"system", "chunk"}, renew'[s][k] = Renewed,
           \A r \in Leased(s, k)' : locks'[r].locker = s /\ locks'[r].left = RequeueAfter
    PROVE  Secured(s, k)'
<1>1. RequeueAfter >= Renewed + 1
  BY Constants DEF Renewed
<1> QED  BY <1>1 DEF Secured, Held, Renewed, Off, Late

\* The other schedulers.
LEMMA OthersSafe ==
    ASSUME LeaseInv, NEW t \in Schedulers, renew'[t] = renew[t], chunk'[t] = chunk[t],
           \A r \in Rows : locks[r].locker = t /\ locks[r].left # 0 => locks'[r] = locks[r]
    PROVE  Safe(t)'
<1>1. OneInstance(t)'
  BY DEF LeaseInv, Safe, OneInstance
<1>2. ASSUME NEW k \in {"system", "chunk"} PROVE Secured(t, k)'
  <2>1. Leased(t, k)' = Leased(t, k)
    BY DEF Leased
  <2>2. Leased(t, k) \subseteq Rows
    BY LeasedRows DEF LeaseInv, Renewers
  <2> QED  BY <2>1, <2>2, StaysSecured
<1> QED  BY <1>1, <1>2 DEF Safe

\* A step of s that leaves the leases of the others alone.
LEMMA StepOf ==
    ASSUME LeaseInv, TypeOK', NEW s \in Schedulers, Safe(s)', NEW rows \in SUBSET Rows,
           \A t \in Schedulers \ {s} : renew'[t] = renew[t] /\ chunk'[t] = chunk[t],
           \/ UNCHANGED locks
           \/ Lock!RenewLock(s, rows) \/ Lock!Unlock(s, rows) \/ Lock!Abandon(s)
    PROVE  LeaseInv'
<1>1. ASSUME NEW t \in Schedulers \ {s}, NEW r \in Rows, locks[r].locker = t, locks[r].left # 0
      PROVE  locks'[r] = locks[r]
  BY <1>1, Statement, AbandonLocks DEF LeaseInv
<1>2. \A t \in Schedulers \ {s} : Safe(t)'
  BY <1>1, OthersSafe
<1> QED  BY <1>2 DEF LeaseInv

LEMMA NoLeaseTouched ==
    ASSUME LeaseInv, TypeOK', UNCHANGED <<locks, renew, chunk>> PROVE LeaseInv'
BY OthersSafe DEF LeaseInv

LEMMA LockSystemLease ==
    ASSUME LeaseInv, TypeOK', NEW s \in Schedulers, LockSystem(s) PROVE LeaseInv'
<1>1. chunk' = chunk
  BY DEF LockSystem
<1>2. CASE UNCHANGED <<locks, renew>>
  BY <1>1, <1>2, NoLeaseTouched
<1>3. CASE Lock!RenewLock(s, {System}) /\ Lock!Granted(s, {System}) = {} /\ UNCHANGED renew
  <2>1. {System} \in SUBSET Rows
    BY Constants
  <2>2. \A r \in Rows : locks'[r] = locks[r]
    BY <1>3, <2>1, Statement DEF LeaseInv, Lock!Granted
  <2> QED  BY <1>1, <1>3, <2>2, OthersSafe DEF LeaseInv
<1>4. CASE /\ Lock!RenewLock(s, {System}) /\ Lock!Granted(s, {System}) # {}
           /\ renew' = [renew EXCEPT ![s]["system"] = Renewed]
  <2>1. {System} \in SUBSET Rows
    BY Constants
  <2>2. locks[System].locker = s \/ locks[System].left = 0
    BY <1>4 DEF Lock!Granted
  <2>3. /\ locks'[System].locker = s /\ locks'[System].left = RequeueAfter
        /\ \A r \in Instances : locks'[r] = locks[r]
    <3>1. \A r \in Instances : r \in Rows \ {System}
      BY Constants
    <3> QED  BY <1>4, <2>1, <2>2, <3>1, Statement DEF LeaseInv
  <2>4. /\ renew'[s]["system"] = Renewed /\ renew'[s]["chunk"] = renew[s]["chunk"]
        /\ \A t \in Schedulers \ {s} : renew'[t] = renew[t]
    BY <1>4 DEF LeaseInv, TypeOK, Renewers
  <2>5. Secured(s, "system")'
    <3>1. \A r \in Leased(s, "system")' : r = System
      BY DEF Leased
    <3> QED  BY <2>3, <2>4, <3>1, GetsSecured
  <2>6. Secured(s, "chunk")'
    <3>1. Leased(s, "chunk")' = Leased(s, "chunk") /\ Leased(s, "chunk") \subseteq Instances
      BY <1>1 DEF Leased, LeaseInv, TypeOK
    <3> QED  BY <2>3, <2>4, <3>1, StaysSecured
  <2>7. OneInstance(s)'
    BY <1>1 DEF LeaseInv, Safe, OneInstance
  <2> QED  BY <1>1, <1>4, <2>1, <2>4, <2>5, <2>6, <2>7, StepOf DEF Safe
<1> QED  BY <1>2, <1>3, <1>4 DEF LockSystem

LEMMA InstanceIDsLease ==
    ASSUME LeaseInv, TypeOK', NEW s \in Schedulers, InstanceIDs(s) PROVE LeaseInv'
<1>1. UNCHANGED <<locks, chunk>>
  BY DEF InstanceIDs
<1>2. CASE UNCHANGED renew
  BY <1>1, <1>2, NoLeaseTouched
<1>3. ASSUME NEW m, renew' = [renew EXCEPT ![s]["leaked"] = m, ![s]["system"] = Off]
      PROVE  LeaseInv'
  <2>1. /\ renew'[s]["system"] = Off /\ renew'[s]["chunk"] = renew[s]["chunk"]
        /\ \A t \in Schedulers \ {s} : renew'[t] = renew[t]
    BY <1>3 DEF LeaseInv, TypeOK, Renewers
  <2>2. Secured(s, "system")'
    BY <2>1 DEF Secured, Off
  <2>3. Secured(s, "chunk")'
    BY <1>1, <2>1, StaysSecured DEF Leased
  <2>4. OneInstance(s)'
    BY <1>1 DEF LeaseInv, Safe, OneInstance
  <2>5. {System} \in SUBSET Rows
    BY Constants
  <2> QED  BY <1>1, <2>1, <2>2, <2>3, <2>4, <2>5, StepOf DEF Safe
<1> QED  BY <1>2, <1>3 DEF InstanceIDs

\* One instance at a time: what is granted is all that was asked for.
LEMMA OneByOne ==
    ASSUME ConcurrentInstances = 1, TypeOK, NEW s \in Schedulers,
           NEW c \in kSubset(Min({ConcurrentInstances, Cardinality(todo[s])}), todo[s])
    PROVE  c \subseteq Instances /\ \A i, j \in c : i = j
<1>1. todo[s] \subseteq Instances /\ IsFiniteSet(Instances)
  BY ScheduleAssumption DEF TypeOK
<1>2. IsFiniteSet(todo[s])
  BY <1>1, FS_Subset
<1>3. Cardinality(todo[s]) \in Nat
  BY <1>2, FS_CardinalityType
<1>4. c \subseteq todo[s] /\ Cardinality(c) = Min({1, Cardinality(todo[s])})
  BY DEF kSubset
<1>5. Cardinality(c) \in {0, 1}
  BY <1>3, <1>4, MinOfTwo
<1>6. IsFiniteSet(c)
  BY <1>2, <1>4, FS_Subset
<1>7. c = {} \/ \E x : c = {x}
  BY <1>5, <1>6, FS_EmptySet, FS_Singleton
<1> QED  BY <1>1, <1>4, <1>7

LEMMA LockInstancesLease ==
    ASSUME ConcurrentInstances = 1, LeaseInv, TypeOK', NEW s \in Schedulers, LockInstances(s)
    PROVE  LeaseInv'
<1>1. CASE UNCHANGED <<locks, renew, chunk>>
  BY <1>1, NoLeaseTouched
<1>2. ASSUME NEW c \in kSubset(Min({ConcurrentInstances, Cardinality(todo[s])}), todo[s]),
             Lock!Granted(s, c) # {}, Lock!RenewLock(s, c),
             renew' = [renew EXCEPT ![s]["chunk"] = Renewed], chunk' = [chunk EXCEPT ![s] = c]
      PROVE  LeaseInv'
  <2>1. c \subseteq Instances /\ \A i, j \in c : i = j
    BY OneByOne DEF LeaseInv
  <2>2. c \in SUBSET Rows /\ System \notin c /\ System \in Rows
    BY <2>1, Constants
  <2>3. \A r \in c : locks[r].locker = s \/ locks[r].left = 0
    BY <1>2, <2>1 DEF Lock!Granted
  <2>4. /\ \A r \in c : locks'[r].locker = s /\ locks'[r].left = RequeueAfter
        /\ locks'[System] = locks[System]
    BY <1>2, <2>2, <2>3, Statement DEF LeaseInv
  <2>5. /\ renew'[s]["chunk"] = Renewed /\ renew'[s]["system"] = renew[s]["system"]
        /\ chunk'[s] = c
        /\ \A t \in Schedulers \ {s} : renew'[t] = renew[t] /\ chunk'[t] = chunk[t]
    BY <1>2 DEF LeaseInv, TypeOK, Renewers
  <2>6. Secured(s, "chunk")'
    <3>1. Leased(s, "chunk")' = c
      BY <2>5 DEF Leased
    <3> QED  BY <2>4, <2>5, <3>1, GetsSecured
  <2>7. Secured(s, "system")'
    <3>1. Leased(s, "system")' = {System} /\ Leased(s, "system") = {System}
      BY DEF Leased
    <3> QED  BY <2>4, <2>5, <3>1, StaysSecured
  <2>8. OneInstance(s)'
    BY <2>1, <2>5 DEF OneInstance
  <2> QED  BY <1>2, <2>2, <2>5, <2>6, <2>7, <2>8, StepOf DEF Safe
<1> QED  BY <1>1, <1>2 DEF LockInstances

\* The lease of the instances ends, and that of the system goes on.
LEMMA TriggerLease ==
    ASSUME LeaseInv, TypeOK', NEW s \in Schedulers, Trigger(s) PROVE LeaseInv'
<1>1. UNCHANGED <<locks, chunk>> /\ renew' = [renew EXCEPT ![s]["chunk"] = Off]
  BY DEF Trigger
<1>2. /\ renew'[s]["chunk"] = Off /\ renew'[s]["system"] = renew[s]["system"]
      /\ \A t \in Schedulers \ {s} : renew'[t] = renew[t]
  BY <1>1 DEF LeaseInv, TypeOK, Renewers
<1>3. Secured(s, "chunk")'
  BY <1>2 DEF Secured, Off
<1>4. Secured(s, "system")'
  BY <1>1, <1>2, StaysSecured DEF Leased
<1>5. OneInstance(s)'
  BY <1>1 DEF LeaseInv, Safe, OneInstance
<1>6. {System} \in SUBSET Rows
  BY Constants
<1> QED  BY <1>1, <1>2, <1>3, <1>4, <1>5, <1>6, StepOf DEF Safe

LEMMA UnlockInstancesLease ==
    ASSUME LeaseInv, TypeOK', NEW s \in Schedulers, UnlockInstances(s) PROVE LeaseInv'
<1>1. /\ chunk' = [chunk EXCEPT ![s] = {}] /\ UNCHANGED renew
      /\ UNCHANGED locks \/ Lock!Unlock(s, chunk[s])
  BY DEF UnlockInstances
<1>2. chunk'[s] = {} /\ \A t \in Schedulers \ {s} : chunk'[t] = chunk[t]
  BY <1>1 DEF LeaseInv, TypeOK
<1>3. chunk[s] \in SUBSET Rows /\ System \in Rows \ chunk[s]
  BY Constants DEF LeaseInv, TypeOK
<1>4. locks'[System] = locks[System]
  BY <1>1, <1>3, Statement DEF LeaseInv
<1>5. Secured(s, "chunk")' /\ OneInstance(s)'
  BY <1>2 DEF Secured, Held, Leased, OneInstance
<1>6. Secured(s, "system")'
  <2>1. Leased(s, "system")' = {System} /\ Leased(s, "system") = {System}
    BY DEF Leased
  <2> QED  BY <1>1, <1>4, <2>1, StaysSecured
<1> QED  BY <1>1, <1>2, <1>3, <1>5, <1>6, StepOf DEF Safe

LEMMA ReleaseLease ==
    ASSUME LeaseInv, TypeOK', NEW s \in Schedulers, Release(s) PROVE LeaseInv'
<1>1. /\ renew' = [renew EXCEPT ![s]["system"] = Off] /\ UNCHANGED chunk
      /\ UNCHANGED locks \/ Lock!Unlock(s, {System})
  BY DEF Release
<1>2. /\ renew'[s]["system"] = Off /\ renew'[s]["chunk"] = renew[s]["chunk"]
      /\ \A t \in Schedulers \ {s} : renew'[t] = renew[t]
  BY <1>1 DEF LeaseInv, TypeOK, Renewers
<1>3. {System} \in SUBSET Rows /\ \A r \in Instances : r \in Rows \ {System}
  BY Constants
<1>4. \A r \in Instances : locks'[r] = locks[r]
  BY <1>1, <1>3, Statement DEF LeaseInv
<1>5. Secured(s, "system")'
  BY <1>2 DEF Secured, Off
<1>6. Secured(s, "chunk")'
  <2>1. Leased(s, "chunk")' = Leased(s, "chunk") /\ Leased(s, "chunk") \subseteq Instances
    BY <1>1 DEF Leased, LeaseInv, TypeOK
  <2> QED  BY <1>2, <1>4, <2>1, StaysSecured
<1>7. OneInstance(s)'
  BY <1>1 DEF LeaseInv, Safe, OneInstance
<1> QED  BY <1>1, <1>2, <1>3, <1>5, <1>6, <1>7, StepOf DEF Safe

\* A process that has ended its loop or was restarted works on nothing; its rows stay locked.
LEMMA RestartLease ==
    ASSUME LeaseInv, TypeOK', NEW s \in Schedulers, Panic(s) \/ Restart(s) PROVE LeaseInv'
<1>1. /\ renew' = [renew EXCEPT ![s] = [k \in Renewers |-> Off]]
      /\ chunk' = [chunk EXCEPT ![s] = {}]
      /\ UNCHANGED locks \/ Lock!Abandon(s)
  BY DEF Panic, Restart
<1>2. /\ renew'[s]["system"] = Off /\ renew'[s]["chunk"] = Off /\ chunk'[s] = {}
      /\ \A t \in Schedulers \ {s} : renew'[t] = renew[t] /\ chunk'[t] = chunk[t]
  BY <1>1 DEF LeaseInv, TypeOK, Renewers
<1>3. Safe(s)'
  BY <1>2 DEF Safe, Secured, OneInstance, Off
<1>4. {System} \in SUBSET Rows
  BY Constants
<1> QED  BY <1>1, <1>2, <1>3, <1>4, StepOf

\* All rows of a lease are granted when one is.
LEMMA RenewLease ==
    ASSUME LeaseInv, TypeOK', NEW s \in Schedulers, NEW k \in Renewers, Renew(s, k)
    PROVE  LeaseInv'
<1>1. chunk' = chunk
  BY DEF Renew, loopVars
<1>2. OneInstance(s)'
  BY <1>1 DEF LeaseInv, Safe, OneInstance
<1>3. \A j \in {"system", "chunk"} : Leased(s, j)' = Leased(s, j)
  BY <1>1 DEF Leased
<1>4. Leased(s, k) \in SUBSET Rows
  BY LeasedRows DEF LeaseInv
<1>5. CASE /\ Lock!Granted(s, Leased(s, k)) # {} /\ Lock!RenewLock(s, Leased(s, k))
           /\ renew' = [renew EXCEPT ![s][k] = Renewed]
  <2>1. /\ renew'[s][k] = Renewed /\ \A j \in Renewers \ {k} : renew'[s][j] = renew[s][j]
        /\ \A t \in Schedulers \ {s} : renew'[t] = renew[t]
    BY <1>5 DEF LeaseInv, TypeOK
  <2>2. \A i, j \in Leased(s, k) : i = j
    BY DEF LeaseInv, Safe, OneInstance, Leased
  <2>3. \A r \in Leased(s, k) : locks[r].locker = s \/ locks[r].left = 0
    BY <1>5, <2>2 DEF Lock!Granted
  <2>4. \A r \in Leased(s, k) : locks'[r].locker = s /\ locks'[r].left = RequeueAfter
    BY <1>4, <1>5, <2>3, Statement DEF LeaseInv
  <2>5. \A r \in Rows \ Leased(s, k) : locks'[r] = locks[r]
    BY <1>4, <1>5, Statement DEF LeaseInv
  <2>6. ASSUME NEW j \in {"system", "chunk"} PROVE Secured(s, j)'
    <3>1. j \in Renewers /\ Leased(s, j) \subseteq Rows
      BY LeasedRows DEF Renewers, LeaseInv
    <3>2. CASE j = k
      BY <1>3, <2>1, <2>4, <2>6, <3>2, GetsSecured
    <3>3. CASE j # k
      <4>1. renew'[s][j] = renew[s][j]
        BY <2>1, <3>1, <3>3
      <4>2. \A r \in Leased(s, j) : \/ locks'[r] = locks[r]
                                    \/ locks'[r].locker = s /\ locks'[r].left = RequeueAfter
        BY <2>4, <2>5, <3>1
      <4> QED  BY <1>3, <2>6, <4>1, <4>2, StaysSecured
    <3> QED  BY <3>2, <3>3
  <2> QED  BY <1>1, <1>2, <1>4, <1>5, <2>1, <2>6, StepOf DEF Safe
<1>6. CASE /\ renew' = [renew EXCEPT ![s] = [j \in Renewers |-> IF j \in Ends(k) THEN Off ELSE @[j]]]
           /\ UNCHANGED locks
  <2>1. /\ \A j \in Renewers : renew'[s][j] = Off \/ renew'[s][j] = renew[s][j]
        /\ \A t \in Schedulers \ {s} : renew'[t] = renew[t]
    <3> DEFINE ended == [j \in Renewers |-> IF j \in Ends(k) THEN Off ELSE renew[s][j]]
    <3>1. renew' = [renew EXCEPT ![s] = ended]
      BY <1>6
    <3>2. \A j \in Renewers : ended[j] = Off \/ ended[j] = renew[s][j]
      OBVIOUS
    <3> HIDE DEF ended
    <3> QED  BY <3>1, <3>2 DEF LeaseInv, TypeOK
  <2>2. ASSUME NEW j \in {"system", "chunk"} PROVE Secured(s, j)'
    <3>1. j \in Renewers
      BY DEF Renewers
    <3>2. CASE renew'[s][j] = Off
      BY <3>2 DEF Secured, Off
    <3>3. CASE renew'[s][j] = renew[s][j]
      BY <1>3, <1>6, <2>2, <3>3, StaysSecured
    <3> QED  BY <2>1, <3>1, <3>2, <3>3
  <2> QED  BY <1>1, <1>2, <1>4, <1>6, <2>1, <2>2, StepOf DEF Safe
<1> QED  BY <1>5, <1>6 DEF Renew

\* The renewal and the lease come closer by the same unit.
LEMMA TickLease == ASSUME LeaseInv, TypeOK', Tick PROVE LeaseInv'
<1>1. /\ UNCHANGED chunk /\ Lock!Elapse
      /\ renew' = [s \in Schedulers |-> [k \in Renewers |->
                   IF renew[s][k] \in {Off, Late} THEN renew[s][k] ELSE renew[s][k] - 1]]
  BY DEF Tick
<1>2. ASSUME NEW s \in Schedulers, NEW k \in {"system", "chunk"} PROVE Secured(s, k)'
  <2>1. k \in Renewers
    BY DEF Renewers
  <2>2. renew'[s][k] = IF renew[s][k] \in {Off, Late} THEN renew[s][k] ELSE renew[s][k] - 1
    BY <1>1, <2>1
  <2>3. Leased(s, k)' = Leased(s, k)
    BY <1>1 DEF Leased
  <2> SUFFICES ASSUME renew'[s][k] \notin {Off, Late}, NEW r \in Leased(s, k)
               PROVE  locks'[r].locker = s /\ locks'[r].left >= renew'[s][k] + 1
    BY <2>3 DEF Secured, Held, Off, Late
  <2>4. renew[s][k] \notin {Off, Late} /\ renew'[s][k] = renew[s][k] - 1
    BY <2>2
  <2>5. /\ r \in Rows /\ locks[r].locker = s /\ locks[r].left >= renew[s][k] + 1
        /\ locks[r].left \in Nat /\ renew[s][k] \in 0..(RequeueAfter - 1)
    BY <1>2, <2>4, SecuredRows
  <2>6. renew[s][k] >= 1
    BY <2>4, <2>5 DEF Late
  <2>7. locks[r].left > 1
    BY <2>5, <2>6
  <2>8. locks'[r].left = locks[r].left - 1 /\ locks'[r].locker = s
    BY <1>1, <2>5, <2>7, ElapseLocks DEF LeaseInv
  <2> QED  BY <2>4, <2>5, <2>8
<1>3. ASSUME NEW s \in Schedulers PROVE OneInstance(s)'
  BY <1>1 DEF LeaseInv, Safe, OneInstance
<1> QED  BY <1>2, <1>3 DEF LeaseInv, Safe

LEMMA LeaseStep == ASSUME ConcurrentInstances = 1 PROVE LeaseInv /\ [Next]_vars => LeaseInv'
<1> SUFFICES ASSUME LeaseInv, [Next]_vars PROVE LeaseInv'
  OBVIOUS
<1>1. TypeOK'
  BY TypeStep DEF LeaseInv
<1>2. ASSUME NEW s \in Schedulers, Loop(s) PROVE LeaseInv'
  <2>1. CASE Fire(s)
    BY <1>1, <2>1, NoLeaseTouched DEF Fire
  <2>2. CASE Finish(s)
    BY <1>1, <2>2, NoLeaseTouched DEF Finish
  <2> QED  BY <1>1, <1>2, <2>1, <2>2, LockSystemLease, InstanceIDsLease, LockInstancesLease,
              TriggerLease, UnlockInstancesLease, ReleaseLease DEF Loop
<1>3. ASSUME NEW i \in Instances, Push(i) PROVE LeaseInv'
  BY <1>1, <1>3, NoLeaseTouched DEF Push, loopVars
<1>4. CASE UNCHANGED vars
  BY <1>1, <1>4, NoLeaseTouched DEF vars, loopVars
<1> QED  BY <1>1, <1>2, <1>3, <1>4, RestartLease, RenewLease, TickLease DEF Next

LEMMA LeaseInit == Init => LeaseInv
<1> SUFFICES ASSUME Init PROVE LeaseInv
  OBVIOUS
<1>1. ASSUME NEW s \in Schedulers PROVE Safe(s)
  <2>1. chunk[s] = {} /\ renew[s]["system"] = Off /\ renew[s]["chunk"] = Off
    BY DEF Init, Renewers
  <2> QED  BY <2>1 DEF Safe, Secured, OneInstance
<1> QED  BY <1>1, TypeInit DEF LeaseInv

\* Two schedulers on one row: the lease of one of them is not held, so its renewal is overdue.
LEMMA LeasesExclude == LeaseInv => Exclusive
<1> SUFFICES ASSUME LeaseInv, NEW s \in Schedulers, NEW t \in Schedulers, NEW r \in Rows,
                    s # t, WorksOn(s, r), WorksOn(t, r)
             PROVE  \E u \in {s, t}, k \in {"system", "chunk"} : r \in Leased(u, k) /\ renew[u][k] = Late
  BY DEF Exclusive
<1>1. ASSUME NEW u \in {s, t} PROVE \E k \in {"system", "chunk"} : r \in Leased(u, k) /\ renew[u][k] # Off
  BY DEF WorksOn, Leased
<1>2. PICK j \in {"system", "chunk"} : r \in Leased(s, j) /\ renew[s][j] # Off
  BY <1>1
<1>3. PICK k \in {"system", "chunk"} : r \in Leased(t, k) /\ renew[t][k] # Off
  BY <1>1
<1>4. renew[s][j] = Late \/ locks[r].locker = s
  BY <1>2, SecuredRows
<1>5. renew[t][k] = Late \/ locks[r].locker = t
  BY <1>3, SecuredRows
<1> QED  BY <1>2, <1>3, <1>4, <1>5

(***************************************************************************)
(* With one instance at a time (Projections.ConcurrentInstances of the     *)
(* defaults), two processes work on an instance or on the first schedule   *)
(* together only while the renewal of one of them is overdue: for any      *)
(* number of processes, instances and faults and any pause between turns.  *)
(***************************************************************************)
THEOREM ExclusiveWork == ASSUME ConcurrentInstances = 1 PROVE Spec => []Exclusive
<1>1. Init => LeaseInv
  BY LeaseInit
<1>2. LeaseInv /\ [Next]_vars => LeaseInv'
  BY LeaseStep
<1>3. LeaseInv => Exclusive
  BY LeasesExclude
<1> QED  BY <1>1, <1>2, <1>3, PTL DEF Spec

-----------------------------------------------------------------------------
(* The window                                                              *)

(***************************************************************************)
(* What WindowSuffices rests on, as long as nothing has failed and turns   *)
(* are short.  A scheduler that has to leave an instance out because       *)
(* another one has it locked relies on that other one: either it will      *)
(* still handle the events, or it has handled the instance in this turn    *)
(* and an event that is left is younger than the turn, so that the other   *)
(* one finds the instance in its window when it asks for instances again.  *)
(***************************************************************************)
InTurn == {"next", "trigger", "unlock", "release"}
Calm == faults = 0 /\ ~slow

\* The first schedule of s goes on under the lock of the system.
First(s) == ~succeeded[s] /\ pc[s] \in InTurn \cup {"ids"}

OnTime(s) ==
    /\ renew[s]["leaked"] = Off /\ \A k \in Renewers : renew[s][k] # Late
    /\ spent[s] <= NormalTurn /\ pc[s] # "ended"
    /\ renew[s]["chunk"] # Off <=> pc[s] = "trigger"
    /\ renew[s]["system"] # Off <=> First(s)
    /\ pc[s] = "lock" => ~succeeded[s]

\* A part of the rows of each lease is held until after the next renewal, which is granted then.
PartHeld(s, k) ==
    renew[s][k] # Off =>
        \E r \in Leased(s, k) : locks[r].locker = s /\ locks[r].left >= renew[s][k] + 1

\* A lock is held by a scheduler that has the instance in hand.
InHand(t, r) == r \in chunk[t] /\ pc[t] \in {"trigger", "unlock"}
Owned(r) == locks[r].left # 0 => locks[r].locker \in Schedulers /\ InHand(locks[r].locker, r)

Emptied(s) ==
    /\ todo[s] # {} => pc[s] \in {"next", "trigger", "unlock"}
    /\ chunk[s] # {} => pc[s] \in {"trigger", "unlock"}

Remembered(s) ==
    /\ succeeded[s] => stored
    /\ pc[s] = "release" /\ ~failed[s] => stored

\* s will handle the events of i in this turn.
Takes(s, i) == i \in todo[s] \/ (i \in chunk[s] /\ pc[s] = "trigger")

\* What a first schedule without failures has behind it is younger than its turn, and so is
\* what has come to the instances in hand since they were triggered.
Younger(s) ==
    /\ pc[s] \in InTurn \ {"release"} /\ ~succeeded[s] /\ ~failed[s] =>
          \A i \in pending : Takes(s, i) \/ age[i] <= spent[s]
    /\ pc[s] = "unlock" => \A i \in pending \cap chunk[s] : age[i] <= spent[s]

\* How long it takes at most until s asks for the instances again.
Until(s) ==
    CASE pc[s] = "wait" -> timer[s] + NormalTurn
      [] pc[s] = "ids" -> NormalTurn - spent[s]
      [] OTHER -> NormalTurn - spent[s] + RequeueAfter + NormalTurn

InTime(s, i) == pc[s] # "lock" /\ age[i] + Until(s) < HandleActiveInstances
Covered(i) == \E s \in Schedulers : Takes(s, i) \/ InTime(s, i)

Fine(s) ==
    /\ OnTime(s) /\ PartHeld(s, "system") /\ PartHeld(s, "chunk")
    /\ Emptied(s) /\ Remembered(s) /\ Younger(s)

CalmInv ==
    /\ \A s \in Schedulers : Fine(s)
    /\ \A r \in Instances : Owned(r)
    /\ stored => /\ \E s \in Schedulers : pc[s] # "lock"
                 /\ \A i \in pending : Covered(i)

WindowInv == TypeOK /\ (Calm => CalmInv)

WideWindow == HandleActiveInstances > RequeueAfter + 2 * NormalTurn

-----------------------------------------------------------------------------
(* Steps of one scheduler                                                  *)

\* Nothing happens in the loop and to the renewals of t.
Same(t) ==
    /\ pc'[t] = pc[t] /\ timer'[t] = timer[t] /\ spent'[t] = spent[t]
    /\ succeeded'[t] = succeeded[t] /\ failed'[t] = failed[t]
    /\ todo'[t] = todo[t] /\ chunk'[t] = chunk[t] /\ renew'[t] = renew[t]

\* What a step leaves alone of the rows of t.
KeepsRows(t) == \A r \in Rows : locks[r].locker = t /\ locks[r].left # 0 => locks'[r] = locks[r]

LEMMA LoopFacts ==
    ASSUME TypeOK, NEW s \in Schedulers
    PROVE  /\ timer[s] \in 0..RequeueAfter /\ spent[s] \in Nat /\ pc[s] \in Places
           /\ todo[s] \subseteq Instances /\ chunk[s] \subseteq Instances
           /\ \A k \in Renewers : renew[s][k] \in Late..Off /\ (renew[s][k] # Late => renew[s][k] \in Nat)
           /\ \A i \in Instances : age[i] \in 0..HandleActiveInstances
<1>1. \A k \in Renewers : renew[s][k] \in Late..Off
  BY DEF TypeOK
<1>2. \A k \in Renewers : renew[s][k] # Late => renew[s][k] \in Nat
  BY <1>1, Constants DEF Late, Off
<1>3. spent[s] \in Nat
  BY Constants DEF TypeOK
<1> QED  BY <1>1, <1>2, <1>3 DEF TypeOK, Places

\* The rows of a lease that were held are still held.
LEMMA PartKept ==
    ASSUME TypeOK, NEW t \in Schedulers, NEW k \in {"system", "chunk"}, PartHeld(t, k),
           renew[t][k] # Late, renew'[t][k] = renew[t][k], Leased(t, k)' = Leased(t, k),
           \A r \in Leased(t, k) : locks[r].locker = t /\ locks[r].left # 0 =>
              locks'[r] = locks[r] \/ (locks'[r].locker = t /\ locks'[r].left = RequeueAfter)
    PROVE  PartHeld(t, k)'
<1> SUFFICES ASSUME renew[t][k] # Off
             PROVE  \E r \in Leased(t, k) : locks'[r].locker = t /\ locks'[r].left >= renew[t][k] + 1
  BY DEF PartHeld, Off
<1>1. k \in Renewers
  BY DEF Renewers
<1>2. renew[t][k] \in Nat /\ renew[t][k] + 1 <= RequeueAfter
  <2>1. renew[t][k] \in Late..Off /\ renew[t][k] \in Nat
    BY <1>1, LoopFacts
  <2> QED  BY <2>1, Constants DEF Off, Late
<1>3. PICK r \in Leased(t, k) : locks[r].locker = t /\ locks[r].left >= renew[t][k] + 1
  BY DEF PartHeld
<1>4. r \in Rows
  BY <1>1, LeasedRows
<1>5. locks[r].left \in Nat
  BY <1>4, LockTypes
<1>6. locks[r].left # 0
  BY <1>2, <1>3, <1>5
<1> QED  BY <1>2, <1>3, <1>6

LEMMA OthersFine ==
    ASSUME TypeOK, NEW t \in Schedulers, Fine(t), Same(t), KeepsRows(t),
           stored => stored', pending' \subseteq pending, age' = age
    PROVE  Fine(t)'
<1>1. OnTime(t)'
  BY Zenon DEF Fine, OnTime, Same, First, Off, Late
<1>2. ASSUME NEW k \in {"system", "chunk"} PROVE PartHeld(t, k)'
  <2>1. Leased(t, k)' = Leased(t, k) /\ k \in Renewers
    BY DEF Leased, Same, Renewers
  <2>2. Leased(t, k) \subseteq Rows
    BY <2>1, LeasedRows
  <2>3. renew'[t][k] = renew[t][k] /\ renew[t][k] # Late
    BY <2>1 DEF Same, Fine, OnTime
  <2>4. PartHeld(t, k)
    BY <1>2 DEF Fine
  <2> QED  BY <1>2, <2>1, <2>2, <2>3, <2>4, PartKept DEF KeepsRows
<1>3. Emptied(t)'
  BY DEF Fine, Emptied, Same
<1>4. Remembered(t)'
  BY Zenon DEF Fine, Remembered, Same
<1>5. Younger(t)'
  BY Zenon DEF Fine, Younger, Takes, Same
<1> QED  BY <1>1, <1>2, <1>3, <1>4, <1>5 DEF Fine

\* Who covers an instance and is not touched goes on covering it.
LEMMA OthersCover ==
    ASSUME NEW t, Same(t), age' = age, NEW i
    PROVE  /\ Takes(t, i) => Takes(t, i)'
           /\ InTime(t, i) => InTime(t, i)'
BY DEF Takes, InTime, Until, Same

(***************************************************************************)
(* A step of s that is not its first Finish.                               *)
(***************************************************************************)
LEMMA StepOfOne ==
    ASSUME TypeOK, CalmInv, NEW s \in Schedulers, Fine(s)',
           \A t \in Schedulers \ {s} : Same(t) /\ KeepsRows(t),
           \A r \in Instances : Owned(r)',
           stored' = stored, pending' \subseteq pending, age' = age,
           stored /\ pc[s] # "lock" => pc'[s] # "lock",
           stored => \A i \in pending' : Takes(s, i) \/ InTime(s, i) => Covered(i)'
    PROVE  CalmInv'
<1>1. \A t \in Schedulers : Fine(t)'
  BY OthersFine DEF CalmInv
<1>2. ASSUME stored PROVE \E t \in Schedulers : pc'[t] # "lock"
  BY <1>2 DEF CalmInv, Same
<1>3. ASSUME stored, NEW i \in pending' PROVE Covered(i)'
  <2>1. PICK t \in Schedulers : Takes(t, i) \/ InTime(t, i)
    BY <1>3 DEF CalmInv, Covered
  <2>2. CASE t = s
    BY <1>3, <2>1, <2>2
  <2>3. CASE t # s
    BY <2>1, <2>3, OthersCover DEF Covered
  <2> QED  BY <2>2, <2>3
<1> QED  BY <1>1, <1>2, <1>3 DEF CalmInv

LEMMA GotoFacts ==
    ASSUME TypeOK, NEW s \in Schedulers, NEW where, Goto(s, where)
    PROVE  /\ pc'[s] = where /\ timer'[s] = timer[s] /\ spent'[s] = spent[s]
           /\ \A t \in Schedulers \ {s} : pc'[t] = pc[t] /\ timer'[t] = timer[t] /\ spent'[t] = spent[t]
BY DEF Goto, TypeOK

LEMMA RequeueFacts ==
    ASSUME TypeOK, NEW s \in Schedulers, Requeue(s)
    PROVE  /\ pc'[s] = "wait" /\ timer'[s] = RequeueAfter /\ spent'[s] = 0
           /\ \A t \in Schedulers \ {s} : pc'[t] = pc[t] /\ timer'[t] = timer[t] /\ spent'[t] = spent[t]
BY DEF Requeue, TypeOK

\* Nothing is locked or unlocked, and s keeps what it has in hand.
LEMMA OwnedKept ==
    ASSUME CalmInv, NEW s \in Schedulers, \A r \in Instances : locks'[r] = locks[r],
           \A t \in Schedulers \ {s} : pc'[t] = pc[t] /\ chunk'[t] = chunk[t],
           \A r \in Instances : InHand(s, r) => InHand(s, r)',
           NEW r \in Instances
    PROVE  Owned(r)'
<1>1. \A t \in Schedulers : InHand(t, r) => InHand(t, r)'
  BY DEF InHand
<1> QED  BY <1>1 DEF CalmInv, Owned

LEMMA FireCalm ==
    ASSUME TypeOK, CalmInv, NEW s \in Schedulers, Fire(s), NoFault PROVE CalmInv'
<1>1. /\ pc[s] = "wait" /\ timer[s] = 0
      /\ UNCHANGED <<locks, stored, pending, age, todo, chunk, failed, renew, slow>>
  BY DEF Fire
<1>2. /\ succeeded' = [succeeded EXCEPT ![s] = @ \/ stored]
      /\ Goto(s, IF succeeded'[s] THEN "ids" ELSE "lock")
  <2>1. ~Fault
    BY DEF Fault, NoFault, TypeOK
  <2> QED  BY <2>1 DEF Fire
<1>3. /\ succeeded'[s] <=> succeeded[s] \/ stored
      /\ \A t \in Schedulers \ {s} : succeeded'[t] = succeeded[t]
  BY <1>2, Zenon DEF TypeOK
<1>4. /\ pc'[s] = IF succeeded'[s] THEN "ids" ELSE "lock"
      /\ timer'[s] = timer[s] /\ spent'[s] = spent[s]
      /\ \A t \in Schedulers \ {s} : pc'[t] = pc[t] /\ timer'[t] = timer[t] /\ spent'[t] = spent[t]
  BY <1>2, GotoFacts
<1>5. Fine(s)
  BY DEF CalmInv
<1>6. succeeded[s] => stored
  BY <1>5 DEF Fine, Remembered
<1>7. renew[s]["chunk"] = Off /\ renew[s]["system"] = Off /\ todo[s] = {} /\ chunk[s] = {}
  BY <1>1, <1>5 DEF Fine, OnTime, First, InTurn, Emptied
<1>8. Fine(s)'
  <2>1. OnTime(s)'
    <3>1. ~First(s)'
      BY <1>4 DEF First, InTurn
    <3>2. pc'[s] # "trigger" /\ (pc'[s] = "lock" => ~succeeded'[s])
      BY <1>4
    <3> QED  BY <1>1, <1>4, <1>5, <1>7, <3>1, <3>2 DEF OnTime, Fine, Off
  <2>2. PartHeld(s, "system")' /\ PartHeld(s, "chunk")'
    BY <1>1, <1>7 DEF PartHeld, Off
  <2>3. Emptied(s)' /\ Remembered(s)'
    BY <1>1, <1>3, <1>4, <1>6, <1>7 DEF Emptied, Remembered
  <2>4. Younger(s)'
    BY <1>4 DEF Younger, InTurn
  <2> QED  BY <2>1, <2>2, <2>3, <2>4 DEF Fine
<1>9. ASSUME NEW r \in Instances PROVE Owned(r)'
  BY <1>1, <1>4, <1>9, OwnedKept DEF InHand
<1>10. ASSUME stored, NEW i \in pending, Takes(s, i) \/ InTime(s, i) PROVE Covered(i)'
  <2>1. InTime(s, i)
    BY <1>1, <1>7, <1>10 DEF Takes
  <2>2. age[i] \in Nat /\ spent[s] \in Nat /\ NormalTurn \in Nat /\ HandleActiveInstances \in Nat
    BY LoopFacts, ScheduleAssumption DEF TypeOK
  <2>3. pc'[s] = "ids"
    BY <1>3, <1>4, <1>10
  <2>4. InTime(s, i)'
    BY <1>1, <1>4, <2>1, <2>2, <2>3 DEF InTime, Until
  <2> QED  BY <2>4 DEF Covered
<1>11. \A t \in Schedulers \ {s} : Same(t) /\ KeepsRows(t)
  BY <1>1, <1>3, <1>4 DEF Same, KeepsRows
<1>12. stored => pc'[s] # "lock"
  BY <1>3, <1>4
<1> QED  BY <1>1, <1>8, <1>9, <1>10, <1>11, <1>12, StepOfOne

LEMMA LockSystemCalm ==
    ASSUME TypeOK, CalmInv, NEW s \in Schedulers, LockSystem(s), NoFault PROVE CalmInv'
<1>1. /\ pc[s] = "lock"
      /\ UNCHANGED <<stored, pending, age, succeeded, todo, chunk, failed, slow>>
  BY DEF LockSystem
<1>2. /\ Lock!RenewLock(s, {System})
      /\ \/ /\ Lock!Granted(s, {System}) # {} /\ Goto(s, "ids")
            /\ renew' = [renew EXCEPT ![s]["system"] = Renewed]
         \/ Requeue(s) /\ UNCHANGED renew
  <2>1. ~Fault
    BY DEF Fault, NoFault, TypeOK
  <2> QED  BY <2>1 DEF LockSystem
<1>3. {System} \in SUBSET Rows /\ System \in Rows /\ \A r \in Instances : r \in Rows \ {System}
  BY Constants
<1>4. /\ \A r \in Rows : locks[r].locker # s /\ locks[r].left # 0 => locks'[r] = locks[r]
      /\ \A r \in Instances : locks'[r] = locks[r]
  BY <1>2, <1>3, Statement
<1>5. Fine(s)
  BY DEF CalmInv
<1>6. /\ renew[s]["chunk"] = Off /\ renew[s]["system"] = Off /\ todo[s] = {} /\ chunk[s] = {}
      /\ ~succeeded[s]
  BY <1>1, <1>5 DEF Fine, OnTime, First, InTurn, Emptied
<1>7. /\ \A t \in Schedulers \ {s} : pc'[t] = pc[t] /\ timer'[t] = timer[t] /\ spent'[t] = spent[t]
      /\ pc'[s] \in {"ids", "wait"} /\ spent'[s] \in {0, spent[s]}
  BY <1>2, GotoFacts, RequeueFacts
<1>8. \A t \in Schedulers \ {s} : renew'[t] = renew[t]
  BY <1>2 DEF TypeOK
<1>9. Fine(s)'
  <2>1. CASE Lock!Granted(s, {System}) # {} /\ Goto(s, "ids") /\ renew' = [renew EXCEPT ![s]["system"] = Renewed]
    <3>1. pc'[s] = "ids" /\ spent'[s] = spent[s]
      BY <2>1, GotoFacts
    <3>2. renew'[s]["system"] = Renewed /\ \A k \in Renewers \ {"system"} : renew'[s][k] = renew[s][k]
      BY <2>1 DEF TypeOK, Renewers
    <3>3. Renewed # Off /\ Renewed # Late
      BY Constants DEF Renewed, Off, Late
    <3>4. OnTime(s)'
      <4>1. First(s)'
        BY <1>1, <1>6, <3>1 DEF First
      <4>2. renew'[s]["leaked"] = Off /\ renew'[s]["chunk"] = Off /\ \A k \in Renewers : renew'[s][k] # Late
        BY <1>5, <1>6, <3>2, <3>3, RenewerNames DEF Fine, OnTime
      <4>3. spent'[s] <= NormalTurn
        BY <1>5, <3>1 DEF Fine, OnTime
      <4> QED  BY <3>1, <3>2, <3>3, <4>1, <4>2, <4>3 DEF OnTime, Off, Late
    <3>5. PartHeld(s, "system")'
      <4>1. locks'[System].locker = s /\ locks'[System].left = RequeueAfter
        BY <1>2, <1>3, <2>1, Statement DEF Lock!Granted
      <4>2. RequeueAfter >= Renewed + 1
        BY Constants DEF Renewed
      <4>3. System \in Leased(s, "system")'
        BY DEF Leased
      <4> QED  BY <3>2, <4>1, <4>2, <4>3 DEF PartHeld
    <3>6. PartHeld(s, "chunk")'
      BY <1>6, <3>2, RenewerNames DEF PartHeld, Off
    <3>7. Emptied(s)' /\ Remembered(s)' /\ Younger(s)'
      BY <1>1, <1>6, <3>1 DEF Emptied, Remembered, Younger, InTurn
    <3> QED  BY <3>4, <3>5, <3>6, <3>7 DEF Fine
  <2>2. CASE Requeue(s) /\ UNCHANGED renew
    <3>1. pc'[s] = "wait" /\ spent'[s] = 0
      BY <2>2, RequeueFacts
    <3>2. OnTime(s)'
      BY <1>1, <1>5, <1>6, <2>2, <3>1, ScheduleAssumption DEF Fine, OnTime, First, InTurn, Off, Late
    <3>3. PartHeld(s, "system")' /\ PartHeld(s, "chunk")'
      BY <1>6, <2>2 DEF PartHeld, Off
    <3>4. Emptied(s)' /\ Remembered(s)' /\ Younger(s)'
      BY <1>1, <1>6, <3>1 DEF Emptied, Remembered, Younger, InTurn
    <3> QED  BY <3>2, <3>3, <3>4 DEF Fine
  <2> QED  BY <1>2, <2>1, <2>2
<1>10. ASSUME NEW r \in Instances PROVE Owned(r)'
  BY <1>1, <1>4, <1>7, <1>10, OwnedKept DEF InHand
<1>11. \A i : ~Takes(s, i) /\ ~InTime(s, i)
  BY <1>1, <1>6 DEF Takes, InTime
<1>12. \A t \in Schedulers \ {s} : Same(t) /\ KeepsRows(t)
  BY <1>1, <1>4, <1>7, <1>8 DEF Same, KeepsRows
<1> QED  BY <1>1, <1>9, <1>10, <1>11, <1>12, StepOfOne

\* The context of s was not cancelled, its part of the leases is in order.
LEMMA OnTimeKept ==
    ASSUME NEW s \in Schedulers, OnTime(s), renew'[s] = renew[s], spent'[s] = spent[s],
           succeeded'[s] = succeeded[s], pc'[s] \notin {"lock", "ended"},
           pc[s] \in InTurn \cup {"ids"} <=> pc'[s] \in InTurn \cup {"ids"},
           pc[s] = "trigger" <=> pc'[s] = "trigger"
    PROVE  OnTime(s)'
<1>1. First(s)' <=> First(s)
  BY Zenon DEF First, InTurn
<1> QED  BY <1>1 DEF OnTime, Off, Late

LEMMA InstanceIDsCalm ==
    ASSUME TypeOK, CalmInv, NEW s \in Schedulers, InstanceIDs(s), NoFault PROVE CalmInv'
<1>1. /\ pc[s] = "ids"
      /\ UNCHANGED <<locks, stored, pending, age, succeeded, chunk, slow>>
  BY DEF InstanceIDs
<1>2. /\ Goto(s, "next") /\ UNCHANGED renew
      /\ todo' = [todo EXCEPT ![s] = Scheduled(s)] /\ failed' = [failed EXCEPT ![s] = FALSE]
  <2>1. ~Fault
    BY DEF Fault, NoFault, TypeOK
  <2> QED  BY <2>1 DEF InstanceIDs
<1>3. /\ pc'[s] = "next" /\ spent'[s] = spent[s] /\ todo'[s] = Scheduled(s)
      /\ \A t \in Schedulers \ {s} : /\ pc'[t] = pc[t] /\ timer'[t] = timer[t] /\ spent'[t] = spent[t]
                                     /\ todo'[t] = todo[t] /\ failed'[t] = failed[t]
  BY <1>2, GotoFacts DEF TypeOK
<1>4. Fine(s)
  BY DEF CalmInv
<1>5. todo[s] = {} /\ chunk[s] = {}
  BY <1>1, <1>4 DEF Fine, Emptied
<1>6. pending \subseteq Instances
  BY DEF TypeOK
<1>7. Fine(s)'
  <2>1. OnTime(s)'
    BY <1>1, <1>2, <1>3, <1>4, OnTimeKept DEF Fine, InTurn
  <2>2. PartHeld(s, "system")' /\ PartHeld(s, "chunk")'
    BY <1>1, <1>2, <1>4 DEF Fine, PartHeld, Leased, Off
  <2>3. Emptied(s)' /\ Remembered(s)'
    BY <1>1, <1>3, <1>4, <1>5 DEF Fine, Emptied, Remembered
  <2>4. Younger(s)'
    BY <1>1, <1>3, <1>6 DEF Younger, Takes, Scheduled
  <2> QED  BY <2>1, <2>2, <2>3, <2>4 DEF Fine
<1>8. ASSUME NEW r \in Instances PROVE Owned(r)'
  BY <1>1, <1>3, <1>8, OwnedKept DEF InHand
<1>9. ASSUME NEW i \in pending, Takes(s, i) \/ InTime(s, i) PROVE Covered(i)'
  <2>1. InTime(s, i)
    BY <1>1, <1>5, <1>9 DEF Takes
  <2>2. /\ age[i] \in Nat /\ spent[s] \in Nat /\ NormalTurn \in Nat /\ HandleActiveInstances \in Nat
        /\ spent[s] <= NormalTurn
    BY <1>4, LoopFacts, ScheduleAssumption DEF TypeOK, Fine, OnTime
  <2>3. age[i] < HandleActiveInstances
    BY <1>1, <2>1, <2>2 DEF InTime, Until
  <2>4. Takes(s, i)'
    BY <1>3, <1>6, <2>3 DEF Scheduled, Takes
  <2> QED  BY <2>4 DEF Covered
<1>10. \A t \in Schedulers \ {s} : Same(t) /\ KeepsRows(t)
  BY <1>1, <1>2, <1>3 DEF Same, KeepsRows
<1> QED  BY <1>1, <1>3, <1>7, <1>8, <1>9, <1>10, StepOfOne

\* The next turn of s comes before an event that is younger than this turn leaves the window.
LEMMA YoungInTime ==
    ASSUME WideWindow, TypeOK, NEW s \in Schedulers, OnTime(s), pc[s] \in InTurn,
           NEW i \in Instances, age[i] <= spent[s]
    PROVE  InTime(s, i)
<1>1. /\ age[i] \in Nat /\ spent[s] \in Nat /\ NormalTurn \in Nat /\ HandleActiveInstances \in Nat
      /\ RequeueAfter \in Nat
  BY LoopFacts, ScheduleAssumption DEF TypeOK
<1> QED  BY <1>1 DEF InTime, Until, InTurn, WideWindow

\* The instances are granted.
LEMMA LockedCalm ==
    ASSUME TypeOK, CalmInv, NEW s \in Schedulers, pc[s] = "next",
           NEW c, c \subseteq todo[s],
           todo' = [todo EXCEPT ![s] = @ \ c],
           Lock!Granted(s, c) # {}, Lock!RenewLock(s, c),
           renew' = [renew EXCEPT ![s]["chunk"] = Renewed],
           chunk' = [chunk EXCEPT ![s] = c], Goto(s, "trigger"), UNCHANGED failed,
           UNCHANGED <<stored, pending, age, succeeded>>
    PROVE  CalmInv'
<1>1. c \subseteq Instances /\ c \in SUBSET Rows /\ System \in Rows \ c
  BY Constants DEF TypeOK
<1>2. /\ pc'[s] = "trigger" /\ spent'[s] = spent[s] /\ todo'[s] = todo[s] \ c /\ chunk'[s] = c
      /\ \A t \in Schedulers \ {s} : /\ pc'[t] = pc[t] /\ timer'[t] = timer[t] /\ spent'[t] = spent[t]
                                     /\ todo'[t] = todo[t] /\ chunk'[t] = chunk[t]
  BY GotoFacts DEF TypeOK
<1>3. /\ renew'[s]["chunk"] = Renewed /\ \A k \in Renewers \ {"chunk"} : renew'[s][k] = renew[s][k]
      /\ \A t \in Schedulers \ {s} : renew'[t] = renew[t]
  BY DEF TypeOK, Renewers
<1>4. /\ \A r \in Rows : locks[r].locker # s /\ locks[r].left # 0 => locks'[r] = locks[r]
      /\ \A r \in Rows \ c : locks'[r] = locks[r]
      /\ \A r \in c : locks[r].locker = s \/ locks[r].left = 0 =>
            locks'[r].locker = s /\ locks'[r].left = RequeueAfter
  BY <1>1, Statement
<1>5. Fine(s)
  BY DEF CalmInv
<1>6. Renewed # Off /\ Renewed # Late /\ RequeueAfter >= Renewed + 1
  BY Constants DEF Renewed, Off, Late
<1>7. Fine(s)'
  <2>1. OnTime(s)'
    <3>1. First(s)' <=> First(s)
      BY <1>2 DEF First, InTurn
    <3>2. renew'[s]["leaked"] = Off /\ \A k \in Renewers : renew'[s][k] # Late
      BY <1>3, <1>5, <1>6, RenewerNames DEF Fine, OnTime
    <3>3. renew'[s]["system"] = renew[s]["system"]
      BY <1>3, RenewerNames
    <3> QED  BY <1>2, <1>3, <1>5, <1>6, <3>1, <3>2, <3>3 DEF Fine, OnTime, Off, Late
  <2>2. PartHeld(s, "chunk")'
    <3>1. PICK r \in c : locks[r].locker = s \/ locks[r].left = 0
      BY DEF Lock!Granted
    <3>2. r \in Leased(s, "chunk")'
      BY <1>2, <3>1 DEF Leased
    <3> QED  BY <1>3, <1>4, <1>6, <3>1, <3>2 DEF PartHeld
  <2>3. PartHeld(s, "system")'
    <3>1. Leased(s, "system")' = {System} /\ Leased(s, "system") = {System}
      BY DEF Leased
    <3>2. renew'[s]["system"] = renew[s]["system"] /\ renew[s]["system"] # Late
      BY <1>3, <1>5, RenewerNames DEF Fine, OnTime
    <3> QED  BY <1>1, <1>4, <1>5, <3>1, <3>2, PartKept DEF Fine
  <2>4. Emptied(s)' /\ Remembered(s)'
    BY <1>2, <1>5 DEF Fine, Emptied, Remembered
  <2>5. Younger(s)'
    <3>1. \A i : Takes(s, i) => Takes(s, i)'
      BY <1>2 DEF Takes
    <3> QED  BY <1>2, <1>5, <3>1 DEF Fine, Younger, InTurn
  <2> QED  BY <2>1, <2>2, <2>3, <2>4, <2>5 DEF Fine
<1>8. ASSUME NEW r \in Instances PROVE Owned(r)'
  <2>1. r \in Rows /\ Owned(r)
    BY Constants, <1>8 DEF CalmInv
  <2>2. CASE locks[r].left # 0 /\ locks[r].locker # s
    BY <1>2, <1>4, <2>1, <2>2 DEF Owned, InHand
  <2>3. CASE locks[r].left # 0 /\ locks[r].locker = s
    BY <2>1, <2>3 DEF Owned, InHand
  <2>4. CASE locks[r].left = 0
    BY <1>2, <1>4, <2>1, <2>4 DEF Owned, InHand
  <2> QED  BY <2>2, <2>3, <2>4
<1>9. ASSUME NEW i \in pending, Takes(s, i) \/ InTime(s, i) PROVE Covered(i)'
  <2>1. Takes(s, i) => Takes(s, i)'
    BY <1>2 DEF Takes
  <2>2. InTime(s, i) => InTime(s, i)'
    BY <1>2 DEF InTime, Until
  <2> QED  BY <1>9, <2>1, <2>2 DEF Covered
<1>10. \A t \in Schedulers \ {s} : Same(t) /\ KeepsRows(t)
  BY <1>2, <1>3, <1>4 DEF Same, KeepsRows
<1> QED  BY <1>2, <1>7, <1>8, <1>9, <1>10, StepOfOne

\* The instances are in the hands of others and left out: the events that are pending will be
\* handled by who has the lock, in this turn or in the next one.
LEMMA LeftOutCalm ==
    ASSUME WideWindow, TypeOK, CalmInv, NEW s \in Schedulers, pc[s] = "next",
           NEW c, c \subseteq todo[s],
           todo' = [todo EXCEPT ![s] = @ \ c], Lock!Granted(s, c) = {},
           failed' = [failed EXCEPT ![s] = TRUE],
           UNCHANGED <<locks, renew, chunk, pc, timer, spent, stored, pending, age, succeeded>>
    PROVE  CalmInv'
<1>1. c \subseteq Instances
  BY DEF TypeOK
<1>2. /\ todo'[s] = todo[s] \ c /\ failed'[s] = TRUE
      /\ \A t \in Schedulers \ {s} : todo'[t] = todo[t] /\ failed'[t] = failed[t]
  BY DEF TypeOK
<1>3. Fine(s)
  BY DEF CalmInv
<1>4. Fine(s)'
  <2>1. OnTime(s)'
    BY <1>3, OnTimeKept DEF Fine
  <2>2. PartHeld(s, "system")' /\ PartHeld(s, "chunk")'
    BY <1>3 DEF Fine, PartHeld, Leased, Off
  <2>3. Emptied(s)' /\ Remembered(s)' /\ Younger(s)'
    BY <1>2, <1>3 DEF Fine, Emptied, Remembered, Younger
  <2> QED  BY <2>1, <2>2, <2>3 DEF Fine
<1>5. ASSUME NEW r \in Instances PROVE Owned(r)'
  BY <1>5, OwnedKept DEF InHand
<1>6. ASSUME NEW i \in pending, i \in c PROVE Covered(i)'
  <2>1. i \in Instances /\ locks[i].locker # s /\ locks[i].left # 0
    BY <1>1, <1>6 DEF Lock!Granted
  <2> DEFINE t == locks[i].locker
  <2>2. t \in Schedulers /\ t # s /\ InHand(t, i)
    BY <2>1 DEF CalmInv, Owned
  <2> HIDE DEF t
  <2>3. Fine(t)
    BY <2>2 DEF CalmInv
  <2>4. Same(t)
    BY <1>2, <2>2 DEF Same
  <2>5. Takes(t, i) \/ InTime(t, i)
    <3>1. CASE pc[t] = "trigger"
      BY <2>2, <3>1 DEF InHand, Takes
    <3>2. CASE pc[t] = "unlock"
      <4>1. age[i] <= spent[t]
        BY <1>6, <2>2, <2>3, <3>2 DEF Fine, Younger, InHand
      <4> QED  BY <2>1, <2>2, <2>3, <3>2, <4>1, YoungInTime DEF Fine, InTurn
    <3> QED  BY <2>2, <3>1, <3>2 DEF InHand
  <2> QED  BY <2>2, <2>4, <2>5, OthersCover DEF Covered
<1>7. ASSUME NEW i \in pending, Takes(s, i) \/ InTime(s, i) PROVE Covered(i)'
  <2>1. CASE i \in c
    BY <1>6, <2>1
  <2>2. CASE i \notin c /\ Takes(s, i)
    BY <1>2, <2>2 DEF Takes, Covered
  <2>3. CASE InTime(s, i)
    BY <2>3 DEF InTime, Until, Covered
  <2> QED  BY <1>7, <2>1, <2>2, <2>3
<1>8. \A t \in Schedulers \ {s} : Same(t) /\ KeepsRows(t)
  BY <1>2 DEF Same, KeepsRows
<1> QED  BY <1>4, <1>5, <1>7, <1>8, StepOfOne

LEMMA LockInstancesCalm ==
    ASSUME WideWindow, TypeOK, CalmInv, NEW s \in Schedulers, LockInstances(s), NoFault PROVE CalmInv'
<1>1. ~Fault
  BY DEF Fault, NoFault, TypeOK
<1>2. ~Cancelled(s)
  BY DEF LockInstances, Cancelled, CalmInv, Fine, OnTime, First, InTurn
<1>3. pc[s] = "next" /\ UNCHANGED <<stored, pending, age, succeeded>>
  BY DEF LockInstances
<1>4. PICK c \in kSubset(Min({ConcurrentInstances, Cardinality(todo[s])}), todo[s]) :
         /\ todo' = [todo EXCEPT ![s] = @ \ c]
         /\ \/ /\ Lock!Granted(s, c) # {} /\ Lock!RenewLock(s, c)
               /\ renew' = [renew EXCEPT ![s]["chunk"] = Renewed]
               /\ chunk' = [chunk EXCEPT ![s] = c] /\ Goto(s, "trigger") /\ UNCHANGED failed
            \/ /\ Lock!Granted(s, c) = {} /\ failed' = [failed EXCEPT ![s] = TRUE]
               /\ UNCHANGED <<locks, renew, chunk, pc, timer, spent>>
  BY <1>1, <1>2 DEF LockInstances
<1>5. c \subseteq todo[s]
  BY DEF kSubset
<1> QED  BY <1>3, <1>4, <1>5, LockedCalm, LeftOutCalm

LEMMA TriggerCalm ==
    ASSUME TypeOK, CalmInv, NEW s \in Schedulers, Trigger(s), NoFault PROVE CalmInv'
<1>1. /\ pc[s] = "trigger" /\ Goto(s, "unlock") /\ renew' = [renew EXCEPT ![s]["chunk"] = Off]
      /\ UNCHANGED <<locks, stored, age, succeeded, todo, chunk, slow>>
  BY DEF Trigger
<1>2. Fine(s) /\ renew[s]["chunk"] # Off
  BY <1>1 DEF CalmInv, Fine, OnTime
<1>3. pending' = pending \ chunk[s] /\ UNCHANGED failed
  <2>1. ~Fault
    BY DEF Fault, NoFault, TypeOK
  <2> QED  BY <1>2, <2>1 DEF Trigger
<1>4. /\ pc'[s] = "unlock" /\ spent'[s] = spent[s]
      /\ \A t \in Schedulers \ {s} : pc'[t] = pc[t] /\ timer'[t] = timer[t] /\ spent'[t] = spent[t]
  BY <1>1, GotoFacts
<1>5. /\ renew'[s]["chunk"] = Off /\ \A k \in Renewers \ {"chunk"} : renew'[s][k] = renew[s][k]
      /\ \A t \in Schedulers \ {s} : renew'[t] = renew[t]
  BY <1>1 DEF TypeOK, Renewers
<1>6. Off # Late
  BY Constants DEF Off, Late
<1>7. Fine(s)'
  <2>1. OnTime(s)'
    <3>1. First(s)' <=> First(s)
      BY <1>1, <1>4 DEF First, InTurn
    <3>2. renew'[s]["leaked"] = Off /\ \A k \in Renewers : renew'[s][k] # Late
      BY <1>2, <1>5, <1>6, RenewerNames DEF Fine, OnTime
    <3>3. renew'[s]["system"] = renew[s]["system"]
      BY <1>5, RenewerNames
    <3> QED  BY <1>2, <1>4, <1>5, <3>1, <3>2, <3>3 DEF Fine, OnTime, Off, Late
  <2>2. PartHeld(s, "chunk")'
    BY <1>5 DEF PartHeld, Off
  <2>3. PartHeld(s, "system")'
    <3>1. renew'[s]["system"] = renew[s]["system"]
      BY <1>5, RenewerNames
    <3> QED  BY <1>1, <1>2, <3>1 DEF Fine, PartHeld, Leased, Off
  <2>4. Emptied(s)' /\ Remembered(s)'
    BY <1>1, <1>2, <1>4 DEF Fine, Emptied, Remembered
  <2>5. Younger(s)'
    BY <1>1, <1>2, <1>3, <1>4 DEF Fine, Younger, Takes, InTurn
  <2> QED  BY <2>1, <2>2, <2>3, <2>4, <2>5 DEF Fine
<1>8. ASSUME NEW r \in Instances PROVE Owned(r)'
  BY <1>1, <1>4, <1>8, OwnedKept DEF InHand
<1>9. ASSUME NEW i \in pending', Takes(s, i) \/ InTime(s, i) PROVE Covered(i)'
  <2>1. Takes(s, i) => Takes(s, i)'
    BY <1>1, <1>3, <1>9 DEF Takes
  <2>2. InTime(s, i) => InTime(s, i)'
    BY <1>1, <1>4 DEF InTime, Until
  <2> QED  BY <1>9, <2>1, <2>2 DEF Covered
<1>10. \A t \in Schedulers \ {s} : Same(t) /\ KeepsRows(t)
  BY <1>1, <1>3, <1>4, <1>5 DEF Same, KeepsRows
<1> QED  BY <1>1, <1>3, <1>4, <1>7, <1>8, <1>9, <1>10, StepOfOne

LEMMA UnlockInstancesCalm ==
    ASSUME TypeOK, CalmInv, NEW s \in Schedulers, UnlockInstances(s), NoFault PROVE CalmInv'
<1>1. /\ pc[s] = "unlock" /\ Goto(s, "next") /\ chunk' = [chunk EXCEPT ![s] = {}]
      /\ UNCHANGED <<stored, pending, age, succeeded, todo, failed, renew, slow>>
  BY DEF UnlockInstances
<1>2. Lock!Unlock(s, chunk[s])
  <2>1. ~Fault
    BY DEF Fault, NoFault, TypeOK
  <2> QED  BY <2>1 DEF UnlockInstances
<1>3. Fine(s)
  BY DEF CalmInv
<1>4. /\ pc'[s] = "next" /\ spent'[s] = spent[s] /\ chunk'[s] = {}
      /\ \A t \in Schedulers \ {s} : /\ pc'[t] = pc[t] /\ timer'[t] = timer[t] /\ spent'[t] = spent[t]
                                     /\ chunk'[t] = chunk[t]
  BY <1>1, GotoFacts DEF TypeOK
<1>5. chunk[s] \in SUBSET Rows /\ System \in Rows \ chunk[s] /\ chunk[s] \subseteq Instances
  BY Constants DEF TypeOK
<1>6. /\ \A r \in Rows : locks[r].locker # s /\ locks[r].left # 0 => locks'[r] = locks[r]
      /\ \A r \in Rows \ chunk[s] : locks'[r] = locks[r]
  BY <1>2, <1>5, Statement
<1>7. \A r \in chunk[s] : locks[r].locker = s \/ locks[r].left = 0 => locks'[r].left = 0
  <2>1. locks' = [r \in Rows |-> IF r \in Lock!Granted(s, chunk[s]) THEN Lock!Row(s, 0) ELSE locks[r]]
    BY <1>2 DEF Lock!Unlock, Lock!LockStatement
  <2>2. Lock!Row(s, 0).left = 0
    BY DEF Lock!Row
  <2> QED  BY <1>5, <2>1, <2>2 DEF Lock!Granted
<1>8. Fine(s)'
  <2>1. OnTime(s)'
    BY <1>1, <1>3, <1>4, OnTimeKept DEF Fine, InTurn
  <2>2. PartHeld(s, "chunk")'
    BY <1>1, <1>3 DEF Fine, OnTime, PartHeld, Off
  <2>3. PartHeld(s, "system")'
    <3>1. Leased(s, "system")' = {System} /\ Leased(s, "system") = {System}
      BY DEF Leased
    <3>2. renew'[s]["system"] = renew[s]["system"] /\ renew[s]["system"] # Late
      BY <1>1, <1>3, RenewerNames DEF Fine, OnTime
    <3> QED  BY <1>3, <1>5, <1>6, <3>1, <3>2, PartKept DEF Fine
  <2>4. Emptied(s)' /\ Remembered(s)'
    BY <1>1, <1>3, <1>4 DEF Fine, Emptied, Remembered
  <2>5. Younger(s)'
    BY <1>1, <1>3, <1>4 DEF Fine, Younger, Takes, InTurn
  <2> QED  BY <2>1, <2>2, <2>3, <2>4, <2>5 DEF Fine
<1>9. ASSUME NEW r \in Instances PROVE Owned(r)'
  <2>1. r \in Rows /\ Owned(r)
    BY Constants, <1>9 DEF CalmInv
  <2>2. CASE locks[r].left # 0 /\ locks[r].locker # s
    BY <1>4, <1>6, <2>1, <2>2 DEF Owned, InHand
  <2>3. CASE locks[r].left # 0 /\ locks[r].locker = s
    BY <1>7, <2>1, <2>3 DEF Owned, InHand
  <2>4. CASE locks[r].left = 0
    BY <1>6, <1>7, <2>1, <2>4 DEF Owned
  <2> QED  BY <2>2, <2>3, <2>4
<1>10. ASSUME NEW i \in pending, Takes(s, i) \/ InTime(s, i) PROVE Covered(i)'
  <2>1. Takes(s, i) => Takes(s, i)'
    BY <1>1 DEF Takes
  <2>2. InTime(s, i) => InTime(s, i)'
    BY <1>1, <1>4 DEF InTime, Until
  <2> QED  BY <1>10, <2>1, <2>2 DEF Covered
<1>11. \A t \in Schedulers \ {s} : Same(t) /\ KeepsRows(t)
  BY <1>1, <1>4, <1>6 DEF Same, KeepsRows
<1> QED  BY <1>1, <1>4, <1>8, <1>9, <1>10, <1>11, StepOfOne

\* The pause after a turn keeps the deadline: the rest of the turn was allowed for.
LEMMA RequeueInTime ==
    ASSUME TypeOK, NEW s \in Schedulers, OnTime(s), pc[s] \in InTurn,
           pc'[s] = "wait", timer'[s] = RequeueAfter,
           NEW i \in Instances, age' = age, InTime(s, i)
    PROVE  InTime(s, i)'
<1>1. /\ age[i] \in Nat /\ spent[s] \in Nat /\ NormalTurn \in Nat /\ HandleActiveInstances \in Nat
      /\ RequeueAfter \in Nat /\ spent[s] <= NormalTurn
  BY LoopFacts, ScheduleAssumption DEF TypeOK, OnTime
<1>2. age[i] + (NormalTurn - spent[s] + RequeueAfter + NormalTurn) < HandleActiveInstances
  BY DEF InTime, Until, InTurn
<1>3. age[i] + (RequeueAfter + NormalTurn) < HandleActiveInstances
  BY <1>1, <1>2
<1> QED  BY <1>3 DEF InTime, Until

LEMMA FinishCalm ==
    ASSUME WideWindow, TypeOK, CalmInv, NEW s \in Schedulers, Finish(s), NoFault PROVE CalmInv'
<1>1. /\ pc[s] = "next" /\ todo[s] = {}
      /\ UNCHANGED <<locks, pending, age, succeeded, todo, chunk, failed, renew, slow>>
  BY DEF Finish
<1>2. ~Fault
  BY DEF Fault, NoFault, TypeOK
<1>3. Fine(s) /\ chunk[s] = {} /\ pending \subseteq Instances
  BY <1>1 DEF CalmInv, Fine, Emptied, TypeOK
<1>4. ASSUME \A t \in Schedulers \ {s} : pc'[t] = pc[t] /\ timer'[t] = timer[t] /\ spent'[t] = spent[t]
      PROVE  \A t \in Schedulers \ {s} : Same(t) /\ KeepsRows(t)
  BY <1>1, <1>4 DEF Same, KeepsRows
<1>5. CASE succeeded[s] /\ Requeue(s) /\ UNCHANGED stored
  <2>1. /\ pc'[s] = "wait" /\ timer'[s] = RequeueAfter /\ spent'[s] = 0
        /\ \A t \in Schedulers \ {s} : pc'[t] = pc[t] /\ timer'[t] = timer[t] /\ spent'[t] = spent[t]
    BY <1>5, RequeueFacts
  <2>2. Fine(s)'
    <3>1. OnTime(s)'
      BY <1>1, <1>3, <1>5, <2>1, ScheduleAssumption DEF Fine, OnTime, First, InTurn, Off, Late
    <3>2. PartHeld(s, "system")' /\ PartHeld(s, "chunk")'
      BY <1>1, <1>3, <1>5 DEF Fine, OnTime, First, PartHeld, Off
    <3>3. Emptied(s)' /\ Remembered(s)' /\ Younger(s)'
      BY <1>1, <1>3, <1>5, <2>1 DEF Fine, Emptied, Remembered, Younger, InTurn
    <3> QED  BY <3>1, <3>2, <3>3 DEF Fine
  <2>3. ASSUME NEW r \in Instances PROVE Owned(r)'
    BY <1>1, <2>1, <2>3, OwnedKept DEF InHand
  <2>4. ASSUME NEW i \in pending, Takes(s, i) \/ InTime(s, i) PROVE Covered(i)'
    <3>1. InTime(s, i)
      BY <1>1, <1>3, <2>4 DEF Takes
    <3>2. InTime(s, i)'
      BY <1>1, <1>3, <2>1, <2>4, <3>1, RequeueInTime DEF Fine, InTurn
    <3> QED  BY <3>2 DEF Covered
  <2> QED  BY <1>1, <1>4, <1>5, <2>1, <2>2, <2>3, <2>4, StepOfOne
<1>6. CASE ~succeeded[s] /\ Goto(s, "release") /\ stored' = (stored \/ ~failed[s])
  <2>1. /\ pc'[s] = "release" /\ spent'[s] = spent[s]
        /\ \A t \in Schedulers \ {s} : pc'[t] = pc[t] /\ timer'[t] = timer[t] /\ spent'[t] = spent[t]
    BY <1>6, GotoFacts
  <2>2. Fine(s)'
    <3>1. OnTime(s)'
      BY <1>1, <1>3, <2>1, OnTimeKept DEF Fine, InTurn
    <3>2. PartHeld(s, "system")' /\ PartHeld(s, "chunk")'
      BY <1>1, <1>3 DEF Fine, PartHeld, Leased, Off
    <3>3. Emptied(s)' /\ Younger(s)'
      BY <1>1, <1>3, <2>1 DEF Emptied, Younger, InTurn
    <3>4. Remembered(s)'
      BY <1>1, <1>6, Zenon DEF Remembered
    <3> QED  BY <3>1, <3>2, <3>3, <3>4 DEF Fine
  <2>3. ASSUME NEW r \in Instances PROVE Owned(r)'
    BY <1>1, <2>1, <2>3, OwnedKept DEF InHand
  <2>4. \A i \in pending : InTime(s, i) => InTime(s, i)'
    BY <1>1, <2>1 DEF InTime, Until
  <2>5. CASE ~failed[s]
    \* A first schedule that has reached everything covers what has come since.
    <3>1. ASSUME NEW i \in pending PROVE Covered(i)'
      <4>1. age[i] <= spent[s]
        BY <1>1, <1>3, <1>6, <2>5, <3>1 DEF Fine, Younger, Takes, InTurn
      <4>2. InTime(s, i)
        BY <1>1, <1>3, <3>1, <4>1, YoungInTime DEF Fine, InTurn
      <4> QED  BY <2>4, <3>1, <4>2 DEF Covered
    <3>2. ASSUME NEW t \in Schedulers \ {s} PROVE Fine(t)'
      <4>1. stored => stored'
        BY <1>6
      <4>2. Same(t) /\ KeepsRows(t) /\ Fine(t)
        BY <1>4, <2>1, <3>2 DEF CalmInv
      <4> QED  BY <1>1, <3>2, <4>1, <4>2, OthersFine
    <3> QED  BY <1>1, <2>1, <2>2, <2>3, <3>1, <3>2 DEF CalmInv
  <2>6. CASE failed[s]
    <3>1. stored' = stored
      BY <1>6, <2>6, Zenon DEF TypeOK
    <3>2. ASSUME NEW i \in pending, Takes(s, i) \/ InTime(s, i) PROVE Covered(i)'
      BY <1>1, <1>3, <2>4, <3>2 DEF Takes, Covered
    <3> QED  BY <1>1, <1>4, <2>1, <2>2, <2>3, <3>1, <3>2, StepOfOne
  <2> QED  BY <2>5, <2>6
<1> QED  BY <1>2, <1>5, <1>6 DEF Finish

LEMMA ReleaseCalm ==
    ASSUME TypeOK, CalmInv, NEW s \in Schedulers, Release(s), NoFault PROVE CalmInv'
<1>1. /\ pc[s] = "release" /\ Requeue(s) /\ renew' = [renew EXCEPT ![s]["system"] = Off]
      /\ succeeded' = [succeeded EXCEPT ![s] = ~failed[s]]
      /\ UNCHANGED <<stored, pending, age, todo, chunk, failed, slow>>
  BY DEF Release
<1>2. Lock!Unlock(s, {System})
  <2>1. ~Fault
    BY DEF Fault, NoFault, TypeOK
  <2> QED  BY <2>1 DEF Release
<1>3. {System} \in SUBSET Rows /\ \A r \in Instances : r \in Rows \ {System}
  BY Constants
<1>4. /\ \A r \in Rows : locks[r].locker # s /\ locks[r].left # 0 => locks'[r] = locks[r]
      /\ \A r \in Instances : locks'[r] = locks[r]
  BY <1>2, <1>3, Statement
<1>5. Fine(s)
  BY DEF CalmInv
<1>6. /\ pc'[s] = "wait" /\ timer'[s] = RequeueAfter /\ spent'[s] = 0
      /\ \A t \in Schedulers \ {s} : pc'[t] = pc[t] /\ timer'[t] = timer[t] /\ spent'[t] = spent[t]
  BY <1>1, RequeueFacts
<1>7. /\ succeeded'[s] <=> ~failed[s]
      /\ \A t \in Schedulers \ {s} : succeeded'[t] = succeeded[t]
  BY <1>1, Zenon DEF TypeOK
<1>8. /\ renew'[s]["system"] = Off /\ \A k \in Renewers \ {"system"} : renew'[s][k] = renew[s][k]
      /\ \A t \in Schedulers \ {s} : renew'[t] = renew[t]
  BY <1>1 DEF TypeOK, Renewers
<1>9. todo[s] = {} /\ chunk[s] = {} /\ renew[s]["chunk"] = Off /\ pending \subseteq Instances
  BY <1>1, <1>5 DEF Fine, Emptied, OnTime, TypeOK
<1>10. Fine(s)'
  <2>1. OnTime(s)'
    <3>1. ~First(s)'
      BY <1>6 DEF First, InTurn
    <3>2. /\ renew'[s]["leaked"] = Off /\ renew'[s]["chunk"] = Off
          /\ \A k \in Renewers : renew'[s][k] # Late
      BY <1>5, <1>8, <1>9, RenewerNames, Constants DEF Fine, OnTime, Off, Late
    <3> QED  BY <1>6, <1>8, <3>1, <3>2, ScheduleAssumption DEF OnTime, Off, Late
  <2>2. PartHeld(s, "system")' /\ PartHeld(s, "chunk")'
    BY <1>8, <1>9, RenewerNames DEF PartHeld, Off
  <2>3. Emptied(s)' /\ Younger(s)'
    BY <1>1, <1>6, <1>9 DEF Emptied, Younger, InTurn
  <2>4. Remembered(s)'
    BY <1>1, <1>5, <1>6, <1>7 DEF Fine, Remembered
  <2> QED  BY <2>1, <2>2, <2>3, <2>4 DEF Fine
<1>11. ASSUME NEW r \in Instances PROVE Owned(r)'
  BY <1>1, <1>4, <1>6, <1>11, OwnedKept DEF InHand
<1>12. ASSUME NEW i \in pending, Takes(s, i) \/ InTime(s, i) PROVE Covered(i)'
  <2>1. InTime(s, i)
    BY <1>9, <1>12 DEF Takes
  <2>2. InTime(s, i)'
    BY <1>1, <1>5, <1>6, <1>9, <1>12, <2>1, RequeueInTime DEF Fine, InTurn
  <2> QED  BY <2>2 DEF Covered
<1>13. \A t \in Schedulers \ {s} : Same(t) /\ KeepsRows(t)
  BY <1>1, <1>4, <1>6, <1>7, <1>8 DEF Same, KeepsRows
<1> QED  BY <1>1, <1>6, <1>10, <1>11, <1>12, <1>13, StepOfOne

\* A renewal is granted, because a part of the lease is still held.
LEMMA RenewCalm ==
    ASSUME TypeOK, CalmInv, NEW s \in Schedulers, NEW k \in Renewers, Renew(s, k), NoFault
    PROVE  CalmInv'
<1>1. /\ renew[s][k] <= 0
      /\ UNCHANGED <<stored, pending, age, pc, timer, succeeded, todo, chunk, failed, spent>>
  BY DEF Renew, loopVars
<1>2. ~Fault
  BY DEF Fault, NoFault, TypeOK
<1>3. Fine(s)
  BY DEF CalmInv
<1>4. renew[s][k] # Off /\ k \in {"system", "chunk"}
  <2>1. renew[s][k] # Off
    BY <1>1, Constants DEF Off
  <2> QED  BY <1>3, <2>1 DEF Fine, OnTime, Renewers
<1>5. Lock!Granted(s, Leased(s, k)) # {}
  BY <1>3, <1>4 DEF Fine, PartHeld, Lock!Granted
<1>6. Lock!RenewLock(s, Leased(s, k)) /\ renew' = [renew EXCEPT ![s][k] = Renewed]
  BY <1>2, <1>5 DEF Renew
<1>7. Leased(s, k) \in SUBSET Rows
  BY LeasedRows
<1>8. /\ \A r \in Rows : locks[r].locker # s /\ locks[r].left # 0 => locks'[r] = locks[r]
      /\ \A r \in Rows \ Leased(s, k) : locks'[r] = locks[r]
      /\ \A r \in Leased(s, k) : locks[r].locker = s \/ locks[r].left = 0 =>
            locks'[r].locker = s /\ locks'[r].left = RequeueAfter
  BY <1>6, <1>7, Statement
<1>9. /\ renew'[s][k] = Renewed /\ \A j \in Renewers \ {k} : renew'[s][j] = renew[s][j]
      /\ \A t \in Schedulers \ {s} : renew'[t] = renew[t]
  BY <1>6 DEF TypeOK
<1>10. Renewed # Off /\ Renewed # Late /\ RequeueAfter >= Renewed + 1
  BY Constants DEF Renewed, Off, Late
<1>11. \A j \in {"system", "chunk"} : Leased(s, j)' = Leased(s, j)
  BY <1>1 DEF Leased
<1>12. Fine(s)'
  <2>1. OnTime(s)'
    <3>1. First(s)' <=> First(s)
      BY <1>1, Zenon DEF First
    <3>2. \A j \in Renewers : renew'[s][j] # Late /\ (renew'[s][j] = Off <=> renew[s][j] = Off)
      BY <1>3, <1>4, <1>9, <1>10 DEF Fine, OnTime
    <3> QED  BY <1>1, <1>3, <3>1, <3>2, RenewerNames DEF Fine, OnTime, Off, Late
  <2>2. ASSUME NEW j \in {"system", "chunk"} PROVE PartHeld(s, j)'
    <3>1. CASE j = k
      <4>1. PICK r \in Leased(s, k) : locks[r].locker = s
        BY <1>3, <1>4 DEF Fine, PartHeld
      <4> QED  BY <1>8, <1>9, <1>10, <1>11, <2>2, <3>1, <4>1 DEF PartHeld
    <3>2. CASE j # k
      <4>1. j \in Renewers /\ Leased(s, j) \subseteq Rows
        BY <2>2, LeasedRows DEF Renewers
      <4>2. renew'[s][j] = renew[s][j] /\ renew[s][j] # Late /\ PartHeld(s, j)
        BY <1>3, <1>9, <2>2, <3>2, <4>1 DEF Fine, OnTime
      <4>3. \A r \in Leased(s, j) : locks[r].locker = s /\ locks[r].left # 0 =>
              locks'[r] = locks[r] \/ (locks'[r].locker = s /\ locks'[r].left = RequeueAfter)
        BY <1>8, <4>1
      <4> QED  BY <1>11, <2>2, <4>2, <4>3, PartKept
    <3> QED  BY <3>1, <3>2
  <2>3. Emptied(s)'
    BY <1>1, <1>3 DEF Fine, Emptied
  <2>4. Remembered(s)' /\ Younger(s)'
    BY <1>1, <1>3, Zenon DEF Fine, Remembered, Younger, Takes
  <2> QED  BY <2>1, <2>2, <2>3, <2>4 DEF Fine
<1>13. ASSUME NEW r \in Instances PROVE Owned(r)'
  <2>1. r \in Rows /\ Owned(r)
    BY Constants, <1>13 DEF CalmInv
  <2>2. \A t \in Schedulers : InHand(t, r)' <=> InHand(t, r)
    BY <1>1 DEF InHand
  <2>3. CASE locks'[r] = locks[r]
    BY <2>1, <2>2, <2>3 DEF Owned
  <2>4. CASE r \in Leased(s, k) /\ locks'[r].locker = s
    <3>1. k = "chunk" /\ r \in chunk[s]
      BY <1>4, <1>13, <2>4, Constants DEF Leased
    <3>2. pc[s] = "trigger"
      BY <1>3, <1>4, <3>1 DEF Fine, OnTime
    <3> QED  BY <2>2, <2>4, <3>1, <3>2 DEF Owned, InHand
  <2> QED  BY <1>8, <2>1, <2>3, <2>4
<1>14. ASSUME NEW i \in pending, Takes(s, i) \/ InTime(s, i) PROVE Covered(i)'
  BY <1>1, <1>14 DEF Takes, InTime, Until, Covered
<1>15. \A t \in Schedulers \ {s} : Same(t) /\ KeepsRows(t)
  BY <1>1, <1>8, <1>9 DEF Same, KeepsRows
<1> QED  BY <1>1, <1>12, <1>13, <1>14, <1>15, StepOfOne

-----------------------------------------------------------------------------
(* Events and time                                                         *)

LEMMA PushCalm ==
    ASSUME WideWindow, TypeOK, CalmInv, NEW i \in Instances, Push(i) PROVE CalmInv'
<1>1. /\ pending' = pending \cup {i}
      /\ UNCHANGED <<locks, stored, pc, timer, succeeded, todo, chunk, failed, spent, renew>>
  BY DEF Push, loopVars
<1>2. age'[i] = 0 /\ \A j \in Instances \ {i} : age'[j] = age[j]
  BY DEF Push, TypeOK
<1>3. pending \subseteq Instances
  BY DEF TypeOK
<1>4. ASSUME NEW s \in Schedulers PROVE Fine(s)'
  <2>1. Fine(s) /\ spent[s] \in Nat
    BY <1>4, LoopFacts DEF CalmInv
  <2>2. OnTime(s)'
    BY <1>1, <2>1, Zenon DEF Fine, OnTime, First, Off, Late
  <2>3. PartHeld(s, "system")' /\ PartHeld(s, "chunk")'
    BY <1>1, <2>1 DEF Fine, PartHeld, Leased, Off
  <2>4. Emptied(s)'
    BY <1>1, <2>1 DEF Fine, Emptied
  <2>5. Remembered(s)'
    BY <1>1, <2>1, Zenon DEF Fine, Remembered
  <2>6. Younger(s)'
    BY <1>1, <1>2, <1>3, <2>1 DEF Fine, Younger, Takes
  <2> QED  BY <2>2, <2>3, <2>4, <2>5, <2>6 DEF Fine
<1>5. \A r \in Instances : Owned(r)'
  BY <1>1 DEF CalmInv, Owned, InHand
<1>6. ASSUME stored, NEW j \in pending' PROVE Covered(j)'
  <2>1. CASE j = i
    <3>1. PICK s \in Schedulers : pc[s] # "lock"
      BY <1>6 DEF CalmInv
    <3>2. /\ spent[s] \in Nat /\ NormalTurn \in Nat /\ RequeueAfter \in Nat /\ HandleActiveInstances \in Nat
          /\ timer[s] \in 0..RequeueAfter /\ spent[s] <= NormalTurn
      BY LoopFacts, ScheduleAssumption DEF CalmInv, Fine, OnTime
    <3>3. Until(s) \in Int /\ Until(s) <= RequeueAfter + 2 * NormalTurn
      BY <3>2 DEF Until
    <3>4. Until(s)' = Until(s)
      BY <1>1 DEF Until
    <3>5. InTime(s, i)'
      BY <1>1, <1>2, <3>1, <3>2, <3>3, <3>4 DEF InTime, WideWindow
    <3> QED  BY <2>1, <3>5 DEF Covered
  <2>2. CASE j # i
    <3>1. j \in pending /\ age'[j] = age[j]
      BY <1>1, <1>2, <1>3, <1>6, <2>2
    <3> QED  BY <1>1, <1>6, <3>1 DEF CalmInv, Covered, Takes, InTime, Until
  <2> QED  BY <2>1, <2>2
<1> QED  BY <1>1, <1>4, <1>5, <1>6 DEF CalmInv

LEMMA TickCalm ==
    ASSUME WideWindow, TypeOK, TypeOK', CalmInv, Calm', Tick, NoFault PROVE CalmInv'
<1>1. /\ \A s \in Schedulers : pc[s] = "wait" => timer[s] > 0
      /\ Lock!Elapse
      /\ age' = [i \in Instances |-> Min({age[i] + 1, HandleActiveInstances})]
      /\ timer' = [s \in Schedulers |-> IF pc[s] = "wait" THEN timer[s] - 1 ELSE timer[s]]
      /\ spent' = [s \in Schedulers |-> IF Resting(s) THEN 0 ELSE spent[s] + 1]
      /\ slow' = (slow \/ \E s \in Schedulers : spent'[s] > NormalTurn)
      /\ renew' = [s \in Schedulers |-> [k \in Renewers |->
                   IF renew[s][k] \in {Off, Late} THEN renew[s][k] ELSE renew[s][k] - 1]]
      /\ UNCHANGED <<stored, pending, pc, succeeded, todo, chunk, failed>>
  BY DEF Tick
<1>2. \A s \in Schedulers, k \in Renewers : renew[s][k] > 0
  <2>1. ~Fault
    BY DEF Fault, NoFault, TypeOK
  <2> QED  BY <2>1 DEF Tick
<1>3. \A i \in Instances : age[i] \in Nat /\ age'[i] = IF age[i] + 1 <= HandleActiveInstances
                                                      THEN age[i] + 1 ELSE HandleActiveInstances
  <2>1. \A i \in Instances : age[i] + 1 \in Int /\ HandleActiveInstances \in Int /\ age[i] \in Nat
    BY Constants DEF TypeOK
  <2> QED  BY <1>1, <2>1, MinOfTwo
<1>4. ASSUME NEW s \in Schedulers
      PROVE  /\ timer'[s] = IF pc[s] = "wait" THEN timer[s] - 1 ELSE timer[s]
             /\ spent'[s] = IF pc[s] = "wait" THEN 0 ELSE spent[s] + 1
             /\ spent[s] \in Nat /\ spent'[s] \in Nat /\ spent'[s] <= NormalTurn
             /\ NormalTurn \in Nat /\ RequeueAfter \in Nat /\ HandleActiveInstances \in Nat
             /\ timer[s] \in Nat
  <2>1. ~(spent'[s] > NormalTurn)
    BY <1>1, <1>4, Zenon DEF Calm
  <2>2. spent[s] \in Nat /\ spent'[s] \in Nat /\ timer[s] \in Nat
    BY Constants DEF TypeOK
  <2>3. Resting(s) <=> pc[s] = "wait"
    BY <1>4 DEF Resting, CalmInv, Fine, OnTime
  <2> QED  BY <1>1, <2>1, <2>2, <2>3, ScheduleAssumption
<1>5. ASSUME NEW s \in Schedulers, NEW k \in Renewers
      PROVE  /\ renew[s][k] \in Nat \ {0}
             /\ renew'[s][k] = IF renew[s][k] = Off THEN Off ELSE renew[s][k] - 1
             /\ renew'[s][k] # Late /\ (renew'[s][k] = Off <=> renew[s][k] = Off)
  <2>1. renew[s][k] \in Late..Off /\ renew[s][k] > 0
    BY <1>2, LoopFacts
  <2>2. renew'[s][k] = IF renew[s][k] \in {Off, Late} THEN renew[s][k] ELSE renew[s][k] - 1
    BY <1>1
  <2> QED  BY <2>1, <2>2, Constants DEF Late, Off
<1>6. \A i \in pending : i \in Instances
  BY DEF TypeOK
<1>7. ASSUME NEW s \in Schedulers PROVE Fine(s)'
  <2>1. Fine(s)
    BY <1>7 DEF CalmInv
  <2>2. OnTime(s)'
    <3>1. First(s)' <=> First(s)
      BY <1>1, Zenon DEF First
    <3>2. \A k \in Renewers : renew'[s][k] # Late /\ (renew'[s][k] = Off <=> renew[s][k] = Off)
      BY <1>5
    <3> QED  BY <1>1, <1>4, <2>1, <3>1, <3>2, RenewerNames DEF Fine, OnTime, Off, Late
  <2>3. ASSUME NEW k \in {"system", "chunk"} PROVE PartHeld(s, k)'
    <3>1. k \in Renewers /\ Leased(s, k)' = Leased(s, k) /\ Leased(s, k) \subseteq Rows
      BY <1>1, <2>3, LeasedRows DEF Leased, Renewers
    <3> SUFFICES ASSUME renew'[s][k] # Off
                 PROVE  \E r \in Leased(s, k) : locks'[r].locker = s /\ locks'[r].left >= renew'[s][k] + 1
      BY <3>1 DEF PartHeld, Off
    <3>2. renew[s][k] # Off /\ renew[s][k] \in Nat \ {0} /\ renew'[s][k] = renew[s][k] - 1
      BY <1>5, <3>1
    <3>3. PICK r \in Leased(s, k) : locks[r].locker = s /\ locks[r].left >= renew[s][k] + 1
      BY <2>1, <2>3, <3>2 DEF Fine, PartHeld
    <3>4. r \in Rows /\ locks[r].left \in Nat
      BY <3>1, LockTypes
    <3>5. locks[r].left > 1
      BY <3>2, <3>3, <3>4
    <3>6. locks'[r].left = locks[r].left - 1 /\ locks'[r].locker = s
      BY <1>1, <3>3, <3>4, <3>5, ElapseLocks
    <3> QED  BY <3>2, <3>3, <3>4, <3>6
  <2>4. Emptied(s)'
    BY <1>1, <2>1 DEF Fine, Emptied
  <2>5. Remembered(s)'
    BY <1>1, <2>1, Zenon DEF Fine, Remembered
  <2>6. Younger(s)'
    <3>1. ASSUME NEW i \in pending, age[i] <= spent[s], pc[s] \in InTurn PROVE age'[i] <= spent'[s]
      BY <1>3, <1>4, <1>6, <3>1 DEF InTurn
    <3>2. \A i : Takes(s, i)' <=> Takes(s, i)
      BY <1>1 DEF Takes
    <3> QED  BY <1>1, <2>1, <3>1, <3>2 DEF Fine, Younger, InTurn
  <2> QED  BY <2>2, <2>3, <2>4, <2>5, <2>6 DEF Fine
<1>8. ASSUME NEW r \in Instances PROVE Owned(r)'
  <2>1. r \in Rows /\ Owned(r) /\ locks[r].left \in Nat
    BY Constants, LockTypes, <1>8 DEF CalmInv
  <2>2. \A t \in Schedulers : InHand(t, r)' <=> InHand(t, r)
    BY <1>1 DEF InHand
  <2>3. CASE locks[r].left > 1
    BY <1>1, <2>1, <2>2, <2>3, ElapseLocks DEF Owned
  <2>4. CASE locks[r].left <= 1
    <3>1. locks'[r] = Lock!Row(locks[r].locker, IF locks[r].left = 0 THEN 0 ELSE locks[r].left - 1)
      BY <1>1, <2>1 DEF Lock!Elapse
    <3>2. locks'[r].left = 0
      BY <2>1, <2>4, <3>1 DEF Lock!Row
    <3> QED  BY <3>2 DEF Owned
  <2> QED  BY <2>1, <2>3, <2>4
<1>9. ASSUME NEW i \in pending, NEW s \in Schedulers, Takes(s, i) \/ InTime(s, i) PROVE Covered(i)'
  <2>1. Takes(s, i)' <=> Takes(s, i)
    BY <1>1 DEF Takes
  <2>2. ASSUME InTime(s, i) PROVE InTime(s, i)'
    <3>1. pc[s] # "lock" /\ pc'[s] = pc[s] /\ age[i] + Until(s) < HandleActiveInstances
      BY <1>1, <2>2 DEF InTime
    <3>2. Until(s)' = Until(s) - 1 /\ Until(s)' \in Nat /\ Until(s) \in Nat
      <4>1. CASE pc[s] = "wait"
        BY <1>1, <1>4, <3>1, <4>1 DEF Until
      <4>2. CASE pc[s] = "ids"
        BY <1>4, <3>1, <4>2 DEF Until
      <4>3. CASE pc[s] \notin {"wait", "ids"}
        BY <1>4, <3>1, <4>3 DEF Until
      <4> QED  BY <4>1, <4>2, <4>3
    <3>3. i \in Instances /\ HandleActiveInstances \in Nat
      BY <1>6, Constants
    <3>4. age'[i] = age[i] + 1 /\ age[i] \in Nat
      BY <1>3, <3>1, <3>2, <3>3
    <3> QED  BY <3>1, <3>2, <3>3, <3>4 DEF InTime
  <2> QED  BY <1>9, <2>1, <2>2 DEF Covered
<1>10. stored => \E s \in Schedulers : pc'[s] # "lock"
  BY <1>1 DEF CalmInv
<1>11. ASSUME stored, NEW i \in pending PROVE Covered(i)'
  BY <1>9, <1>11 DEF CalmInv, Covered
<1> QED  BY <1>1, <1>7, <1>8, <1>10, <1>11 DEF CalmInv

LEMMA WindowStep == ASSUME WideWindow PROVE WindowInv /\ [Next]_vars => WindowInv'
<1> SUFFICES ASSUME WindowInv, [Next]_vars PROVE WindowInv'
  OBVIOUS
<1>1. TypeOK /\ TypeOK'
  BY TypeStep DEF WindowInv
<1> SUFFICES ASSUME Calm' PROVE CalmInv'
  BY <1>1 DEF WindowInv
<1>2. ~Fault
  <2>1. ASSUME Fault PROVE FALSE
    <3>1. faults \in Nat /\ faults' = faults + 1 /\ faults' = 0
      BY <1>1, <2>1 DEF Fault, Calm, TypeOK
    <3> QED  BY <3>1
  <2> QED  BY <2>1
<1>3. CASE UNCHANGED vars
  <2>1. Calm
    BY <1>3, Zenon DEF Calm, vars
  <2>2. CalmInv
    BY <2>1 DEF WindowInv
  <2>3. UNCHANGED <<locks, stored, pending, age, pc, timer, succeeded, todo, chunk, failed, spent, renew>>
    BY <1>3 DEF vars, loopVars
  <2>4. \A s \in Schedulers : Same(s) /\ KeepsRows(s)
    BY <2>3 DEF Same, KeepsRows
  <2>5. \A s \in Schedulers : Fine(s)'
    BY <1>1, <2>2, <2>3, <2>4, OthersFine DEF CalmInv
  <2>6. \A r \in Instances : Owned(r)'
    BY <2>2, <2>3 DEF CalmInv, Owned, InHand
  <2>7. \A i \in pending : Covered(i) => Covered(i)'
    BY <2>3, <2>4, OthersCover DEF Covered
  <2> QED  BY <2>2, <2>3, <2>5, <2>6, <2>7 DEF CalmInv
<1>4. ASSUME Next PROVE CalmInv'
  <2>1. NoFault /\ (slow => slow')
    <3>1. ASSUME NEW s \in Schedulers, Loop(s) PROVE NoFault /\ slow' = slow
      BY <1>2, <3>1 DEF Loop, Fire, LockSystem, InstanceIDs, LockInstances, Trigger,
            UnlockInstances, Finish, Release
    <3>2. ASSUME NEW s \in Schedulers, NEW k \in Renewers, Renew(s, k) PROVE NoFault /\ slow' = slow
      BY <1>2, <3>2 DEF Renew
    <3>3. ASSUME NEW s \in Schedulers, Panic(s) \/ Restart(s) PROVE FALSE
      BY <1>2, <3>3 DEF Panic, Restart
    <3>4. ASSUME NEW i \in Instances, Push(i) PROVE NoFault /\ slow' = slow
      BY <3>4 DEF Push, NoFault
    <3>5. CASE Tick
      BY <1>2, <3>5, Zenon DEF Tick
    <3> QED  BY <1>4, <3>1, <3>2, <3>3, <3>4, <3>5, Zenon DEF Next
  <2>2. Calm
    BY <2>1 DEF Calm, NoFault
  <2>3. CalmInv
    BY <2>2 DEF WindowInv
  <2>4. ASSUME NEW s \in Schedulers, Loop(s) PROVE CalmInv'
    BY <1>1, <2>1, <2>3, <2>4, FireCalm, LockSystemCalm, InstanceIDsCalm, LockInstancesCalm,
       TriggerCalm, UnlockInstancesCalm, FinishCalm, ReleaseCalm DEF Loop
  <2>5. ASSUME NEW s \in Schedulers, NEW k \in Renewers, Renew(s, k) PROVE CalmInv'
    BY <1>1, <2>1, <2>3, <2>5, RenewCalm
  <2>6. \A s \in Schedulers : ~Panic(s) /\ ~Restart(s)
    BY <1>2 DEF Panic, Restart
  <2>7. ASSUME NEW i \in Instances, Push(i) PROVE CalmInv'
    BY <1>1, <2>3, <2>7, PushCalm
  <2>8. CASE Tick
    BY <1>1, <2>1, <2>3, <2>8, TickCalm
  <2> QED  BY <1>4, <2>4, <2>5, <2>6, <2>7, <2>8 DEF Next
<1> QED  BY <1>3, <1>4

LEMMA WindowInit == Init => WindowInv
<1> SUFFICES ASSUME Init PROVE CalmInv
  BY TypeInit DEF WindowInv
<1>1. ASSUME NEW s \in Schedulers PROVE Fine(s)
  <2>1. /\ pc[s] = "wait" /\ spent[s] = 0 /\ todo[s] = {} /\ chunk[s] = {} /\ ~succeeded[s]
        /\ \A k \in Renewers : renew[s][k] = Off
    BY DEF Init
  <2>2. OnTime(s)
    BY <2>1, RenewerNames, Constants, ScheduleAssumption DEF OnTime, First, InTurn, Off, Late
  <2>3. PartHeld(s, "system") /\ PartHeld(s, "chunk")
    BY <2>1, RenewerNames DEF PartHeld
  <2>4. Emptied(s) /\ Remembered(s) /\ Younger(s)
    BY <2>1 DEF Emptied, Remembered, Younger, InTurn
  <2> QED  BY <2>2, <2>3, <2>4 DEF Fine
<1>2. \A r \in Instances : Owned(r)
  <2>1. \A r \in Rows : locks[r] = Lock!Row(NoScheduler, 0)
    BY DEF Init, Lock!LocksInit
  <2>2. \A r \in Rows : locks[r].left = 0
    BY <2>1 DEF Lock!Row
  <2> QED  BY <2>2, Constants DEF Owned
<1> QED  BY <1>1, <1>2 DEF CalmInv, Init

LEMMA WindowCovers == WindowInv => WindowSuffices
<1> SUFFICES ASSUME WindowInv, faults = 0, ~slow, NEW i \in Instances, Forgotten(i)
             PROVE  \E s \in Schedulers : i \in todo[s] \cup chunk[s]
  BY DEF WindowSuffices
<1>1. TypeOK /\ CalmInv
  BY DEF WindowInv, Calm
<1>2. i \in pending /\ age[i] = HandleActiveInstances /\ stored
  BY <1>1 DEF Forgotten, CalmInv, Fine, Remembered
<1>3. PICK s \in Schedulers : Takes(s, i) \/ InTime(s, i)
  BY <1>1, <1>2 DEF CalmInv, Covered
<1>4. ~InTime(s, i)
  <2>1. /\ spent[s] \in Nat /\ spent[s] <= NormalTurn /\ timer[s] \in Nat /\ NormalTurn \in Nat
        /\ RequeueAfter \in Nat /\ HandleActiveInstances \in Nat
    BY <1>1, LoopFacts, ScheduleAssumption DEF CalmInv, Fine, OnTime, TypeOK
  <2>2. Until(s) \in Nat
    BY <2>1 DEF Until
  <2> QED  BY <1>2, <2>1, <2>2 DEF InTime
<1> QED  BY <1>3, <1>4 DEF Takes

(***************************************************************************)
(* The window of HandleActiveInstances is wide enough if it is longer than *)
(* the pause between two turns and two turns: then no instance leaves it   *)
(* with events that are not handled, for any number of processes and       *)
(* instances and however they keep each other from an instance, as long as *)
(* nothing fails and turns are no longer than that.                        *)
(***************************************************************************)
THEOREM WindowIsWideEnough == ASSUME WideWindow PROVE Spec => []WindowSuffices
<1>1. Init => WindowInv
  BY WindowInit
<1>2. WindowInv /\ [Next]_vars => WindowInv'
  BY WindowStep
<1>3. WindowInv => WindowSuffices
  BY WindowCovers
<1> QED  BY <1>1, <1>2, <1>3, PTL DEF Spec
=============================================================================
