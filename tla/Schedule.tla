------------------------------ MODULE Schedule ------------------------------
(***************************************************************************)
(* The schedule loop of a projection (ProjectionHandler.schedule in        *)
(* internal/eventstore/handler/handler_projection.go): one goroutine per   *)
(* process which, every RequeueEvery, triggers the projection for the      *)
(* instances that had events lately, each under a lease that another       *)
(* goroutine renews.  What a trigger does to the read model is Projection; *)
(* here it only matters whether the events of an instance were handled.    *)
(*                                                                         *)
(* Time is discrete and relative: Tick lets one unit pass for all timers,  *)
(* leases and ages.                                                        *)
(***************************************************************************)
EXTENDS Integers, FiniteSets, FiniteSetsExt

CONSTANTS
    Schedulers,
    NoScheduler,            \* the locker of rows whose worker does not exist
    Instances,
    System,                 \* the lock row for the first schedule, "system"
    RequeueAfter,           \* pause between two turns, and duration of the leases
    HandleActiveInstances,  \* how old the latest event of a scheduled instance may be
    ConcurrentInstances,    \* instances triggered together
    NormalTurn,             \* how long a turn takes as a rule
    MaxTurn,                \* bound: how long a turn takes at most
    MaxFaults               \* bound: errors of the database, late renewals, panics and restarts

ASSUME ScheduleAssumption ==
    /\ IsFiniteSet(Instances) /\ System \notin Instances /\ NoScheduler \notin Schedulers
    /\ RequeueAfter \in Nat \ {0, 1} /\ HandleActiveInstances \in Nat
    /\ NormalTurn \in Nat /\ MaxTurn \in Nat
    /\ ConcurrentInstances \in Nat \ {0} /\ MaxFaults \in Nat

Rows == Instances \cup {System}

VARIABLES
    locks,      \* the table of leases
    stored,     \* whether a succeeded event of this projection was pushed
    pending,    \* instances with events the projection has not handled
    age,        \* how long ago the latest event of an instance was created
    pc,         \* where a scheduler is in its loop
    timer,      \* triggerProjection: time until it fires
    succeeded,  \* succeededOnce
    todo,       \* ids[i:]: the instances of this turn that are not handled yet
    chunk,      \* instances
    failed,     \* failed
    renew,      \* handleLock goroutines: time until the next renewal
    spent,      \* how long this turn has taken
    slow,       \* history: a turn has taken longer than NormalTurn
    faults      \* how many faults have happened

loopVars == <<pc, timer, succeeded, todo, chunk, failed, spent>>
vars == <<locks, stored, pending, age, loopVars, renew, slow, faults>>

Lock == INSTANCE ProjectionLock
            WITH Lockers <- Schedulers, NoLocker <- NoScheduler, LockDuration <- RequeueAfter

(***************************************************************************)
(* The goroutines renewing leases of a scheduler: for "system", for the    *)
(* instances in work, and one that outlives its turn because nobody        *)
(* cancelled it.  A lease is renewed one unit before it ends.              *)
(***************************************************************************)
Renewers == {"system", "chunk", "leaked"}
Off == RequeueAfter
Late == -1
Renewed == RequeueAfter - 1

Leased(s, k) == IF k = "chunk" THEN chunk[s] ELSE {System}
Fault == faults < MaxFaults /\ faults' = faults + 1
NoFault == UNCHANGED faults

-----------------------------------------------------------------------------

\* triggerProjection.Reset(requeueAfter), and back to the head of the loop.
Requeue(s) ==
    /\ pc' = [pc EXCEPT ![s] = "wait"]
    /\ timer' = [timer EXCEPT ![s] = RequeueAfter]
    /\ spent' = [spent EXCEPT ![s] = 0]

Goto(s, where) == pc' = [pc EXCEPT ![s] = where] /\ UNCHANGED <<timer, spent>>

\* The timer fires; as long as this process knows of no success, hasSucceededOnce asks the store.
Fire(s) ==
    /\ pc[s] = "wait"
    /\ timer[s] = 0
    /\ \/ /\ NoFault
          /\ succeeded' = [succeeded EXCEPT ![s] = @ \/ stored]
          /\ Goto(s, IF succeeded'[s] THEN "ids" ELSE "lock")
       \/ /\ ~succeeded[s]
          /\ Fault
          /\ Requeue(s)
          /\ UNCHANGED succeeded
    /\ UNCHANGED <<locks, stored, pending, age, todo, chunk, failed, renew, slow>>

\* Before a first schedule the lock of the system is taken.
LockSystem(s) ==
    /\ pc[s] = "lock"
    /\ \/ /\ NoFault
          /\ Lock!RenewLock(s, {System})
          /\ IF Lock!Granted(s, {System}) # {}
             THEN /\ Goto(s, "ids")
                  /\ renew' = [renew EXCEPT ![s]["system"] = Renewed]
             ELSE /\ Requeue(s)
                  /\ UNCHANGED renew
       \/ /\ Fault
          /\ Requeue(s)
          /\ UNCHANGED <<locks, renew>>
    /\ UNCHANGED <<stored, pending, age, succeeded, todo, chunk, failed, slow>>

\* Mutants: the restriction to recent events applies although nothing has succeeded yet; the
\* window is one pause long.
ScheduledRecent(s) == {i \in Instances : age[i] < HandleActiveInstances}
ScheduledShort(s) == {i \in Instances : succeeded[s] => age[i] < RequeueAfter}

\* The instances of this turn: all, or after a first success those with recent events.
Scheduled(s) == {i \in Instances : succeeded[s] => age[i] < HandleActiveInstances}

\* InstanceIDs.  After an error the lock of the system is neither cancelled nor released.
InstanceIDs(s) ==
    /\ pc[s] = "ids"
    /\ \/ /\ NoFault
          /\ Goto(s, "next")
          /\ todo' = [todo EXCEPT ![s] = Scheduled(s)]
          /\ failed' = [failed EXCEPT ![s] = FALSE]
          /\ UNCHANGED renew
       \/ /\ Fault
          /\ Requeue(s)
          /\ renew' = [renew EXCEPT ![s]["leaked"] = Min({@, renew[s]["system"]}),
                                    ![s]["system"] = Off]
          /\ UNCHANGED <<todo, failed>>
    /\ UNCHANGED <<locks, stored, pending, age, succeeded, chunk, slow>>

\* The context of the first schedule was cancelled: every lock below it fails.
Cancelled(s) == ~succeeded[s] /\ renew[s]["system"] = Off

\* The lock of the next instances; if none of them is granted they are left out.
LockInstances(s) ==
    /\ pc[s] = "next"
    /\ \E c \in kSubset(Min({ConcurrentInstances, Cardinality(todo[s])}), todo[s]) :
         /\ c # {}
         /\ todo' = [todo EXCEPT ![s] = @ \ c]
         /\ \/ /\ ~Cancelled(s)
               /\ Lock!Granted(s, c) # {}
               /\ NoFault
               /\ Lock!RenewLock(s, c)
               /\ renew' = [renew EXCEPT ![s]["chunk"] = Renewed]
               /\ chunk' = [chunk EXCEPT ![s] = c]
               /\ Goto(s, "trigger")
               /\ UNCHANGED failed
            \/ /\ \/ (Cancelled(s) \/ Lock!Granted(s, c) = {}) /\ NoFault
                  \/ Fault
               /\ failed' = [failed EXCEPT ![s] = TRUE]
               /\ UNCHANGED <<locks, renew, chunk, pc, timer, spent>>
    /\ UNCHANGED <<stored, pending, age, succeeded, slow>>

\* TriggerErr handles what the instances have, unless it is cancelled or fails; cancelInstanceLock.
Trigger(s) ==
    /\ pc[s] = "trigger"
    /\ \/ /\ renew[s]["chunk"] # Off
          /\ NoFault
          /\ pending' = pending \ chunk[s]
          /\ UNCHANGED failed
       \/ /\ (renew[s]["chunk"] = Off /\ NoFault) \/ Fault
          /\ failed' = [failed EXCEPT ![s] = TRUE]
          /\ UNCHANGED pending
    /\ renew' = [renew EXCEPT ![s]["chunk"] = Off]
    /\ Goto(s, "unlock")
    /\ UNCHANGED <<locks, stored, age, succeeded, todo, chunk, slow>>

\* TriggerErr panics: schedule recovers and returns.  That cancels all contexts below its own; nothing
\* is unlocked, and no other loop is started as long as the process lives.
Panic(s) ==
    /\ pc[s] = "trigger"
    /\ Fault
    /\ pc' = [pc EXCEPT ![s] = "ended"]
    /\ spent' = [spent EXCEPT ![s] = 0]
    /\ todo' = [todo EXCEPT ![s] = {}]
    /\ chunk' = [chunk EXCEPT ![s] = {}]
    /\ renew' = [renew EXCEPT ![s] = [k \in Renewers |-> Off]]
    /\ UNCHANGED <<locks, stored, pending, age, timer, succeeded, failed, slow>>

\* An error of unlock is only logged.
UnlockInstances(s) ==
    /\ pc[s] = "unlock"
    /\ \/ NoFault /\ Lock!Unlock(s, chunk[s])
       \/ Fault /\ UNCHANGED locks
    /\ chunk' = [chunk EXCEPT ![s] = {}]
    /\ Goto(s, "next")
    /\ UNCHANGED <<stored, pending, age, succeeded, todo, failed, renew, slow>>

\* The turn is over; setSucceededOnce after a first schedule, its error is only logged.
Finish(s) ==
    /\ pc[s] = "next"
    /\ todo[s] = {}
    /\ IF succeeded[s]
       THEN Requeue(s) /\ NoFault /\ UNCHANGED stored
       ELSE /\ Goto(s, "release")
            /\ \/ stored' = (stored \/ ~failed[s]) /\ NoFault
               \/ ~failed[s] /\ Fault /\ UNCHANGED stored
    /\ UNCHANGED <<locks, pending, age, succeeded, todo, chunk, failed, renew, slow>>

\* cancelLock and unlock of the system.
Release(s) ==
    /\ pc[s] = "release"
    /\ renew' = [renew EXCEPT ![s]["system"] = Off]
    /\ \/ NoFault /\ Lock!Unlock(s, {System})
       \/ Fault /\ UNCHANGED locks
    /\ succeeded' = [succeeded EXCEPT ![s] = ~failed[s]]
    /\ Requeue(s)
    /\ UNCHANGED <<stored, pending, age, todo, chunk, failed, slow>>

-----------------------------------------------------------------------------

\* What ends with the context of renewer k: that of the instances is derived from that of the system.
Ends(k) == IF k = "system" THEN {"system", "chunk"} ELSE {k}

\* Mutant: an error of the renewal is not passed on.
RenewIgnoringErrors(s, k) ==
    /\ renew[s][k] <= 0
    /\ NoFault
    /\ Lock!RenewLock(s, Leased(s, k))
    /\ renew' = [renew EXCEPT ![s][k] = Renewed]
    /\ UNCHANGED <<stored, pending, age, loopVars, slow>>

\* handleLock renews; cancelOnErr cancels the context if it cannot.
Renew(s, k) ==
    /\ renew[s][k] <= 0
    /\ \/ /\ NoFault
          /\ Lock!Granted(s, Leased(s, k)) # {}
          /\ Lock!RenewLock(s, Leased(s, k))
          /\ renew' = [renew EXCEPT ![s][k] = Renewed]
       \/ /\ (NoFault /\ Lock!Granted(s, Leased(s, k)) = {}) \/ Fault
          /\ renew' = [renew EXCEPT ![s] = [j \in Renewers |-> IF j \in Ends(k) THEN Off ELSE @[j]]]
          /\ UNCHANGED locks
    /\ UNCHANGED <<stored, pending, age, loopVars, slow>>

Resting(s) == pc[s] \in {"wait", "ended"}

\* Time passes.  A renewal that is due is made in time, or its delay is a fault.
Tick ==
    /\ \A s \in Schedulers : Resting(s) \/ spent[s] < MaxTurn
    /\ \A s \in Schedulers : pc[s] = "wait" => timer[s] > 0
    /\ \/ (\A s \in Schedulers, k \in Renewers : renew[s][k] > 0) /\ NoFault
       \/ (\E s \in Schedulers, k \in Renewers : renew[s][k] = 0) /\ Fault
    /\ Lock!Elapse
    /\ age' = [i \in Instances |-> Min({age[i] + 1, HandleActiveInstances})]
    /\ timer' = [s \in Schedulers |-> IF pc[s] = "wait" THEN timer[s] - 1 ELSE timer[s]]
    /\ spent' = [s \in Schedulers |-> IF Resting(s) THEN 0 ELSE spent[s] + 1]
    /\ slow' = (slow \/ \E s \in Schedulers : spent'[s] > NormalTurn)
    /\ renew' = [s \in Schedulers |-> [k \in Renewers |->
                   IF renew[s][k] \in {Off, Late} THEN renew[s][k] ELSE renew[s][k] - 1]]
    /\ UNCHANGED <<stored, pending, pc, succeeded, todo, chunk, failed>>

\* Some process pushes an event of the instance, and no subscription handles it.
Push(i) ==
    /\ pending' = pending \cup {i}
    /\ age' = [age EXCEPT ![i] = 0]
    /\ UNCHANGED <<locks, stored, loopVars, renew, slow, faults>>

\* The process stops and starts again under another worker name; the timer fires at once.
Restart(s) ==
    /\ Fault
    /\ Lock!Abandon(s)
    /\ pc' = [pc EXCEPT ![s] = "wait"]
    /\ timer' = [timer EXCEPT ![s] = 0]
    /\ spent' = [spent EXCEPT ![s] = 0]
    /\ succeeded' = [succeeded EXCEPT ![s] = FALSE]
    /\ todo' = [todo EXCEPT ![s] = {}]
    /\ chunk' = [chunk EXCEPT ![s] = {}]
    /\ failed' = [failed EXCEPT ![s] = FALSE]
    /\ renew' = [renew EXCEPT ![s] = [k \in Renewers |-> Off]]
    /\ UNCHANGED <<stored, pending, age, slow>>

-----------------------------------------------------------------------------

\* The projection is new: all events of the instances are old and none is handled.
Init ==
    /\ Lock!LocksInit
    /\ stored = FALSE
    /\ pending = Instances
    /\ age = [i \in Instances |-> HandleActiveInstances]
    /\ pc = [s \in Schedulers |-> "wait"]
    /\ timer = [s \in Schedulers |-> 0]
    /\ succeeded = [s \in Schedulers |-> FALSE]
    /\ todo = [s \in Schedulers |-> {}]
    /\ chunk = [s \in Schedulers |-> {}]
    /\ failed = [s \in Schedulers |-> FALSE]
    /\ renew = [s \in Schedulers |-> [k \in Renewers |-> Off]]
    /\ spent = [s \in Schedulers |-> 0]
    /\ slow = FALSE
    /\ faults = 0

Loop(s) ==
    \/ Fire(s) \/ LockSystem(s) \/ InstanceIDs(s) \/ LockInstances(s)
    \/ Trigger(s) \/ UnlockInstances(s) \/ Finish(s) \/ Release(s)

Next ==
    \/ \E s \in Schedulers : Loop(s) \/ Panic(s) \/ Restart(s) \/ \E k \in Renewers : Renew(s, k)
    \/ \E i \in Instances : Push(i)
    \/ Tick

Spec == Init /\ [][Next]_vars

\* Goroutines run and time passes.  Pushes and faults may happen or not.
FairSpec ==
    /\ Spec
    /\ WF_vars(Tick)
    /\ \A s \in Schedulers : WF_vars(Loop(s)) /\ \A k \in Renewers : WF_vars(Renew(s, k))

-----------------------------------------------------------------------------
(* Properties                                                              *)

\* The variables have their types: timers do not run past their renewal or their pause.
TypeOK ==
    /\ locks \in Lock!Locks
    /\ stored \in BOOLEAN
    /\ pending \subseteq Instances
    /\ age \in [Instances -> 0..HandleActiveInstances]
    /\ pc \in [Schedulers -> {"wait", "lock", "ids", "next", "trigger", "unlock", "release", "ended"}]
    /\ timer \in [Schedulers -> 0..RequeueAfter]
    /\ succeeded \in [Schedulers -> BOOLEAN]
    /\ todo \in [Schedulers -> SUBSET Instances]
    /\ chunk \in [Schedulers -> SUBSET Instances]
    /\ failed \in [Schedulers -> BOOLEAN]
    /\ renew \in [Schedulers -> [Renewers -> Late..Off]]
    /\ spent \in [Schedulers -> 0..MaxTurn]
    /\ slow \in BOOLEAN
    /\ faults \in 0..MaxFaults

\* s works under its lease on row r, and its context is not cancelled.
WorksOn(s, r) ==
    \/ r \in chunk[s] /\ renew[s]["chunk"] # Off
    \/ r = System /\ renew[s]["system"] # Off

(***************************************************************************)
(* Two processes work on the same instance, or on the first schedule ("so  *)
(* that only a single scheduler does a first schedule"), at the same time  *)
(* only while the renewal of one of them is overdue: leases, renewals and  *)
(* the cancelling of contexts keep everybody else out, also with leaked    *)
(* renewers, failed unlocks and restarts.                                  *)
(***************************************************************************)
Exclusive ==
    \A s, t \in Schedulers : \A r \in Rows :
        s # t /\ WorksOn(s, r) /\ WorksOn(t, r) =>
            \E u \in {s, t}, k \in {"system", "chunk"} : r \in Leased(u, k) /\ renew[u][k] = Late

\* No scheduler will look at instance i again before it has another event.
Forgotten(i) ==
    /\ i \in pending
    /\ age[i] = HandleActiveInstances
    /\ stored \/ \E s \in Schedulers : succeeded[s]

(***************************************************************************)
(* The window of HandleActiveInstances is wide enough: as long as nothing  *)
(* fails and turns are short, no instance leaves it with events that are   *)
(* not handled, whoever holds which lock ("just to be sure not to miss an  *)
(* event").                                                                *)
(***************************************************************************)
WindowSuffices ==
    faults = 0 /\ ~slow =>
        \A i \in Instances :
            Forgotten(i) => \E s \in Schedulers : i \in todo[s] \cup chunk[s]

(***************************************************************************)
(* Whatever fails, leaks or restarts, the events of an instance are        *)
(* handled sooner or later, with two exceptions: faults or long turns have *)
(* kept it waiting for longer than the window, or a panic has ended the    *)
(* loop of every process (the recover of schedule).  A process that has    *)
(* ended its loop and not its leases keeps nobody out, and the first       *)
(* schedule reaches instances of any age.                                  *)
(***************************************************************************)
EventuallyHandled ==
    \A i \in Instances :
        i \in pending ~> \/ i \notin pending
                         \/ (slow \/ faults > 0) /\ Forgotten(i)
                         \/ \A s \in Schedulers : pc[s] = "ended"
=============================================================================
