-------------------------- MODULE MigrationProofs --------------------------
(***************************************************************************)
(* Proofs about Migration, for any number of processes and migrations.     *)
(*                                                                         *)
(* StepsInOrder holds whatever Cleanup does.  Exclusive execution and      *)
(* NeverAgain hold as long as nobody cancels a migration: they rest on the *)
(* constraint migration_started, which only the process that executes a    *)
(* migration gives up.                                                     *)
(***************************************************************************)
EXTENDS Migration, TLAPS

\* The migration a process is at is one of the list.
LEMMA NameType == ASSUME TypeOK, NEW p \in Processes PROVE Name(p) \in Names
  BY DEF TypeOK, Name, Names

\* What one stored event changes: the log grows by it, and IsDone by its name if it is a done one.
LEMMA StoreEffect ==
    ASSUME TypeOK, NEW n \in Names, NEW t \in Types, NEW r \in Runs, Store(n, t, r)
    PROVE  /\ log' \in Seq(SetupStep)
           /\ started' \subseteq Names
           /\ done' \subseteq Names
           /\ DOMAIN log' = DOMAIN log \cup {Len(log) + 1}
           /\ \A k \in DOMAIN log : k # Len(log) + 1 /\ log'[k] = log[k]
           /\ log'[Len(log) + 1] = [name |-> n, type |-> t, lastRun |-> r]
           /\ \A m : IsDone(m)' <=> IsDone(m) \/ (m = n /\ t \in {"done", "repeatable.done"})
<1> DEFINE e == [name |-> n, type |-> t, lastRun |-> r]
<1>1. e \in SetupStep
  BY DEF SetupStep
<1>2. log \in Seq(SetupStep) /\ log' = Append(log, e)
  BY DEF TypeOK, Store
<1>3. log' \in Seq(SetupStep)
  BY <1>1, <1>2
<1>4. DOMAIN log' = DOMAIN log \cup {Len(log) + 1}
  BY <1>1, <1>2
<1>5. \A k \in DOMAIN log : k # Len(log) + 1 /\ log'[k] = log[k]
  BY <1>1, <1>2
<1>6. log'[Len(log) + 1] = e
  BY <1>1, <1>2
<1>7. started' \subseteq Names /\ done' \subseteq Names
  BY DEF TypeOK, Store, Types
<1>8. \A m : IsDone(m)' <=> IsDone(m) \/ (m = n /\ t \in {"done", "repeatable.done"})
  BY <1>4, <1>5, <1>6 DEF IsDone
<1> QED
  BY <1>3, <1>4, <1>5, <1>6, <1>7, <1>8

\* The event a process pushes after Execute is one of the four types.
LEMMA DoneEventType ==
    ASSUME TypeOK, NEW p \in Processes PROVE DoneType(p) \in Types /\ DoneRun(p) \in Runs
  BY DEF TypeOK, DoneType, DoneRun, Types, Runs

\* Neither leaving a migration nor ending the process leaves the types.
LEMMA AdvanceType ==
    ASSUME TypeOK, NEW p \in Processes, Advance(p) \/ Exit(p)
    PROVE  /\ pc' \in [Processes -> {"exited", "check", "start", "execute", "finish"}]
           /\ step' \in [Processes -> DOMAIN Steps]
           /\ failed' \in [Processes -> BOOLEAN]
<1>1. Len(Steps) \in Nat /\ DOMAIN Steps = 1..Len(Steps)
  BY StepsAssumption
<1>2. step[p] \in 1..Len(Steps)
  BY <1>1 DEF TypeOK
<1>3. CASE Exit(p)
  BY <1>3 DEF TypeOK, Exit
<1>4. CASE Advance(p) /\ step[p] < Len(Steps)
  <2>1. step' = [step EXCEPT ![p] = step[p] + 1] /\ step[p] + 1 \in DOMAIN Steps
    BY <1>1, <1>2, <1>4 DEF Advance
  <2> QED
    BY <1>4, <2>1 DEF TypeOK, Advance
<1>5. CASE Advance(p) /\ ~(step[p] < Len(Steps))
  BY <1>5 DEF TypeOK, Advance
<1> QED
  BY <1>3, <1>4, <1>5

\* Every step keeps the variables in their types.
LEMMA TypeStep == TypeOK /\ [Next]_vars => TypeOK'
<1> SUFFICES ASSUME TypeOK, [Next]_vars PROVE TypeOK'
  OBVIOUS
<1> USE DEF TypeOK
<1>1. Len(Steps) \in Nat \ {0} /\ DOMAIN Steps = 1..Len(Steps)
  BY StepsAssumption
<1>2. ASSUME NEW p \in Processes, Setup(p) PROVE TypeOK'
  BY <1>1, <1>2, BoundsAssumption DEF Setup
<1>3. ASSUME NEW p \in Processes, CheckExec(p) PROVE TypeOK'
  <2>1. CASE Advance(p)
    BY <1>3, <2>1, AdvanceType DEF CheckExec
  <2>2. CASE pc' = [pc EXCEPT ![p] = "start"] /\ UNCHANGED <<step, failed>>
    BY <1>3, <2>2 DEF CheckExec
  <2> QED
    BY <1>3, <2>1, <2>2 DEF CheckExec
<1>4. ASSUME NEW p \in Processes, PushStarted(p) PROVE TypeOK'
  <2>1. CASE Exit(p) /\ UNCHANGED <<log, started, done>>
    BY <1>4, <2>1, AdvanceType DEF PushStarted
  <2>2. CASE /\ Store(Name(p), "started", NoRun)
             /\ pc' = [pc EXCEPT ![p] = "execute"] /\ UNCHANGED <<step, failed>>
    <3>1. NoRun \in Runs /\ "started" \in Types
      BY DEF Runs, Types
    <3>2. log' \in Seq(SetupStep) /\ started' \subseteq Names /\ done' \subseteq Names
      BY <2>2, <3>1, NameType, StoreEffect
    <3> QED
      BY <1>4, <2>2, <3>2 DEF PushStarted
  <2> QED
    BY <1>4, <2>1, <2>2 DEF PushStarted
<1>5. ASSUME NEW p \in Processes, Execute(p) PROVE TypeOK'
  BY <1>5 DEF Execute
<1>6. ASSUME NEW p \in Processes, PushDone(p) PROVE TypeOK'
  <2>1. Advance(p) \/ Exit(p)
    BY <1>6 DEF PushDone
  <2>2. log' \in Seq(SetupStep) /\ started' \subseteq Names /\ done' \subseteq Names
    <3>1. CASE UNCHANGED <<log, started, done>>
      BY <3>1
    <3>2. CASE Store(Name(p), DoneType(p), DoneRun(p))
      BY <3>2, NameType, DoneEventType, StoreEffect
    <3> QED
      BY <1>6, <3>1, <3>2 DEF PushDone
  <2> QED
    BY <1>6, <2>1, <2>2, AdvanceType DEF PushDone
<1>7. ASSUME NEW p \in Processes, Crash(p) PROVE TypeOK'
  BY <1>7, AdvanceType DEF Crash
<1>8. ASSUME NEW p \in Processes, AnswerLost(p) PROVE TypeOK'
  <2>1. log' \in Seq(SetupStep) /\ started' \subseteq Names /\ done' \subseteq Names
    <3>1. CASE Store(Name(p), "started", NoRun)
      <4>1. NoRun \in Runs /\ "started" \in Types
        BY DEF Runs, Types
      <4> QED
        BY <3>1, <4>1, NameType, StoreEffect
    <3>2. CASE Store(Name(p), DoneType(p), DoneRun(p))
      BY <3>2, NameType, DoneEventType, StoreEffect
    <3> QED
      BY <1>8, <3>1, <3>2 DEF AnswerLost
  <2> QED
    BY <1>8, <2>1, AdvanceType DEF AnswerLost
<1>9. ASSUME NEW c \in Cleaners, Cleanup(c) PROVE TypeOK'
  <2>1. log[Len(log)] \in SetupStep
    BY <1>9 DEF Cleanup
  <2>2. log[Len(log)].name \in Names
    BY <2>1 DEF SetupStep
  <2> QED
    BY <1>9, <2>2 DEF Cleanup, LatestStep, procVars
<1>10. ASSUME NEW c \in Cleaners, CancelStep(c) PROVE TypeOK'
  <2>1. PICK n \in target[c] : Store(n, "failed", NoRun) \/ UNCHANGED <<log, started, done>>
    BY <1>10 DEF CancelStep
  <2>2. n \in Names /\ NoRun \in Runs /\ "failed" \in Types
    BY DEF Runs, Types
  <2>3. log' \in Seq(SetupStep) /\ started' \subseteq Names /\ done' \subseteq Names
    BY <2>1, <2>2, StoreEffect
  <2> QED
    BY <1>10, <2>3 DEF CancelStep, procVars
<1>11. CASE UNCHANGED vars
  BY <1>11 DEF vars, procVars
<1> QED
  BY <1>2, <1>3, <1>4, <1>5, <1>6, <1>7, <1>8, <1>9, <1>10, <1>11 DEF Next

\* The variables have their types in every state setup can reach.
THEOREM TypeCorrect == Spec => []TypeOK
<1>1. Init => TypeOK
  BY StepsAssumption DEF Init, TypeOK
<1> QED
  BY <1>1, TypeStep, PTL DEF Spec

-----------------------------------------------------------------------------
(* Steps in order: the events a process has seen, or has pushed, stay.     *)

\* The part about one process.
Ordered(p) ==
    pc[p] # "exited" =>
        \A k \in DOMAIN Steps : k < step[p] /\ Steps[k] \notin Repeatables => IsDone(Steps[k])

\* Every done event has its constraint, and there is one for each name.
DoneOnce ==
    /\ \A k \in DOMAIN log : log[k].type = "done" => log[k].name \in done
    /\ \A k, l \in DOMAIN log :
          log[k].type = "done" /\ log[l].type = "done" /\ log[k].name = log[l].name => k = l

OrderInv == TypeOK /\ (\A p \in Processes : Ordered(p)) /\ DoneOnce

\* An event whose push violates no constraint keeps the done events unique.
LEMMA StoreDoneOnce ==
    ASSUME TypeOK, DoneOnce, NEW n \in Names, NEW t \in Types, NEW r \in Runs,
           Store(n, t, r), ~Exists(n, t)
    PROVE  DoneOnce'
<1>1. /\ DOMAIN log' = DOMAIN log \cup {Len(log) + 1}
      /\ \A k \in DOMAIN log : k # Len(log) + 1 /\ log'[k] = log[k]
      /\ log'[Len(log) + 1] = [name |-> n, type |-> t, lastRun |-> r]
  BY StoreEffect
<1>2. done' = (IF t = "done" THEN done \cup {n} ELSE done) /\ (t = "done" => n \notin done)
  BY DEF Store, Exists
<1>3. \A k \in DOMAIN log' : log'[k].type = "done" => log'[k].name \in done'
  BY <1>1, <1>2 DEF DoneOnce
<1>4. ASSUME NEW k \in DOMAIN log', NEW l \in DOMAIN log',
             log'[k].type = "done", log'[l].type = "done", log'[k].name = log'[l].name
      PROVE  k = l
  <2>1. CASE k \in DOMAIN log /\ l \in DOMAIN log
    BY <1>1, <1>4, <2>1 DEF DoneOnce
  <2>2. CASE k = Len(log) + 1 /\ l \in DOMAIN log
    BY <1>1, <1>2, <1>4, <2>2 DEF DoneOnce
  <2>3. CASE l = Len(log) + 1 /\ k \in DOMAIN log
    BY <1>1, <1>2, <1>4, <2>3 DEF DoneOnce
  <2> QED
    BY <1>1, <1>4, <2>1, <2>2, <2>3
<1> QED
  BY <1>3, <1>4 DEF DoneOnce

\* A process stays in order when its step grows by one over a migration that is done.
LEMMA OrderedStep ==
    ASSUME TypeOK, NEW p \in Processes, \A q \in Processes : Ordered(q),
           \A m : IsDone(m) => IsDone(m)',
           pc[p] # "exited", NEW n, n = Name(p),
           Exit(p) \/ (Advance(p) /\ (n \in Repeatables \/ IsDone(n)'))
    PROVE  \A q \in Processes : Ordered(q)'
<1> SUFFICES ASSUME NEW q \in Processes, pc'[q] # "exited",
                    NEW k \in DOMAIN Steps, k < step'[q], Steps[k] \notin Repeatables
             PROVE  IsDone(Steps[k])'
  BY DEF Ordered
<1>1. Len(Steps) \in Nat /\ DOMAIN Steps = 1..Len(Steps)
  BY StepsAssumption
<1>2. CASE q # p
  <2>1. pc'[q] = pc[q] /\ step'[q] = step[q]
    BY <1>2 DEF TypeOK, Exit, Advance
  <2> QED
    BY <2>1 DEF Ordered
<1>3. CASE q = p
  <2>1. Advance(p) /\ step'[p] = step[p] + 1
    BY <1>3 DEF TypeOK, Exit, Advance
  <2>2. k < step[p] \/ k = step[p]
    BY <1>1, <1>3, <2>1 DEF TypeOK
  <2>3. CASE k < step[p]
    BY <2>3 DEF Ordered
  <2>4. CASE k = step[p]
    <3>1. Steps[k] = n /\ ~Exit(p)
      BY <1>3, <2>4 DEF Name, TypeOK, Exit
    <3> QED
      BY <3>1
  <2> QED
    BY <2>2, <2>3, <2>4
<1> QED
  BY <1>2, <1>3

\* A process whose place does not change stays in order while the log only grows.
LEMMA OrderedKept ==
    ASSUME \A q \in Processes : Ordered(q),
           \A m : IsDone(m) => IsDone(m)',
           \A q \in Processes : step'[q] = step[q] /\ (pc[q] = "exited" => pc'[q] = "exited")
    PROVE  \A q \in Processes : Ordered(q)'
  BY DEF Ordered

\* Every step keeps all processes in order and the done events unique.
LEMMA OrderStep == OrderInv /\ [Next]_vars => OrderInv'
<1> SUFFICES ASSUME OrderInv, [Next]_vars
             PROVE  (\A q \in Processes : Ordered(q)') /\ DoneOnce'
  BY TypeStep DEF OrderInv
<1> DEFINE Goal == (\A q \in Processes : Ordered(q)') /\ DoneOnce'
<1>1. TypeOK /\ DoneOnce /\ \A q \in Processes : Ordered(q)
  BY DEF OrderInv
<1>2. ASSUME UNCHANGED <<log, done>>
      PROVE  DoneOnce' /\ \A m : IsDone(m) => IsDone(m)'
  BY <1>1, <1>2 DEF DoneOnce, IsDone
<1>3. ASSUME NEW p \in Processes, Setup(p) PROVE Goal
  <2>1. DoneOnce' /\ \A m : IsDone(m) => IsDone(m)'
    BY <1>2, <1>3 DEF Setup
  <2>2. ASSUME NEW q \in Processes PROVE Ordered(q)'
    <3>1. CASE q = p
      BY <1>1, <1>3, <3>1, StepsAssumption DEF Setup, Ordered, TypeOK
    <3>2. CASE q # p
      BY <1>1, <1>3, <2>1, <3>2 DEF Setup, Ordered, TypeOK
    <3> QED
      BY <3>1, <3>2
  <2> QED
    BY <2>1, <2>2
<1>4. ASSUME NEW p \in Processes, CheckExec(p) PROVE Goal
  <2>1. DoneOnce' /\ \A m : IsDone(m) => IsDone(m)'
    BY <1>2, <1>4 DEF CheckExec
  <2>2. CASE Advance(p) /\ (Name(p) \in Repeatables \/ IsDone(Name(p)))
    <3>1. pc[p] # "exited"
      BY <1>4 DEF CheckExec
    <3>2. PICK n : n = Name(p)
      OBVIOUS
    <3>3. n \in Repeatables \/ IsDone(n)'
      BY <2>1, <2>2, <3>2
    <3> QED
      BY <1>1, <2>1, <2>2, <3>1, <3>2, <3>3, OrderedStep
  <2>3. CASE pc' = [pc EXCEPT ![p] = "start"] /\ UNCHANGED <<step, failed>>
    <3>1. \A q \in Processes : step'[q] = step[q] /\ (pc[q] = "exited" => pc'[q] = "exited")
      BY <1>1, <1>4, <2>3 DEF CheckExec, TypeOK
    <3> QED
      BY <1>1, <2>1, <3>1, OrderedKept
  <2> QED
    BY <1>4, <2>2, <2>3 DEF CheckExec
<1>5. ASSUME NEW p \in Processes, Execute(p) PROVE Goal
  <2>1. DoneOnce' /\ \A m : IsDone(m) => IsDone(m)'
    BY <1>2, <1>5 DEF Execute
  <2>2. \A q \in Processes : step'[q] = step[q] /\ (pc[q] = "exited" => pc'[q] = "exited")
    BY <1>1, <1>5 DEF Execute, TypeOK
  <2> QED
    BY <1>1, <2>1, <2>2, OrderedKept
<1>6. ASSUME NEW p \in Processes, Exit(p), UNCHANGED <<log, done>> PROVE Goal
  <2>1. DoneOnce' /\ \A m : IsDone(m) => IsDone(m)'
    BY <1>2, <1>6
  <2>2. \A q \in Processes : step'[q] = step[q] /\ (pc[q] = "exited" => pc'[q] = "exited")
    BY <1>1, <1>6 DEF Exit, TypeOK
  <2> QED
    BY <1>1, <2>1, <2>2, OrderedKept
<1>7. ASSUME NEW n \in Names, NEW t \in Types, NEW r \in Runs, Store(n, t, r), ~Exists(n, t)
      PROVE  /\ DoneOnce' /\ (\A m : IsDone(m) => IsDone(m)')
             /\ t \in {"done", "repeatable.done"} => IsDone(n)'
  BY <1>1, <1>7, StoreDoneOnce, StoreEffect
<1>8. NoRun \in Runs /\ "started" \in Types /\ "failed" \in Types
  BY DEF Runs, Types
<1>9. ASSUME NEW p \in Processes, PushStarted(p) PROVE Goal
  <2>1. CASE Exists(Name(p), "started")
    BY <1>6, <1>9, <2>1 DEF PushStarted
  <2>2. CASE ~Exists(Name(p), "started")
    <3>1. DoneOnce' /\ \A m : IsDone(m) => IsDone(m)'
      BY <1>1, <1>7, <1>8, <1>9, <2>2, NameType DEF PushStarted
    <3>2. \A q \in Processes : step'[q] = step[q] /\ (pc[q] = "exited" => pc'[q] = "exited")
      BY <1>1, <1>9, <2>2 DEF PushStarted, TypeOK
    <3> QED
      BY <1>1, <3>1, <3>2, OrderedKept
  <2> QED
    BY <2>1, <2>2
<1>10. ASSUME NEW p \in Processes, PushDone(p) PROVE Goal
  <2>1. CASE Exists(Name(p), DoneType(p))
    BY <1>6, <1>10, <2>1 DEF PushDone
  <2>2. CASE ~Exists(Name(p), DoneType(p))
    <3>1. PICK n, t : n = Name(p) /\ t = DoneType(p)
      OBVIOUS
    <3>2. /\ DoneOnce' /\ (\A m : IsDone(m) => IsDone(m)')
          /\ t \in {"done", "repeatable.done"} => IsDone(n)'
      BY <1>1, <1>7, <1>10, <2>2, <3>1, NameType, DoneEventType DEF PushDone
    <3>3. ~failed[p] => t \in {"done", "repeatable.done"}
      BY <1>1, <3>1 DEF DoneType, TypeOK
    <3>4. Exit(p) \/ (Advance(p) /\ IsDone(n)')
      BY <1>10, <2>2, <3>2, <3>3 DEF PushDone
    <3>5. pc[p] # "exited"
      BY <1>10 DEF PushDone
    <3> QED
      BY <1>1, <3>1, <3>2, <3>4, <3>5, OrderedStep
  <2> QED
    BY <2>1, <2>2
<1>11. ASSUME NEW p \in Processes, Crash(p) PROVE Goal
  BY <1>6, <1>11 DEF Crash
<1>12. ASSUME NEW p \in Processes, AnswerLost(p) PROVE Goal
  <2>1. DoneOnce' /\ \A m : IsDone(m) => IsDone(m)'
    <3>1. CASE Store(Name(p), "started", NoRun) /\ ~Exists(Name(p), "started")
      BY <1>1, <1>7, <1>8, <3>1, NameType
    <3>2. CASE Store(Name(p), DoneType(p), DoneRun(p)) /\ ~Exists(Name(p), DoneType(p))
      BY <1>1, <1>7, <3>2, NameType, DoneEventType
    <3> QED
      BY <1>12, <3>1, <3>2 DEF AnswerLost
  <2>2. \A q \in Processes : step'[q] = step[q] /\ (pc[q] = "exited" => pc'[q] = "exited")
    BY <1>1, <1>12 DEF AnswerLost, Exit, TypeOK
  <2> QED
    BY <1>1, <2>1, <2>2, OrderedKept
<1>13. ASSUME NEW c \in Cleaners, Cleanup(c) \/ CancelStep(c) PROVE Goal
  <2>1. DoneOnce' /\ \A m : IsDone(m) => IsDone(m)'
    <3>1. CASE UNCHANGED <<log, done>>
      BY <1>2, <3>1
    <3>2. ASSUME NEW n \in target[c], Store(n, "failed", NoRun)
          PROVE  DoneOnce' /\ \A m : IsDone(m) => IsDone(m)'
      <4>1. n \in Names /\ ~Exists(n, "failed")
        BY <1>1 DEF TypeOK, Exists
      <4> QED
        BY <1>7, <1>8, <3>2, <4>1
    <3> QED
      BY <1>13, <3>1, <3>2 DEF Cleanup, CancelStep
  <2>2. \A q \in Processes : step'[q] = step[q] /\ (pc[q] = "exited" => pc'[q] = "exited")
    BY <1>13 DEF Cleanup, CancelStep, procVars
  <2> QED
    BY <1>1, <2>1, <2>2, OrderedKept
<1>14. CASE UNCHANGED vars
  <2>1. DoneOnce' /\ \A m : IsDone(m) => IsDone(m)'
    BY <1>2, <1>14 DEF vars
  <2>2. \A q \in Processes : step'[q] = step[q] /\ (pc[q] = "exited" => pc'[q] = "exited")
    BY <1>14 DEF vars, procVars
  <2> QED
    BY <1>1, <2>1, <2>2, OrderedKept
<1> QED
  BY <1>3, <1>4, <1>5, <1>9, <1>10, <1>11, <1>12, <1>13, <1>14 DEF Next

(***************************************************************************)
(* No process works on a migration before those ahead of it in the list    *)
(* are done, and no migration is recorded as done twice, for any number of *)
(* processes, crashes, lost answers and runs of Cleanup.                   *)
(***************************************************************************)
THEOREM StepsCorrect == Spec => []StepsInOrder
<1>1. Init => OrderInv
  <2>1. Init => TypeOK
    BY StepsAssumption DEF Init, TypeOK
  <2>2. Init => DoneOnce /\ \A p \in Processes : Ordered(p)
    BY DEF Init, DoneOnce, Ordered
  <2> QED
    BY <2>1, <2>2 DEF OrderInv
<1>2. OrderInv => StepsInOrder
  <2> SUFFICES ASSUME OrderInv PROVE StepsInOrder
    OBVIOUS
  <2>1. Len(Steps) \in Nat /\ DOMAIN Steps = 1..Len(Steps)
    BY StepsAssumption
  <2>2. ASSUME NEW p \in Processes, NEW k \in 1..(step[p] - 1)
        PROVE  k \in DOMAIN Steps /\ k < step[p]
    BY <2>1, <2>2 DEF OrderInv, TypeOK
  <2> QED
    BY <2>2 DEF OrderInv, StepsInOrder, DoneOnce, Ordered
<1> QED
  BY <1>1, <1>2, OrderStep, PTL DEF Spec

-----------------------------------------------------------------------------
(* Exclusive execution, as long as nobody cancels                          *)

(***************************************************************************)
(* The process that works on a migration holds migration_started, and      *)
(* nobody else works on it; a migration that is done keeps the constraint  *)
(* and nobody works on it.                                                 *)
(***************************************************************************)
Held == \A p \in Processes, n \in Names : Working(p, n) => n \in started
DoneHeld ==
    \A n \in Names \ Repeatables :
        IsDone(n) => n \in started /\ \A p \in Processes : ~Working(p, n)
NoCancel == cancels = 0 /\ \A c \in Cleaners : target[c] = {}

ExclusiveInv == TypeOK /\ (cancels = 0 => NoCancel /\ Held /\ Exclusive /\ DoneHeld)

\* What has been cancelled stays cancelled.
LEMMA CancelsGrow ==
    ASSUME TypeOK, [Next]_vars, cancels' = 0 PROVE cancels = 0
<1>1. cancels \in Nat
  BY DEF TypeOK
<1>2. ASSUME NEW p \in Processes,
             \/ Setup(p) \/ CheckExec(p) \/ PushStarted(p) \/ Execute(p) \/ PushDone(p)
             \/ Crash(p) \/ AnswerLost(p)
      PROVE  cancels' = cancels
  BY <1>2 DEF Setup, CheckExec, PushStarted, Execute, PushDone, Crash, AnswerLost
<1>3. ASSUME NEW c \in Cleaners, Cleanup(c) \/ CancelStep(c)
      PROVE  cancels' = cancels \/ cancels' = cancels + 1
  BY <1>3 DEF Cleanup, CancelStep
<1>4. CASE UNCHANGED vars
  BY <1>4 DEF vars
<1> QED
  BY <1>1, <1>2, <1>3, <1>4 DEF Next

\* Whoever works on a migration afterwards did so before, and its constraint is kept.
LEMMA ExclusiveKept ==
    ASSUME Held, Exclusive, DoneHeld,
           started \subseteq started',
           \A n : IsDone(n)' <=> IsDone(n),
           \A q \in Processes, n \in Names : Working(q, n)' => Working(q, n)
    PROVE  Held' /\ Exclusive' /\ DoneHeld'
  BY DEF Held, Exclusive, DoneHeld

\* A process that leaves its migration with an event that ends it.
LEMMA ExclusiveLeft ==
    ASSUME TypeOK, Held, Exclusive, DoneHeld,
           NEW p \in Processes, NEW n \in Names, Working(p, n),
           NEW t \in Types \ {"started"}, NEW r \in Runs, Store(n, t, r),
           t = "repeatable.done" => n \in Repeatables,
           Exit(p) \/ Advance(p)
    PROVE  Held' /\ Exclusive' /\ DoneHeld'
<1>1. \A m : IsDone(m)' <=> IsDone(m) \/ (m = n /\ t \in {"done", "repeatable.done"})
  BY StoreEffect
<1>2. ~Working(p, n)' /\ \A m \in Names : ~Working(p, m)'
  BY DEF TypeOK, Working, Exit, Advance
<1>3. \A q \in Processes \ {p}, m \in Names : Working(q, m)' <=> Working(q, m)
  BY DEF TypeOK, Working, Name, Exit, Advance
<1>4. \A q \in Processes \ {p} : ~Working(q, n)
  BY DEF Exclusive
<1>5. /\ \A m \in Names : m # n => (m \in started' <=> m \in started)
      /\ t = "done" => started' = started
  BY DEF Store, Types
<1>6. n \in started
  BY DEF Held
<1>7. Held'
  BY <1>2, <1>3, <1>4, <1>5 DEF Held
<1>8. Exclusive'
  BY <1>2, <1>3 DEF Exclusive
<1>9. ASSUME NEW m \in Names \ Repeatables, IsDone(m)'
      PROVE  m \in started' /\ \A q \in Processes : ~Working(q, m)'
  <2>1. CASE m = n
    <3>1. ~IsDone(n)
      BY <2>1 DEF DoneHeld
    <3>2. t = "done"
      BY <1>1, <1>9, <2>1, <3>1
    <3> QED
      BY <1>2, <1>3, <1>4, <1>5, <1>6, <2>1, <3>2
  <2>2. CASE m # n
    <3>1. IsDone(m)
      BY <1>1, <1>9, <2>2
    <3> QED
      BY <1>2, <1>3, <1>5, <2>2, <3>1 DEF DoneHeld
  <2> QED
    BY <2>1, <2>2
<1> QED
  BY <1>7, <1>8, <1>9 DEF DoneHeld

\* Until Cleanup is run every step keeps execution exclusive.
LEMMA ExclusiveStep == ExclusiveInv /\ [Next]_vars => ExclusiveInv'
<1> SUFFICES ASSUME ExclusiveInv, [Next]_vars, cancels' = 0
             PROVE  NoCancel' /\ Held' /\ Exclusive' /\ DoneHeld'
  BY TypeStep DEF ExclusiveInv
<1> DEFINE Goal == NoCancel' /\ Held' /\ Exclusive' /\ DoneHeld'
<1>1. TypeOK /\ NoCancel /\ Held /\ Exclusive /\ DoneHeld
  BY CancelsGrow DEF ExclusiveInv
<1>2. ASSUME UNCHANGED <<log, started, target, cancels>>,
             \A q \in Processes, n \in Names : Working(q, n)' => Working(q, n)
      PROVE  Goal
  <2>1. \A n : IsDone(n)' <=> IsDone(n)
    BY <1>2 DEF IsDone
  <2>2. NoCancel'
    BY <1>1, <1>2 DEF NoCancel
  <2> QED
    BY <1>1, <1>2, <2>1, <2>2, ExclusiveKept
<1>3. ASSUME NEW p \in Processes, Exit(p) \/ Advance(p), UNCHANGED <<log, started, target, cancels>>
      PROVE  Goal
  <2>1. \A q \in Processes, n \in Names : Working(q, n)' => Working(q, n)
    BY <1>1, <1>3 DEF TypeOK, Working, Name, Exit, Advance
  <2> QED
    BY <1>2, <1>3, <2>1
<1>4. ASSUME NEW p \in Processes, Setup(p) PROVE Goal
  <2>1. \A q \in Processes, n \in Names : Working(q, n)' => Working(q, n)
    BY <1>1, <1>4 DEF Setup, TypeOK, Working, Name
  <2> QED
    BY <1>2, <1>4, <2>1 DEF Setup
<1>5. ASSUME NEW p \in Processes, CheckExec(p) PROVE Goal
  <2>1. CASE Advance(p)
    BY <1>3, <1>5, <2>1 DEF CheckExec
  <2>2. CASE pc' = [pc EXCEPT ![p] = "start"] /\ UNCHANGED <<step, failed>>
    <3>1. \A q \in Processes, n \in Names : Working(q, n)' => Working(q, n)
      BY <1>1, <2>2 DEF TypeOK, Working, Name
    <3> QED
      BY <1>2, <1>5, <3>1 DEF CheckExec
  <2> QED
    BY <1>5, <2>1, <2>2 DEF CheckExec
<1>6. ASSUME NEW p \in Processes, Execute(p) PROVE Goal
  <2>1. \A q \in Processes, n \in Names : Working(q, n)' => Working(q, n)
    BY <1>1, <1>6 DEF Execute, TypeOK, Working, Name
  <2> QED
    BY <1>2, <1>6, <2>1 DEF Execute
<1>7. ASSUME NEW n \in Names, Store(n, "started", NoRun)
      PROVE  started' = started \cup {n} /\ \A m : IsDone(m)' <=> IsDone(m)
  <2>1. NoRun \in Runs /\ "started" \in Types
    BY DEF Runs, Types
  <2> QED
    BY <1>1, <1>7, <2>1, StoreEffect DEF Store
<1>8. ASSUME NEW p \in Processes, PushStarted(p) PROVE Goal
  <2>1. CASE Exists(Name(p), "started")
    BY <1>3, <1>8, <2>1 DEF PushStarted
  <2>2. CASE ~Exists(Name(p), "started")
    <3>1. PICK n \in Names : n = Name(p)
      BY <1>1, NameType
    <3>2. n \notin started
      BY <2>2, <3>1 DEF Exists
    <3>3. started' = started \cup {n} /\ \A m : IsDone(m)' <=> IsDone(m)
      BY <1>7, <1>8, <2>2, <3>1 DEF PushStarted
    <3>4. \A q \in Processes, m \in Names : Working(q, m)' => Working(q, m) \/ (q = p /\ m = n)
      BY <1>1, <1>8, <2>2, <3>1 DEF PushStarted, TypeOK, Working, Name
    <3>5. Held' /\ Exclusive'
      BY <1>1, <3>2, <3>3, <3>4 DEF Held, Exclusive
    <3>6. DoneHeld'
      BY <1>1, <3>2, <3>3, <3>4 DEF DoneHeld
    <3>7. NoCancel'
      BY <1>1, <1>8 DEF PushStarted, NoCancel
    <3> QED
      BY <3>5, <3>6, <3>7
  <2> QED
    BY <2>1, <2>2
<1>9. ASSUME NEW p \in Processes, pc[p] = "finish", Exit(p) \/ Advance(p),
             Store(Name(p), DoneType(p), DoneRun(p))
      PROVE  Held' /\ Exclusive' /\ DoneHeld'
  <2>1. PICK n \in Names, t \in Types, r \in Runs :
            n = Name(p) /\ t = DoneType(p) /\ r = DoneRun(p)
    BY <1>1, NameType, DoneEventType
  <2>2. t # "started" /\ (t = "repeatable.done" => n \in Repeatables)
    BY <1>1, <2>1 DEF DoneType, TypeOK
  <2>3. Working(p, n)
    BY <1>9, <2>1 DEF Working
  <2> QED
    BY <1>1, <1>9, <2>1, <2>2, <2>3, ExclusiveLeft
<1>10. ASSUME NEW p \in Processes, PushDone(p) PROVE Goal
  <2>1. CASE Exists(Name(p), DoneType(p))
    BY <1>3, <1>10, <2>1 DEF PushDone
  <2>2. CASE ~Exists(Name(p), DoneType(p))
    <3>1. NoCancel'
      BY <1>1, <1>10 DEF PushDone, NoCancel
    <3> QED
      BY <1>9, <1>10, <2>2, <3>1 DEF PushDone
  <2> QED
    BY <2>1, <2>2
<1>11. ASSUME NEW p \in Processes, Crash(p) PROVE Goal
  BY <1>3, <1>11 DEF Crash
<1>12. ASSUME NEW p \in Processes, AnswerLost(p) PROVE Goal
  <2>1. NoCancel'
    BY <1>1, <1>12 DEF AnswerLost, NoCancel
  <2>2. CASE pc[p] = "finish"
    BY <1>9, <1>12, <2>1, <2>2 DEF AnswerLost
  <2>3. CASE pc[p] = "start"
    <3>1. PICK n \in Names : n = Name(p)
      BY <1>1, NameType
    <3>2. started' = started \cup {n} /\ \A m : IsDone(m)' <=> IsDone(m)
      BY <1>7, <1>12, <2>3, <3>1 DEF AnswerLost
    <3>3. \A q \in Processes, m \in Names : Working(q, m)' => Working(q, m)
      BY <1>1, <1>12 DEF AnswerLost, Exit, TypeOK, Working, Name
    <3> QED
      BY <1>1, <2>1, <3>2, <3>3, ExclusiveKept
  <2> QED
    BY <1>12, <2>2, <2>3 DEF AnswerLost
<1>13. ASSUME NEW c \in Cleaners, Cleanup(c) \/ CancelStep(c) PROVE FALSE
  BY <1>1, <1>13 DEF Cleanup, CancelStep, NoCancel
<1>14. CASE UNCHANGED vars
  <2>1. \A q \in Processes, n \in Names : Working(q, n)' => Working(q, n)
    BY <1>14 DEF vars, procVars, Working, Name
  <2> QED
    BY <1>2, <1>14, <2>1 DEF vars
<1> QED
  BY <1>4, <1>5, <1>6, <1>8, <1>10, <1>11, <1>12, <1>13, <1>14 DEF Next

\* It holds from the start.
LEMMA ExclusiveInit == Init => ExclusiveInv
<1> SUFFICES ASSUME Init PROVE ExclusiveInv
  OBVIOUS
<1>1. TypeOK
  BY StepsAssumption DEF Init, TypeOK
<1>2. NoCancel /\ Held /\ Exclusive
  BY DEF Init, NoCancel, Held, Exclusive, Working
<1>3. DoneHeld
  BY DEF Init, DoneHeld, IsDone
<1> QED
  BY <1>1, <1>2, <1>3 DEF ExclusiveInv

(***************************************************************************)
(* Until somebody runs Cleanup no two processes execute the same migration *)
(* at the same time: what checkExec says it ensures.                       *)
(***************************************************************************)
THEOREM OneAtATimeCorrect == Spec => []OneAtATime
<1>1. ExclusiveInv => OneAtATime
  BY DEF ExclusiveInv, OneAtATime
<1> QED
  BY <1>1, ExclusiveInit, ExclusiveStep, PTL DEF Spec

(***************************************************************************)
(* Until somebody runs Cleanup a migration that is not repeatable is not   *)
(* executed again after it is done.                                        *)
(***************************************************************************)
THEOREM NeverAgainCorrect == Spec => NeverAgain
<1> DEFINE Again ==
        \A p \in Processes :
            cancels = 0 /\ pc[p] = "start" /\ pc'[p] = "execute" /\ Name(p) \notin Repeatables
                => ~IsDone(Name(p))
<1>1. ExclusiveInv /\ [Next]_vars => [Again]_vars
  <2> SUFFICES ASSUME ExclusiveInv, Next, NEW p \in Processes, cancels = 0,
                      pc[p] = "start", pc'[p] = "execute", Name(p) \notin Repeatables
               PROVE  ~IsDone(Name(p))
    OBVIOUS
  <2>1. Name(p) \in Names \ Repeatables
    BY NameType DEF ExclusiveInv
  <2>2. Name(p) \notin started
    <3>1. PushStarted(p) /\ ~Exists(Name(p), "started")
      <4>1. ASSUME NEW q \in Processes,
                   \/ Setup(q) \/ CheckExec(q) \/ Execute(q) \/ PushDone(q)
                   \/ Crash(q) \/ AnswerLost(q)
            PROVE  FALSE
        BY <4>1 DEF ExclusiveInv, TypeOK, Setup, CheckExec, Execute, PushDone, Crash,
                    AnswerLost, Exit, Advance
      <4>2. ASSUME NEW q \in Processes, PushStarted(q)
            PROVE  q = p /\ ~Exists(Name(p), "started")
        BY <4>2 DEF ExclusiveInv, TypeOK, PushStarted, Exit
      <4>3. ASSUME NEW c \in Cleaners, Cleanup(c) \/ CancelStep(c) PROVE FALSE
        BY <4>3 DEF Cleanup, CancelStep, procVars
      <4> QED
        BY <4>1, <4>2, <4>3 DEF Next
    <3> QED
      BY <3>1 DEF Exists
  <2> QED
    BY <2>1, <2>2 DEF ExclusiveInv, DoneHeld
<1>2. Spec => [][Again]_vars
  BY <1>1, ExclusiveInit, ExclusiveStep, PTL DEF Spec
<1> QED
  BY <1>2 DEF NeverAgain
=============================================================================
