----------------------------- MODULE Migration -----------------------------
(***************************************************************************)
(* `zitadel setup`: several processes run the same list of migrations      *)
(* against one database (internal/migration, cmd/setup), and a person may  *)
(* run `zitadel setup cleanup` beside them.                                *)
(*                                                                         *)
(* The only thing the processes share is the event store: the events of    *)
(* the aggregate SYSTEM, and the global unique constraints                 *)
(* migration_started and migration_done that Push maintains with them.  A  *)
(* Push is one step here; EventStore is about what it is made of.          *)
(***************************************************************************)
EXTENDS Integers, Sequences, FiniteSets

CONSTANTS
    Processes,    \* processes that run Setup
    Cleaners,     \* processes that run Cleanup
    Steps,        \* the names of the migrations, in the order Setup runs them
    Repeatables,  \* the names of those that implement RepeatableMigration
    Config,       \* what a process compares with the last run of a repeatable one
    NoRun,        \* a repeatable migration has not been done yet
    MaxStarts,    \* bound: how often a process is started
    MaxFaults,    \* bound: crashes and pushes that fail
    MaxCancels    \* bound: runs of Cleanup

Names == {Steps[k] : k \in DOMAIN Steps}

ASSUME StepsAssumption ==
    /\ Steps # <<>> /\ Steps \in Seq(Names)
    /\ \A k, l \in DOMAIN Steps : Steps[k] = Steps[l] => k = l
ASSUME RepeatablesAssumption == Repeatables \subseteq Names
ASSUME ConfigAssumption == DOMAIN Config = Processes /\ \A p \in Processes : Config[p] # NoRun
ASSUME BoundsAssumption == MaxStarts \in Nat /\ MaxFaults \in Nat /\ MaxCancels \in Nat

VARIABLES
    log,      \* the migration events, in order
    started,  \* the names with a constraint migration_started
    done,     \* the names with a constraint migration_done
    pc,       \* where a process is in Migrate
    step,     \* the migration it is at, an index into Steps
    failed,   \* whether Execute returned an error
    target,   \* the name a run of Cleanup is about to cancel, if any
    starts,   \* how often each process was started
    faults, cancels

procVars == <<pc, step, failed, starts>>
vars == <<log, started, done, procVars, target, faults, cancels>>

Types == {"started", "done", "failed", "repeatable.done"}
Runs == {Config[p] : p \in Processes} \cup {NoRun}
SetupStep == [name : Names, type : Types, lastRun : Runs]

-----------------------------------------------------------------------------
(* What the events say                                                     *)

IsDone(n) == \E k \in DOMAIN log : log[k].name = n /\ log[k].type \in {"done", "repeatable.done"}

\* Mutant: only started events are counted.
FlipsStartedOnly(n) == {k \in DOMAIN log : log[k].name = n /\ log[k].type = "started"}

\* shouldExec flips isStarted at every started and failed event and resets it at a done one.
Flips(n) ==
    {k \in DOMAIN log :
        /\ log[k].name = n
        /\ log[k].type \in {"started", "failed"}
        /\ \A l \in (k + 1)..Len(log) :
              log[l].name = n => log[l].type \notin {"done", "repeatable.done"}}
IsStarted(n) == Cardinality(Flips(n)) % 2 = 1

\* SetLastExecution with every done event: the last one counts.
IsLastRun(n, run) ==
    IF IsDone(n)
    THEN \E k \in DOMAIN log :
            /\ log[k].name = n /\ log[k].type = "repeatable.done" /\ log[k].lastRun = run
            /\ \A l \in (k + 1)..Len(log) : log[l].name = n => log[l].type # "repeatable.done"
    ELSE run = NoRun

-----------------------------------------------------------------------------
(* Setup and Migrate                                                       *)

Name(p) == Steps[step[p]]

\* Migrate returns an error: Setup logs it with Fatal, the process ends.
Exit(p) ==
    /\ pc' = [pc EXCEPT ![p] = "exited"]
    /\ UNCHANGED <<step, failed>>

\* Mutant: Setup does not stop after the last migration.
AdvanceTooFar(p) ==
    /\ pc' = [pc EXCEPT ![p] = "check"] /\ step' = [step EXCEPT ![p] = @ + 1]
    /\ failed' = [failed EXCEPT ![p] = FALSE]

\* Migrate returns nil: Setup goes on with the next migration.
Advance(p) ==
    /\ IF step[p] < Len(Steps)
       THEN pc' = [pc EXCEPT ![p] = "check"] /\ step' = [step EXCEPT ![p] = @ + 1]
       ELSE pc' = [pc EXCEPT ![p] = "exited"] /\ UNCHANGED step
    /\ failed' = [failed EXCEPT ![p] = FALSE]

Setup(p) ==
    /\ pc[p] = "exited"
    /\ starts[p] < MaxStarts
    /\ starts' = [starts EXCEPT ![p] = @ + 1]
    /\ pc' = [pc EXCEPT ![p] = "check"]
    /\ step' = [step EXCEPT ![p] = 1]
    /\ failed' = [failed EXCEPT ![p] = FALSE]
    /\ UNCHANGED <<log, started, done, target, faults, cancels>>

\* checkExec: waits while the migration is started, then decides whether to execute it.
CheckExec(p) ==
    /\ pc[p] = "check"
    /\ IF Name(p) \in Repeatables
       THEN /\ ~IsStarted(Name(p))
            /\ IF IsLastRun(Name(p), Config[p])
               THEN Advance(p)
               ELSE pc' = [pc EXCEPT ![p] = "start"] /\ UNCHANGED <<step, failed>>
       ELSE IF IsDone(Name(p))
            THEN Advance(p)
            ELSE /\ ~IsStarted(Name(p))
                 /\ pc' = [pc EXCEPT ![p] = "start"]
                 /\ UNCHANGED <<step, failed>>
    /\ UNCHANGED <<log, started, done, starts, target, faults, cancels>>

\* Mutant: every event that ends a migration releases migration_started.
StoreReleasing(n, type, run) ==
    /\ log' = Append(log, [name |-> n, type |-> type, lastRun |-> run])
    /\ started' = IF type = "started" THEN started \cup {n} ELSE started \ {n}
    /\ done' = IF type = "done" THEN done \cup {n} ELSE done

\* What a push stores, with the constraints SetupStep.UniqueConstraints gives the event.
Store(n, type, run) ==
    /\ log' = Append(log, [name |-> n, type |-> type, lastRun |-> run])
    /\ started' = CASE type = "started" -> started \cup {n}
                    [] type \in {"failed", "repeatable.done"} -> started \ {n}
                    [] OTHER -> started
    /\ done' = IF type = "done" THEN done \cup {n} ELSE done

\* Mutants: the started event, or the done event, has no unique constraint.
ExistsDoneOnly(n, type) == type = "done" /\ n \in done
ExistsStartedOnly(n, type) == type = "started" /\ n \in started

\* The push violates a unique constraint.
Exists(n, type) == (type = "started" /\ n \in started) \/ (type = "done" /\ n \in done)

\* setupDoneCmd: the type and the last run of the event after Execute.
DoneType(p) ==
    CASE failed[p] -> "failed"
      [] ~failed[p] /\ Name(p) \in Repeatables -> "repeatable.done"
      [] OTHER -> "done"
DoneRun(p) == IF Name(p) \in Repeatables THEN Config[p] ELSE NoRun

PushStarted(p) ==
    /\ pc[p] = "start"
    /\ IF Exists(Name(p), "started")
       THEN Exit(p) /\ UNCHANGED <<log, started, done>>
       ELSE /\ Store(Name(p), "started", NoRun)
            /\ pc' = [pc EXCEPT ![p] = "execute"]
            /\ UNCHANGED <<step, failed>>
    /\ UNCHANGED <<starts, target, faults, cancels>>

Execute(p) ==
    /\ pc[p] = "execute"
    /\ \E err \in BOOLEAN : failed' = [failed EXCEPT ![p] = err]
    /\ pc' = [pc EXCEPT ![p] = "finish"]
    /\ UNCHANGED <<log, started, done, step, starts, target, faults, cancels>>

PushDone(p) ==
    /\ pc[p] = "finish"
    /\ IF Exists(Name(p), DoneType(p))
       THEN Exit(p) /\ UNCHANGED <<log, started, done>>
       ELSE /\ Store(Name(p), DoneType(p), DoneRun(p))
            /\ IF failed[p] THEN Exit(p) ELSE Advance(p)
    /\ UNCHANGED <<starts, target, faults, cancels>>

\* The process stops, or a query or push fails and Setup ends with Fatal.
Crash(p) ==
    /\ pc[p] # "exited"
    /\ faults < MaxFaults
    /\ faults' = faults + 1
    /\ Exit(p)
    /\ UNCHANGED <<log, started, done, starts, target, cancels>>

\* A push is stored but its answer is lost: Push returns an error and Setup ends with Fatal.
AnswerLost(p) ==
    /\ faults < MaxFaults
    /\ faults' = faults + 1
    /\ \/ /\ pc[p] = "start" /\ ~Exists(Name(p), "started")
          /\ Store(Name(p), "started", NoRun)
       \/ /\ pc[p] = "finish" /\ ~Exists(Name(p), DoneType(p))
          /\ Store(Name(p), DoneType(p), DoneRun(p))
    /\ Exit(p)
    /\ UNCHANGED <<starts, target, cancels>>

-----------------------------------------------------------------------------
(* Cleanup                                                                 *)

\* The latest event of any migration.
LatestStep == log[Len(log)]

\* Cleanup does nothing unless the latest event is a started one.
Cleanup(c) ==
    /\ target[c] = {}
    /\ cancels < MaxCancels
    /\ log # <<>>
    /\ LatestStep.type = "started"
    /\ target' = [target EXCEPT ![c] = {LatestStep.name}]
    /\ cancels' = cancels + 1
    /\ UNCHANGED <<log, started, done, procVars, faults>>

\* CancelStep pushes a failed event for the migration, or the push fails.
CancelStep(c) ==
    /\ \E n \in target[c] : Store(n, "failed", NoRun) \/ UNCHANGED <<log, started, done>>
    /\ target' = [target EXCEPT ![c] = {}]
    /\ UNCHANGED <<procVars, faults, cancels>>

-----------------------------------------------------------------------------

Init ==
    /\ log = <<>>
    /\ started = {}
    /\ done = {}
    /\ pc = [p \in Processes |-> "exited"]
    /\ step = [p \in Processes |-> 1]
    /\ failed = [p \in Processes |-> FALSE]
    /\ starts = [p \in Processes |-> 0]
    /\ target = [c \in Cleaners |-> {}]
    /\ faults = 0
    /\ cancels = 0

Next ==
    \/ \E p \in Processes :
          \/ Setup(p) \/ CheckExec(p) \/ PushStarted(p) \/ Execute(p) \/ PushDone(p)
          \/ Crash(p) \/ AnswerLost(p)
    \/ \E c \in Cleaners : Cleanup(c) \/ CancelStep(c)

Spec == Init /\ [][Next]_vars

\* A process that is not waiting goes on, and Execute returns.
Fairness ==
    \A p \in Processes :
        WF_vars(CheckExec(p) \/ PushStarted(p) \/ Execute(p) \/ PushDone(p))

FairSpec == Spec /\ Fairness

-----------------------------------------------------------------------------
(* Properties                                                              *)

\* The variables have their types; Setup stays within its list of migrations.
TypeOK ==
    /\ log \in Seq(SetupStep)
    /\ started \subseteq Names
    /\ done \subseteq Names
    /\ pc \in [Processes -> {"exited", "check", "start", "execute", "finish"}]
    /\ step \in [Processes -> DOMAIN Steps]
    /\ failed \in [Processes -> BOOLEAN]
    /\ starts \in [Processes -> Nat]
    /\ target \in [Cleaners -> SUBSET Names]
    /\ faults \in Nat
    /\ cancels \in Nat

Working(p, n) == pc[p] \in {"execute", "finish"} /\ Name(p) = n

\* No migration is executed by two processes at the same time.
Exclusive == \A p, q \in Processes, n \in Names : Working(p, n) /\ Working(q, n) => p = q

(***************************************************************************)
(* checkExec "ensures that only one setup step is done concurrently": no   *)
(* two processes execute the same migration at the same time, although     *)
(* both may have decided to before either pushed its started event.  Only  *)
(* Cleanup, run on a migration that is not stuck, can break this.          *)
(***************************************************************************)
OneAtATime == cancels = 0 => Exclusive

(***************************************************************************)
(* A migration that is not repeatable is not executed again once it is     *)
(* done, also by a process that decided to execute it before, unless       *)
(* Cleanup was run.  This is why the done event leaves the constraint      *)
(* migration_started in place.                                             *)
(***************************************************************************)
NeverAgain ==
    [][\A p \in Processes :
          cancels = 0 /\ pc[p] = "start" /\ pc'[p] = "execute" /\ Name(p) \notin Repeatables
              => ~IsDone(Name(p))]_vars

(***************************************************************************)
(* A process works on a migration only when all before it in Setup's list  *)
(* that are not repeatable are done, whoever executed them, and there are  *)
(* never two done events for one of them, also when Cleanup cancels a      *)
(* migration that is still being executed.                                 *)
(***************************************************************************)
StepsInOrder ==
    /\ \A p \in Processes : \A k \in 1..(step[p] - 1) :
          pc[p] # "exited" /\ Steps[k] \notin Repeatables => IsDone(Steps[k])
    /\ \A k, l \in DOMAIN log :
          log[k].type = "done" /\ log[l].type = "done" /\ log[k].name = log[l].name => k = l

(***************************************************************************)
(* Processes that wait for each other's migrations all get through the     *)
(* list or end with an error, unless one of them dies while it holds a     *)
(* migration (checkExec waits without limit) or Cleanup interferes.        *)
(***************************************************************************)
EverySetupEnds ==
    \A p \in Processes : pc[p] = "check" ~> pc[p] = "exited" \/ faults > 0 \/ cancels > 0

(***************************************************************************)
(* cmd/setup/cleanup.go: Cleanup "cleans up migration if they got stuck".  *)
(* Stuck: setup waits for a migration although nobody executes it.  Then   *)
(* Cleanup must find it, or somebody is about to cancel it.                *)
(***************************************************************************)
Stuck(n) ==
    /\ IsStarted(n)
    /\ n \in Repeatables \/ ~IsDone(n)
    /\ \A p \in Processes : ~Working(p, n)
    /\ \A c \in Cleaners : n \notin target[c]
CleanupFindsStuck ==
    \A n \in Names :
        Stuck(n) => LatestStep.name = n /\ LatestStep.type = "started"
=============================================================================
