---------------------------- MODULE SigningKeys -----------------------------
(***************************************************************************)
(* How a key to sign tokens with comes into being (internal/api/oidc/      *)
(* key.go; internal/api/saml/certificate.go is the same for the            *)
(* certificates of SAML): a request that finds no active key in the read   *)
(* model makes sure the read model is up to date, takes a lease on the     *)
(* instance and generates one.  Requests of OIDC and of SAML compete for   *)
(* the same lock row.  The lease is not given back: it has to last until   *)
(* the read model shows the new key.                                       *)
(*                                                                         *)
(* There is one instance.  A key is a position in the log of its key pair  *)
(* events.  The check that the read model is up to date compares the       *)
(* highest positions over two aggregate types, key pairs and the instance: *)
(* keys of another usage count there although the request does not need    *)
(* them, and an event of the instance may hide key pairs that are missing. *)
(***************************************************************************)
EXTENDS Integers, Sequences, FiniteSets

CONSTANTS
    Requests,      \* concurrent requests, each repeated for ever
    Storage,       \* the OPStorage or SAML Storage of a request: process and protocol
    Usage,         \* the key usage a request asks for
    NoStorage,     \* the locker of a row whose worker is gone
    LockDuration,
    MaxSpent,      \* bound: time one try of a request takes
    MaxLag,        \* bound: time the projection needs to handle an event
    MaxExpired,    \* bound: how many keys expire
    MaxHidden,     \* bound: key pairs hidden behind an event of the instance
    MaxFaults      \* bound: crashes and failing pushes

Usages == {Usage[r] : r \in Requests}
Storages == {Storage[r] : r \in Requests}
Instance == "instance"

ASSUME SigningKeysAssumption ==
    /\ NoStorage \notin Storages
    /\ LockDuration \in Nat \ {0}
    /\ \A n \in {MaxSpent, MaxLag, MaxExpired, MaxHidden, MaxFaults} : n \in Nat

VARIABLES
    locks,      \* the lease
    log,        \* events of key pairs: their usage and who has generated the key
    projected,  \* how much of the log the projection of keys has handled
    lag,        \* for how long there has been something to handle
    expired,    \* keys that end within the graceful period
    pc,         \* where a request is
    sequence,   \* the sequence of the read model a request has read
    spent,      \* how long this try has taken
    faults

requestVars == <<pc, sequence, spent>>
vars == <<locks, log, projected, lag, expired, requestVars, faults>>

Lock == INSTANCE ProjectionLock WITH Lockers <- Storages, NoLocker <- NoStorage, Rows <- {Instance}

Fault == faults < MaxFaults /\ faults' = faults + 1

-----------------------------------------------------------------------------

\* The keys of a usage in the first n events that are active for longer than the graceful period.
Active(u, n) == {k \in 1..n : log[k].usage = u} \ expired

Goto(r, where) ==
    /\ pc' = [pc EXCEPT ![r] = where]
    /\ UNCHANGED spent

\* A try ends, with a key or with an error (also after a key was generated).  retry sleeps and
\* tries again or gives up and the request is made again: when does not matter here.
EndTry(r) ==
    /\ pc' = [pc EXCEPT ![r] = "idle"]
    /\ spent' = [spent EXCEPT ![r] = 0]
    /\ sequence' = [sequence EXCEPT ![r] = 0]

\* SigningKey, GetCertificateAndKey: the rows of the active keys.
ReadKeys(r) ==
    /\ pc[r] = "idle"
    /\ IF Active(Usage[r], projected) # {}
       THEN EndTry(r)
       ELSE Goto(r, "sequence") /\ UNCHANGED sequence
    /\ UNCHANGED <<locks, log, projected, lag, expired, faults>>

\* Mutant: the sequence is that of the events instead of the projection's.
ReadSequenceOfEvents(r) ==
    /\ pc[r] = "sequence"
    /\ sequence' = [sequence EXCEPT ![r] = Len(log)]
    /\ Goto(r, "ensure")
    /\ UNCHANGED <<locks, log, projected, lag, expired, faults>>

\* ... and, in a query of its own, the latest sequence of the projection.
ReadSequence(r) ==
    /\ pc[r] = "sequence"
    /\ sequence' = [sequence EXCEPT ![r] = projected]
    /\ Goto(r, "ensure")
    /\ UNCHANGED <<locks, log, projected, lag, expired, faults>>

\* Mutant: a projection that has handled nothing yet counts as not up to date.
IsLatestKnown(r) == sequence[r] > 0 /\ sequence[r] = Len(log)

\* ensureIsLatestKey, for the key pairs.
IsLatest(r) == sequence[r] = Len(log)

\* The projection has a position per aggregate type and the highest one was read.  If it is
\* that of an event of the instance, key pairs before it may still have to be handled.
Hidden(r) == sequence[r] < Len(log) /\ Len(log) - projected <= MaxHidden

EnsureIsLatestKey(r) ==
    /\ pc[r] = "ensure"
    /\ \/ /\ IsLatest(r) \/ Hidden(r)
          /\ Goto(r, "lock")
          /\ UNCHANGED sequence
       \/ ~IsLatest(r) /\ EndTry(r)
    /\ UNCHANGED <<locks, log, projected, lag, expired, faults>>

\* Lock; if another storage holds the lease there is nothing to do but to try again.
LockKey(r) ==
    /\ pc[r] = "lock"
    /\ Lock!RenewLock(Storage[r], {Instance})
    /\ IF Lock!Granted(Storage[r], {Instance}) # {}
       THEN Goto(r, "generate") /\ UNCHANGED sequence
       ELSE EndTry(r)
    /\ UNCHANGED <<log, projected, lag, expired, faults>>

\* Mutant: the lease is given back as soon as the key is pushed.
GenerateUnlocking(r) ==
    /\ pc[r] = "generate"
    /\ log' = Append(log, [usage |-> Usage[r], by |-> Storage[r]])
    /\ Lock!Unlock(Storage[r], {Instance})
    /\ EndTry(r)
    /\ UNCHANGED <<projected, lag, expired, faults>>

\* GenerateSigningKeyPair and the generators of certificates: the push, which may fail.
Generate(r) ==
    /\ pc[r] = "generate"
    /\ \/ /\ log' = Append(log, [usage |-> Usage[r], by |-> Storage[r]])
          /\ UNCHANGED faults
       \/ Fault /\ UNCHANGED log
    /\ EndTry(r)
    /\ UNCHANGED <<locks, projected, lag, expired>>

-----------------------------------------------------------------------------

\* The projection of the keys handles what is there.
Project ==
    /\ projected < Len(log)
    /\ projected' = Len(log)
    /\ lag' = 0
    /\ UNCHANGED <<locks, log, expired, requestVars, faults>>

\* A key reaches the graceful period.
Expire ==
    /\ Cardinality(expired) < MaxExpired
    /\ \E u \in Usages : \E k \in Active(u, projected) : expired' = expired \cup {k}
    /\ UNCHANGED <<locks, log, projected, lag, requestVars, faults>>

\* The process of a storage stops and starts again: its requests are gone, its lease is not.
Crash(st) ==
    /\ Fault
    /\ Lock!Abandon(st)
    /\ pc' = [r \in Requests |-> IF Storage[r] = st THEN "idle" ELSE pc[r]]
    /\ sequence' = [r \in Requests |-> IF Storage[r] = st THEN 0 ELSE sequence[r]]
    /\ spent' = [r \in Requests |-> IF Storage[r] = st THEN 0 ELSE spent[r]]
    /\ UNCHANGED <<log, projected, lag, expired>>

Working(r) == pc[r] # "idle"

\* Time passes, for no longer than a try may take and the projection may be behind.
Tick ==
    /\ \A r \in Requests : Working(r) => spent[r] < MaxSpent
    /\ projected < Len(log) => lag < MaxLag
    /\ Lock!Elapse
    /\ lag' = IF projected < Len(log) THEN lag + 1 ELSE 0
    /\ spent' = [r \in Requests |-> IF Working(r) THEN spent[r] + 1 ELSE 0]
    /\ UNCHANGED <<log, projected, expired, pc, sequence, faults>>

-----------------------------------------------------------------------------

Init ==
    /\ Lock!LocksInit
    /\ log = <<>>
    /\ projected = 0
    /\ lag = 0
    /\ expired = {}
    /\ pc = [r \in Requests |-> "idle"]
    /\ sequence = [r \in Requests |-> 0]
    /\ spent = [r \in Requests |-> 0]
    /\ faults = 0

Step(r) ==
    \/ ReadKeys(r) \/ ReadSequence(r) \/ EnsureIsLatestKey(r) \/ LockKey(r) \/ Generate(r)

Next ==
    \/ \E r \in Requests : Step(r)
    \/ \E st \in Storages : Crash(st)
    \/ Project \/ Expire \/ Tick

Spec == Init /\ [][Next]_vars

\* Requests keep coming and are worked on, the projection is scheduled, time passes.
FairSpec == Spec /\ WF_vars(Project) /\ WF_vars(Tick) /\ \A r \in Requests : WF_vars(Step(r))

-----------------------------------------------------------------------------
(* Properties                                                              *)

\* The variables have their types; the read model is never ahead of the log.
TypeOK ==
    /\ locks \in Lock!Locks
    /\ log \in Seq([usage : Usages, by : Storages])
    /\ projected \in 0..Len(log)
    /\ lag \in 0..MaxLag
    /\ expired \subseteq 1..projected
    /\ pc \in [Requests -> {"idle", "sequence", "ensure", "lock", "generate"}]
    /\ sequence \in [Requests -> 0..projected]
    /\ spent \in [Requests -> 0..MaxSpent]
    /\ faults \in 0..MaxFaults

(***************************************************************************)
(* The active keys of a usage come from one storage: another one never     *)
(* generates a key because it does not know of them, although each read of *)
(* a request (rows, sequence, events, lease) may be stale by the time it   *)
(* is used and the projection lags behind, if LockDuration is more than    *)
(* the lag plus the time of two tries.  Requests of the same storage share *)
(* the lease and may generate a key each.                                  *)
(***************************************************************************)
KeysFromOneStorage ==
    LockDuration > 2 * MaxSpent + MaxLag =>
        \A u \in Usages : \A k, l \in Active(u, Len(log)) : log[k].by = log[l].by

(***************************************************************************)
(* When there is no active key in the read model, there will be one:       *)
(* retries, leases nobody gives back, a crash while holding the lease and  *)
(* keys of other usages only delay it.                                     *)
(***************************************************************************)
KeyBecomesAvailable ==
    \A u \in Usages : (Active(u, projected) = {}) ~> (Active(u, projected) # {})
=============================================================================
