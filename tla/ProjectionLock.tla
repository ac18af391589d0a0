--------------------------- MODULE ProjectionLock ---------------------------
(***************************************************************************)
(* The table projections.locks: a lease on one row per projection and      *)
(* instance (internal/eventstore/handler/crdb/lock.go).  Lock, its renewal *)
(* and Unlock are one SQL statement with different durations.  Schedule    *)
(* and SigningKeys use it; the goroutine that renews a lease is theirs.    *)
(*                                                                         *)
(* Time is relative: a row knows how long it is still locked.              *)
(***************************************************************************)
EXTENDS Integers

CONSTANTS
    Lockers,       \* worker names: one per process and projection
    NoLocker,      \* there is no row, or the worker that wrote it is gone
    Rows,          \* the instance ids, and "system"
    LockDuration

VARIABLE locks     \* the table

Locks == [Rows -> [locker : Lockers \cup {NoLocker}, left : 0..LockDuration]]

\* It does not matter who has written a row that has expired.
Row(w, left) == [locker |-> IF left = 0 THEN NoLocker ELSE w, left |-> left]

LocksInit == locks = [r \in Rows |-> Row(NoLocker, 0)]

\* ... WHERE locker_id = $1 OR locked_until < now(), and rows that do not exist yet.
Granted(w, rows) == {r \in rows : locks[r].locker = w \/ locks[r].left = 0}

\* Mutant: the duration is added to locked_until instead of now().
LockStatementAdding(w, rows, duration) ==
    locks' = [r \in Rows |->
                IF r \in Granted(w, rows) THEN Row(w, locks[r].left + duration) ELSE locks[r]]

\* The statement.  A caller learns only whether it changed a row at all (RowsAffected).
LockStatement(w, rows, duration) ==
    locks' = [r \in Rows |->
                IF r \in Granted(w, rows) THEN Row(w, duration) ELSE locks[r]]

RenewLock(w, rows) == LockStatement(w, rows, LockDuration)
Unlock(w, rows) == LockStatement(w, rows, 0)

\* One unit of time passes.
Elapse == locks' = [r \in Rows |->
                      Row(locks[r].locker, IF locks[r].left = 0 THEN 0 ELSE locks[r].left - 1)]

\* A process stops: NewLocker will choose another worker name, its rows stay until they expire.
Abandon(w) == locks' = [r \in Rows |-> IF locks[r].locker = w
                                       THEN [locks[r] EXCEPT !.locker = NoLocker] ELSE locks[r]]
=============================================================================
