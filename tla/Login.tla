------------------------------- MODULE Login -------------------------------
(***************************************************************************)
(* The login of one user with password and one-time password from several  *)
(* user agents (browsers).                                                 *)
(*                                                                         *)
(* A check of a factor pushes an event, and so do the commands that lock,  *)
(* deactivate or remove the user.  What a user agent has verified is the   *)
(* row of the view auth.user_sessions, filled by a spooler.  To find the   *)
(* next step of an auth request the code reads the row and adds the events *)
(* that are newer than it: two queries, three when there is no row, while  *)
(* the spooler and other requests go on.  The user has a password and a    *)
(* one-time password set up, and both are required.                        *)
(***************************************************************************)
EXTENDS Integers, FiniteSets, SequencesExt

CONSTANTS
    Agents,      \* user agents
    Requests,    \* requests handled at the same time
    MaxAttempts, \* MaxPasswordAttempts of the lockout policy, 0 is no limit
    MaxEvents,   \* bound on the events after the initial ones
    MaxLost      \* bound on the failed checks whose push fails

ASSUME RequestsAssumption == IsFiniteSet(Requests) /\ Requests # {}
ASSUME MaxAttemptsAssumption == MaxAttempts \in Nat
ASSUME MaxLostAssumption == MaxLost \in Nat

VARIABLES
    log,      \* the events of the user, an event's index is its sequence
    position, \* current sequence of the view auth.user_sessions
    sessions, \* its rows, by user agent
    request,  \* what each request is about to do
    answered, \* history: wrong passwords answered since an event ended the count
    lost      \* history: those of them whose failed check could not be pushed

counts == <<answered, lost>>
vars == <<log, position, sessions, request, counts>>

NoAgent == "none"

AgentTypes == {"passwordCheckSucceeded", "passwordCheckFailed",
               "otpCheckSucceeded", "otpCheckFailed", "signedOut"}
UserTypes == {"locked", "unlocked", "deactivated", "reactivated", "removed"}
Event(type, agent) == [type |-> type, agent |-> agent]
UserEvent(type) == Event(type, NoAgent)
Events == [type : AgentTypes \cup {"passwordChanged"}, agent : Agents]
              \cup [type : UserTypes \cup {"passwordChanged"}, agent : {NoAgent}]

(***************************************************************************)
(* State of the user: in the view, which the login reads together with the *)
(* newer events, an event after the removal changes the state again; in    *)
(* the write model of the commands it does not.                            *)
(***************************************************************************)
StateAfter(state, type) ==
    CASE type = "locked" -> "locked"
      [] type \in {"unlocked", "reactivated"} -> "active"
      [] type = "deactivated" -> "inactive"
      [] type = "removed" -> "deleted"
      [] OTHER -> state

ViewState == FoldLeft(LAMBDA s, e : StateAfter(s, e.type), "active", log)
UserState ==
    FoldLeft(LAMBDA s, e : IF s = "deleted" THEN s ELSE StateAfter(s, e.type),
             "active", log)

ActiveUserByID == ViewState = "active"

\* PasswordCheckFailedCount of the write model of the password: the failed checks that no later
\* event has set back to zero.
ResetsCount == {"passwordCheckSucceeded", "passwordChanged", "unlocked"}
PasswordCheckFailedCount ==
    Cardinality({i \in DOMAIN log :
                    /\ log[i].type = "passwordCheckFailed"
                    /\ \A j \in i .. Len(log) : log[j].type \notin ResetsCount})

(***************************************************************************)
(* The session of a user agent and what an event does to it.               *)
(***************************************************************************)
Unverified == [password |-> FALSE, otp |-> FALSE, sequence |-> 0]
NoRow == [Unverified EXCEPT !.sequence = -1]
Session == [password : BOOLEAN, otp : BOOLEAN, sequence : Nat]

\* mutant: a changed password ends the session that changed it as well
AppendEventToAll(session, agent, i) ==
    LET s == [session EXCEPT !.sequence = i]
    IN  CASE log[i].type = "passwordCheckSucceeded" -> [s EXCEPT !.password = TRUE]
          [] log[i].type \in {"passwordCheckFailed", "passwordChanged"} ->
                 [s EXCEPT !.password = FALSE]
          [] log[i].type = "otpCheckSucceeded" -> [s EXCEPT !.otp = TRUE]
          [] log[i].type = "otpCheckFailed" -> [s EXCEPT !.otp = FALSE]
          [] log[i].type \in {"signedOut", "locked", "deactivated"} ->
                 [s EXCEPT !.password = FALSE, !.otp = FALSE]
          [] OTHER -> s

AppendEvent(session, agent, i) ==
    LET s == [session EXCEPT !.sequence = i]
    IN  CASE log[i].type = "passwordCheckSucceeded" -> [s EXCEPT !.password = TRUE]
          [] log[i].type = "passwordCheckFailed" -> [s EXCEPT !.password = FALSE]
          [] log[i].type = "passwordChanged" ->
                 [s EXCEPT !.password = @ /\ log[i].agent = agent]
          [] log[i].type = "otpCheckSucceeded" -> [s EXCEPT !.otp = TRUE]
          [] log[i].type = "otpCheckFailed" -> [s EXCEPT !.otp = FALSE]
          [] log[i].type \in {"signedOut", "locked", "deactivated"} ->
                 [s EXCEPT !.password = FALSE, !.otp = FALSE]
          [] OTHER -> s

\* mutant: the spooler goes on to an event that does not exist yet
ReducePastEnd ==
    /\ position' = position + 1
    /\ sessions' = IF position < Len(log) /\ log[position + 1].type = "removed"
                   THEN [a \in Agents |-> NoRow] ELSE sessions
    /\ UNCHANGED <<log, request, counts>>

\* UserSession.Reduce: the spooler hands the next event to the view.  Events
\* of a user agent create or change its row, those of the user change all rows
\* there are, and the removal of the user deletes them.
Reduce ==
    /\ position < Len(log)
    /\ position' = position + 1
    /\ sessions' =
           LET e == log[position + 1] IN
           [a \in Agents |->
               CASE e.type \in AgentTypes /\ e.agent = a ->
                        AppendEvent(IF sessions[a] = NoRow THEN Unverified ELSE sessions[a],
                                    a, position + 1)
                 [] e.type \in {"passwordChanged", "locked", "deactivated"}
                        /\ sessions[a] # NoRow ->
                        AppendEvent(sessions[a], a, position + 1)
                 [] e.type = "removed" -> NoRow
                 [] OTHER -> sessions[a]]
    /\ UNCHANGED <<log, request, counts>>

(***************************************************************************)
(* Requests.  A command reads, decides what to push, and pushes it later.  *)
(***************************************************************************)
Idle == [stage |-> "idle"]
Moved(r, what) == /\ request' = [request EXCEPT ![r] = what]
                  /\ UNCHANGED <<log, position, sessions>>
Goto(r, what) == Moved(r, what) /\ UNCHANGED counts
Begin(r, what) == request[r] = Idle /\ Goto(r, what)
Pushing(events) == [stage |-> "push", events |-> events]

\* Bound on the log: a command begins only if there is room for its event
\* besides those of the commands that have begun.
Bound == 2 + MaxEvents
Commands == {r \in Requests : request[r].stage \in {"password", "otp", "push"}}
Command(r, what) == Len(log) + Cardinality(Commands) < Bound /\ Begin(r, what)

\* VerifyPassword and VerifyMFAOTP: the user has to be active.
Verify(r, a, factor) ==
    ActiveUserByID /\ Command(r, [stage |-> factor, agent |-> a])

\* mutant: counts the failures before this one only
ChecksFailedLate(a) ==
    <<Event("passwordCheckFailed", a)>>
        \o IF MaxAttempts > 0 /\ PasswordCheckFailedCount >= MaxAttempts
           THEN <<UserEvent("locked")>> ELSE <<>>

ChecksFailed(a) ==
    <<Event("passwordCheckFailed", a)>>
        \o IF MaxAttempts > 0 /\ PasswordCheckFailedCount + 1 >= MaxAttempts
           THEN <<UserEvent("locked")>> ELSE <<>>

\* HumanCheckPassword and HumanCheckMFATOTP read their write models, which end
\* with the user, and compare: the answer of the user may be right or wrong.
HumanCheckPassword(r) ==
    /\ request[r].stage = "password"
    /\ \/ /\ UserState # "deleted"
          /\ \/ Goto(r, Pushing(<<Event("passwordCheckSucceeded", request[r].agent)>>))
             \/ Goto(r, Pushing(ChecksFailed(request[r].agent)))
       \/ UserState = "deleted" /\ Goto(r, Idle)

HumanCheckMFATOTP(r) ==
    /\ request[r].stage = "otp"
    /\ \/ /\ UserState # "deleted"
          /\ \E type \in {"otpCheckSucceeded", "otpCheckFailed"} :
                 Goto(r, Pushing(<<Event(type, request[r].agent)>>))
       \/ UserState = "deleted" /\ Goto(r, Idle)

HumansSignOut(r, a) ==
    UserState # "deleted" /\ Command(r, Pushing(<<Event("signedOut", a)>>))
ChangePassword(r, a) ==
    UserState # "deleted" /\ Command(r, Pushing(<<Event("passwordChanged", a)>>))

\* SetPassword of an administrator or with a code: no user agent keeps its session.
SetPassword(r) ==
    UserState # "deleted" /\ Command(r, Pushing(<<UserEvent("passwordChanged")>>))

LockUser(r) == UserState = "active" /\ Command(r, Pushing(<<UserEvent("locked")>>))
UnlockUser(r) == UserState = "locked" /\ Command(r, Pushing(<<UserEvent("unlocked")>>))
DeactivateUser(r) ==
    UserState \in {"active", "locked"} /\ Command(r, Pushing(<<UserEvent("deactivated")>>))
ReactivateUser(r) ==
    UserState = "inactive" /\ Command(r, Pushing(<<UserEvent("reactivated")>>))
RemoveUser(r) ==
    UserState # "deleted" /\ Command(r, Pushing(<<UserEvent("removed")>>))

\* The events after which the failures before them do not matter any more.
EndsCount == {"passwordCheckSucceeded", "passwordChanged", "unlocked", "locked"}
Ends(events) == \E i \in DOMAIN events : events[i].type \in EndsCount
Wrong(events) == events[1].type = "passwordCheckFailed"

Push(r) ==
    /\ request[r].stage = "push"
    /\ Len(log) + Len(request[r].events) <= Bound
    /\ log' = log \o request[r].events
    /\ request' = [request EXCEPT ![r] = Idle]
    /\ answered' = IF Ends(request[r].events) THEN 0
                   ELSE IF Wrong(request[r].events) THEN answered + 1 ELSE answered
    /\ lost' = IF Ends(request[r].events) THEN 0 ELSE lost
    /\ UNCHANGED <<position, sessions>>

\* A push may fail.  The other commands return the error, but the one of a failed
\* check is only logged: the wrong password is answered and not counted.
PushFails(r) ==
    /\ request[r].stage = "push"
    /\ Moved(r, Idle)
    /\ \/ ~Wrong(request[r].events) /\ UNCHANGED counts
       \/ /\ Wrong(request[r].events) /\ lost < MaxLost
          /\ answered' = answered + 1 /\ lost' = lost + 1

(***************************************************************************)
(* nextSteps of an auth request, query by query.                           *)
(***************************************************************************)
\* It changes nothing, so that one at a time stands for any number of them.
Reading(r) == request[r].stage \in {"row", "sequence", "events"}

NextSteps(r, a) ==
    /\ \A q \in Requests : ~Reading(q)
    /\ ActiveUserByID
    /\ Begin(r, [stage |-> "row", agent |-> a])

ReadSession(r) ==
    /\ request[r].stage = "row"
    /\ LET a == request[r].agent IN
       IF sessions[a] # NoRow
       THEN Goto(r, [stage |-> "events", agent |-> a, missed |-> FALSE,
                     session |-> sessions[a]])
       ELSE Goto(r, [stage |-> "sequence", agent |-> a])

\* Without a row the events after the current sequence of the view are read.
\* History: missed, whether a row has appeared since the first query.
ReadSequence(r) ==
    /\ request[r].stage = "sequence"
    /\ Goto(r, [stage |-> "events", agent |-> request[r].agent,
                missed |-> sessions[request[r].agent] # NoRow,
                session |-> [Unverified EXCEPT !.sequence = position]])

\* mutant: takes the checks of every user agent for those of this one
IsOwnOfAny(agent, e) == e.type \in AgentTypes \cup {"passwordChanged"}

\* The events that userSessionByIDs appends to a session.
IsOwn(agent, e) ==
    e.type = "passwordChanged" \/ (e.type \in AgentTypes /\ e.agent = agent)

Newer(session) == {i \in DOMAIN log : i > session.sequence}

\* Locked and deactivated events have no data: to parse them fails, and the
\* session is returned as the view had it, without any of the newer events.
Unparsable(session) == {i \in Newer(session) : log[i].type \in {"locked", "deactivated"}}

\* The newer events of the user agent are appended in their order.
MergedSession(session, agent) ==
    LET merged[i \in session.sequence .. Len(log)] ==
            IF i = session.sequence THEN session
            ELSE IF IsOwn(agent, log[i]) THEN AppendEvent(merged[i - 1], agent, i)
            ELSE merged[i - 1]
    IN  IF Unparsable(session) # {} THEN session ELSE merged[Len(log)]

RemovedSince(session) ==
    \E i \in Newer(session) :
        log[i].type = "removed" /\ \A j \in Unparsable(session) : i < j

Steps == {"password", "otp", "callback", "error"}

\* userSessionByIDs, firstFactorChecked and mfaChecked.
Step(session, agent) ==
    LET merged == MergedSession(session, agent) IN
    CASE RemovedSince(session) -> "error"
      [] ~RemovedSince(session) /\ ~merged.password -> "password"
      [] ~RemovedSince(session) /\ merged.password /\ ~merged.otp -> "otp"
      [] OTHER -> "callback"

\* The request is answered with the step, the last action of nextSteps.
Answer(r, step) ==
    /\ request[r].stage = "events"
    /\ Step(request[r].session, request[r].agent) = step
    /\ Goto(r, Idle)

(***************************************************************************)
(* Initially one user agent has logged in, and the view is somewhere       *)
(* between the beginning and the end of the log.                           *)
(***************************************************************************)
Init ==
    /\ \E a \in Agents :
          /\ log = <<Event("passwordCheckSucceeded", a), Event("otpCheckSucceeded", a)>>
          /\ position \in 0 .. 2
          /\ sessions = [b \in Agents |->
                IF b # a \/ position = 0 THEN NoRow
                ELSE [password |-> TRUE, otp |-> position = 2, sequence |-> position]]
    /\ request = [r \in Requests |-> Idle]
    /\ answered = 0 /\ lost = 0

Administer(r) == LockUser(r) \/ UnlockUser(r) \/ DeactivateUser(r)
                    \/ ReactivateUser(r) \/ RemoveUser(r) \/ SetPassword(r)

Next ==
    \/ Reduce
    \/ \E r \in Requests :
          \/ \E a \in Agents :
                \/ \E factor \in {"password", "otp"} : Verify(r, a, factor)
                \/ HumansSignOut(r, a)
                \/ ChangePassword(r, a)
                \/ NextSteps(r, a)
          \/ Administer(r)
          \/ HumanCheckPassword(r) \/ HumanCheckMFATOTP(r) \/ Push(r) \/ PushFails(r)
          \/ ReadSession(r) \/ ReadSequence(r)
          \/ \E step \in Steps : Answer(r, step)

Spec == Init /\ [][Next]_vars

-----------------------------------------------------------------------------
(***************************************************************************)
(* Properties.                                                             *)
(***************************************************************************)

Stages ==
    [stage : {"idle"}]
        \cup [stage : {"password", "otp", "row", "sequence"}, agent : Agents]
        \cup [stage : {"push"}, events : UNION {[1 .. n -> Events] : n \in 1 .. 2}]
        \cup [stage : {"events"}, agent : Agents, missed : BOOLEAN, session : Session]

\* Every variable has its type, and neither the view nor a row is ahead of the
\* events.
TypeOK ==
    /\ log \in Seq(Events)
    /\ position \in 0 .. Len(log)
    /\ sessions \in [Agents -> Session \cup {NoRow}]
    /\ \A a \in Agents : sessions[a] # NoRow => sessions[a].sequence <= position
    /\ request \in [Requests -> Stages]
    /\ answered \in Nat
    /\ lost \in 0 .. MaxLost

\* What the events say of a factor of a user agent, without folding them: it
\* was checked, and nothing since then took the check back.
EndsSession(e, a) ==
    (e.type = "signedOut" /\ e.agent = a) \/ e.type \in {"locked", "deactivated", "removed"}

TakesBackPassword(e, a) ==
    \/ EndsSession(e, a)
    \/ e = Event("passwordCheckFailed", a)
    \/ e.type = "passwordChanged" /\ e.agent # a

TakesBackOTP(e, a) == EndsSession(e, a) \/ e = Event("otpCheckFailed", a)

\* The same of the first n events only.
PasswordVerifiedBy(a, n) ==
    \E i \in 1 .. n :
        /\ log[i] = Event("passwordCheckSucceeded", a)
        /\ \A j \in i + 1 .. n : ~TakesBackPassword(log[j], a)

OTPVerifiedBy(a, n) ==
    \E i \in 1 .. n :
        /\ log[i] = Event("otpCheckSucceeded", a)
        /\ \A j \in i + 1 .. n : ~TakesBackOTP(log[j], a)

PasswordIsVerified(a) == PasswordVerifiedBy(a, Len(log))
OTPIsVerified(a) == OTPVerifiedBy(a, Len(log))

\* A request goes back to the application only if, at that moment, the events
\* say that its own user agent has verified both factors, however far behind
\* the view is and whatever happened between the queries of userSessionByIDs;
\* except while the view is behind a locked or deactivated event, which makes
\* the merge fall back to the row of the view.
CallbackVerified ==
    [][\A r \in Requests :
          Answer(r, "callback") =>
              \/ PasswordIsVerified(request[r].agent) /\ OTPIsVerified(request[r].agent)
              \/ Unparsable(request[r].session) # {}]_vars

\* No factor that is verified is asked for again, as long as no row appeared
\* between the first two queries of userSessionByIDs: then the events that made
\* it are neither in a row that was read nor newer than the sequence.
NothingAskedTwice ==
    [][\A r \in Requests :
          request[r].stage = "events"
              /\ ~request[r].missed
              /\ Unparsable(request[r].session) = {} =>
                 /\ Answer(r, "password") => ~PasswordIsVerified(request[r].agent)
                 /\ Answer(r, "otp") => ~OTPIsVerified(request[r].agent)]_vars

\* Requests that check passwords at the same time may each miss the failures
\* of the others, and a failed check whose push fails is not counted, but no
\* more than that: until an event sets the count back or locks the user,
\* HumanCheckPassword answers as many wrong passwords as the policy allows
\* before the one that locks, one for every further request, and those whose
\* failed check was lost (so the user may be locked later than at the maximum of
\* attempts that the policy states).
LockoutBounded ==
    MaxAttempts > 0 => answered <= MaxAttempts - 2 + Cardinality(Requests) + lost
=============================================================================
