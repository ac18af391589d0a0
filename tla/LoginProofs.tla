----------------------------- MODULE LoginProofs -----------------------------
(***************************************************************************)
(* Proofs about Login: the types, the bound on wrong passwords that        *)
(* requests checking at the same time can get through before the user is   *)
(* locked, and what the answers of nextSteps say of the events.            *)
(*                                                                         *)
(* LockoutBounded is not inductive: what matters is also who has read the  *)
(* count and decided to push a failed check without a lock.  LockoutInv    *)
(* counts those requests together with the failures that are stored, and   *)
(* AnsweredInv says that what was answered is stored or lost.  The         *)
(* properties of the answers rest on SessionInv, which says which events   *)
(* the row of a user agent and the session of a request stand for.         *)
(***************************************************************************)
EXTENDS Login, FiniteSetTheorems, SequenceTheorems, WellFoundedInduction, TLAPS

-----------------------------------------------------------------------------
(* Types                                                                   *)

Payload == UNION {[1 .. n -> Events] : n \in 1 .. 2}

\* What a request is about to push is a sequence of one or two events.
LEMMA PayloadFacts ==
    ASSUME NEW p \in Payload
    PROVE  /\ p \in Seq(Events) /\ Len(p) \in {1, 2} /\ DOMAIN p = 1 .. Len(p)
<1>1. PICK n \in 1 .. 2 : p \in [1 .. n -> Events]
  BY DEF Payload
<1>2. p \in Seq(Events) /\ Len(p) = n
  BY <1>1, SeqDef
<1> QED  BY <1>1, <1>2

LEMMA OneEvent == ASSUME NEW e \in Events PROVE <<e>> \in Payload
<1>1. <<e>> \in [1 .. 1 -> Events]
  OBVIOUS
<1> QED  BY <1>1 DEF Payload

LEMMA TwoEvents == ASSUME NEW e \in Events, NEW f \in Events PROVE <<e>> \o <<f>> \in Payload
<1> DEFINE p == <<e>> \o <<f>>
<1>1. <<e>> \in Seq(Events) /\ <<f>> \in Seq(Events) /\ Len(<<e>>) = 1 /\ Len(<<f>>) = 1
  OBVIOUS
<1>2. p \in Seq(Events) /\ Len(p) = 2
  BY <1>1, ConcatProperties
<1> HIDE DEF p
<1>3. p \in [1 .. 2 -> Events]
  BY <1>2
<1> QED  BY <1>3 DEF Payload, p

\* The stages a request is put into.
LEMMA StageTypes ==
    /\ Idle \in Stages
    /\ \A s \in {"password", "otp", "row", "sequence"}, a \in Agents :
          [stage |-> s, agent |-> a] \in Stages
    /\ \A p \in Payload : Pushing(p) \in Stages
    /\ \A a \in Agents, b \in BOOLEAN, s \in Session :
          [stage |-> "events", agent |-> a, missed |-> b, session |-> s] \in Stages
BY DEF Idle, Pushing, Stages, Payload

LEMMA StageFacts ==
    ASSUME NEW q \in Stages
    PROVE  /\ q.stage \in {"idle", "password", "otp", "row", "sequence", "push", "events"}
           /\ q.stage \in {"password", "otp", "row", "sequence", "events"} => q.agent \in Agents
           /\ q.stage = "push" => q.events \in Payload /\ q = Pushing(q.events)
           /\ q.stage = "events" => q.session \in Session /\ q.missed \in BOOLEAN
<1>1. CASE q \in [stage : {"idle"}]
  BY <1>1
<1>2. CASE q \in [stage : {"password", "otp", "row", "sequence"}, agent : Agents]
  BY <1>2
<1>3. CASE q \in [stage : {"push"}, events : Payload]
  BY <1>3 DEF Pushing
<1>4. CASE q \in [stage : {"events"}, agent : Agents, missed : BOOLEAN, session : Session]
  BY <1>4
<1> QED  BY <1>1, <1>2, <1>3, <1>4 DEF Stages, Payload

\* An event leaves a session with its own sequence.
LEMMA AppendEventType ==
    ASSUME NEW s \in Session, NEW a, NEW i \in Nat
    PROVE  AppendEvent(s, a, i) \in Session /\ AppendEvent(s, a, i).sequence = i
BY DEF AppendEvent, Session

LEMMA RowTypes == Unverified \in Session /\ NoRow \notin Session
<1>1. Unverified \in Session
  BY DEF Unverified, Session
<1>2. NoRow.sequence = -1
  BY DEF NoRow, Unverified
<1>3. \A s \in Session : s.sequence \in Nat
  BY DEF Session
<1>4. -1 \notin Nat
  OBVIOUS
<1> QED  BY <1>1, <1>2, <1>3, <1>4

-----------------------------------------------------------------------------
(* Steps.  Every request either moves to another stage or pushes.          *)

\* What a request has read of the view: a row, or only its position.
Found(a, q) ==
    /\ sessions[a] # NoRow
    /\ q = [stage |-> "events", agent |-> a, missed |-> FALSE, session |-> sessions[a]]
Missed(a, q) ==
    q = [stage |-> "events", agent |-> a, missed |-> sessions[a] # NoRow,
         session |-> [Unverified EXCEPT !.sequence = position]]

\* The stages a request may be moved to by its own step.
MayBecome(r, q) ==
    \/ q = Idle
    \/ \E s \in {"password", "otp", "row", "sequence"}, a \in Agents :
          q = [stage |-> s, agent |-> a]
    \/ \E a \in Agents : Found(a, q) \/ Missed(a, q)
    \/ \E e \in Events : e.type # "passwordCheckFailed" /\ q = Pushing(<<e>>)
    \/ \E a \in Agents : q = Pushing(ChecksFailed(a))

Moves(r) == \E q : MayBecome(r, q) /\ Moved(r, q)

\* A step moves one request, pushes what it has decided, or is the spooler's.
LEMMA StepCases ==
    ASSUME TypeOK, Next
    PROVE  Reduce \/ \E r \in Requests : Moves(r) \/ Push(r)
<1>1. ASSUME NEW r \in Requests, NEW a \in Agents, NEW factor \in {"password", "otp"},
             Verify(r, a, factor)
      PROVE  Moves(r)
  BY <1>1 DEF Verify, Command, Begin, Goto, Moves, MayBecome
<1>2. ASSUME NEW r \in Requests, NEW e \in Events, e.type # "passwordCheckFailed",
             Command(r, Pushing(<<e>>))
      PROVE  Moves(r)
  BY <1>2 DEF Command, Begin, Goto, Moves, MayBecome
<1>3. ASSUME NEW r \in Requests, NEW a \in Agents, HumansSignOut(r, a) \/ ChangePassword(r, a)
      PROVE  Moves(r)
  <2>1. /\ Event("signedOut", a) \in Events /\ Event("signedOut", a).type # "passwordCheckFailed"
        /\ Event("passwordChanged", a) \in Events
        /\ Event("passwordChanged", a).type # "passwordCheckFailed"
    BY DEF Event, Events, AgentTypes
  <2> QED  BY <1>2, <1>3, <2>1 DEF HumansSignOut, ChangePassword
<1>4. ASSUME NEW r \in Requests, Administer(r) PROVE Moves(r)
  <2>1. \A t \in UserTypes \cup {"passwordChanged"} :
           UserEvent(t) \in Events /\ UserEvent(t).type # "passwordCheckFailed"
    BY DEF UserEvent, Event, Events, UserTypes
  <2>2. \E t \in UserTypes \cup {"passwordChanged"} : Command(r, Pushing(<<UserEvent(t)>>))
    BY <1>4 DEF Administer, LockUser, UnlockUser, DeactivateUser, ReactivateUser, RemoveUser,
                SetPassword, UserTypes
  <2> QED  BY <1>2, <2>1, <2>2
<1>5. ASSUME NEW r \in Requests, NEW a \in Agents, NextSteps(r, a) PROVE Moves(r)
  BY <1>5 DEF NextSteps, Begin, Goto, Moves, MayBecome
<1>6. ASSUME NEW r \in Requests, HumanCheckPassword(r) PROVE Moves(r)
  <2>1. request[r].agent \in Agents
    BY <1>6, StageFacts DEF HumanCheckPassword, TypeOK
  <2>2. LET e == Event("passwordCheckSucceeded", request[r].agent)
        IN  e \in Events /\ e.type # "passwordCheckFailed"
    BY <2>1 DEF Event, Events, AgentTypes
  <2>3. CASE Goto(r, Pushing(<<Event("passwordCheckSucceeded", request[r].agent)>>))
    BY <2>2, <2>3 DEF Goto, Moves, MayBecome
  <2>4. CASE Goto(r, Pushing(ChecksFailed(request[r].agent)))
    BY <2>1, <2>4 DEF Goto, Moves, MayBecome
  <2>5. CASE Goto(r, Idle)
    BY <2>5 DEF Goto, Moves, MayBecome
  <2> QED  BY <1>6, <2>3, <2>4, <2>5 DEF HumanCheckPassword
<1>7. ASSUME NEW r \in Requests, HumanCheckMFATOTP(r) PROVE Moves(r)
  <2>1. request[r].agent \in Agents
    BY <1>7, StageFacts DEF HumanCheckMFATOTP, TypeOK
  <2>2. ASSUME NEW t \in {"otpCheckSucceeded", "otpCheckFailed"},
               Goto(r, Pushing(<<Event(t, request[r].agent)>>))
        PROVE  Moves(r)
    <3>1. Event(t, request[r].agent) \in Events /\ Event(t, request[r].agent).type # "passwordCheckFailed"
      BY <2>1 DEF Event, Events, AgentTypes
    <3> QED  BY <2>2, <3>1 DEF Goto, Moves, MayBecome
  <2>3. CASE Goto(r, Idle)
    BY <2>3 DEF Goto, Moves, MayBecome
  <2> QED  BY <1>7, <2>2, <2>3 DEF HumanCheckMFATOTP
<1>8. ASSUME NEW r \in Requests, ReadSession(r) PROVE Moves(r)
  <2>1. request[r].agent \in Agents
    BY <1>8, StageFacts DEF ReadSession, TypeOK
  <2> QED  BY <1>8, <2>1 DEF ReadSession, Goto, Moves, MayBecome, Found
<1>9. ASSUME NEW r \in Requests, ReadSequence(r) PROVE Moves(r)
  <2>1. request[r].agent \in Agents
    BY <1>9, StageFacts DEF ReadSequence, TypeOK
  <2> QED  BY <1>9, <2>1 DEF ReadSequence, Goto, Moves, MayBecome, Missed
<1>10. ASSUME NEW r \in Requests, NEW step \in Steps, Answer(r, step) PROVE Moves(r)
  BY <1>10 DEF Answer, Goto, Moves, MayBecome
<1>11. ASSUME NEW r \in Requests, PushFails(r) PROVE Moves(r)
  BY <1>11 DEF PushFails, Moves, MayBecome
<1> QED  BY <1>1, <1>3, <1>4, <1>5, <1>6, <1>7, <1>8, <1>9, <1>10, <1>11 DEF Next

\* Only a push, or one that fails, changes the history.
LEMMA CountsCases ==
    ASSUME Next
    PROVE  UNCHANGED <<log, counts>> \/ \E r \in Requests : Push(r) \/ PushFails(r)
<1>1. CASE Reduce
  BY <1>1 DEF Reduce
<1>2. ASSUME NEW r \in Requests, NEW q, Goto(r, q) PROVE UNCHANGED <<log, counts>>
  BY <1>2 DEF Goto, Moved
<1>3. ASSUME NEW r \in Requests, NEW q, Command(r, q) PROVE UNCHANGED <<log, counts>>
  BY <1>2, <1>3 DEF Command, Begin
<1>4. ASSUME NEW r \in Requests, NEW a \in Agents,
             \/ \E factor \in {"password", "otp"} : Verify(r, a, factor)
             \/ HumansSignOut(r, a) \/ ChangePassword(r, a)
      PROVE  UNCHANGED <<log, counts>>
  BY <1>3, <1>4 DEF Verify, HumansSignOut, ChangePassword
<1>5. ASSUME NEW r \in Requests, NEW a \in Agents, NextSteps(r, a)
      PROVE  UNCHANGED <<log, counts>>
  BY <1>2, <1>5 DEF NextSteps, Begin
<1>6. ASSUME NEW r \in Requests, Administer(r) PROVE UNCHANGED <<log, counts>>
  BY <1>3, <1>6 DEF Administer, LockUser, UnlockUser, DeactivateUser, ReactivateUser, RemoveUser,
                    SetPassword
<1>7. ASSUME NEW r \in Requests,
             \/ HumanCheckPassword(r) \/ HumanCheckMFATOTP(r)
             \/ ReadSession(r) \/ ReadSequence(r)
             \/ \E step \in Steps : Answer(r, step)
      PROVE  UNCHANGED <<log, counts>>
  BY <1>2, <1>7 DEF HumanCheckPassword, HumanCheckMFATOTP, ReadSession, ReadSequence, Answer
<1> QED  BY <1>1, <1>4, <1>5, <1>6, <1>7 DEF Next

LEMMA CountsTypes ==
    ASSUME TypeOK, [Next]_vars PROVE answered' \in Nat /\ lost' \in 0 .. MaxLost
<1>1. CASE UNCHANGED counts
  BY <1>1 DEF counts, TypeOK
<1>2. ASSUME NEW r \in Requests, Push(r) PROVE answered' \in Nat /\ lost' \in 0 .. MaxLost
  <2>1. answered' \in {0, answered + 1, answered} /\ lost' \in {0, lost}
    BY <1>2 DEF Push
  <2> QED  BY <2>1, MaxLostAssumption DEF TypeOK
<1>3. ASSUME NEW r \in Requests, PushFails(r)
      PROVE  answered' \in Nat /\ lost' \in 0 .. MaxLost
  <2>1. UNCHANGED counts \/ (lost < MaxLost /\ answered' = answered + 1 /\ lost' = lost + 1)
    BY <1>3 DEF PushFails
  <2> QED  BY <1>1, <2>1, MaxLostAssumption DEF TypeOK
<1>4. CASE UNCHANGED vars
  BY <1>1, <1>4 DEF vars
<1> QED  BY <1>1, <1>2, <1>3, <1>4, CountsCases

\* ChecksFailed is one failed check, or a failed check and the lock; one only below the limit.
LEMMA ChecksFailedFacts ==
    ASSUME NEW a \in Agents
    PROVE  /\ ChecksFailed(a) \in Payload
           /\ Len(ChecksFailed(a)) = 2 => ChecksFailed(a)[2].type = "locked"
           /\ Len(ChecksFailed(a)) = 1 =>
                 ~(MaxAttempts > 0 /\ PasswordCheckFailedCount + 1 >= MaxAttempts)
<1> DEFINE e == Event("passwordCheckFailed", a)
           l == UserEvent("locked")
<1>1. e \in Events /\ l \in Events /\ l.type = "locked"
  BY DEF Event, UserEvent, Events, AgentTypes, UserTypes
<1>2. CASE MaxAttempts > 0 /\ PasswordCheckFailedCount + 1 >= MaxAttempts
  <2>1. ChecksFailed(a) = <<e>> \o <<l>>
    BY <1>2 DEF ChecksFailed
  <2> HIDE DEF e, l
  <2>2. <<e>> \in Seq(Events) /\ <<l>> \in Seq(Events) /\ Len(<<e>>) = 1 /\ Len(<<l>>) = 1
        /\ <<l>>[1] = l
    BY <1>1
  <2>3. Len(<<e>> \o <<l>>) = 2 /\ (<<e>> \o <<l>>)[2] = l
    BY <2>2, ConcatProperties
  <2> QED  BY <1>1, <2>1, <2>3, TwoEvents
<1>3. CASE ~(MaxAttempts > 0 /\ PasswordCheckFailedCount + 1 >= MaxAttempts)
  <2>1. ChecksFailed(a) = <<e>> \o <<>>
    BY <1>3 DEF ChecksFailed
  <2> HIDE DEF e, l
  <2>2. <<e>> \in Seq(Events) /\ Len(<<e>>) = 1
    BY <1>1
  <2>3. <<e>> \o <<>> = <<e>>
    BY <2>2, ConcatEmptySeq
  <2> QED  BY <1>1, <1>3, <2>1, <2>2, <2>3, OneEvent
<1> QED  BY <1>2, <1>3

-----------------------------------------------------------------------------
(* TypeOK is inductive                                                     *)

LEMMA TypeInit == Init => TypeOK
<1> SUFFICES ASSUME Init PROVE TypeOK
  OBVIOUS
<1>1. PICK a \in Agents :
         /\ log = <<Event("passwordCheckSucceeded", a), Event("otpCheckSucceeded", a)>>
         /\ position \in 0 .. 2
         /\ sessions = [b \in Agents |->
               IF b # a \/ position = 0 THEN NoRow
               ELSE [password |-> TRUE, otp |-> position = 2, sequence |-> position]]
  BY DEF Init
<1>2. Event("passwordCheckSucceeded", a) \in Events /\ Event("otpCheckSucceeded", a) \in Events
  BY DEF Event, Events, AgentTypes
<1>3. log \in Seq(Events) /\ Len(log) = 2
  BY <1>1, <1>2
<1>4. position \in 0 .. Len(log)
  BY <1>1, <1>3
<1>5. [password |-> TRUE, otp |-> position = 2, sequence |-> position] \in Session
  BY <1>1 DEF Session
<1>6. sessions \in [Agents -> Session \cup {NoRow}]
  BY <1>1, <1>5
<1>7. \A b \in Agents : sessions[b] # NoRow => sessions[b].sequence <= position
  BY <1>1
<1>8. request \in [Requests -> Stages]
  BY StageTypes DEF Init
<1>9. answered \in Nat /\ lost \in 0 .. MaxLost
  BY MaxLostAssumption DEF Init
<1> QED  BY <1>3, <1>4, <1>6, <1>7, <1>8, <1>9 DEF TypeOK

LEMMA BecomesStage == ASSUME TypeOK, NEW r, NEW q, MayBecome(r, q) PROVE q \in Stages
<1>1. ASSUME NEW a \in Agents, Found(a, q) PROVE q \in Stages
  <2>1. sessions[a] \in Session
    BY <1>1 DEF Found, TypeOK
  <2> QED  BY <1>1, <2>1, StageTypes DEF Found
<1>2. ASSUME NEW a \in Agents, Missed(a, q) PROVE q \in Stages
  <2>1. [Unverified EXCEPT !.sequence = position] \in Session
    <3>1. position \in Nat
      BY DEF TypeOK
    <3> QED  BY <3>1 DEF Unverified, Session
  <2> QED  BY <1>2, <2>1, StageTypes DEF Missed
<1> QED  BY <1>1, <1>2, StageTypes, OneEvent, ChecksFailedFacts DEF MayBecome

LEMMA TypeStep == TypeOK /\ [Next]_vars => TypeOK'
<1> SUFFICES ASSUME TypeOK, [Next]_vars PROVE TypeOK'
  OBVIOUS
<1>0. answered' \in Nat /\ lost' \in 0 .. MaxLost
  BY CountsTypes
<1>1. CASE Reduce
  <2> DEFINE e == log[position + 1]
             new(a) == AppendEvent(IF sessions[a] = NoRow THEN Unverified ELSE sessions[a],
                                   a, position + 1)
  <2>1. position < Len(log) /\ position' = position + 1 /\ UNCHANGED <<log, request>>
    BY <1>1 DEF Reduce
  <2>2. sessions' = [a \in Agents |->
               CASE e.type \in AgentTypes /\ e.agent = a -> new(a)
                 [] e.type \in {"passwordChanged", "locked", "deactivated"}
                        /\ sessions[a] # NoRow ->
                        AppendEvent(sessions[a], a, position + 1)
                 [] e.type = "removed" -> NoRow
                 [] OTHER -> sessions[a]]
    BY <1>1, Zenon DEF Reduce
  <2>3. position \in Nat /\ Len(log) \in Nat /\ position + 1 \in Nat
    BY DEF TypeOK
  <2>4. position' \in 0 .. Len(log')
    BY <2>1, <2>3
  <2>5. \A a \in Agents : new(a) \in Session /\ new(a).sequence = position + 1
    BY <2>3, AppendEventType, RowTypes DEF TypeOK
  <2>6. \A a \in Agents : sessions[a] # NoRow => AppendEvent(sessions[a], a, position + 1) = new(a)
    OBVIOUS
  <2> HIDE DEF e, new
  <2>7. \A a \in Agents : sessions'[a] \in {new(a), NoRow, sessions[a]}
    BY <2>2, <2>6
  <2>8. sessions' \in [Agents -> Session \cup {NoRow}]
    <3>1. DOMAIN sessions' = Agents /\ sessions' = [a \in Agents |-> sessions'[a]]
      BY <2>2
    <3>2. \A a \in Agents : sessions'[a] \in Session \cup {NoRow}
      BY <2>5, <2>7 DEF TypeOK
    <3> QED  BY <3>1, <3>2
  <2>9. ASSUME NEW a \in Agents, sessions'[a] # NoRow PROVE sessions'[a].sequence <= position'
    <3>1. CASE sessions'[a] = new(a)
      BY <2>1, <2>3, <2>5, <3>1
    <3>2. CASE sessions'[a] = sessions[a]
      <4>1. sessions[a] \in Session /\ sessions[a].sequence <= position
        BY <2>9, <3>2 DEF TypeOK
      <4>2. sessions[a].sequence \in Nat
        BY <4>1 DEF Session
      <4> QED  BY <2>1, <2>3, <3>2, <4>1, <4>2
    <3> QED  BY <2>7, <2>9, <3>1, <3>2
  <2> QED  BY <1>0, <2>1, <2>4, <2>8, <2>9 DEF TypeOK
<1>2. ASSUME NEW r \in Requests, Moves(r) PROVE TypeOK'
  <2>1. PICK q : MayBecome(r, q) /\ Moved(r, q)
    BY <1>2 DEF Moves
  <2>2. q \in Stages
    BY <2>1, BecomesStage
  <2> QED  BY <1>0, <2>1, <2>2 DEF Moved, TypeOK
<1>3. ASSUME NEW r \in Requests, Push(r) PROVE TypeOK'
  <2>1. /\ log' = log \o request[r].events /\ request' = [request EXCEPT ![r] = Idle]
        /\ UNCHANGED <<position, sessions>> /\ request[r].stage = "push"
    BY <1>3 DEF Push
  <2>2. request[r].events \in Seq(Events) /\ log \in Seq(Events)
    BY <2>1, StageFacts, PayloadFacts DEF TypeOK
  <2>3. log' \in Seq(Events) /\ Len(log') = Len(log) + Len(request[r].events)
    BY <2>1, <2>2, ConcatProperties
  <2>4. position' \in 0 .. Len(log')
    BY <2>1, <2>2, <2>3 DEF TypeOK
  <2>5. request' \in [Requests -> Stages]
    BY <2>1, StageTypes DEF TypeOK
  <2> QED  BY <1>0, <2>1, <2>3, <2>4, <2>5 DEF TypeOK
<1>4. CASE UNCHANGED vars
  BY <1>4 DEF vars, counts, TypeOK
<1> QED  BY <1>1, <1>2, <1>3, <1>4, StepCases

(***************************************************************************)
(* The variables have their types, and neither the view of the sessions    *)
(* nor a row of it is ahead of the events (UserSession.Reduce).            *)
(***************************************************************************)
THEOREM TypeCorrect == Spec => []TypeOK
BY TypeInit, TypeStep, PTL DEF Spec

-----------------------------------------------------------------------------
(* The lockout                                                             *)

\* The failed checks since the last event that ends the count.
Counted ==
    {j \in DOMAIN log :
        /\ log[j].type = "passwordCheckFailed"
        /\ \A l \in j .. Len(log) : log[l].type \notin EndsCount}

\* A request that found the count below the limit and has not pushed its failed check yet.
Undecided(q) ==
    q.stage = "push" /\ Len(q.events) = 1 /\ q.events[1].type = "passwordCheckFailed"
Waiting == {r \in Requests : Undecided(request[r])}

\* A push of two events ends with the lock.
EndsLocked(q) == q.stage = "push" /\ Len(q.events) = 2 => q.events[2].type = "locked"

Allowed == MaxAttempts - 2 + Cardinality(Requests)

LockoutInv ==
    /\ TypeOK
    /\ \A r \in Requests : EndsLocked(request[r])
    /\ MaxAttempts > 0 =>
          /\ Waiting # {} => MaxAttempts >= 2
          /\ Cardinality(Counted) + Cardinality(Waiting) <= Allowed

\* The sets that are counted are finite.
LEMMA CountedFacts ==
    ASSUME log \in Seq(Events)
    PROVE  /\ IsFiniteSet(Counted) /\ Cardinality(Counted) \in Nat
           /\ PasswordCheckFailedCount \in Nat
           /\ Cardinality(Counted) <= PasswordCheckFailedCount
<1> DEFINE S == {i \in DOMAIN log :
                    /\ log[i].type = "passwordCheckFailed"
                    /\ \A j \in i .. Len(log) : log[j].type \notin ResetsCount}
<1>1. IsFiniteSet(1 .. Len(log)) /\ DOMAIN log = 1 .. Len(log)
  BY FS_Interval
<1>2. S \subseteq 1 .. Len(log)
  BY <1>1
<1>3. Counted \subseteq S
  BY DEF Counted, EndsCount, ResetsCount
<1>4. IsFiniteSet(S)
  BY <1>1, <1>2, FS_Subset
<1>5. PasswordCheckFailedCount = Cardinality(S)
  BY DEF PasswordCheckFailedCount
<1> HIDE DEF S
<1>6. IsFiniteSet(Counted) /\ Cardinality(Counted) <= Cardinality(S)
  BY <1>3, <1>4, FS_Subset
<1> QED  BY <1>4, <1>5, <1>6, FS_CardinalityType

LEMMA WaitingFacts ==
    /\ Cardinality(Requests) \in Nat \ {0}
    /\ \A S \in SUBSET Requests :
          IsFiniteSet(S) /\ Cardinality(S) \in Nat /\ Cardinality(S) <= Cardinality(Requests)
<1>1. Cardinality(Requests) \in Nat /\ Cardinality(Requests) # 0
  BY RequestsAssumption, FS_CardinalityType, FS_EmptySet
<1> QED  BY <1>1, RequestsAssumption, FS_Subset, FS_CardinalityType

\* One event more: a failed check counts, any other one counts for nothing or ends the count.
LEMMA CountOne ==
    ASSUME log \in Seq(Events), NEW e \in Events, log' = log \o <<e>>
    PROVE  /\ IsFiniteSet(Counted')
           /\ e.type = "passwordCheckFailed" =>
                 Cardinality(Counted') = Cardinality(Counted) + 1
           /\ e.type # "passwordCheckFailed" => Cardinality(Counted') <= Cardinality(Counted)
           /\ e.type \notin EndsCount => Cardinality(Counted) <= Cardinality(Counted')
<1> DEFINE n == Len(log)
<1>1. /\ n \in Nat /\ DOMAIN log = 1 .. n /\ Len(log') = n + 1 /\ DOMAIN log' = 1 .. (n + 1)
      /\ \A j \in 1 .. n : log'[j] = log[j]
      /\ log'[n + 1] = e
  <2>1. log' = Append(log, e)
    BY AppendIsConcat
  <2> QED  BY <2>1, AppendProperties
<1>2. IsFiniteSet(Counted) /\ Cardinality(Counted) \in Nat
  BY CountedFacts
<1>3. Counted = {j \in 1 .. n : log[j].type = "passwordCheckFailed"
                                  /\ \A l \in j .. n : log[l].type \notin EndsCount}
  BY <1>1 DEF Counted
<1>4. Counted' = {j \in 1 .. (n + 1) : log'[j].type = "passwordCheckFailed"
                                  /\ \A l \in j .. (n + 1) : log'[l].type \notin EndsCount}
  BY <1>1 DEF Counted, EndsCount
<1> HIDE DEF n
<1>5. Counted' \subseteq Counted \cup {n + 1}
  <2> SUFFICES ASSUME NEW j \in Counted', j # n + 1 PROVE j \in Counted
    OBVIOUS
  <2>1. j \in 1 .. n /\ \A l \in j .. n : l \in j .. (n + 1) /\ l \in 1 .. n
    BY <1>1, <1>4
  <2> QED  BY <1>1, <1>3, <1>4, <2>1
<1>6. n + 1 \notin Counted /\ n + 1 \in 1 .. (n + 1)
  BY <1>1, <1>3
<1>9. IsFiniteSet(Counted')
  BY <1>2, <1>5, FS_AddElement, FS_Subset
<1>10. ASSUME e.type \notin EndsCount PROVE Counted \subseteq Counted'
  <2> SUFFICES ASSUME NEW j \in Counted PROVE j \in Counted'
    OBVIOUS
  <2>1. \A l \in j .. (n + 1) : (l \in j .. n /\ l \in 1 .. n) \/ l = n + 1
    BY <1>1, <1>3
  <2>2. j \in 1 .. n /\ j \in 1 .. (n + 1)
    BY <1>1, <1>3
  <2>3. \A l \in j .. (n + 1) : log'[l].type \notin EndsCount
    BY <1>1, <1>3, <1>10, <2>1, <2>2
  <2> QED  BY <1>1, <1>3, <1>4, <2>2, <2>3
<1>11. e.type \notin EndsCount => Cardinality(Counted) <= Cardinality(Counted')
  BY <1>9, <1>10, FS_Subset
<1>7. CASE e.type = "passwordCheckFailed"
  <2>2. "passwordCheckFailed" \notin EndsCount
    BY DEF EndsCount
  <2>3. Counted \subseteq Counted'
    BY <1>7, <1>10, <2>2
  <2>4. n + 1 \in Counted'
    <3>1. \A l \in (n + 1) .. (n + 1) : l = n + 1
      BY <1>1
    <3> QED  BY <1>1, <1>4, <1>6, <1>7, <2>2, <3>1
  <2>5. Counted' = Counted \cup {n + 1}
    BY <1>5, <2>3, <2>4
  <2> QED  BY <1>2, <1>6, <1>7, <1>11, <2>5, FS_AddElement
<1>8. CASE e.type # "passwordCheckFailed"
  <2>1. n + 1 \notin Counted'
    BY <1>1, <1>4, <1>8
  <2>2. Counted' \subseteq Counted
    BY <1>5, <2>1
  <2> QED  BY <1>2, <1>8, <1>11, <2>2, FS_Subset
<1> QED  BY <1>7, <1>8

\* A push that ends with the lock ends the count.
LEMMA CountLocked ==
    ASSUME log \in Seq(Events), NEW p \in Seq(Events), Len(p) = 2, p[2].type = "locked",
           log' = log \o p
    PROVE  Cardinality(Counted') = 0
<1> DEFINE n == Len(log)
<1>1. n \in Nat /\ Len(log') = n + 2 /\ DOMAIN log' = 1 .. (n + 2) /\ log'[n + 2] = p[2]
  <2>1. n \in Nat
    OBVIOUS
  <2>2. /\ Len(log') = n + Len(p) /\ log' \in Seq(Events)
        /\ \A i \in 1 .. (n + Len(p)) : log'[i] = IF i <= n THEN log[i] ELSE p[i - n]
    BY ConcatProperties
  <2> HIDE DEF n
  <2>3. n + 2 \in 1 .. (n + 2) /\ ~(n + 2 <= n) /\ (n + 2) - n = 2
    BY <2>1
  <2> QED  BY <2>1, <2>2, <2>3
<1> HIDE DEF n
<1>2. \A j \in DOMAIN log' : n + 2 \in j .. Len(log')
  BY <1>1
<1>3. log'[n + 2].type \in EndsCount
  BY <1>1 DEF EndsCount
<1>4. Counted' = {}
  BY <1>2, <1>3 DEF Counted, EndsCount
<1> QED  BY <1>4, FS_EmptySet

-----------------------------------------------------------------------------
(* LockoutInv is inductive                                                 *)

\* With the requests that may still push, nothing is counted beyond what is allowed.
LEMMA NoneCounted ==
    ASSUME MaxAttempts > 0, NEW S \in SUBSET Requests, S # {} => MaxAttempts >= 2
    PROVE  Cardinality(S) <= Allowed
<1>1. Cardinality(S) \in Nat /\ Cardinality(S) <= Cardinality(Requests)
      /\ Cardinality(Requests) \in Nat \ {0}
  BY WaitingFacts
<1>2. S = {} => Cardinality(S) = 0
  BY FS_EmptySet
<1> QED  BY <1>1, <1>2, MaxAttemptsAssumption DEF Allowed

LEMMA MoveLockout ==
    ASSUME LockoutInv, TypeOK', NEW r \in Requests, Moves(r) PROVE LockoutInv'
<1>1. PICK q : MayBecome(r, q) /\ Moved(r, q)
  BY DEF Moves
<1>2. request' = [request EXCEPT ![r] = q] /\ log' = log /\ log \in Seq(Events)
  BY <1>1 DEF Moved, LockoutInv, TypeOK
<1>3. request'[r] = q /\ \A o \in Requests \ {r} : request'[o] = request[o]
  BY <1>2 DEF LockoutInv, TypeOK
<1>4. /\ EndsLocked(q)
      /\ Undecided(q) /\ MaxAttempts > 0 => PasswordCheckFailedCount + 1 < MaxAttempts
  <2>1. CASE q.stage # "push"
    BY <2>1 DEF EndsLocked, Undecided
  <2>2. ASSUME NEW e \in Events, e.type # "passwordCheckFailed", q = Pushing(<<e>>)
        PROVE  EndsLocked(q) /\ ~Undecided(q)
    <3>1. q.events = <<e>> /\ Len(<<e>>) = 1 /\ <<e>>[1] = e
      BY <2>2 DEF Pushing
    <3> QED  BY <2>2, <3>1 DEF EndsLocked, Undecided
  <2>3. ASSUME NEW a \in Agents, q = Pushing(ChecksFailed(a))
        PROVE  /\ EndsLocked(q)
               /\ Undecided(q) /\ MaxAttempts > 0 => PasswordCheckFailedCount + 1 < MaxAttempts
    <3>1. q.events = ChecksFailed(a)
      BY <2>3 DEF Pushing
    <3>2. PasswordCheckFailedCount \in Nat
      BY <1>2, CountedFacts
    <3> QED  BY <3>1, <3>2, ChecksFailedFacts, MaxAttemptsAssumption DEF EndsLocked, Undecided
  <2>4. \/ q.stage # "push"
        \/ \E e \in Events : e.type # "passwordCheckFailed" /\ q = Pushing(<<e>>)
        \/ \E a \in Agents : q = Pushing(ChecksFailed(a))
    <3>1. Idle.stage # "push"
      BY DEF Idle
    <3>2. \A s \in {"password", "otp", "row", "sequence"}, a \in Agents :
             [stage |-> s, agent |-> a].stage # "push"
      OBVIOUS
    <3>3. \A a \in Agents : Found(a, q) \/ Missed(a, q) => q.stage # "push"
      BY DEF Found, Missed
    <3> QED  BY <1>1, <3>1, <3>2, <3>3 DEF MayBecome
  <2> QED  BY <2>1, <2>2, <2>3, <2>4
<1>5. \A o \in Requests : EndsLocked(request'[o])
  BY <1>3, <1>4 DEF LockoutInv
<1>6. Waiting' = {o \in Requests : Undecided(request'[o])}
  BY DEF Waiting, Undecided
<1>7. Counted' = Counted /\ Allowed' = Allowed
  BY <1>2 DEF Counted, Allowed
<1>8. ASSUME MaxAttempts > 0
      PROVE  /\ Waiting' # {} => MaxAttempts >= 2
             /\ Cardinality(Counted) + Cardinality(Waiting') <= Allowed
  <2>1. /\ Cardinality(Counted) \in Nat /\ PasswordCheckFailedCount \in Nat
        /\ Cardinality(Counted) <= PasswordCheckFailedCount
    BY <1>2, CountedFacts
  <2>2. /\ Cardinality(Requests) \in Nat /\ Cardinality(Waiting') \in Nat
        /\ Cardinality(Waiting') <= Cardinality(Requests)
    BY <1>6, WaitingFacts
  <2>3. CASE Undecided(q)
    <3>1. PasswordCheckFailedCount + 1 < MaxAttempts
      BY <1>4, <1>8, <2>3
    <3> QED  BY <2>1, <2>2, <3>1, MaxAttemptsAssumption DEF Allowed
  <2>4. CASE ~Undecided(q)
    <3>1. Waiting' \subseteq Waiting /\ Waiting \subseteq Requests
      BY <1>3, <1>6, <2>4 DEF Waiting
    <3>2. /\ Cardinality(Waiting) \in Nat /\ Allowed \in Int
          /\ Cardinality(Waiting') <= Cardinality(Waiting)
      BY <2>2, <3>1, WaitingFacts, FS_Subset, MaxAttemptsAssumption DEF Allowed
    <3>3. /\ Waiting # {} => MaxAttempts >= 2
          /\ Cardinality(Counted) + Cardinality(Waiting) <= Allowed
      BY <1>8 DEF LockoutInv
    <3> QED  BY <2>1, <2>2, <3>1, <3>2, <3>3
  <2> QED  BY <2>3, <2>4
<1> QED  BY <1>5, <1>7, <1>8 DEF LockoutInv, EndsLocked

LEMMA PushLockout ==
    ASSUME LockoutInv, TypeOK', NEW r \in Requests, Push(r) PROVE LockoutInv'
<1> DEFINE p == request[r].events
<1>1. request[r].stage = "push" /\ log' = log \o p /\ request' = [request EXCEPT ![r] = Idle]
  BY DEF Push
<1>2. p \in Seq(Events) /\ Len(p) \in {1, 2} /\ log \in Seq(Events) /\ request[r] = Pushing(p)
  BY <1>1, StageFacts, PayloadFacts DEF LockoutInv, TypeOK
<1>3. ~Undecided(Idle) /\ EndsLocked(Idle)
  BY DEF Undecided, EndsLocked, Idle
<1>4. request'[r] = Idle /\ \A q \in Requests \ {r} : request'[q] = request[q]
  BY <1>1 DEF LockoutInv, TypeOK
<1>5. \A q \in Requests : EndsLocked(request'[q])
  BY <1>3, <1>4 DEF LockoutInv
<1>6. Waiting' = Waiting \ {r}
  <2>1. Waiting' = {q \in Requests : Undecided(request'[q])}
    BY DEF Waiting, Undecided
  <2> QED  BY <1>3, <1>4, <2>1 DEF Waiting
<1>7. Waiting' \subseteq Waiting /\ Waiting \subseteq Requests /\ IsFiniteSet(Waiting)
  BY <1>6, WaitingFacts DEF Waiting
<1>8. /\ Cardinality(Waiting) \in Nat /\ Cardinality(Waiting') \in Nat
      /\ Cardinality(Waiting') = IF r \in Waiting THEN Cardinality(Waiting) - 1
                                 ELSE Cardinality(Waiting)
  BY <1>6, <1>7, FS_RemoveElement, FS_CardinalityType
<1>9. Cardinality(Counted) \in Nat /\ Allowed \in Int
  BY <1>2, CountedFacts, WaitingFacts, MaxAttemptsAssumption DEF Allowed
<1> HIDE DEF p
<1>10. ASSUME MaxAttempts > 0
       PROVE  /\ Waiting' # {} => MaxAttempts >= 2
              /\ Cardinality(Counted') + Cardinality(Waiting') <= Allowed
  <2>1. Waiting' # {} => MaxAttempts >= 2
    BY <1>7, <1>10 DEF LockoutInv
  <2>2. CASE Len(p) = 2
    <3>1. p[2].type = "locked"
      BY <1>1, <2>2 DEF LockoutInv, EndsLocked, p
    <3>2. Cardinality(Counted') = 0
      BY <1>1, <1>2, <2>2, <3>1, CountLocked
    <3>3. Cardinality(Waiting') <= Allowed
      BY <1>7, <1>10, <2>1, NoneCounted
    <3> QED  BY <1>8, <2>1, <3>2, <3>3
  <2>3. CASE Len(p) = 1
    <3>1. p = <<p[1]>> /\ p[1] \in Events
      <4>1. p[1] \in Events
        BY <1>2, <2>3
      <4>2. <<p[1]>> \in Seq(Events) /\ Len(<<p[1]>>) = Len(p) /\ \A i \in 1 .. Len(p) : p[i] = <<p[1]>>[i]
        BY <2>3, <4>1
      <4> QED  BY <1>2, <4>1, <4>2, SeqEqual
    <3>2. log' = log \o <<p[1]>>
      BY <1>1, <3>1
    <3>3. /\ Cardinality(Counted') \in Nat
          /\ p[1].type = "passwordCheckFailed" => Cardinality(Counted') = Cardinality(Counted) + 1
          /\ p[1].type # "passwordCheckFailed" => Cardinality(Counted') <= Cardinality(Counted)
      BY <1>2, <3>1, <3>2, CountOne, FS_CardinalityType
    <3>4. p[1].type = "passwordCheckFailed" => r \in Waiting
      BY <1>1, <2>3 DEF Waiting, Undecided, p
    <3>5. Cardinality(Counted) + Cardinality(Waiting) <= Allowed
      BY <1>10 DEF LockoutInv
    <3>6. Cardinality(Counted') + Cardinality(Waiting') <= Allowed
      BY <1>8, <1>9, <3>3, <3>4, <3>5
    <3> QED  BY <2>1, <3>6
  <2> QED  BY <1>2, <2>2, <2>3
<1>11. Allowed' = Allowed
  BY DEF Allowed
<1> QED  BY <1>5, <1>10, <1>11 DEF LockoutInv, EndsLocked

LEMMA LockoutStep == LockoutInv /\ [Next]_vars => LockoutInv'
<1> SUFFICES ASSUME LockoutInv, [Next]_vars PROVE LockoutInv'
  OBVIOUS
<1>1. TypeOK /\ TypeOK'
  BY TypeStep DEF LockoutInv
<1>2. CASE UNCHANGED <<log, request>>
  <2>1. Counted' = Counted /\ Waiting' = Waiting /\ \A r \in Requests : EndsLocked(request'[r])
    BY <1>2 DEF Counted, Waiting, LockoutInv
  <2> QED  BY <1>1, <2>1 DEF LockoutInv, Allowed, EndsLocked
<1>3. CASE Reduce \/ UNCHANGED vars
  BY <1>2, <1>3 DEF Reduce, vars
<1> QED  BY <1>1, <1>3, StepCases, MoveLockout, PushLockout

LEMMA LockoutInit == Init => LockoutInv
<1> SUFFICES ASSUME Init PROVE LockoutInv
  OBVIOUS
<1>1. TypeOK
  BY TypeInit
<1>2. \A r \in Requests : ~Undecided(request[r]) /\ EndsLocked(request[r])
  BY DEF Init, Undecided, EndsLocked, Idle
<1>3. Waiting = {}
  BY <1>2 DEF Waiting
<1>4. Counted = {}
  <2>1. PICK a \in Agents :
           log = <<Event("passwordCheckSucceeded", a), Event("otpCheckSucceeded", a)>>
    BY DEF Init
  <2>2. \A j \in DOMAIN log : log[j].type # "passwordCheckFailed"
    BY <2>1 DEF Event
  <2> QED  BY <2>2 DEF Counted
<1>5. MaxAttempts > 0 => Cardinality(Counted) + Cardinality(Waiting) <= Allowed
  <2>1. Cardinality(Counted) = 0 /\ Cardinality(Waiting) = 0
    BY <1>3, <1>4, FS_EmptySet
  <2>2. Cardinality(Requests) \in Nat \ {0}
    BY WaitingFacts
  <2> QED  BY <2>1, <2>2, MaxAttemptsAssumption DEF Allowed
<1> QED  BY <1>1, <1>2, <1>3, <1>5 DEF LockoutInv

\* What was answered is counted or lost.
AnsweredInv == LockoutInv /\ answered <= Cardinality(Counted) + lost

LEMMA AnsweredStep == AnsweredInv /\ [Next]_vars => AnsweredInv'
<1> SUFFICES ASSUME AnsweredInv, [Next]_vars PROVE AnsweredInv'
  OBVIOUS
<1>1. TypeOK /\ LockoutInv /\ LockoutInv'
  BY LockoutStep DEF AnsweredInv, LockoutInv
<1>2. /\ log \in Seq(Events) /\ log' \in Seq(Events)
      /\ answered \in Nat /\ lost \in Nat /\ Cardinality(Counted) \in Nat
      /\ answered <= Cardinality(Counted) + lost
  BY <1>1, CountedFacts, MaxLostAssumption DEF AnsweredInv, LockoutInv, TypeOK
<1>3. CASE UNCHANGED <<log, counts>>
  <2>1. Counted' = Counted /\ answered' = answered /\ lost' = lost
    BY <1>3 DEF Counted, counts
  <2> QED  BY <1>1, <1>2, <2>1 DEF AnsweredInv
<1>4. ASSUME NEW r \in Requests, PushFails(r) PROVE AnsweredInv'
  <2>1. Counted' = Counted
    BY <1>4 DEF PushFails, Moved, Counted
  <2>2. (answered' = answered /\ lost' = lost) \/ (answered' = answered + 1 /\ lost' = lost + 1)
    BY <1>4 DEF PushFails, counts
  <2> QED  BY <1>1, <1>2, <2>1, <2>2 DEF AnsweredInv
<1>5. ASSUME NEW r \in Requests, Push(r) PROVE AnsweredInv'
  <2> DEFINE p == request[r].events
  <2>1. /\ request[r].stage = "push" /\ log' = log \o p
        /\ answered' = IF Ends(p) THEN 0 ELSE IF Wrong(p) THEN answered + 1 ELSE answered
        /\ lost' = IF Ends(p) THEN 0 ELSE lost
    BY <1>5 DEF Push
  <2>2. p \in Seq(Events) /\ Len(p) \in {1, 2} /\ (Len(p) = 2 => p[2].type = "locked")
    BY <1>1, <2>1, StageFacts, PayloadFacts DEF LockoutInv, TypeOK, EndsLocked
  <2> HIDE DEF p
  <2>3. CASE Ends(p)
    <3>1. answered' = 0 /\ lost' = 0
      BY <2>1, <2>3
    <3>2. Cardinality(Counted)' \in Nat
      <4>1. IsFiniteSet(1 .. Len(log')) /\ DOMAIN log' = 1 .. Len(log')
        BY <1>2, FS_Interval
      <4>2. Counted' \subseteq 1 .. Len(log')
        BY <4>1 DEF Counted
      <4> QED  BY <4>1, <4>2, FS_Subset, FS_CardinalityType
    <3> QED  BY <1>1, <3>1, <3>2 DEF AnsweredInv
  <2>4. CASE ~Ends(p)
    <3>1. Len(p) = 1 /\ p[1] \in Events /\ p[1].type \notin EndsCount
      <4>1. DOMAIN p = 1 .. Len(p) /\ Len(p) # 2
        <5>1. Len(p) = 2 => 2 \in DOMAIN p /\ p[2].type \in EndsCount
          BY <2>2 DEF EndsCount
        <5> QED  BY <2>2, <2>4, <5>1 DEF Ends
      <4> QED  BY <2>2, <2>4, <4>1 DEF Ends
    <3>2. p = <<p[1]>>
      <4>1. <<p[1]>> \in Seq(Events) /\ Len(<<p[1]>>) = Len(p)
            /\ \A i \in 1 .. Len(p) : p[i] = <<p[1]>>[i]
        BY <3>1
      <4> QED  BY <2>2, <4>1, SeqEqual
    <3>3. log' = log \o <<p[1]>>
      BY <2>1, <3>2
    <3>4. /\ IsFiniteSet(Counted')
          /\ p[1].type = "passwordCheckFailed" => Cardinality(Counted') = Cardinality(Counted) + 1
          /\ Cardinality(Counted) <= Cardinality(Counted')
      BY <1>2, <3>1, <3>3, CountOne
    <3>5. Cardinality(Counted') \in Nat
      BY <3>4, FS_CardinalityType
    <3>6. /\ answered' = IF p[1].type = "passwordCheckFailed" THEN answered + 1 ELSE answered
          /\ lost' = lost
      BY <2>1, <2>4 DEF Wrong
    <3>7. answered' <= Cardinality(Counted') + lost'
      BY <1>2, <3>4, <3>5, <3>6
    <3> QED  BY <1>1, <3>7 DEF AnsweredInv
  <2> QED  BY <2>3, <2>4
<1>6. CASE UNCHANGED vars
  BY <1>3, <1>6 DEF vars
<1> QED  BY <1>3, <1>4, <1>5, <1>6, CountsCases

(***************************************************************************)
(* Whatever the number of requests and the limit of the lockout policy:    *)
(* between two events that set the count back or lock the user,            *)
(* HumanCheckPassword answers at most MaxAttempts - 1 wrong passwords, one *)
(* more for each further request that checks at the same time, and one     *)
(* more for each failed check whose push failed, an error that is only     *)
(* logged.                                                                 *)
(***************************************************************************)
THEOREM WrongPasswordsBounded == Spec => []LockoutBounded
<1>1. AnsweredInv => LockoutBounded
  <2> SUFFICES ASSUME AnsweredInv, MaxAttempts > 0
               PROVE  answered <= MaxAttempts - 2 + Cardinality(Requests) + lost
    BY DEF LockoutBounded
  <2>1. /\ Cardinality(Counted) \in Nat /\ Cardinality(Waiting) \in Nat
        /\ Cardinality(Requests) \in Nat /\ answered \in Nat /\ lost \in Nat
    BY CountedFacts, WaitingFacts, MaxLostAssumption DEF AnsweredInv, LockoutInv, TypeOK, Waiting
  <2>2. /\ Cardinality(Counted) + Cardinality(Waiting) <= Allowed
        /\ answered <= Cardinality(Counted) + lost
    BY DEF AnsweredInv, LockoutInv
  <2> QED  BY <2>1, <2>2, MaxAttemptsAssumption DEF Allowed
<1>2. Init => AnsweredInv
  <2> SUFFICES ASSUME Init PROVE AnsweredInv
    OBVIOUS
  <2>1. LockoutInv /\ answered = 0 /\ lost = 0
    BY LockoutInit DEF Init
  <2>2. Cardinality(Counted) \in Nat
    BY <2>1, CountedFacts DEF LockoutInv, TypeOK
  <2> QED  BY <2>1, <2>2 DEF AnsweredInv
<1> QED  BY <1>1, <1>2, AnsweredStep, PTL DEF Spec

-----------------------------------------------------------------------------
(* Induction                                                               *)

\* Induction over the naturals, stated for a set.
LEMMA SetInduction ==
    ASSUME NEW S, 0 \in S, \A n \in Nat : n \in S => n + 1 \in S
    PROVE  Nat \subseteq S
<1> SUFFICES ASSUME Nat \ S # {} PROVE FALSE
  OBVIOUS
<1> DEFINE T == Nat \ S
<1>1. PICK x \in T : \A y \in T : ~(<<y, x>> \in OpToRel(<, Nat))
  <2>1. T \subseteq Nat /\ T # {}
    OBVIOUS
  <2> HIDE DEF T
  <2> QED  BY <2>1, NatLessThanWellFounded, WFMin
<1>2. x \in Nat /\ x # 0 /\ x - 1 \in Nat /\ (x - 1) + 1 = x /\ x - 1 < x
  OBVIOUS
<1>3. <<x - 1, x>> \in OpToRel(<, Nat)
  BY <1>2 DEF OpToRel
<1>4. x - 1 \in S
  BY <1>1, <1>2, <1>3
<1> QED  BY <1>2, <1>4

\* g[i] is b after the first i of the functions F on T.
Iterates(g, T, b, F, n) ==
    g \in [0 .. n -> T] /\ g[0] = b /\ \A i \in 1 .. n : g[i] = F[i][g[i - 1]]

LEMMA Iterated ==
    ASSUME NEW T, NEW b \in T, NEW F \in [Nat -> [T -> T]], NEW n \in Nat
    PROVE  \E g : Iterates(g, T, b, F, n)
<1> DEFINE Good(k, g) == g \in [0 .. k -> T] /\ g[0] = b /\ \A i \in 1 .. k : g[i] = F[i][g[i - 1]]
           S == {k \in Nat : \E g : Good(k, g)}
<1>1. 0 \in S
  <2>1. Good(0, [i \in 0 .. 0 |-> b])
    OBVIOUS
  <2> QED  BY <2>1
<1>2. ASSUME NEW k \in Nat, k \in S PROVE k + 1 \in S
  <2>1. PICK g : Good(k, g)
    BY <1>2
  <2> DEFINE h == [i \in 0 .. k + 1 |-> IF i = k + 1 THEN F[k + 1][g[k]] ELSE g[i]]
  <2>2. F[k + 1][g[k]] \in T
    BY <2>1
  <2>3. \A i \in 0 .. k + 1 : i = k + 1 \/ i \in 0 .. k
    OBVIOUS
  <2>4. h \in [0 .. k + 1 -> T]
    BY <2>1, <2>2, <2>3
  <2>5. \A i \in 0 .. k : h[i] = g[i]
    OBVIOUS
  <2>6. h[k + 1] = F[k + 1][g[k]]
    OBVIOUS
  <2> HIDE DEF h
  <2>7. h[0] = b
    BY <2>1, <2>5
  <2>8. ASSUME NEW i \in 1 .. k + 1 PROVE h[i] = F[i][h[i - 1]]
    <3>1. CASE i = k + 1
      BY <2>5, <2>6, <3>1
    <3>2. CASE i \in 1 .. k
      <4>1. i - 1 \in 0 .. k /\ i \in 0 .. k
        BY <3>2
      <4> QED  BY <2>1, <2>5, <3>2, <4>1
    <3> QED  BY <3>1, <3>2
  <2>9. Good(k + 1, h)
    BY <2>4, <2>7, <2>8
  <2> QED  BY <2>9
<1>3. n \in S
  <2> HIDE DEF S
  <2> QED  BY <1>1, <1>2, SetInduction
<1> QED  BY <1>3 DEF Iterates

-----------------------------------------------------------------------------
(* Sessions                                                                *)

(***************************************************************************)
(* What the action properties rest on.  A row says what the events up to   *)
(* its sequence say, and nothing between its sequence and the position of  *)
(* the view concerns it.  Where there is no row, the checks of the user    *)
(* agent are behind a removal of the user.  A request has what the events  *)
(* up to its sequence say as well, or, when a row appeared between its     *)
(* queries, an unverified session.                                         *)
(***************************************************************************)
Reflects(s, a) ==
    /\ s.password <=> PasswordVerifiedBy(a, s.sequence)
    /\ s.otp <=> OTPVerifiedBy(a, s.sequence)

\* An event that does not change what is known of the user agent.
Passes(e, a) == ~IsOwn(a, e) /\ e.type \notin {"locked", "deactivated", "removed"}

RowInv(a) ==
    IF sessions[a] = NoRow
    THEN \A i \in 1 .. position :
            log[i].type \in AgentTypes /\ log[i].agent = a =>
                \E j \in i + 1 .. position : log[j].type = "removed"
    ELSE /\ Reflects(sessions[a], a)
         /\ \A i \in sessions[a].sequence + 1 .. position : Passes(log[i], a)

ReadInv(q) ==
    q.stage = "events" =>
        /\ q.session.sequence <= position
        /\ IF q.missed THEN ~q.session.password /\ ~q.session.otp
           ELSE Reflects(q.session, q.agent)

SessionInv ==
    /\ TypeOK
    /\ \A a \in Agents : RowInv(a)
    /\ \A r \in Requests : ReadInv(request[r])

-----------------------------------------------------------------------------
(* One event more                                                          *)

LEMMA LogFacts ==
    ASSUME TypeOK
    PROVE  /\ log \in Seq(Events) /\ Len(log) \in Nat /\ DOMAIN log = 1 .. Len(log)
           /\ \A i \in 1 .. Len(log) : log[i] \in Events
           /\ position \in Nat /\ position <= Len(log)
BY DEF TypeOK

LEMMA PasswordOneMore ==
    ASSUME NEW a, NEW n \in Nat
    PROVE  PasswordVerifiedBy(a, n + 1) <=>
              \/ log[n + 1] = Event("passwordCheckSucceeded", a)
              \/ PasswordVerifiedBy(a, n) /\ ~TakesBackPassword(log[n + 1], a)
<1> DEFINE Given(i) == log[i] = Event("passwordCheckSucceeded", a)
           Taken(j) == TakesBackPassword(log[j], a)
<1>1. \A k \in Nat : PasswordVerifiedBy(a, k) <=>
                        \E i \in 1 .. k : Given(i) /\ \A j \in i + 1 .. k : ~Taken(j)
  BY DEF PasswordVerifiedBy
<1> HIDE DEF Given, Taken
<1>2. ASSUME NEW i \in 1 .. n + 1, Given(i), \A j \in i + 1 .. n + 1 : ~Taken(j)
      PROVE  Given(n + 1) \/ (i \in 1 .. n /\ ~Taken(n + 1) /\ \A j \in i + 1 .. n : ~Taken(j))
  BY <1>2
<1>3. ASSUME Given(n + 1)
      PROVE  \E i \in 1 .. n + 1 : Given(i) /\ \A j \in i + 1 .. n + 1 : ~Taken(j)
  BY <1>3
<1>4. ASSUME NEW i \in 1 .. n, Given(i), ~Taken(n + 1), \A j \in i + 1 .. n : ~Taken(j)
      PROVE  i \in 1 .. n + 1 /\ \A j \in i + 1 .. n + 1 : ~Taken(j)
  BY <1>4
<1>5. PasswordVerifiedBy(a, n + 1) <=> Given(n + 1) \/ (PasswordVerifiedBy(a, n) /\ ~Taken(n + 1))
  <2>1. n + 1 \in Nat
    OBVIOUS
  <2>2. ASSUME PasswordVerifiedBy(a, n + 1) PROVE Given(n + 1) \/ (PasswordVerifiedBy(a, n) /\ ~Taken(n + 1))
    BY <1>1, <1>2, <2>1, <2>2
  <2>3. ASSUME PasswordVerifiedBy(a, n), ~Taken(n + 1) PROVE PasswordVerifiedBy(a, n + 1)
    BY <1>1, <1>4, <2>1, <2>3
  <2>4. ASSUME Given(n + 1) PROVE PasswordVerifiedBy(a, n + 1)
    BY <1>1, <1>3, <2>1, <2>4
  <2> QED  BY <2>2, <2>3, <2>4
<1> QED  BY <1>5 DEF Given, Taken

LEMMA OTPOneMore ==
    ASSUME NEW a, NEW n \in Nat
    PROVE  OTPVerifiedBy(a, n + 1) <=>
              \/ log[n + 1] = Event("otpCheckSucceeded", a)
              \/ OTPVerifiedBy(a, n) /\ ~TakesBackOTP(log[n + 1], a)
<1> DEFINE Given(i) == log[i] = Event("otpCheckSucceeded", a)
           Taken(j) == TakesBackOTP(log[j], a)
<1>1. \A k \in Nat : OTPVerifiedBy(a, k) <=>
                        \E i \in 1 .. k : Given(i) /\ \A j \in i + 1 .. k : ~Taken(j)
  BY DEF OTPVerifiedBy
<1> HIDE DEF Given, Taken
<1>2. ASSUME NEW i \in 1 .. n + 1, Given(i), \A j \in i + 1 .. n + 1 : ~Taken(j)
      PROVE  Given(n + 1) \/ (i \in 1 .. n /\ ~Taken(n + 1) /\ \A j \in i + 1 .. n : ~Taken(j))
  BY <1>2
<1>3. ASSUME Given(n + 1)
      PROVE  \E i \in 1 .. n + 1 : Given(i) /\ \A j \in i + 1 .. n + 1 : ~Taken(j)
  BY <1>3
<1>4. ASSUME NEW i \in 1 .. n, Given(i), ~Taken(n + 1), \A j \in i + 1 .. n : ~Taken(j)
      PROVE  i \in 1 .. n + 1 /\ \A j \in i + 1 .. n + 1 : ~Taken(j)
  BY <1>4
<1>5. OTPVerifiedBy(a, n + 1) <=> Given(n + 1) \/ (OTPVerifiedBy(a, n) /\ ~Taken(n + 1))
  <2>1. n + 1 \in Nat
    OBVIOUS
  <2>2. ASSUME OTPVerifiedBy(a, n + 1) PROVE Given(n + 1) \/ (OTPVerifiedBy(a, n) /\ ~Taken(n + 1))
    BY <1>1, <1>2, <2>1, <2>2
  <2>3. ASSUME OTPVerifiedBy(a, n), ~Taken(n + 1) PROVE OTPVerifiedBy(a, n + 1)
    BY <1>1, <1>4, <2>1, <2>3
  <2>4. ASSUME Given(n + 1) PROVE OTPVerifiedBy(a, n + 1)
    BY <1>1, <1>3, <2>1, <2>4
  <2> QED  BY <2>2, <2>3, <2>4
<1> QED  BY <1>5 DEF Given, Taken

\* AppendEvent does to a session what the event does to the factors.
LEMMA AppendsEvent ==
    ASSUME TypeOK, NEW s \in Session, NEW a \in Agents, NEW i \in 1 .. Len(log),
           IsOwn(a, log[i]) \/ log[i].type \in {"locked", "deactivated"}
    PROVE  LET t == AppendEvent(s, a, i)
               e == log[i]
           IN  /\ t.password <=> e = Event("passwordCheckSucceeded", a)
                                    \/ (s.password /\ ~TakesBackPassword(e, a))
               /\ t.otp <=> e = Event("otpCheckSucceeded", a) \/ (s.otp /\ ~TakesBackOTP(e, a))
<1> DEFINE e == log[i]
           t == AppendEvent(s, a, i)
<1>1. e \in Events /\ (e.type \in AgentTypes => e.agent = a)
  <2>1. e \in Events
    BY LogFacts
  <2>2. e.type \in AgentTypes => ~(e.type \in {"locked", "deactivated", "passwordChanged"})
    BY DEF AgentTypes
  <2> QED  BY <2>1, <2>2 DEF IsOwn
<1>2. e.type \in AgentTypes => e = Event(e.type, a)
  <2>1. e \in [type : AgentTypes \cup {"passwordChanged"}, agent : Agents] => e = [type |-> e.type, agent |-> e.agent]
    OBVIOUS
  <2>2. e \in [type : UserTypes, agent : {NoAgent}] => e.type \notin AgentTypes
    BY DEF UserTypes, AgentTypes
  <2> QED  BY <1>1, <2>1, <2>2 DEF Events, Event
<1>3. e.type \in AgentTypes \cup {"passwordChanged", "locked", "deactivated"}
  BY DEF IsOwn
<1>4. \A x, y : Event(x, a).type = x /\ (Event(x, a) = Event(y, a) => x = y)
  BY DEF Event
<1>5. s = [password |-> s.password, otp |-> s.otp, sequence |-> s.sequence]
      /\ s.password \in BOOLEAN /\ s.otp \in BOOLEAN
  BY DEF Session
<1>6. CASE e.type = "passwordCheckSucceeded"
  <2>1. t.password = TRUE /\ t.otp = s.otp
    BY <1>5, <1>6 DEF AppendEvent
  <2>2. e = Event("passwordCheckSucceeded", a) /\ ~TakesBackOTP(e, a) /\ e # Event("otpCheckSucceeded", a)
    BY <1>2, <1>4, <1>6 DEF AgentTypes, TakesBackOTP, EndsSession
  <2> QED  BY <2>1, <2>2
<1>7. CASE e.type = "passwordCheckFailed"
  <2>1. t.password = FALSE /\ t.otp = s.otp
    BY <1>5, <1>7 DEF AppendEvent
  <2>2. /\ e = Event("passwordCheckFailed", a) /\ e # Event("passwordCheckSucceeded", a)
        /\ TakesBackPassword(e, a) /\ ~TakesBackOTP(e, a) /\ e # Event("otpCheckSucceeded", a)
    BY <1>2, <1>4, <1>7 DEF AgentTypes, TakesBackOTP, TakesBackPassword, EndsSession
  <2> QED  BY <2>1, <2>2
<1>8. CASE e.type = "passwordChanged"
  <2>1. t.password = (s.password /\ e.agent = a) /\ t.otp = s.otp
    BY <1>5, <1>8 DEF AppendEvent
  <2>2. /\ e # Event("passwordCheckSucceeded", a) /\ e # Event("otpCheckSucceeded", a)
        /\ TakesBackPassword(e, a) <=> e.agent # a
        /\ ~TakesBackOTP(e, a)
    BY <1>4, <1>8 DEF TakesBackOTP, TakesBackPassword, EndsSession
  <2> QED  BY <2>1, <2>2
<1>9. CASE e.type = "otpCheckSucceeded"
  <2>1. t.otp = TRUE /\ t.password = s.password
    BY <1>5, <1>9 DEF AppendEvent
  <2>2. e = Event("otpCheckSucceeded", a) /\ ~TakesBackPassword(e, a) /\ e # Event("passwordCheckSucceeded", a)
    BY <1>2, <1>4, <1>9 DEF AgentTypes, TakesBackPassword, EndsSession
  <2> QED  BY <2>1, <2>2
<1>10. CASE e.type = "otpCheckFailed"
  <2>1. t.otp = FALSE /\ t.password = s.password
    BY <1>5, <1>10 DEF AppendEvent
  <2>2. /\ e = Event("otpCheckFailed", a) /\ e # Event("passwordCheckSucceeded", a)
        /\ TakesBackOTP(e, a) /\ ~TakesBackPassword(e, a) /\ e # Event("otpCheckSucceeded", a)
    BY <1>2, <1>4, <1>10 DEF AgentTypes, TakesBackOTP, TakesBackPassword, EndsSession
  <2> QED  BY <2>1, <2>2
<1>11. CASE e.type \in {"signedOut", "locked", "deactivated"}
  <2>1. t.password = FALSE /\ t.otp = FALSE
    BY <1>5, <1>11 DEF AppendEvent
  <2>2. EndsSession(e, a)
    BY <1>1, <1>11 DEF EndsSession, AgentTypes
  <2>3. e # Event("passwordCheckSucceeded", a) /\ e # Event("otpCheckSucceeded", a)
    BY <1>4, <1>11
  <2> QED  BY <2>1, <2>2, <2>3 DEF TakesBackPassword, TakesBackOTP
<1> QED  BY <1>3, <1>6, <1>7, <1>8, <1>9, <1>10, <1>11 DEF AgentTypes

\* An event of another user agent, or one the sessions do not know.
LEMMA PassedBy ==
    ASSUME TypeOK, NEW a \in Agents, NEW i \in 1 .. Len(log), Passes(log[i], a)
    PROVE  /\ ~TakesBackPassword(log[i], a) /\ ~TakesBackOTP(log[i], a)
           /\ log[i] # Event("passwordCheckSucceeded", a) /\ log[i] # Event("otpCheckSucceeded", a)
BY DEF Passes, IsOwn, TakesBackPassword, TakesBackOTP, EndsSession, Event, AgentTypes

-----------------------------------------------------------------------------
(* The merge of a session with the newer events                            *)

\* The loop of userSessionByIDs over the newer events is a function of how far it has come.
MergeStep(s, a, m) ==
    [i \in s.sequence .. Len(log) |->
        IF i = s.sequence THEN s
        ELSE IF IsOwn(a, log[i]) THEN AppendEvent(m[i - 1], a, i) ELSE m[i - 1]]
Merge(s, a) == CHOOSE m : m = MergeStep(s, a, m)

LEMMA MergeExists ==
    ASSUME TypeOK, NEW s \in Session, s.sequence <= Len(log), NEW a
    PROVE  Merge(s, a) = MergeStep(s, a, Merge(s, a))
<1> DEFINE lo == s.sequence
           n == Len(log) - lo
           F == [k \in Nat |-> [x \in Session |->
                    IF IsOwn(a, log[lo + k]) THEN AppendEvent(x, a, lo + k) ELSE x]]
<1>1. lo \in Nat /\ Len(log) \in Nat /\ n \in Nat
  BY LogFacts DEF Session
<1>2. F \in [Nat -> [Session -> Session]]
  <2>1. \A k \in Nat, x \in Session : AppendEvent(x, a, lo + k) \in Session
    BY <1>1, AppendEventType
  <2> QED  BY <2>1
<1>3. \A k \in Nat, x \in Session :
         F[k][x] = IF IsOwn(a, log[lo + k]) THEN AppendEvent(x, a, lo + k) ELSE x
  OBVIOUS
<1> HIDE DEF F
<1>4. PICK g \in [0 .. n -> Session] : g[0] = s /\ \A i \in 1 .. n : g[i] = F[i][g[i - 1]]
  <2>1. n \in Nat
    BY <1>1
  <2>2. \E g : Iterates(g, Session, s, F, n)
    <3> HIDE DEF n
    <3> QED  BY <1>2, <2>1, Iterated
  <2> QED  BY <2>2 DEF Iterates
<1> DEFINE m == [i \in lo .. Len(log) |-> g[i - lo]]
<1>5. ASSUME NEW i \in lo .. Len(log)
      PROVE  m[i] = IF i = lo THEN s
                    ELSE IF IsOwn(a, log[i]) THEN AppendEvent(m[i - 1], a, i) ELSE m[i - 1]
  <2>1. CASE i = lo
    BY <1>1, <1>4, <2>1
  <2>2. CASE i # lo
    <3>1. /\ i - lo \in 1 .. n /\ i - lo \in Nat /\ (i - lo) - 1 \in 0 .. n /\ lo + (i - lo) = i
          /\ i - 1 \in lo .. Len(log) /\ (i - 1) - lo = (i - lo) - 1
      BY <1>1, <2>2
    <3>2. m[i] = g[i - lo] /\ m[i - 1] = g[(i - lo) - 1]
      BY <3>1
    <3>3. g[i - lo] = F[i - lo][g[(i - lo) - 1]] /\ g[(i - lo) - 1] \in Session
      BY <1>4, <3>1
    <3> HIDE DEF m
    <3>4. F[i - lo][m[i - 1]] = IF IsOwn(a, log[i]) THEN AppendEvent(m[i - 1], a, i) ELSE m[i - 1]
      <4>1. m[i - 1] \in Session
        BY <3>2, <3>3
      <4> QED  BY <1>3, <3>1, <4>1
    <3> QED  BY <2>2, <3>2, <3>3, <3>4
  <2> QED  BY <2>1, <2>2
<1>6. m = MergeStep(s, a, m)
  BY <1>5 DEF MergeStep
<1> HIDE DEF m
<1> QED  BY <1>6 DEF Merge

LEMMA MergedIsMerge ==
    ASSUME NEW s, NEW a, Unparsable(s) = {} PROVE MergedSession(s, a) = Merge(s, a)[Len(log)]
BY DEF MergedSession, Merge, MergeStep

(***************************************************************************)
(* A merge without locked, deactivated and removed events adds to what a   *)
(* session says what the newer events say: it is right if the session is.  *)
(***************************************************************************)
Sound(s, a, n) ==
    (s.password => PasswordVerifiedBy(a, n)) /\ (s.otp => OTPVerifiedBy(a, n))
Complete(s, a, n) ==
    (PasswordVerifiedBy(a, n) => s.password) /\ (OTPVerifiedBy(a, n) => s.otp)

LEMMA MergeFacts ==
    ASSUME TypeOK, NEW s \in Session, s.sequence <= Len(log), NEW a \in Agents,
           Unparsable(s) = {}, ~RemovedSince(s)
    PROVE  LET t == MergedSession(s, a) IN
           /\ t \in Session
           /\ Sound(s, a, s.sequence) => Sound(t, a, Len(log))
           /\ Complete(s, a, s.sequence) => Complete(t, a, Len(log))
<1> DEFINE lo == s.sequence
           m == Merge(s, a)
<1>1. lo \in Nat /\ Len(log) \in Nat /\ DOMAIN log = 1 .. Len(log)
  BY LogFacts DEF Session
<1>2. m = MergeStep(s, a, m)
  BY MergeExists
<1> DEFINE Right(i) == /\ m[i] \in Session
                       /\ Sound(s, a, lo) => Sound(m[i], a, i)
                       /\ Complete(s, a, lo) => Complete(m[i], a, i)
           S == {k \in Nat : lo + k <= Len(log) => Right(lo + k)}
<1>3. 0 \in S
  <2>1. m[lo] = s
    BY <1>1, <1>2 DEF MergeStep
  <2> QED  BY <1>1, <2>1
<1>4. ASSUME NEW k \in Nat, k \in S PROVE k + 1 \in S
  <2> SUFFICES ASSUME lo + (k + 1) <= Len(log) PROVE Right(lo + (k + 1))
    OBVIOUS
  <2> DEFINE i == lo + k
  <2>1. i \in Nat /\ i + 1 = lo + (k + 1) /\ i + 1 \in 1 .. Len(log) /\ i + 1 > lo /\ i <= Len(log)
        /\ i + 1 \in lo .. Len(log) /\ i + 1 # lo /\ (i + 1) - 1 = i
    BY <1>1
  <2>2. Right(i)
    BY <1>4, <2>1
  <2>3. m[i + 1] = IF IsOwn(a, log[i + 1]) THEN AppendEvent(m[i], a, i + 1) ELSE m[i]
    <3> HIDE DEF m, i
    <3> QED  BY <1>2, <2>1 DEF MergeStep
  <2>4. log[i + 1].type \notin {"locked", "deactivated", "removed"}
    <3>1. i + 1 \in Newer(s)
      BY <1>1, <2>1 DEF Newer
    <3> QED  BY <3>1 DEF Unparsable, RemovedSince
  <2> HIDE DEF m, i
  <2>5. CASE IsOwn(a, log[i + 1])
    <3>1. m[i + 1] = AppendEvent(m[i], a, i + 1) /\ m[i + 1] \in Session
      BY <2>1, <2>2, <2>3, <2>5, AppendEventType
    <3>2. /\ m[i + 1].password <=> log[i + 1] = Event("passwordCheckSucceeded", a)
                                      \/ (m[i].password /\ ~TakesBackPassword(log[i + 1], a))
          /\ m[i + 1].otp <=> log[i + 1] = Event("otpCheckSucceeded", a)
                                      \/ (m[i].otp /\ ~TakesBackOTP(log[i + 1], a))
      BY <2>1, <2>2, <2>5, <3>1, AppendsEvent
    <3>3. ASSUME Sound(m[i], a, i) PROVE Sound(m[i + 1], a, i + 1)
      BY <2>1, <3>2, <3>3, PasswordOneMore, OTPOneMore, Zenon DEF Sound
    <3>4. ASSUME Complete(m[i], a, i) PROVE Complete(m[i + 1], a, i + 1)
      BY <2>1, <3>2, <3>4, PasswordOneMore, OTPOneMore, Zenon DEF Complete
    <3> QED  BY <2>1, <2>2, <3>1, <3>3, <3>4
  <2>6. CASE ~IsOwn(a, log[i + 1])
    <3>1. m[i + 1] = m[i] /\ Passes(log[i + 1], a)
      BY <2>3, <2>4, <2>6 DEF Passes
    <3>2. /\ PasswordVerifiedBy(a, i + 1) <=> PasswordVerifiedBy(a, i)
          /\ OTPVerifiedBy(a, i + 1) <=> OTPVerifiedBy(a, i)
      BY <2>1, <3>1, PassedBy, PasswordOneMore, OTPOneMore
    <3> QED  BY <2>1, <2>2, <3>1, <3>2 DEF Sound, Complete
  <2> QED  BY <2>5, <2>6
<1>5. Right(Len(log))
  <2>1. Len(log) - lo \in Nat /\ lo + (Len(log) - lo) = Len(log)
    BY <1>1
  <2>2. Len(log) - lo \in S
    <3> HIDE DEF S
    <3> QED  BY <1>3, <1>4, <2>1, SetInduction
  <2> QED  BY <2>1, <2>2
<1> QED  BY <1>5, MergedIsMerge

-----------------------------------------------------------------------------
(* SessionInv is inductive                                                 *)

\* What the first n events say does not change when events are added.
LEMMA PrefixKept ==
    ASSUME TypeOK, NEW n \in Nat, n <= Len(log), NEW a,
           \A i \in 1 .. Len(log) : log'[i] = log[i]
    PROVE  /\ PasswordVerifiedBy(a, n)' <=> PasswordVerifiedBy(a, n)
           /\ OTPVerifiedBy(a, n)' <=> OTPVerifiedBy(a, n)
<1>1. \A i \in 1 .. n : log'[i] = log[i]
  BY LogFacts
<1>2. \A i \in 1 .. n : \A j \in i + 1 .. n : log'[j] = log[j]
  BY <1>1
<1>3. \A i \in 1 .. n : \A j \in i + 1 .. n :
         /\ TakesBackPassword(log[j], a)' <=> TakesBackPassword(log[j], a)
         /\ TakesBackOTP(log[j], a)' <=> TakesBackOTP(log[j], a)
  BY <1>2 DEF TakesBackPassword, TakesBackOTP, EndsSession, Event
<1>4. PasswordVerifiedBy(a, n)' <=> PasswordVerifiedBy(a, n)
  BY <1>1, <1>3 DEF PasswordVerifiedBy
<1>5. OTPVerifiedBy(a, n)' <=> OTPVerifiedBy(a, n)
  BY <1>1, <1>3 DEF OTPVerifiedBy
<1> QED  BY <1>4, <1>5

\* A session reflects more events if none of them concerns it.
LEMMA ReflectsLater ==
    ASSUME TypeOK, NEW a \in Agents, NEW s \in Session, s.sequence <= position, Reflects(s, a),
           \A i \in s.sequence + 1 .. position : Passes(log[i], a)
    PROVE  /\ s.password <=> PasswordVerifiedBy(a, position)
           /\ s.otp <=> OTPVerifiedBy(a, position)
<1> DEFINE lo == s.sequence
           S == {k \in Nat : lo + k <= position =>
                    /\ s.password <=> PasswordVerifiedBy(a, lo + k)
                    /\ s.otp <=> OTPVerifiedBy(a, lo + k)}
<1>1. lo \in Nat /\ position \in Nat /\ position <= Len(log) /\ Len(log) \in Nat
  BY LogFacts DEF Session
<1>2. 0 \in S
  BY <1>1 DEF Reflects
<1>3. ASSUME NEW k \in Nat, k \in S PROVE k + 1 \in S
  <2> SUFFICES ASSUME lo + (k + 1) <= position
               PROVE  /\ s.password <=> PasswordVerifiedBy(a, lo + (k + 1))
                      /\ s.otp <=> OTPVerifiedBy(a, lo + (k + 1))
    OBVIOUS
  <2> DEFINE i == lo + k
  <2>1. /\ i \in Nat /\ i + 1 = lo + (k + 1) /\ i <= position
        /\ i + 1 \in lo + 1 .. position /\ i + 1 \in 1 .. Len(log)
    BY <1>1
  <2>2. (s.password <=> PasswordVerifiedBy(a, i)) /\ (s.otp <=> OTPVerifiedBy(a, i))
    BY <1>3, <2>1
  <2> HIDE DEF i
  <2>3. /\ PasswordVerifiedBy(a, i + 1) <=> PasswordVerifiedBy(a, i)
        /\ OTPVerifiedBy(a, i + 1) <=> OTPVerifiedBy(a, i)
    BY <2>1, PassedBy, PasswordOneMore, OTPOneMore
  <2> QED  BY <2>1, <2>2, <2>3
<1>4. position - lo \in S
  <2>1. position - lo \in Nat
    BY <1>1
  <2> HIDE DEF S
  <2> QED  BY <1>2, <1>3, <2>1, SetInduction
<1>5. lo + (position - lo) = position
  BY <1>1
<1> QED  BY <1>1, <1>4, <1>5

\* Without a row nothing is verified.
LEMMA NoRowNothing ==
    ASSUME TypeOK, NEW a \in Agents, sessions[a] = NoRow, RowInv(a)
    PROVE  ~PasswordVerifiedBy(a, position) /\ ~OTPVerifiedBy(a, position)
<1>1. ASSUME NEW i \in 1 .. position, NEW t \in {"passwordCheckSucceeded", "otpCheckSucceeded"},
             log[i] = Event(t, a)
      PROVE  \E j \in i + 1 .. position : log[j].type = "removed"
  <2>1. log[i].type \in AgentTypes /\ log[i].agent = a
    BY <1>1 DEF Event, AgentTypes
  <2> QED  BY <2>1 DEF RowInv
<1> QED  BY <1>1 DEF PasswordVerifiedBy, OTPVerifiedBy, TakesBackPassword, TakesBackOTP, EndsSession

LEMMA SessionReduce == ASSUME SessionInv, Reduce PROVE SessionInv'
<1> DEFINE e == log[position + 1]
           old(a) == IF sessions[a] = NoRow THEN Unverified ELSE sessions[a]
           new(a) == AppendEvent(old(a), a, position + 1)
<1>1. TypeOK /\ TypeOK'
  BY TypeStep DEF SessionInv, Next
<1>2. /\ position \in Nat /\ position < Len(log) /\ position' = position + 1 /\ log' = log
      /\ request' = request /\ position + 1 \in 1 .. Len(log) /\ Len(log) \in Nat
  BY <1>1, LogFacts DEF Reduce
<1>3. ASSUME NEW a \in Agents
      PROVE  sessions'[a] = CASE e.type \in AgentTypes /\ e.agent = a -> new(a)
                              [] e.type \in {"passwordChanged", "locked", "deactivated"}
                                     /\ sessions[a] # NoRow ->
                                     AppendEvent(sessions[a], a, position + 1)
                              [] e.type = "removed" -> NoRow
                              [] OTHER -> sessions[a]
  BY <1>3, Zenon DEF Reduce
<1>4. ASSUME NEW a \in Agents
      PROVE  /\ old(a) \in Session
             /\ old(a).password <=> PasswordVerifiedBy(a, position)
             /\ old(a).otp <=> OTPVerifiedBy(a, position)
  <2>1. RowInv(a)
    BY DEF SessionInv
  <2>2. CASE sessions[a] = NoRow
    <3>1. ~Unverified.password /\ ~Unverified.otp
      BY DEF Unverified
    <3> QED  BY <1>1, <2>1, <2>2, <3>1, RowTypes, NoRowNothing
  <2>3. CASE sessions[a] # NoRow
    <3>1. sessions[a] \in Session /\ sessions[a].sequence <= position
      BY <1>1, <2>3 DEF TypeOK
    <3>2. Reflects(sessions[a], a) /\ \A i \in sessions[a].sequence + 1 .. position : Passes(log[i], a)
      BY <2>1, <2>3 DEF RowInv
    <3> QED  BY <1>1, <2>3, <3>1, <3>2, ReflectsLater
  <2> QED  BY <2>2, <2>3
<1>5. ASSUME NEW a \in Agents, IsOwn(a, e) \/ e.type \in {"locked", "deactivated"}
      PROVE  /\ new(a) \in Session /\ new(a).sequence = position + 1 /\ new(a) # NoRow
             /\ Reflects(new(a), a)
  <2>1. new(a) \in Session /\ new(a).sequence = position + 1
    BY <1>2, <1>4, AppendEventType
  <2>2. /\ new(a).password <=> e = Event("passwordCheckSucceeded", a)
                                  \/ (old(a).password /\ ~TakesBackPassword(e, a))
        /\ new(a).otp <=> e = Event("otpCheckSucceeded", a) \/ (old(a).otp /\ ~TakesBackOTP(e, a))
    <3> HIDE DEF old
    <3> QED  BY <1>1, <1>2, <1>4, <1>5, AppendsEvent
  <2> HIDE DEF old, new
  <2>3. Reflects(new(a), a)
    BY <1>2, <1>4, <2>1, <2>2, PasswordOneMore, OTPOneMore DEF Reflects
  <2> QED  BY <2>1, <2>3, RowTypes
<1>6. ASSUME NEW a \in Agents PROVE RowInv(a)'
  <2>1. RowInv(a)
    BY DEF SessionInv
  <2>2. CASE sessions'[a] = new(a) /\ (IsOwn(a, e) \/ e.type \in {"locked", "deactivated"})
    <3> HIDE DEF new
    <3>1. sessions'[a] # NoRow /\ Reflects(sessions'[a], a) /\ sessions'[a].sequence = position'
      BY <1>2, <1>5, <2>2
    <3>2. Reflects(sessions[a], a)'
      BY <1>2, <3>1 DEF Reflects, PasswordVerifiedBy, OTPVerifiedBy
    <3>3. sessions'[a].sequence + 1 .. position' = {}
      BY <1>2, <3>1
    <3> QED  BY <3>1, <3>2, <3>3 DEF RowInv
  <2>3. CASE sessions'[a] = NoRow /\ e.type = "removed"
    <3>1. ASSUME NEW i \in 1 .. position', log[i].type \in AgentTypes
          PROVE  position + 1 \in i + 1 .. position'
      BY <1>2, <2>3, <3>1 DEF AgentTypes
    <3> QED  BY <1>2, <2>3, <3>1 DEF RowInv
  <2>4. CASE sessions'[a] = sessions[a] /\ sessions[a] = NoRow /\ ~(e.type \in AgentTypes /\ e.agent = a)
    <3>1. ASSUME NEW i \in 1 .. position', log[i].type \in AgentTypes /\ log[i].agent = a
          PROVE  \E j \in i + 1 .. position' : log[j].type = "removed"
      <4>1. i \in 1 .. position
        BY <1>2, <2>4, <3>1
      <4>2. PICK j \in i + 1 .. position : log[j].type = "removed"
        BY <2>1, <2>4, <3>1, <4>1 DEF RowInv
      <4> QED  BY <1>2, <4>2
    <3> QED  BY <1>2, <2>4, <3>1 DEF RowInv
  <2>5. CASE sessions'[a] = sessions[a] /\ sessions[a] # NoRow /\ Passes(e, a)
    <3>1. sessions[a] \in Session /\ sessions[a].sequence \in Nat
      BY <1>1, <2>5 DEF TypeOK, Session
    <3>2. \A i \in sessions[a].sequence + 1 .. position' : Passes(log[i], a)
      <4>1. \A i \in sessions[a].sequence + 1 .. position' : i = position + 1 \/ i \in sessions[a].sequence + 1 .. position
        BY <1>2, <3>1
      <4> QED  BY <2>1, <2>5, <4>1 DEF RowInv
    <3>3. Reflects(sessions[a], a)
      BY <2>1, <2>5 DEF RowInv
    <3>4. Reflects(sessions[a], a)'
      BY <1>2, <2>5, <3>3 DEF Reflects, PasswordVerifiedBy, OTPVerifiedBy
    <3> QED  BY <1>2, <2>5, <3>2, <3>4 DEF RowInv, Passes
  <2>6. CASE e.type \in AgentTypes /\ e.agent = a
    <3>1. sessions'[a] = new(a)
      BY <1>3, <2>6 DEF AgentTypes
    <3> QED  BY <2>2, <2>6, <3>1 DEF IsOwn
  <2>7. CASE e.type \in {"passwordChanged", "locked", "deactivated"}
    <3>1. e.type \notin AgentTypes /\ e.type # "removed"
      BY <2>7 DEF AgentTypes
    <3>2. CASE sessions[a] # NoRow
      <4>1. sessions'[a] = new(a)
        BY <1>3, <2>7, <3>1, <3>2
      <4> QED  BY <2>2, <2>7, <4>1 DEF IsOwn
    <3>3. CASE sessions[a] = NoRow
      <4>1. sessions'[a] = sessions[a]
        BY <1>3, <2>7, <3>1, <3>3
      <4> QED  BY <2>4, <3>1, <3>3, <4>1
    <3> QED  BY <3>2, <3>3
  <2>8. CASE e.type = "removed"
    <3>1. sessions'[a] = NoRow
      BY <1>3, <2>8 DEF AgentTypes
    <3> QED  BY <2>3, <2>8, <3>1
  <2>9. CASE /\ ~(e.type \in AgentTypes /\ e.agent = a)
             /\ e.type \notin {"passwordChanged", "locked", "deactivated", "removed"}
    <3>1. sessions'[a] = sessions[a]
      BY <1>3, <2>9
    <3>2. Passes(e, a)
      BY <2>9 DEF Passes, IsOwn
    <3> QED  BY <2>4, <2>5, <2>9, <3>1, <3>2
  <2> QED  BY <2>6, <2>7, <2>8, <2>9
<1>7. ASSUME NEW r \in Requests PROVE ReadInv(request[r])'
  <2> SUFFICES ASSUME request[r].stage = "events" PROVE ReadInv(request[r])'
    BY <1>2 DEF ReadInv
  <2>1. ReadInv(request[r])
    BY DEF SessionInv
  <2>2. request[r].session \in Session /\ request[r].session.sequence \in Nat
    BY <1>1, StageFacts DEF TypeOK, Session
  <2>3. request[r].session.sequence <= position'
    BY <1>2, <2>1, <2>2 DEF ReadInv
  <2>4. Reflects(request[r].session, request[r].agent)' <=> Reflects(request[r].session, request[r].agent)
    BY <1>2 DEF Reflects, PasswordVerifiedBy, OTPVerifiedBy
  <2> QED  BY <1>2, <2>1, <2>3, <2>4 DEF ReadInv
<1> QED  BY <1>1, <1>6, <1>7 DEF SessionInv

LEMMA SessionMoves == ASSUME SessionInv, TypeOK', NEW r \in Requests, Moves(r) PROVE SessionInv'
<1>1. TypeOK
  BY DEF SessionInv
<1>2. PICK q : MayBecome(r, q) /\ Moved(r, q)
  BY DEF Moves
<1>3. UNCHANGED <<log, position, sessions>> /\ request' = [request EXCEPT ![r] = q] /\ q \in Stages
  BY <1>1, <1>2, BecomesStage DEF Moved
<1>4. TypeOK'
  OBVIOUS
<1>5. \A a \in Agents : RowInv(a)'
  BY <1>3 DEF SessionInv, RowInv, Reflects, PasswordVerifiedBy, OTPVerifiedBy
<1>6. ReadInv(q)
  <2>1. ASSUME NEW a \in Agents, Found(a, q) PROVE ReadInv(q)
    <3>1. Reflects(sessions[a], a) /\ sessions[a].sequence <= position
      BY <1>1, <2>1 DEF SessionInv, RowInv, Found, TypeOK
    <3> QED  BY <2>1, <3>1 DEF ReadInv, Found
  <2>2. ASSUME NEW a \in Agents, Missed(a, q) PROVE ReadInv(q)
    <3>1. /\ q.session = [Unverified EXCEPT !.sequence = position]
          /\ q.missed = (sessions[a] # NoRow) /\ q.agent = a
      BY <2>2 DEF Missed
    <3>2. ~q.session.password /\ ~q.session.otp /\ q.session.sequence = position
      BY <3>1 DEF Unverified
    <3>3. position \in Nat
      BY <1>1, LogFacts
    <3>4. sessions[a] = NoRow => Reflects(q.session, a)
      BY <1>1, <3>2, NoRowNothing DEF SessionInv, Reflects
    <3>5. IF q.missed THEN ~q.session.password /\ ~q.session.otp ELSE Reflects(q.session, q.agent)
      <4>1. CASE sessions[a] = NoRow
        BY <3>1, <3>4, <4>1, Zenon
      <4>2. CASE sessions[a] # NoRow
        BY <3>1, <3>2, <4>2, Zenon
      <4> QED  BY <4>1, <4>2
    <3> QED  BY <3>2, <3>3, <3>5 DEF ReadInv
  <2>3. ASSUME q.stage # "events" PROVE ReadInv(q)
    BY <2>3 DEF ReadInv
  <2>4. q.stage # "events" \/ \E a \in Agents : Found(a, q) \/ Missed(a, q)
    BY <1>2 DEF MayBecome, Idle, Pushing
  <2> QED  BY <2>1, <2>2, <2>3, <2>4
<1>7. ASSUME NEW o \in Requests PROVE ReadInv(request[o])'
  <2>1. request'[o] \in {q, request[o]} /\ ReadInv(request[o])
    BY <1>1, <1>3 DEF SessionInv, TypeOK
  <2>2. ReadInv(request'[o])
    BY <1>6, <2>1
  <2> QED  BY <1>3, <2>2 DEF ReadInv, Reflects, PasswordVerifiedBy, OTPVerifiedBy
<1> QED  BY <1>4, <1>5, <1>7 DEF SessionInv

LEMMA SessionPush == ASSUME SessionInv, NEW r \in Requests, Push(r) PROVE SessionInv'
<1>1. TypeOK /\ TypeOK'
  BY TypeStep DEF SessionInv, Next
<1>2. /\ log' = log \o request[r].events /\ request' = [request EXCEPT ![r] = Idle]
      /\ UNCHANGED <<position, sessions>> /\ request[r].stage = "push"
  BY DEF Push
<1>3. request[r].events \in Seq(Events) /\ log \in Seq(Events)
  BY <1>1, <1>2, StageFacts, PayloadFacts DEF TypeOK
<1>4. \A i \in 1 .. Len(log) : log'[i] = log[i]
  BY <1>2, <1>3, ConcatProperties
<1>5. position \in Nat /\ position <= Len(log) /\ Len(log) \in Nat
  BY <1>1, LogFacts
<1>6. \A i \in 1 .. position : log'[i] = log[i]
  BY <1>4, <1>5
<1>7. ASSUME NEW s \in Session, s.sequence <= position, NEW a, Reflects(s, a)
      PROVE  /\ s.password <=> PasswordVerifiedBy(a, s.sequence)'
             /\ s.otp <=> OTPVerifiedBy(a, s.sequence)'
  <2>1. s.sequence \in Nat /\ s.sequence <= Len(log)
    BY <1>5, <1>7 DEF Session
  <2> QED  BY <1>1, <1>4, <1>7, <2>1, PrefixKept DEF Reflects
<1>8. ASSUME NEW a \in Agents PROVE RowInv(a)'
  <2>1. RowInv(a)
    BY DEF SessionInv
  <2>2. CASE sessions[a] = NoRow
    <3>1. \A i \in 1 .. position : \A j \in i + 1 .. position : log'[j] = log[j]
      BY <1>6
    <3> QED  BY <1>2, <1>6, <2>1, <2>2, <3>1 DEF RowInv
  <2>3. CASE sessions[a] # NoRow
    <3>1. sessions[a] \in Session /\ sessions[a].sequence <= position /\ Reflects(sessions[a], a)
      BY <1>1, <2>1, <2>3 DEF TypeOK, RowInv
    <3>2. Reflects(sessions[a], a)'
      BY <1>2, <1>7, <3>1 DEF Reflects
    <3>3. sessions[a].sequence \in Nat
      BY <3>1 DEF Session
    <3>4. \A i \in sessions[a].sequence + 1 .. position : log'[i] = log[i]
      BY <1>6, <3>3
    <3> QED  BY <1>2, <2>1, <2>3, <3>2, <3>4 DEF RowInv, Passes
  <2> QED  BY <2>2, <2>3
<1>9. ASSUME NEW o \in Requests PROVE ReadInv(request[o])'
  <2>1. ReadInv(Idle)'
    BY DEF ReadInv, Idle
  <2>2. CASE request'[o] = Idle
    BY <2>1, <2>2 DEF ReadInv
  <2>3. CASE request'[o] = request[o]
    <3> SUFFICES ASSUME request[o].stage = "events" PROVE ReadInv(request[o])'
      BY <2>3 DEF ReadInv
    <3>1. ReadInv(request[o])
      BY DEF SessionInv
    <3>2. request[o].session \in Session /\ request[o].session.sequence <= position
      BY <1>1, <3>1, StageFacts DEF TypeOK, ReadInv
    <3>3. Reflects(request[o].session, request[o].agent) => Reflects(request[o].session, request[o].agent)'
      BY <1>7, <2>3, <3>2 DEF Reflects
    <3> QED  BY <1>2, <2>3, <3>1, <3>2, <3>3 DEF ReadInv
  <2>4. request'[o] \in {Idle, request[o]}
    BY <1>1, <1>2 DEF TypeOK
  <2> QED  BY <2>2, <2>3, <2>4
<1> QED  BY <1>1, <1>8, <1>9 DEF SessionInv

LEMMA SessionStep == SessionInv /\ [Next]_vars => SessionInv'
<1>1. ASSUME SessionInv, UNCHANGED vars PROVE SessionInv'
  BY <1>1 DEF SessionInv, vars, counts, TypeOK, RowInv, ReadInv, Reflects, PasswordVerifiedBy, OTPVerifiedBy
<1>2. ASSUME SessionInv, Next PROVE SessionInv'
  <2>1. Reduce \/ \E r \in Requests : Moves(r) \/ Push(r)
    BY <1>2, StepCases DEF SessionInv
  <2>2. TypeOK'
    BY <1>2, TypeStep DEF SessionInv
  <2> QED  BY <1>2, <2>1, <2>2, SessionReduce, SessionMoves, SessionPush
<1> QED  BY <1>1, <1>2

LEMMA SessionInit == Init => SessionInv
<1> SUFFICES ASSUME Init PROVE SessionInv
  OBVIOUS
<1>1. PICK a \in Agents :
         /\ log = <<Event("passwordCheckSucceeded", a), Event("otpCheckSucceeded", a)>>
         /\ position \in 0 .. 2
         /\ sessions = [b \in Agents |->
               IF b # a \/ position = 0 THEN NoRow
               ELSE [password |-> TRUE, otp |-> position = 2, sequence |-> position]]
  BY DEF Init
<1>2. log[1] = Event("passwordCheckSucceeded", a) /\ log[2] = Event("otpCheckSucceeded", a)
  BY <1>1
<1>3. ASSUME NEW b \in Agents PROVE RowInv(b)
  <2>1. CASE b # a \/ position = 0
    <3>1. sessions[b] = NoRow
      BY <1>1, <2>1
    <3>2. \A i \in 1 .. position : i \in {1, 2} /\ position # 0
      BY <1>1
    <3>3. \A i \in 1 .. position : log[i].agent # b
      BY <1>2, <2>1, <3>2 DEF Event
    <3> QED  BY <3>1, <3>3 DEF RowInv
  <2>2. CASE b = a /\ position # 0
    <3>1. sessions[a] = [password |-> TRUE, otp |-> position = 2, sequence |-> position]
      BY <1>1, <2>2
    <3>2. sessions[a].password = TRUE /\ sessions[a].otp = (position = 2) /\ sessions[a].sequence = position
      BY <3>1
    <3>3. sessions[a] # NoRow
      <4>1. NoRow.sequence = -1
        BY DEF NoRow, Unverified
      <4> QED  BY <1>1, <3>2, <4>1
    <3>4. position \in {1, 2}
      BY <1>1, <2>2
    <3>5. ~TakesBackPassword(log[2], a) /\ log[1] # Event("otpCheckSucceeded", a)
      BY <1>2 DEF TakesBackPassword, EndsSession, Event
    <3>6. PasswordVerifiedBy(a, position)
      <4>1. \A j \in 2 .. position : j = 2
        BY <3>4
      <4> QED  BY <1>2, <3>4, <3>5, <4>1 DEF PasswordVerifiedBy
    <3>7. OTPVerifiedBy(a, position) <=> position = 2
      <4>1. CASE position = 1
        <5>1. \A i \in 1 .. 1 : i = 1
          OBVIOUS
        <5> QED  BY <3>5, <4>1, <5>1 DEF OTPVerifiedBy
      <4>2. CASE position = 2
        <5>1. 2 + 1 .. 2 = {}
          OBVIOUS
        <5> QED  BY <1>2, <4>2, <5>1 DEF OTPVerifiedBy
      <4> QED  BY <3>4, <4>1, <4>2
    <3>8. sessions[a].sequence + 1 .. position = {}
      BY <3>2, <3>4
    <3> QED  BY <2>2, <3>2, <3>3, <3>6, <3>7, <3>8 DEF RowInv, Reflects
  <2> QED  BY <2>1, <2>2
<1>4. \A r \in Requests : ReadInv(request[r])
  BY DEF Init, ReadInv, Idle
<1> QED  BY <1>3, <1>4, TypeInit DEF SessionInv

-----------------------------------------------------------------------------
(* The answers                                                             *)

\* What each answer says of the merged session.
LEMMA AnswerFacts ==
    ASSUME NEW s, NEW a
    PROVE  /\ Step(s, a) # "error" => ~RemovedSince(s)
           /\ Step(s, a) = "callback" => MergedSession(s, a).password /\ MergedSession(s, a).otp
           /\ Step(s, a) = "password" => ~MergedSession(s, a).password
           /\ Step(s, a) = "otp" => ~MergedSession(s, a).otp
<1> DEFINE p == MergedSession(s, a).password
           o == MergedSession(s, a).otp
           x == RemovedSince(s)
<1>1. Step(s, a) = CASE x -> "error"
                     [] ~x /\ ~p -> "password"
                     [] ~x /\ p /\ ~o -> "otp"
                     [] OTHER -> "callback"
  BY DEF Step
<1> HIDE DEF p, o, x
<1>2. CASE x
  BY <1>1, <1>2 DEF x
<1>3. CASE ~x /\ ~p
  BY <1>1, <1>3 DEF x, p
<1>4. CASE ~x /\ p /\ ~o
  BY <1>1, <1>4 DEF x, p, o
<1>5. CASE ~x /\ p /\ o
  BY <1>1, <1>5 DEF x, p, o
<1> QED  BY <1>2, <1>3, <1>4, <1>5

LEMMA CallbackStep ==
    ASSUME SessionInv, NEW r \in Requests, Answer(r, "callback"), Unparsable(request[r].session) = {}
    PROVE  PasswordIsVerified(request[r].agent) /\ OTPIsVerified(request[r].agent)
<1> DEFINE s == request[r].session
           a == request[r].agent
<1>1. TypeOK /\ request[r].stage = "events" /\ Step(s, a) = "callback"
  BY DEF SessionInv, Answer
<1>2. s \in Session /\ a \in Agents /\ ReadInv(request[r])
  BY <1>1, StageFacts DEF TypeOK, SessionInv
<1>3. s.sequence <= Len(log)
  BY <1>1, <1>2, LogFacts DEF ReadInv, Session
<1>4. Sound(s, a, s.sequence)
  BY <1>1, <1>2 DEF ReadInv, Reflects, Sound
<1>5. ~RemovedSince(s) /\ MergedSession(s, a).password /\ MergedSession(s, a).otp
  BY <1>1, AnswerFacts
<1>6. Sound(MergedSession(s, a), a, Len(log))
  BY <1>1, <1>2, <1>3, <1>4, <1>5, MergeFacts
<1> QED  BY <1>5, <1>6 DEF Sound, PasswordIsVerified, OTPIsVerified

(***************************************************************************)
(* nextSteps sends a request back to the application only when, at that    *)
(* moment, the events say that its user agent has verified both factors,   *)
(* for any number of user agents, requests and events and any delay of the *)
(* view; except behind a locked or deactivated event, where                *)
(* userSessionByIDs returns the row as it is.                              *)
(***************************************************************************)
THEOREM CallbacksAreVerified == Spec => CallbackVerified
<1>1. SessionInv /\ [Next]_vars =>
         [\A r \in Requests :
            Answer(r, "callback") =>
                \/ PasswordIsVerified(request[r].agent) /\ OTPIsVerified(request[r].agent)
                \/ Unparsable(request[r].session) # {}]_vars
  BY CallbackStep
<1> QED  BY <1>1, SessionInit, SessionStep, PTL DEF Spec, CallbackVerified

LEMMA AskedStep ==
    ASSUME SessionInv, NEW r \in Requests, request[r].stage = "events",
           ~request[r].missed, Unparsable(request[r].session) = {}
    PROVE  /\ Answer(r, "password") => ~PasswordIsVerified(request[r].agent)
           /\ Answer(r, "otp") => ~OTPIsVerified(request[r].agent)
<1> DEFINE s == request[r].session
           a == request[r].agent
<1>1. TypeOK
  BY DEF SessionInv
<1>2. s \in Session /\ a \in Agents /\ ReadInv(request[r])
  BY <1>1, StageFacts DEF TypeOK, SessionInv
<1>3. /\ s.sequence \in Nat /\ s.sequence <= position /\ position \in Nat /\ position <= Len(log)
      /\ Len(log) \in Nat /\ DOMAIN log = 1 .. Len(log)
  BY <1>1, <1>2, LogFacts DEF ReadInv, Session
<1>4. Complete(s, a, s.sequence)
  BY <1>2 DEF ReadInv, Reflects, Complete
<1>5. ASSUME Answer(r, "password") PROVE ~PasswordIsVerified(a)
  <2>1. ~RemovedSince(s) /\ ~MergedSession(s, a).password
    BY <1>5, AnswerFacts DEF Answer
  <2>2. Complete(MergedSession(s, a), a, Len(log))
    BY <1>1, <1>2, <1>3, <1>4, <2>1, MergeFacts
  <2> QED  BY <2>1, <2>2 DEF Complete, PasswordIsVerified
<1>6. ASSUME Answer(r, "otp") PROVE ~OTPIsVerified(a)
  <2>1. ~RemovedSince(s) /\ ~MergedSession(s, a).otp
    BY <1>6, AnswerFacts DEF Answer
  <2>2. Complete(MergedSession(s, a), a, Len(log))
    BY <1>1, <1>2, <1>3, <1>4, <2>1, MergeFacts
  <2> QED  BY <2>1, <2>2 DEF Complete, OTPIsVerified
<1> QED  BY <1>5, <1>6

(***************************************************************************)
(* A factor the events say is verified is not asked for again, unless a    *)
(* row appeared between the first two queries of userSessionByIDs, or the  *)
(* merge stopped at a locked or deactivated event.                         *)
(***************************************************************************)
THEOREM VerifiedFactorsKept == Spec => NothingAskedTwice
<1>1. SessionInv /\ [Next]_vars =>
         [\A r \in Requests :
            request[r].stage = "events"
                /\ ~request[r].missed
                /\ Unparsable(request[r].session) = {} =>
                   /\ Answer(r, "password") => ~PasswordIsVerified(request[r].agent)
                   /\ Answer(r, "otp") => ~OTPIsVerified(request[r].agent)]_vars
  BY AskedStep
<1> QED  BY <1>1, SessionInit, SessionStep, PTL DEF Spec, NothingAskedTwice
=============================================================================
