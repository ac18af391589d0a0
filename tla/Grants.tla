------------------------------- MODULE Grants -------------------------------
(***************************************************************************)
(* Authorizations: the user grants of one user on one project, given by    *)
(* the owner of the project or, for a granted project, by the organization *)
(* that received the project grant.                                        *)
(*                                                                         *)
(* A command reads events, checks, and pushes.  Nothing ties the push to   *)
(* what was read except the unique constraints, so every read may be stale *)
(* when the push happens.  The commands that cascade get the user grants   *)
(* they cascade to from the API, which reads them from the projection      *)
(* projections.user_grants: it lags behind the events, and only some of    *)
(* the calls trigger it first.  The module keeps the three views apart:    *)
(* the write model of a user grant, the read model of the preconditions,   *)
(* and the rows of the projection, each with its own reduce function.      *)
(***************************************************************************)
EXTENDS Integers, FiniteSets, SequencesExt

CONSTANTS
    AllRoles,    \* the role keys of the project, in the order they were added
    RequestKeys, \* the lists of role keys that requests give a user grant
    GrantIDs,    \* ids of user grants, in the order the generator returns them
    Clients,     \* API requests that run at the same time
    MaxEvents,   \* bound on the events after the initial ones
    MaxProject,  \* bound on the requests that change project or user
    MaxUnread    \* bound on the user grants that one cascade fails to read

VARIABLES
    log,      \* the events of the user, the project and the user grants
    claims,   \* rows of the table of unique constraints
    position, \* number of events the projection has reduced
    rows,     \* projections.user_grants
    request   \* what each client is about to do

vars == <<log, claims, position, rows, request>>

Roles == Range(AllRoles)
Sources == {"project", "grant"}  \* ProjectGrantID empty, or that of the grant
KeyLists == UNION {[1 .. n -> Roles] : n \in 0 .. Len(AllRoles)}

ASSUME RolesAssumption == AllRoles \in Seq(Roles) /\ RequestKeys \subseteq Seq(Roles)
ASSUME GrantIDsAssumption ==
    GrantIDs \subseteq Nat \ {0} /\ IsFiniteSet(GrantIDs) /\ GrantIDs # {}

NoID == 0
NoKey == "none"
Event(type, id, source, keys) ==
    [type |-> type, id |-> id, source |-> source, keys |-> keys]
UserGrantEvent(type, id, keys) == Event(type, id, "project", keys)
ProjectEvent(type, keys) == Event(type, NoID, "project", keys)

UserGrantTypes == {"added", "changed", "cascadeChanged", "deactivated",
                   "reactivated", "removed", "cascadeRemoved"}
ProjectTypes == {"roleAdded", "roleRemoved", "grantAdded", "grantChanged",
                 "grantCascadeChanged", "grantRemoved", "projectRemoved",
                 "userRemoved"}

\* The project has its roles, its grant has all of them, and the user has a
\* first user grant, also with all of them.
FirstID == Min(GrantIDs)
InitialLog(source) ==
    [i \in DOMAIN AllRoles |-> ProjectEvent("roleAdded", <<AllRoles[i]>>)]
        \o <<ProjectEvent("grantAdded", AllRoles), Event("added", FirstID, source, AllRoles)>>
InitialEvents == Len(AllRoles) + 2

(***************************************************************************)
(* The write model of a user grant.                                        *)
(***************************************************************************)
NotAdded == [state |-> "unspecified", source |-> "project", keys |-> <<>>]

\* mutant: a late reactivated event brings a removed grant back
ReduceResurrecting(model, e) ==
    CASE e.type = "added" -> [state |-> "active", source |-> e.source, keys |-> e.keys]
      [] e.type \in {"changed", "cascadeChanged"} -> [model EXCEPT !.keys = e.keys]
      [] e.type = "deactivated" -> [model EXCEPT !.state = "inactive"]
      [] e.type = "reactivated" -> [model EXCEPT !.state = "active"]
      [] OTHER -> [model EXCEPT !.state = "removed"]

Reduce(model, e) ==
    CASE e.type = "added" -> [state |-> "active", source |-> e.source, keys |-> e.keys]
      [] e.type \in {"changed", "cascadeChanged"} -> [model EXCEPT !.keys = e.keys]
      [] e.type = "deactivated" /\ model.state # "removed" ->
             [model EXCEPT !.state = "inactive"]
      [] e.type = "reactivated" /\ model.state # "removed" ->
             [model EXCEPT !.state = "active"]
      [] e.type \in {"removed", "cascadeRemoved"} -> [model EXCEPT !.state = "removed"]
      [] OTHER -> model

IsAbout(e, g) == e.type \in UserGrantTypes /\ e.id = g

\* The write model of g after the first n events.
UserGrantOf(n, g) ==
    LET model[i \in 0 .. n] ==
            IF i = 0 THEN NotAdded
            ELSE IF IsAbout(log[i], g) THEN Reduce(model[i - 1], log[i])
            ELSE model[i - 1]
    IN  model[n]
UserGrant(g) == UserGrantOf(Len(log), g)
IsLive(model) == model.state \in {"active", "inactive"}

(***************************************************************************)
(* The read model of the preconditions of a user grant.  It knows nothing  *)
(* of a cascade change of the project grant, and the removal of the        *)
(* project does not end the project grant.                                 *)
(***************************************************************************)
Drop(keys, k) == SelectSeq(keys, LAMBDA x : x # k)

ReducePreCondition(source, model, e) ==
    CASE e.type = "userRemoved" -> [model EXCEPT !.user = FALSE]
      [] e.type = "projectRemoved" -> [model EXCEPT !.project = FALSE]
      [] e.type \in {"grantAdded", "grantChanged"} /\ source = "grant" ->
             [model EXCEPT !.keys = e.keys]
      [] e.type = "grantRemoved" /\ source = "grant" ->
             [model EXCEPT !.grant = FALSE, !.keys = <<>>]
      [] e.type = "roleAdded" /\ source = "project" ->
             [model EXCEPT !.keys = @ \o e.keys]
      [] e.type = "roleRemoved" /\ source = "project" ->
             [model EXCEPT !.keys = Drop(@, e.keys[1])]
      [] OTHER -> model

PreCondition(source) ==
    FoldLeft(LAMBDA m, e : ReducePreCondition(source, m, e),
             [user |-> TRUE, project |-> TRUE, grant |-> TRUE, keys |-> <<>>], log)

UserGrantAllowed(source, keys) ==
    LET model == PreCondition(source) IN
    /\ model.user
    /\ IF source = "project" THEN model.project ELSE model.grant
    /\ Range(keys) \subseteq Range(model.keys)

(***************************************************************************)
(* The write models of the project, of a role and of the project grant.    *)
(***************************************************************************)
Happened(type) == \E i \in DOMAIN log : log[i].type = type
ProjectExists == ~Happened("projectRemoved")
ProjectGrantExists == ProjectExists /\ ~Happened("grantRemoved")

ExistingRoles ==
    FoldLeft(LAMBDA keys, e : CASE e.type = "roleAdded" -> keys \cup Range(e.keys)
                                [] e.type = "roleRemoved" -> keys \ Range(e.keys)
                                [] OTHER -> keys, {}, log)

\* Unlike the preconditions, the write model of a role sees the project removed.
ActiveRoles ==
    FoldLeft(LAMBDA keys, e : CASE e.type = "roleAdded" -> keys \cup Range(e.keys)
                                [] e.type = "roleRemoved" -> keys \ Range(e.keys)
                                [] e.type = "projectRemoved" -> {}
                                [] OTHER -> keys, {}, log)

\* The role keys of the project grant after the first n events are those of its latest change.
ProjectGrantKeysOf(n) ==
    LET changes == {i \in 1 .. n :
                       log[i].type \in {"grantAdded", "grantChanged", "grantCascadeChanged"}}
    IN  IF changes = {} THEN <<>> ELSE log[Max(changes)].keys

(***************************************************************************)
(* The loop that takes keys out of a list while it ranges over the list:   *)
(* it shifts the rest to the left and goes on behind it, so that the key   *)
(* after a removed one is never looked at.                                 *)
(***************************************************************************)
WithoutKeys(keys, gone) ==
    LET loop[i \in 0 .. Len(keys)] ==
            IF i = 0 THEN [kept |-> <<>>, taken |-> FALSE]
            ELSE IF keys[i] \in gone /\ ~loop[i - 1].taken
            THEN [kept |-> loop[i - 1].kept, taken |-> TRUE]
            ELSE [kept |-> Append(loop[i - 1].kept, keys[i]), taken |-> FALSE]
    IN  loop[Len(keys)].kept

(***************************************************************************)
(* The projection.  Its reduce function of a reactivated event expects a   *)
(* deactivated one and fails, which stops the projection.                  *)
(***************************************************************************)
NoRow == [source |-> "none", state |-> "none", keys |-> {}]

\* mutant: the cascade events of user grants are not registered
ProjectIgnoringCascades(table, e) ==
    [g \in GrantIDs |->
        IF e.type = "added" /\ e.id = g
        THEN [source |-> e.source, state |-> "active", keys |-> Range(e.keys)]
        ELSE IF table[g] = NoRow THEN NoRow
        ELSE CASE e.id = g /\ e.type = "changed" -> [table[g] EXCEPT !.keys = Range(e.keys)]
               [] e.id = g /\ e.type = "removed" -> NoRow
               [] OTHER -> table[g]]

Project(table, e) ==
    [g \in GrantIDs |->
        IF e.type = "added" /\ e.id = g
        THEN [source |-> e.source, state |-> "active", keys |-> Range(e.keys)]
        ELSE IF table[g] = NoRow THEN NoRow
        ELSE CASE e.id = g /\ e.type \in {"changed", "cascadeChanged"} ->
                      [table[g] EXCEPT !.keys = Range(e.keys)]
               [] e.id = g /\ e.type \in {"removed", "cascadeRemoved"} -> NoRow
               [] e.id = g /\ e.type = "deactivated" -> [table[g] EXCEPT !.state = "inactive"]
               [] e.type \in {"userRemoved", "projectRemoved"} -> NoRow
               [] e.type = "grantRemoved" /\ table[g].source = "grant" -> NoRow
               [] e.type = "roleRemoved" -> [table[g] EXCEPT !.keys = @ \ Range(e.keys)]
               [] e.type \in {"grantChanged", "grantCascadeChanged"}
                      /\ table[g].source = "grant" ->
                      [table[g] EXCEPT !.keys = @ \cap Range(e.keys)]
               [] OTHER -> table[g]]

Reducible(n) == n \in DOMAIN log /\ log[n].type # "reactivated"

\* The projection reduces the next event.  There is one position for all of them, where
\* current_sequences has one per aggregate type: behind a reactivated event the subscriber
\* still reduces the events of the project and of the user, which only take rows and roles away.
Process ==
    /\ Reducible(position + 1)
    /\ rows' = Project(rows, log[position + 1])
    /\ position' = position + 1
    /\ UNCHANGED <<log, claims, request>>

\* The rows after all events behind the position.
Projected ==
    LET table[n \in position .. Len(log)] ==
            IF n = position THEN rows ELSE Project(table[n - 1], log[n])
    IN  table[Len(log)]

TriggerPastEnd ==  \* mutant: the position is the one of the next event
    IF \A n \in position + 1 .. Len(log) : Reducible(n)
    THEN rows' = Projected /\ position' = Len(log) + 1
    ELSE UNCHANGED <<rows, position>>

\* A trigger handles all events.  Every event of a bulk is reduced to a
\* statement before the first statement is executed, so one that cannot be
\* reduced keeps its bulk back; the trigger only logs that.
Trigger ==
    IF \A n \in position + 1 .. Len(log) : Reducible(n)
    THEN rows' = Projected /\ position' = Len(log)
    ELSE UNCHANGED <<rows, position>>

(***************************************************************************)
(* Requests.                                                               *)
(***************************************************************************)
Idle == [step |-> "idle"]
InState(g, states) == UserGrant(g).state \in states

Asked(command, key, keys, ids, grants, at) ==
    [step |-> "asked", command |-> command, key |-> key, keys |-> keys,
     ids |-> ids, grants |-> grants, at |-> at]
Checked(command, events, at, unread) ==
    [step |-> "checked", command |-> command, events |-> events, at |-> at, unread |-> unread]

\* The command built its events and will push them.
Ready(c, command, events) ==
    /\ Len(log) + Len(events) <= InitialEvents + MaxEvents
    /\ request' = [request EXCEPT ![c] = Checked(command, events, 0, {})]
    /\ UNCHANGED <<log, claims, position, rows>>

Start(c) == request[c] = Idle

\* Bound: the requests on the project or the user, pushed or under way.
MayChangeProject ==
    Quantify(DOMAIN log, LAMBDA i : log[i].type \in ProjectTypes \ {"grantCascadeChanged"})
      + Quantify(Clients, LAMBDA c : \/ request[c].step = "asked"
                                    \/ /\ request[c].step = "checked"
                                       /\ request[c].events[1].type \in ProjectTypes)
        < InitialEvents - 1 + MaxProject

\* The generator returns an id nobody has, here the least.
Taken(g) ==
    \/ \E i \in DOMAIN log : log[i].id = g
    \/ \E d \in Clients : /\ request[d].step = "checked"
                          /\ \E e \in Range(request[d].events) : e.id = g
NextID(g) == ~Taken(g) /\ \A h \in GrantIDs : h < g => Taken(h)

AddUserGrant(c) ==
    /\ Start(c)
    /\ \E source \in Sources, keys \in RequestKeys, g \in GrantIDs :
           /\ UserGrantAllowed(source, keys)
           /\ NextID(g)
           /\ Ready(c, "AddUserGrant", <<Event("added", g, source, keys)>>)

ChangeUserGrant(c) ==
    /\ Start(c)
    /\ \E g \in GrantIDs, keys \in RequestKeys :
           /\ IsLive(UserGrant(g))
           /\ UserGrant(g).keys # keys
           /\ UserGrantAllowed(UserGrant(g).source, keys)
           /\ Ready(c, "ChangeUserGrant", <<UserGrantEvent("changed", g, keys)>>)

DeactivateUserGrant(c) ==
    /\ Start(c)
    /\ \E g \in GrantIDs :
           /\ InState(g, {"active"})
           /\ Ready(c, "DeactivateUserGrant", <<UserGrantEvent("deactivated", g, <<>>)>>)

ReactivateUserGrant(c) ==
    /\ Start(c)
    /\ \E g \in GrantIDs :
           /\ InState(g, {"inactive"})
           /\ Ready(c, "ReactivateUserGrant", <<UserGrantEvent("reactivated", g, <<>>)>>)

\* RemoveUserGrant removes one user grant and BulkRemoveUserGrant several,
\* all of them or none.
RemoveUserGrant(c) ==
    /\ Start(c)
    /\ \E ids \in SUBSET GrantIDs \ {{}} :
           /\ \A g \in ids : IsLive(UserGrant(g))
           /\ LET list == SetToSeq(ids) IN
              Ready(c, "RemoveUserGrant",
                    [i \in DOMAIN list |->
                        Event("removed", list[i], UserGrant(list[i]).source, <<>>)])

AddProjectRole(c) ==
    /\ Start(c)
    /\ MayChangeProject
    /\ ProjectExists
    /\ \E k \in Roles : Ready(c, "AddProjectRole", <<ProjectEvent("roleAdded", <<k>>)>>)

(***************************************************************************)
(* What the API asks the projections for before a command that cascades.   *)
(***************************************************************************)
RowsWith(table, P(_)) == {g \in GrantIDs : table[g] # NoRow /\ P(table[g])}

Ask(c, command, key, keys, ids, grants, at) ==
    /\ Start(c)
    /\ MayChangeProject
    /\ Len(log) < InitialEvents + MaxEvents
    /\ request' = [request EXCEPT ![c] = Asked(command, key, keys, ids, grants, at)]
    /\ UNCHANGED <<log, claims>>

\* The project grants are read from a projection of their own, as of some
\* earlier event.
AskRemoveProjectRole(c) ==
    \E k \in Roles, n \in InitialEvents .. Len(log) :
        /\ Ask(c, "RemoveProjectRole", k, <<>>,
               RowsWith(rows, LAMBDA r : k \in r.keys),
               k \in Range(ProjectGrantKeysOf(n)), position)
        /\ UNCHANGED <<position, rows>>

AskChangeProjectGrant(c) ==
    \E keys \in KeyLists :
        /\ Trigger
        /\ Ask(c, "ChangeProjectGrant", NoKey, keys,
               RowsWith(rows', LAMBDA r : r.source = "grant"), FALSE, position')

AskRemoveProjectGrant(c) ==
    /\ Ask(c, "RemoveProjectGrant", NoKey, <<>>,
           RowsWith(rows, LAMBDA r : r.source = "grant"), FALSE, position)
    /\ UNCHANGED <<position, rows>>

AskRemoveProject(c) ==
    /\ Trigger
    /\ Ask(c, "RemoveProject", NoKey, <<>>, RowsWith(rows', LAMBDA r : TRUE), FALSE, position')

AskRemoveUser(c) ==
    /\ Trigger
    /\ Ask(c, "RemoveUser", NoKey, <<>>, RowsWith(rows', LAMBDA r : TRUE), FALSE, position')

(***************************************************************************)
(* The commands that cascade.  A user grant that cannot be cascaded to is  *)
(* skipped, with a warning at most: because it is not live any more, or    *)
(* because reading its events failed.  What the cascade failed to read is  *)
(* kept in the request as a history.                                       *)
(***************************************************************************)
\* mutant: only active user grants are cascaded to
CascadeRemoveActive(ids) ==
    LET list == SetToSeq({g \in ids : InState(g, {"active"})}) IN
    [i \in DOMAIN list |->
        Event("cascadeRemoved", list[i], UserGrant(list[i]).source, <<>>)]

CascadeRemove(ids) ==
    LET list == SetToSeq({g \in ids : IsLive(UserGrant(g))}) IN
    [i \in DOMAIN list |->
        Event("cascadeRemoved", list[i], UserGrant(list[i]).source, <<>>)]

CascadeRoles(ids, gone) ==
    LET list == SetToSeq({g \in ids : /\ IsLive(UserGrant(g))
                                      /\ Range(UserGrant(g).keys) \cap gone # {}})
    IN  [i \in DOMAIN list |->
            UserGrantEvent("cascadeChanged", list[i],
                           WithoutKeys(UserGrant(list[i]).keys, gone))]

Resume(c, command) == request[c].step = "asked" /\ request[c].command = command

\* The user grants whose events a cascade may fail to read.
Unread(ids) == {unread \in SUBSET ids : Cardinality(unread) <= MaxUnread}

ReadyCascade(c, events, unread) ==
    /\ Len(log) + Len(events) <= InitialEvents + MaxEvents
    /\ request' = [request EXCEPT ![c] = Checked(@.command, events, @.at, unread)]
    /\ UNCHANGED <<log, claims, position, rows>>

\* The role is taken from the project grant only if that can be read.
RemoveProjectRole(c) ==
    LET k == request[c].key
        keys == ProjectGrantKeysOf(Len(log))
        cascadeGrant == /\ request[c].grants
                        /\ ProjectGrantExists
                        /\ k \in Range(keys)
    IN  /\ Resume(c, "RemoveProjectRole")
        /\ k \in ActiveRoles
        /\ \E unread \in Unread(request[c].ids), read \in BOOLEAN :
               ReadyCascade(c,
                   <<ProjectEvent("roleRemoved", <<k>>)>>
                   \o (IF cascadeGrant /\ read
                       THEN <<ProjectEvent("grantCascadeChanged", WithoutKeys(keys, {k}))>>
                       ELSE <<>>)
                   \o CascadeRoles(request[c].ids \ unread, {k}), unread)

ChangeProjectGrant(c) ==
    LET old == ProjectGrantKeysOf(Len(log))
        new == request[c].keys
        gone == Range(old) \ Range(new)
    IN  /\ Resume(c, "ChangeProjectGrant")
        /\ ProjectGrantExists
        /\ Range(new) \subseteq ExistingRoles
        /\ old # new
        /\ \E unread \in Unread(request[c].ids) :
               ReadyCascade(c, <<ProjectEvent("grantChanged", new)>>
                               \o CascadeRoles(request[c].ids \ unread, gone), unread)

\* A removal and the user grants it cascades to.
ReadyRemoval(c, type) ==
    \E unread \in Unread(request[c].ids) :
        ReadyCascade(c, <<ProjectEvent(type, <<>>)>> \o CascadeRemove(request[c].ids \ unread), unread)

RemoveProjectGrant(c) ==
    /\ Resume(c, "RemoveProjectGrant")
    /\ ProjectGrantExists
    /\ ReadyRemoval(c, "grantRemoved")

RemoveProject(c) ==
    /\ Resume(c, "RemoveProject")
    /\ ProjectExists
    /\ ReadyRemoval(c, "projectRemoved")

RemoveUser(c) ==
    /\ Resume(c, "RemoveUser")
    /\ ~Happened("userRemoved")
    /\ ReadyRemoval(c, "userRemoved")

(***************************************************************************)
(* The push: the unique constraints of the events, then the events.  A     *)
(* constraint that is already claimed makes the whole push fail; releasing *)
(* one does not ask who claimed it.                                        *)
(***************************************************************************)
ConstraintsAdded(events) ==
    {<<"user_grant", e.source>> : e \in {x \in Range(events) : x.type = "added"}}
        \cup {<<"project_role", e.keys[1]>> : e \in {x \in Range(events) : x.type = "roleAdded"}}

\* mutant: a deactivated user grant gives its constraint up
ConstraintsRemovedEarly(events) ==
    {<<"user_grant", e.source>> :
         e \in {x \in Range(events) : x.type \in {"deactivated", "removed", "cascadeRemoved"}}}
        \cup {<<"project_role", e.keys[1]>> :
                  e \in {x \in Range(events) : x.type = "roleRemoved"}}

ConstraintsRemoved(events) ==
    {<<"user_grant", e.source>> :
         e \in {x \in Range(events) : x.type \in {"removed", "cascadeRemoved"}}}
        \cup {<<"project_role", e.keys[1]>> :
                  e \in {x \in Range(events) : x.type = "roleRemoved"}}

Push(c) ==
    LET events == request[c].events IN
    /\ request[c].step = "checked"
    /\ Len(log) + Len(events) <= InitialEvents + MaxEvents
    /\ ConstraintsAdded(events) \cap claims = {}
    /\ log' = log \o events
    /\ claims' = (claims \cup ConstraintsAdded(events)) \ ConstraintsRemoved(events)
    /\ request' = [request EXCEPT ![c] = Idle]
    /\ UNCHANGED <<position, rows>>

\* The command returns an error: its check or its push failed.
Fail(c) ==
    /\ request[c] # Idle
    /\ request' = [request EXCEPT ![c] = Idle]
    /\ UNCHANGED <<log, claims, position, rows>>

Init ==
    /\ \E source \in Sources : log = InitialLog(source)
    /\ claims = ConstraintsAdded(log)
    /\ position = InitialEvents
    /\ rows = Project([g \in GrantIDs |-> NoRow], log[InitialEvents])
    /\ request = [c \in Clients |-> Idle]

Next ==
    \/ Process
    \/ \E c \in Clients :
           \/ AddUserGrant(c) \/ ChangeUserGrant(c)
           \/ DeactivateUserGrant(c) \/ ReactivateUserGrant(c)
           \/ RemoveUserGrant(c) \/ AddProjectRole(c)
           \/ AskRemoveProjectRole(c) \/ RemoveProjectRole(c)
           \/ AskChangeProjectGrant(c) \/ ChangeProjectGrant(c)
           \/ AskRemoveProjectGrant(c) \/ RemoveProjectGrant(c)
           \/ AskRemoveProject(c) \/ RemoveProject(c)
           \/ AskRemoveUser(c) \/ RemoveUser(c)
           \/ Push(c) \/ Fail(c)

Spec == Init /\ [][Next]_vars

-----------------------------------------------------------------------------
(***************************************************************************)
(* Properties                                                              *)
(***************************************************************************)
Events == [type : UserGrantTypes \cup ProjectTypes, id : GrantIDs \cup {NoID},
           source : Sources, keys : Seq(Roles)]
RoleTypes == {"roleAdded", "roleRemoved"}

CommandNames == {"AddUserGrant", "ChangeUserGrant", "DeactivateUserGrant",
                 "ReactivateUserGrant", "RemoveUserGrant", "AddProjectRole",
                 "RemoveProjectRole", "ChangeProjectGrant", "RemoveProjectGrant",
                 "RemoveProject", "RemoveUser"}
Questions == [step : {"asked"}, command : CommandNames, key : Roles \cup {NoKey},
              keys : Seq(Roles), ids : SUBSET GrantIDs, grants : BOOLEAN, at : Nat]
Pushes == [step : {"checked"}, command : CommandNames, events : Seq(Events), at : Nat,
           unread : SUBSET GrantIDs]

\* The projection of the user grants is never ahead of the events, rows and
\* requests have the shapes the API and the commands give them.
TypeOK ==
    /\ log \in Seq(Events)
    /\ \A e \in Range(log) : e.type \in RoleTypes => Len(e.keys) = 1
    /\ claims \subseteq {"user_grant"} \X Sources \cup {"project_role"} \X Roles
    /\ position \in 0 .. Len(log)
    /\ rows \in [GrantIDs -> [source : Sources, state : {"active", "inactive"},
                             keys : SUBSET Roles] \cup {NoRow}]
    /\ request \in [Clients -> {Idle} \cup Questions \cup Pushes]
    /\ \A c \in Clients :
           /\ Resume(c, "RemoveProjectRole") => request[c].key \in Roles
           /\ request[c].step = "checked" =>
                 \A e \in Range(request[c].events) : e.type \in RoleTypes => Len(e.keys) = 1

Removals == {"removed", "cascadeRemoved"}
RemovedTwice ==
    \E i, j \in DOMAIN log : /\ i < j
                             /\ log[i].type \in Removals /\ log[j].type \in Removals
                             /\ log[i].id = log[j].id

\* A user has one user grant from the same organization on the same project or
\* project grant, however the requests interleave (NewAddUserGrantUniqueConstraint).
\* The exception is a user grant removed by two requests that both found it
\* before: the second removal releases the constraint of its successor.
OneGrant ==
    RemovedTwice \/
    \A g, h \in GrantIDs :
        /\ g # h /\ IsLive(UserGrant(g)) /\ IsLive(UserGrant(h))
        => UserGrant(g).source # UserGrant(h).source

\* The projection grants nothing that the events up to its position do not: a
\* row belongs to a user grant that its write model knows in the same state,
\* and carries no role that the write model has not.
AccessIsGranted ==
    \A g \in GrantIDs :
        rows[g] # NoRow =>
            LET model == UserGrantOf(position, g) IN
            /\ IsLive(model)
            /\ rows[g].state = model.state
            /\ rows[g].keys \subseteq Range(model.keys)

\* A removed user grant stays removed, also when a request that found it
\* inactive or active pushes its event after the removal.
RemovedForGood ==
    [][\A g \in GrantIDs :
           UserGrant(g).state = "removed" => UserGrant(g)'.state = "removed"]_vars

AddedBy(n, g) ==
    \E i \in 1 .. n : log[i].type = "added" /\ log[i].id = g
Concerns(command, g) ==
    \/ command \in {"RemoveProject", "RemoveUser"}
    \/ command = "RemoveProjectGrant" /\ UserGrant(g).source = "grant"
\* The projection dropped the row of g with what g depended on.
Orphaned(g) ==
    \/ Happened("userRemoved") \/ Happened("projectRemoved")
    \/ Happened("grantRemoved") /\ UserGrant(g).source = "grant"

\* When the removal of a project, of a project grant or of a user is pushed, it
\* removes every user grant on it that the projection knew when the API asked
\* for the ids and whose events the command could read, also if the user grant
\* changed or was deactivated since.  What it may miss is a user grant that was
\* added after the question, and one that it failed to read: that is logged, and
\* the removal is pushed all the same.
CascadeReaches ==
    [][\A c \in Clients :
           Push(c) =>
               \A g \in GrantIDs :
                   /\ Concerns(request[c].command, g)
                   /\ AddedBy(request[c].at, g)
                   /\ g \notin request[c].unread
                   /\ ~Orphaned(g)
                   => ~IsLive(UserGrant(g)')]_vars
=============================================================================
