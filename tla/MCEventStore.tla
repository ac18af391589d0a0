---------------------------- MODULE MCEventStore ----------------------------
(***************************************************************************)
(* Small instances of EventStore: the system instance and one tenant, two  *)
(* aggregate types, and pushes chosen so that two clients meet on the same *)
(* stream, the same aggregate, the same name in two spellings, and a name  *)
(* that is global.                                                         *)
(***************************************************************************)
EXTENDS EventStore, TLC

LowerCase == [f \in Fields |-> "acme"]

Cmd(t, a, o) == [atype |-> t, aid |-> a, owner |-> o]
Con(action, f, g) == [action |-> action, field |-> f, global |-> g]
Tenant == "i1"

\* Bounds: how many values are drawn from system_seq and from the sequence of the tenant.
PushBound == [i \in Instances |-> IF i = System THEN 1 ELSE 4]
MixedBound == [i \in Instances |-> IF i = System THEN 0 ELSE 4]

\* Pushes about streams, aggregates and owners that also claim and release names.
PushBatches ==
    { [inst |-> Tenant, cmds |-> <<Cmd("user", "u1", "org1")>>,
       cons |-> <<Con("add", "acme", FALSE)>>],
      [inst |-> Tenant, cmds |-> <<Cmd("user", "u1", NoOwner), Cmd("user", "u2", "org2")>>,
       cons |-> <<Con("remove", "acme", FALSE), Con("add", "ACME", FALSE)>>],
      [inst |-> Tenant, cmds |-> <<Cmd("org", "o1", "org2"), Cmd("user", "u1", "org2")>>,
       cons |-> <<Con("instanceRemove", "acme", FALSE), Con("add", "ACME", TRUE)>>],
      [inst |-> Tenant, cmds |-> <<Cmd("user", NoID, "org1")>>, cons |-> <<>>],
      [inst |-> Tenant, cmds |-> <<Cmd("org", "o2", "org1")>>, cons |-> <<>>],
      [inst |-> System, cmds |-> <<Cmd("org", "o1", "org1")>>,
       cons |-> <<Con("add", "acme", TRUE)>>] }

\* Pushes with events only and pushes that claim, for the database that does not isolate them.
Claim(i, cons) == [inst |-> i, cmds |-> <<Cmd("org", "o1", "org1")>>, cons |-> cons]
MixedBatches ==
    { [inst |-> Tenant, cmds |-> <<Cmd("user", "u1", "org1"), Cmd("user", "u1", NoOwner)>>,
       cons |-> <<>>],
      [inst |-> Tenant, cmds |-> <<Cmd("user", "u2", "org1")>>, cons |-> <<>>],
      Claim(Tenant, <<Con("add", "acme", FALSE)>>),
      Claim(Tenant, <<Con("remove", "acme", FALSE), Con("add", "ACME", FALSE)>>),
      Claim(Tenant, <<Con("add", "acme", FALSE), Con("remove", "ACME", FALSE)>>) }

ClientSymmetry == Permutations(Clients)
=============================================================================
