--------------------------- MODULE MCSubscription ---------------------------
(***************************************************************************)
(* Three projections, two of them for one type only, and one subscription  *)
(* by event types; two pushes whose events are more than the queues hold.  *)
(***************************************************************************)
EXTENDS Subscription

MCSubs == {"users", "orgs", "both", "types"}
MCTypes == [s \in MCSubs |-> CASE s = "users" -> {"user"} [] s = "orgs" -> {"org"}
                              [] OTHER -> {"user", "org"}]

MCPushes == {"p1", "p2"}
Kinds(p) == IF p = "p1" THEN <<"user", "org", "user">> ELSE <<"org", "user">>
MCBatch == [p \in MCPushes |-> [k \in DOMAIN Kinds(p) |-> [type |-> Kinds(p)[k], push |-> p, nr |-> k]]]
=============================================================================
