------------------------- MODULE SubscriptionProofs -------------------------
(***************************************************************************)
(* Proofs about Subscription: what the mutex protects, that a subscription *)
(* whose channel is closed is out of the registry, and that the others get *)
(* all events of their aggregates in order.                                *)
(*                                                                         *)
(* A list of the registry may hold nil entries and Unsubscribe does not    *)
(* shorten it, so what has to be said of a list is that it names a         *)
(* subscription at most once: the entry that moves to the place of the     *)
(* removed one is then another subscription, or nil.  What a subscription  *)
(* has and what the running notify still has for it (Rest) are together    *)
(* what it is due.                                                         *)
(***************************************************************************)
EXTENDS Subscription, SequenceTheorems, WellFoundedInduction, TLAPS

Places == {"new", "receive", "process", "panicked", "unsubscribe", "ended"}

\* The part of the types that the registry depends on.
RegistryTyped ==
    /\ subscriptions \in [AggTypes -> Seq(Subs \cup {Nil})]
    /\ closed \in [Subs -> BOOLEAN]
    /\ receiver \in [Subs -> Places]
    /\ sender \in [Pushes -> {"start", "send", "done"}]

Named(s, list) == \E k \in 1..Len(list) : list[k] = s
Once(s, list) == \A j, k \in 1..Len(list) : list[j] = s /\ list[k] = s => j = k

\* A subscription is registered from Subscribe until Unsubscribe, once per aggregate type.
Inside == {"receive", "process", "panicked"}
Entries(s, t) ==
    /\ Once(s, subscriptions[t])
    /\ Named(s, subscriptions[t]) <=> t \in Registered(s) /\ receiver[s] \in Inside

ClosedEnded(s) == closed[s] => receiver[s] = "ended"

RegistryInv ==
    /\ RegistryTyped
    /\ \A s \in Subs, t \in AggTypes : Entries(s, t)
    /\ \A s \in Subs : ClosedEnded(s)

\* Who is inside notify or Unsubscribe holds the mutex.
MutexInv ==
    /\ RegistryTyped
    /\ \A p \in Pushes : sender[p] = "send" => mutex = p
    /\ \A s \in Subs : receiver[s] = "unsubscribe" => mutex = s

-----------------------------------------------------------------------------
(* Induction                                                               *)

\* Induction over the naturals, stated for a set.
LEMMA SetInduction ==
    ASSUME NEW S, 0 \in S, \A n \in Nat : n \in S => n + 1 \in S
    PROVE  Nat \subseteq S
<1> SUFFICES ASSUME Nat \ S # {} PROVE FALSE
  OBVIOUS
<1> DEFINE T == Nat \ S
<1>1. PICK x \in T : \A y \in T : ~(<<y, x>> \in OpToRel(<, Nat))
  <2>1. T \subseteq Nat /\ T # {}
    OBVIOUS
  <2> HIDE DEF T
  <2> QED  BY <2>1, NatLessThanWellFounded, WFMin
<1>2. x \in Nat /\ x # 0 /\ x - 1 \in Nat /\ (x - 1) + 1 = x /\ x - 1 < x
  OBVIOUS
<1>3. <<x - 1, x>> \in OpToRel(<, Nat)
  BY <1>2 DEF OpToRel
<1>4. x - 1 \in S
  BY <1>1, <1>2, <1>3
<1> QED  BY <1>2, <1>4

\* g[i] is b after the first i of the functions F on T.
Iterates(g, T, b, F, n) ==
    g \in [0 .. n -> T] /\ g[0] = b /\ \A i \in 1 .. n : g[i] = F[i][g[i - 1]]

LEMMA Iterated ==
    ASSUME NEW T, NEW b \in T, NEW F \in [Nat -> [T -> T]], NEW n \in Nat
    PROVE  \E g : Iterates(g, T, b, F, n)
<1> DEFINE Good(k, g) == g \in [0 .. k -> T] /\ g[0] = b /\ \A i \in 1 .. k : g[i] = F[i][g[i - 1]]
           S == {k \in Nat : \E g : Good(k, g)}
<1>1. 0 \in S
  <2>1. Good(0, [i \in 0 .. 0 |-> b])
    OBVIOUS
  <2> QED  BY <2>1
<1>2. ASSUME NEW k \in Nat, k \in S PROVE k + 1 \in S
  <2>1. PICK g : Good(k, g)
    BY <1>2
  <2> DEFINE h == [i \in 0 .. k + 1 |-> IF i = k + 1 THEN F[k + 1][g[k]] ELSE g[i]]
  <2>2. F[k + 1][g[k]] \in T
    BY <2>1
  <2>3. \A i \in 0 .. k + 1 : i = k + 1 \/ i \in 0 .. k
    OBVIOUS
  <2>4. h \in [0 .. k + 1 -> T]
    BY <2>1, <2>2, <2>3
  <2>5. \A i \in 0 .. k : h[i] = g[i]
    OBVIOUS
  <2>6. h[k + 1] = F[k + 1][g[k]]
    OBVIOUS
  <2> HIDE DEF h
  <2>7. h[0] = b
    BY <2>1, <2>5
  <2>8. ASSUME NEW i \in 1 .. k + 1 PROVE h[i] = F[i][h[i - 1]]
    <3>1. CASE i = k + 1
      BY <2>5, <2>6, <3>1
    <3>2. CASE i \in 1 .. k
      <4>1. i - 1 \in 0 .. k /\ i \in 0 .. k
        BY <3>2
      <4> QED  BY <2>1, <2>5, <3>2, <4>1
    <3> QED  BY <3>1, <3>2
  <2>9. Good(k + 1, h)
    BY <2>4, <2>7, <2>8
  <2> QED  BY <2>9
<1>3. n \in S
  <2> HIDE DEF S
  <2> QED  BY <1>1, <1>2, SetInduction
<1> QED  BY <1>3 DEF Iterates

-----------------------------------------------------------------------------
(* Lists                                                                   *)

Lists == Seq(Subs \cup {Nil})

LEMMA NamedInSet == ASSUME NEW list \in Lists, NEW s PROVE s \in ToSet(list) <=> Named(s, list)
<1>1. DOMAIN list = 1..Len(list)
  BY DEF Lists
<1> QED  BY <1>1 DEF ToSet, Named

LEMMA Appended ==
    ASSUME NEW list \in Lists, NEW s \in Subs
    PROVE  /\ Append(list, s) \in Lists
           /\ \A z : z # s => /\ Named(z, Append(list, s)) => Named(z, list)
                              /\ Named(z, list) => Named(z, Append(list, s))
                              /\ Once(z, list) => Once(z, Append(list, s))
           /\ Named(s, Append(list, s)) /\ (~Named(s, list) => Once(s, Append(list, s)))
<1> DEFINE new == Append(list, s)
<1>1. /\ new \in Lists /\ Len(list) \in Nat /\ Len(new) = Len(list) + 1
      /\ new[Len(list) + 1] = s
      /\ \A k \in 1..Len(list) : new[k] = list[k]
  BY DEF Lists
<1> HIDE DEF new
<1>2. \A k \in 1..Len(new) : k \in 1..Len(list) \/ k = Len(list) + 1
  BY <1>1
<1>3. ASSUME NEW z, z # s, NEW k \in 1..Len(new), new[k] = z
      PROVE  k \in 1..Len(list) /\ list[k] = z
  BY <1>1, <1>2, <1>3
<1>4. ASSUME NEW z, z # s PROVE Named(z, new) => Named(z, list)
  BY <1>3, <1>4 DEF Named
<1>5. ASSUME NEW z, z # s, Once(z, list) PROVE Once(z, new)
  BY <1>3, <1>5 DEF Once
<1>6. ASSUME ~Named(s, list) PROVE Once(s, new)
  <2>1. \A k \in 1..Len(new) : new[k] = s => k = Len(list) + 1
    BY <1>1, <1>2, <1>6 DEF Named
  <2> QED  BY <2>1 DEF Once
<1>7. \A z : Named(z, list) => Named(z, new)
  BY <1>1 DEF Named
<1>8. Named(s, new)
  <2>1. Len(list) + 1 \in 1..Len(new)
    BY <1>1
  <2> QED  BY <1>1, <2>1 DEF Named
<1> QED  BY <1>1, <1>4, <1>5, <1>6, <1>7, <1>8 DEF new

\* The last entry moves to the place of s: s is gone, and nobody else is named twice.
LEMMA Removed ==
    ASSUME NEW list \in Lists, NEW s \in Subs, Once(s, list)
    PROVE  /\ Without(list, s) \in Lists
           /\ ~Named(s, Without(list, s))
           /\ \A z \in Subs : Once(z, list) =>
                 /\ Once(z, Without(list, s))
                 /\ Named(z, Without(list, s)) => Named(z, list)
                 /\ Named(z, list) /\ z # s => Named(z, Without(list, s))
<1>1. CASE ~Named(s, list)
  <2>1. Without(list, s) = list
    BY <1>1, NamedInSet DEF Without
  <2> QED  BY <1>1, <2>1
<1>2. CASE Named(s, list)
  <2> DEFINE last == Len(list)
             new == [k \in 1..last |-> IF k = last THEN Nil ELSE IF list[k] = s THEN list[last] ELSE list[k]]
  <2>1. Without(list, s) = new
    BY <1>2, NamedInSet DEF Without
  <2>2. last \in Nat /\ \A k \in 1..last : list[k] \in Subs \cup {Nil}
    BY DEF Lists
  <2>3. new \in Lists /\ Len(new) = last
    BY <2>2 DEF Lists
  <2>4. \A k \in 1..last : new[k] = IF k = last THEN Nil ELSE IF list[k] = s THEN list[last] ELSE list[k]
    OBVIOUS
  <2> HIDE DEF new
  <2>5. Nil \notin Subs
    BY SubscriptionAssumption
  <2>6. ~Named(s, new)
    <3> SUFFICES ASSUME NEW k \in 1..last, new[k] = s PROVE FALSE
      BY <2>3 DEF Named
    <3>1. k # last /\ list[k] = s /\ list[last] = s
      BY <2>4, <2>5
    <3> QED  BY <2>2, <3>1 DEF Once
  <2>7. ASSUME NEW z \in Subs, Once(z, list) PROVE Once(z, new) /\ (Named(z, new) => Named(z, list))
    \* Where the new list names z, the old one does, at that place or at the last one.
    <3>1. ASSUME NEW k \in 1..last, new[k] = z
          PROVE  k # last /\ (list[k] = z \/ (list[k] = s /\ list[last] = z))
      BY <2>4, <2>5, <3>1
    <3>2. Named(z, new) => Named(z, list)
      BY <2>2, <2>3, <3>1 DEF Named
    <3>3. ASSUME NEW j \in 1..last, NEW k \in 1..last, new[j] = z, new[k] = z PROVE j = k
      <4>1. last \in 1..last
        BY <2>2
      <4>2. CASE list[j] = z /\ list[k] = z
        BY <2>7, <4>2 DEF Once
      <4>3. CASE list[last] = z
        BY <2>7, <3>1, <3>3, <4>1, <4>3 DEF Once
      <4> QED  BY <3>1, <3>3, <4>2, <4>3
    <3> QED  BY <2>3, <3>2, <3>3 DEF Once
  <2>8. ASSUME NEW z \in Subs, Named(z, list), z # s PROVE Named(z, new)
    <3>1. PICK k \in 1..last : list[k] = z
      BY <2>8 DEF Named
    <3>2. PICK i \in 1..last : list[i] = s
      BY <1>2 DEF Named
    <3>3. CASE k # last
      BY <2>3, <2>4, <2>8, <3>1, <3>3 DEF Named
    <3>4. CASE k = last
      <4>1. i # last
        BY <2>8, <3>1, <3>2, <3>4
      <4> QED  BY <2>3, <2>4, <3>1, <3>2, <3>4, <4>1 DEF Named
    <3> QED  BY <3>3, <3>4
  <2> QED  BY <2>1, <2>3, <2>6, <2>7, <2>8
<1> QED  BY <1>1, <1>2

-----------------------------------------------------------------------------
(* The registry                                                            *)

\* A step that moves receivers within their life in the registry.
LEMMA RegistryKept ==
    ASSUME RegistryInv, UNCHANGED subscriptions, RegistryTyped', NEW s \in Subs,
           \A z \in Subs \ {s} : receiver'[z] = receiver[z] /\ closed'[z] = closed[z],
           receiver'[s] \in Inside <=> receiver[s] \in Inside,
           closed'[s] => receiver'[s] = "ended"
    PROVE  RegistryInv'
<1>1. ASSUME NEW z \in Subs, NEW t \in AggTypes PROVE Entries(z, t)'
  <2>1. subscriptions'[t] = subscriptions[t] /\ Entries(z, t)
    BY <1>1 DEF RegistryInv
  <2>2. CASE z = s
    BY <2>1, <2>2 DEF Entries
  <2>3. CASE z # s
    BY <2>1, <2>3 DEF Entries
  <2> QED  BY <2>2, <2>3
<1>2. ASSUME NEW z \in Subs PROVE ClosedEnded(z)'
  <2>1. CASE z = s
    BY <2>1 DEF ClosedEnded
  <2>2. CASE z # s
    BY <2>2 DEF RegistryInv, ClosedEnded
  <2> QED  BY <2>1, <2>2
<1> QED  BY <1>1, <1>2 DEF RegistryInv

LEMMA RegistryUntouched ==
    ASSUME RegistryInv, UNCHANGED <<subscriptions, receiver, closed>>, RegistryTyped' PROVE RegistryInv'
BY DEF RegistryInv, Entries, ClosedEnded

\* The steps outside of Subscribe and Unsubscribe, which only move goroutines.
LEMMA TypedStep ==
    ASSUME RegistryTyped, UNCHANGED subscriptions,
           UNCHANGED closed \/ \E s \in Subs : closed' = [closed EXCEPT ![s] = TRUE],
           UNCHANGED receiver \/ \E s \in Subs, place \in Places : receiver' = [receiver EXCEPT ![s] = place],
           UNCHANGED sender \/ \E p \in Pushes, place \in {"send", "done"} : sender' = [sender EXCEPT ![p] = place]
    PROVE  RegistryTyped'
<1>1. closed' \in [Subs -> BOOLEAN]
  BY DEF RegistryTyped
<1>2. receiver' \in [Subs -> Places]
  BY DEF RegistryTyped
<1>3. sender' \in [Pushes -> {"start", "send", "done"}]
  BY DEF RegistryTyped
<1> QED  BY <1>1, <1>2, <1>3 DEF RegistryTyped

LEMMA SubscribeStep == ASSUME RegistryInv, NEW s \in Subs, Subscribe(s) PROVE RegistryInv'
<1>1. /\ receiver[s] = "new" /\ receiver' = [receiver EXCEPT ![s] = "receive"]
      /\ subscriptions' = [t \in AggTypes |->
                           IF t \in Registered(s) THEN Append(subscriptions[t], s) ELSE subscriptions[t]]
      /\ UNCHANGED <<closed, sender>>
  BY DEF Subscribe
<1>2. \A t \in AggTypes : subscriptions[t] \in Lists
  BY DEF RegistryInv, RegistryTyped, Lists
<1>3. \A t \in AggTypes :
         subscriptions'[t] = IF t \in Registered(s) THEN Append(subscriptions[t], s) ELSE subscriptions[t]
  BY <1>1
<1>4. subscriptions' \in [AggTypes -> Lists]
  <2>1. \A t \in AggTypes : Append(subscriptions[t], s) \in Lists
    BY <1>2, Appended
  <2> QED  BY <1>1, <1>2, <2>1
<1>5. receiver' \in [Subs -> Places]
  BY <1>1 DEF RegistryInv, RegistryTyped, Places
<1>6. RegistryTyped'
  BY <1>1, <1>4, <1>5 DEF RegistryInv, RegistryTyped, Lists
<1>7. receiver'[s] = "receive" /\ \A z \in Subs \ {s} : receiver'[z] = receiver[z]
  BY <1>1 DEF RegistryInv, RegistryTyped
<1>8. ASSUME NEW z \in Subs, NEW t \in AggTypes PROVE Entries(z, t)'
  <2>1. Entries(z, t) /\ Entries(s, t)
    BY <1>8 DEF RegistryInv
  <2>2. CASE t \notin Registered(s)
    <3>1. subscriptions'[t] = subscriptions[t]
      BY <1>3, <2>2
    <3>2. CASE z = s
      <4>1. ~Named(s, subscriptions[t])
        BY <1>1, <2>1 DEF Entries, Inside
      <4> QED  BY <1>1, <2>1, <2>2, <3>1, <3>2, <4>1 DEF Entries
    <3>3. CASE z # s
      BY <1>7, <2>1, <3>1, <3>3 DEF Entries
    <3> QED  BY <3>2, <3>3
  <2>3. CASE t \in Registered(s)
    <3>1. subscriptions'[t] = Append(subscriptions[t], s)
      BY <1>3, <2>3
    <3>2. ~Named(s, subscriptions[t])
      BY <1>1, <2>1 DEF Entries, Inside
    <3>3. CASE z = s
      <4>1. Once(s, subscriptions'[t]) /\ Named(s, subscriptions'[t])
        BY <1>2, <3>1, <3>2, Appended
      <4> QED  BY <1>7, <2>3, <3>3, <4>1 DEF Entries, Inside
    <3>4. CASE z # s
      <4>1. Once(z, subscriptions'[t]) /\ (Named(z, subscriptions'[t]) <=> Named(z, subscriptions[t]))
        BY <1>2, <2>1, <3>1, <3>4, Appended DEF Entries
      <4> QED  BY <1>7, <2>1, <3>4, <4>1 DEF Entries
    <3> QED  BY <3>3, <3>4
  <2> QED  BY <2>2, <2>3
<1>9. \A z \in Subs : ClosedEnded(z)'
  BY <1>1, <1>7 DEF RegistryInv, ClosedEnded
<1> QED  BY <1>6, <1>8, <1>9 DEF RegistryInv

LEMMA UnsubscribeStep == ASSUME RegistryInv, NEW s \in Subs, Unsubscribe(s) PROVE RegistryInv'
<1>1. /\ receiver[s] = "panicked" /\ receiver' = [receiver EXCEPT ![s] = "unsubscribe"]
      /\ subscriptions' = [t \in AggTypes |->
                           IF t \in Types[s] THEN Without(subscriptions[t], s) ELSE subscriptions[t]]
      /\ UNCHANGED <<closed, sender>>
  BY DEF Unsubscribe
<1>2. \A t \in AggTypes : subscriptions[t] \in Lists /\ Once(s, subscriptions[t])
  BY DEF RegistryInv, RegistryTyped, Lists, Entries
<1>3. \A t \in AggTypes :
         subscriptions'[t] = IF t \in Types[s] THEN Without(subscriptions[t], s) ELSE subscriptions[t]
  BY <1>1
<1>4. subscriptions' \in [AggTypes -> Lists]
  <2>1. \A t \in AggTypes : Without(subscriptions[t], s) \in Lists
    BY <1>2, Removed
  <2> QED  BY <1>1, <1>2, <2>1
<1>5. receiver' \in [Subs -> Places]
  BY <1>1 DEF RegistryInv, RegistryTyped, Places
<1>6. RegistryTyped'
  BY <1>1, <1>4, <1>5 DEF RegistryInv, RegistryTyped, Lists
<1>7. receiver'[s] = "unsubscribe" /\ \A z \in Subs \ {s} : receiver'[z] = receiver[z]
  BY <1>1 DEF RegistryInv, RegistryTyped
<1>8. ASSUME NEW z \in Subs, NEW t \in AggTypes PROVE Entries(z, t)'
  <2>1. Entries(z, t) /\ Entries(s, t)
    BY <1>8 DEF RegistryInv
  <2>2. /\ ~Named(s, subscriptions'[t]) /\ Once(z, subscriptions'[t])
        /\ z # s => (Named(z, subscriptions'[t]) <=> Named(z, subscriptions[t]))
    <3>1. CASE t \notin Types[s]
      BY <1>3, <2>1, <3>1 DEF Entries, Registered
    <3>2. CASE t \in Types[s]
      BY <1>2, <1>3, <2>1, <3>2, Removed DEF Entries
    <3> QED  BY <3>1, <3>2
  <2>3. CASE z = s
    BY <1>7, <2>2, <2>3 DEF Entries, Inside
  <2>4. CASE z # s
    BY <1>7, <2>1, <2>2, <2>4 DEF Entries
  <2> QED  BY <2>3, <2>4
<1>9. \A z \in Subs : ClosedEnded(z)'
  BY <1>1, <1>7 DEF RegistryInv, ClosedEnded
<1> QED  BY <1>6, <1>8, <1>9 DEF RegistryInv

LEMMA RegistryStep == RegistryInv /\ [Next]_vars => RegistryInv'
<1> SUFFICES ASSUME RegistryInv, [Next]_vars PROVE RegistryInv'
  OBVIOUS
<1>1. RegistryTyped
  BY DEF RegistryInv
<1>2. ASSUME NEW p \in Pushes, Notify(p) \/ Send(p) \/ NextEvent(p) \/ NotifyEnd(p) PROVE RegistryInv'
  <2>1. /\ UNCHANGED <<subscriptions, receiver, closed>>
        /\ UNCHANGED sender \/ \E place \in {"send", "done"} : sender' = [sender EXCEPT ![p] = place]
    BY <1>2 DEF Notify, Send, NextEvent, NotifyEnd
  <2>2. RegistryTyped'
    BY <1>1, <2>1, TypedStep
  <2> QED  BY <2>1, <2>2, RegistryUntouched
<1>3. ASSUME NEW s \in Subs, Receive(s) \/ Process(s) \/ Panic(s) PROVE RegistryInv'
  <2>1. PICK place \in {"receive", "process", "panicked"} :
           receiver[s] \in {"receive", "process"} /\ receiver' = [receiver EXCEPT ![s] = place]
    BY <1>3 DEF Receive, Process, Panic
  <2>2. UNCHANGED <<subscriptions, sender, closed>>
    BY <1>3 DEF Receive, Process, Panic
  <2>3. RegistryTyped'
    BY <1>1, <2>1, <2>2, TypedStep DEF Places
  <2>4. receiver'[s] = place /\ \A z \in Subs \ {s} : receiver'[z] = receiver[z]
    BY <1>1, <2>1 DEF RegistryTyped
  <2>5. ~closed[s]
    BY <2>1 DEF RegistryInv, ClosedEnded
  <2> QED  BY <2>1, <2>2, <2>3, <2>4, <2>5, RegistryKept DEF Inside
<1>4. ASSUME NEW s \in Subs, Close(s) PROVE RegistryInv'
  <2>1. /\ receiver[s] = "unsubscribe" /\ receiver' = [receiver EXCEPT ![s] = "ended"]
        /\ closed' = [closed EXCEPT ![s] = TRUE] /\ UNCHANGED <<subscriptions, sender>>
    BY <1>4 DEF Close
  <2>2. RegistryTyped'
    BY <1>1, <2>1, TypedStep DEF Places
  <2>3. /\ receiver'[s] = "ended"
        /\ \A z \in Subs \ {s} : receiver'[z] = receiver[z] /\ closed'[z] = closed[z]
    BY <1>1, <2>1 DEF RegistryTyped
  <2> QED  BY <2>1, <2>2, <2>3, RegistryKept DEF Inside
<1>5. CASE UNCHANGED vars
  BY <1>1, <1>5, TypedStep, RegistryUntouched DEF vars
<1> QED  BY <1>2, <1>3, <1>4, <1>5, SubscribeStep, UnsubscribeStep DEF Next

LEMMA RegistryInit == Init => RegistryInv
<1> SUFFICES ASSUME Init PROVE RegistryInv
  OBVIOUS
<1>1. RegistryTyped
  BY DEF Init, RegistryTyped, Places
<1>2. ASSUME NEW s \in Subs, NEW t \in AggTypes PROVE Entries(s, t)
  <2>1. subscriptions[t] = <<>>
    BY <1>2 DEF Init
  <2>2. \A k \in 1..Len(subscriptions[t]) : FALSE
    BY <2>1
  <2>3. receiver[s] = "new"
    BY <1>2 DEF Init
  <2> QED  BY <2>2, <2>3 DEF Entries, Once, Named, Inside
<1>3. \A s \in Subs : ClosedEnded(s)
  BY DEF Init, ClosedEnded
<1> QED  BY <1>1, <1>2, <1>3 DEF RegistryInv

LEMMA ClosedAreOut == RegistryInv => NeverToClosed
<1> SUFFICES ASSUME RegistryInv, NEW s \in Subs, closed[s], NEW t \in AggTypes
             PROVE  s \notin ToSet(subscriptions[t])
  BY DEF NeverToClosed
<1>1. subscriptions[t] \in Lists
  BY DEF RegistryInv, RegistryTyped, Lists
<1>2. ~Named(s, subscriptions[t])
  BY DEF RegistryInv, ClosedEnded, Entries, Inside
<1> QED  BY <1>1, <1>2, NamedInSet

(***************************************************************************)
(* A subscription whose channel Unsubscribe has closed is in no list of    *)
(* the registry, for any number of subscriptions, aggregate types, pushes  *)
(* and panics, although the lists are not shortened and entries move.      *)
(***************************************************************************)
THEOREM ClosedLeaveRegistry == Spec => []NeverToClosed
BY RegistryInit, RegistryStep, ClosedAreOut, PTL DEF Spec

-----------------------------------------------------------------------------
(* The mutex                                                               *)

LEMMA MutexInit == Init => MutexInv
BY RegistryInit DEF Init, MutexInv, RegistryInv

LEMMA MutexStep == RegistryInv /\ RegistryInv' /\ MutexInv /\ [Next]_vars => MutexInv'
<1> SUFFICES ASSUME RegistryInv, RegistryInv', MutexInv, [Next]_vars PROVE MutexInv'
  OBVIOUS
<1>1. RegistryTyped /\ RegistryTyped'
  BY DEF RegistryInv
<1>2. Free \notin Subs \cup Pushes /\ Subs \cap Pushes = {}
  BY SubscriptionAssumption
<1>3. ASSUME NEW p \in Pushes, Notify(p) PROVE MutexInv'
  <2>1. mutex = Free /\ mutex' = p /\ sender' = [sender EXCEPT ![p] = "send"] /\ UNCHANGED receiver
    BY <1>3 DEF Notify
  <2>2. \A q \in Pushes \ {p} : sender'[q] = sender[q]
    BY <1>1, <2>1 DEF RegistryTyped
  <2> QED  BY <1>1, <1>2, <2>1, <2>2 DEF MutexInv
<1>4. ASSUME NEW p \in Pushes, Send(p) \/ NextEvent(p) PROVE MutexInv'
  BY <1>1, <1>4 DEF MutexInv, Send, NextEvent
<1>5. ASSUME NEW p \in Pushes, NotifyEnd(p) PROVE MutexInv'
  <2>1. mutex = p /\ mutex' = Free /\ sender' = [sender EXCEPT ![p] = "done"] /\ UNCHANGED receiver
    BY <1>5 DEF NotifyEnd, MutexInv
  <2>2. sender'[p] = "done" /\ \A q \in Pushes \ {p} : sender'[q] = sender[q]
    BY <1>1, <2>1 DEF RegistryTyped
  <2> QED  BY <1>1, <1>2, <2>1, <2>2 DEF MutexInv
<1>6. ASSUME NEW s \in Subs, Subscribe(s) \/ Receive(s) \/ Process(s) \/ Panic(s) PROVE MutexInv'
  <2>1. PICK place \in {"receive", "process", "panicked"} : receiver' = [receiver EXCEPT ![s] = place]
    BY <1>6 DEF Subscribe, Receive, Process, Panic
  <2>2. UNCHANGED <<mutex, sender>>
    BY <1>6 DEF Subscribe, Receive, Process, Panic
  <2>3. receiver'[s] = place /\ \A z \in Subs \ {s} : receiver'[z] = receiver[z]
    BY <1>1, <2>1 DEF RegistryTyped
  <2> QED  BY <1>1, <2>2, <2>3 DEF MutexInv
<1>7. ASSUME NEW s \in Subs, Unsubscribe(s) PROVE MutexInv'
  <2>1. mutex = Free /\ mutex' = s /\ receiver' = [receiver EXCEPT ![s] = "unsubscribe"] /\ UNCHANGED sender
    BY <1>7 DEF Unsubscribe
  <2>2. \A z \in Subs \ {s} : receiver'[z] = receiver[z]
    BY <1>1, <2>1 DEF RegistryTyped
  <2> QED  BY <1>1, <1>2, <2>1, <2>2 DEF MutexInv
<1>8. ASSUME NEW s \in Subs, Close(s) PROVE MutexInv'
  <2>1. mutex = s /\ mutex' = Free /\ receiver' = [receiver EXCEPT ![s] = "ended"] /\ UNCHANGED sender
    BY <1>8 DEF Close, MutexInv
  <2>2. receiver'[s] = "ended" /\ \A z \in Subs \ {s} : receiver'[z] = receiver[z]
    BY <1>1, <2>1 DEF RegistryTyped
  <2> QED  BY <1>1, <1>2, <2>1, <2>2 DEF MutexInv
<1>9. CASE UNCHANGED vars
  BY <1>1, <1>9 DEF vars, MutexInv
<1> QED  BY <1>3, <1>4, <1>5, <1>6, <1>7, <1>8, <1>9 DEF Next

LEMMA QuietStep ==
    MutexInv /\ [Next]_vars =>
        [(\E p \in Pushes : sender[p] = "send") => UNCHANGED <<subscriptions, closed>>]_vars
<1> SUFFICES ASSUME MutexInv, [Next]_vars, NEW p \in Pushes, sender[p] = "send"
             PROVE  UNCHANGED <<subscriptions, closed>>
  OBVIOUS
<1>1. mutex = p /\ mutex \notin Subs /\ mutex # Free
  BY SubscriptionAssumption DEF MutexInv
<1>2. ASSUME NEW s \in Subs PROVE ~Subscribe(s) /\ ~Unsubscribe(s)
  BY <1>1 DEF Subscribe, Unsubscribe
<1>3. ASSUME NEW s \in Subs PROVE ~Close(s)
  BY <1>1 DEF Close, MutexInv
<1>4. ASSUME NEW s \in Subs, Receive(s) \/ Process(s) \/ Panic(s) PROVE UNCHANGED <<subscriptions, closed>>
  BY <1>4 DEF Receive, Process, Panic
<1>5. ASSUME NEW q \in Pushes, Notify(q) \/ Send(q) \/ NextEvent(q) \/ NotifyEnd(q) PROVE UNCHANGED <<subscriptions, closed>>
  BY <1>5 DEF Notify, Send, NextEvent, NotifyEnd
<1>6. CASE UNCHANGED vars
  BY <1>6 DEF vars
<1> QED  BY <1>2, <1>3, <1>4, <1>5, <1>6 DEF Next

(***************************************************************************)
(* While a notify sends, and waits for room in the queues, no subscription *)
(* is added, removed or closed: what it found in the registry stays true.  *)
(***************************************************************************)
THEOREM NotifySeesOneRegistry == Spec => QuietWhileSending
BY RegistryInit, RegistryStep, MutexInit, MutexStep, QuietStep, PTL DEF Spec, QuietWhileSending

-----------------------------------------------------------------------------
(* What a push has for a subscription                                      *)

\* The loop over the events of a push, from its end.
LEMMA DueFacts ==
    ASSUME NEW s \in Subs, NEW p \in Pushes
    PROVE  /\ DueFrom(s, p, Len(Batch[p]) + 1) = <<>>
           /\ \A k \in 1 .. Len(Batch[p]) + 1 : DueFrom(s, p, k) \in Seq(Events)
           /\ \A k \in 1 .. Len(Batch[p]) :
                DueFrom(s, p, k) = IF Batch[p][k].type \in Types[s]
                                   THEN <<Batch[p][k]>> \o DueFrom(s, p, k + 1) ELSE DueFrom(s, p, k + 1)
<1> DEFINE T == Seq(Events)
           n == Len(Batch[p])
           One(x, i) == IF Batch[p][n + 1 - i].type \in Types[s] THEN <<Batch[p][n + 1 - i]>> \o x ELSE x
           F == [i \in Nat |-> [x \in T |-> IF i \in 1 .. n THEN One(x, i) ELSE x]]
           Fun(f) == [i \in 0 .. n |->
                         IF i = 0 THEN <<>>
                         ELSE IF Batch[p][n + 1 - i].type \in Types[s] THEN <<Batch[p][n + 1 - i]>> \o f[i - 1]
                         ELSE f[i - 1]]
           M == CHOOSE f : f = Fun(f)
<1>1. n \in Nat /\ \A i \in 1 .. n : Batch[p][i] \in Events /\ Batch[p][n + 1 - i] \in Events
  <2>1. Batch[p] \in Seq(Events)
    BY SubscriptionAssumption
  <2>2. n \in Nat /\ \A i \in 1 .. n : Batch[p][i] \in Events
    BY <2>1
  <2>3. \A i \in 1 .. n : n + 1 - i \in 1 .. n
    BY <2>2
  <2> QED  BY <2>2, <2>3
<1>2. <<>> \in T
  OBVIOUS
<1>3. ASSUME NEW x \in T, NEW i \in 1 .. n PROVE One(x, i) \in T
  <2>1. PICK e \in Events : e = Batch[p][n + 1 - i]
    BY <1>1
  <2>2. <<e>> \in Seq(Events) /\ <<e>> \o x \in Seq(Events)
    OBVIOUS
  <2> QED  BY <2>1, <2>2
<1>4. F \in [Nat -> [T -> T]]
  <2> HIDE DEF T, One
  <2> QED  BY <1>1, <1>3
<1>5. PICK g : Iterates(g, T, <<>>, F, n)
  <2> HIDE DEF T, F, n
  <2> QED  BY <1>1, <1>2, <1>4, Iterated
<1>6. ASSUME NEW i \in 1 .. n PROVE g[i] = One(g[i - 1], i) /\ g[i - 1] \in T
  <2>1. i \in Nat /\ i - 1 \in 0 .. n
    BY <1>1
  <2>2. g[i] = F[i][g[i - 1]] /\ g[i - 1] \in T
    <3> HIDE DEF T, F
    <3> QED  BY <1>5, <2>1 DEF Iterates
  <2>3. F[i][g[i - 1]] = One(g[i - 1], i)
    <3> HIDE DEF T, One
    <3> QED  BY <2>1, <2>2
  <2> QED  BY <2>2, <2>3
<1>7. M = Fun(M)
  <2>1. g \in [0 .. n -> T] /\ g[0] = <<>>
    <3> HIDE DEF T, F
    <3> QED  BY <1>5 DEF Iterates
  <2>2. \A i \in 0 .. n : i = 0 \/ i \in 1 .. n
    BY <1>1
  <2>3. \A i \in 0 .. n : g[i] = Fun(g)[i]
    BY <1>6, <2>1, <2>2
  <2>4. g = Fun(g)
    BY <2>1, <2>3
  <2> HIDE DEF Fun
  <2> QED  BY <2>4
<1>8. \A k : DueFrom(s, p, k) = M[n + 1 - k]
  BY DEF DueFrom
<1> HIDE DEF M
<1>9. M[0] = <<>>
  BY <1>1, <1>7
<1>10. ASSUME NEW i \in 1 .. n PROVE M[i] = One(M[i - 1], i)
  <2>1. i \in 0 .. n /\ i # 0
    BY <1>1
  <2>2. M[i] = Fun(M)[i]
    BY <1>7
  <2> HIDE DEF n
  <2> QED  BY <2>1, <2>2
<1> DEFINE S == {i \in Nat : i <= n => M[i] \in T}
<1>11. Nat \subseteq S
  <2>1. 0 \in S
    BY <1>2, <1>9
  <2>2. ASSUME NEW i \in Nat, i \in S PROVE i + 1 \in S
    <3> SUFFICES ASSUME i + 1 <= n PROVE M[i + 1] \in T
      OBVIOUS
    <3>1. i + 1 \in 1 .. n /\ (i + 1) - 1 = i /\ i <= n
      BY <1>1
    <3>2. M[i] \in T
      BY <2>2, <3>1
    <3>3. M[i + 1] = One(M[i], i + 1)
      BY <1>10, <3>1
    <3> HIDE DEF T, One, n
    <3> QED  BY <1>3, <3>1, <3>2, <3>3
  <2> HIDE DEF S
  <2> QED  BY <2>1, <2>2, SetInduction
<1>12. DueFrom(s, p, n + 1) = <<>>
  <2>1. n + 1 - (n + 1) = 0
    BY <1>1
  <2> QED  BY <1>8, <1>9, <2>1
<1>13. ASSUME NEW k \in 1 .. n + 1 PROVE DueFrom(s, p, k) \in T
  <2>1. n + 1 - k \in Nat /\ n + 1 - k <= n
    BY <1>1
  <2> HIDE DEF T
  <2> QED  BY <1>8, <1>11, <2>1
<1>14. ASSUME NEW k \in 1 .. n
       PROVE  DueFrom(s, p, k) = IF Batch[p][k].type \in Types[s]
                                 THEN <<Batch[p][k]>> \o DueFrom(s, p, k + 1) ELSE DueFrom(s, p, k + 1)
  <2>1. n + 1 - k \in 1 .. n /\ n + 1 - (n + 1 - k) = k /\ (n + 1 - k) - 1 = n + 1 - (k + 1)
    <3>1. n \in Int /\ k \in Int /\ 1 <= k /\ k <= n
      BY <1>1
    <3> HIDE DEF n
    <3> QED  BY <3>1
  <2>2. M[n + 1 - k] = One(M[(n + 1 - k) - 1], n + 1 - k)
    BY <1>10, <2>1
  <2>3. DueFrom(s, p, k) = M[n + 1 - k] /\ DueFrom(s, p, k + 1) = M[n + 1 - (k + 1)]
    BY <1>8
  <2> QED  BY <2>1, <2>2, <2>3
<1> QED  BY <1>12, <1>13, <1>14

\* What notify still has for s when it is at entry j of the list of event e.
After(s, p, e, j, list) ==
    IF \E k \in j .. Len(list) : list[k] = s THEN <<Batch[p][e]>> \o DueFrom(s, p, e + 1)
    ELSE DueFrom(s, p, e + 1)

LEMMA AfterStart ==
    ASSUME NEW s \in Subs, NEW p \in Pushes, NEW e \in 1 .. Len(Batch[p]), NEW list,
           Named(s, list) <=> Batch[p][e].type \in Types[s]
    PROVE  After(s, p, e, 1, list) = DueFrom(s, p, e)
BY DueFacts DEF After, Named

LEMMA AfterEnd ==
    ASSUME NEW s, NEW p, NEW e, NEW list \in Lists, NEW j \in Nat, j > Len(list)
    PROVE  After(s, p, e, j, list) = DueFrom(s, p, e + 1)
<1>1. \A k \in j .. Len(list) : FALSE
  BY DEF Lists
<1> QED  BY <1>1 DEF After

LEMMA AfterNext ==
    ASSUME NEW s, NEW p, NEW e, NEW list \in Lists, NEW j \in 1 .. Len(list), Once(s, list)
    PROVE  /\ list[j] = s => After(s, p, e, j, list) = <<Batch[p][e]>> \o After(s, p, e, j + 1, list)
           /\ list[j] # s => After(s, p, e, j, list) = After(s, p, e, j + 1, list)
<1>1. Len(list) \in Nat
  BY DEF Lists
<1>2. CASE list[j] = s
  <2>1. \A k \in j + 1 .. Len(list) : list[k] # s
    BY <1>1, <1>2 DEF Once
  <2>2. j \in j .. Len(list)
    BY <1>1
  <2> QED  BY <1>2, <2>1, <2>2 DEF After
<1>3. CASE list[j] # s
  <2>1. \A k : k \in j .. Len(list) <=> k = j \/ k \in j + 1 .. Len(list)
    BY <1>1
  <2> QED  BY <1>3, <2>1 DEF After
<1> QED  BY <1>2, <1>3

LEMMA AfterType ==
    ASSUME NEW s \in Subs, NEW p \in Pushes, NEW e \in 1 .. Len(Batch[p]), NEW j, NEW list
    PROVE  After(s, p, e, j, list) \in Seq(Events)
<1>1. Batch[p] \in Seq(Events)
  BY SubscriptionAssumption
<1>2. e + 1 \in 1 .. Len(Batch[p]) + 1
  BY <1>1
<1>3. PICK d \in Seq(Events) : d = DueFrom(s, p, e + 1)
  BY <1>2, DueFacts
<1>4. PICK x \in Events : x = Batch[p][e]
  BY <1>1
<1>5. <<x>> \o d \in Seq(Events)
  OBVIOUS
<1> QED  BY <1>3, <1>4, <1>5 DEF After

-----------------------------------------------------------------------------
(* What the registry has for the event notify is at                        *)

ListOf(t) == IF t \in AggTypes THEN subscriptions[t] ELSE <<>>

LEMMA ListOfFacts ==
    ASSUME RegistryInv, NEW t, NEW s \in Subs
    PROVE  /\ ListOf(t) \in Lists
           /\ Once(s, ListOf(t))
           /\ s \notin ByType /\ receiver[s] \in Inside => (Named(s, ListOf(t)) <=> t \in Types[s])
<1>1. CASE t \in AggTypes
  <2>1. ListOf(t) = subscriptions[t] /\ subscriptions[t] \in Lists
    BY <1>1 DEF ListOf, RegistryInv, RegistryTyped, Lists
  <2>2. Entries(s, t)
    BY <1>1 DEF RegistryInv
  <2> QED  BY <2>1, <2>2 DEF Entries, Registered
<1>2. CASE t \notin AggTypes
  <2>1. ListOf(t) = <<>>
    BY <1>2 DEF ListOf
  <2>2. <<>> \in Lists /\ \A k \in 1 .. Len(<<>>) : FALSE
    BY DEF Lists
  <2>3. t \notin Types[s]
    BY <1>2 DEF AggTypes
  <2> QED  BY <2>1, <2>2, <2>3 DEF Once, Named
<1> QED  BY <1>1, <1>2

LEMMA CurrentList ==
    /\ \A p : Current(p) = ListOf(Batch[p][at.event].type)
    /\ UNCHANGED subscriptions => \A p : Current(p)' = ListOf(Batch[p][at'.event].type)
BY DEF Current, ListOf

-----------------------------------------------------------------------------
(* The types                                                               *)

LEMMA TypeInit == Init => TypeOK
<1> SUFFICES ASSUME Init PROVE TypeOK
  OBVIOUS
<1>1. <<>> \in Seq(Events) /\ <<>> \in Seq(Subs \cup {Nil}) /\ Len(<<>>) <= QueueSize
  BY SubscriptionAssumption
<1>2. queue = [s \in Subs |-> <<>>] /\ received = [s \in Subs |-> <<>>] /\ due = [s \in Subs |-> <<>>]
  BY DEF Init
<1>3. queue \in [Subs -> Seq(Events)] /\ received \in [Subs -> Seq(Events)] /\ due \in [Subs -> Seq(Events)]
  BY <1>1, <1>2
<1>4. \A s \in Subs : Len(queue[s]) <= QueueSize
  BY <1>1, <1>2
<1>5. at \in [event : Nat \ {0}, sub : Nat \ {0}] /\ panics \in 0 .. MaxPanics
  BY SubscriptionAssumption DEF Init, Start
<1>6. RegistryTyped
  BY RegistryInit DEF RegistryInv
<1> QED  BY <1>3, <1>4, <1>5, <1>6 DEF Init, TypeOK, RegistryTyped, Places

\* What is left of the types once the registry has its own.
LEMMA TypeRest ==
    ASSUME TypeOK, RegistryInv', mutex' \in {Free} \cup Pushes \cup Subs,
           queue' \in [Subs -> Seq(Events)], \A s \in Subs : Len(queue'[s]) <= QueueSize,
           at' \in [event : Nat \ {0}, sub : Nat \ {0}],
           received' \in [Subs -> Seq(Events)], due' \in [Subs -> Seq(Events)],
           crashed' \in BOOLEAN, panics' \in 0 .. MaxPanics
    PROVE  TypeOK'
<1>1. RegistryTyped'
  BY DEF RegistryInv
<1> QED  BY <1>1 DEF RegistryTyped, Places, TypeOK

LEMMA TypeNotify ==
    ASSUME TypeOK, RegistryInv', NEW p \in Pushes, Notify(p) PROVE TypeOK'
<1>1. /\ mutex' = p /\ at' = Start /\ UNCHANGED <<queue, received, crashed, panics>>
      /\ due' = [s \in Subs |-> IF receiver[s] = "new" THEN due[s] ELSE due[s] \o DueFrom(s, p, 1)]
  BY DEF Notify
<1>2. at' \in [event : Nat \ {0}, sub : Nat \ {0}]
  BY <1>1 DEF Start
<1>3. ASSUME NEW s \in Subs PROVE due[s] \in Seq(Events) /\ due[s] \o DueFrom(s, p, 1) \in Seq(Events)
  <2>1. Batch[p] \in Seq(Events)
    BY SubscriptionAssumption
  <2>2. 1 \in 1 .. Len(Batch[p]) + 1
    BY <2>1
  <2>3. PICK d \in Seq(Events) : d = DueFrom(s, p, 1)
    BY <2>2, DueFacts
  <2>4. due[s] \in Seq(Events)
    BY DEF TypeOK
  <2> QED  BY <2>3, <2>4
<1>4. due' \in [Subs -> Seq(Events)]
  BY <1>1, <1>3
<1> QED  BY <1>1, <1>2, <1>4, TypeRest DEF TypeOK

\* The subscription that gets an event, and the event.
LEMMA SendFacts ==
    ASSUME TypeOK, NEW p \in Pushes, AtSubscription(p)
    PROVE  /\ Current(p) \in Lists /\ at.sub \in 1 .. Len(Current(p)) /\ Current(p)[at.sub] \in Subs \cup {Nil}
           /\ at.event \in 1 .. Len(Batch[p]) /\ Batch[p][at.event] \in Events
<1>1. Batch[p] \in Seq(Events)
  BY SubscriptionAssumption
<1>2. at.event \in Nat \ {0} /\ at.sub \in Nat \ {0} /\ at.event <= Len(Batch[p]) /\ at.sub <= Len(Current(p))
  BY DEF TypeOK, AtSubscription
<1>3. Current(p) \in Lists
  <2>1. <<>> \in Lists
    BY DEF Lists
  <2> QED  BY <2>1 DEF Current, TypeOK, Lists
<1>4. Len(Batch[p]) \in Nat /\ Len(Current(p)) \in Nat
  BY <1>1, <1>3 DEF Lists
<1>5. at.event \in 1 .. Len(Batch[p]) /\ at.sub \in 1 .. Len(Current(p))
  BY <1>2, <1>4
<1>6. \A k \in 1 .. Len(Current(p)) : Current(p)[k] \in Subs \cup {Nil}
  BY <1>3 DEF Lists
<1>7. \A k \in 1 .. Len(Batch[p]) : Batch[p][k] \in Events
  BY <1>1
<1> QED  BY <1>3, <1>5, <1>6, <1>7

LEMMA TypeSend ==
    ASSUME TypeOK, RegistryInv', NEW p \in Pushes, Send(p) PROVE TypeOK'
<1>1. AtSubscription(p) /\ UNCHANGED <<mutex, received, due, panics>>
  BY DEF Send
<1>2. PICK z : z = Current(p)[at.sub]
  OBVIOUS
<1>3. PICK e \in Events : e = Batch[p][at.event]
  BY <1>1, SendFacts
<1>4. CASE crashed' = TRUE /\ UNCHANGED <<queue, at>>
  BY <1>1, <1>4, TypeRest DEF TypeOK
<1>5. CASE /\ z # Nil /\ Len(queue[z]) < QueueSize /\ UNCHANGED crashed
           /\ queue' = [queue EXCEPT ![z] = Append(@, e)] /\ at' = [at EXCEPT !.sub = @ + 1]
  <2>1. z \in Subs
    BY <1>1, <1>2, <1>5, SendFacts
  <2>2. queue[z] \in Seq(Events) /\ QueueSize \in Nat /\ \A s \in Subs : Len(queue[s]) <= QueueSize
    BY <2>1, SubscriptionAssumption DEF TypeOK
  <2>3. Append(queue[z], e) \in Seq(Events) /\ Len(Append(queue[z], e)) <= QueueSize
    BY <1>5, <2>2
  <2>4. queue' \in [Subs -> Seq(Events)]
    BY <1>5, <2>1, <2>3 DEF TypeOK
  <2>5. ASSUME NEW s \in Subs PROVE Len(queue'[s]) <= QueueSize
    <3>1. queue'[s] = IF s = z THEN Append(queue[z], e) ELSE queue[s]
      BY <1>5 DEF TypeOK
    <3> QED  BY <2>2, <2>3, <3>1
  <2>6. at' \in [event : Nat \ {0}, sub : Nat \ {0}]
    BY <1>5 DEF TypeOK
  <2> QED  BY <1>1, <1>5, <2>4, <2>5, <2>6, TypeRest DEF TypeOK
<1> QED  BY <1>2, <1>3, <1>4, <1>5 DEF Send

LEMMA TypeReceive ==
    ASSUME TypeOK, RegistryInv', NEW s \in Subs, Receive(s) PROVE TypeOK'
<1>1. UNCHANGED <<mutex, at, due, crashed, panics>>
  BY DEF Receive
<1>2. PICK q \in Seq(Events) : q = queue[s] /\ Len(q) <= QueueSize
  BY DEF TypeOK
<1>3. PICK n \in 1 .. Len(q) : /\ received' = [received EXCEPT ![s] = @ \o SubSeq(q, 1, n)]
                               /\ queue' = [queue EXCEPT ![s] = SubSeq(q, n + 1, Len(q))]
  BY <1>2 DEF Receive
<1>4. Len(q) \in Nat /\ n \in Nat /\ n <= Len(q) /\ QueueSize \in Nat
  BY <1>2, SubscriptionAssumption
<1>5. PICK a \in Seq(Events) : a = SubSeq(q, 1, n)
  <2>1. \A i \in 1 .. n : q[i] \in Events
    BY <1>2, <1>4
  <2>2. SubSeq(q, 1, n) \in Seq(Events)
    BY <1>4, <2>1, SubSeqProperties
  <2> QED  BY <2>2
<1>6. SubSeq(q, n + 1, Len(q)) \in Seq(Events) /\ Len(SubSeq(q, n + 1, Len(q))) = Len(q) - n
  BY <1>4
<1>7. received[s] \o a \in Seq(Events)
  BY DEF TypeOK
<1>8. received' \in [Subs -> Seq(Events)]
  BY <1>3, <1>5, <1>7 DEF TypeOK
<1>9. queue' \in [Subs -> Seq(Events)]
  BY <1>3, <1>6 DEF TypeOK
<1>10. ASSUME NEW z \in Subs PROVE Len(queue'[z]) <= QueueSize
  <2>1. queue'[z] = IF z = s THEN SubSeq(q, n + 1, Len(q)) ELSE queue[z]
    BY <1>3 DEF TypeOK
  <2>2. Len(queue[z]) <= QueueSize
    BY DEF TypeOK
  <2> QED  BY <1>2, <1>4, <1>6, <2>1, <2>2
<1> QED  BY <1>1, <1>8, <1>9, <1>10, TypeRest DEF TypeOK

LEMMA TypeClose ==
    ASSUME TypeOK, RegistryInv', NEW s \in Subs, Close(s) PROVE TypeOK'
<1>1. /\ UNCHANGED <<at, received, due, crashed, panics>> /\ mutex' = Free
      /\ queue[s] # <<>> /\ queue' = [queue EXCEPT ![s] = Tail(@)]
  BY DEF Close
<1>2. queue[s] \in Seq(Events) /\ Len(queue[s]) <= QueueSize /\ QueueSize \in Nat
  BY SubscriptionAssumption DEF TypeOK
<1>3. Tail(queue[s]) \in Seq(Events) /\ Len(Tail(queue[s])) <= QueueSize
  BY <1>1, <1>2
<1>4. queue' \in [Subs -> Seq(Events)]
  BY <1>1, <1>3 DEF TypeOK
<1>5. ASSUME NEW z \in Subs PROVE Len(queue'[z]) <= QueueSize
  <2>1. queue'[z] = IF z = s THEN Tail(queue[s]) ELSE queue[z]
    BY <1>1 DEF TypeOK
  <2> QED  BY <1>3, <2>1 DEF TypeOK
<1> QED  BY <1>1, <1>4, <1>5, TypeRest DEF TypeOK

LEMMA TypeStep == TypeOK /\ RegistryInv' /\ [Next]_vars => TypeOK'
<1> SUFFICES ASSUME TypeOK, RegistryInv', [Next]_vars PROVE TypeOK'
  OBVIOUS
<1>1. ASSUME NEW p \in Pushes, NextEvent(p) PROVE TypeOK'
  <2>1. at' \in [event : Nat \ {0}, sub : Nat \ {0}]
    BY <1>1 DEF NextEvent, TypeOK
  <2> QED  BY <1>1, <2>1, TypeRest DEF NextEvent, TypeOK
<1>2. ASSUME NEW p \in Pushes, NotifyEnd(p) PROVE TypeOK'
  <2>1. at' \in [event : Nat \ {0}, sub : Nat \ {0}]
    BY <1>2 DEF NotifyEnd, Start
  <2> QED  BY <1>2, <2>1, TypeRest DEF NotifyEnd, TypeOK
<1>3. ASSUME NEW s \in Subs, Subscribe(s) \/ Process(s) \/ Unsubscribe(s) PROVE TypeOK'
  <2>1. UNCHANGED <<queue, at, received, due, crashed, panics>> /\ (mutex' = mutex \/ mutex' = s)
    BY <1>3 DEF Subscribe, Process, Unsubscribe
  <2> QED  BY <2>1, TypeRest DEF TypeOK
<1>4. ASSUME NEW s \in Subs, Panic(s) PROVE TypeOK'
  <2>1. panics' \in 0 .. MaxPanics
    BY <1>4, SubscriptionAssumption DEF Panic, TypeOK
  <2> QED  BY <1>4, <2>1, TypeRest DEF Panic, TypeOK
<1>5. CASE UNCHANGED vars
  BY <1>5 DEF vars, TypeOK
<1> QED  BY <1>1, <1>2, <1>3, <1>4, <1>5, TypeNotify, TypeSend, TypeReceive, TypeClose DEF Next

(***************************************************************************)
(* The registry, the queues and the goroutines keep their types, and no    *)
(* queue ever holds more than its capacity.                                *)
(***************************************************************************)
THEOREM TypeCorrect == Spec => []TypeOK
BY RegistryInit, RegistryStep, TypeInit, TypeStep, PTL DEF Spec

-----------------------------------------------------------------------------
(* Delivery                                                                *)

\* What the notify that holds the mutex still has for s.
Rest(s) ==
    IF mutex \in Pushes /\ at.event <= Len(Batch[mutex])
    THEN After(s, mutex, at.event, at.sub, Current(mutex)) ELSE <<>>

\* What s has and what notify has for it are what it is due, if it is registered where it asks
\* to be.
Has(s) == s \notin ByType /\ receiver[s] \in Inside => (received[s] \o queue[s]) \o Rest(s) = due[s]

Unused(s) == receiver[s] = "new" => queue[s] = <<>> /\ received[s] = <<>> /\ due[s] = <<>>

Holder == mutex \in Pushes => sender[mutex] = "send" /\ at.event <= Len(Batch[mutex]) + 1

DeliveryInv == Holder /\ \A s \in Subs : Unused(s) /\ Has(s)

LEMMA HistoryTypes ==
    ASSUME TypeOK, NEW s \in Subs
    PROVE  /\ received[s] \in Seq(Events) /\ queue[s] \in Seq(Events) /\ due[s] \in Seq(Events)
           /\ received[s] \o queue[s] \in Seq(Events)
<1>1. received[s] \in Seq(Events) /\ queue[s] \in Seq(Events) /\ due[s] \in Seq(Events)
  BY DEF TypeOK
<1> QED  BY <1>1

\* The mutex is with no notify: there is no rest.
LEMMA NoRest ==
    ASSUME TypeOK, NEW s \in Subs, mutex \notin Pushes \/ at.event > Len(Batch[mutex])
    PROVE  Rest(s) = <<>> /\ (s \notin ByType /\ receiver[s] \in Inside /\ Has(s)
                             => received[s] \o queue[s] = due[s])
<1>1. Rest(s) = <<>>
  <2>1. CASE mutex \notin Pushes
    BY <2>1 DEF Rest
  <2>2. CASE mutex \in Pushes
    <3>1. Batch[mutex] \in Seq(Events)
      BY <2>2, SubscriptionAssumption
    <3>2. Len(Batch[mutex]) \in Nat /\ at.event \in Nat
      BY <3>1 DEF TypeOK
    <3> QED  BY <2>2, <3>2 DEF Rest
  <2> QED  BY <2>1, <2>2
<1>2. (received[s] \o queue[s]) \o <<>> = received[s] \o queue[s]
  BY HistoryTypes, ConcatEmptySeq
<1> QED  BY <1>1, <1>2 DEF Has

LEMMA SameRest ==
    ASSUME NEW s \in Subs, UNCHANGED <<mutex, at, subscriptions>> PROVE Rest(s)' = Rest(s)
BY DEF Rest, Current, After

\* A step between two positions of notify that leaves s what it has.
LEMMA HasKept ==
    ASSUME NEW s \in Subs, Has(s), UNCHANGED <<mutex, at, subscriptions>>,
           received'[s] \o queue'[s] = received[s] \o queue[s], due'[s] = due[s],
           receiver'[s] \in Inside => receiver[s] \in Inside
    PROVE  Has(s)'
BY SameRest DEF Has

\* A step around which no notify has the mutex.
LEMMA HasQuietly ==
    ASSUME TypeOK, TypeOK', NEW s \in Subs, Has(s), mutex \notin Pushes, mutex' \notin Pushes,
           received'[s] = received[s], queue'[s] = queue[s], due'[s] = due[s],
           receiver'[s] \in Inside => receiver[s] \in Inside
    PROVE  Has(s)'
<1>1. Rest(s) = <<>>
  BY NoRest
<1>2. Rest(s)' = <<>>
  BY DEF Rest
<1> QED  BY <1>1, <1>2 DEF Has

LEMMA UnusedKept ==
    ASSUME NEW s \in Subs, Unused(s), receiver'[s] = "new" => receiver[s] = "new",
           receiver[s] = "new" => received'[s] = received[s] /\ queue'[s] = queue[s] /\ due'[s] = due[s]
    PROVE  Unused(s)'
BY DEF Unused

-----------------------------------------------------------------------------
(* The steps of notify                                                     *)

LEMMA DeliveryNotify ==
    ASSUME TypeOK, TypeOK', RegistryInv, DeliveryInv, NEW p \in Pushes, Notify(p) PROVE DeliveryInv'
<1>1. /\ mutex = Free /\ mutex' = p /\ sender' = [sender EXCEPT ![p] = "send"] /\ at' = Start
      /\ due' = [s \in Subs |-> IF receiver[s] = "new" THEN due[s] ELSE due[s] \o DueFrom(s, p, 1)]
      /\ UNCHANGED <<subscriptions, queue, receiver, received>>
  BY DEF Notify
<1>2. Batch[p] \in Seq(Events) /\ Len(Batch[p]) \in Nat
  BY SubscriptionAssumption
<1>3. at'.event = 1 /\ at'.sub = 1
  BY <1>1 DEF Start
<1>4. Holder'
  BY <1>1, <1>2, <1>3 DEF Holder, TypeOK
<1>5. ASSUME NEW s \in Subs PROVE Unused(s)'
  BY <1>1 DEF DeliveryInv, Unused
<1>6. ASSUME NEW s \in Subs, s \notin ByType, receiver[s] \in Inside PROVE Rest(s)' = DueFrom(s, p, 1)
  <2>1. CASE Len(Batch[p]) = 0
    <3>1. DueFrom(s, p, 1) = <<>>
      BY <2>1, DueFacts
    <3>2. ~(at'.event <= Len(Batch[mutex']))
      BY <1>1, <1>3, <2>1
    <3> QED  BY <3>1, <3>2 DEF Rest
  <2>2. CASE Len(Batch[p]) # 0
    <3>1. 1 \in 1 .. Len(Batch[p])
      BY <1>2, <2>2
    <3>2. PICK list : list = ListOf(Batch[p][1].type)
      OBVIOUS
    <3>3. Current(p)' = list
      BY <1>1, <1>3, <3>2, CurrentList
    <3>4. Named(s, list) <=> Batch[p][1].type \in Types[s]
      BY <1>6, <3>2, ListOfFacts
    <3>5. After(s, p, 1, 1, list) = DueFrom(s, p, 1)
      BY <3>1, <3>4, AfterStart
    <3>6. Current(mutex)' = list
      BY <1>1, <3>3 DEF Current
    <3>7. Rest(s)' = After(s, p, 1, 1, list)
      BY <1>1, <1>3, <3>1, <3>6 DEF Rest
    <3> QED  BY <3>5, <3>7
  <2> QED  BY <2>1, <2>2
<1>7. ASSUME NEW s \in Subs PROVE Has(s)'
  <2> SUFFICES ASSUME s \notin ByType, receiver'[s] \in Inside
                 PROVE  (received'[s] \o queue'[s]) \o Rest(s)' = due'[s]
    BY DEF Has
  <2>1. receiver[s] \in Inside /\ receiver[s] # "new"
    BY <1>1 DEF Inside
  <2>2. mutex \notin Pushes /\ Has(s)
    BY <1>1, SubscriptionAssumption DEF DeliveryInv
  <2>3. received[s] \o queue[s] = due[s]
    BY <2>1, <2>2, NoRest
  <2>4. due'[s] = due[s] \o DueFrom(s, p, 1)
    BY <1>1, <2>1
  <2> QED  BY <1>1, <1>6, <2>1, <2>3, <2>4
<1> QED  BY <1>4, <1>5, <1>7 DEF DeliveryInv

LEMMA DeliverySend ==
    ASSUME TypeOK, RegistryInv, MutexInv, DeliveryInv, NEW p \in Pushes, Send(p) PROVE DeliveryInv'
<1>1. AtSubscription(p) /\ mutex = p /\ UNCHANGED <<subscriptions, mutex, receiver, sender, received, due>>
  BY DEF Send, AtSubscription, MutexInv
<1>2. PICK list, j, e, x : list = Current(p) /\ j = at.sub /\ e = at.event /\ x = Batch[p][e]
  OBVIOUS
<1>3. /\ list \in Lists /\ j \in 1 .. Len(list) /\ list[j] \in Subs \cup {Nil}
      /\ e \in 1 .. Len(Batch[p]) /\ x \in Events
  BY <1>1, <1>2, SendFacts
<1>4. CASE UNCHANGED <<queue, at>>
  <2>1. Holder'
    BY <1>1, <1>4 DEF DeliveryInv, Holder
  <2>2. ASSUME NEW s \in Subs PROVE Has(s)' /\ Unused(s)'
    BY <1>1, <1>4, HasKept, UnusedKept DEF DeliveryInv
  <2> QED  BY <2>1, <2>2 DEF DeliveryInv
<1>5. CASE /\ list[j] # Nil /\ queue' = [queue EXCEPT ![list[j]] = Append(@, x)]
           /\ at' = [at EXCEPT !.sub = @ + 1]
  <2>1. PICK z \in Subs : z = list[j]
    BY <1>3, <1>5
  <2>2. at'.event = e /\ at'.sub = j + 1
    BY <1>2, <1>5 DEF TypeOK
  <2>3. /\ queue'[z] = Append(queue[z], x)
        /\ \A s \in Subs : s # z => queue'[s] = queue[s]
    BY <1>5, <2>1 DEF TypeOK
  <2>4. Holder'
    BY <1>1, <1>2, <2>2 DEF DeliveryInv, Holder
  <2>5. receiver[z] \in Inside
    <3>1. PICK t : t = Batch[p][e].type
      OBVIOUS
    <3>2. list = ListOf(t)
      BY <1>2, <3>1, CurrentList
    <3>3. Named(z, list)
      BY <1>3, <2>1 DEF Named
    <3>4. t \in AggTypes /\ list = subscriptions[t]
      <4>1. list # <<>>
        BY <1>3
      <4> QED  BY <3>2, <4>1 DEF ListOf
    <3> QED  BY <3>3, <3>4 DEF RegistryInv, Entries
  <2>6. ASSUME NEW s \in Subs PROVE Unused(s)'
    <3>1. CASE s = z
      BY <1>1, <2>5, <3>1 DEF Unused, Inside
    <3>2. CASE s # z
      BY <1>1, <2>3, <3>2, UnusedKept DEF DeliveryInv
    <3> QED  BY <3>1, <3>2
  <2>7. Current(p)' = list
    BY <1>1, <1>2, <2>2 DEF Current
  <2>8. ASSUME NEW s \in Subs PROVE Has(s)'
    <3> SUFFICES ASSUME s \notin ByType, receiver'[s] \in Inside
                 PROVE  (received'[s] \o queue'[s]) \o Rest(s)' = due'[s]
      BY DEF Has
    <3>1. Rest(s) = After(s, p, e, j, list)
      BY <1>1, <1>2, <1>3 DEF Rest
    <3>2. Current(mutex)' = list
      BY <1>1, <2>7 DEF Current
    <3>3. Rest(s)' = After(s, p, e, j + 1, list)
      BY <1>1, <1>3, <2>2, <3>2 DEF Rest
    <3>4. (received[s] \o queue[s]) \o Rest(s) = due[s]
      BY <1>1 DEF DeliveryInv, Has
    <3>5. Once(s, list)
      BY <1>2, CurrentList, ListOfFacts
    <3>6. /\ list[j] = s => After(s, p, e, j, list) = <<Batch[p][e]>> \o After(s, p, e, j + 1, list)
          /\ list[j] # s => After(s, p, e, j, list) = After(s, p, e, j + 1, list)
      <4>1. list \in Lists /\ j \in 1 .. Len(list)
        BY <1>3
      <4> QED  BY ONLY <3>5, <4>1, AfterNext
    <3>7. CASE s # z
      <4>1. Rest(s)' = Rest(s)
        BY <2>1, <3>1, <3>3, <3>7, <3>6
      <4> QED  BY <1>1, <2>3, <3>4, <3>7, <4>1
    <3>8. CASE s = z
      <4>1. Rest(s) = <<x>> \o Rest(s)'
        BY <1>2, <2>1, <3>1, <3>3, <3>8, <3>6
      <4>2. PICK q, r, c : q = queue[s] /\ r = received[s] /\ c = Rest(s)'
        OBVIOUS
      <4>3. q \in Seq(Events) /\ r \in Seq(Events) /\ c \in Seq(Events) /\ <<x>> \in Seq(Events)
        BY <1>3, <3>3, <4>2, AfterType DEF TypeOK
      <4>4. (r \o q) \o (<<x>> \o c) = (r \o (q \o <<x>>)) \o c
        BY <4>3
      <4>5. Append(q, x) = q \o <<x>>
        BY <4>3
      <4>6. queue'[s] = q \o <<x>>
        BY <2>3, <3>8, <4>2, <4>5
      <4> QED  BY <1>1, <3>4, <4>1, <4>2, <4>4, <4>6
    <3> QED  BY <3>7, <3>8
  <2> QED  BY <2>4, <2>6, <2>8 DEF DeliveryInv
<1> QED  BY <1>2, <1>4, <1>5 DEF Send

LEMMA DeliveryNextEvent ==
    ASSUME TypeOK, TypeOK', RegistryInv, MutexInv, DeliveryInv, NEW p \in Pushes, NextEvent(p)
    PROVE  DeliveryInv'
<1>1. /\ mutex = p /\ at.event <= Len(Batch[p]) /\ at.sub > Len(Current(p))
      /\ at' = [event |-> at.event + 1, sub |-> 1]
      /\ UNCHANGED <<subscriptions, mutex, queue, receiver, sender, received, due>>
  BY DEF NextEvent, MutexInv
<1>2. PICK e, n, list : e = at.event /\ n = Len(Batch[p]) /\ list = Current(p)
  OBVIOUS
<1>3. Batch[p] \in Seq(Events)
  BY SubscriptionAssumption
<1>4. n \in Nat /\ e \in 1 .. n /\ e + 1 \in Nat
  BY <1>1, <1>2, <1>3 DEF TypeOK
<1>5. at'.event = e + 1 /\ at'.sub = 1
  BY <1>1, <1>2
<1>6. Holder'
  BY <1>1, <1>2, <1>4, <1>5 DEF DeliveryInv, Holder
<1>7. ASSUME NEW s \in Subs PROVE Unused(s)'
  BY <1>1, UnusedKept DEF DeliveryInv
<1>8. ASSUME NEW s \in Subs, s \notin ByType, receiver[s] \in Inside PROVE Rest(s)' = Rest(s)
  <2>1. Rest(s) = After(s, p, e, at.sub, list)
    BY <1>1, <1>2 DEF Rest
  <2>2. list \in Lists
    BY <1>2, CurrentList, ListOfFacts
  <2>3. Rest(s) = DueFrom(s, p, e + 1)
    BY <1>1, <1>2, <2>1, <2>2, AfterEnd DEF TypeOK
  <2>4. CASE e = n
    <3>1. DueFrom(s, p, e + 1) = <<>>
      BY <1>2, <2>4, DueFacts
    <3>2. ~(at'.event <= Len(Batch[mutex']))
      BY <1>1, <1>2, <1>4, <1>5, <2>4
    <3> QED  BY <2>3, <3>1, <3>2 DEF Rest
  <2>5. CASE e # n
    <3>1. e + 1 \in 1 .. n
      BY <1>4, <2>5
    <3>2. PICK next : next = ListOf(Batch[p][e + 1].type)
      OBVIOUS
    <3>3. Current(p)' = next
      BY <1>1, <1>5, <3>2, CurrentList
    <3>4. Named(s, next) <=> Batch[p][e + 1].type \in Types[s]
      BY <1>8, <3>2, ListOfFacts
    <3>5. After(s, p, e + 1, 1, next) = DueFrom(s, p, e + 1)
      BY <1>2, <3>1, <3>4, AfterStart
    <3>6. Current(mutex)' = next
      BY <1>1, <3>3 DEF Current
    <3>7. at'.event <= Len(Batch[mutex']) /\ mutex' \in Pushes
      BY <1>1, <1>2, <1>4, <1>5, <3>1
    <3>8. Rest(s)' = After(s, p, e + 1, 1, next)
      BY <1>1, <1>5, <3>6, <3>7 DEF Rest
    <3> QED  BY <2>3, <3>5, <3>8
  <2> QED  BY <2>4, <2>5
<1>9. ASSUME NEW s \in Subs PROVE Has(s)'
  BY <1>1, <1>8 DEF DeliveryInv, Has
<1> QED  BY <1>6, <1>7, <1>9 DEF DeliveryInv

LEMMA DeliveryNotifyEnd ==
    ASSUME TypeOK, TypeOK', MutexInv, DeliveryInv, NEW p \in Pushes, NotifyEnd(p) PROVE DeliveryInv'
<1>1. /\ mutex = p /\ mutex' = Free /\ at.event > Len(Batch[p])
      /\ UNCHANGED <<queue, receiver, received, due>>
  BY DEF NotifyEnd, MutexInv
<1>2. mutex' \notin Pushes
  BY <1>1, SubscriptionAssumption
<1>3. ASSUME NEW s \in Subs PROVE Has(s)' /\ Unused(s)'
  <2>1. Rest(s) = <<>>
    BY <1>1, NoRest
  <2>2. Rest(s)' = <<>>
    BY <1>2 DEF Rest
  <2> QED  BY <1>1, <2>1, <2>2 DEF DeliveryInv, Has, Unused
<1> QED  BY <1>2, <1>3 DEF DeliveryInv, Holder

-----------------------------------------------------------------------------
(* The steps of the receivers                                              *)

LEMMA DeliveryReceive ==
    ASSUME TypeOK, DeliveryInv, NEW s \in Subs, Receive(s) PROVE DeliveryInv'
<1>1. /\ receiver[s] = "receive" /\ receiver' = [receiver EXCEPT ![s] = "process"]
      /\ UNCHANGED <<subscriptions, mutex, sender, at, due>>
  BY DEF Receive
<1>2. PICK q, r : q = queue[s] /\ r = received[s]
  OBVIOUS
<1>3. PICK n \in 1 .. Len(q) : /\ received' = [received EXCEPT ![s] = r \o SubSeq(q, 1, n)]
                               /\ queue' = [queue EXCEPT ![s] = SubSeq(q, n + 1, Len(q))]
  BY <1>2 DEF Receive
<1>4. q \in Seq(Events) /\ r \in Seq(Events)
  BY <1>2, HistoryTypes
<1>5. Len(q) \in Nat /\ n \in Nat /\ n <= Len(q)
  BY <1>4
<1>6. PICK a, b : a = SubSeq(q, 1, n) /\ b = SubSeq(q, n + 1, Len(q))
  OBVIOUS
<1>7. a \in Seq(Events) /\ b \in Seq(Events)
  <2>1. \A i \in 1 .. Len(q) : q[i] \in Events
    BY <1>4
  <2>2. \A i \in 1 .. n : q[i] \in Events
    BY <1>5, <2>1
  <2>3. \A i \in n + 1 .. Len(q) : q[i] \in Events
    BY <1>5, <2>1
  <2> QED  BY <1>5, <1>6, <2>2, <2>3, SubSeqProperties
<1>8. a \o b = q
  <2>1. 1 \in 1 .. Len(q) + 1 /\ n \in 1 - 1 .. Len(q) /\ Len(q) \in n .. Len(q)
    BY <1>5
  <2>2. SubSeq(q, 1, n) \o SubSeq(q, n + 1, Len(q)) = SubSeq(q, 1, Len(q))
    BY <1>4, <2>1, ConcatAdjacentSubSeq
  <2> QED  BY <1>4, <1>6, <2>2, SubSeqFull
<1>9. (r \o a) \o b = r \o q
  <2>1. (r \o a) \o b = r \o (a \o b)
    BY <1>4, <1>7
  <2> QED  BY <1>8, <2>1
<1>10. ASSUME NEW z \in Subs PROVE Has(z)' /\ Unused(z)'
  <2>1. Has(z) /\ Unused(z)
    BY DEF DeliveryInv
  <2>2. CASE z = s
    <3>1. received'[s] = r \o a /\ queue'[s] = b /\ receiver'[s] = "process"
      BY <1>1, <1>3, <1>6 DEF TypeOK
    <3>2. received'[z] \o queue'[z] = received[z] \o queue[z]
      BY <1>2, <1>9, <2>2, <3>1
    <3> QED  BY <1>1, <2>1, <2>2, <3>1, <3>2, HasKept DEF Unused, Inside
  <2>3. CASE z # s
    <3>1. received'[z] = received[z] /\ queue'[z] = queue[z] /\ receiver'[z] = receiver[z]
      BY <1>1, <1>3, <2>3 DEF TypeOK
    <3> QED  BY <1>1, <2>1, <3>1, HasKept, UnusedKept
  <2> QED  BY <2>2, <2>3
<1>11. Holder'
  BY <1>1 DEF DeliveryInv, Holder
<1> QED  BY <1>10, <1>11 DEF DeliveryInv

LEMMA DeliveryProcess ==
    ASSUME TypeOK, DeliveryInv, NEW s \in Subs, Process(s) \/ Panic(s) PROVE DeliveryInv'
<1>1. /\ receiver[s] = "process" /\ UNCHANGED <<subscriptions, mutex, queue, sender, at, received, due>>
      /\ \A z \in Subs : receiver'[z] = receiver[z] \/ (z = s /\ receiver'[z] \in {"receive", "panicked"})
  BY DEF Process, Panic, TypeOK
<1>2. ASSUME NEW z \in Subs PROVE Has(z)' /\ Unused(z)'
  <2>1. /\ receiver'[z] \in Inside => receiver[z] \in Inside
        /\ receiver'[z] = "new" => receiver[z] = "new"
    BY <1>1 DEF Inside
  <2> QED  BY <1>1, <2>1, HasKept, UnusedKept DEF DeliveryInv
<1> QED  BY <1>1, <1>2 DEF DeliveryInv, Holder

LEMMA DeliverySubscribe ==
    ASSUME TypeOK, TypeOK', DeliveryInv, NEW s \in Subs, Subscribe(s) PROVE DeliveryInv'
<1>1. /\ mutex = Free /\ receiver[s] = "new" /\ receiver' = [receiver EXCEPT ![s] = "receive"]
      /\ UNCHANGED <<mutex, queue, received, due>>
  BY DEF Subscribe
<1>2. mutex \notin Pushes /\ mutex' \notin Pushes
  BY <1>1, SubscriptionAssumption
<1>3. ASSUME NEW z \in Subs PROVE Has(z)' /\ Unused(z)'
  <2>1. CASE z = s
    <3>1. queue[z] = <<>> /\ received[z] = <<>> /\ due[z] = <<>>
      BY <1>1, <2>1 DEF DeliveryInv, Unused
    <3>2. Rest(z)' = <<>>
      BY <1>2 DEF Rest
    <3>3. (<<>> \o <<>>) \o <<>> = <<>>
      OBVIOUS
    <3> QED  BY <1>1, <3>1, <3>2, <3>3 DEF Has, Unused
  <2>2. CASE z # s
    <3>1. receiver'[z] = receiver[z]
      BY <1>1, <2>2 DEF TypeOK
    <3> QED  BY <1>1, <1>2, <3>1, HasQuietly, UnusedKept DEF DeliveryInv
  <2> QED  BY <2>1, <2>2
<1> QED  BY <1>2, <1>3 DEF DeliveryInv, Holder

LEMMA DeliveryLeave ==
    ASSUME TypeOK, TypeOK', MutexInv, DeliveryInv, NEW s \in Subs, Unsubscribe(s) \/ Close(s)
    PROVE  DeliveryInv'
<1>1. /\ mutex = Free \/ mutex = s
      /\ mutex' = Free \/ mutex' = s
      /\ UNCHANGED <<received, due>>
  BY DEF Unsubscribe, Close, MutexInv
<1>2. /\ receiver'[s] \in {"unsubscribe", "ended"}
      /\ \A z \in Subs : z # s => receiver'[z] = receiver[z] /\ queue'[z] = queue[z]
  BY DEF Unsubscribe, Close, TypeOK
<1>3. mutex \notin Pushes /\ mutex' \notin Pushes
  BY <1>1, SubscriptionAssumption
<1>4. ASSUME NEW z \in Subs PROVE Has(z)' /\ Unused(z)'
  <2>1. CASE z = s
    BY <1>2, <2>1 DEF Has, Unused, Inside
  <2>2. CASE z # s
    BY <1>1, <1>2, <1>3, <2>2, HasQuietly, UnusedKept DEF DeliveryInv
  <2> QED  BY <2>1, <2>2
<1> QED  BY <1>3, <1>4 DEF DeliveryInv, Holder

LEMMA DeliveryInit == Init => DeliveryInv
<1> SUFFICES ASSUME Init PROVE DeliveryInv
  OBVIOUS
<1>1. mutex \notin Pushes
  BY SubscriptionAssumption DEF Init
<1>2. ASSUME NEW s \in Subs PROVE Unused(s) /\ Has(s)
  BY DEF Init, Unused, Has, Inside
<1> QED  BY <1>1, <1>2 DEF DeliveryInv, Holder

LEMMA DeliveryStep ==
    TypeOK /\ TypeOK' /\ RegistryInv /\ MutexInv /\ DeliveryInv /\ [Next]_vars => DeliveryInv'
<1> SUFFICES ASSUME TypeOK, TypeOK', RegistryInv, MutexInv, DeliveryInv, [Next]_vars PROVE DeliveryInv'
  OBVIOUS
<1>1. CASE UNCHANGED vars
  <2>1. UNCHANGED <<subscriptions, mutex, queue, receiver, sender, at, received, due>>
    BY <1>1 DEF vars
  <2>2. ASSUME NEW s \in Subs PROVE Has(s)' /\ Unused(s)'
    BY <2>1, HasKept, UnusedKept DEF DeliveryInv
  <2> QED  BY <2>1, <2>2 DEF DeliveryInv, Holder
<1> QED  BY <1>1, DeliveryNotify, DeliverySend, DeliveryNextEvent, DeliveryNotifyEnd, DeliveryReceive,
            DeliveryProcess, DeliverySubscribe, DeliveryLeave DEF Next

LEMMA PrefixOfConcat ==
    ASSUME NEW a \in Seq(Events), NEW b \in Seq(Events) PROVE IsPrefix(a, a \o b)
<1>1. PICK c : c = a \o b
  OBVIOUS
<1>2. /\ c \in Seq(Events) /\ Len(a) \in Nat /\ Len(a) <= Len(c)
      /\ \A i \in 1 .. Len(a) : c[i] = a[i]
  BY <1>1
<1>3. SubSeq(a, 1, Len(a)) = SubSeq(c, 1, Len(a))
  BY <1>2
<1> QED  BY <1>1, <1>2, <1>3 DEF IsPrefix

LEMMA DeliverySuffices == TypeOK /\ DeliveryInv => DeliveredInOrder
<1> SUFFICES ASSUME TypeOK, DeliveryInv, NEW s \in Subs, s \notin ByType,
                    receiver[s] \in {"receive", "process", "panicked"}
             PROVE  IF mutex \in Pushes THEN IsPrefix(received[s] \o queue[s], due[s])
                    ELSE received[s] \o queue[s] = due[s]
  BY DEF DeliveredInOrder, Delivered
<1>1. receiver[s] \in Inside /\ Has(s)
  BY DEF DeliveryInv, Inside
<1>2. CASE mutex \notin Pushes
  BY <1>1, <1>2, NoRest
<1>3. CASE mutex \in Pushes
  <2>1. Rest(s) \in Seq(Events)
    <3>1. CASE at.event <= Len(Batch[mutex])
      <4>1. Batch[mutex] \in Seq(Events)
        BY <1>3, SubscriptionAssumption
      <4>2. at.event \in 1 .. Len(Batch[mutex])
        BY <3>1, <4>1 DEF TypeOK
      <4> QED  BY <1>3, <3>1, <4>2, AfterType DEF Rest
    <3>2. CASE ~(at.event <= Len(Batch[mutex]))
      BY <3>2 DEF Rest
    <3> QED  BY <3>1, <3>2
  <2>2. received[s] \o queue[s] \in Seq(Events)
    BY HistoryTypes
  <2>3. (received[s] \o queue[s]) \o Rest(s) = due[s]
    BY <1>1 DEF Has
  <2> QED  BY <1>3, <2>1, <2>2, <2>3, PrefixOfConcat
<1> QED  BY <1>2, <1>3

(***************************************************************************)
(* As long as it is registered, a subscription for aggregates (not one by  *)
(* event types, which gets nothing) has got the events of its              *)
(* aggregates of all notifications since it subscribed, each once and in   *)
(* the order of the notifications, except for what the notify that holds   *)
(* the mutex still has for it: for any number of subscriptions, pushes and *)
(* panics, any size of the queues, and although the entries of a list move *)
(* when others unsubscribe.                                                *)
(***************************************************************************)
THEOREM DeliveryInOrder == Spec => []DeliveredInOrder
BY RegistryInit, RegistryStep, MutexInit, MutexStep, TypeInit, TypeStep, DeliveryInit, DeliveryStep,
   DeliverySuffices, PTL DEF Spec
=============================================================================
