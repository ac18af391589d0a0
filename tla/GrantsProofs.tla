---------------------------- MODULE GrantsProofs ----------------------------
(***************************************************************************)
(* Proofs about Grants: the types, that a user has one grant at a time,    *)
(* that the projection shows no access the events do not give, that        *)
(* removals are final and that they cascade.                               *)
(*                                                                         *)
(* The write model of a user grant is computed by a loop over the events.  *)
(* Closed says what the loop comes to: with the order of events that the   *)
(* commands keep, a user grant is live from its added event to its first   *)
(* removal.  GrantsInv ties that to the constraints, to the rows of the    *)
(* projection and to what requests are about to push.                      *)
(***************************************************************************)
EXTENDS Grants, FiniteSetTheorems, SequenceTheorems, WellFoundedInduction, TLAPS

-----------------------------------------------------------------------------
(* Induction                                                               *)

\* Induction over the naturals, stated for a set.
LEMMA SetInduction ==
    ASSUME NEW S, 0 \in S, \A n \in Nat : n \in S => n + 1 \in S
    PROVE  Nat \subseteq S
<1> SUFFICES ASSUME Nat \ S # {} PROVE FALSE
  OBVIOUS
<1> DEFINE T == Nat \ S
<1>1. PICK x \in T : \A y \in T : ~(<<y, x>> \in OpToRel(<, Nat))
  <2>1. T \subseteq Nat /\ T # {}
    OBVIOUS
  <2> HIDE DEF T
  <2> QED  BY <2>1, NatLessThanWellFounded, WFMin
<1>2. x \in Nat /\ x # 0 /\ x - 1 \in Nat /\ (x - 1) + 1 = x /\ x - 1 < x
  OBVIOUS
<1>3. <<x - 1, x>> \in OpToRel(<, Nat)
  BY <1>2 DEF OpToRel
<1>4. x - 1 \in S
  BY <1>1, <1>2, <1>3
<1> QED  BY <1>2, <1>4

\* g[i] is b after the first i of the functions F on T.
Iterates(g, T, b, F, n) ==
    g \in [0 .. n -> T] /\ g[0] = b /\ \A i \in 1 .. n : g[i] = F[i][g[i - 1]]

LEMMA Iterated ==
    ASSUME NEW T, NEW b \in T, NEW F \in [Nat -> [T -> T]], NEW n \in Nat
    PROVE  \E g : Iterates(g, T, b, F, n)
<1> DEFINE Good(k, g) == g \in [0 .. k -> T] /\ g[0] = b /\ \A i \in 1 .. k : g[i] = F[i][g[i - 1]]
           S == {k \in Nat : \E g : Good(k, g)}
<1>1. 0 \in S
  <2>1. Good(0, [i \in 0 .. 0 |-> b])
    OBVIOUS
  <2> QED  BY <2>1
<1>2. ASSUME NEW k \in Nat, k \in S PROVE k + 1 \in S
  <2>1. PICK g : Good(k, g)
    BY <1>2
  <2> DEFINE h == [i \in 0 .. k + 1 |-> IF i = k + 1 THEN F[k + 1][g[k]] ELSE g[i]]
  <2>2. F[k + 1][g[k]] \in T
    BY <2>1
  <2>3. \A i \in 0 .. k + 1 : i = k + 1 \/ i \in 0 .. k
    OBVIOUS
  <2>4. h \in [0 .. k + 1 -> T]
    BY <2>1, <2>2, <2>3
  <2>5. \A i \in 0 .. k : h[i] = g[i]
    OBVIOUS
  <2>6. h[k + 1] = F[k + 1][g[k]]
    OBVIOUS
  <2> HIDE DEF h
  <2>7. h[0] = b
    BY <2>1, <2>5
  <2>8. ASSUME NEW i \in 1 .. k + 1 PROVE h[i] = F[i][h[i - 1]]
    <3>1. CASE i = k + 1
      BY <2>5, <2>6, <3>1
    <3>2. CASE i \in 1 .. k
      <4>1. i - 1 \in 0 .. k /\ i \in 0 .. k
        BY <3>2
      <4> QED  BY <2>1, <2>5, <3>2, <4>1
    <3> QED  BY <3>1, <3>2
  <2>9. Good(k + 1, h)
    BY <2>4, <2>7, <2>8
  <2> QED  BY <2>9
<1>3. n \in S
  <2> HIDE DEF S
  <2> QED  BY <1>1, <1>2, SetInduction
<1> QED  BY <1>3 DEF Iterates

-----------------------------------------------------------------------------
(* Types of the operators                                                  *)

States == {"unspecified", "active", "inactive", "removed"}
Models == [state : States, source : Sources, keys : Seq(Roles)]

LEMMA Constants ==
    /\ GrantIDs \subseteq Nat /\ NoID \notin GrantIDs
    /\ AllRoles \in Seq(Roles) /\ RequestKeys \subseteq Seq(Roles)
    /\ KeyLists \subseteq Seq(Roles)
    /\ NotAdded \in Models
<1>1. NoID \notin GrantIDs /\ GrantIDs \subseteq Nat
  BY GrantIDsAssumption DEF NoID
<1>2. NotAdded \in Models
  <2>1. <<>> \in Seq(Roles)
    OBVIOUS
  <2> QED  BY <2>1 DEF NotAdded, Models, States, Sources
<1>3. ASSUME NEW k \in KeyLists PROVE k \in Seq(Roles)
  <2>1. PICK n \in 0 .. Len(AllRoles) : k \in [1 .. n -> Roles]
    BY DEF KeyLists
  <2>2. n \in Nat
    BY RolesAssumption
  <2> QED  BY <2>1, <2>2, SeqDef
<1> QED  BY <1>1, <1>2, <1>3, RolesAssumption

LEMMA FirstIDFacts == FirstID \in GrantIDs
<1>1. PICK x \in GrantIDs : \A y \in GrantIDs : ~(<<y, x>> \in OpToRel(<, Nat))
  BY GrantIDsAssumption, NatLessThanWellFounded, WFMin
<1>2. \A y \in GrantIDs : x <= y
  <2>1. \A y \in GrantIDs : y \in Nat /\ x \in Nat
    BY Constants
  <2>2. \A y \in GrantIDs : ~(y < x)
    BY <1>1, <2>1 DEF OpToRel
  <2> QED  BY <2>1, <2>2
<1> QED  BY <1>2 DEF FirstID, Min

LEMMA EventFacts ==
    ASSUME NEW e \in Events
    PROVE  /\ e.type \in UserGrantTypes \cup ProjectTypes /\ e.id \in GrantIDs \cup {NoID}
           /\ e.source \in Sources /\ e.keys \in Seq(Roles) /\ Range(e.keys) \subseteq Roles
<1>1. e.keys \in Seq(Roles)
  BY DEF Events
<1>2. Range(e.keys) \subseteq Roles
  BY <1>1 DEF Range
<1> QED  BY <1>1, <1>2 DEF Events

LEMMA EventType ==
    ASSUME NEW t \in UserGrantTypes \cup ProjectTypes, NEW g \in GrantIDs \cup {NoID},
           NEW s \in Sources, NEW k \in Seq(Roles)
    PROVE  Event(t, g, s, k) \in Events
BY DEF Event, Events

LEMMA OneKey == ASSUME NEW k \in Seq(Roles), Len(k) = 1 PROVE k[1] \in Roles
OBVIOUS

LEMMA ReduceType ==
    ASSUME NEW m \in Models, NEW e \in Events PROVE Reduce(m, e) \in Models
BY EventFacts DEF Reduce, Models, States

\* What is left of a list of keys is a list of keys.
LEMMA WithoutKeysType ==
    ASSUME NEW keys \in Seq(Roles), NEW gone PROVE WithoutKeys(keys, gone) \in Seq(Roles)
<1> DEFINE T == [kept : Seq(Roles), taken : BOOLEAN]
           b == [kept |-> <<>>, taken |-> FALSE]
           n == Len(keys)
           One(x, k) == IF k \in gone /\ ~x.taken THEN [kept |-> x.kept, taken |-> TRUE]
                        ELSE [kept |-> Append(x.kept, k), taken |-> FALSE]
           F == [i \in Nat |-> [x \in T |-> IF i \in 1 .. n THEN One(x, keys[i]) ELSE x]]
           Fun(f) == [i \in 0 .. n |-> IF i = 0 THEN b
                                        ELSE IF keys[i] \in gone /\ ~f[i - 1].taken
                                        THEN [kept |-> f[i - 1].kept, taken |-> TRUE]
                                        ELSE [kept |-> Append(f[i - 1].kept, keys[i]), taken |-> FALSE]]
           M == CHOOSE f : f = Fun(f)
<1>1. n \in Nat /\ \A i \in 1 .. n : keys[i] \in Roles
  OBVIOUS
<1>2. b \in T
  <2>1. <<>> \in Seq(Roles)
    OBVIOUS
  <2> QED  BY <2>1
<1>3. \A x \in T, k \in Roles : One(x, k) \in T
  <2>1. \A x \in T, k \in Roles : Append(x.kept, k) \in Seq(Roles)
    OBVIOUS
  <2> QED  BY <2>1
<1>4. F \in [Nat -> [T -> T]]
  <2> HIDE DEF T, One
  <2> QED  BY <1>1, <1>3
<1>5. \E g : Iterates(g, T, b, F, n)
  <2> HIDE DEF T, b, F, n
  <2> QED  BY <1>1, <1>2, <1>4, Iterated
<1>6. PICK g : Iterates(g, T, b, F, n)
  BY <1>5
<1>7. ASSUME NEW i \in 1 .. n
      PROVE  g[i] = One(g[i - 1], keys[i]) /\ g[i - 1] \in T
  <2>1. i \in Nat /\ i - 1 \in 0 .. n
    BY <1>1
  <2>2. g[i] = F[i][g[i - 1]] /\ g[i - 1] \in T
    <3> HIDE DEF T, F
    <3> QED  BY <1>6, <2>1 DEF Iterates
  <2>3. F[i][g[i - 1]] = One(g[i - 1], keys[i])
    <3> HIDE DEF T, One
    <3> QED  BY <2>1, <2>2
  <2> QED  BY <2>2, <2>3
<1>8. g = Fun(g)
  <2>1. g \in [0 .. n -> T] /\ g[0] = b
    <3> HIDE DEF T, F, b
    <3> QED  BY <1>6 DEF Iterates
  <2>2. \A i \in 0 .. n : i = 0 \/ i \in 1 .. n
    BY <1>1
  <2>3. \A i \in 0 .. n : g[i] = Fun(g)[i]
    BY <1>7, <2>1, <2>2
  <2> QED  BY <2>1, <2>3
<1>9. M = Fun(M)
  <2> HIDE DEF Fun
  <2> QED  BY <1>8
<1>10. WithoutKeys(keys, gone) = M[n].kept
  BY DEF WithoutKeys
<1> DEFINE S == {k \in Nat : k <= n => M[k] \in T}
<1>11. 0 \in S
  <2>1. M[0] = b
    <3> HIDE DEF M, b
    <3> QED  BY <1>1, <1>9
  <2> HIDE DEF M, T, b
  <2> QED  BY <1>2, <2>1
<1>12. ASSUME NEW k \in Nat, k \in S PROVE k + 1 \in S
  <2> SUFFICES ASSUME k + 1 <= n PROVE M[k + 1] \in T
    OBVIOUS
  <2>1. k + 1 \in 0 .. n /\ k + 1 \in 1 .. n /\ k + 1 # 0 /\ (k + 1) - 1 = k /\ k <= n
    BY <1>1
  <2>2. M[k + 1] = One(M[k], keys[k + 1])
    <3> HIDE DEF M, b
    <3> QED  BY <1>9, <2>1
  <2>3. M[k] \in T
    BY <1>12, <2>1
  <2> HIDE DEF M, T, One
  <2> QED  BY <1>1, <1>3, <2>1, <2>2, <2>3
<1>13. M[n] \in T
  <2>1. Nat \subseteq S
    <3> HIDE DEF S
    <3> QED  BY <1>11, <1>12, SetInduction
  <2> HIDE DEF M, T
  <2> QED  BY <1>1, <2>1
<1> HIDE DEF M
<1> QED  BY <1>10, <1>13

\* A list of a set of user grants has each of them, and only them.
LEMMA ListFacts ==
    ASSUME NEW S \in SUBSET GrantIDs
    PROVE  /\ SetToSeq(S) \in Seq(S) /\ DOMAIN SetToSeq(S) = 1 .. Len(SetToSeq(S))
           /\ \A i \in DOMAIN SetToSeq(S) : SetToSeq(S)[i] \in S
           /\ \A g \in S : \E i \in DOMAIN SetToSeq(S) : SetToSeq(S)[i] = g
<1> DEFINE n == Cardinality(S)
           f == SetToSeq(S)
<1>1. IsFiniteSet(S) /\ n \in Nat
  BY GrantIDsAssumption, FS_Subset, FS_CardinalityType
<1>2. IsFiniteSet(1 .. n) /\ Cardinality(1 .. n) = n
  <2> HIDE DEF n
  <2> QED  BY <1>1, FS_Interval
<1>3. PICK h : h \in Bijection(1 .. n, S)
  BY <1>1, <1>2, FS_SameCardinalityBij DEF ExistsBijection
<1>4. h \in [1 .. n -> S] /\ IsInjective(h)
  BY <1>3 DEF Bijection, Injection, IsInjective
<1>5. f \in [1 .. n -> S] /\ IsInjective(f)
  BY <1>4 DEF SetToSeq
<1> HIDE DEF f, n
<1>6. f \in Injection(1 .. n, S)
  BY <1>5 DEF Injection
<1>7. f \in Surjection(1 .. n, S)
  BY <1>1, <1>2, <1>6, FS_Injection DEF n
<1>8. \A g \in S : \E i \in 1 .. n : f[i] = g
  BY <1>7 DEF Surjection
<1>9. f \in Seq(S) /\ Len(f) = n
  BY <1>1, <1>5, SeqDef
<1> QED  BY <1>5, <1>8, <1>9 DEF f

LEMMA LogFacts ==
    ASSUME log \in Seq(Events)
    PROVE  /\ Len(log) \in Nat /\ DOMAIN log = 1 .. Len(log)
           /\ \A i \in 1 .. Len(log) : log[i] \in Events
OBVIOUS

\* The role keys of the project grant are those of one of the events.
LEMMA ProjectGrantKeysType ==
    ASSUME log \in Seq(Events), NEW n \in 0 .. Len(log) PROVE ProjectGrantKeysOf(n) \in Seq(Roles)
<1> DEFINE C == {i \in 1 .. n : log[i].type \in {"grantAdded", "grantChanged", "grantCascadeChanged"}}
<1>1. CASE C = {}
  BY <1>1 DEF ProjectGrantKeysOf
<1>2. CASE C # {}
  <2> DEFINE T == {n - i : i \in C}
  <2>1. T \subseteq Nat /\ T # {} /\ n \in Nat
    <3>1. n \in Nat
      OBVIOUS
    <3>2. PICK i \in C : TRUE
      BY <1>2
    <3>3. n - i \in T
      BY <3>2
    <3> QED  BY <3>1, <3>3
  <2>2. PICK x \in T : \A y \in T : ~(<<y, x>> \in OpToRel(<, Nat))
    <3> HIDE DEF T
    <3> QED  BY <2>1, NatLessThanWellFounded, WFMin
  <2>3. PICK m \in C : x = n - m
    OBVIOUS
  <2>4. ASSUME NEW i \in C PROVE i <= m
    <3>1. n - i \in T /\ n - i \in Nat /\ n - m \in Nat /\ i \in Nat /\ m \in Nat
      OBVIOUS
    <3>2. ~(n - i < n - m)
      BY <2>2, <2>3, <3>1 DEF OpToRel
    <3> QED  BY <2>1, <3>1, <3>2
  <2>5. \A i \in C : m >= i
    <3>1. \A i \in C : i \in Nat
      OBVIOUS
    <3> QED  BY <2>4, <3>1
  <2>6. Max(C) \in C
    <3> HIDE DEF C
    <3> QED  BY <2>5 DEF Max
  <2>7. Max(C) \in 1 .. Len(log)
    <3>1. Max(C) \in 1 .. n
      BY <2>6
    <3> HIDE DEF C
    <3> QED  BY <3>1, LogFacts
  <2>8. log[Max(C)].keys \in Seq(Roles)
    <3> HIDE DEF C
    <3> QED  BY <2>7, LogFacts, EventFacts
  <2>9. ProjectGrantKeysOf(n) = log[Max(C)].keys
    BY <1>2 DEF ProjectGrantKeysOf
  <2> QED  BY <2>8, <2>9
<1> QED  BY <1>1, <1>2

-----------------------------------------------------------------------------
(* The write model of a user grant                                         *)

\* The write model after one event more is one step of Reduce further.
ModelSteps ==
    \A g \in GrantIDs :
        /\ UserGrantOf(0, g) = NotAdded
        /\ \A n \in 0 .. Len(log) : UserGrantOf(n, g) \in Models
        /\ \A n \in 1 .. Len(log) :
              UserGrantOf(n, g) = IF IsAbout(log[n], g) THEN Reduce(UserGrantOf(n - 1, g), log[n])
                                  ELSE UserGrantOf(n - 1, g)

LEMMA ModelLoop == log \in Seq(Events) => ModelSteps
<1> SUFFICES ASSUME log \in Seq(Events), NEW g \in GrantIDs
             PROVE  /\ UserGrantOf(0, g) = NotAdded
                    /\ \A n \in 0 .. Len(log) : UserGrantOf(n, g) \in Models
                    /\ \A n \in 1 .. Len(log) :
                          UserGrantOf(n, g) = IF IsAbout(log[n], g) THEN Reduce(UserGrantOf(n - 1, g), log[n])
                                              ELSE UserGrantOf(n - 1, g)
  BY DEF ModelSteps
<1> DEFINE One(m, i) == IF IsAbout(log[i], g) THEN Reduce(m, log[i]) ELSE m
           F == [i \in Nat |-> [m \in Models |-> IF i \in 1 .. Len(log) THEN One(m, i) ELSE m]]
<1>1. \A i \in 1 .. Len(log), m \in Models : One(m, i) \in Models
  BY LogFacts, ReduceType
<1>2. F \in [Nat -> [Models -> Models]] /\ \A i \in 1 .. Len(log), m \in Models : F[i][m] = One(m, i)
  <2>1. \A i \in 1 .. Len(log) : i \in Nat
    OBVIOUS
  <2> HIDE DEF One
  <2> QED  BY <1>1, <2>1
<1> HIDE DEF F
<1>3. PICK h : Iterates(h, Models, NotAdded, F, Len(log))
  BY <1>2, LogFacts, Constants, Iterated
<1>4. /\ h[0] = NotAdded /\ \A i \in 0 .. Len(log) : h[i] \in Models
      /\ \A i \in 1 .. Len(log) : h[i] = One(h[i - 1], i)
  <2>1. h[0] = NotAdded /\ \A i \in 0 .. Len(log) : h[i] \in Models
    BY <1>3 DEF Iterates
  <2>2. ASSUME NEW i \in 1 .. Len(log) PROVE h[i] = One(h[i - 1], i)
    <3>1. i - 1 \in 0 .. Len(log)
      BY LogFacts
    <3>2. h[i] = F[i][h[i - 1]]
      BY <1>3 DEF Iterates
    <3> HIDE DEF One
    <3> QED  BY <1>2, <2>1, <3>1, <3>2
  <2> HIDE DEF One
  <2> QED  BY <2>1, <2>2
<1>5. ASSUME NEW n \in 0 .. Len(log) PROVE UserGrantOf(n, g) = h[n]
  <2> DEFINE Fun(f) == [i \in 0 .. n |-> IF i = 0 THEN NotAdded
                           ELSE IF IsAbout(log[i], g) THEN Reduce(f[i - 1], log[i]) ELSE f[i - 1]]
             M == CHOOSE f : f = Fun(f)
             k == [i \in 0 .. n |-> h[i]]
  <2>1. n \in Nat /\ n <= Len(log) /\ Len(log) \in Nat
    BY LogFacts
  <2>2. ASSUME NEW i \in 0 .. n
        PROVE  k[i] = IF i = 0 THEN NotAdded
                      ELSE IF IsAbout(log[i], g) THEN Reduce(k[i - 1], log[i]) ELSE k[i - 1]
    <3>1. CASE i = 0
      BY <1>4, <2>1, <3>1
    <3>2. CASE i # 0
      <4>1. i \in 1 .. Len(log) /\ i - 1 \in 0 .. n
        BY <2>1, <3>2
      <4> QED  BY <1>4, <3>2, <4>1
    <3> QED  BY <3>1, <3>2
  <2>3. k = Fun(k)
    BY <2>2
  <2>4. M = Fun(M)
    <3> HIDE DEF Fun, k
    <3> QED  BY <2>3
  <2>5. UserGrantOf(n, g) = M[n]
    BY DEF UserGrantOf
  <2> DEFINE S == {j \in Nat : j <= n => M[j] = h[j]}
  <2>6. 0 \in S
    <3>1. M[0] = NotAdded
      <4> HIDE DEF M
      <4> QED  BY <2>1, <2>4
    <3> HIDE DEF M
    <3> QED  BY <1>4, <3>1
  <2>7. ASSUME NEW j \in Nat, j \in S PROVE j + 1 \in S
    <3> SUFFICES ASSUME j + 1 <= n PROVE M[j + 1] = h[j + 1]
      OBVIOUS
    <3>1. j + 1 \in 0 .. n /\ j + 1 \in 1 .. Len(log) /\ j + 1 # 0 /\ (j + 1) - 1 = j /\ j <= n
      BY <2>1
    <3>2. M[j + 1] = One(M[j], j + 1)
      <4> HIDE DEF M
      <4> QED  BY <2>4, <3>1
    <3>3. M[j] = h[j]
      BY <2>7, <3>1
    <3>4. h[j + 1] = One(h[j], j + 1)
      <4> HIDE DEF One
      <4> QED  BY <1>4, <3>1
    <3> HIDE DEF M, One
    <3> QED  BY <3>2, <3>3, <3>4
  <2>8. n \in S
    <3> HIDE DEF S
    <3> QED  BY <2>1, <2>6, <2>7, SetInduction
  <2> HIDE DEF M
  <2> QED  BY <2>5, <2>8
<1>6. UserGrantOf(0, g) = NotAdded
  BY <1>4, <1>5, LogFacts
<1>7. \A n \in 0 .. Len(log) : UserGrantOf(n, g) \in Models
  BY <1>4, <1>5
<1>8. ASSUME NEW n \in 1 .. Len(log)
      PROVE  UserGrantOf(n, g) = One(UserGrantOf(n - 1, g), n)
  <2>1. n \in 0 .. Len(log) /\ n - 1 \in 0 .. Len(log)
    BY LogFacts
  <2> HIDE DEF One
  <2> QED  BY <1>4, <1>5, <2>1
<1> QED  BY <1>6, <1>7, <1>8

-----------------------------------------------------------------------------
(* The invariant                                                           *)

AddedAs(i, g, source) == log[i].type = "added" /\ log[i].id = g /\ log[i].source = source
SourceIs(n, g, source) == \E i \in 1 .. n : AddedAs(i, g, source)
RemovedBy(n, g) == \E i \in 1 .. n : log[i].type \in Removals /\ log[i].id = g

\* The events of a user grant begin with one added event, and a removal names the source of it.
LogInv ==
    /\ \A j \in 1 .. Len(log) :
          log[j].type \in UserGrantTypes => log[j].id \in GrantIDs /\ AddedBy(j, log[j].id)
    /\ \A i, j \in 1 .. Len(log) :
          log[i].type = "added" /\ log[j].type = "added" /\ log[i].id = log[j].id => i = j
    /\ \A i, j \in 1 .. Len(log) :
          log[i].type = "added" /\ log[j].type \in Removals /\ log[i].id = log[j].id =>
              log[i].source = log[j].source

\* A request adds one user grant nobody knows, or is about user grants that were added.
Adds(c, g) ==
    /\ Len(request[c].events) = 1
    /\ request[c].events[1].type = "added" /\ request[c].events[1].id = g
    /\ \A i \in 1 .. Len(log) : log[i].id # g
    /\ \A d \in Clients \ {c} :
          request[d].step = "checked" => \A e \in Range(request[d].events) : e.id # g
Follows(e) ==
    /\ e.type # "added"
    /\ e.type \notin UserGrantTypes => e.id = NoID
    /\ e.type \in UserGrantTypes =>
          \E i \in 1 .. Len(log) :
              /\ log[i].type = "added" /\ log[i].id = e.id
              /\ e.type \in Removals => log[i].source = e.source
RequestInv(c) ==
    request[c].step = "checked" =>
        \/ \E g \in GrantIDs : Adds(c, g)
        \/ \A e \in Range(request[c].events) : Follows(e)

\* A live user grant has its constraint, unless a second removal has released it.
Live(g) == AddedBy(Len(log), g) /\ ~RemovedBy(Len(log), g)
Claim(source) == <<"user_grant", source>>
ClaimInv ==
    RemovedTwice \/
    \A g \in GrantIDs : \A s \in Sources :
        Live(g) /\ SourceIs(Len(log), g, s) =>
            /\ Claim(s) \in claims
            /\ \A h \in GrantIDs : Live(h) /\ SourceIs(Len(log), h, s) => h = g

\* A row says what the events up to the position say; where there is none there is a reason.
OrphanedBy(n, g) ==
    \E i \in 1 .. n : \/ log[i].type \in {"userRemoved", "projectRemoved"}
                      \/ log[i].type = "grantRemoved" /\ SourceIs(n, g, "grant")
RowInv(table, n, g) ==
    LET model == UserGrantOf(n, g) IN
    IF table[g] = NoRow
    THEN ~AddedBy(n, g) \/ RemovedBy(n, g) \/ OrphanedBy(n, g)
    ELSE /\ AddedBy(n, g) /\ IsLive(model)
         /\ table[g].source = model.source /\ table[g].state = model.state
         /\ table[g].keys \subseteq Range(model.keys)
Tables == [GrantIDs -> [source : Sources, state : {"active", "inactive"},
                        keys : SUBSET Roles] \cup {NoRow}]
TableInv(table, n) == table \in Tables /\ \A g \in GrantIDs : RowInv(table, n, g)

\* A removal that cascades has every user grant on the way that was known when it was asked for,
\* except for those it could not read.
Known(command, at, g) ==
    /\ AddedBy(at, g) /\ Live(g) /\ ~OrphanedBy(Len(log), g)
    /\ \/ command \in {"RemoveProject", "RemoveUser"}
       \/ command = "RemoveProjectGrant" /\ SourceIs(Len(log), g, "grant")
ReachInv(c) ==
    /\ request[c].step = "asked" =>
          /\ request[c].at <= Len(log)
          /\ \A g \in GrantIDs : Known(request[c].command, request[c].at, g) => g \in request[c].ids
    /\ request[c].step = "checked" =>
          /\ request[c].at <= Len(log)
          /\ \A g \in GrantIDs :
                Known(request[c].command, request[c].at, g) =>
                    \/ g \in request[c].unread
                    \/ \E e \in Range(request[c].events) : e.type \in Removals /\ e.id = g

GrantsInv ==
    /\ TypeOK /\ LogInv /\ ClaimInv
    /\ \A g \in GrantIDs : RowInv(rows, position, g)
    /\ \A c \in Clients : RequestInv(c) /\ ReachInv(c)

-----------------------------------------------------------------------------
(* What the write model comes to                                           *)

Closed ==
    \A g \in GrantIDs : \A n \in 0 .. Len(log) :
        LET model == UserGrantOf(n, g) IN
        /\ ~AddedBy(n, g) => model = NotAdded
        /\ AddedBy(n, g) => /\ model.state # "unspecified"
                            /\ model.state = "removed" <=> RemovedBy(n, g)
                            /\ \A s \in Sources : SourceIs(n, g, s) => model.source = s

LEMMA OneMore ==
    ASSUME NEW n \in Nat, NEW g
    PROVE  /\ AddedBy(n + 1, g) <=> AddedBy(n, g) \/ (log[n + 1].type = "added" /\ log[n + 1].id = g)
           /\ RemovedBy(n + 1, g) <=>
                 RemovedBy(n, g) \/ (log[n + 1].type \in Removals /\ log[n + 1].id = g)
           /\ \A s : SourceIs(n + 1, g, s) <=> SourceIs(n, g, s) \/ AddedAs(n + 1, g, s)
<1>1. /\ \A i \in 1 .. n + 1 : i = n + 1 \/ i \in 1 .. n
      /\ \A i \in 1 .. n : i \in 1 .. n + 1
      /\ n + 1 \in 1 .. n + 1
  OBVIOUS
<1> QED  BY <1>1 DEF AddedBy, RemovedBy, SourceIs

LEMMA NoneYet ==
    ASSUME NEW g PROVE ~AddedBy(0, g) /\ ~RemovedBy(0, g) /\ \A s : ~SourceIs(0, g, s)
<1>1. 1 .. 0 = {}
  OBVIOUS
<1> QED  BY <1>1 DEF AddedBy, RemovedBy, SourceIs

LEMMA ClosedForm == log \in Seq(Events) /\ LogInv => Closed
<1> SUFFICES ASSUME log \in Seq(Events), LogInv, NEW g \in GrantIDs PROVE
        \A n \in 0 .. Len(log) :
            LET model == UserGrantOf(n, g) IN
            /\ ~AddedBy(n, g) => model = NotAdded
            /\ AddedBy(n, g) => /\ model.state # "unspecified"
                                /\ model.state = "removed" <=> RemovedBy(n, g)
                                /\ \A s \in Sources : SourceIs(n, g, s) => model.source = s
  BY DEF Closed
<1> DEFINE Right(n) == /\ ~AddedBy(n, g) => UserGrantOf(n, g) = NotAdded
                       /\ AddedBy(n, g) =>
                             /\ UserGrantOf(n, g).state # "unspecified"
                             /\ UserGrantOf(n, g).state = "removed" <=> RemovedBy(n, g)
                             /\ \A s \in Sources : SourceIs(n, g, s) => UserGrantOf(n, g).source = s
           S == {n \in Nat : n <= Len(log) => Right(n)}
<1>1. ModelSteps
  BY ModelLoop
<1>2. 0 \in S
  BY <1>1, NoneYet DEF ModelSteps
<1>3. ASSUME NEW n \in Nat, n \in S PROVE n + 1 \in S
  <2> SUFFICES ASSUME n + 1 <= Len(log) PROVE Right(n + 1)
    OBVIOUS
  <2> DEFINE e == log[n + 1]
             m == UserGrantOf(n, g)
             k == UserGrantOf(n + 1, g)
  <2>1. n + 1 \in 1 .. Len(log) /\ n \in 0 .. Len(log) /\ (n + 1) - 1 = n /\ n <= Len(log)
    BY LogFacts
  <2>2. Right(n)
    BY <1>3, <2>1
  <2>3. k = (IF IsAbout(e, g) THEN Reduce(m, e) ELSE m) /\ m \in Models /\ e \in Events
    BY <1>1, <2>1, LogFacts DEF ModelSteps
  <2>4. CASE ~IsAbout(e, g)
    <3>1. ~(e.type = "added" /\ e.id = g) /\ ~(e.type \in Removals /\ e.id = g)
      BY <2>4 DEF IsAbout, UserGrantTypes, Removals
    <3>2. \A s : ~AddedAs(n + 1, g, s)
      BY <3>1 DEF AddedAs
    <3>3. k = m
      BY <2>3, <2>4
    <3>4. AddedBy(n + 1, g) <=> AddedBy(n, g)
      BY <3>1, OneMore
    <3>5. RemovedBy(n + 1, g) <=> RemovedBy(n, g)
      BY <3>1, OneMore
    <3>6. \A s : SourceIs(n + 1, g, s) <=> SourceIs(n, g, s)
      BY <3>2, OneMore
    <3>7. ~AddedBy(n + 1, g) => k = NotAdded
      BY <2>2, <3>3, <3>4
    <3>8. AddedBy(n + 1, g) => k.state # "unspecified" /\ (k.state = "removed" <=> RemovedBy(n + 1, g))
      <4> HIDE DEF k, m
      <4> QED  BY <2>2, <3>3, <3>4, <3>5, Zenon DEF m
    <3>9. AddedBy(n + 1, g) => \A s \in Sources : SourceIs(n + 1, g, s) => k.source = s
      BY <2>2, <3>3, <3>4, <3>6
    <3> QED  BY <3>7, <3>8, <3>9
  <2>5. CASE IsAbout(e, g) /\ e.type = "added"
    <3>1. ASSUME NEW j \in 1 .. n, log[j].id = g, log[j].type \in UserGrantTypes PROVE FALSE
      <4>1. j \in 1 .. Len(log)
        BY <2>1, LogFacts
      <4>2. PICK i \in 1 .. j : log[i].type = "added" /\ log[i].id = g
        BY <3>1, <4>1 DEF LogInv, AddedBy
      <4>3. i \in 1 .. Len(log) /\ i # n + 1
        BY <2>1, LogFacts
      <4> QED  BY <2>1, <2>5, <4>2, <4>3 DEF LogInv, IsAbout
    <3>2. ~RemovedBy(n, g) /\ \A s : ~SourceIs(n, g, s)
      BY <3>1 DEF RemovedBy, SourceIs, AddedAs, Removals, UserGrantTypes
    <3>3. k = [state |-> "active", source |-> e.source, keys |-> e.keys]
      BY <2>3, <2>5 DEF Reduce
    <3>4. e.type \notin Removals /\ AddedBy(n + 1, g)
      BY <2>5, OneMore DEF Removals, IsAbout
    <3>5. \A s \in Sources : AddedAs(n + 1, g, s) => s = e.source
      BY DEF AddedAs
    <3>6. ~RemovedBy(n + 1, g)
      BY <3>2, <3>4, OneMore
    <3>7. \A s \in Sources : SourceIs(n + 1, g, s) => s = e.source
      BY <3>2, <3>5, OneMore
    <3>8. k.state = "active" /\ k.source = e.source
      BY <3>3
    <3> QED  BY <3>4, <3>6, <3>7, <3>8
  <2>6. CASE IsAbout(e, g) /\ e.type # "added"
    <3>1. AddedBy(n + 1, g) /\ AddedBy(n, g)
      BY <2>1, <2>6, OneMore DEF LogInv, IsAbout
    <3>2. \A s \in Sources : SourceIs(n + 1, g, s) <=> SourceIs(n, g, s)
      BY <2>6, OneMore DEF AddedAs
    <3>3. RemovedBy(n + 1, g) <=> RemovedBy(n, g) \/ e.type \in Removals
      BY <2>6, OneMore DEF IsAbout
    <3>4. /\ k.source = m.source
          /\ k.state # "unspecified"
          /\ k.state = "removed" <=> m.state = "removed" \/ e.type \in Removals
      BY <2>2, <2>3, <2>6, <3>1 DEF Reduce, Models, Removals, IsAbout, UserGrantTypes
    <3> QED  BY <2>2, <3>1, <3>2, <3>3, <3>4
  <2> QED  BY <2>4, <2>5, <2>6
<1>4. Nat \subseteq S
  <2> HIDE DEF S
  <2> QED  BY <1>2, <1>3, SetInduction
<1>5. \A n \in 0 .. Len(log) : Right(n)
  BY <1>4, LogFacts
<1> QED  BY <1>5

\* The write model of a command: live from the added event to the first removal.
LiveFacts ==
    \A g \in GrantIDs :
        /\ IsLive(UserGrant(g)) <=> Live(g)
        /\ UserGrant(g).state = "removed" <=> AddedBy(Len(log), g) /\ RemovedBy(Len(log), g)
        /\ Live(g) => SourceIs(Len(log), g, UserGrant(g).source)
        /\ \A s \in Sources : SourceIs(Len(log), g, s) => UserGrant(g).source = s
        /\ UserGrant(g) \in Models

LEMMA LiveClosed == log \in Seq(Events) /\ LogInv => LiveFacts
<1> SUFFICES ASSUME log \in Seq(Events), LogInv, NEW g \in GrantIDs
             PROVE  /\ IsLive(UserGrant(g)) <=> Live(g)
                    /\ UserGrant(g).state = "removed" <=> AddedBy(Len(log), g) /\ RemovedBy(Len(log), g)
                    /\ Live(g) => SourceIs(Len(log), g, UserGrant(g).source)
                    /\ \A s \in Sources : SourceIs(Len(log), g, s) => UserGrant(g).source = s
                    /\ UserGrant(g) \in Models
  BY DEF LiveFacts
<1>1. Len(log) \in 0 .. Len(log) /\ Closed /\ ModelSteps
  BY LogFacts, ClosedForm, ModelLoop
<1>2. UserGrant(g) \in Models
  BY <1>1 DEF UserGrant, ModelSteps
<1>3. /\ ~AddedBy(Len(log), g) => UserGrant(g) = NotAdded
      /\ AddedBy(Len(log), g) =>
            /\ UserGrant(g).state # "unspecified"
            /\ UserGrant(g).state = "removed" <=> RemovedBy(Len(log), g)
            /\ \A s \in Sources : SourceIs(Len(log), g, s) => UserGrant(g).source = s
  BY <1>1 DEF UserGrant, Closed
<1>4. NotAdded.state = "unspecified"
  BY DEF NotAdded
<1>5. \A s : SourceIs(Len(log), g, s) => AddedBy(Len(log), g)
  BY DEF SourceIs, AddedBy, AddedAs
<1>6. AddedBy(Len(log), g) => SourceIs(Len(log), g, UserGrant(g).source)
  <2> SUFFICES ASSUME AddedBy(Len(log), g) PROVE SourceIs(Len(log), g, UserGrant(g).source)
    OBVIOUS
  <2>1. PICK i \in 1 .. Len(log) : log[i].type = "added" /\ log[i].id = g
    BY DEF AddedBy
  <2>2. log[i].source \in Sources /\ SourceIs(Len(log), g, log[i].source)
    BY <2>1, LogFacts, EventFacts DEF SourceIs, AddedAs
  <2> QED  BY <1>3, <2>2
<1>7. UserGrant(g).state \in States
  BY <1>2 DEF Models
<1>8. IsLive(UserGrant(g)) <=> Live(g)
  BY <1>3, <1>4, <1>7 DEF IsLive, Live, States
<1>9. UserGrant(g).state = "removed" <=> AddedBy(Len(log), g) /\ RemovedBy(Len(log), g)
  BY <1>3, <1>4
<1> QED  BY <1>2, <1>3, <1>5, <1>6, <1>8, <1>9 DEF Live
-----------------------------------------------------------------------------
(* The log grows                                                           *)

LEMMA NextModel == (log \in Seq(Events) => ModelSteps)'
<1>1. log \in Seq(Events) => ModelSteps
  BY ModelLoop
<1> QED  BY <1>1, PTL

LEMMA NextLive == (log \in Seq(Events) /\ LogInv => LiveFacts /\ Closed)'
<1>1. log \in Seq(Events) /\ LogInv => LiveFacts /\ Closed
  BY LiveClosed, ClosedForm
<1> QED  BY <1>1, PTL

\* The log of the next state has the events of this one, and behind them those of a push.
Extends(events) ==
    /\ Len(log') = Len(log) + Len(events) /\ Len(log) \in Nat /\ Len(log') \in Nat
    /\ \A i \in 1 .. Len(log) : i \in 1 .. Len(log') /\ log'[i] = log[i]
    /\ \A j \in 1 .. Len(log') :
          \/ j \in 1 .. Len(log) /\ log'[j] = log[j]
          \/ j > Len(log) /\ \E i \in 1 .. Len(events) : j = Len(log) + i /\ log'[j] = events[i]
    /\ \A i \in 1 .. Len(events) :
          Len(log) + i \in 1 .. Len(log') /\ log'[Len(log) + i] = events[i]

LEMMA LogGrows ==
    ASSUME log \in Seq(Events), NEW events \in Seq(Events), log' = log \o events
    PROVE  log' \in Seq(Events) /\ Extends(events)
<1>1. log' \in Seq(Events)
  OBVIOUS
<1>2. /\ Len(log') = Len(log) + Len(events) /\ Len(log) \in Nat /\ Len(events) \in Nat
      /\ Len(log') \in Nat
  OBVIOUS
<1>3. \A i \in 1 .. Len(log') :
          log'[i] = IF i <= Len(log) THEN log[i] ELSE events[i - Len(log)]
  OBVIOUS
<1> HIDE DEF Events
<1>4. \A i \in 1 .. Len(log) : i \in 1 .. Len(log') /\ log'[i] = log[i]
  BY <1>2, <1>3
<1>5. ASSUME NEW i \in 1 .. Len(events)
      PROVE  Len(log) + i \in 1 .. Len(log') /\ log'[Len(log) + i] = events[i]
  <2>1. Len(log) + i \in 1 .. Len(log') /\ ~(Len(log) + i <= Len(log)) /\ (Len(log) + i) - Len(log) = i
    BY <1>2
  <2> QED  BY <1>3, <2>1
<1>6. ASSUME NEW j \in 1 .. Len(log'), j \notin 1 .. Len(log)
      PROVE  j > Len(log) /\ \E i \in 1 .. Len(events) : j = Len(log) + i /\ log'[j] = events[i]
  <2>1. j - Len(log) \in 1 .. Len(events) /\ j = Len(log) + (j - Len(log)) /\ j > Len(log)
    BY <1>2, <1>6
  <2> QED  BY <1>5, <2>1
<1> QED  BY <1>1, <1>2, <1>4, <1>5, <1>6 DEF Extends

\* What the first events say does not change.
LEMMA PastKept ==
    ASSUME NEW events, Extends(events), NEW n \in 0 .. Len(log), NEW g
    PROVE  /\ AddedBy(n, g)' <=> AddedBy(n, g)
           /\ RemovedBy(n, g)' <=> RemovedBy(n, g)
           /\ \A s : SourceIs(n, g, s)' <=> SourceIs(n, g, s)
           /\ OrphanedBy(n, g)' <=> OrphanedBy(n, g)
<1>1. \A i \in 1 .. n : log'[i] = log[i]
  BY DEF Extends
<1>2. AddedBy(n, g)' <=> AddedBy(n, g)
  BY <1>1 DEF AddedBy
<1>3. RemovedBy(n, g)' <=> RemovedBy(n, g)
  BY <1>1 DEF RemovedBy
<1>4. \A s : SourceIs(n, g, s)' <=> SourceIs(n, g, s)
  BY <1>1 DEF SourceIs, AddedAs
<1>5. OrphanedBy(n, g)' <=> OrphanedBy(n, g)
  BY <1>1, <1>4 DEF OrphanedBy
<1> QED  BY <1>2, <1>3, <1>4, <1>5

LEMMA ModelKept ==
    ASSUME log \in Seq(Events), log' \in Seq(Events), NEW events, Extends(events), NEW g \in GrantIDs
    PROVE  \A n \in 0 .. Len(log) : UserGrantOf(n, g)' = UserGrantOf(n, g)
<1> DEFINE S == {n \in Nat : n <= Len(log) => UserGrantOf(n, g)' = UserGrantOf(n, g)}
<1>1. ModelSteps
  BY ModelLoop
<1>2. ModelSteps'
  BY NextModel
<1>3. 0 \in S
  BY <1>1, <1>2 DEF ModelSteps
<1>4. ASSUME NEW n \in Nat, n \in S PROVE n + 1 \in S
  <2> SUFFICES ASSUME n + 1 <= Len(log) PROVE UserGrantOf(n + 1, g)' = UserGrantOf(n + 1, g)
    OBVIOUS
  <2>1. n + 1 \in 1 .. Len(log) /\ (n + 1) - 1 = n /\ n <= Len(log)
    BY DEF Extends
  <2>2. n + 1 \in 1 .. Len(log') /\ log'[n + 1] = log[n + 1]
    BY <2>1 DEF Extends
  <2>3. UserGrantOf(n, g)' = UserGrantOf(n, g)
    BY <1>4, <2>1
  <2>4. UserGrantOf(n + 1, g) = IF IsAbout(log[n + 1], g) THEN Reduce(UserGrantOf(n, g), log[n + 1])
                                ELSE UserGrantOf(n, g)
    BY <1>1, <2>1 DEF ModelSteps
  <2>5. UserGrantOf(n + 1, g)' = IF IsAbout(log'[n + 1], g) THEN Reduce(UserGrantOf(n, g)', log'[n + 1])
                                 ELSE UserGrantOf(n, g)'
    BY <1>2, <2>1, <2>2 DEF ModelSteps
  <2> QED  BY <2>2, <2>3, <2>4, <2>5
<1>5. Nat \subseteq S
  <2> HIDE DEF S
  <2> QED  BY <1>3, <1>4, SetInduction
<1> QED  BY <1>5 DEF Extends

-----------------------------------------------------------------------------
(* The rows of the projection                                              *)

LEMMA OrphanedLater ==
    ASSUME NEW m \in Nat, NEW n \in Nat, m <= n, NEW g
    PROVE  /\ AddedBy(m, g) => AddedBy(n, g)
           /\ RemovedBy(m, g) => RemovedBy(n, g)
           /\ \A s : SourceIs(m, g, s) => SourceIs(n, g, s)
           /\ OrphanedBy(m, g) => OrphanedBy(n, g)
<1>1. \A i \in 1 .. m : i \in 1 .. n
  OBVIOUS
<1>2. AddedBy(m, g) => AddedBy(n, g)
  BY <1>1 DEF AddedBy
<1>3. RemovedBy(m, g) => RemovedBy(n, g)
  BY <1>1 DEF RemovedBy
<1>4. \A s : SourceIs(m, g, s) => SourceIs(n, g, s)
  BY <1>1 DEF SourceIs
<1>5. OrphanedBy(m, g) => OrphanedBy(n, g)
  BY <1>1, <1>4 DEF OrphanedBy
<1> QED  BY <1>2, <1>3, <1>4, <1>5

LEMMA ProjectType ==
    ASSUME NEW table \in Tables, NEW e \in Events PROVE Project(table, e) \in Tables
<1> DEFINE R == [source : Sources, state : {"active", "inactive"}, keys : SUBSET Roles]
<1>1. ASSUME NEW g \in GrantIDs PROVE Project(table, e)[g] \in R \cup {NoRow}
  <2>1. table[g] \in R \/ table[g] = NoRow
    BY DEF Tables
  <2>2. e.source \in Sources /\ Range(e.keys) \in SUBSET Roles
    BY EventFacts
  <2>3. CASE e.type = "added" /\ e.id = g
    BY <2>2, <2>3 DEF Project
  <2>4. CASE ~(e.type = "added" /\ e.id = g) /\ table[g] = NoRow
    BY <2>4 DEF Project
  <2>5. CASE ~(e.type = "added" /\ e.id = g) /\ table[g] # NoRow
    <3> DEFINE t == table[g]
    <3>1. t \in R
      BY <2>1, <2>5
    <3>2. \A k \in SUBSET Roles : [t EXCEPT !.keys = k] \in R
      BY <3>1
    <3>3. [t EXCEPT !.state = "inactive"] \in R
      BY <3>1
    <3>4. t.keys \ Range(e.keys) \in SUBSET Roles /\ t.keys \cap Range(e.keys) \in SUBSET Roles
      BY <3>1
    <3>5. Project(table, e)[g] \in {t, NoRow, [t EXCEPT !.keys = Range(e.keys)], [t EXCEPT !.state = "inactive"],
              [t EXCEPT !.keys = @ \ Range(e.keys)], [t EXCEPT !.keys = @ \cap Range(e.keys)]}
      BY <2>5 DEF Project
    <3> HIDE DEF t, R
    <3> QED  BY <2>2, <3>1, <3>2, <3>3, <3>4, <3>5
  <2> QED  BY <2>3, <2>4, <2>5
<1>2. Project(table, e) = [g \in GrantIDs |-> Project(table, e)[g]]
  BY DEF Project
<1> HIDE DEF R
<1>3. Project(table, e) \in [GrantIDs -> R \cup {NoRow}]
  BY <1>1, <1>2
<1> QED  BY <1>3 DEF Tables, R

\* Reducing one event more keeps the rows in line with the events.
LEMMA RowStep ==
    ASSUME log \in Seq(Events), LogInv, NEW n \in Nat, n + 1 <= Len(log), NEW table, TableInv(table, n),
           log[n + 1].type # "reactivated"
    PROVE  TableInv(Project(table, log[n + 1]), n + 1)
<1> DEFINE e == log[n + 1]
<1>1. n + 1 \in 1 .. Len(log) /\ n \in 0 .. Len(log) /\ n + 1 \in 0 .. Len(log) /\ (n + 1) - 1 = n
  BY LogFacts
<1>2. e \in Events /\ table \in Tables
  BY <1>1, LogFacts DEF TableInv
<1>3. Closed /\ ModelSteps
  BY ClosedForm, ModelLoop
<1>4. ASSUME NEW g \in GrantIDs PROVE RowInv(Project(table, e), n + 1, g)
  <2> DEFINE m == UserGrantOf(n, g)
             k == UserGrantOf(n + 1, g)
             t == table[g]
             u == Project(table, e)[g]
  <2>1. k = (IF IsAbout(e, g) THEN Reduce(m, e) ELSE m) /\ m \in Models /\ k \in Models
    BY <1>1, <1>3 DEF ModelSteps
  <2>2. RowInv(table, n, g)
    BY DEF TableInv
  <2>3. t = NoRow => ~AddedBy(n, g) \/ RemovedBy(n, g) \/ OrphanedBy(n, g)
    BY <2>2 DEF RowInv
  <2>4. t # NoRow => /\ AddedBy(n, g) /\ IsLive(m)
                     /\ t.source = m.source /\ t.state = m.state /\ t.keys \subseteq Range(m.keys)
    BY <2>2 DEF RowInv
  <2>5. /\ u = NoRow => ~AddedBy(n + 1, g) \/ RemovedBy(n + 1, g) \/ OrphanedBy(n + 1, g)
        /\ u # NoRow => /\ AddedBy(n + 1, g) /\ IsLive(k)
                        /\ u.source = k.source /\ u.state = k.state /\ u.keys \subseteq Range(k.keys)
    <3>1. CASE e.type = "added" /\ e.id = g
      <4>1. u = [source |-> e.source, state |-> "active", keys |-> Range(e.keys)]
        BY <3>1 DEF Project
      <4>2. k = [state |-> "active", source |-> e.source, keys |-> e.keys]
        BY <2>1, <3>1 DEF Reduce, IsAbout, UserGrantTypes
      <4>3. u # NoRow
        <5>1. e.source \in Sources /\ NoRow.source = "none" /\ u.source = e.source
          BY <1>2, <4>1, EventFacts DEF NoRow
        <5> QED  BY <5>1 DEF Sources
      <4>4. AddedBy(n + 1, g)
        BY <3>1, OneMore
      <4>5. IsLive(k)
        BY <4>2 DEF IsLive
      <4> QED  BY <4>1, <4>2, <4>3, <4>4, <4>5
    <3>2. CASE ~(e.type = "added" /\ e.id = g) /\ t = NoRow
      <4>1. u = NoRow
        BY <3>2 DEF Project
      <4>2. AddedBy(n + 1, g) => AddedBy(n, g)
        BY <3>2, OneMore
      <4> QED  BY <2>3, <3>2, <4>1, <4>2, OrphanedLater
    <3>3. CASE ~(e.type = "added" /\ e.id = g) /\ t # NoRow /\ IsAbout(e, g)
      <4>1. /\ e.type \in {"changed", "cascadeChanged"} => u = [t EXCEPT !.keys = Range(e.keys)]
            /\ e.type \in Removals => u = NoRow
            /\ e.type = "deactivated" => u = [t EXCEPT !.state = "inactive"]
        BY <3>3 DEF Project, IsAbout, Removals
      <4>2. /\ e.type \in {"changed", "cascadeChanged"} => k = [m EXCEPT !.keys = e.keys]
            /\ e.type = "deactivated" => k = [m EXCEPT !.state = "inactive"]
        BY <2>1, <2>4, <3>3 DEF Reduce, IsLive
      <4>3. e.type \in {"changed", "cascadeChanged"} \/ e.type = "deactivated" \/ e.type \in Removals
        BY <3>3 DEF IsAbout, UserGrantTypes, Removals
      <4>4. AddedBy(n + 1, g)
        BY <2>4, <3>3, OneMore
      <4>5. t \in [source : Sources, state : {"active", "inactive"}, keys : SUBSET Roles]
        BY <1>2, <3>3 DEF Tables
      <4>6. CASE e.type \in {"changed", "cascadeChanged"}
        <5>1. u.source = t.source /\ u.state = t.state /\ u.keys = Range(e.keys)
          BY <4>1, <4>5, <4>6
        <5>2. k.source = m.source /\ k.state = m.state /\ k.keys = e.keys
          BY <2>1, <4>2, <4>6 DEF Models
        <5>3. u # NoRow
          BY <4>5, <5>1 DEF NoRow, Sources
        <5> QED  BY <2>4, <3>3, <4>4, <5>1, <5>2, <5>3 DEF IsLive
      <4>7. CASE e.type = "deactivated"
        <5>1. u.source = t.source /\ u.state = "inactive" /\ u.keys = t.keys
          BY <4>1, <4>5, <4>7
        <5>2. k.source = m.source /\ k.state = "inactive" /\ k.keys = m.keys
          BY <2>1, <4>2, <4>7 DEF Models
        <5>3. u # NoRow
          BY <4>5, <5>1 DEF NoRow, Sources
        <5> QED  BY <2>4, <3>3, <4>4, <5>1, <5>2, <5>3 DEF IsLive
      <4>8. CASE e.type \in Removals
        <5>1. RemovedBy(n + 1, g)
          BY <3>3, <4>8, OneMore DEF IsAbout
        <5> QED  BY <4>1, <4>8, <5>1
      <4> QED  BY <4>3, <4>6, <4>7, <4>8
    <3>4. CASE ~(e.type = "added" /\ e.id = g) /\ t # NoRow /\ ~IsAbout(e, g)
      <4>1. k = m /\ AddedBy(n + 1, g)
        BY <2>1, <2>4, <3>4, OneMore
      <4>2. t \in [source : Sources, state : {"active", "inactive"}, keys : SUBSET Roles]
        BY <1>2, <3>4 DEF Tables
      <4>3. \/ u = NoRow /\ e.type \in {"userRemoved", "projectRemoved"}
            \/ u = NoRow /\ e.type = "grantRemoved" /\ t.source = "grant"
            \/ u \in {t, [t EXCEPT !.keys = @ \ Range(e.keys)], [t EXCEPT !.keys = @ \cap Range(e.keys)]}
        BY <3>4 DEF Project, IsAbout, UserGrantTypes
      <4>4. CASE u = NoRow /\ e.type \in {"userRemoved", "projectRemoved"}
        <5>1. n + 1 \in 1 .. n + 1
          OBVIOUS
        <5>2. OrphanedBy(n + 1, g)
          BY <4>4, <5>1 DEF OrphanedBy
        <5> QED  BY <4>4, <5>2
      <4>5. CASE u = NoRow /\ e.type = "grantRemoved" /\ t.source = "grant"
        <5>1. PICK i \in 1 .. n : log[i].type = "added" /\ log[i].id = g
          BY <2>4, <3>4 DEF AddedBy
        <5>2. i \in 1 .. Len(log) /\ i \in 1 .. n + 1 /\ n + 1 \in 1 .. n + 1
          BY <1>1, LogFacts
        <5>3. log[i].source \in Sources /\ SourceIs(n, g, log[i].source)
          BY <5>1, <5>2, LogFacts, EventFacts DEF SourceIs, AddedAs
        <5>4. m.source = log[i].source
          BY <1>1, <1>3, <2>4, <3>4, <5>3 DEF Closed
        <5>5. SourceIs(n + 1, g, "grant")
          BY <2>4, <3>4, <4>5, <5>3, <5>4, OneMore
        <5>6. OrphanedBy(n + 1, g)
          BY <4>5, <5>2, <5>5 DEF OrphanedBy
        <5> QED  BY <4>5, <5>6
      <4>6. CASE u \in {t, [t EXCEPT !.keys = @ \ Range(e.keys)], [t EXCEPT !.keys = @ \cap Range(e.keys)]}
        <5>1. u.source = t.source /\ u.state = t.state /\ u.keys \subseteq t.keys
          BY <4>2, <4>6
        <5>2. u # NoRow
          BY <4>2, <5>1 DEF NoRow, Sources
        <5> QED  BY <2>4, <3>4, <4>1, <5>1, <5>2
      <4> QED  BY <4>3, <4>4, <4>5, <4>6
    <3> QED  BY <3>1, <3>2, <3>3, <3>4
  <2> QED  BY <2>5 DEF RowInv
<1> QED  BY <1>2, <1>4, ProjectType DEF TableInv

\* So does a trigger, which reduces all of them.
LEMMA ProjectedRows ==
    ASSUME log \in Seq(Events), LogInv, position \in 0 .. Len(log), TableInv(rows, position),
           \A n \in position + 1 .. Len(log) : Reducible(n)
    PROVE  TableInv(Projected, Len(log))
<1> DEFINE L == Len(log) - position
           F == [i \in Nat |-> [t \in Tables |-> IF i \in 1 .. L THEN Project(t, log[position + i]) ELSE t]]
           Fun(f) == [n \in position .. Len(log) |-> IF n = position THEN rows
                                                      ELSE Project(f[n - 1], log[n])]
           M == CHOOSE f : f = Fun(f)
<1>1. L \in Nat /\ position \in Nat /\ Len(log) \in Nat /\ position + L = Len(log)
  BY LogFacts
<1>2. \A i \in 1 .. L, t \in Tables : Project(t, log[position + i]) \in Tables
  <2>1. ASSUME NEW i \in 1 .. L, NEW t \in Tables PROVE Project(t, log[position + i]) \in Tables
    <3>1. position + i \in 1 .. Len(log)
      BY <1>1
    <3> QED  BY <3>1, LogFacts, ProjectType
  <2> QED  BY <2>1
<1> HIDE DEF L
<1>3. F \in [Nat -> [Tables -> Tables]] /\ \A i \in 1 .. L, t \in Tables : F[i][t] = Project(t, log[position + i])
  <2>1. \A i \in 1 .. L : i \in Nat
    BY <1>1
  <2> QED  BY <1>2, <2>1
<1> HIDE DEF F
<1>4. rows \in Tables
  BY DEF TableInv
<1>5. PICK h : Iterates(h, Tables, rows, F, L)
  BY <1>1, <1>3, <1>4, Iterated
<1>6. /\ h[0] = rows /\ \A i \in 0 .. L : h[i] \in Tables
      /\ \A i \in 1 .. L : h[i] = F[i][h[i - 1]]
  BY <1>5 DEF Iterates
<1> DEFINE k == [n \in position .. Len(log) |-> h[n - position]]
<1>7. ASSUME NEW n \in position .. Len(log)
      PROVE  k[n] = IF n = position THEN rows ELSE Project(k[n - 1], log[n])
  <2>1. CASE n = position
    BY <1>1, <1>6, <2>1
  <2>2. CASE n # position
    <3>1. /\ n - position \in 1 .. L /\ n - 1 \in position .. Len(log) /\ position + (n - position) = n
          /\ (n - position) - 1 = (n - 1) - position /\ (n - position) - 1 \in 0 .. L
      BY <1>1, <2>2
    <3>2. k[n] = h[n - position] /\ k[n - 1] = h[(n - position) - 1]
      BY <3>1
    <3> QED  BY <1>3, <1>6, <2>2, <3>1, <3>2
  <2> QED  BY <2>1, <2>2
<1>8. k = Fun(k)
  BY <1>7
<1>9. M = Fun(M)
  <2> HIDE DEF Fun, k
  <2> QED  BY <1>8
<1>10. Projected = M[Len(log)]
  BY DEF Projected
<1> DEFINE S == {i \in Nat : i <= L => TableInv(M[position + i], position + i)}
<1>11. 0 \in S
  <2>1. M[position] = rows /\ position + 0 = position
    <3> HIDE DEF M
    <3> QED  BY <1>1, <1>9
  <2> HIDE DEF M
  <2> QED  BY <2>1
<1>12. ASSUME NEW i \in Nat, i \in S PROVE i + 1 \in S
  <2> SUFFICES ASSUME i + 1 <= L PROVE TableInv(M[position + (i + 1)], position + (i + 1))
    OBVIOUS
  <2> DEFINE n == position + i
  <2>1. /\ position + (i + 1) = n + 1 /\ n \in Nat /\ n + 1 <= Len(log) /\ i <= L
        /\ n + 1 \in position .. Len(log) /\ n + 1 # position /\ (n + 1) - 1 = n
        /\ n + 1 \in position + 1 .. Len(log)
    BY <1>1
  <2>2. TableInv(M[n], n)
    BY <1>12, <2>1
  <2>3. M[n + 1] = Project(M[n], log[n + 1])
    <3> HIDE DEF M, n
    <3> QED  BY <1>9, <2>1
  <2>4. log[n + 1].type # "reactivated"
    BY <2>1 DEF Reducible
  <2> HIDE DEF M, n
  <2>5. TableInv(Project(M[n], log[n + 1]), n + 1)
    BY <2>1, <2>2, <2>4, RowStep
  <2> QED  BY <2>1, <2>3, <2>5
<1>13. L \in S
  <2> HIDE DEF S
  <2> QED  BY <1>1, <1>11, <1>12, SetInduction
<1>14. TableInv(M[position + L], position + L)
  <2> HIDE DEF M
  <2> QED  BY <1>1, <1>13
<1> HIDE DEF M
<1> QED  BY <1>1, <1>10, <1>14

\* Rows and position only change together, to rows that are in line with the events.
LEMMA TriggerRows ==
    ASSUME log \in Seq(Events), LogInv, position \in 0 .. Len(log), TableInv(rows, position), Trigger
    PROVE  TableInv(rows', position') /\ position' \in 0 .. Len(log)
<1>1. CASE \A n \in position + 1 .. Len(log) : Reducible(n)
  <2>1. rows' = Projected /\ position' = Len(log)
    BY <1>1 DEF Trigger
  <2>2. Len(log) \in 0 .. Len(log)
    BY LogFacts
  <2> QED  BY <1>1, <2>1, <2>2, ProjectedRows
<1>2. CASE ~ \A n \in position + 1 .. Len(log) : Reducible(n)
  BY <1>2 DEF Trigger
<1> QED  BY <1>1, <1>2

LEMMA ProcessRows ==
    ASSUME log \in Seq(Events), LogInv, position \in 0 .. Len(log), TableInv(rows, position), Process
    PROVE  TableInv(rows', position') /\ position' \in 0 .. Len(log)
<1>1. position \in Nat /\ position + 1 <= Len(log) /\ log[position + 1].type # "reactivated"
  BY LogFacts DEF Process, Reducible
<1>2. TableInv(Project(rows, log[position + 1]), position + 1)
  BY <1>1, RowStep
<1> QED  BY <1>1, <1>2, LogFacts DEF Process

-----------------------------------------------------------------------------
(* Steps keep the invariant                                                *)

\* Rows stay in line with the events when more are pushed.
LEMMA RowsKept ==
    ASSUME log \in Seq(Events), log' \in Seq(Events), NEW events, Extends(events),
           NEW table, NEW n \in 0 .. Len(log), TableInv(table, n)
    PROVE  TableInv(table, n)'
<1>1. ASSUME NEW g \in GrantIDs PROVE RowInv(table, n, g)'
  <2>1. RowInv(table, n, g)
    BY DEF TableInv
  <2>2. UserGrantOf(n, g)' = UserGrantOf(n, g)
    BY ModelKept
  <2>3. /\ AddedBy(n, g)' <=> AddedBy(n, g)
        /\ RemovedBy(n, g)' <=> RemovedBy(n, g)
        /\ OrphanedBy(n, g)' <=> OrphanedBy(n, g)
    BY PastKept
  <2> QED  BY <2>1, <2>2, <2>3 DEF RowInv
<1> QED  BY <1>1 DEF TableInv

LEMMA RowsNow ==
    ASSUME NEW table, NEW n, table = rows', n = position', TableInv(table, n)'
    PROVE  TableInv(rows, position)'
BY DEF TableInv, RowInv

LEMMA SameLog == log \in Seq(Events) /\ log' = log => log' \in Seq(Events) /\ Extends(<<>>)
<1> SUFFICES ASSUME log \in Seq(Events), log' = log PROVE log' \in Seq(Events) /\ Extends(<<>>)
  OBVIOUS
<1>1. Len(<<>>) = 0
  OBVIOUS
<1>2. Len(log) \in Nat
  OBVIOUS
<1> QED  BY <1>1, <1>2 DEF Extends

\* The parts of the invariant, and what TypeOK says of a request.
LEMMA Parts ==
    GrantsInv <=> /\ TypeOK /\ LogInv /\ ClaimInv /\ TableInv(rows, position)
                  /\ \A c \in Clients : RequestInv(c) /\ ReachInv(c)
BY DEF GrantsInv, TableInv, TypeOK, Tables

LEMMA NextParts ==
    (GrantsInv <=> /\ TypeOK /\ LogInv /\ ClaimInv /\ TableInv(rows, position)
                   /\ \A c \in Clients : RequestInv(c) /\ ReachInv(c))'
<1>1. GrantsInv <=> /\ TypeOK /\ LogInv /\ ClaimInv /\ TableInv(rows, position)
                    /\ \A c \in Clients : RequestInv(c) /\ ReachInv(c)
  BY Parts
<1> QED  BY <1>1, PTL

RoleKeys(events) == \A e \in Range(events) : e.type \in RoleTypes => Len(e.keys) = 1

\* What a request may be after a step of its client.
GoodQuestion(q) ==
    /\ q \in Questions
    /\ q.command = "RemoveProjectRole" => q.key \in Roles
    /\ q.at <= Len(log)
    /\ \A g \in GrantIDs : Known(q.command, q.at, g) => g \in q.ids
GoodEvents(events) ==
    events \in Seq(Events) /\ RoleKeys(events) /\ \A e \in Range(events) : Follows(e)
GoodPush(q) ==
    /\ q \in Pushes /\ GoodEvents(q.events)
    /\ q.at <= Len(log)
    /\ \A g \in GrantIDs :
          Known(q.command, q.at, g) => \/ g \in q.unread
                                       \/ \E e \in Range(q.events) : e.type \in Removals /\ e.id = g
NewGrant(q) ==
    /\ q \in Pushes /\ q.at = 0
    /\ \E g \in GrantIDs, e \in Events :
          q.events = <<e>> /\ e.type = "added" /\ e.id = g /\ ~Taken(g)

LEMMA RequestTypes ==
    ASSUME TypeOK, NEW c \in Clients
    PROVE  /\ request[c] = Idle \/ request[c] \in Questions \/ request[c] \in Pushes
           /\ request[c].step = "checked" =>
                 request[c] \in Pushes /\ request[c].events \in Seq(Events) /\ RoleKeys(request[c].events)
           /\ request[c].step = "asked" => request[c] \in Questions
<1>1. request[c] = Idle \/ request[c] \in Questions \/ request[c] \in Pushes
  BY DEF TypeOK
<1>2. Idle.step = "idle" /\ (\A q \in Questions : q.step = "asked") /\ \A q \in Pushes : q.step = "checked"
  BY DEF Idle, Questions, Pushes
<1>3. \A q \in Pushes : q.events \in Seq(Events)
  BY DEF Pushes
<1>4. request[c].step = "checked" => RoleKeys(request[c].events)
  BY DEF TypeOK, RoleKeys
<1> QED  BY <1>1, <1>2, <1>3, <1>4

LEMMA NewGrantFacts ==
    ASSUME NEW q, NewGrant(q)
    PROVE  /\ RoleKeys(q.events) /\ Len(q.events) = 1 /\ q.events[1].type = "added"
           /\ Range(q.events) = {q.events[1]}
           /\ \E g \in GrantIDs : q.events[1].id = g /\ ~Taken(g)
<1>1. PICK g \in GrantIDs, e \in Events : q.events = <<e>> /\ e.type = "added" /\ e.id = g /\ ~Taken(g)
  BY DEF NewGrant
<1>2. Len(q.events) = 1 /\ q.events[1] = e /\ DOMAIN q.events = {1}
  BY <1>1
<1>3. Range(q.events) = {q.events[1]}
  BY <1>2 DEF Range
<1>4. RoleKeys(q.events)
  BY <1>1, <1>2, <1>3 DEF RoleKeys, RoleTypes
<1> QED  BY <1>1, <1>2, <1>3, <1>4

\* A step that changes one request, and perhaps the rows, keeps the invariant.
LEMMA RequestStep ==
    ASSUME GrantsInv, NEW c \in Clients, NEW q,
           log' = log, claims' = claims, position' \in 0 .. Len(log), TableInv(rows', position'),
           request' = [request EXCEPT ![c] = q],
           q = Idle \/ GoodQuestion(q) \/ GoodPush(q) \/ NewGrant(q)
    PROVE  GrantsInv'
<1>1. /\ TypeOK /\ LogInv /\ ClaimInv /\ TableInv(rows, position)
      /\ \A d \in Clients : RequestInv(d) /\ ReachInv(d)
  BY Parts
<1>2. log \in Seq(Events) /\ log' \in Seq(Events) /\ Extends(<<>>)
  BY <1>1, SameLog DEF TypeOK
<1>3. TableInv(rows, position)'
  <2>1. PICK table, n : table = rows' /\ n = position'
    OBVIOUS
  <2>2. TableInv(table, n) /\ n \in 0 .. Len(log)
    BY <2>1
  <2>3. TableInv(table, n)'
    BY <1>2, <2>2, RowsKept
  <2> QED  BY <2>1, <2>3, RowsNow
<1>4. Idle.step = "idle" /\ (\A x \in Questions : x.step = "asked") /\ \A x \in Pushes : x.step = "checked"
  BY DEF Idle, Questions, Pushes
<1>5. /\ q \in {Idle} \cup Questions \cup Pushes
      /\ q.step = "asked" /\ q.command = "RemoveProjectRole" => q.key \in Roles
      /\ q.step = "checked" => RoleKeys(q.events)
  BY <1>4, NewGrantFacts DEF GoodQuestion, GoodPush, GoodEvents, NewGrant
<1>6. \A d \in Clients : request'[d] = IF d = c THEN q ELSE request[d]
  BY <1>1 DEF TypeOK
<1>7. TypeOK'
  <2>1. request' \in [Clients -> {Idle} \cup Questions \cup Pushes]
    BY <1>1, <1>5 DEF TypeOK
  <2>2. ASSUME NEW d \in Clients
        PROVE  /\ Resume(d, "RemoveProjectRole")' => request'[d].key \in Roles
               /\ request'[d].step = "checked" => RoleKeys(request'[d].events)
    BY <1>1, <1>5, <1>6 DEF TypeOK, Resume, RoleKeys
  <2>3. rows' \in Tables
    BY DEF TableInv
  <2>4. /\ log' \in Seq(Events)
        /\ \A e \in Range(log') : e.type \in RoleTypes => Len(e.keys) = 1
        /\ claims' \subseteq {"user_grant"} \X Sources \cup {"project_role"} \X Roles
        /\ position' \in 0 .. Len(log')
    BY <1>1, <1>2 DEF TypeOK
  <2> QED  BY <2>1, <2>2, <2>3, <2>4 DEF TypeOK, Tables, RoleKeys
<1>8. LogInv'
  BY <1>1 DEF LogInv, AddedBy
<1>9. ClaimInv'
  BY <1>1 DEF ClaimInv, RemovedTwice, Live, AddedBy, RemovedBy, SourceIs, AddedAs
<1>10. ASSUME NEW d \in Clients PROVE RequestInv(d)'
  <2> SUFFICES ASSUME request'[d].step = "checked"
               PROVE  \/ \E g \in GrantIDs : Adds(d, g)'
                      \/ \A e \in Range(request'[d].events) : Follows(e)'
    BY DEF RequestInv
  <2>0. \A e : Follows(e) => Follows(e)'
    BY DEF Follows
  <2>1. CASE d = c /\ GoodPush(q)
    BY <1>6, <2>0, <2>1 DEF GoodPush, GoodEvents
  <2>2. CASE d = c /\ NewGrant(q)
    <3>1. PICK g \in GrantIDs : q.events[1].id = g /\ ~Taken(g)
      BY <2>2, NewGrantFacts
    <3>2. \A i \in 1 .. Len(log) : log[i].id # g
      BY <1>2, <3>1, LogFacts DEF Taken
    <3>3. \A b \in Clients \ {d} :
              request'[b].step = "checked" => \A e \in Range(request'[b].events) : e.id # g
      BY <1>6, <2>2, <3>1 DEF Taken
    <3>4. Adds(d, g)'
      BY <1>6, <2>2, <3>1, <3>2, <3>3, NewGrantFacts DEF Adds
    <3> QED  BY <3>4
  <2>3. CASE d # c
    <3>1. request'[d] = request[d]
      BY <1>6, <2>3
    <3>2. CASE \A e \in Range(request[d].events) : Follows(e)
      BY <2>0, <3>1, <3>2
    <3>3. CASE \E g \in GrantIDs : Adds(d, g)
      <4>1. PICK g \in GrantIDs : Adds(d, g)
        BY <3>3
      <4>2. ASSUME q.step = "checked", NEW e \in Range(q.events) PROVE e.id # g
        <5>1. CASE GoodPush(q)
          <6>1. Follows(e)
            BY <5>1 DEF GoodPush, GoodEvents
          <6>2. \A i \in 1 .. Len(log) : log[i].id # g
            BY <4>1 DEF Adds
          <6> QED  BY <6>1, <6>2, Constants DEF Follows
        <5>2. CASE NewGrant(q)
          <6>1. PICK h \in GrantIDs : q.events[1].id = h /\ ~Taken(h)
            BY <5>2, NewGrantFacts
          <6>2. e.id = h
            BY <4>2, <5>2, <6>1, NewGrantFacts
          <6>3. request[d].events[1].id = g /\ request[d].events[1] \in Range(request[d].events)
            <7>1. request[d].events \in Seq(Events) /\ Len(request[d].events) = 1
              BY <1>1, <3>1, <4>1, RequestTypes DEF Adds
            <7>2. 1 \in DOMAIN request[d].events
              BY <7>1
            <7> QED  BY <4>1, <7>2 DEF Adds, Range
          <6>4. Taken(g)
            BY <3>1, <6>3 DEF Taken
          <6> QED  BY <6>1, <6>2, <6>4
        <5> QED  BY <1>4, <4>2, <5>1, <5>2 DEF GoodQuestion
      <4>3. ASSUME NEW b \in Clients \ {d}, request'[b].step = "checked"
            PROVE  \A e \in Range(request'[b].events) : e.id # g
        <5>1. CASE b = c
          BY <1>6, <4>2, <4>3, <5>1
        <5>2. CASE b # c
          BY <1>6, <4>1, <4>3, <5>2 DEF Adds
        <5> QED  BY <5>1, <5>2
      <4>4. Adds(d, g)'
        BY <3>1, <4>1, <4>3 DEF Adds
      <4> QED  BY <4>4
    <3> QED  BY <1>1, <3>1, <3>2, <3>3 DEF RequestInv
  <2>4. d = c => GoodPush(q) \/ NewGrant(q)
    BY <1>4, <1>6 DEF GoodQuestion
  <2> QED  BY <2>1, <2>2, <2>3, <2>4
<1>11. \A command, at, g : Known(command, at, g)' <=> Known(command, at, g)
  BY DEF Known, AddedBy, Live, RemovedBy, OrphanedBy, SourceIs, AddedAs
<1>12. ASSUME NEW d \in Clients PROVE ReachInv(d)'
  <2>1. CASE d # c
    BY <1>1, <1>6, <1>11, <2>1 DEF ReachInv
  <2>2. CASE d = c
    <3>1. request'[d] = q
      BY <1>6, <2>2
    <3>2. CASE q = Idle
      BY <1>4, <3>1, <3>2 DEF ReachInv
    <3>3. CASE GoodQuestion(q)
      BY <1>4, <1>11, <3>1, <3>3 DEF ReachInv, GoodQuestion
    <3>4. CASE GoodPush(q)
      BY <1>4, <1>11, <3>1, <3>4 DEF ReachInv, GoodPush
    <3>5. CASE NewGrant(q)
      <4>1. q.at = 0 /\ q.step = "checked"
        BY <1>4, <3>5 DEF NewGrant
      <4>2. \A command, g : ~Known(command, 0, g)
        BY NoneYet DEF Known
      <4> QED  BY <1>2, <1>11, <3>1, <4>1, <4>2, LogFacts DEF ReachInv
    <3> QED  BY <3>2, <3>3, <3>4, <3>5
  <2> QED  BY <2>1, <2>2
<1> QED  BY <1>3, <1>7, <1>8, <1>9, <1>10, <1>12, NextParts

\* A push of events that follow the log adds no user grant.
LEMMA PushedEvents ==
    ASSUME GrantsInv, NEW c \in Clients, Push(c)
    PROVE  LET events == request[c].events IN
           /\ events \in Seq(Events) /\ RoleKeys(events) /\ Extends(events)
           /\ log \in Seq(Events) /\ log' \in Seq(Events)
           /\ \A i \in 1 .. Len(events) : events[i] \in Range(events) /\ events[i] \in Events
           /\ \A e \in Range(events) : \E i \in 1 .. Len(events) : events[i] = e
           /\ \A e \in Range(events) : e \in Events
           /\ \/ \E g \in GrantIDs : Adds(c, g)
              \/ \A e \in Range(events) : Follows(e)
           /\ request'[c] = Idle /\ \A d \in Clients : d # c => request'[d] = request[d]
<1> DEFINE events == request[c].events
<1>1. TypeOK /\ RequestInv(c)
  BY DEF GrantsInv
<1>2. request[c].step = "checked" /\ log' = log \o events /\ request' = [request EXCEPT ![c] = Idle]
  BY DEF Push
<1>3. events \in Seq(Events) /\ RoleKeys(events) /\ log \in Seq(Events)
  BY <1>1, <1>2, RequestTypes DEF TypeOK
<1>4. Extends(events) /\ log' \in Seq(Events)
  BY <1>2, <1>3, LogGrows
<1>5. \/ \E g \in GrantIDs : Adds(c, g)
      \/ \A e \in Range(events) : Follows(e)
  BY <1>1, <1>2 DEF RequestInv
<1>6. request'[c] = Idle /\ \A d \in Clients : d # c => request'[d] = request[d]
  BY <1>1, <1>2 DEF TypeOK
<1>7. DOMAIN events = 1 .. Len(events) /\ \A i \in 1 .. Len(events) : events[i] \in Events
  BY <1>3
<1> HIDE DEF events
<1>8. /\ \A i \in 1 .. Len(events) : events[i] \in Range(events)
      /\ \A e \in Range(events) : \E i \in 1 .. Len(events) : events[i] = e
  BY <1>7 DEF Range
<1>9. \A e \in Range(events) : e \in Events
  BY <1>7, <1>8
<1> QED  BY <1>3, <1>4, <1>5, <1>6, <1>7, <1>8, <1>9 DEF events

LEMMA AddsFacts ==
    ASSUME NEW c \in Clients, NEW g, Adds(c, g), request[c].events \in Seq(Events)
    PROVE  /\ Range(request[c].events) = {request[c].events[1]} /\ 1 .. Len(request[c].events) = {1}
           /\ request[c].events[1] \in Events
           /\ request[c].events[1].type = "added" /\ request[c].events[1].id = g
<1> DEFINE events == request[c].events
<1>1. Len(events) = 1 /\ events[1].type = "added" /\ events[1].id = g
  BY DEF Adds
<1>2. DOMAIN events = 1 .. Len(events) /\ 1 .. Len(events) = {1} /\ events[1] \in Events
  BY <1>1
<1> HIDE DEF events
<1>3. Range(events) = {events[1]}
  BY <1>2 DEF Range
<1> QED  BY <1>1, <1>2, <1>3 DEF events

LEMMA PushType == ASSUME GrantsInv, NEW c \in Clients, Push(c) PROVE TypeOK'
<1> DEFINE events == request[c].events
<1>1. TypeOK
  BY DEF GrantsInv
<1>2. /\ events \in Seq(Events) /\ RoleKeys(events) /\ Extends(events)
      /\ log' \in Seq(Events) /\ log \in Seq(Events)
      /\ \A e \in Range(events) : e \in Events
      /\ request'[c] = Idle /\ \A d \in Clients : d # c => request'[d] = request[d]
      /\ \A i \in 1 .. Len(events) : events[i] \in Range(events)
  BY PushedEvents
<1>3. claims' \subseteq claims \cup ConstraintsAdded(events) /\ position' = position /\ rows' = rows
  BY DEF Push
<1>4. ConstraintsAdded(events) \subseteq {"user_grant"} \X Sources \cup {"project_role"} \X Roles
  <2>1. \A e \in Range(events) : e.source \in Sources
    BY <1>2, EventFacts
  <2>2. \A e \in Range(events) : e.type = "roleAdded" => e.keys[1] \in Roles
    <3>1. \A e \in Range(events) : e.type = "roleAdded" => Len(e.keys) = 1
      BY <1>2 DEF RoleKeys, RoleTypes
    <3>2. \A e \in Range(events) : e.keys \in Seq(Roles)
      BY <1>2, EventFacts
    <3> QED  BY <3>1, <3>2, OneKey
  <2> HIDE DEF events
  <2> QED  BY <2>1, <2>2 DEF ConstraintsAdded
<1>5. \A e \in Range(log') : e.type \in RoleTypes => Len(e.keys) = 1
  <2>1. ASSUME NEW e \in Range(log'), e.type \in RoleTypes PROVE Len(e.keys) = 1
    <3>1. PICK j \in 1 .. Len(log') : log'[j] = e
      <4>1. DOMAIN log' = 1 .. Len(log')
        BY <1>2
      <4> QED  BY <4>1 DEF Range
    <3>2. CASE j \in 1 .. Len(log) /\ log'[j] = log[j]
      <4>1. e \in Range(log)
        BY <1>2, <3>1, <3>2, LogFacts DEF Range
      <4> QED  BY <1>1, <2>1, <4>1 DEF TypeOK
    <3>3. CASE \E i \in 1 .. Len(events) : j = Len(log) + i /\ log'[j] = events[i]
      BY <1>2, <2>1, <3>1, <3>3 DEF RoleKeys
    <3> QED  BY <1>2, <3>2, <3>3 DEF Extends
  <2> QED  BY <2>1
<1>6. position \in 0 .. Len(log')
  <2>1. position \in 0 .. Len(log) /\ Len(events) \in Nat
    BY <1>1, <1>2 DEF TypeOK
  <2> HIDE DEF events
  <2> QED  BY <1>2, <2>1 DEF Extends
<1>7. request' \in [Clients -> {Idle} \cup Questions \cup Pushes]
  BY <1>1 DEF TypeOK, Push
<1>8. ASSUME NEW d \in Clients
      PROVE  /\ Resume(d, "RemoveProjectRole")' => request'[d].key \in Roles
             /\ request'[d].step = "checked" =>
                   \A e \in Range(request'[d].events) : e.type \in RoleTypes => Len(e.keys) = 1
  <2>1. Idle.step = "idle"
    BY DEF Idle
  <2>2. CASE d = c
    BY <1>2, <2>1, <2>2 DEF Resume
  <2>3. CASE d # c
    <3>1. request'[d] = request[d]
      BY <1>2, <2>3
    <3> QED  BY <1>1, <3>1 DEF TypeOK, Resume
  <2> QED  BY <2>2, <2>3
<1> HIDE DEF events
<1> QED  BY <1>1, <1>2, <1>3, <1>4, <1>5, <1>6, <1>7, <1>8 DEF TypeOK

LEMMA PushLog == ASSUME GrantsInv, NEW c \in Clients, Push(c) PROVE LogInv'
<1> DEFINE events == request[c].events
<1>1. LogInv
  BY DEF GrantsInv
<1>2. /\ events \in Seq(Events) /\ Extends(events)
      /\ \A i \in 1 .. Len(events) : events[i] \in Range(events)
      /\ \/ \E g \in GrantIDs : Adds(c, g)
         \/ \A e \in Range(events) : Follows(e)
  BY PushedEvents
<1>3. ASSUME NEW j \in 1 .. Len(log'), log'[j].type \in UserGrantTypes
      PROVE  log'[j].id \in GrantIDs /\ AddedBy(j, log[j].id)'
  <2>1. CASE j \in 1 .. Len(log) /\ log'[j] = log[j]
    <3>1. log[j].id \in GrantIDs /\ AddedBy(j, log[j].id)
      BY <1>1, <1>3, <2>1 DEF LogInv
    <3>2. PICK i \in 1 .. j : log[i].type = "added" /\ log[i].id = log[j].id
      BY <3>1 DEF AddedBy
    <3>3. log'[i] = log[i]
      BY <1>2, <2>1 DEF Extends
    <3> QED  BY <2>1, <3>1, <3>2, <3>3 DEF AddedBy
  <2>2. CASE j > Len(log) /\ \E i \in 1 .. Len(events) : j = Len(log) + i /\ log'[j] = events[i]
    <3>1. PICK i \in 1 .. Len(events) : log'[j] = events[i]
      BY <2>2
    <3>2. CASE \E g \in GrantIDs : Adds(c, g)
      <4>1. PICK g \in GrantIDs : Adds(c, g)
        BY <3>2
      <4>2. i = 1 /\ events[i].type = "added" /\ events[i].id = g
        BY <1>2, <4>1, AddsFacts
      <4>3. j \in 1 .. j
        BY <1>2 DEF Extends
      <4> QED  BY <3>1, <4>2, <4>3 DEF AddedBy
    <3>3. CASE \A e \in Range(events) : Follows(e)
      <4>1. PICK a \in 1 .. Len(log) : log[a].type = "added" /\ log[a].id = log'[j].id
        BY <1>2, <1>3, <3>1, <3>3 DEF Follows
      <4>2. log[a].id \in GrantIDs
        BY <1>1, <4>1 DEF LogInv, UserGrantTypes
      <4>3. log'[a] = log[a] /\ a \in 1 .. j
        BY <1>2, <2>2 DEF Extends
      <4> QED  BY <4>1, <4>2, <4>3 DEF AddedBy
    <3> QED  BY <1>2, <3>2, <3>3
  <2> QED  BY <1>2, <2>1, <2>2 DEF Extends
<1>4. ASSUME NEW i \in 1 .. Len(log'), NEW j \in 1 .. Len(log'), i \notin 1 .. Len(log),
             log'[i].type = "added", log'[j].id = log'[i].id
      PROVE  i = j /\ log'[j].type = "added"
  <2>1. PICK a \in 1 .. Len(events) : i = Len(log) + a /\ log'[i] = events[a]
    BY <1>2, <1>4 DEF Extends
  <2>2. ~ \A e \in Range(events) : Follows(e)
    BY <1>2, <1>4, <2>1 DEF Follows
  <2>3. PICK g \in GrantIDs : Adds(c, g)
    BY <1>2, <2>2
  <2>4. a = 1 /\ log'[i].id = g
    BY <1>2, <2>1, <2>3, AddsFacts
  <2>5. \A b \in 1 .. Len(log) : log[b].id # g
    BY <2>3 DEF Adds
  <2>6. PICK b \in 1 .. Len(events) : j = Len(log) + b
    BY <1>2, <1>4, <2>4, <2>5 DEF Extends
  <2>7. b = 1
    BY <1>2, <2>3, AddsFacts
  <2> QED  BY <1>4, <2>1, <2>4, <2>6, <2>7
<1>5. ASSUME NEW i \in 1 .. Len(log'), NEW j \in 1 .. Len(log'),
             log'[i].type = "added", log'[j].type = "added", log'[i].id = log'[j].id
      PROVE  i = j
  <2>1. CASE i \notin 1 .. Len(log) \/ j \notin 1 .. Len(log)
    BY <1>4, <1>5, <2>1
  <2>2. CASE i \in 1 .. Len(log) /\ j \in 1 .. Len(log)
    <3>1. log'[i] = log[i] /\ log'[j] = log[j]
      BY <1>2, <2>2 DEF Extends
    <3> QED  BY <1>1, <1>5, <2>2, <3>1 DEF LogInv
  <2> QED  BY <2>1, <2>2
<1>6. ASSUME NEW i \in 1 .. Len(log'), NEW j \in 1 .. Len(log'),
             log'[i].type = "added", log'[j].type \in Removals, log'[i].id = log'[j].id
      PROVE  log'[i].source = log'[j].source
  <2>1. i \in 1 .. Len(log) /\ log'[i] = log[i]
    <3>1. log'[j].type # "added"
      BY <1>6 DEF Removals
    <3>2. i \in 1 .. Len(log)
      BY <1>4, <1>6, <3>1
    <3> QED  BY <1>2, <3>2 DEF Extends
  <2>2. CASE j \in 1 .. Len(log) /\ log'[j] = log[j]
    BY <1>1, <1>6, <2>1, <2>2 DEF LogInv
  <2>3. CASE \E b \in 1 .. Len(events) : j = Len(log) + b /\ log'[j] = events[b]
    <3>1. PICK b \in 1 .. Len(events) : log'[j] = events[b]
      BY <2>3
    <3>2. ~ \E g \in GrantIDs : Adds(c, g)
      <4> SUFFICES ASSUME NEW g \in GrantIDs, Adds(c, g) PROVE FALSE
        OBVIOUS
      <4>1. b = 1 /\ events[b].type = "added"
        BY <1>2, AddsFacts
      <4> QED  BY <1>6, <3>1, <4>1 DEF Removals
    <3>3. Follows(log'[j])
      BY <1>2, <3>1, <3>2
    <3>4. PICK a \in 1 .. Len(log) : log[a].type = "added" /\ log[a].id = log'[j].id /\ log[a].source = log'[j].source
      BY <1>6, <3>3 DEF Follows, Removals, UserGrantTypes
    <3>5. a = i
      BY <1>1, <1>6, <2>1, <3>4 DEF LogInv
    <3> QED  BY <2>1, <3>4, <3>5
  <2> QED  BY <1>2, <2>2, <2>3 DEF Extends
<1> QED  BY <1>3, <1>5, <1>6 DEF LogInv

\* A push only makes more user grants removed, and adds at most the one it is for.
LEMMA PushLive ==
    ASSUME GrantsInv, NEW c \in Clients, Push(c), NEW g \in GrantIDs
    PROVE  /\ AddedBy(Len(log), g) => AddedBy(Len(log), g)'
           /\ RemovedBy(Len(log), g) => RemovedBy(Len(log), g)'
           /\ \A s : SourceIs(Len(log), g, s) => SourceIs(Len(log), g, s)'
           /\ \A e \in Range(request[c].events) :
                 e.type \in Removals /\ e.id = g => RemovedBy(Len(log), g)'
           /\ OrphanedBy(Len(log), g) => OrphanedBy(Len(log), g)'
           /\ AddedBy(Len(log), g) =>
                 \A s : SourceIs(Len(log), g, s)' => SourceIs(Len(log), g, s)
           /\ ~Adds(c, g) => /\ AddedBy(Len(log), g)' => AddedBy(Len(log), g)
                             /\ \A s : SourceIs(Len(log), g, s)' => SourceIs(Len(log), g, s)
<1> DEFINE events == request[c].events
<1>1. LogInv /\ LogInv'
  BY PushLog DEF GrantsInv
<1>2. /\ events \in Seq(Events) /\ Extends(events)
      /\ \A i \in 1 .. Len(events) : events[i] \in Range(events)
      /\ \A e \in Range(events) : \E i \in 1 .. Len(events) : events[i] = e
      /\ \/ \E h \in GrantIDs : Adds(c, h)
         \/ \A e \in Range(events) : Follows(e)
  BY PushedEvents
<1>3. \A i \in 1 .. Len(log) : i \in 1 .. Len(log') /\ log'[i] = log[i]
  BY <1>2 DEF Extends
<1>4. AddedBy(Len(log), g) => AddedBy(Len(log), g)'
  BY <1>3 DEF AddedBy
<1>5. RemovedBy(Len(log), g) => RemovedBy(Len(log), g)'
  BY <1>3 DEF RemovedBy
<1>6. \A s : SourceIs(Len(log), g, s) => SourceIs(Len(log), g, s)'
  BY <1>3 DEF SourceIs, AddedAs
<1>7. OrphanedBy(Len(log), g) => OrphanedBy(Len(log), g)'
  BY <1>3, <1>6 DEF OrphanedBy
<1>8. ASSUME NEW e \in Range(events), e.type \in Removals, e.id = g PROVE RemovedBy(Len(log), g)'
  <2>1. PICK i \in 1 .. Len(events) : events[i] = e
    BY <1>2
  <2>2. Len(log) + i \in 1 .. Len(log') /\ log'[Len(log) + i] = e
    BY <1>2, <2>1 DEF Extends
  <2> QED  BY <1>8, <2>2 DEF RemovedBy
<1>9. ASSUME NEW j \in 1 .. Len(log'), log'[j].type = "added", log'[j].id = g, j \notin 1 .. Len(log)
      PROVE  Adds(c, g) /\ ~AddedBy(Len(log), g)
  <2>1. PICK i \in 1 .. Len(events) : log'[j] = events[i]
    BY <1>2, <1>9 DEF Extends
  <2>2. ~Follows(events[i])
    BY <1>9, <2>1 DEF Follows
  <2>3. PICK h \in GrantIDs : Adds(c, h)
    BY <1>2, <2>2
  <2>4. i = 1 /\ events[i].id = h
    BY <1>2, <2>3, AddsFacts
  <2>5. h = g
    BY <1>9, <2>1, <2>4
  <2> QED  BY <2>3, <2>5 DEF Adds, AddedBy
<1>10. AddedBy(Len(log), g) => \A s : SourceIs(Len(log), g, s)' => SourceIs(Len(log), g, s)
  BY <1>3, <1>9 DEF SourceIs, AddedAs
<1>11. ~Adds(c, g) => /\ AddedBy(Len(log), g)' => AddedBy(Len(log), g)
                      /\ \A s : SourceIs(Len(log), g, s)' => SourceIs(Len(log), g, s)
  BY <1>3, <1>9 DEF SourceIs, AddedAs, AddedBy
<1> QED  BY <1>4, <1>5, <1>6, <1>7, <1>8, <1>10, <1>11

LEMMA PushClaims == ASSUME GrantsInv, NEW c \in Clients, Push(c) PROVE ClaimInv'
<1> DEFINE events == request[c].events
<1>1. LogInv /\ ClaimInv /\ LogInv'
  BY PushLog DEF GrantsInv
<1>2. /\ events \in Seq(Events) /\ Extends(events) /\ log \in Seq(Events)
      /\ \A i \in 1 .. Len(events) : events[i] \in Range(events)
      /\ \A e \in Range(events) : \E i \in 1 .. Len(events) : events[i] = e
      /\ \/ \E g \in GrantIDs : Adds(c, g)
         \/ \A e \in Range(events) : Follows(e)
  BY PushedEvents
<1>3. /\ ConstraintsAdded(events) \cap claims = {}
      /\ claims' = (claims \cup ConstraintsAdded(events)) \ ConstraintsRemoved(events)
  BY DEF Push
<1> SUFFICES ASSUME ~RemovedTwice',
                    NEW g \in GrantIDs, NEW s \in Sources, Live(g)', SourceIs(Len(log), g, s)'
             PROVE  /\ Claim(s) \in claims'
                    /\ \A h \in GrantIDs : Live(h)' /\ SourceIs(Len(log), h, s)' => h = g
  BY DEF ClaimInv, Claim
<1>4. ASSUME NEW i \in 1 .. Len(log'), NEW j \in 1 .. Len(log'), i < j,
             log'[i].type \in Removals, log'[j].type \in Removals, log'[i].id = log'[j].id
      PROVE  FALSE
  <2>1. i \in DOMAIN log' /\ j \in DOMAIN log'
    BY PushedEvents
  <2> QED  BY <1>4, <2>1 DEF RemovedTwice
<1>5. ~RemovedTwice
  <2> SUFFICES ASSUME RemovedTwice PROVE FALSE
    OBVIOUS
  <2>1. PICK i \in 1 .. Len(log), j \in 1 .. Len(log) :
            i < j /\ log[i].type \in Removals /\ log[j].type \in Removals /\ log[i].id = log[j].id
    BY <1>2, LogFacts DEF RemovedTwice
  <2>2. i \in 1 .. Len(log') /\ j \in 1 .. Len(log') /\ log'[i] = log[i] /\ log'[j] = log[j]
    BY <1>2 DEF Extends
  <2> QED  BY <1>4, <2>1, <2>2
<1>6. \A h \in GrantIDs : \A t \in Sources :
          Live(h) /\ SourceIs(Len(log), h, t) =>
              /\ Claim(t) \in claims
              /\ \A k \in GrantIDs : Live(k) /\ SourceIs(Len(log), k, t) => k = h
  BY <1>1, <1>5 DEF ClaimInv
<1>7. ASSUME NEW h \in GrantIDs, Live(h)', ~Adds(c, h)
      PROVE  /\ Live(h)
             /\ \A t : SourceIs(Len(log), h, t)' => SourceIs(Len(log), h, t)
  BY <1>7, PushLive DEF Live
<1>8. CASE \E h \in GrantIDs : Adds(c, h)
  <2>1. PICK h \in GrantIDs : Adds(c, h)
    BY <1>8
  <2> DEFINE e == events[1]
  <2>2. Range(events) = {e} /\ 1 .. Len(events) = {1} /\ e.type = "added" /\ e.id = h
    BY <1>2, <2>1, AddsFacts
  <2>3. \A k \in GrantIDs : Adds(c, k) => k = h
    BY <2>1 DEF Adds
  <2>4. /\ ConstraintsAdded(events) = {Claim(e.source)}
        /\ ConstraintsRemoved(events) = {}
    <3> HIDE DEF e, events
    <3>1. {x \in Range(events) : x.type = "added"} = {e} /\ {x \in Range(events) : x.type = "roleAdded"} = {}
      BY <2>2
    <3>2. /\ {x \in Range(events) : x.type \in {"removed", "cascadeRemoved"}} = {}
          /\ {x \in Range(events) : x.type = "roleRemoved"} = {}
      BY <2>2
    <3>3. ConstraintsAdded(events) = {Claim(e.source)}
      BY <3>1 DEF ConstraintsAdded, Claim
    <3>4. ConstraintsRemoved(events) = {}
      BY <3>2 DEF ConstraintsRemoved
    <3> QED  BY <3>3, <3>4
  <2>5. Claim(e.source) \notin claims /\ claims' = claims \cup {Claim(e.source)}
    BY <1>3, <2>4
  <2>6. ASSUME NEW t, SourceIs(Len(log), h, t)' PROVE t = e.source
    <3>1. PICK j \in 1 .. Len(log') : log'[j].type = "added" /\ log'[j].id = h /\ log'[j].source = t
      BY <2>6 DEF SourceIs, AddedAs
    <3>2. j \notin 1 .. Len(log)
      BY <1>2, <2>1, <3>1 DEF Adds, Extends
    <3>3. log'[j] = e
      BY <1>2, <2>2, <3>1, <3>2 DEF Extends
    <3> QED  BY <3>1, <3>3
  <2>7. PICK src \in Sources : src = e.source
    BY <1>2, <2>1, AddsFacts, EventFacts
  <2>8. ASSUME NEW k \in GrantIDs, Live(k)', SourceIs(Len(log), k, src)' PROVE k = h
    <3> SUFFICES ASSUME k # h PROVE FALSE
      OBVIOUS
    <3>1. Live(k) /\ SourceIs(Len(log), k, src)
      BY <1>7, <2>3, <2>8
    <3> HIDE DEF e
    <3> QED  BY <1>6, <2>5, <2>7, <3>1
  <2>9. CASE g = h
    <3>1. s = e.source
      BY <2>6, <2>9
    <3> HIDE DEF e
    <3>2. Claim(s) \in claims'
      BY <2>5, <3>1
    <3>3. ASSUME NEW k \in GrantIDs, Live(k)', SourceIs(Len(log), k, s)' PROVE k = g
      BY <2>8, <2>9, <2>7, <3>1, <3>3
    <3> QED  BY <3>2, <3>3
  <2>10. CASE g # h
    <3>1. Live(g) /\ SourceIs(Len(log), g, s) /\ Claim(s) \in claims
      BY <1>6, <1>7, <2>3, <2>10
    <3>2. ASSUME NEW k \in GrantIDs, Live(k)', SourceIs(Len(log), k, s)' PROVE k = g
      <4>1. CASE k = h
        BY <2>5, <2>6, <3>1, <3>2, <4>1
      <4>2. CASE k # h
        BY <1>6, <1>7, <2>3, <3>1, <3>2, <4>2
      <4> QED  BY <4>1, <4>2
    <3> QED  BY <2>5, <3>1, <3>2
  <2> QED  BY <2>9, <2>10
<1>9. CASE \A e \in Range(events) : Follows(e)
  <2>1. ASSUME NEW h \in GrantIDs PROVE ~Adds(c, h)
    <3> SUFFICES ASSUME Adds(c, h) PROVE FALSE
      OBVIOUS
    <3>1. events[1] \in Range(events) /\ events[1].type = "added"
      BY <1>2, AddsFacts
    <3> QED  BY <1>9, <3>1 DEF Follows
  <2>2. Live(g) /\ SourceIs(Len(log), g, s) /\ Claim(s) \in claims
    BY <1>6, <1>7, <2>1
  <2>3. \A h \in GrantIDs : Live(h)' /\ SourceIs(Len(log), h, s)' => h = g
    BY <1>6, <1>7, <2>1, <2>2
  <2>4. ASSUME NEW e \in Range(events), e.type \in Removals, e.source = s PROVE FALSE
    <3>1. PICK i \in 1 .. Len(log) : log[i].type = "added" /\ log[i].id = e.id /\ log[i].source = s
      BY <1>9, <2>4 DEF Follows, Removals, UserGrantTypes
    <3> DEFINE h == e.id
    <3>2. h \in GrantIDs
      BY <1>1, <3>1 DEF LogInv, UserGrantTypes
    <3>3. SourceIs(Len(log), h, s) /\ AddedBy(Len(log), h)
      BY <3>1 DEF SourceIs, AddedAs, AddedBy
    <3>4. h # g
      BY <2>4, PushLive DEF Live
    <3>5. RemovedBy(Len(log), h)
      BY <1>6, <2>2, <3>2, <3>3, <3>4 DEF Live
    <3>6. PICK a \in 1 .. Len(log) : log[a].type \in Removals /\ log[a].id = h
      BY <3>5 DEF RemovedBy
    <3>7. PICK b \in 1 .. Len(events) : events[b] = e
      BY <1>2, <2>4
    <3>8. /\ Len(log) + b \in 1 .. Len(log') /\ log'[Len(log) + b] = e
          /\ a \in 1 .. Len(log') /\ log'[a] = log[a] /\ a < Len(log) + b
      <4>1. Len(log) + b \in 1 .. Len(log') /\ log'[Len(log) + b] = e
        BY <1>2, <3>7 DEF Extends
      <4>2. a \in 1 .. Len(log') /\ log'[a] = log[a]
        BY <1>2 DEF Extends
      <4>3. Len(log) \in Nat /\ Len(events) \in Nat
        BY <1>2
      <4>4. a < Len(log) + b
        <5> HIDE DEF events
        <5> QED  BY <4>3
      <4> QED  BY <4>1, <4>2, <4>4
    <3> QED  BY <1>4, <2>4, <3>6, <3>8
  <2>5. Claim(s) \notin ConstraintsRemoved(events)
    <3> HIDE DEF events
    <3>1. \A e \in Range(events) : ~(e.type \in {"removed", "cascadeRemoved"} /\ e.source = s)
      BY <2>4 DEF Removals
    <3>2. "user_grant" # "project_role"
      OBVIOUS
    <3> QED  BY <3>1, <3>2 DEF ConstraintsRemoved, Claim
  <2> QED  BY <1>3, <2>2, <2>3, <2>5
<1> QED  BY <1>2, <1>8, <1>9

LEMMA PushRequests ==
    ASSUME GrantsInv, NEW c \in Clients, Push(c), NEW d \in Clients PROVE RequestInv(d)' /\ ReachInv(d)'
<1> DEFINE events == request[c].events
<1>1. TypeOK /\ LogInv /\ RequestInv(d) /\ ReachInv(d)
  BY DEF GrantsInv
<1>2. /\ events \in Seq(Events) /\ Extends(events) /\ log \in Seq(Events)
      /\ \A i \in 1 .. Len(events) : events[i] \in Range(events)
      /\ request'[c] = Idle /\ \A b \in Clients : b # c => request'[b] = request[b]
      /\ request[c].step = "checked"
  BY PushedEvents DEF Push
<1>3. Idle.step = "idle"
  BY DEF Idle
<1>4. CASE d = c
  <2>1. request'[d].step = "idle"
    BY <1>2, <1>3, <1>4
  <2> QED  BY <2>1 DEF RequestInv, ReachInv
<1>5. CASE d # c
  <2>1. request'[d] = request[d]
    BY <1>2, <1>5
  <2>2. RequestInv(d)'
    <3> SUFFICES ASSUME request[d].step = "checked"
                 PROVE  \/ \E g \in GrantIDs : Adds(d, g)'
                        \/ \A e \in Range(request[d].events) : Follows(e)'
      BY <2>1 DEF RequestInv
    <3>1. CASE \E g \in GrantIDs : Adds(d, g)
      <4>1. PICK g \in GrantIDs : Adds(d, g)
        BY <3>1
      <4>2. ASSUME NEW j \in 1 .. Len(log') PROVE log'[j].id # g
        <5>1. CASE j \in 1 .. Len(log) /\ log'[j] = log[j]
          BY <4>1, <5>1 DEF Adds
        <5>2. CASE \E i \in 1 .. Len(events) : log'[j] = events[i]
          <6>1. \A e \in Range(events) : e.id # g
            BY <1>2, <1>5, <4>1 DEF Adds
          <6> QED  BY <1>2, <5>2, <6>1
        <5> QED  BY <1>2, <5>1, <5>2 DEF Extends
      <4>3. ASSUME NEW b \in Clients \ {d}, request'[b].step = "checked"
            PROVE  \A e \in Range(request'[b].events) : e.id # g
        <5>1. b # c /\ request'[b] = request[b]
          BY <1>2, <1>3, <4>3
        <5> QED  BY <4>1, <4>3, <5>1 DEF Adds
      <4>4. Adds(d, g)'
        BY <2>1, <4>1, <4>2, <4>3 DEF Adds
      <4> QED  BY <4>4
    <3>2. CASE \A e \in Range(request[d].events) : Follows(e)
      <4>1. \A e : Follows(e) => Follows(e)'
        <5>1. \A i \in 1 .. Len(log) : i \in 1 .. Len(log') /\ log'[i] = log[i]
          BY <1>2 DEF Extends
        <5> QED  BY <5>1 DEF Follows
      <4> QED  BY <3>2, <4>1
    <3> QED  BY <1>1, <3>1, <3>2 DEF RequestInv
  <2>3. ReachInv(d)'
    <3>1. PICK command, at : command = request[d].command /\ at = request[d].at
      OBVIOUS
    <3>2. ASSUME request[d].step \in {"asked", "checked"}
          PROVE  at \in Nat /\ at <= Len(log) /\ at <= Len(log')
      <4>1. at \in Nat
        BY <1>1, <3>1, <3>2, RequestTypes DEF Questions, Pushes
      <4>2. at <= Len(log)
        BY <1>1, <3>1, <3>2 DEF ReachInv
      <4>3. Len(events) \in Nat
        BY <1>2
      <4> HIDE DEF events
      <4> QED  BY <1>2, <4>1, <4>2, <4>3 DEF Extends
    <3>3. ASSUME request[d].step \in {"asked", "checked"}, NEW g \in GrantIDs, Known(command, at, g)'
          PROVE  Known(command, at, g)
      <4>1. at \in 0 .. Len(log) /\ at \in Nat /\ Len(log) \in Nat /\ at <= Len(log)
        BY <1>2, <3>2, <3>3 DEF Extends
      <4>2. AddedBy(at, g)
        BY <1>2, <3>3, <4>1, PastKept DEF Known
      <4>3. AddedBy(Len(log), g)
        BY <4>1, <4>2, OrphanedLater
      <4>4. Live(g) /\ ~OrphanedBy(Len(log), g)
        BY <3>3, <4>3, PushLive DEF Known, Live
      <4>5. SourceIs(Len(log), g, "grant")' => SourceIs(Len(log), g, "grant")
        BY <4>3, PushLive
      <4> QED  BY <3>3, <4>2, <4>4, <4>5 DEF Known
    <3>4. CASE request[d].step \notin {"asked", "checked"}
      BY <2>1, <3>4 DEF ReachInv
    <3>5. CASE request[d].step = "asked"
      <4>1. \A g \in GrantIDs : Known(command, at, g)' => g \in request[d].ids
        BY <1>1, <3>1, <3>3, <3>5 DEF ReachInv
      <4>2. request'[d].step = "asked" /\ request'[d].at = at /\ request'[d].command = command
        BY <2>1, <3>1, <3>5
      <4> QED  BY <2>1, <3>2, <3>5, <4>1, <4>2 DEF ReachInv
    <3>6. CASE request[d].step = "checked"
      <4>1. \A g \in GrantIDs : Known(command, at, g)' =>
                \/ g \in request[d].unread
                \/ \E e \in Range(request[d].events) : e.type \in Removals /\ e.id = g
        BY <1>1, <3>1, <3>3, <3>6 DEF ReachInv
      <4>2. request'[d].step = "checked" /\ request'[d].at = at /\ request'[d].command = command
        BY <2>1, <3>1, <3>6
      <4> QED  BY <2>1, <3>2, <3>6, <4>1, <4>2 DEF ReachInv
    <3> QED  BY <3>4, <3>5, <3>6
  <2> QED  BY <2>2, <2>3
<1> QED  BY <1>4, <1>5

LEMMA PushStep == ASSUME GrantsInv, NEW c \in Clients, Push(c) PROVE GrantsInv'
<1>1. TypeOK' /\ LogInv' /\ ClaimInv'
  BY PushType, PushLog, PushClaims
<1>2. \A d \in Clients : RequestInv(d)' /\ ReachInv(d)'
  BY PushRequests
<1>3. TableInv(rows, position)'
  <2>1. PICK table, n : table = rows' /\ n = position'
    OBVIOUS
  <2>2. TableInv(table, n) /\ n \in 0 .. Len(log)
    BY <2>1, Parts DEF Push, TypeOK
  <2>3. TableInv(table, n)'
    BY <2>2, PushedEvents, RowsKept
  <2> QED  BY <2>1, <2>3, RowsNow
<1> QED  BY <1>1, <1>2, <1>3, NextParts

\* So does a step that at most moves the projection on.
LEMMA QuietStep ==
    ASSUME GrantsInv, log' = log, claims' = claims, request' = request,
           TableInv(rows', position'), position' \in 0 .. Len(log)
    PROVE  GrantsInv'
<1>1. /\ TypeOK /\ LogInv /\ ClaimInv /\ TableInv(rows, position)
      /\ \A d \in Clients : RequestInv(d) /\ ReachInv(d)
  BY Parts
<1>2. log \in Seq(Events) /\ log' = log /\ claims' = claims /\ request' = request
  BY <1>1 DEF TypeOK
<1>3. TableInv(rows', position') /\ position' \in 0 .. Len(log)
  OBVIOUS
<1>4. log' \in Seq(Events) /\ Extends(<<>>)
  BY <1>2, SameLog
<1>5. TableInv(rows, position)'
  <2>1. PICK table, n : table = rows' /\ n = position'
    OBVIOUS
  <2>2. TableInv(table, n) /\ n \in 0 .. Len(log)
    BY <1>3, <2>1
  <2>3. TableInv(table, n)'
    BY <1>2, <1>4, <2>2, RowsKept
  <2> QED  BY <2>1, <2>3, RowsNow
<1>6. rows' \in Tables
  BY <1>3 DEF TableInv
<1>7. TypeOK'
  BY <1>1, <1>2, <1>3, <1>6 DEF TypeOK, Tables, Resume
<1>8. LogInv'
  BY <1>1, <1>2 DEF LogInv, AddedBy
<1>9. ClaimInv'
  BY <1>1, <1>2 DEF ClaimInv, RemovedTwice, Live, AddedBy, RemovedBy, SourceIs, AddedAs
<1>10. \A d \in Clients : RequestInv(d)'
  BY <1>1, <1>2 DEF RequestInv, Adds, Follows
<1>11. \A command, at, g : Known(command, at, g)' <=> Known(command, at, g)
  BY <1>2 DEF Known, AddedBy, Live, RemovedBy, OrphanedBy, SourceIs, AddedAs
<1>12. \A d \in Clients : ReachInv(d)'
  BY <1>1, <1>2, <1>11 DEF ReachInv
<1> QED  BY <1>5, <1>7, <1>8, <1>9, <1>10, <1>12, NextParts

LEMMA ProcessStep == ASSUME GrantsInv, Process PROVE GrantsInv'
<1>1. log \in Seq(Events) /\ LogInv /\ TableInv(rows, position) /\ position \in 0 .. Len(log)
  BY Parts DEF TypeOK
<1>2. TableInv(rows', position') /\ position' \in 0 .. Len(log)
  BY <1>1, ProcessRows
<1> QED  BY <1>2, QuietStep DEF Process

-----------------------------------------------------------------------------
(* What the commands push                                                  *)

LEMMA SingleEvent ==
    ASSUME NEW e \in Events, Follows(e), e.type \in RoleTypes => Len(e.keys) = 1
    PROVE  GoodEvents(<<e>>)
<1>1. <<e>> \in Seq(Events) /\ DOMAIN <<e>> = {1} /\ <<e>>[1] = e
  OBVIOUS
<1>2. Range(<<e>>) = {e}
  BY <1>1 DEF Range
<1> QED  BY <1>1, <1>2 DEF GoodEvents, RoleKeys

LEMMA RangeOfBoth ==
    ASSUME NEW a \in Seq(Events), NEW b \in Seq(Events)
    PROVE  a \o b \in Seq(Events) /\ Range(a \o b) = Range(a) \cup Range(b)
<1>1. a \o b \in Seq(Events)
  OBVIOUS
<1>2. Range(a \o b) = Range(a) \cup Range(b)
  BY RangeConcatenation
<1> QED  BY <1>1, <1>2

LEMMA BothEvents ==
    ASSUME NEW a, NEW b, GoodEvents(a), GoodEvents(b)
    PROVE  GoodEvents(a \o b) /\ Range(b) \subseteq Range(a \o b)
BY RangeOfBoth DEF GoodEvents, RoleKeys

LEMMA NoEvents == GoodEvents(<<>>)
<1>1. <<>> \in Seq(Events) /\ DOMAIN <<>> = {}
  OBVIOUS
<1>2. Range(<<>>) = {}
  BY <1>1 DEF Range
<1> QED  BY <1>1, <1>2 DEF GoodEvents, RoleKeys

\* An event about a user grant that is live follows the log.
LEMMA AboutLive ==
    ASSUME log \in Seq(Events), LogInv, NEW g \in GrantIDs, IsLive(UserGrant(g)),
           NEW t \in UserGrantTypes \ {"added"}, NEW s \in Sources, NEW k \in Seq(Roles),
           t \in Removals => s = UserGrant(g).source
    PROVE  /\ Event(t, g, s, k) \in Events /\ Follows(Event(t, g, s, k))
           /\ Event(t, g, s, k).type = t /\ Event(t, g, s, k).id = g /\ t \notin RoleTypes
<1> DEFINE e == Event(t, g, s, k)
<1>1. e \in Events
  BY EventType
<1>2. e.type = t /\ e.id = g /\ e.source = s
  BY DEF Event
<1>3. LiveFacts
  BY LiveClosed
<1>4. SourceIs(Len(log), g, UserGrant(g).source)
  BY <1>3 DEF LiveFacts
<1>5. PICK i \in 1 .. Len(log) : log[i].type = "added" /\ log[i].id = g /\ log[i].source = UserGrant(g).source
  BY <1>4 DEF SourceIs, AddedAs
<1> HIDE DEF e
<1>6. Follows(e)
  BY <1>2, <1>5 DEF Follows
<1>7. t \notin RoleTypes
  BY DEF UserGrantTypes, RoleTypes
<1> QED  BY <1>1, <1>2, <1>6, <1>7 DEF e

LEMMA AboutProject ==
    ASSUME NEW t \in ProjectTypes, NEW k \in Seq(Roles), t \in RoleTypes => Len(k) = 1
    PROVE  GoodEvents(<<ProjectEvent(t, k)>>)
<1> DEFINE e == Event(t, NoID, "project", k)
<1>1. e \in Events
  BY EventType DEF Sources
<1>2. e.type = t /\ e.id = NoID /\ e.keys = k
  BY DEF Event
<1>3. t \notin UserGrantTypes /\ t # "added"
  BY DEF ProjectTypes, UserGrantTypes
<1> HIDE DEF e
<1>4. Follows(e)
  BY <1>2, <1>3 DEF Follows
<1>5. GoodEvents(<<e>>)
  BY <1>1, <1>2, <1>4, SingleEvent
<1> QED  BY <1>5 DEF ProjectEvent, e

\* One event for each user grant of a set of live ones.
LEMMA ListedEvents ==
    ASSUME log \in Seq(Events), LogInv, NEW S \in SUBSET GrantIDs, \A g \in S : IsLive(UserGrant(g)),
           NEW f, NEW t \in UserGrantTypes \ {"added"},
           f = [i \in DOMAIN SetToSeq(S) |-> f[i]],
           \A i \in DOMAIN SetToSeq(S) :
               LET g == SetToSeq(S)[i] IN
               \E s \in Sources, k \in Seq(Roles) :
                   f[i] = Event(t, g, s, k) /\ (t \in Removals => s = UserGrant(g).source)
    PROVE  GoodEvents(f) /\ \A g \in S : \E e \in Range(f) : e.type = t /\ e.id = g
<1> DEFINE list == SetToSeq(S)
<1>1. DOMAIN list = 1 .. Len(list) /\ Len(list) \in Nat
  BY ListFacts
<1>2. ASSUME NEW i \in DOMAIN list
      PROVE  f[i] \in Events /\ Follows(f[i]) /\ f[i].type = t /\ f[i].id = list[i] /\ t \notin RoleTypes
  <2>1. list[i] \in S /\ list[i] \in GrantIDs
    BY ListFacts
  <2>2. PICK s \in Sources, k \in Seq(Roles) :
            f[i] = Event(t, list[i], s, k) /\ (t \in Removals => s = UserGrant(list[i]).source)
    OBVIOUS
  <2> HIDE DEF list
  <2> QED  BY <2>1, <2>2, AboutLive
<1>3. \A g \in S : \E i \in DOMAIN list : list[i] = g
  BY ListFacts
<1> HIDE DEF list
<1>4. DOMAIN f = DOMAIN list
  BY DEF list
<1>5. f \in Seq(Events)
  <2>1. f \in [1 .. Len(list) -> Events]
    BY <1>1, <1>2 DEF list
  <2> QED  BY <1>1, <2>1, SeqDef
<1>6. \A e \in Range(f) : \E i \in DOMAIN list : e = f[i]
  BY <1>4 DEF Range
<1>7. \A i \in DOMAIN list : f[i] \in Range(f)
  BY <1>4 DEF Range
<1>8. GoodEvents(f)
  BY <1>2, <1>5, <1>6 DEF GoodEvents, RoleKeys
<1> QED  BY <1>2, <1>3, <1>7, <1>8

LEMMA CascadeRemoveEvents ==
    ASSUME log \in Seq(Events), LogInv, NEW ids \in SUBSET GrantIDs
    PROVE  /\ GoodEvents(CascadeRemove(ids))
           /\ \A g \in ids : IsLive(UserGrant(g)) =>
                 \E e \in Range(CascadeRemove(ids)) : e.type \in Removals /\ e.id = g
<1> DEFINE S == {g \in ids : IsLive(UserGrant(g))}
           f == CascadeRemove(ids)
<1>1. S \in SUBSET GrantIDs /\ \A g \in S : IsLive(UserGrant(g))
  OBVIOUS
<1>2. f = [i \in DOMAIN SetToSeq(S) |->
              Event("cascadeRemoved", SetToSeq(S)[i], UserGrant(SetToSeq(S)[i]).source, <<>>)]
  BY DEF CascadeRemove
<1>3. ASSUME NEW g \in GrantIDs PROVE UserGrant(g).source \in Sources
  BY LiveClosed DEF LiveFacts, Models
<1>4. \A i \in DOMAIN SetToSeq(S) : SetToSeq(S)[i] \in GrantIDs
  <2> HIDE DEF S
  <2> QED  BY <1>1, ListFacts
<1>5. <<>> \in Seq(Roles) /\ "cascadeRemoved" \in UserGrantTypes \ {"added"}
  BY DEF UserGrantTypes
<1> HIDE DEF S, f
<1>6. f = [i \in DOMAIN SetToSeq(S) |-> f[i]]
  BY <1>2
<1>7. \A i \in DOMAIN SetToSeq(S) :
          LET g == SetToSeq(S)[i] IN
          \E s \in Sources, k \in Seq(Roles) :
              f[i] = Event("cascadeRemoved", g, s, k) /\ ("cascadeRemoved" \in Removals => s = UserGrant(g).source)
  BY <1>2, <1>3, <1>4, <1>5
<1>8. GoodEvents(f)
  BY <1>1, <1>5, <1>6, <1>7, ListedEvents
<1>9. ASSUME NEW g \in S PROVE \E e \in Range(f) : e.type = "cascadeRemoved" /\ e.id = g
  BY <1>1, <1>5, <1>6, <1>7, ListedEvents
<1> QED  BY <1>8, <1>9 DEF S, f, Removals

LEMMA CascadeRolesEvents ==
    ASSUME log \in Seq(Events), LogInv, NEW ids \in SUBSET GrantIDs, NEW gone
    PROVE  GoodEvents(CascadeRoles(ids, gone))
<1> DEFINE S == {g \in ids : /\ IsLive(UserGrant(g))
                             /\ Range(UserGrant(g).keys) \cap gone # {}}
           f == CascadeRoles(ids, gone)
<1>1. S \in SUBSET GrantIDs /\ \A g \in S : IsLive(UserGrant(g))
  OBVIOUS
<1>2. f = [i \in DOMAIN SetToSeq(S) |->
              Event("cascadeChanged", SetToSeq(S)[i], "project", WithoutKeys(UserGrant(SetToSeq(S)[i]).keys, gone))]
  BY DEF CascadeRoles, UserGrantEvent
<1>3. ASSUME NEW g \in GrantIDs PROVE WithoutKeys(UserGrant(g).keys, gone) \in Seq(Roles)
  <2>1. UserGrant(g).keys \in Seq(Roles)
    BY LiveClosed DEF LiveFacts, Models
  <2> QED  BY <2>1, WithoutKeysType
<1>4. \A i \in DOMAIN SetToSeq(S) : SetToSeq(S)[i] \in GrantIDs
  <2> HIDE DEF S
  <2> QED  BY <1>1, ListFacts
<1>5. "project" \in Sources /\ "cascadeChanged" \in UserGrantTypes \ {"added"} /\ "cascadeChanged" \notin Removals
  BY DEF UserGrantTypes, Removals, Sources
<1> HIDE DEF S, f
<1>6. f = [i \in DOMAIN SetToSeq(S) |-> f[i]]
  BY <1>2
<1>7. \A i \in DOMAIN SetToSeq(S) :
          LET g == SetToSeq(S)[i] IN
          \E s \in Sources, k \in Seq(Roles) :
              f[i] = Event("cascadeChanged", g, s, k) /\ ("cascadeChanged" \in Removals => s = UserGrant(g).source)
  BY <1>2, <1>3, <1>4, <1>5
<1>8. GoodEvents(f)
  BY <1>1, <1>5, <1>6, <1>7, ListedEvents
<1> QED  BY <1>8 DEF f

\* What RemoveUserGrant pushes.
LEMMA RemoveEvents ==
    ASSUME log \in Seq(Events), LogInv, NEW S \in SUBSET GrantIDs, \A g \in S : IsLive(UserGrant(g))
    PROVE  GoodEvents([i \in DOMAIN SetToSeq(S) |->
                          Event("removed", SetToSeq(S)[i], UserGrant(SetToSeq(S)[i]).source, <<>>)])
<1> DEFINE f == [i \in DOMAIN SetToSeq(S) |->
                    Event("removed", SetToSeq(S)[i], UserGrant(SetToSeq(S)[i]).source, <<>>)]
<1>1. ASSUME NEW g \in GrantIDs PROVE UserGrant(g).source \in Sources
  BY LiveClosed DEF LiveFacts, Models
<1>2. \A i \in DOMAIN SetToSeq(S) : SetToSeq(S)[i] \in GrantIDs
  BY ListFacts
<1>3. <<>> \in Seq(Roles) /\ "removed" \in UserGrantTypes \ {"added"}
  BY DEF UserGrantTypes
<1>4. f = [i \in DOMAIN SetToSeq(S) |-> f[i]]
  OBVIOUS
<1>5. \A i \in DOMAIN SetToSeq(S) :
          LET g == SetToSeq(S)[i] IN
          \E s \in Sources, k \in Seq(Roles) :
              f[i] = Event("removed", g, s, k) /\ ("removed" \in Removals => s = UserGrant(g).source)
  BY <1>1, <1>2, <1>3
<1> HIDE DEF f
<1>6. GoodEvents(f)
  BY <1>3, <1>4, <1>5, ListedEvents
<1> QED  BY <1>6 DEF f

LEMMA ReadyStep ==
    ASSUME GrantsInv, NEW c \in Clients, NEW command \in CommandNames, NEW events, GoodEvents(events),
           Ready(c, command, events)
    PROVE  GrantsInv'
<1> DEFINE q == Checked(command, events, 0, {})
<1>1. /\ log' = log /\ claims' = claims /\ position' = position /\ rows' = rows
      /\ request' = [request EXCEPT ![c] = q]
  BY DEF Ready
<1>2. TableInv(rows', position') /\ position' \in 0 .. Len(log) /\ log \in Seq(Events)
  BY <1>1, Parts DEF TypeOK
<1>3. q \in Pushes /\ q.events = events /\ q.at = 0 /\ q.command = command
  BY DEF Checked, Pushes, GoodEvents
<1> HIDE DEF q
<1>4. GoodPush(q)
  <2>1. \A g : ~Known(command, 0, g)
    BY NoneYet DEF Known
  <2> QED  BY <1>2, <1>3, <2>1, LogFacts DEF GoodPush
<1> QED  BY <1>1, <1>2, <1>4, RequestStep

LEMMA ReadyCascadeStep ==
    ASSUME GrantsInv, NEW c \in Clients, request[c].step = "asked", NEW events, GoodEvents(events),
           NEW unread \in SUBSET GrantIDs,
           \A g \in GrantIDs : Known(request[c].command, request[c].at, g) =>
               g \in unread \/ \E e \in Range(events) : e.type \in Removals /\ e.id = g,
           ReadyCascade(c, events, unread)
    PROVE  GrantsInv'
<1> DEFINE q == Checked(request[c].command, events, request[c].at, unread)
<1>1. TypeOK /\ ReachInv(c) /\ request[c] \in Questions
  BY RequestTypes DEF GrantsInv
<1>2. /\ log' = log /\ claims' = claims /\ position' = position /\ rows' = rows
      /\ request' = [request EXCEPT ![c] = q]
  BY <1>1 DEF ReadyCascade, TypeOK
<1>3. TableInv(rows', position') /\ position' \in 0 .. Len(log)
  BY <1>1, <1>2, Parts DEF TypeOK
<1>4. /\ q \in Pushes /\ q.events = events /\ q.at = request[c].at /\ q.command = request[c].command
      /\ q.unread = unread
  BY <1>1 DEF Checked, Pushes, GoodEvents, Questions
<1> HIDE DEF q
<1>5. GoodPush(q)
  BY <1>1, <1>4 DEF GoodPush, ReachInv
<1> QED  BY <1>2, <1>3, <1>5, RequestStep

LEMMA FailStep == ASSUME GrantsInv, NEW c \in Clients, Fail(c) PROVE GrantsInv'
<1>1. /\ log' = log /\ claims' = claims /\ position' = position /\ rows' = rows
      /\ request' = [request EXCEPT ![c] = Idle]
  BY DEF Fail
<1>2. TableInv(rows', position') /\ position' \in 0 .. Len(log)
  BY <1>1, Parts DEF TypeOK
<1> QED  BY <1>1, <1>2, RequestStep

LEMMA AddUserGrantStep == ASSUME GrantsInv, NEW c \in Clients, AddUserGrant(c) PROVE GrantsInv'
<1>1. PICK source \in Sources, keys \in RequestKeys, g \in GrantIDs :
          NextID(g) /\ Ready(c, "AddUserGrant", <<Event("added", g, source, keys)>>)
  BY DEF AddUserGrant
<1> DEFINE e == Event("added", g, source, keys)
           q == Checked("AddUserGrant", <<e>>, 0, {})
<1>2. /\ log' = log /\ claims' = claims /\ position' = position /\ rows' = rows
      /\ request' = [request EXCEPT ![c] = q]
  BY <1>1 DEF Ready
<1>3. TableInv(rows', position') /\ position' \in 0 .. Len(log)
  BY <1>2, Parts DEF TypeOK
<1>4. e \in Events
  BY EventType, Constants DEF UserGrantTypes
<1>5. e.type = "added" /\ e.id = g
  BY DEF Event
<1> HIDE DEF e
<1>6. q \in Pushes /\ q.events = <<e>> /\ q.at = 0
  BY <1>4 DEF Checked, Pushes, CommandNames
<1> HIDE DEF q
<1>7. NewGrant(q)
  BY <1>1, <1>4, <1>5, <1>6 DEF NewGrant, NextID
<1> QED  BY <1>2, <1>3, <1>7, RequestStep

LEMMA UserGrantSteps ==
    ASSUME GrantsInv, NEW c \in Clients,
           \/ ChangeUserGrant(c) \/ DeactivateUserGrant(c) \/ ReactivateUserGrant(c) \/ RemoveUserGrant(c)
    PROVE  GrantsInv'
<1>1. log \in Seq(Events) /\ LogInv
  BY DEF GrantsInv, TypeOK
<1>2. /\ <<>> \in Seq(Roles) /\ "project" \in Sources
      /\ \A t \in {"changed", "deactivated", "reactivated"} : t \in UserGrantTypes \ {"added"} /\ t \notin Removals
      /\ {"ChangeUserGrant", "DeactivateUserGrant", "ReactivateUserGrant", "RemoveUserGrant"} \subseteq CommandNames
  BY DEF Sources, UserGrantTypes, Removals, CommandNames
<1>3. ASSUME NEW g \in GrantIDs, IsLive(UserGrant(g)), NEW k \in Seq(Roles),
             NEW t \in {"changed", "deactivated", "reactivated"}
      PROVE  GoodEvents(<<UserGrantEvent(t, g, k)>>)
  <2> DEFINE e == Event(t, g, "project", k)
  <2>1. e \in Events /\ Follows(e) /\ e.type = t /\ t \notin RoleTypes
    BY <1>1, <1>2, <1>3, AboutLive
  <2> HIDE DEF e
  <2>2. GoodEvents(<<e>>)
    BY <2>1, SingleEvent
  <2> QED  BY <2>2 DEF e, UserGrantEvent
<1>4. CASE ChangeUserGrant(c)
  <2>1. PICK g \in GrantIDs, keys \in RequestKeys :
            IsLive(UserGrant(g)) /\ Ready(c, "ChangeUserGrant", <<UserGrantEvent("changed", g, keys)>>)
    BY <1>4 DEF ChangeUserGrant
  <2>2. GoodEvents(<<UserGrantEvent("changed", g, keys)>>)
    BY <1>3, <2>1, Constants
  <2> QED  BY <1>2, <2>1, <2>2, ReadyStep
<1>5. CASE DeactivateUserGrant(c)
  <2>1. PICK g \in GrantIDs :
            InState(g, {"active"}) /\ Ready(c, "DeactivateUserGrant", <<UserGrantEvent("deactivated", g, <<>>)>>)
    BY <1>5 DEF DeactivateUserGrant
  <2>2. IsLive(UserGrant(g))
    BY <2>1 DEF InState, IsLive
  <2>3. GoodEvents(<<UserGrantEvent("deactivated", g, <<>>)>>)
    BY <1>2, <1>3, <2>2
  <2> QED  BY <1>2, <2>1, <2>3, ReadyStep
<1>6. CASE ReactivateUserGrant(c)
  <2>1. PICK g \in GrantIDs :
            InState(g, {"inactive"}) /\ Ready(c, "ReactivateUserGrant", <<UserGrantEvent("reactivated", g, <<>>)>>)
    BY <1>6 DEF ReactivateUserGrant
  <2>2. IsLive(UserGrant(g))
    BY <2>1 DEF InState, IsLive
  <2>3. GoodEvents(<<UserGrantEvent("reactivated", g, <<>>)>>)
    BY <1>2, <1>3, <2>2
  <2> QED  BY <1>2, <2>1, <2>3, ReadyStep
<1>7. CASE RemoveUserGrant(c)
  <2>1. PICK ids \in SUBSET GrantIDs :
            /\ \A g \in ids : IsLive(UserGrant(g))
            /\ Ready(c, "RemoveUserGrant",
                     [i \in DOMAIN SetToSeq(ids) |->
                         Event("removed", SetToSeq(ids)[i], UserGrant(SetToSeq(ids)[i]).source, <<>>)])
    BY <1>7 DEF RemoveUserGrant
  <2>2. GoodEvents([i \in DOMAIN SetToSeq(ids) |->
                       Event("removed", SetToSeq(ids)[i], UserGrant(SetToSeq(ids)[i]).source, <<>>)])
    BY <1>1, <2>1, RemoveEvents
  <2> QED  BY <1>2, <2>1, <2>2, ReadyStep
<1> QED  BY <1>4, <1>5, <1>6, <1>7

LEMMA AddProjectRoleStep == ASSUME GrantsInv, NEW c \in Clients, AddProjectRole(c) PROVE GrantsInv'
<1>1. PICK k \in Roles : Ready(c, "AddProjectRole", <<ProjectEvent("roleAdded", <<k>>)>>)
  BY DEF AddProjectRole
<1>2. <<k>> \in Seq(Roles) /\ Len(<<k>>) = 1 /\ "roleAdded" \in ProjectTypes /\ "AddProjectRole" \in CommandNames
  BY DEF ProjectTypes, CommandNames
<1>3. GoodEvents(<<ProjectEvent("roleAdded", <<k>>)>>)
  BY <1>2, AboutProject
<1> QED  BY <1>1, <1>2, <1>3, ReadyStep

\* A command that removes what user grants depend on has all of them that were known.
LEMMA RemovalStep ==
    ASSUME GrantsInv, NEW c \in Clients, request[c].step = "asked",
           NEW t \in {"grantRemoved", "projectRemoved", "userRemoved"},
           ReadyRemoval(c, t)
    PROVE  GrantsInv'
<1>0. PICK unread \in Unread(request[c].ids) :
         ReadyCascade(c, <<ProjectEvent(t, <<>>)>> \o CascadeRemove(request[c].ids \ unread), unread)
  BY DEF ReadyRemoval
<1> DEFINE a == <<ProjectEvent(t, <<>>)>>
           b == CascadeRemove(request[c].ids \ unread)
<1>1. log \in Seq(Events) /\ LogInv /\ ReachInv(c) /\ request[c] \in Questions
  BY RequestTypes DEF GrantsInv, TypeOK
<1>2. <<>> \in Seq(Roles) /\ t \in ProjectTypes /\ t \notin RoleTypes
  BY DEF ProjectTypes, RoleTypes
<1>3. GoodEvents(a)
  BY <1>2, AboutProject
<1>4. request[c].ids \ unread \in SUBSET GrantIDs /\ unread \in SUBSET GrantIDs
  BY <1>1 DEF Questions, Unread
<1>5. /\ GoodEvents(b)
      /\ \A g \in request[c].ids \ unread : IsLive(UserGrant(g)) => \E e \in Range(b) : e.type \in Removals /\ e.id = g
  BY <1>1, <1>4, CascadeRemoveEvents
<1> HIDE DEF a, b
<1>6. GoodEvents(a \o b) /\ Range(b) \subseteq Range(a \o b)
  BY <1>3, <1>5, BothEvents
<1>7. ASSUME NEW g \in GrantIDs, Known(request[c].command, request[c].at, g)
      PROVE  g \in unread \/ \E e \in Range(a \o b) : e.type \in Removals /\ e.id = g
  <2>1. g \in request[c].ids
    BY <1>1, <1>7 DEF ReachInv
  <2>2. IsLive(UserGrant(g))
    BY <1>1, <1>7, LiveClosed DEF LiveFacts, Known
  <2> QED  BY <1>5, <1>6, <2>1, <2>2
<1> QED  BY <1>0, <1>4, <1>6, <1>7, ReadyCascadeStep DEF a, b

LEMMA CascadeSteps ==
    ASSUME GrantsInv, NEW c \in Clients,
           \/ RemoveProjectRole(c) \/ ChangeProjectGrant(c)
           \/ RemoveProjectGrant(c) \/ RemoveProject(c) \/ RemoveUser(c)
    PROVE  GrantsInv'
<1>1. log \in Seq(Events) /\ LogInv /\ TypeOK
  BY DEF GrantsInv, TypeOK
<1>2. request[c].step = "asked"
  BY DEF RemoveProjectRole, ChangeProjectGrant, RemoveProjectGrant, RemoveProject, RemoveUser, Resume
<1>3. /\ request[c] \in Questions /\ request[c].ids \in SUBSET GrantIDs /\ request[c].keys \in Seq(Roles)
  BY <1>1, <1>2, RequestTypes DEF Questions
<1>4. ASSUME request[c].command \in {"RemoveProjectRole", "ChangeProjectGrant"}, NEW g
      PROVE  ~Known(request[c].command, request[c].at, g)
  BY <1>4 DEF Known
<1>5. CASE RemoveProjectRole(c)
  <2>0. PICK unread \in Unread(request[c].ids), read \in BOOLEAN :
            LET k == request[c].key
                keys == ProjectGrantKeysOf(Len(log))
            IN  ReadyCascade(c,
                   <<ProjectEvent("roleRemoved", <<k>>)>>
                   \o (IF (request[c].grants /\ ProjectGrantExists /\ k \in Range(keys)) /\ read
                       THEN <<ProjectEvent("grantCascadeChanged", WithoutKeys(keys, {k}))>>
                       ELSE <<>>)
                   \o CascadeRoles(request[c].ids \ unread, {k}), unread)
    BY <1>5 DEF RemoveProjectRole
  <2> DEFINE k == request[c].key
             keys == ProjectGrantKeysOf(Len(log))
             cascade == CascadeRoles(request[c].ids \ unread, {k})
             first == <<ProjectEvent("roleRemoved", <<k>>)>>
             second == <<ProjectEvent("grantCascadeChanged", WithoutKeys(keys, {k}))>>
  <2>1. k \in Roles /\ request[c].command = "RemoveProjectRole"
    BY <1>1, <1>5 DEF TypeOK, RemoveProjectRole, Resume
  <2>2. \/ ReadyCascade(c, first \o second \o cascade, unread)
        \/ ReadyCascade(c, first \o <<>> \o cascade, unread)
    BY <2>0
  <2>3. GoodEvents(first)
    <3>1. <<k>> \in Seq(Roles) /\ Len(<<k>>) = 1 /\ "roleRemoved" \in ProjectTypes
      BY <2>1 DEF ProjectTypes
    <3> QED  BY <3>1, AboutProject
  <2>4. GoodEvents(second)
    <3>1. keys \in Seq(Roles)
      BY <1>1, LogFacts, ProjectGrantKeysType
    <3>2. WithoutKeys(keys, {k}) \in Seq(Roles)
      <4> HIDE DEF keys, k
      <4> QED  BY <3>1, WithoutKeysType
    <3>3. "grantCascadeChanged" \in ProjectTypes /\ "grantCascadeChanged" \notin RoleTypes
      BY DEF ProjectTypes, RoleTypes
    <3> HIDE DEF keys, k
    <3> QED  BY <3>2, <3>3, AboutProject
  <2>5. request[c].ids \ unread \in SUBSET GrantIDs /\ unread \in SUBSET GrantIDs
    BY <1>3 DEF Unread
  <2>6. GoodEvents(cascade)
    BY <1>1, <2>5, CascadeRolesEvents
  <2> HIDE DEF k, keys, cascade, first, second
  <2>7. GoodEvents(first \o second \o cascade) /\ GoodEvents(first \o <<>> \o cascade)
    BY <2>3, <2>4, <2>6, NoEvents, BothEvents
  <2> QED  BY <1>2, <1>4, <2>1, <2>2, <2>7, <2>5, ReadyCascadeStep
<1>6. CASE ChangeProjectGrant(c)
  <2>0. PICK unread \in Unread(request[c].ids) :
            LET gone == Range(ProjectGrantKeysOf(Len(log))) \ Range(request[c].keys)
            IN  ReadyCascade(c, <<ProjectEvent("grantChanged", request[c].keys)>>
                                \o CascadeRoles(request[c].ids \ unread, gone), unread)
    BY <1>6 DEF ChangeProjectGrant
  <2> DEFINE gone == Range(ProjectGrantKeysOf(Len(log))) \ Range(request[c].keys)
             first == <<ProjectEvent("grantChanged", request[c].keys)>>
             cascade == CascadeRoles(request[c].ids \ unread, gone)
  <2>1. ReadyCascade(c, first \o cascade, unread) /\ request[c].command = "ChangeProjectGrant"
    BY <1>6, <2>0 DEF ChangeProjectGrant, Resume
  <2>2. GoodEvents(first)
    <3>1. "grantChanged" \in ProjectTypes /\ "grantChanged" \notin RoleTypes
      BY DEF ProjectTypes, RoleTypes
    <3> QED  BY <1>3, <3>1, AboutProject
  <2>3. request[c].ids \ unread \in SUBSET GrantIDs /\ unread \in SUBSET GrantIDs
    BY <1>3 DEF Unread
  <2>4. GoodEvents(cascade)
    <3> HIDE DEF gone
    <3> QED  BY <1>1, <2>3, CascadeRolesEvents
  <2> HIDE DEF gone, first, cascade
  <2>5. GoodEvents(first \o cascade)
    BY <2>2, <2>4, BothEvents
  <2> QED  BY <1>2, <1>4, <2>1, <2>5, <2>3, ReadyCascadeStep
<1>7. CASE RemoveProjectGrant(c)
  BY <1>2, <1>7, RemovalStep DEF RemoveProjectGrant
<1>8. CASE RemoveProject(c)
  BY <1>2, <1>8, RemovalStep DEF RemoveProject
<1>9. CASE RemoveUser(c)
  BY <1>2, <1>9, RemovalStep DEF RemoveUser
<1> QED  BY <1>5, <1>6, <1>7, <1>8, <1>9

-----------------------------------------------------------------------------
(* What the API asks for                                                   *)

\* The projection has a row for every user grant that a removal must reach.
LEMMA KnownRows ==
    ASSUME log \in Seq(Events), LogInv, NEW table, NEW n \in 0 .. Len(log), TableInv(table, n),
           NEW command, NEW g \in GrantIDs, Known(command, n, g)
    PROVE  /\ table[g] # NoRow
           /\ command = "RemoveProjectGrant" => table[g].source = "grant"
           /\ command \in {"RemoveProject", "RemoveUser", "RemoveProjectGrant"}
<1>1. RowInv(table, n, g)
  BY DEF TableInv
<1>2. n \in Nat /\ Len(log) \in Nat /\ n <= Len(log)
  BY LogFacts
<1>3. AddedBy(n, g) /\ ~RemovedBy(n, g) /\ ~OrphanedBy(n, g)
  BY <1>2, OrphanedLater DEF Known, Live
<1>4. table[g] # NoRow
  BY <1>1, <1>3 DEF RowInv
<1>5. table[g].source = UserGrantOf(n, g).source
  BY <1>1, <1>4 DEF RowInv
<1>6. ASSUME command = "RemoveProjectGrant" PROVE table[g].source = "grant"
  <2>1. PICK i \in 1 .. Len(log) : log[i].type = "added" /\ log[i].id = g /\ log[i].source = "grant"
    BY <1>6 DEF Known, SourceIs, AddedAs
  <2>2. PICK j \in 1 .. n : log[j].type = "added" /\ log[j].id = g
    BY <1>3 DEF AddedBy
  <2>3. j \in 1 .. Len(log)
    BY <1>2
  <2>4. i = j
    BY <2>1, <2>2, <2>3 DEF LogInv
  <2>5. SourceIs(n, g, "grant") /\ "grant" \in Sources
    BY <2>1, <2>2, <2>4 DEF SourceIs, AddedAs, Sources
  <2>6. UserGrantOf(n, g).source = "grant"
    BY <1>3, <2>5, ClosedForm DEF Closed
  <2> QED  BY <1>5, <2>6
<1>7. command \in {"RemoveProject", "RemoveUser", "RemoveProjectGrant"}
  BY DEF Known
<1> QED  BY <1>4, <1>6, <1>7

LEMMA AskStep ==
    ASSUME GrantsInv, NEW c \in Clients, NEW command \in CommandNames, NEW key \in Roles \cup {NoKey},
           NEW keys \in Seq(Roles), NEW ids \in SUBSET GrantIDs, NEW grants \in BOOLEAN,
           NEW at, at = position', position' \in 0 .. Len(log), TableInv(rows', position'),
           command = "RemoveProjectRole" => key \in Roles,
           \A g \in GrantIDs : Known(command, at, g) => g \in ids,
           Ask(c, command, key, keys, ids, grants, at)
    PROVE  GrantsInv'
<1> DEFINE q == Asked(command, key, keys, ids, grants, at)
<1>1. log' = log /\ claims' = claims /\ request' = [request EXCEPT ![c] = q]
  BY DEF Ask
<1>2. log \in Seq(Events)
  BY DEF GrantsInv, TypeOK
<1>3. at \in Nat /\ at <= Len(log)
  BY <1>2, LogFacts
<1>4. q \in Questions
  BY <1>3 DEF Asked, Questions
<1>5. q.command = command /\ q.key = key /\ q.ids = ids /\ q.at = at
  BY DEF Asked
<1> HIDE DEF q
<1>6. GoodQuestion(q)
  BY <1>3, <1>4, <1>5 DEF GoodQuestion
<1> QED  BY <1>1, <1>6, RequestStep

LEMMA AskSteps ==
    ASSUME GrantsInv, NEW c \in Clients,
           \/ AskRemoveProjectRole(c) \/ AskChangeProjectGrant(c)
           \/ AskRemoveProjectGrant(c) \/ AskRemoveProject(c) \/ AskRemoveUser(c)
    PROVE  GrantsInv'
<1>1. log \in Seq(Events) /\ LogInv /\ TableInv(rows, position) /\ position \in 0 .. Len(log)
  BY Parts DEF TypeOK
<1>2. Trigger => TableInv(rows', position') /\ position' \in 0 .. Len(log)
  BY <1>1, TriggerRows
<1>3. UNCHANGED <<position, rows>> => TableInv(rows', position') /\ position' \in 0 .. Len(log)
  BY <1>1
<1>4. /\ {"RemoveProjectRole", "ChangeProjectGrant", "RemoveProjectGrant", "RemoveProject", "RemoveUser"}
             \subseteq CommandNames
      /\ <<>> \in Seq(Roles) /\ FALSE \in BOOLEAN /\ NoKey \in Roles \cup {NoKey}
  BY DEF CommandNames
<1>5. PICK n, table : n = position' /\ table = rows'
  OBVIOUS
<1>6. ASSUME TableInv(rows', position'), position' \in 0 .. Len(log), NEW command, NEW g \in GrantIDs,
             Known(command, n, g)
      PROVE  /\ table[g] # NoRow
             /\ command = "RemoveProjectGrant" => table[g].source = "grant"
             /\ command \in {"RemoveProject", "RemoveUser", "RemoveProjectGrant"}
  BY <1>1, <1>5, <1>6, KnownRows
<1>7. CASE AskRemoveProjectRole(c)
  <2>1. PICK k \in Roles, m \in InitialEvents .. Len(log) :
            /\ Ask(c, "RemoveProjectRole", k, <<>>, RowsWith(rows, LAMBDA r : k \in r.keys),
                   k \in Range(ProjectGrantKeysOf(m)), position)
            /\ UNCHANGED <<position, rows>>
    BY <1>7 DEF AskRemoveProjectRole
  <2> DEFINE ids == RowsWith(rows, LAMBDA r : k \in r.keys)
             q == Asked("RemoveProjectRole", k, <<>>, ids, k \in Range(ProjectGrantKeysOf(m)), position)
  <2>2. ids \in SUBSET GrantIDs
    BY DEF RowsWith
  <2>3. request' = [request EXCEPT ![c] = q] /\ log' = log /\ claims' = claims
    BY <2>1 DEF Ask
  <2> HIDE DEF ids
  <2>4. q.command = "RemoveProjectRole" /\ q.key = k /\ q.at = n
    BY <1>5, <2>1 DEF Asked
  <2>5. position \in Nat /\ position <= Len(log)
    BY <1>1, LogFacts
  <2>6. q \in Questions
    BY <1>4, <2>2, <2>5 DEF Asked, Questions
  <2>7. TableInv(rows', position') /\ position' \in 0 .. Len(log)
    BY <1>3, <2>1
  <2>8. \A g \in GrantIDs : ~Known("RemoveProjectRole", n, g)
    BY <1>6, <2>7
  <2> HIDE DEF q
  <2>9. n <= Len(log)
    BY <1>5, <2>1, <2>5
  <2>10. GoodQuestion(q)
    BY <2>4, <2>6, <2>8, <2>9 DEF GoodQuestion
  <2> QED  BY <2>3, <2>7, <2>10, RequestStep
<1>8. CASE AskChangeProjectGrant(c)
  <2>1. PICK keys \in KeyLists :
            /\ Trigger
            /\ Ask(c, "ChangeProjectGrant", NoKey, keys, RowsWith(rows', LAMBDA r : r.source = "grant"),
                   FALSE, position')
    BY <1>8 DEF AskChangeProjectGrant
  <2> DEFINE ids == RowsWith(table, LAMBDA r : r.source = "grant")
  <2>2. ids \in SUBSET GrantIDs /\ keys \in Seq(Roles)
    BY Constants DEF RowsWith
  <2>3. Ask(c, "ChangeProjectGrant", NoKey, keys, ids, FALSE, n)
    BY <1>5, <2>1
  <2> HIDE DEF ids
  <2>4. \A g \in GrantIDs : ~Known("ChangeProjectGrant", n, g)
    BY <1>2, <1>6, <2>1
  <2> QED  BY <1>2, <1>4, <1>5, <2>1, <2>2, <2>3, <2>4, AskStep
<1>9. CASE AskRemoveProjectGrant(c)
  <2> DEFINE ids == RowsWith(table, LAMBDA r : r.source = "grant")
  <2>1. UNCHANGED <<position, rows>> /\ Ask(c, "RemoveProjectGrant", NoKey, <<>>, ids, FALSE, n)
    BY <1>5, <1>9 DEF AskRemoveProjectGrant
  <2>2. \A g \in GrantIDs : Known("RemoveProjectGrant", n, g) => g \in ids
    BY <1>3, <1>6, <2>1 DEF RowsWith
  <2>3. ids \in SUBSET GrantIDs
    BY DEF RowsWith
  <2> HIDE DEF ids
  <2> QED  BY <1>3, <1>4, <1>5, <2>1, <2>2, <2>3, AskStep
<1>10. ASSUME NEW command \in {"RemoveProject", "RemoveUser"}, Trigger,
              Ask(c, command, NoKey, <<>>, RowsWith(rows', LAMBDA r : TRUE), FALSE, position')
       PROVE  GrantsInv'
  <2> DEFINE ids == RowsWith(table, LAMBDA r : TRUE)
  <2>1. Ask(c, command, NoKey, <<>>, ids, FALSE, n)
    BY <1>5, <1>10
  <2>2. \A g \in GrantIDs : Known(command, n, g) => g \in ids
    BY <1>2, <1>6, <1>10 DEF RowsWith
  <2>3. ids \in SUBSET GrantIDs
    BY DEF RowsWith
  <2> HIDE DEF ids
  <2>4. TableInv(rows', position') /\ position' \in 0 .. Len(log)
    BY <1>2, <1>10
  <2>5. command \in CommandNames /\ command # "RemoveProjectRole"
    BY <1>4
  <2> QED  BY <1>4, <1>5, <2>1, <2>2, <2>3, <2>4, <2>5, AskStep
<1>11. CASE AskRemoveProject(c)
  BY <1>10, <1>11 DEF AskRemoveProject
<1>12. CASE AskRemoveUser(c)
  BY <1>10, <1>12 DEF AskRemoveUser
<1> QED  BY <1>7, <1>8, <1>9, <1>11, <1>12

-----------------------------------------------------------------------------
(* The invariant holds                                                     *)

LEMMA ConcatFacts ==
    ASSUME NEW a \in Seq(Events), NEW b \in Seq(Events)
    PROVE  /\ a \o b \in Seq(Events) /\ Len(a \o b) = Len(a) + Len(b)
           /\ \A i \in 1 .. Len(a) + Len(b) : (a \o b)[i] = IF i <= Len(a) THEN a[i] ELSE b[i - Len(a)]
OBVIOUS

LEMMA InitialFacts ==
    ASSUME NEW source \in Sources, log = InitialLog(source)
    PROVE  /\ log \in Seq(Events) /\ Len(log) = InitialEvents /\ InitialEvents \in Nat /\ InitialEvents >= 2
           /\ \A i \in 1 .. InitialEvents - 1 : log[i].type \notin UserGrantTypes
           /\ log[InitialEvents] = Event("added", FirstID, source, AllRoles)
           /\ \A i \in 1 .. InitialEvents : log[i].type \in RoleTypes => Len(log[i].keys) = 1
<1> DEFINE n == Len(AllRoles)
           a == ProjectEvent("grantAdded", AllRoles)
           b == Event("added", FirstID, source, AllRoles)
           R == [i \in 1 .. n |-> ProjectEvent("roleAdded", <<AllRoles[i]>>)]
           T == <<a, b>>
<1>1. n \in Nat /\ DOMAIN AllRoles = 1 .. n /\ AllRoles \in Seq(Roles) /\ \A i \in 1 .. n : AllRoles[i] \in Roles
  BY Constants
<1>2. a \in Events /\ b \in Events
  BY EventType, Constants, FirstIDFacts DEF ProjectEvent, Sources, ProjectTypes, UserGrantTypes
<1>3. \A i \in 1 .. n : R[i] \in Events /\ R[i].type = "roleAdded" /\ Len(R[i].keys) = 1
  <2> SUFFICES ASSUME NEW i \in 1 .. n
               PROVE  R[i] \in Events /\ R[i].type = "roleAdded" /\ Len(R[i].keys) = 1
    OBVIOUS
  <2>1. <<AllRoles[i]>> \in Seq(Roles) /\ Len(<<AllRoles[i]>>) = 1
    BY <1>1
  <2>2. R[i] = Event("roleAdded", NoID, "project", <<AllRoles[i]>>)
    BY DEF ProjectEvent
  <2>3. Event("roleAdded", NoID, "project", <<AllRoles[i]>>) \in Events
    BY <2>1, EventType DEF Sources, ProjectTypes
  <2>4. /\ Event("roleAdded", NoID, "project", <<AllRoles[i]>>).type = "roleAdded"
        /\ Event("roleAdded", NoID, "project", <<AllRoles[i]>>).keys = <<AllRoles[i]>>
    BY DEF Event
  <2> QED  BY <2>1, <2>2, <2>3, <2>4
<1>4. a.type = "grantAdded" /\ b.type = "added"
  BY DEF Event, ProjectEvent
<1>5. log = R \o T
  BY <1>1 DEF InitialLog
<1> HIDE DEF a, b
<1>6. R \in Seq(Events) /\ Len(R) = n
  <2>1. R \in [1 .. n -> Events]
    BY <1>3
  <2> HIDE DEF R, n
  <2> QED  BY <1>1, <2>1, SeqDef
<1>7. T \in Seq(Events) /\ Len(T) = 2 /\ T[1] = a /\ T[2] = b
  BY <1>2
<1> HIDE DEF R, T, n
<1>8. /\ log \in Seq(Events) /\ Len(log) = n + 2
      /\ \A i \in 1 .. n + 2 : log[i] = IF i <= n THEN R[i] ELSE T[i - n]
  <2>1. R \in Seq(Events) /\ T \in Seq(Events)
    BY <1>6, <1>7
  <2>2. /\ R \o T \in Seq(Events) /\ Len(R \o T) = Len(R) + Len(T)
        /\ \A i \in 1 .. Len(R) + Len(T) : (R \o T)[i] = IF i <= Len(R) THEN R[i] ELSE T[i - Len(R)]
    BY <2>1, ConcatFacts
  <2>3. Len(R) = n /\ Len(T) = 2
    BY <1>6, <1>7
  <2> QED  BY <1>5, <2>2, <2>3
<1>9. InitialEvents = n + 2
  BY DEF InitialEvents, n
<1>10. log[n + 1] = a /\ log[n + 2] = b
  <2>1. /\ n + 1 \in 1 .. n + 2 /\ n + 2 \in 1 .. n + 2 /\ ~(n + 1 <= n) /\ ~(n + 2 <= n)
        /\ (n + 1) - n = 1 /\ (n + 2) - n = 2
    BY <1>1
  <2> QED  BY <1>7, <1>8, <2>1
<1>11. \A i \in 1 .. n : log[i].type = "roleAdded" /\ Len(log[i].keys) = 1
  <2>1. \A i \in 1 .. n : i \in 1 .. n + 2 /\ i <= n
    BY <1>1
  <2> QED  BY <1>3, <1>8, <2>1
<1>12. \A i \in 1 .. n + 2 : i \in 1 .. n \/ i = n + 1 \/ i = n + 2
  BY <1>1
<1>13. \A i \in 1 .. (n + 2) - 1 : i \in 1 .. n \/ i = n + 1
  BY <1>1
<1>14. \A i \in 1 .. (n + 2) - 1 : log[i].type \notin UserGrantTypes
  BY <1>4, <1>10, <1>11, <1>13 DEF UserGrantTypes
<1>15. \A i \in 1 .. n + 2 : log[i].type \in RoleTypes => Len(log[i].keys) = 1
  BY <1>4, <1>10, <1>11, <1>12 DEF RoleTypes
<1> QED  BY <1>1, <1>8, <1>9, <1>10, <1>14, <1>15 DEF b

LEMMA InitialInv == Init => GrantsInv
<1> SUFFICES ASSUME Init PROVE GrantsInv
  OBVIOUS
<1>1. PICK source \in Sources : log = InitialLog(source)
  BY DEF Init
<1> DEFINE m == InitialEvents - 1
           last == log[InitialEvents]
<1>2. /\ log \in Seq(Events) /\ Len(log) = InitialEvents /\ InitialEvents \in Nat /\ InitialEvents >= 2
      /\ \A i \in 1 .. m : log[i].type \notin UserGrantTypes
      /\ last = Event("added", FirstID, source, AllRoles)
      /\ \A i \in 1 .. InitialEvents : log[i].type \in RoleTypes => Len(log[i].keys) = 1
  BY <1>1, InitialFacts
<1>3. last.type = "added" /\ last.id = FirstID /\ last.source = source
  BY <1>2 DEF Event
<1>4. /\ m \in Nat /\ m + 1 = InitialEvents /\ InitialEvents \in 1 .. InitialEvents
      /\ \A i \in 1 .. InitialEvents : i \in 1 .. m \/ i = InitialEvents
  BY <1>2
<1> HIDE DEF m, last
<1>5. \A i \in 1 .. Len(log) : log[i].type \in UserGrantTypes => i = InitialEvents /\ log[i] = last
  BY <1>2, <1>4 DEF last
<1>6. InitialEvents \in 1 .. Len(log) /\ log[InitialEvents] = last
  BY <1>2, <1>4 DEF last
<1>7. "added" \in UserGrantTypes /\ Removals \subseteq UserGrantTypes /\ "added" \notin Removals
  BY DEF UserGrantTypes, Removals
<1>8. LogInv
  <2>1. ASSUME NEW j \in 1 .. Len(log), log[j].type \in UserGrantTypes
        PROVE  log[j].id \in GrantIDs /\ AddedBy(j, log[j].id)
    <3>1. j = InitialEvents /\ log[j] = last /\ j \in 1 .. j
      BY <1>2, <1>4, <1>5, <2>1
    <3> QED  BY <1>3, <3>1, FirstIDFacts DEF AddedBy
  <2> QED  BY <1>3, <1>5, <1>7, <2>1 DEF LogInv
<1>9. ASSUME NEW g PROVE ~AddedBy(m, g) /\ ~RemovedBy(Len(log), g)
  <2>1. ~AddedBy(m, g)
    BY <1>2, <1>7 DEF AddedBy
  <2>2. ~RemovedBy(Len(log), g)
    BY <1>3, <1>5, <1>7 DEF RemovedBy
  <2> QED  BY <2>1, <2>2
<1>10. TableInv(rows, position)
  <2> DEFINE none == [g \in GrantIDs |-> NoRow]
  <2>1. none \in Tables
    BY DEF Tables
  <2>2. \A g \in GrantIDs : RowInv(none, m, g)
    BY <1>9 DEF RowInv
  <2>3. TableInv(none, m)
    BY <2>1, <2>2 DEF TableInv
  <2>4. rows = Project(none, log[m + 1]) /\ position = m + 1
    BY <1>4 DEF Init
  <2>5. log[m + 1].type # "reactivated"
    BY <1>3, <1>4, <1>6
  <2> HIDE DEF none
  <2>6. m + 1 <= Len(log)
    BY <1>2, <1>4
  <2>7. TableInv(Project(none, log[m + 1]), m + 1)
    BY <1>2, <1>4, <1>8, <2>3, <2>5, <2>6, RowStep
  <2> QED  BY <2>4, <2>7
<1>11. DOMAIN log = 1 .. InitialEvents /\ \A e \in Range(log) : \E i \in 1 .. InitialEvents : e = log[i]
  <2>1. DOMAIN log = 1 .. InitialEvents
    BY <1>2, LogFacts
  <2> QED  BY <2>1 DEF Range
<1>12. last \in Range(log)
  BY <1>6, <1>11, <1>2 DEF Range
<1>13. ClaimInv
  <2>1. Claim(source) \in claims
    <3>1. Claim(source) \in ConstraintsAdded(log)
      BY <1>3, <1>12 DEF ConstraintsAdded, Claim
    <3> QED  BY <3>1 DEF Init
  <2>2. ASSUME NEW g, NEW s, SourceIs(Len(log), g, s) PROVE g = FirstID /\ s = source
    BY <1>3, <1>5, <1>7, <2>2 DEF SourceIs, AddedAs
  <2> QED  BY <2>1, <2>2 DEF ClaimInv
<1>14. \A c \in Clients : request[c] = Idle
  BY DEF Init
<1>15. Idle.step = "idle"
  BY DEF Idle
<1>16. \A c \in Clients : RequestInv(c) /\ ReachInv(c)
  BY <1>14, <1>15 DEF RequestInv, ReachInv
<1>17. TypeOK
  <2>1. \A e \in Range(log) : e \in Events /\ (e.type \in RoleTypes => Len(e.keys) = 1)
    BY <1>2, <1>11, LogFacts
  <2>2. claims \subseteq {"user_grant"} \X Sources \cup {"project_role"} \X Roles
    <3>1. \A e \in Range(log) : e.source \in Sources
      BY <2>1, EventFacts
    <3>2. \A e \in Range(log) : e.type = "roleAdded" => e.keys[1] \in Roles
      <4>1. \A e \in Range(log) : e.keys \in Seq(Roles)
        BY <2>1, EventFacts
      <4> QED  BY <2>1, <4>1, OneKey DEF RoleTypes
    <3>3. ConstraintsAdded(log) \subseteq {"user_grant"} \X Sources \cup {"project_role"} \X Roles
      BY <3>1, <3>2 DEF ConstraintsAdded
    <3> QED  BY <3>3 DEF Init
  <2>3. rows \in Tables
    BY <1>10 DEF TableInv
  <2>4. position \in 0 .. Len(log)
    BY <1>2 DEF Init
  <2>5. request \in [Clients -> {Idle} \cup Questions \cup Pushes]
    BY DEF Init
  <2>6. \A c \in Clients : ~Resume(c, "RemoveProjectRole") /\ request[c].step # "checked"
    BY <1>14, <1>15 DEF Resume
  <2> QED  BY <1>2, <2>1, <2>2, <2>3, <2>4, <2>5, <2>6 DEF TypeOK, Tables
<1> QED  BY <1>8, <1>10, <1>13, <1>16, <1>17, Parts

LEMMA StepInv == GrantsInv /\ [Next]_vars => GrantsInv'
<1> SUFFICES ASSUME GrantsInv, [Next]_vars PROVE GrantsInv'
  OBVIOUS
<1>1. CASE UNCHANGED vars
  <2>1. TableInv(rows, position) /\ position \in 0 .. Len(log)
    BY Parts DEF TypeOK
  <2>2. log' = log /\ claims' = claims /\ request' = request /\ rows' = rows /\ position' = position
    BY <1>1 DEF vars
  <2> QED  BY <2>1, <2>2, QuietStep
<1>2. CASE Process
  BY <1>2, ProcessStep
<1>3. ASSUME NEW c \in Clients,
             \/ AddUserGrant(c) \/ ChangeUserGrant(c)
             \/ DeactivateUserGrant(c) \/ ReactivateUserGrant(c)
             \/ RemoveUserGrant(c) \/ AddProjectRole(c)
             \/ AskRemoveProjectRole(c) \/ RemoveProjectRole(c)
             \/ AskChangeProjectGrant(c) \/ ChangeProjectGrant(c)
             \/ AskRemoveProjectGrant(c) \/ RemoveProjectGrant(c)
             \/ AskRemoveProject(c) \/ RemoveProject(c)
             \/ AskRemoveUser(c) \/ RemoveUser(c)
             \/ Push(c) \/ Fail(c)
      PROVE  GrantsInv'
  BY <1>3, AddUserGrantStep, UserGrantSteps, AddProjectRoleStep, AskSteps, CascadeSteps, PushStep, FailStep
<1> QED  BY <1>1, <1>2, <1>3 DEF Next

LEMMA GrantsInvariant == Spec => []GrantsInv
BY InitialInv, StepInv, PTL DEF Spec

-----------------------------------------------------------------------------
(* Theorems                                                                *)

\* The projection of the user grants is never ahead of the events, and events,
\* constraints, rows and requests have the shapes the code gives them.
THEOREM TypeCorrect == Spec => []TypeOK
<1>1. GrantsInv => TypeOK
  BY DEF GrantsInv
<1> QED  BY <1>1, GrantsInvariant, PTL

\* However requests interleave, a user has at most one live grant from the same
\* organization on the same project or project grant, until a user grant has been
\* removed twice (NewAddUserGrantUniqueConstraint, NewRemoveUserGrantUniqueConstraint).
THEOREM OneGrantAtATime == Spec => []OneGrant
<1>1. GrantsInv => OneGrant
  <2> SUFFICES ASSUME GrantsInv, ~RemovedTwice, NEW g \in GrantIDs, NEW h \in GrantIDs,
                      IsLive(UserGrant(g)), IsLive(UserGrant(h)),
                      UserGrant(g).source = UserGrant(h).source
               PROVE  g = h
    BY DEF OneGrant
  <2>1. LiveFacts /\ ClaimInv
    BY LiveClosed DEF GrantsInv, TypeOK
  <2> DEFINE s == UserGrant(g).source
  <2>2. Live(g) /\ Live(h) /\ s \in Sources
    BY <2>1 DEF LiveFacts, Models
  <2>3. SourceIs(Len(log), g, s) /\ SourceIs(Len(log), h, s)
    BY <2>1, <2>2 DEF LiveFacts
  <2> HIDE DEF s
  <2> QED  BY <2>1, <2>2, <2>3 DEF ClaimInv
<1> QED  BY <1>1, GrantsInvariant, PTL

\* The rows of the projection give no access that the events up to its position do
\* not give: state and roles of a row are covered by the write model.
THEOREM AccessGranted == Spec => []AccessIsGranted
<1>1. GrantsInv => AccessIsGranted
  BY DEF GrantsInv, RowInv, AccessIsGranted
<1> QED  BY <1>1, GrantsInvariant, PTL

\* The write model of a user grant never leaves the state removed, whatever is pushed
\* after the removal.
THEOREM RemovalsAreFinal == Spec => RemovedForGood
<1> DEFINE A == \A g \in GrantIDs :
                   UserGrant(g).state = "removed" => UserGrant(g)'.state = "removed"
<1>1. GrantsInv /\ GrantsInv' /\ [Next]_vars => [A]_vars
  <2> SUFFICES ASSUME GrantsInv, GrantsInv', [Next]_vars, ~UNCHANGED vars, NEW g \in GrantIDs,
                      UserGrant(g).state = "removed"
               PROVE  UserGrant(g)'.state = "removed"
    OBVIOUS
  <2>1. log \in Seq(Events) /\ LogInv /\ LiveFacts
    BY LiveClosed DEF GrantsInv, TypeOK
  <2>2. (log \in Seq(Events) /\ LogInv)'
    BY DEF GrantsInv, TypeOK
  <2>3. LiveFacts'
    BY <2>2, NextLive
  <2>4. AddedBy(Len(log), g) /\ RemovedBy(Len(log), g)
    BY <2>1 DEF LiveFacts
  <2>5. AddedBy(Len(log), g)' /\ RemovedBy(Len(log), g)'
    <3>1. CASE log' = log
      BY <2>4, <3>1 DEF AddedBy, RemovedBy
    <3>2. CASE \E c \in Clients : Push(c)
      BY <2>4, <3>2, PushLive
    <3>3. log' = log \/ \E c \in Clients : Push(c)
      BY DEF Next, Process, AddUserGrant, ChangeUserGrant, DeactivateUserGrant, ReactivateUserGrant,
             RemoveUserGrant, AddProjectRole, AskRemoveProjectRole, RemoveProjectRole,
             AskChangeProjectGrant, ChangeProjectGrant, AskRemoveProjectGrant, RemoveProjectGrant,
             AskRemoveProject, RemoveProject, AskRemoveUser, RemoveUser, Fail, Ready, ReadyCascade, ReadyRemoval,
             Ask
    <3> QED  BY <3>1, <3>2, <3>3
  <2> QED  BY <2>3, <2>5 DEF LiveFacts
<1> QED  BY <1>1, GrantsInvariant, PTL DEF Spec, RemovedForGood

\* The removal of a project, of a project grant or of a user leaves no live user grant
\* on it that the projection knew when the API asked for the ids to cascade to, except for
\* those whose events the cascade failed to read.
THEOREM CascadesReach == Spec => CascadeReaches
<1> DEFINE A == \A c \in Clients :
                   Push(c) =>
                       \A g \in GrantIDs :
                           /\ Concerns(request[c].command, g)
                           /\ AddedBy(request[c].at, g)
                           /\ g \notin request[c].unread
                           /\ ~Orphaned(g)
                           => ~IsLive(UserGrant(g)')
<1>1. GrantsInv /\ GrantsInv' => A
  <2> SUFFICES ASSUME GrantsInv, GrantsInv', NEW c \in Clients, Push(c), NEW g \in GrantIDs,
                      Concerns(request[c].command, g), AddedBy(request[c].at, g),
                      g \notin request[c].unread, ~Orphaned(g)
               PROVE  ~IsLive(UserGrant(g)')
    OBVIOUS
  <2>1. log \in Seq(Events) /\ LogInv /\ LiveFacts /\ TypeOK /\ ReachInv(c)
    BY LiveClosed DEF GrantsInv, TypeOK
  <2>2. (log \in Seq(Events) /\ LogInv)'
    BY DEF GrantsInv, TypeOK
  <2>3. LiveFacts'
    BY <2>2, NextLive
  <2>4. request[c].step = "checked" /\ request[c] \in Pushes
    BY <2>1, RequestTypes DEF Push
  <2>5. request[c].at \in Nat /\ request[c].at <= Len(log) /\ Len(log) \in Nat
    BY <2>1, <2>4, LogFacts DEF ReachInv, Pushes
  <2>6. AddedBy(Len(log), g)
    BY <2>5, OrphanedLater
  <2> SUFFICES ASSUME IsLive(UserGrant(g)') PROVE FALSE
    OBVIOUS
  <2>7. Live(g)'
    BY <2>3 DEF LiveFacts
  <2>8. Live(g)
    BY <2>6, <2>7, PushLive DEF Live
  <2>9. SourceIs(Len(log), g, UserGrant(g).source) /\ \A s \in Sources : SourceIs(Len(log), g, s) => UserGrant(g).source = s
    BY <2>1, <2>8 DEF LiveFacts
  <2>10. ~OrphanedBy(Len(log), g)
    <3>1. DOMAIN log = 1 .. Len(log) /\ "grant" \in Sources
      BY <2>1, LogFacts DEF Sources
    <3> QED  BY <2>9, <3>1 DEF OrphanedBy, Orphaned, Happened
  <2>11. Known(request[c].command, request[c].at, g)
    BY <2>8, <2>9, <2>10 DEF Known, Concerns
  <2>12. PICK e \in Range(request[c].events) : e.type \in Removals /\ e.id = g
    BY <2>1, <2>4, <2>11 DEF ReachInv
  <2>13. RemovedBy(Len(log), g)'
    BY <2>12, PushLive
  <2> QED  BY <2>7, <2>13 DEF Live
<1> QED  BY <1>1, GrantsInvariant, PTL DEF Spec, CascadeReaches
=============================================================================
