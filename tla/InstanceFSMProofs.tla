-------------------------- MODULE InstanceFSMProofs --------------------------
(***************************************************************************)
(* What InstanceFSM computes from the routes and resolvers of its NICs,    *)
(* for any number of NICs, any destinations, gateways and addresses; and   *)
(* what a turn of the event loop makes of the object.                      *)
(***************************************************************************)
EXTENDS InstanceFSM, NicFSMProofs, WellFoundedInduction

-----------------------------------------------------------------------------
(* Numbers: the library's induction over a predicate, stated of sets.      *)

LEMMA LeastNumber ==
  ASSUME NEW T \in SUBSET Nat, T # {}
  PROVE  \E x \in T : \A y \in T : x <= y
<1>1. PICK x \in T : \A y \in T : ~(<<y, x>> \in OpToRel(<, Nat))
  BY WFMin, NatLessThanWellFounded
<1>2. \A y \in T : ~(y < x)
  BY <1>1 DEF OpToRel
<1> QED BY <1>2

LEMMA AllNumbers ==
  ASSUME NEW S, 0 \in S, \A k \in Nat : k \in S => k + 1 \in S
  PROVE  \A k \in Nat : k \in S
<1> SUFFICES ASSUME NEW k \in Nat, k \notin S PROVE FALSE
  OBVIOUS
<1>1. PICK x \in Nat \ S : \A y \in Nat \ S : x <= y
  <2>1. Nat \ S \in SUBSET Nat /\ Nat \ S # {}
    OBVIOUS
  <2> QED BY <2>1, LeastNumber
<1>2. x # 0 /\ x - 1 \in Nat /\ x - 1 \notin Nat \ S
  BY <1>1
<1>3. (x - 1) + 1 \in S
  BY <1>2
<1> QED BY <1>1, <1>3

LEMMA MinIndex ==
  ASSUME NEW n \in Nat, NEW T \in SUBSET (1 .. n), T # {}
  PROVE  Min(T) \in T
<1>1. \E x \in T : \A y \in T : x <= y
  BY LeastNumber
<1> QED BY <1>1 DEF Min

LEMMA MaxIndex ==
  ASSUME NEW n \in Nat, NEW T \in SUBSET (1 .. n), T # {}
  PROVE  Max(T) \in T /\ \A k \in T : k <= Max(T)
<1> DEFINE M == {j \in Nat : n - j \in T}
<1>1. PICK k \in T : TRUE
  OBVIOUS
<1>2. n - k \in M
  <2>1. n - k \in Nat /\ n - (n - k) = k
    OBVIOUS
  <2> QED BY <1>1, <2>1
<1>3. PICK j \in M : \A y \in M : j <= y
  BY <1>2, LeastNumber
<1> DEFINE z == n - j
<1>4. \A y \in T : z >= y
  <2> SUFFICES ASSUME NEW y \in T PROVE z >= y
    OBVIOUS
  <2>1. n - y \in Nat /\ n - (n - y) = y
    OBVIOUS
  <2>2. n - y \in M
    BY <2>1
  <2>3. j <= n - y
    BY <1>3, <2>2
  <2> QED BY <2>3
<1>5. \E x \in T : \A y \in T : x >= y
  BY <1>3, <1>4
<1>6. Max(T) \in T /\ \A y \in T : Max(T) >= y
  BY <1>5 DEF Max
<1> QED BY <1>6

\* g has the results of a sequence of steps at each of its places.
Accumulates(g, n, base, step) ==
  g[0] = base /\ \A k \in 1 .. n : g[k] = step[k][g[k - 1]]

LEMMA Accumulated ==
  ASSUME NEW n \in Nat, NEW A, NEW base \in A,
         NEW step \in [1 .. n -> [A -> A]]
  PROVE  \E g \in [0 .. n -> A] : Accumulates(g, n, base, step)
<1> DEFINE Good(j) == \E g \in [0 .. j -> A] :
                        /\ g[0] = base
                        /\ \A k \in 1 .. j : g[k] = step[k][g[k - 1]]
           S == {j \in Nat : j <= n => Good(j)}
<1>1. 0 \in S
  <2>1. PICK g : g = [k \in 0 .. 0 |-> base]
    OBVIOUS
  <2>2. g \in [0 .. 0 -> A] /\ g[0] = base /\ 1 .. 0 = {}
    BY <2>1
  <2>3. Good(0)
    BY <2>2
  <2> QED BY <2>3
<1>2. ASSUME NEW j \in Nat, j \in S
      PROVE  j + 1 \in S
  <2> SUFFICES ASSUME j + 1 <= n PROVE Good(j + 1)
    OBVIOUS
  <2>1. PICK g \in [0 .. j -> A] :
          /\ g[0] = base
          /\ \A k \in 1 .. j : g[k] = step[k][g[k - 1]]
    BY <1>2
  <2>2. step[j + 1] \in [A -> A] /\ g[j] \in A
    BY <2>1
  <2>3. PICK y \in A : y = step[j + 1][g[j]]
    BY <2>2
  <2>4. PICK h : h = [k \in 0 .. j + 1 |-> IF k <= j THEN g[k] ELSE y]
    OBVIOUS
  <2>5. h \in [0 .. j + 1 -> A]
    BY <2>1, <2>3, <2>4
  <2>6. h[0] = base
    BY <2>1, <2>4
  <2>7. \A k \in 0 .. j : h[k] = g[k]
    BY <2>4
  <2>8. ASSUME NEW k \in 1 .. j + 1
        PROVE  h[k] = step[k][h[k - 1]]
    <3>1. CASE k <= j
      <4>1. k \in 1 .. j /\ k \in 0 .. j /\ k - 1 \in 0 .. j
        BY <3>1
      <4> QED BY <2>1, <2>7, <4>1
    <3>2. CASE k = j + 1
      <4>1. h[k] = y /\ k - 1 = j /\ j \in 0 .. j
        BY <2>4, <3>2
      <4> QED BY <2>3, <2>7, <3>2, <4>1
    <3> QED BY <3>1, <3>2
  <2> QED BY <2>5, <2>6, <2>8
<1>3. \A j \in Nat : j \in S
  <2> HIDE DEF S
  <2> QED BY <1>1, <1>2, AllNumbers
<1> QED BY <1>3 DEF Accumulates

-----------------------------------------------------------------------------
(* Route tables.                                                           *)

IsTable(r) == r = [dst \in DOMAIN r |-> r[dst]]

\* The vmadm update that state update.vm runs leaves the VM with exactly the
\* routes that its NICs bring, whatever it had.
THEOREM UpdateReachesTarget ==
  ASSUME NEW current, NEW target, IsTable(current), IsTable(target)
  PROVE  Applied(current, SetRoutes(current, target),
                 RemoveRoutes(current, target)) = target
<1> DEFINE set == SetRoutes(current, target)
           remove == RemoveRoutes(current, target)
           result == Applied(current, set, remove)
<1>1. (DOMAIN current \ remove) \cup DOMAIN set = DOMAIN target
  BY DEF SetRoutes, RemoveRoutes
<1>2. result = [dst \in DOMAIN target |->
                  IF dst \in DOMAIN set THEN set[dst] ELSE current[dst]]
  BY <1>1 DEF Applied
<1>3. ASSUME NEW dst \in DOMAIN target
      PROVE  (IF dst \in DOMAIN set THEN set[dst] ELSE current[dst])
               = target[dst]
  <2>1. CASE dst \in DOMAIN set
    BY <2>1 DEF SetRoutes
  <2>2. CASE dst \notin DOMAIN set
    BY <2>2 DEF SetRoutes
  <2> QED BY <2>1, <2>2
<1>4. result = [dst \in DOMAIN target |-> target[dst]]
  <2> HIDE DEF set, result
  <2> QED BY <1>2, <1>3
<1> QED BY <1>4 DEF IsTable

\* State update.vm finds nothing to set and nothing to remove exactly when the
\* VM has the routes of its NICs: it neither skips an update that is due nor
\* repeats one that is done.
THEOREM NothingToSetOrRemove ==
  ASSUME NEW current, NEW target, IsTable(current), IsTable(target)
  PROVE  (/\ DOMAIN SetRoutes(current, target) = {}
          /\ RemoveRoutes(current, target) = {}) <=> current = target
<1>1. ASSUME DOMAIN SetRoutes(current, target) = {},
             RemoveRoutes(current, target) = {}
      PROVE  current = target
  <2>1. \A dst \in DOMAIN target :
          dst \in DOMAIN current /\ current[dst] = target[dst]
    BY <1>1 DEF SetRoutes
  <2>2. DOMAIN current \subseteq DOMAIN target
    BY <1>1 DEF RemoveRoutes
  <2>3. DOMAIN current = DOMAIN target
    BY <2>1, <2>2
  <2> QED BY <2>1, <2>3 DEF IsTable
<1>2. ASSUME current = target
      PROVE  /\ DOMAIN SetRoutes(current, target) = {}
             /\ RemoveRoutes(current, target) = {}
  BY <1>2 DEF SetRoutes, RemoveRoutes
<1> QED BY <1>1, <1>2

LEMMA TablesAreFunctions ==
  ASSUME NEW r
  PROVE  r \in RouteMaps <=>
           /\ IsTable(r)
           /\ DOMAIN r \in SUBSET Destinations
           /\ \A dst \in DOMAIN r : r[dst] \in Gateways
BY DEF RouteMaps, IsTable

LEMMA DifferenceTyped ==
  ASSUME NEW current \in RouteMaps, NEW target \in RouteMaps
  PROVE  /\ SetRoutes(current, target) \in RouteMaps
         /\ RemoveRoutes(current, target) \in SUBSET Destinations
<1>1. /\ DOMAIN current \in SUBSET Destinations
      /\ DOMAIN target \in SUBSET Destinations
      /\ \A dst \in DOMAIN target : target[dst] \in Gateways
  BY TablesAreFunctions
<1>2. PICK D : D = {d \in DOMAIN target : d \notin DOMAIN current
                                            \/ current[d] # target[d]}
  OBVIOUS
<1>3. SetRoutes(current, target) \in [D -> Gateways]
  BY <1>1, <1>2 DEF SetRoutes
<1>4. D \in SUBSET Destinations
  BY <1>1, <1>2
<1> QED BY <1>1, <1>3, <1>4 DEF RouteMaps, RemoveRoutes

LEMMA AppliedTyped ==
  ASSUME NEW routes \in RouteMaps, NEW set \in RouteMaps, NEW remove
  PROVE  Applied(routes, set, remove) \in RouteMaps
<1>1. /\ DOMAIN routes \in SUBSET Destinations
      /\ \A dst \in DOMAIN routes : routes[dst] \in Gateways
      /\ DOMAIN set \in SUBSET Destinations
      /\ \A dst \in DOMAIN set : set[dst] \in Gateways
  BY TablesAreFunctions
<1>2. PICK D : D = (DOMAIN routes \ remove) \cup DOMAIN set
  OBVIOUS
<1>3. Applied(routes, set, remove) \in [D -> Gateways]
  BY <1>1, <1>2 DEF Applied
<1>4. D \in SUBSET Destinations
  BY <1>1, <1>2
<1> QED BY <1>3, <1>4 DEF RouteMaps

\* What the NICs have to offer.
Offers(remote) == remote \in [Nics -> VmFields]

LEMMA NicOfIndex ==
  /\ Len(NicOrder) \in Nat /\ DOMAIN NicOrder = 1 .. Len(NicOrder)
  /\ \A k \in 1 .. Len(NicOrder) : NicOrder[k] \in Nics
  /\ \A m \in Nics : \E k \in 1 .. Len(NicOrder) : m = NicOrder[k]
BY NicOrderIsASequence DEF Nics

\* Of the routes to a destination the last NIC's is taken.
LEMMA LastBrings ==
  ASSUME NEW remote, NEW m \in Nics, NEW dst \in DOMAIN remote[m].routes
  PROVE  \E l \in Nics :
           /\ dst \in DOMAIN remote[l].routes
           /\ l = NicOrder[Max(Bringing(remote, dst))]
<1>1. Bringing(remote, dst) \in SUBSET (1 .. Len(NicOrder))
  BY NicOfIndex DEF Bringing
<1>2. Bringing(remote, dst) # {}
  BY NicOfIndex DEF Bringing
<1>3. Max(Bringing(remote, dst)) \in Bringing(remote, dst)
  BY <1>1, <1>2, MaxIndex, NicOfIndex
<1> QED BY <1>1, <1>3, NicOfIndex DEF Bringing

LEMMA TargetRoutesTyped ==
  ASSUME NEW remote, Offers(remote)
  PROVE  TargetRoutes(remote) \in RouteMaps
<1>1. \A m \in Nics : /\ DOMAIN remote[m].routes \in SUBSET Destinations
                      /\ \A dst \in DOMAIN remote[m].routes :
                           remote[m].routes[dst] \in Gateways
  BY TablesAreFunctions DEF Offers, VmFields
<1>2. PICK D : D = UNION {DOMAIN remote[m].routes : m \in Nics}
  OBVIOUS
<1>3. D \in SUBSET Destinations
  BY <1>1, <1>2
<1>4. ASSUME NEW dst \in D
      PROVE  remote[NicOrder[Max(Bringing(remote, dst))]].routes[dst]
               \in Gateways
  <2>1. PICK m \in Nics : dst \in DOMAIN remote[m].routes
    BY <1>2
  <2>2. PICK l \in Nics : /\ dst \in DOMAIN remote[l].routes
                          /\ l = NicOrder[Max(Bringing(remote, dst))]
    BY <2>1, LastBrings
  <2> QED BY <1>1, <2>2
<1>5. TargetRoutes(remote) \in [D -> Gateways]
  BY <1>2, <1>4 DEF TargetRoutes
<1> QED BY <1>3, <1>5 DEF RouteMaps

-----------------------------------------------------------------------------
(* Resolvers.                                                              *)

Among(r, rs) == \E k \in DOMAIN rs : rs[k] = r

LEMMA NoResolvers == <<>> \in Resolvers /\ \A r : ~Among(r, <<>>)
BY DEF Resolvers, Among

LEMMA AddOne ==
  ASSUME NEW acc \in Resolvers, NEW r \in Addresses
  PROVE  /\ AddResolver(acc, r) \in Resolvers
         /\ \A a : Among(a, AddResolver(acc, r)) <=> Among(a, acc) \/ a = r
<1>1. CASE Among(r, acc)
  BY <1>1 DEF AddResolver, Among
<1>2. CASE ~Among(r, acc)
  <2>1. PICK s : s = Append(acc, r)
    OBVIOUS
  <2>2. /\ acc \in Seq(Addresses) /\ Len(acc) \in Nat
        /\ DOMAIN acc = 1 .. Len(acc)
        /\ \A j, k \in DOMAIN acc : acc[j] = acc[k] => j = k
    BY DEF Resolvers
  <2>3. /\ s \in Seq(Addresses) /\ DOMAIN s = 1 .. Len(acc) + 1
        /\ s[Len(acc) + 1] = r
        /\ \A k \in 1 .. Len(acc) : s[k] = acc[k]
    BY <2>1, <2>2
  <2>4. \A j, k \in DOMAIN s : s[j] = s[k] => j = k
    BY <1>2, <2>2, <2>3 DEF Among
  <2>5. \A a : Among(a, s) <=> Among(a, acc) \/ a = r
    BY <2>2, <2>3 DEF Among
  <2>6. AddResolver(acc, r) = s
    BY <1>2, <2>1 DEF AddResolver, Among
  <2> QED BY <2>3, <2>4, <2>5, <2>6 DEF Resolvers
<1> QED BY <1>1, <1>2

LEMMA AddAll ==
  ASSUME NEW acc \in Resolvers, NEW rs \in Seq(Addresses)
  PROVE  /\ AddResolvers(acc, rs) \in Resolvers
         /\ \A a : Among(a, AddResolvers(acc, rs)) <=>
                     Among(a, acc) \/ Among(a, rs)
<1>1. PICK n \in Nat : /\ n = Len(rs) /\ DOMAIN rs = 1 .. n
                       /\ \A k \in 1 .. n : rs[k] \in Addresses
  OBVIOUS
<1>2. PICK step : step = [k \in 1 .. n |-> [x \in Resolvers |->
                                              AddResolver(x, rs[k])]]
  OBVIOUS
<1>3. PICK g \in [0 .. n -> Resolvers] : Accumulates(g, n, acc, step)
  <2>1. step \in [1 .. n -> [Resolvers -> Resolvers]]
    BY <1>1, <1>2, AddOne
  <2> QED BY <2>1, Accumulated
<1> DEFINE upTo == CHOOSE upTo :
                     upTo = [k \in 0 .. n |->
                               IF k = 0 THEN acc
                               ELSE AddResolver(upTo[k - 1], rs[k])]
<1>4. ASSUME NEW k \in 1 .. n
      PROVE  g[k] = AddResolver(g[k - 1], rs[k])
  <2>1. PICK x \in Resolvers : x = g[k - 1]
    BY <1>3
  <2>2. g[k] = step[k][x]
    BY <1>3, <2>1 DEF Accumulates
  <2> QED BY <1>2, <2>1, <2>2
<1>5. g = [k \in 0 .. n |->
             IF k = 0 THEN acc ELSE AddResolver(g[k - 1], rs[k])]
  BY <1>1, <1>3, <1>4 DEF Accumulates
<1>6. upTo = [k \in 0 .. n |->
                IF k = 0 THEN acc ELSE AddResolver(upTo[k - 1], rs[k])]
  BY <1>5
<1>7. AddResolvers(acc, rs) = upTo[n]
  BY <1>1 DEF AddResolvers
<1> HIDE DEF upTo
<1> DEFINE S == {j \in Nat : j <= n =>
                   /\ upTo[j] \in Resolvers
                   /\ \A a : Among(a, upTo[j]) <=>
                        Among(a, acc) \/ \E k \in 1 .. j : rs[k] = a}
<1>8. 0 \in S
  BY <1>1, <1>6
<1>9. ASSUME NEW j \in Nat, j \in S
      PROVE  j + 1 \in S
  <2> SUFFICES ASSUME j + 1 <= n
               PROVE  /\ upTo[j + 1] \in Resolvers
                      /\ \A a : Among(a, upTo[j + 1]) <=>
                           Among(a, acc) \/ \E k \in 1 .. j + 1 : rs[k] = a
    OBVIOUS
  <2>1. /\ upTo[j] \in Resolvers
        /\ \A a : Among(a, upTo[j]) <=>
                    Among(a, acc) \/ \E k \in 1 .. j : rs[k] = a
    BY <1>1, <1>9
  <2>2. upTo[j + 1] = AddResolver(upTo[j], rs[j + 1])
    BY <1>1, <1>6
  <2>3. rs[j + 1] \in Addresses
    BY <1>1
  <2>4. /\ upTo[j + 1] \in Resolvers
        /\ \A a : Among(a, upTo[j + 1]) <=> Among(a, upTo[j]) \/ a = rs[j + 1]
    BY <2>1, <2>2, <2>3, AddOne
  <2>5. \A a : (\E k \in 1 .. j + 1 : rs[k] = a)
                 <=> (\E k \in 1 .. j : rs[k] = a) \/ a = rs[j + 1]
    OBVIOUS
  <2> QED BY <2>1, <2>4, <2>5
<1>10. \A j \in Nat : j \in S
  <2> HIDE DEF S
  <2> QED BY <1>8, <1>9, AllNumbers
<1>11. /\ upTo[n] \in Resolvers
       /\ \A a : Among(a, upTo[n]) <=>
                   Among(a, acc) \/ \E k \in 1 .. n : rs[k] = a
  BY <1>1, <1>10
<1>12. \A a : Among(a, rs) <=> \E k \in 1 .. n : rs[k] = a
  BY <1>1 DEF Among
<1> QED BY <1>7, <1>11, <1>12

\* The resolvers that InstanceFSM.state_update.vm sends to vmadm are those of
\* the VM's NICs, all of them and no others, each once, whatever the NICs have
\* in common.
THEOREM EveryResolverOnce ==
  ASSUME NEW remote, Offers(remote)
  PROVE  /\ NicResolvers(remote) \in Resolvers
         /\ \A a : Among(a, NicResolvers(remote)) <=>
                     \E m \in Nics : Among(a, remote[m].resolvers)
<1>1. PICK n \in Nat : n = Len(NicOrder)
  BY NicOfIndex
<1>2. \A k \in 1 .. n : /\ NicOrder[k] \in Nics
                        /\ remote[NicOrder[k]].resolvers \in Seq(Addresses)
  BY <1>1, NicOfIndex DEF Offers, VmFields, Resolvers
<1>3. PICK step : step = [k \in 1 .. n |-> [x \in Resolvers |->
                            AddResolvers(x, remote[NicOrder[k]].resolvers)]]
  OBVIOUS
<1>4. PICK g \in [0 .. n -> Resolvers] : Accumulates(g, n, <<>>, step)
  <2>1. step \in [1 .. n -> [Resolvers -> Resolvers]]
    BY <1>2, <1>3, AddAll
  <2>2. PICK none \in Resolvers : none = <<>>
    BY NoResolvers
  <2>3. \E g \in [0 .. n -> Resolvers] : Accumulates(g, n, none, step)
    BY <2>1, Accumulated
  <2> QED BY <2>2, <2>3
<1>5. ASSUME NEW k \in 1 .. n
      PROVE  g[k] = AddResolvers(g[k - 1], remote[NicOrder[k]].resolvers)
  <2>1. PICK x \in Resolvers : x = g[k - 1]
    BY <1>4
  <2>2. g[k] = step[k][x]
    BY <1>4, <2>1 DEF Accumulates
  <2> QED BY <1>3, <2>1, <2>2
<1> DEFINE upTo == CHOOSE upTo :
                     upTo = [k \in 0 .. n |->
                               IF k = 0 THEN <<>>
                               ELSE AddResolvers(upTo[k - 1],
                                           remote[NicOrder[k]].resolvers)]
<1>6. g = [k \in 0 .. n |->
             IF k = 0 THEN <<>>
             ELSE AddResolvers(g[k - 1], remote[NicOrder[k]].resolvers)]
  BY <1>4, <1>5 DEF Accumulates
<1>7. upTo = [k \in 0 .. n |->
                IF k = 0 THEN <<>>
                ELSE AddResolvers(upTo[k - 1], remote[NicOrder[k]].resolvers)]
  BY <1>6
<1>8. NicResolvers(remote) = upTo[n]
  BY <1>1 DEF NicResolvers
<1> HIDE DEF upTo
<1> DEFINE S == {j \in Nat : j <= n =>
                   /\ upTo[j] \in Resolvers
                   /\ \A a : Among(a, upTo[j]) <=>
                        \E k \in 1 .. j :
                          Among(a, remote[NicOrder[k]].resolvers)}
<1>9. 0 \in S
  <2>1. upTo[0] = <<>> /\ 1 .. 0 = {}
    BY <1>7
  <2> QED BY <2>1, NoResolvers
<1>10. ASSUME NEW j \in Nat, j \in S
       PROVE  j + 1 \in S
  <2> SUFFICES ASSUME j + 1 <= n
               PROVE  /\ upTo[j + 1] \in Resolvers
                      /\ \A a : Among(a, upTo[j + 1]) <=>
                           \E k \in 1 .. j + 1 :
                             Among(a, remote[NicOrder[k]].resolvers)
    OBVIOUS
  <2>1. /\ upTo[j] \in Resolvers
        /\ \A a : Among(a, upTo[j]) <=>
                    \E k \in 1 .. j : Among(a, remote[NicOrder[k]].resolvers)
    BY <1>10
  <2>2. PICK rs \in Seq(Addresses) : rs = remote[NicOrder[j + 1]].resolvers
    BY <1>2
  <2>3. upTo[j + 1] = AddResolvers(upTo[j], rs)
    BY <1>7, <2>2
  <2>4. /\ upTo[j + 1] \in Resolvers
        /\ \A a : Among(a, upTo[j + 1]) <=> Among(a, upTo[j]) \/ Among(a, rs)
    BY <2>1, <2>3, AddAll
  <2>5. \A a : (\E k \in 1 .. j + 1 :
                  Among(a, remote[NicOrder[k]].resolvers)) <=>
                 \/ \E k \in 1 .. j : Among(a, remote[NicOrder[k]].resolvers)
                 \/ Among(a, rs)
    BY <2>2
  <2> QED BY <2>1, <2>4, <2>5
<1>11. \A j \in Nat : j \in S
  <2> HIDE DEF S
  <2> QED BY <1>9, <1>10, AllNumbers
<1>12. /\ upTo[n] \in Resolvers
       /\ \A a : Among(a, upTo[n]) <=>
            \E k \in 1 .. n : Among(a, remote[NicOrder[k]].resolvers)
  BY <1>11
<1>13. \A a : (\E k \in 1 .. n : Among(a, remote[NicOrder[k]].resolvers)) <=>
                \E m \in Nics : Among(a, remote[m].resolvers)
  BY <1>1, <1>2, NicOfIndex
<1> QED BY <1>8, <1>12, <1>13

-----------------------------------------------------------------------------
(* The object.                                                             *)

LEMMA PayloadTyped ==
  ASSUME NEW i, i.vm \in Vm, NEW remote, Offers(remote)
  PROVE  Payload(i, remote) \in Payloads
<1>1. i.vm.routes \in RouteMaps /\ i.vm.own \in BOOLEAN
  BY DEF Vm
<1>2. PICK target : target = TargetRoutes(remote)
  OBVIOUS
<1>3. target \in RouteMaps
  BY <1>2, TargetRoutesTyped
<1>4. TargetResolvers(i, remote) \in Resolvers
  BY <1>1, NoResolvers, EveryResolverOnce DEF TargetResolvers
<1>5. /\ SetRoutes(i.vm.routes, target) \in RouteMaps
      /\ RemoveRoutes(i.vm.routes, target) \in SUBSET Destinations
  BY <1>1, <1>3, DifferenceTyped
<1>6. Payload(i, remote) =
        [set |-> SetRoutes(i.vm.routes, target),
         remove |-> RemoveRoutes(i.vm.routes, target),
         resolvers |-> TargetResolvers(i, remote)]
  BY <1>2 DEF Payload
<1> QED BY <1>4, <1>5, <1>6 DEF Payloads

\* What is in the payload, and whether it is worth a run of vmadm, depends on
\* the VM alone.
LEMMA PayloadOfVm ==
  ASSUME NEW i, NEW j, i.vm = j.vm, NEW remote, NEW p
  PROVE  /\ Payload(i, remote) = Payload(j, remote)
         /\ NothingToDo(i, p) <=> NothingToDo(j, p)
BY DEF Payload, TargetResolvers, NothingToDo

\* The vmadm run gives the VM what its NICs bring, and is left out exactly if
\* the VM has it.
LEMMA PayloadReaches ==
  ASSUME NEW i, i.vm \in Vm, NEW remote, Offers(remote), NEW p,
         p = Payload(i, remote)
  PROVE  /\ Applied(i.vm.routes, p.set, p.remove) = TargetRoutes(remote)
         /\ p.resolvers = TargetResolvers(i, remote)
         /\ NothingToDo(i, p) <=>
              /\ i.vm.routes = TargetRoutes(remote)
              /\ i.vm.own \/ i.vm.resolvers = TargetResolvers(i, remote)
<1>1. PICK target \in RouteMaps : target = TargetRoutes(remote)
  BY TargetRoutesTyped
<1>2. IsTable(i.vm.routes) /\ IsTable(target)
  BY TablesAreFunctions DEF Vm
<1>3. /\ p.set = SetRoutes(i.vm.routes, target)
      /\ p.remove = RemoveRoutes(i.vm.routes, target)
      /\ p.resolvers = TargetResolvers(i, remote)
  BY <1>1 DEF Payload
<1> QED BY <1>1, <1>2, <1>3, UpdateReachesTarget, NothingToSetOrRemove
        DEF NothingToDo

\* What each state of an object relies on.
InstOk(i) ==
  /\ i.call # None => i.st = "update.vm"
  /\ i.reply # None => i.call # None
  /\ i.st \in {"waiting", "update.wait", "update.vm"} => i.vm # None
  /\ i.st = "remove" => i.vm = None

\* The object has compared what the VM has with what its NICs bring.
Compared(i, remote) ==
  /\ (i.st = "waiting" /\ i.vm.state = "running") =>
       Offers(remote) /\ NothingToDo(i, Payload(i, remote))
  /\ i.st = "update.vm" =>
       /\ Offers(remote)
       /\ i.call = Payload(i, remote)
       /\ ~NothingToDo(i, i.call)

\* The object after a turn that ends in a state function.
InstEntered(i, j, remote) ==
  /\ j \in Inst /\ InstOk(j) /\ Compared(j, remote)
  /\ j.vm = i.vm /\ j.armed = i.armed
  /\ ~j.updated /\ j.reply = None

\* Records of NICs, as far as they are known.
Remotes == [Nics -> VmFields \cup {None}]

InstStates == {"none", "waiting", "update.wait", "update.vm", "remove",
               "crashed"}

LEMMA InstGotoFields ==
  ASSUME NEW i \in Inst, NEW s \in InstStates, NEW j, j = InstGoto(i, s)
  PROVE  /\ j \in Inst
         /\ j.st = s /\ j.vm = i.vm /\ j.armed = i.armed
         /\ ~j.updated /\ j.pending = None /\ j.call = None /\ j.reply = None
BY DEF InstGoto, Inst, InstStates

LEMMA UpdateVmEntered ==
  ASSUME NEW i \in Inst, i.vm \in Vm, NEW remote, Offers(remote), NEW j,
         j = EnterUpdateVm(i, remote)
  PROVE  InstEntered(i, j, remote)
<1>1. PICK p \in Payloads : p = Payload(i, remote)
  BY PayloadTyped
<1>2. i.vm # None
  BY NoneIsNoVm
<1>3. CASE NothingToDo(i, p)
  <2>1. j = InstGoto(i, "waiting")
    BY <1>1, <1>3 DEF EnterUpdateVm
  <2>2. /\ j \in Inst
        /\ j.st = "waiting" /\ j.vm = i.vm /\ j.armed = i.armed
        /\ ~j.updated /\ j.call = None /\ j.reply = None
    BY <2>1, InstGotoFields DEF InstStates
  <2>3. NothingToDo(j, Payload(j, remote))
    BY <1>1, <1>3, <2>2, PayloadOfVm
  <2> QED BY <1>2, <2>2, <2>3 DEF InstEntered, InstOk, Compared
<1>4. CASE ~NothingToDo(i, p)
  <2>1. PICK k : k = InstGoto(i, "update.vm")
    OBVIOUS
  <2>2. /\ k \in Inst
        /\ k.st = "update.vm" /\ k.vm = i.vm /\ k.armed = i.armed
        /\ ~k.updated /\ k.reply = None
    BY <2>1, InstGotoFields DEF InstStates
  <2>3. j = [k EXCEPT !.call = p]
    BY <1>1, <1>4, <2>1 DEF EnterUpdateVm
  <2>4. /\ j \in Inst
        /\ j.st = "update.vm" /\ j.vm = i.vm /\ j.armed = i.armed
        /\ ~j.updated /\ j.call = p /\ j.reply = None
    BY <2>2, <2>3 DEF Inst
  <2>5. j.call = Payload(j, remote) /\ ~NothingToDo(j, j.call)
    BY <1>1, <1>4, <2>4, PayloadOfVm
  <2> QED BY <1>2, <2>4, <2>5 DEF InstEntered, InstOk, Compared
<1> QED BY <1>3, <1>4

LEMMA UpdateWaitEntered ==
  ASSUME NEW i \in Inst, i.vm \in Vm, NEW remote \in Remotes, NEW j,
         j = EnterUpdateWait(i, remote)
  PROVE  InstEntered(i, j, remote)
<1>1. PICK T : T = {k \in DOMAIN NicOrder : remote[NicOrder[k]] = None}
  OBVIOUS
<1>2. CASE T = {}
  <2>1. \A m \in Nics : remote[m] # None
    BY <1>1, <1>2, NicOfIndex
  <2>2. Offers(remote)
    BY <2>1 DEF Remotes, Offers
  <2>3. j = EnterUpdateVm(i, remote)
    BY <1>1, <1>2 DEF EnterUpdateWait
  <2> QED BY <2>2, <2>3, UpdateVmEntered
<1>3. CASE T # {}
  <2>1. Min(T) \in T
    BY <1>1, <1>3, MinIndex, NicOfIndex
  <2>2. PICK m \in Nics : m = NicOrder[Min(T)]
    BY <1>1, <2>1, NicOfIndex
  <2>3. PICK k : k = InstGoto(i, "update.wait")
    OBVIOUS
  <2>4. /\ k \in Inst
        /\ k.st = "update.wait" /\ k.vm = i.vm /\ k.armed = i.armed
        /\ ~k.updated /\ k.call = None /\ k.reply = None
    BY <2>3, InstGotoFields DEF InstStates
  <2>5. j = [k EXCEPT !.pending = m]
    BY <1>1, <1>3, <2>2, <2>3 DEF EnterUpdateWait
  <2>6. /\ j \in Inst
        /\ j.st = "update.wait" /\ j.vm = i.vm /\ j.armed = i.armed
        /\ ~j.updated /\ j.call = None /\ j.reply = None
    BY <2>4, <2>5 DEF Inst
  <2> QED BY <2>6, NoneIsNoVm DEF InstEntered, InstOk, Compared
<1> QED BY <1>2, <1>3

LEMMA InstUpdateEntered ==
  ASSUME NEW i \in Inst, NEW remote \in Remotes, NEW j,
         j = EnterInstUpdate(i, remote)
  PROVE  InstEntered(i, j, remote)
<1>1. CASE i.vm = None
  <2>1. j = InstGoto(i, "crashed")
    BY <1>1 DEF EnterInstUpdate
  <2> QED BY <2>1, InstGotoFields
          DEF InstStates, InstEntered, InstOk, Compared
<1>2. CASE i.vm # None /\ i.vm.state # "running"
  <2>1. j = InstGoto(i, "waiting")
    BY <1>2 DEF EnterInstUpdate
  <2> QED BY <1>2, <2>1, InstGotoFields
          DEF InstStates, InstEntered, InstOk, Compared
<1>3. CASE i.vm # None /\ ~(i.vm.state # "running")
  <2>1. i.vm \in Vm
    BY <1>3 DEF Inst
  <2>2. j = EnterUpdateWait(i, remote)
    BY <1>3 DEF EnterInstUpdate
  <2> QED BY <2>1, <2>2, UpdateWaitEntered
<1> QED BY <1>1, <1>2, <1>3

LEMMA EmitUpdateTurn ==
  ASSUME NEW i \in Inst, InstOk(i), NEW remote \in Remotes, NEW j,
         j = EmitUpdate(i, remote)
  PROVE  /\ j \in Inst /\ InstOk(j) /\ j.vm = i.vm /\ ~j.armed
         /\ i.st \in {"waiting", "update.wait", "remove"} =>
              Compared(j, remote) /\ ~j.updated /\ j.reply = None
         /\ i.st = "update.vm" =>
              /\ j.updated
              /\ j.st = i.st /\ j.call = i.call /\ j.reply = i.reply
         /\ i.st \in {"none", "crashed"} => j.st = i.st /\ j.call = i.call
<1>1. PICK k : k = [i EXCEPT !.armed = FALSE]
  OBVIOUS
<1>2. /\ k \in Inst
      /\ k.st = i.st /\ k.vm = i.vm /\ k.call = i.call /\ k.reply = i.reply
      /\ ~k.armed
  BY <1>1 DEF Inst
<1>3. CASE i.st \in {"waiting", "update.wait", "remove"}
  <2>1. j = EnterInstUpdate(k, remote)
    BY <1>1, <1>3 DEF EmitUpdate
  <2>2. InstEntered(k, j, remote)
    BY <1>2, <2>1, InstUpdateEntered
  <2> QED BY <1>2, <1>3, <2>2 DEF InstEntered
<1>4. CASE i.st = "update.vm"
  <2>1. j = [k EXCEPT !.updated = TRUE]
    BY <1>1, <1>4 DEF EmitUpdate
  <2>2. /\ j \in Inst
        /\ j.st = i.st /\ j.vm = i.vm /\ j.call = i.call /\ j.reply = i.reply
        /\ ~j.armed /\ j.updated
    BY <1>2, <2>1 DEF Inst
  <2> QED BY <1>4, <2>2 DEF InstOk
<1>5. CASE i.st \in {"none", "crashed"}
  <2>1. j = k
    BY <1>1, <1>5 DEF EmitUpdate
  <2> QED BY <1>2, <1>5, <2>1 DEF InstOk
<1> QED BY <1>3, <1>4, <1>5 DEF Inst

LEMMA RemoveInstTurn ==
  ASSUME NEW i \in Inst, InstOk(i), NEW j, j = RemoveInst(i)
  PROVE  /\ j \in Inst /\ InstOk(j)
         /\ j.st \in {"none", "remove", "crashed"}
         /\ j.vm = None \/ j = i
<1>1. CASE i.st \in {"waiting", "update.wait", "update.vm"}
  <2>1. PICK k : k = InstGoto(i, "remove")
    OBVIOUS
  <2>2. k \in Inst /\ k.st = "remove" /\ k.call = None /\ k.reply = None
    BY <2>1, InstGotoFields DEF InstStates
  <2>3. j = [k EXCEPT !.vm = None]
    BY <1>1, <2>1 DEF RemoveInst
  <2>4. /\ j \in Inst
        /\ j.st = "remove" /\ j.call = None /\ j.reply = None /\ j.vm = None
    BY <2>2, <2>3 DEF Inst
  <2> QED BY <2>4 DEF InstOk
<1>2. CASE i.st \notin {"waiting", "update.wait", "update.vm"}
  BY <1>2 DEF RemoveInst, Inst
<1> QED BY <1>1, <1>2
=============================================================================
