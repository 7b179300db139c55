-------------------- MODULE HardwareConfiguration_proofs --------------------
(***************************************************************************)
(* Proofs about HardwareConfiguration, for every document: what InOrder    *)
(* lists, which joints and buses the configuration keeps and in what       *)
(* order, and what the manager constructs from them.                       *)
(***************************************************************************)
EXTENDS HardwareConfiguration, FiniteSetTheorems, TLAPS

-----------------------------------------------------------------------------
(* InOrder.  A member's rank is one more than the number of members with a *)
(* smaller key; the member of rank k is the kth of the list.               *)

Below(K, key, x) == {y \in K : key[y] < key[x]}
Rank(K, key) == [x \in K |-> Cardinality(Below(K, key, x)) + 1]

DistinctKeys(K, key) ==
  /\ key \in [K -> Nat]
  /\ \A x, y \in K : key[x] = key[y] => x = y

(***************************************************************************)
(* Ranks lie between 1 and the number of members, and are in the order of  *)
(* the keys.                                                               *)
(***************************************************************************)
LEMMA RankOrder ==
  ASSUME NEW K, IsFiniteSet(K), NEW key, DistinctKeys(K, key)
  PROVE  /\ Rank(K, key) \in [K -> 1..Cardinality(K)]
         /\ \A x, y \in K : key[x] < key[y] => Rank(K, key)[x] < Rank(K, key)[y]
<1>1. Cardinality(K) \in Nat
  BY FS_CardinalityType
<1>2. ASSUME NEW x \in K
      PROVE  IsFiniteSet(Below(K, key, x)) /\ Cardinality(Below(K, key, x)) \in Nat
  <2>1. Below(K, key, x) \in SUBSET K
    BY DEF Below
  <2>2. IsFiniteSet(Below(K, key, x))
    BY <2>1, FS_Subset
  <2> QED BY <2>2, FS_CardinalityType
<1>3. ASSUME NEW x \in K
      PROVE  Cardinality(Below(K, key, x)) < Cardinality(K)
  <2>1. Below(K, key, x) \in SUBSET K /\ x \notin Below(K, key, x)
    BY DEF Below, DistinctKeys
  <2>2. Below(K, key, x) # K
    BY <2>1
  <2>3. /\ Cardinality(Below(K, key, x)) <= Cardinality(K)
        /\ Cardinality(K) # Cardinality(Below(K, key, x))
    BY <2>1, <2>2, FS_Subset
  <2> QED BY <1>1, <1>2, <2>3
<1>4. ASSUME NEW x \in K, NEW y \in K, key[x] < key[y]
      PROVE  Cardinality(Below(K, key, x)) < Cardinality(Below(K, key, y))
  <2>1. key[x] \in Nat /\ key[y] \in Nat /\ \A z \in K : key[z] \in Nat
    BY DEF DistinctKeys
  <2>2. Below(K, key, x) \in SUBSET Below(K, key, y)
    BY <1>4, <2>1 DEF Below
  <2>3. x \in Below(K, key, y) /\ x \notin Below(K, key, x)
    BY <1>4, <2>1 DEF Below
  <2>4. Below(K, key, y) # Below(K, key, x)
    BY <2>3
  <2>5. /\ Cardinality(Below(K, key, x)) <= Cardinality(Below(K, key, y))
        /\ Cardinality(Below(K, key, y)) # Cardinality(Below(K, key, x))
    BY <1>2, <2>2, <2>4, FS_Subset
  <2> QED BY <1>2, <2>5
<1>5. Rank(K, key) \in [K -> 1..Cardinality(K)]
  <2>1. \A x \in K : Cardinality(Below(K, key, x)) + 1 \in 1..Cardinality(K)
    BY <1>1, <1>2, <1>3
  <2> QED BY <2>1 DEF Rank
<1>6. ASSUME NEW x \in K, NEW y \in K, key[x] < key[y]
      PROVE  Rank(K, key)[x] < Rank(K, key)[y]
  BY <1>2, <1>4, <1>6 DEF Rank
<1> QED BY <1>5, <1>6

(***************************************************************************)
(* Every rank is that of a member.                                         *)
(***************************************************************************)
LEMMA RankOnto ==
  ASSUME NEW K, IsFiniteSet(K), NEW key, DistinctKeys(K, key)
  PROVE  \A k \in 1..Cardinality(K) : \E x \in K : Rank(K, key)[x] = k
<1> DEFINE n == Cardinality(K)
           rank == Rank(K, key)
<1>1. n \in Nat
  BY FS_CardinalityType
<1>2. IsFiniteSet(1..n) /\ Cardinality(1..n) = n
  BY <1>1, FS_Interval
<1>3. rank \in [K -> 1..n] /\ \A x, y \in K : key[x] < key[y] => rank[x] < rank[y]
  BY RankOrder
<1>4. ASSUME NEW x \in K, NEW y \in K, rank[x] = rank[y]
      PROVE  x = y
  <2>1. key[x] \in Nat /\ key[y] \in Nat /\ (key[x] = key[y] => x = y)
    BY DEF DistinctKeys
  <2>2. ~(key[x] < key[y]) /\ ~(key[y] < key[x])
    <3>1. rank[x] \in Nat /\ rank[y] \in Nat
      BY <1>1, <1>3
    <3> QED BY <1>3, <1>4, <3>1
  <2> QED BY <2>1, <2>2
<1>5. rank \in Injection(K, 1..n)
  BY <1>3, <1>4 DEF Injection, IsInjective
<1> HIDE DEF n, rank
<1>6. rank \in Surjection(K, 1..n)
  BY <1>2, <1>5, FS_Injection DEF n
<1> QED BY <1>6 DEF Surjection, n, rank

(***************************************************************************)
(* InOrder: for a finite set whose members have different keys, the list   *)
(* is in the order of the keys and has every member.                       *)
(***************************************************************************)
LEMMA InOrderLists ==
  ASSUME NEW K, IsFiniteSet(K), NEW key, DistinctKeys(K, key)
  PROVE  /\ Cardinality(K) \in Nat
         /\ InOrder(K, key) \in [1..Cardinality(K) -> K]
         /\ \A k, l \in 1..Cardinality(K) :
              k < l => key[InOrder(K, key)[k]] < key[InOrder(K, key)[l]]
         /\ \A x \in K : \E k \in 1..Cardinality(K) : InOrder(K, key)[k] = x
<1> DEFINE n == Cardinality(K)
           rank == Rank(K, key)
           Listing(s) == \A k, l \in 1..n : k < l => key[s[k]] < key[s[l]]
           s0 == [k \in 1..n |-> CHOOSE x \in K : rank[x] = k]
           s == InOrder(K, key)
<1>1. n \in Nat
  BY FS_CardinalityType
<1>2. IsFiniteSet(1..n) /\ Cardinality(1..n) = n
  BY <1>1, FS_Interval
<1>3. /\ rank \in [K -> 1..n]
      /\ \A x, y \in K : key[x] < key[y] => rank[x] < rank[y]
      /\ \A k \in 1..n : \E x \in K : rank[x] = k
  BY RankOrder, RankOnto
<1>4. \A x \in K : key[x] \in Nat
  BY DEF DistinctKeys
<1> HIDE DEF n, rank
<1>5. \A k \in 1..n : s0[k] \in K /\ rank[s0[k]] = k
  BY <1>3
<1>6. s0 \in [1..n -> K]
  BY <1>5
<1>7. Listing(s0)
  <2> SUFFICES ASSUME NEW k \in 1..n, NEW l \in 1..n, k < l
               PROVE  key[s0[k]] < key[s0[l]]
    OBVIOUS
  <2> DEFINE x == s0[k]
             y == s0[l]
  <2>1. x \in K /\ y \in K /\ rank[x] = k /\ rank[y] = l
    BY <1>5
  <2> HIDE DEF x, y
  <2>2. key[x] \in Nat /\ key[y] \in Nat /\ k \in Nat /\ l \in Nat
    BY <1>1, <1>4, <2>1
  <2>3. ~(key[y] < key[x])
    BY <1>3, <2>1, <2>2
  <2>4. key[x] # key[y]
    BY <2>1, <2>2 DEF DistinctKeys
  <2>5. key[x] < key[y]
    BY <2>2, <2>3, <2>4
  <2> QED BY <2>5 DEF x, y
<1> HIDE DEF s0
<1>8. s \in [1..n -> K] /\ Listing(s)
  BY <1>6, <1>7 DEF InOrder, n
<1> HIDE DEF s
<1>9. \A x \in K : \E k \in 1..n : s[k] = x
  <2>1. \A k, l \in 1..n : s[k] = s[l] => k = l
    <3> SUFFICES ASSUME NEW k \in 1..n, NEW l \in 1..n, k # l
                 PROVE  s[k] # s[l]
      OBVIOUS
    <3>1. s[k] \in K /\ s[l] \in K
      BY <1>8
    <3>2. key[s[k]] \in Nat /\ key[s[l]] \in Nat
      BY <1>4, <3>1
    <3>3. k < l \/ l < k
      BY <1>1
    <3>4. key[s[k]] < key[s[l]] \/ key[s[l]] < key[s[k]]
      BY <1>8, <3>3
    <3> QED BY <3>2, <3>4
  <2>2. s \in Injection(1..n, K)
    BY <1>8, <2>1 DEF Injection, IsInjective
  <2>3. s \in Surjection(1..n, K)
    BY <1>2, <2>2, FS_Injection DEF n
  <2> QED BY <2>3 DEF Surjection
<1> QED BY <1>1, <1>8, <1>9 DEF n, s

-----------------------------------------------------------------------------
(***************************************************************************)
(* A set of positions of a sequence is finite.                             *)
(***************************************************************************)
LEMMA Positions ==
  ASSUME NEW n \in Nat, NEW K, K \subseteq 1..n
  PROVE  IsFiniteSet(K)
<1>1. IsFiniteSet(1..n)
  BY FS_Interval
<1> QED BY <1>1, FS_Subset

(***************************************************************************)
(* Among the joints of a name there is a first one.                        *)
(***************************************************************************)
LEMMA FirstExists ==
  ASSUME NEW joints \in Seq(JointNode), NEW i \in DOMAIN joints,
         joints[i].name # NoName
  PROVE  \E j \in DOMAIN joints :
           joints[j].name = joints[i].name /\ FirstOfItsName(joints, j)
<1> DEFINE K == {j \in DOMAIN joints : joints[j].name = joints[i].name}
           key == [j \in K |-> j]
           s == InOrder(K, key)
<1>1. Len(joints) \in Nat /\ DOMAIN joints = 1..Len(joints)
  OBVIOUS
<1>2. IsFiniteSet(K)
  BY <1>1, Positions
<1>3. DistinctKeys(K, key)
  BY <1>1 DEF DistinctKeys
<1>4. key \in [K -> Nat] /\ \A j \in K : key[j] = j
  BY <1>1
<1>5. i \in K /\ K \subseteq DOMAIN joints
  OBVIOUS
<1>6. \A j \in DOMAIN joints : j \in K <=> joints[j].name = joints[i].name
  OBVIOUS
<1> HIDE DEF K, key
<1>7. /\ Cardinality(K) \in Nat
      /\ s \in [1..Cardinality(K) -> K]
      /\ \A k, l \in 1..Cardinality(K) : k < l => key[s[k]] < key[s[l]]
      /\ \A x \in K : \E k \in 1..Cardinality(K) : s[k] = x
  BY <1>2, <1>3, InOrderLists
<1> HIDE DEF s
<1>8. 1 \in 1..Cardinality(K) /\ s[1] \in K
  BY <1>5, <1>7
<1>9. \A j \in K : s[1] <= j
  <2> SUFFICES ASSUME NEW j \in K PROVE s[1] <= j
    OBVIOUS
  <2>1. PICK k \in 1..Cardinality(K) : s[k] = j
    BY <1>7
  <2>2. s[1] \in Nat /\ j \in Nat
    BY <1>1, <1>5, <1>8
  <2>3. CASE k = 1
    BY <2>1, <2>2, <2>3
  <2>4. CASE k # 1
    <3>1. 1 < k
      BY <1>7, <2>4
    <3>2. key[s[1]] < key[s[k]]
      BY <1>7, <1>8, <3>1
    <3> QED BY <1>4, <1>8, <2>1, <2>2, <3>2
  <2> QED BY <2>3, <2>4
<1>10. \A j \in 1..(s[1] - 1) : j \notin K /\ j \in DOMAIN joints
  BY <1>1, <1>5, <1>8, <1>9
<1>11. s[1] \in DOMAIN joints /\ joints[s[1]].name = joints[i].name
  BY <1>5, <1>6, <1>8
<1>12. FirstOfItsName(joints, s[1])
  BY <1>6, <1>10, <1>11 DEF FirstOfItsName
<1> QED BY <1>11, <1>12

(***************************************************************************)
(* The joints of the configuration: strictly in the order of their names,  *)
(* each the first of its name in the file, and every name is there.        *)
(***************************************************************************)
THEOREM JointsOfConfiguration ==
  ASSUME NEW joints \in Seq(JointNode)
  PROVE  /\ KeptJoints(joints) \in Seq(JointNode)
         /\ \A k, l \in DOMAIN KeptJoints(joints) :
              k < l => KeptJoints(joints)[k].name < KeptJoints(joints)[l].name
         /\ \A k \in DOMAIN KeptJoints(joints) : \E i \in DOMAIN joints :
              FirstOfItsName(joints, i) /\ KeptJoints(joints)[k] = joints[i]
         /\ \A i \in DOMAIN joints :
              FirstOfItsName(joints, i) =>
                \E k \in DOMAIN KeptJoints(joints) : KeptJoints(joints)[k] = joints[i]
         /\ \A i \in DOMAIN joints :
              joints[i].name # NoName =>
                \E k \in DOMAIN KeptJoints(joints) :
                  KeptJoints(joints)[k].name = joints[i].name
<1> DEFINE K == {i \in DOMAIN joints : FirstOfItsName(joints, i)}
           key == [i \in K |-> joints[i].name]
           s == InOrder(K, key)
           n == Cardinality(K)
           kept == [k \in 1..n |-> joints[s[k]]]
<1>1. Len(joints) \in Nat /\ DOMAIN joints = 1..Len(joints)
  OBVIOUS
<1>2. \A i \in DOMAIN joints : joints[i] \in JointNode /\ joints[i].name \in Nat
  <2>1. \A i \in DOMAIN joints : joints[i] \in JointNode
    OBVIOUS
  <2>2. \A j \in JointNode : j.name \in Nat
    BY DEF JointNode
  <2> QED BY <2>1, <2>2
<1>3. IsFiniteSet(K)
  BY <1>1, Positions
<1>4. DistinctKeys(K, key)
  <2>1. key \in [K -> Nat]
    BY <1>2
  <2>2. ASSUME NEW i \in K, NEW j \in K, i # j
        PROVE  joints[i].name # joints[j].name
    <3>1. i < j \/ j < i
      BY <1>1, <2>2
    <3>2. i \in 1..(j - 1) \/ j \in 1..(i - 1)
      BY <1>1, <3>1
    <3> QED BY <3>2 DEF FirstOfItsName
  <2> QED BY <2>1, <2>2 DEF DistinctKeys
<1>5. /\ n \in Nat
      /\ s \in [1..n -> K]
      /\ \A k, l \in 1..n : k < l => key[s[k]] < key[s[l]]
      /\ \A x \in K : \E k \in 1..n : s[k] = x
  <2> HIDE DEF K, key
  <2> QED BY <1>3, <1>4, InOrderLists
<1>6. KeptJoints(joints) = kept
  BY <1>5 DEF KeptJoints
<1>7. \A i \in K : i \in DOMAIN joints /\ FirstOfItsName(joints, i) /\ key[i] = joints[i].name
  OBVIOUS
<1>8. \A i \in DOMAIN joints : FirstOfItsName(joints, i) => i \in K
  OBVIOUS
<1> HIDE DEF K, key, s, n
<1>9. DOMAIN kept = 1..n /\ \A k \in 1..n : kept[k] = joints[s[k]] /\ s[k] \in K
  BY <1>5
<1> HIDE DEF kept
<1>10. kept \in Seq(JointNode)
  <2>1. \A k \in 1..n : kept[k] \in JointNode
    BY <1>2, <1>7, <1>9
  <2>2. kept = [k \in 1..n |-> kept[k]]
    BY <1>9 DEF kept
  <2> QED BY <1>5, <2>1, <2>2
<1>11. \A k, l \in 1..n : k < l => kept[k].name < kept[l].name
  BY <1>5, <1>7, <1>9
<1>12. \A k \in 1..n : \E i \in DOMAIN joints :
         FirstOfItsName(joints, i) /\ kept[k] = joints[i]
  BY <1>7, <1>9
<1>13. \A i \in DOMAIN joints :
         FirstOfItsName(joints, i) => \E k \in 1..n : kept[k] = joints[i]
  BY <1>5, <1>8, <1>9
<1>14. \A i \in DOMAIN joints :
         joints[i].name # NoName => \E k \in 1..n : kept[k].name = joints[i].name
  BY <1>13, FirstExists
<1> QED BY <1>6, <1>9, <1>10, <1>11, <1>12, <1>13, <1>14

(***************************************************************************)
(* The buses of the configuration: those that have a path, all of them, in *)
(* the order of the file.                                                  *)
(***************************************************************************)
THEOREM BusesOfConfiguration ==
  ASSUME NEW buses \in Seq(BusNode)
  PROVE  /\ KeptBuses(buses) \in Seq(BusNode)
         /\ \E at \in [DOMAIN KeptBuses(buses) -> {i \in DOMAIN buses : buses[i].path}] :
              /\ \A k \in DOMAIN KeptBuses(buses) : KeptBuses(buses)[k] = buses[at[k]]
              /\ \A k, l \in DOMAIN KeptBuses(buses) : k < l => at[k] < at[l]
              /\ \A i \in DOMAIN buses :
                   buses[i].path => \E k \in DOMAIN KeptBuses(buses) : at[k] = i
<1> DEFINE K == {i \in DOMAIN buses : buses[i].path}
           key == [i \in K |-> i]
           s == InOrder(K, key)
           n == Cardinality(K)
           kept == [k \in 1..n |-> buses[s[k]]]
<1>1. Len(buses) \in Nat /\ DOMAIN buses = 1..Len(buses)
  OBVIOUS
<1>2. IsFiniteSet(K)
  BY <1>1, Positions
<1>3. DistinctKeys(K, key)
  BY <1>1 DEF DistinctKeys
<1>4. /\ n \in Nat
      /\ s \in [1..n -> K]
      /\ \A k, l \in 1..n : k < l => key[s[k]] < key[s[l]]
      /\ \A x \in K : \E k \in 1..n : s[k] = x
  <2> HIDE DEF K, key
  <2> QED BY <1>2, <1>3, InOrderLists
<1>5. KeptBuses(buses) = kept
  BY <1>4 DEF KeptBuses
<1>6. \A k, l \in 1..n : k < l => s[k] < s[l]
  BY <1>4
<1>7. kept \in Seq(BusNode)
  <2>1. \A i \in K : buses[i] \in BusNode
    OBVIOUS
  <2> HIDE DEF K, s, n
  <2>2. \A k \in 1..n : buses[s[k]] \in BusNode
    BY <1>4, <2>1
  <2> QED BY <1>4, <2>2
<1>8. \A i \in DOMAIN buses : buses[i].path => \E k \in 1..n : s[k] = i
  BY <1>4
<1> HIDE DEF n, s
<1>9. DOMAIN kept = 1..n /\ DOMAIN s = 1..n /\ \A k \in 1..n : kept[k] = buses[s[k]]
  BY <1>4
<1>10. s \in [DOMAIN kept -> {i \in DOMAIN buses : buses[i].path}]
  BY <1>4, <1>9
<1> HIDE DEF kept, K
<1>11. \E at \in [DOMAIN kept -> {i \in DOMAIN buses : buses[i].path}] :
         /\ \A k \in DOMAIN kept : kept[k] = buses[at[k]]
         /\ \A k, l \in DOMAIN kept : k < l => at[k] < at[l]
         /\ \A i \in DOMAIN buses : buses[i].path => \E k \in DOMAIN kept : at[k] = i
  <2> WITNESS s \in [DOMAIN kept -> {i \in DOMAIN buses : buses[i].path}]
  <2> QED BY <1>6, <1>8, <1>9
<1> QED BY <1>5, <1>7, <1>11

-----------------------------------------------------------------------------
(***************************************************************************)
(* A device without a "driver" key is described as a device.               *)
(***************************************************************************)
LEMMA NoDriverDescribed == NoDriver \in Description
<1>1. <<>> \in Seq(Step)
  OBVIOUS
<1>2. \A init \in Seq(Step) : [type |-> "fake", init |-> init, needs |-> 0] \in Description
  BY DEF Description, Type
<1> QED BY <1>1, <1>2 DEF NoDriver, NoBus

(***************************************************************************)
(* The order of the devices: by joint, then by class.                      *)
(***************************************************************************)
LEMMA Lexicographic ==
  ASSUME NEW k \in Nat, NEW c \in 1..3, NEW l \in Nat, NEW e \in 1..3
  PROVE  /\ 3 * k + c = 3 * l + e => k = l /\ c = e
         /\ 3 * k + c < 3 * l + e => k < l \/ (k = l /\ c # e)
<1>1. CASE c = 1
  BY <1>1
<1>2. CASE c = 2
  BY <1>2
<1>3. CASE c = 3
  BY <1>3
<1> QED BY <1>1, <1>2, <1>3

(***************************************************************************)
(* A device of a joint is described as a device, or absent as one.         *)
(***************************************************************************)
LEMMA Devices ==
  ASSUME NEW joint \in JointNode, NEW c \in 1..3
  PROVE  /\ Device(joint, c) \in Description
         /\ Classes[c] \in {"brake", "actuator", "encoder"}
         /\ \A e \in 1..3 : Classes[e] = Classes[c] => e = c
<1>1. c = 1 \/ c = 2 \/ c = 3
  OBVIOUS
<1>2. Classes[1] = "brake" /\ Classes[2] = "actuator" /\ Classes[3] = "encoder"
  BY DEF Classes
<1>3. /\ joint["brake"] \in Description
      /\ joint["actuator"] \in Description
      /\ joint["encoder"] \in Description
  BY DEF JointNode
<1>4. NoDriver \in Description
  BY NoDriverDescribed
<1>5. Device(joint, c) \in {NoDriver, joint[Classes[c]]}
  BY DEF Device
<1>6. Device(joint, c) \in Description
  BY <1>1, <1>2, <1>3, <1>4, <1>5
<1>7. Classes[c] \in {"brake", "actuator", "encoder"}
  BY <1>1, <1>2
<1>8. \A e \in 1..3 : Classes[e] = Classes[c] => e = c
  <2> SUFFICES ASSUME NEW e \in 1..3, Classes[e] = Classes[c] PROVE e = c
    OBVIOUS
  <2>1. e = 1 \/ e = 2 \/ e = 3
    OBVIOUS
  <2> QED BY <1>1, <1>2, <2>1
<1> QED BY <1>6, <1>7, <1>8

(***************************************************************************)
(* What the manager constructs is a driver of the class and id it is given.*)
(***************************************************************************)
LEMMA Entries ==
  ASSUME NEW class \in {"bus", "brake", "actuator", "encoder"}, NEW id \in Nat,
         NEW driver \in Description, NEW useFake \in BOOLEAN
  PROVE  /\ Entry(class, id, driver, useFake) \in Driver
         /\ Entry(class, id, driver, useFake).class = class
         /\ Entry(class, id, driver, useFake).id = id
<1> DEFINE d == IF useFake THEN NoDriver ELSE driver
<1>1. NoDriver \in Description
  BY NoDriverDescribed
<1>2. d \in Description
  BY <1>1
<1> HIDE DEF d
<1>3. d.type \in Type /\ d.init \in Seq(Step) /\ d.needs \in Nat
  BY <1>2 DEF Description
<1>4. Entry(class, id, driver, useFake) =
        [class |-> class, id |-> id, type |-> d.type, init |-> d.init, needs |-> d.needs]
  BY DEF Entry, d
<1> QED BY <1>3, <1>4 DEF Driver

(***************************************************************************)
(* The drivers of the joints, if these are strictly in the order of their  *)
(* names: joint by joint, none of them a bus, each device that is there    *)
(* and no device twice.                                                    *)
(***************************************************************************)
LEMMA DriversOfJoints ==
  ASSUME NEW joints \in Seq(JointNode), NEW useFake \in BOOLEAN,
         \A k, l \in DOMAIN joints : k < l => joints[k].name < joints[l].name,
         NEW drivers, drivers = AllJointDrivers(joints, useFake)
  PROVE  /\ drivers \in Seq(Driver)
         /\ \A n \in DOMAIN drivers : drivers[n].class # "bus"
         /\ \A m, n \in DOMAIN drivers :
              m < n => \/ drivers[m].id < drivers[n].id
                       \/ /\ drivers[m].id = drivers[n].id
                          /\ drivers[m].class # drivers[n].class
         /\ \A k \in DOMAIN joints, c \in 1..3 :
              Device(joints[k], c) # Absent =>
                \E n \in DOMAIN drivers :
                  drivers[n] = Entry(Classes[c], joints[k].name, Device(joints[k], c), useFake)
<1> DEFINE K == {d \in (DOMAIN joints) \X (1..3) : Device(joints[d[1]], d[2]) # Absent}
           key == [d \in K |-> 3 * d[1] + d[2]]
           s == InOrder(K, key)
           N == Cardinality(K)
           E(d) == Entry(Classes[d[2]], joints[d[1]].name, Device(joints[d[1]], d[2]), useFake)
           ds == [n \in 1..N |-> E(s[n])]
<1>1. Len(joints) \in Nat /\ DOMAIN joints = 1..Len(joints)
  OBVIOUS
<1>2. \A i \in DOMAIN joints : joints[i] \in JointNode /\ joints[i].name \in Nat
  <2>1. \A i \in DOMAIN joints : joints[i] \in JointNode
    OBVIOUS
  <2>2. \A j \in JointNode : j.name \in Nat
    BY DEF JointNode
  <2> QED BY <2>1, <2>2
<1>3. \A d \in K : /\ d[1] \in DOMAIN joints /\ d[2] \in 1..3
                   /\ d[1] \in Nat /\ d[2] \in Nat /\ d = <<d[1], d[2]>>
  BY <1>1
<1>4. \A k \in DOMAIN joints, c \in 1..3 : Device(joints[k], c) # Absent => <<k, c>> \in K
  OBVIOUS
<1>5. IsFiniteSet(K)
  <2>1. IsFiniteSet(1..Len(joints)) /\ IsFiniteSet(1..3)
    <3>1. \A n \in Nat : IsFiniteSet(1..n)
      BY FS_Interval
    <3> QED BY <1>1, <3>1
  <2>2. IsFiniteSet((DOMAIN joints) \X (1..3))
    BY <1>1, <2>1, FS_Product
  <2>3. K \in SUBSET ((DOMAIN joints) \X (1..3))
    OBVIOUS
  <2> QED BY <2>2, <2>3, FS_Subset
<1>6. key \in [K -> Nat] /\ \A d \in K : key[d] = 3 * d[1] + d[2]
  BY <1>3
<1> HIDE DEF K, key
<1>7. DistinctKeys(K, key)
  <2>1. ASSUME NEW d \in K, NEW e \in K, key[d] = key[e]
        PROVE  d = e
    <3>1. 3 * d[1] + d[2] = 3 * e[1] + e[2]
      BY <1>6, <2>1
    <3>2. d[1] \in Nat /\ d[2] \in 1..3 /\ e[1] \in Nat /\ e[2] \in 1..3
      BY <1>3
    <3> DEFINE k == d[1]
               c == d[2]
               l == e[1]
               f == e[2]
    <3> HIDE DEF k, c, l, f
    <3>3. k = l /\ c = f
      <4>1. 3 * k + c = 3 * l + f /\ k \in Nat /\ c \in 1..3 /\ l \in Nat /\ f \in 1..3
        BY <3>1, <3>2 DEF k, c, l, f
      <4> QED BY <4>1, Lexicographic
    <3> QED BY <1>3, <3>3 DEF k, c, l, f
  <2> QED BY <1>6, <2>1 DEF DistinctKeys
<1>8. /\ N \in Nat
      /\ s \in [1..N -> K]
      /\ \A k, l \in 1..N : k < l => key[s[k]] < key[s[l]]
      /\ \A x \in K : \E k \in 1..N : s[k] = x
  BY <1>5, <1>7, InOrderLists
<1>9. drivers = ds
  BY <1>8 DEF AllJointDrivers, K, key
<1> HIDE DEF s, N
<1>10. ASSUME NEW d \in K
       PROVE  /\ E(d) \in Driver
              /\ E(d).class = Classes[d[2]] /\ E(d).class # "bus"
              /\ E(d).id = joints[d[1]].name
  <2>1. joints[d[1]] \in JointNode /\ joints[d[1]].name \in Nat /\ d[2] \in 1..3
    BY <1>2, <1>3
  <2>2. /\ Device(joints[d[1]], d[2]) \in Description
        /\ Classes[d[2]] \in {"brake", "actuator", "encoder"}
    BY <2>1, Devices
  <2>3. Classes[d[2]] \in {"bus", "brake", "actuator", "encoder"} /\ Classes[d[2]] # "bus"
    BY <2>2
  <2> QED BY <2>1, <2>2, <2>3, Entries
<1>11. ASSUME NEW d \in K, NEW e \in K, key[d] < key[e]
       PROVE  \/ joints[d[1]].name < joints[e[1]].name
              \/ joints[d[1]].name = joints[e[1]].name /\ Classes[d[2]] # Classes[e[2]]
  <2>1. 3 * d[1] + d[2] < 3 * e[1] + e[2]
    BY <1>6, <1>11
  <2>2. d[1] \in Nat /\ d[2] \in 1..3 /\ e[1] \in Nat /\ e[2] \in 1..3
    BY <1>3
  <2>3. d[1] < e[1] \/ (d[1] = e[1] /\ d[2] # e[2])
    <3> DEFINE k == d[1]
               c == d[2]
               l == e[1]
               f == e[2]
    <3> HIDE DEF k, c, l, f
    <3>1. 3 * k + c < 3 * l + f /\ k \in Nat /\ c \in 1..3 /\ l \in Nat /\ f \in 1..3
      BY <2>1, <2>2 DEF k, c, l, f
    <3>2. k < l \/ (k = l /\ c # f)
      BY <3>1, Lexicographic
    <3> QED BY <3>2 DEF k, c, l, f
  <2>4. d[1] \in DOMAIN joints /\ e[1] \in DOMAIN joints /\ joints[d[1]] \in JointNode
    BY <1>2, <1>3
  <2>5. d[2] # e[2] => Classes[d[2]] # Classes[e[2]]
    BY <2>2, <2>4, Devices
  <2> QED BY <2>3, <2>4, <2>5
<1> HIDE DEF E
<1>12. DOMAIN ds = 1..N /\ \A n \in 1..N : ds[n] = E(s[n]) /\ s[n] \in K
  BY <1>8
<1>13. ds \in Seq(Driver)
  <2>1. \A n \in 1..N : E(s[n]) \in Driver
    BY <1>10, <1>12
  <2> QED BY <1>8, <2>1
<1> HIDE DEF ds
<1>14. \A n \in 1..N : ds[n].class # "bus"
  BY <1>10, <1>12
<1>15. ASSUME NEW m \in 1..N, NEW n \in 1..N, m < n
       PROVE  \/ ds[m].id < ds[n].id
              \/ ds[m].id = ds[n].id /\ ds[m].class # ds[n].class
  <2>1. key[s[m]] < key[s[n]] /\ s[m] \in K /\ s[n] \in K
    BY <1>8, <1>12, <1>15
  <2> QED BY <1>10, <1>11, <1>12, <2>1
<1>16. ASSUME NEW k \in DOMAIN joints, NEW c \in 1..3, Device(joints[k], c) # Absent
       PROVE  \E n \in 1..N :
                ds[n] = Entry(Classes[c], joints[k].name, Device(joints[k], c), useFake)
  <2>1. PICK n \in 1..N : s[n] = <<k, c>>
    BY <1>4, <1>8, <1>16
  <2>2. ds[n] = E(<<k, c>>)
    BY <1>12, <2>1
  <2> QED BY <2>2 DEF E
<1>17. DOMAIN drivers = 1..N
  BY <1>9, <1>12
<1>18. \A n \in DOMAIN drivers : drivers[n].class # "bus"
  BY <1>9, <1>14, <1>17
<1>19. \A m, n \in DOMAIN drivers :
         m < n => \/ drivers[m].id < drivers[n].id
                  \/ drivers[m].id = drivers[n].id /\ drivers[m].class # drivers[n].class
  BY <1>9, <1>15, <1>17
<1>20. \A k \in DOMAIN joints, c \in 1..3 :
         Device(joints[k], c) # Absent =>
           \E n \in DOMAIN drivers :
             drivers[n] = Entry(Classes[c], joints[k].name, Device(joints[k], c), useFake)
  BY <1>9, <1>16, <1>17
<1> QED BY <1>9, <1>13, <1>18, <1>19, <1>20

-----------------------------------------------------------------------------
(* What the manager constructs, whatever the document.                     *)

\* The buses come before the devices.
BusesAhead(p) == \A b, i \in DOMAIN p : p[b].class = "bus" /\ p[i].class # "bus" => b < i

\* No two drivers have the same class and id, and so the same node name.
NoDriverTwice(p) ==
  \A i, j \in DOMAIN p : p[i].class = p[j].class /\ p[i].id = p[j].id => i = j

(***************************************************************************)
(* PlanOfDocument: every document that loads gives a sequence of drivers   *)
(* with the buses first and no driver twice, also when the file repeats a  *)
(* joint's name (Node::Node and the configuration it reads).               *)
(***************************************************************************)
THEOREM PlanOfDocument ==
  ASSUME NEW doc \in Document, NEW useFake \in BOOLEAN
  PROVE  /\ Plan(doc, useFake) \in Seq(Driver)
         /\ BusesAhead(Plan(doc, useFake))
         /\ NoDriverTwice(Plan(doc, useFake))
<1> DEFINE kb == KeptBuses(doc.buses)
           kj == KeptJoints(doc.joints)
           bs == BusDrivers(kb, useFake)
           ds == AllJointDrivers(kj, useFake)
           p == bs \o ds
<1>1. doc.buses \in Seq(BusNode) /\ doc.joints \in Seq(JointNode)
  BY DEF Document
<1>2. kb \in Seq(BusNode)
  BY <1>1, BusesOfConfiguration
<1>3. /\ kj \in Seq(JointNode)
      /\ \A k, l \in DOMAIN kj : k < l => kj[k].name < kj[l].name
  BY <1>1, JointsOfConfiguration
<1>4. Plan(doc, useFake) = p
  BY DEF Plan
<1> HIDE DEF kb, kj
<1>5. /\ bs \in Seq(Driver)
      /\ \A i \in DOMAIN bs : bs[i].class = "bus" /\ bs[i].id = i
  <2>1. Len(kb) \in Nat /\ DOMAIN kb = 1..Len(kb)
    BY <1>2
  <2>2. ASSUME NEW i \in 1..Len(kb)
        PROVE  /\ Entry("bus", i, kb[i].driver, useFake) \in Driver
               /\ Entry("bus", i, kb[i].driver, useFake).class = "bus"
               /\ Entry("bus", i, kb[i].driver, useFake).id = i
    <3>1. kb[i] \in BusNode
      BY <1>2, <2>1
    <3>2. kb[i].driver \in Description
      BY <3>1 DEF BusNode
    <3>3. i \in Nat
      BY <2>1
    <3> QED BY <3>2, <3>3, Entries
  <2>3. bs = [i \in 1..Len(kb) |-> Entry("bus", i, kb[i].driver, useFake)]
    BY <2>1 DEF BusDrivers
  <2> HIDE DEF bs
  <2>4. bs \in Seq(Driver)
    BY <2>1, <2>2, <2>3
  <2>5. \A i \in DOMAIN bs : bs[i].class = "bus" /\ bs[i].id = i
    BY <2>2, <2>3
  <2> QED BY <2>4, <2>5
<1>6. /\ ds \in Seq(Driver)
      /\ \A n \in DOMAIN ds : ds[n].class # "bus"
      /\ \A m, n \in DOMAIN ds :
           m < n => \/ ds[m].id < ds[n].id
                    \/ ds[m].id = ds[n].id /\ ds[m].class # ds[n].class
  BY <1>3, DriversOfJoints
<1> HIDE DEF bs, ds
<1>7. /\ Len(bs) \in Nat /\ DOMAIN bs = 1..Len(bs)
      /\ Len(ds) \in Nat /\ DOMAIN ds = 1..Len(ds)
  BY <1>5, <1>6
<1>8. /\ p \in Seq(Driver)
      /\ DOMAIN p = 1..(Len(bs) + Len(ds))
      /\ \A i \in 1..Len(bs) : p[i] = bs[i]
      /\ \A i \in (Len(bs) + 1)..(Len(bs) + Len(ds)) : p[i] = ds[i - Len(bs)]
  BY <1>5, <1>6
<1> HIDE DEF p
<1>9. \A i \in DOMAIN p :
        \/ i \in 1..Len(bs) /\ p[i].class = "bus" /\ p[i].id = i
        \/ /\ i \in Nat /\ i > Len(bs) /\ i - Len(bs) \in DOMAIN ds
           /\ p[i] = ds[i - Len(bs)] /\ p[i].class # "bus"
  <2> SUFFICES ASSUME NEW i \in DOMAIN p
               PROVE  \/ i \in 1..Len(bs) /\ p[i].class = "bus" /\ p[i].id = i
                      \/ /\ i \in Nat /\ i > Len(bs) /\ i - Len(bs) \in DOMAIN ds
                         /\ p[i] = ds[i - Len(bs)] /\ p[i].class # "bus"
    OBVIOUS
  <2>1. CASE i <= Len(bs)
    <3>1. i \in 1..Len(bs)
      BY <1>7, <1>8, <2>1
    <3> QED BY <1>5, <1>7, <1>8, <3>1
  <2>2. CASE i > Len(bs)
    <3>1. /\ i \in (Len(bs) + 1)..(Len(bs) + Len(ds)) /\ i \in Nat
          /\ i - Len(bs) \in 1..Len(ds)
      BY <1>7, <1>8, <2>2
    <3> QED BY <1>6, <1>7, <1>8, <2>2, <3>1
  <2>3. i \in Nat
    BY <1>7, <1>8
  <2> QED BY <1>7, <2>1, <2>2, <2>3
<1>10. BusesAhead(p)
  <2> SUFFICES ASSUME NEW b \in DOMAIN p, NEW i \in DOMAIN p,
                      p[b].class = "bus", p[i].class # "bus"
               PROVE  b < i
    BY DEF BusesAhead
  <2>1. b \in 1..Len(bs) /\ i \in Nat /\ i > Len(bs)
    BY <1>9
  <2> QED BY <1>7, <2>1
<1>11. NoDriverTwice(p)
  <2> SUFFICES ASSUME NEW i \in DOMAIN p, NEW j \in DOMAIN p,
                      p[i].class = p[j].class, p[i].id = p[j].id
               PROVE  i = j
    BY DEF NoDriverTwice
  <2>1. CASE p[i].class = "bus"
    BY <1>9, <2>1
  <2>2. CASE p[i].class # "bus"
    <3> DEFINE m == i - Len(bs)
               n == j - Len(bs)
    <3>1. /\ i \in Nat /\ m \in DOMAIN ds /\ p[i] = ds[m]
          /\ j \in Nat /\ n \in DOMAIN ds /\ p[j] = ds[n]
      BY <1>9, <2>2
    <3>2. (m = n => i = j) /\ m \in Nat /\ n \in Nat
      BY <1>7, <3>1
    <3> HIDE DEF m, n
    <3>3. ~(m < n) /\ ~(n < m)
      <4>1. ds[m].id \in Nat
        <5>1. ds[m] \in Driver
          BY <1>6, <3>1
        <5> QED BY <5>1 DEF Driver
      <4>2. ds[m].id = ds[n].id /\ ds[m].class = ds[n].class
        BY <3>1
      <4> QED BY <1>6, <3>1, <4>1, <4>2
    <3> QED BY <3>2, <3>3
  <2> QED BY <2>1, <2>2
<1> QED BY <1>4, <1>8, <1>10, <1>11

(***************************************************************************)
(* NothingForgotten: for every bus with a path, and for every device of    *)
(* the first joint of each name, the manager constructs a driver with the  *)
(* description in the file, or without one when the hardware is fake.      *)
(***************************************************************************)
THEOREM NothingForgotten ==
  ASSUME NEW doc \in Document, NEW useFake \in BOOLEAN
  PROVE  /\ \A i \in DOMAIN doc.buses :
              doc.buses[i].path =>
                \E n \in DOMAIN Plan(doc, useFake), id \in Nat :
                  Plan(doc, useFake)[n] = Entry("bus", id, doc.buses[i].driver, useFake)
         /\ \A i \in DOMAIN doc.joints, c \in 1..3 :
              FirstOfItsName(doc.joints, i) /\ Device(doc.joints[i], c) # Absent =>
                \E n \in DOMAIN Plan(doc, useFake) :
                  Plan(doc, useFake)[n] =
                    Entry(Classes[c], doc.joints[i].name, Device(doc.joints[i], c), useFake)
<1> DEFINE kb == KeptBuses(doc.buses)
           kj == KeptJoints(doc.joints)
           bs == BusDrivers(kb, useFake)
           ds == AllJointDrivers(kj, useFake)
           p == bs \o ds
<1>1. doc.buses \in Seq(BusNode) /\ doc.joints \in Seq(JointNode)
  BY DEF Document
<1>2. kb \in Seq(BusNode) /\ Len(kb) \in Nat /\ DOMAIN kb = 1..Len(kb)
  <2>1. kb \in Seq(BusNode)
    BY <1>1, BusesOfConfiguration
  <2> HIDE DEF kb
  <2> QED BY <2>1
<1>3. \A i \in DOMAIN doc.buses :
        doc.buses[i].path => \E k \in DOMAIN kb : kb[k] = doc.buses[i]
  <2>1. PICK at \in [DOMAIN kb -> {i \in DOMAIN doc.buses : doc.buses[i].path}] :
          /\ \A k \in DOMAIN kb : kb[k] = doc.buses[at[k]]
          /\ \A k, l \in DOMAIN kb : k < l => at[k] < at[l]
          /\ \A i \in DOMAIN doc.buses : doc.buses[i].path => \E k \in DOMAIN kb : at[k] = i
    BY <1>1, BusesOfConfiguration, Zenon
  <2> HIDE DEF kb
  <2> QED BY <2>1
<1>4. /\ kj \in Seq(JointNode)
      /\ \A k, l \in DOMAIN kj : k < l => kj[k].name < kj[l].name
      /\ \A i \in DOMAIN doc.joints :
           FirstOfItsName(doc.joints, i) => \E k \in DOMAIN kj : kj[k] = doc.joints[i]
  BY <1>1, JointsOfConfiguration
<1>5. Plan(doc, useFake) = p
  BY DEF Plan
<1> HIDE DEF kb, kj
<1>6. /\ bs = [k \in 1..Len(kb) |-> Entry("bus", k, kb[k].driver, useFake)]
      /\ Len(bs) = Len(kb)
  BY <1>2 DEF BusDrivers
<1>7. /\ ds \in Seq(Driver)
      /\ \A k \in DOMAIN kj, c \in 1..3 :
           Device(kj[k], c) # Absent =>
             \E n \in DOMAIN ds : ds[n] = Entry(Classes[c], kj[k].name, Device(kj[k], c), useFake)
  BY <1>4, DriversOfJoints
<1> HIDE DEF bs, ds
<1>8. Len(ds) \in Nat /\ DOMAIN ds = 1..Len(ds)
  BY <1>7
<1>9. /\ DOMAIN p = 1..(Len(kb) + Len(ds))
      /\ \A k \in 1..Len(kb) : p[k] = bs[k] /\ k \in DOMAIN p
      /\ \A n \in 1..Len(ds) : p[Len(kb) + n] = ds[n] /\ Len(kb) + n \in DOMAIN p
  <2>1. bs \in Seq({bs[k] : k \in 1..Len(kb)})
    BY <1>2, <1>6
  <2>2. \A n \in 1..Len(ds) : /\ Len(kb) + n \in (Len(kb) + 1)..(Len(kb) + Len(ds))
                              /\ (Len(kb) + n) - Len(kb) = n
    BY <1>2, <1>8
  <2>3. /\ DOMAIN p = 1..(Len(kb) + Len(ds))
        /\ \A k \in 1..(Len(kb) + Len(ds)) :
             p[k] = IF k <= Len(kb) THEN bs[k] ELSE ds[k - Len(kb)]
    BY <1>2, <1>6, <1>7, <1>8, <2>1
  <2> HIDE DEF p
  <2> QED BY <1>2, <1>8, <2>2, <2>3
<1> HIDE DEF p
<1>10. ASSUME NEW i \in DOMAIN doc.buses, doc.buses[i].path
       PROVE  \E n \in DOMAIN p, id \in Nat : p[n] = Entry("bus", id, doc.buses[i].driver, useFake)
  <2>1. PICK k \in 1..Len(kb) : kb[k] = doc.buses[i]
    BY <1>2, <1>3, <1>10
  <2>2. k \in DOMAIN p /\ k \in Nat /\ p[k] = Entry("bus", k, doc.buses[i].driver, useFake)
    BY <1>2, <1>6, <1>9, <2>1
  <2> QED BY <2>2
<1>11. ASSUME NEW i \in DOMAIN doc.joints, NEW c \in 1..3,
              FirstOfItsName(doc.joints, i), Device(doc.joints[i], c) # Absent
       PROVE  \E n \in DOMAIN p :
                p[n] = Entry(Classes[c], doc.joints[i].name, Device(doc.joints[i], c), useFake)
  <2>1. PICK k \in DOMAIN kj : kj[k] = doc.joints[i]
    BY <1>4, <1>11
  <2>2. PICK n \in 1..Len(ds) :
          ds[n] = Entry(Classes[c], kj[k].name, Device(kj[k], c), useFake)
    BY <1>7, <1>8, <1>11, <2>1
  <2> QED BY <1>9, <2>1, <2>2
<1> QED BY <1>5, <1>10, <1>11
=============================================================================
