-------------------------- MODULE VbPlannerProofs --------------------------
(* For any number of nodes, vbuckets and workers: the plans of nodes that   *)
(* read the same inputs give every vbucket to exactly one consumer.         *)
EXTENDS VbPlanner, FiniteSetTheorems, TLAPS

\* Division with remainder, as total \div parts and total % parts compute it.
LEMMA DivMod ==
  ASSUME NEW total \in Nat, NEW parts \in Nat \ {0}
  PROVE  /\ total \div parts \in Nat
         /\ total % parts \in 0..(parts - 1)
         /\ total = parts * (total \div parts) + (total % parts)
  BY SMT

\* Multiplication by a natural number is monotone.
LEMMA TimesMonotone ==
  ASSUME NEW a \in Nat, NEW b \in Nat, NEW q \in Nat, a <= b
  PROVE  a * q <= b * q /\ a * q \in Nat /\ b * q \in Nat
<1>1. PICK d \in Nat : b = a + d
  <2>1. b - a \in Nat BY SMT
  <2> QED BY <2>1, SMT
<1> QED BY <1>1

\* The next slice starts where the slice before it ends.
LEMMA SlicesAdjoin ==
  ASSUME NEW total \in Nat, NEW parts \in Nat \ {0}, NEW i \in 1..parts
  PROVE  /\ StartOf(total, parts, i) \in Nat /\ Share(total, parts, i) \in Nat
         /\ StartOf(total, parts, i + 1) = StartOf(total, parts, i) + Share(total, parts, i)
<1> DEFINE q == total \div parts
           r == total % parts
<1>1. q \in Nat /\ r \in Nat
  BY DivMod
<1>2. (i - 1) * q \in Nat /\ i * q = (i - 1) * q + q
  <2> HIDE DEF q
  <2> QED BY <1>1, SMT
<1> HIDE DEF q, r
<1>3. StartOf(total, parts, i) = (i - 1) * q + (IF i - 1 <= r THEN i - 1 ELSE r)
  BY DEF StartOf, q, r
<1>4. StartOf(total, parts, i + 1) = i * q + (IF i <= r THEN i ELSE r)
  BY DEF StartOf, q, r
<1>5. Share(total, parts, i) = q + (IF i <= r THEN 1 ELSE 0)
  BY DEF Share, q, r
<1> QED
  BY <1>1, <1>2, <1>3, <1>4, <1>5

\* Later slices start later.
LEMMA StartMonotone ==
  ASSUME NEW total \in Nat, NEW parts \in Nat \ {0},
         NEW i \in 1..(parts + 1), NEW j \in 1..(parts + 1), i <= j
  PROVE  StartOf(total, parts, i) <= StartOf(total, parts, j)
<1> DEFINE q == total \div parts
           r == total % parts
<1>1. q \in Nat /\ r \in Nat
  BY DivMod
<1> HIDE DEF q, r
<1>2. (i - 1) * q <= (j - 1) * q /\ (i - 1) * q \in Nat /\ (j - 1) * q \in Nat
  BY <1>1, TimesMonotone
<1>3. StartOf(total, parts, i) = (i - 1) * q + (IF i - 1 <= r THEN i - 1 ELSE r)
  BY DEF StartOf, q, r
<1>4. StartOf(total, parts, j) = (j - 1) * q + (IF j - 1 <= r THEN j - 1 ELSE r)
  BY DEF StartOf, q, r
<1> QED
  BY <1>1, <1>2, <1>3, <1>4

\* No thing is dealt twice.
LEMMA SlicesDisjoint ==
  ASSUME NEW total \in Nat, NEW parts \in Nat \ {0},
         NEW i \in 1..parts, NEW j \in 1..parts, i # j
  PROVE  Slice(total, parts, i) \cap Slice(total, parts, j) = {}
<1>1. ASSUME NEW a \in 1..parts, NEW b \in 1..parts, a < b
      PROVE  Slice(total, parts, a) \cap Slice(total, parts, b) = {}
  <2>1. StartOf(total, parts, a + 1) <= StartOf(total, parts, b)
    BY <1>1, StartMonotone
  <2>2. StartOf(total, parts, a) + Share(total, parts, a) <= StartOf(total, parts, b)
    BY <2>1, SlicesAdjoin
  <2>3. /\ StartOf(total, parts, a) \in Nat /\ Share(total, parts, a) \in Nat
        /\ StartOf(total, parts, b) \in Nat /\ Share(total, parts, b) \in Nat
    BY SlicesAdjoin, Zenon
  <2> QED
    BY <2>2, <2>3 DEF Slice
<1> QED
  BY <1>1

\* Every thing is dealt.
LEMMA SlicesCover ==
  ASSUME NEW total \in Nat, NEW parts \in Nat \ {0}, NEW x \in 0..(total - 1)
  PROVE  \E i \in 1..parts : x \in Slice(total, parts, i)
<1> DEFINE q == total \div parts
           r == total % parts
<1>1. q \in Nat /\ r \in 0..(parts - 1) /\ total = parts * q + r
  BY DivMod, Zenon
<1> HIDE DEF q, r
<1>2. \A i \in 1..parts :
        /\ StartOf(total, parts, i) = (i - 1) * q + (IF i - 1 <= r THEN i - 1 ELSE r)
        /\ Share(total, parts, i) = q + (IF i <= r THEN 1 ELSE 0)
  BY DEF StartOf, Share, q, r
<1>3. r * (q + 1) \in Nat
  BY <1>1
<1>4. CASE x < r * (q + 1)
  <2> DEFINE a == x \div (q + 1)
             b == x % (q + 1)
  <2>1. a \in Nat /\ b \in 0..q /\ x = (q + 1) * a + b
    <3> DEFINE d == q + 1
    <3>1. d \in Nat \ {0} /\ x \in Nat /\ d - 1 = q
      BY <1>1
    <3> HIDE DEF d
    <3>2. x \div d \in Nat /\ x % d \in 0..(d - 1) /\ x = d * (x \div d) + (x % d)
      BY <3>1, DivMod, Zenon
    <3> QED
      BY <3>1, <3>2 DEF d
  <2> HIDE DEF a, b
  <2>2. a < r
    <3>1. CASE r <= a
      <4>1. r * (q + 1) <= a * (q + 1)
        BY <1>1, <2>1, <3>1, TimesMonotone
      <4> QED
        BY <1>1, <1>3, <1>4, <2>1, <4>1
    <3> QED
      BY <1>1, <2>1, <3>1
  <2>3. a + 1 \in 1..parts
    BY <1>1, <2>1, <2>2
  <2>4. StartOf(total, parts, a + 1) = a * q + a /\ Share(total, parts, a + 1) = q + 1
    BY <1>1, <1>2, <2>1, <2>2, <2>3
  <2>5. (q + 1) * a = a * q + a /\ a * q \in Nat
    BY <1>1, <2>1
  <2>6. x \in Slice(total, parts, a + 1)
    BY <1>1, <2>1, <2>4, <2>5 DEF Slice
  <2> QED
    BY <2>3, <2>6
<1>5. CASE x >= r * (q + 1)
  <2>1. q > 0
    BY <1>1, <1>3, <1>5
  <2> DEFINE y == x - r * (q + 1)
             a == y \div q
             b == y % q
  <2>2. y \in Nat /\ x = r * (q + 1) + y
    BY <1>3, <1>5
  <2> HIDE DEF y
  <2>3. a \in Nat /\ b \in 0..(q - 1) /\ y = q * a + b
    BY <1>1, <2>1, <2>2, DivMod
  <2> HIDE DEF a, b
  <2>4. r * (q + 1) = r * q + r /\ r * q \in Nat /\ a * q \in Nat /\ q * a = a * q
    BY <1>1, <2>3
  <2>5. (r + a) * q = r * q + a * q
    BY <1>1, <2>3
  <2>6. r + a < parts
    <3>1. CASE parts <= r + a
      <4>1. parts * q <= (r + a) * q
        BY <1>1, <2>3, <3>1, TimesMonotone
      <4>2. parts * q \in Nat
        BY <1>1
      <4> QED
        BY <1>1, <2>2, <2>3, <2>4, <2>5, <4>1, <4>2
    <3> QED
      BY <1>1, <2>3, <3>1
  <2>7. r + a + 1 \in 1..parts
    BY <1>1, <2>3, <2>6
  <2>8. /\ StartOf(total, parts, r + a + 1) = (r + a) * q + r
        /\ Share(total, parts, r + a + 1) = q
    BY <1>1, <1>2, <2>3, <2>7
  <2>9. x \in Slice(total, parts, r + a + 1)
    BY <1>1, <2>2, <2>3, <2>4, <2>5, <2>8 DEF Slice
  <2> QED
    BY <2>7, <2>9
<1> QED
  BY <1>1, <1>3, <1>4, <1>5

-----------------------------------------------------------------------------
\* The sorted addresses: every index belongs to exactly one kept node.
LEMMA IndexBijective ==
  ASSUME NEW c \in View
  PROVE  /\ Cardinality(c.keep) \in Nat
         /\ \A n \in c.keep : AddressIndex(n, c) \in 1..Cardinality(c.keep)
         /\ \A i \in 1..Cardinality(c.keep) : \E n \in c.keep : AddressIndex(n, c) = i
         /\ \A n, m \in c.keep : AddressIndex(n, c) = AddressIndex(m, c) => n = m
<1> DEFINE Below(n) == {m \in c.keep : AddressBefore(m, n, c.listed)}
<1>1. IsFiniteSet(c.keep) /\ Cardinality(c.keep) \in Nat /\ c.keep \subseteq Nat \ {0}
  BY NodesAssumption, FS_Subset, FS_CardinalityType, Zenon DEF View
<1>2. ASSUME NEW n \in c.keep
      PROVE  /\ IsFiniteSet(Below(n)) /\ Cardinality(Below(n)) \in Nat
             /\ Cardinality(Below(n)) < Cardinality(c.keep)
  <2>1. IsFiniteSet(Below(n)) /\ Cardinality(Below(n)) <= Cardinality(c.keep)
        /\ (Cardinality(c.keep) = Cardinality(Below(n)) => c.keep = Below(n))
    BY <1>1, FS_Subset
  <2>2. n \notin Below(n)
    BY <1>1 DEF AddressBefore, Address, Unknown
  <2>3. Cardinality(Below(n)) \in Nat
    BY <2>1, FS_CardinalityType
  <2> QED
    BY <1>1, <2>1, <2>2, <2>3
<1>3. ASSUME NEW n \in c.keep, NEW m \in c.keep, n # m,
             Cardinality(Below(n)) = Cardinality(Below(m))
      PROVE  FALSE
  <2>1. ASSUME NEW a \in c.keep, NEW b \in c.keep, AddressBefore(a, b, c.listed),
               Cardinality(Below(a)) = Cardinality(Below(b))
        PROVE  FALSE
    <3>1. Below(a) \in SUBSET Below(b)
      BY <1>1, <2>1 DEF AddressBefore, Address, Unknown
    <3>2. a \in Below(b) /\ a \notin Below(a)
      BY <1>1, <2>1 DEF AddressBefore, Address, Unknown
    <3>3. IsFiniteSet(Below(b))
      BY <1>2
    <3>4. Below(b) = Below(a)
      BY <2>1, <3>1, <3>3, FS_Subset
    <3> QED
      BY <3>2, <3>4
  <2>2. AddressBefore(n, m, c.listed) \/ AddressBefore(m, n, c.listed)
    BY <1>1, <1>3 DEF AddressBefore, Address, Unknown
  <2> QED
    BY <1>3, <2>1, <2>2, Zenon
<1> DEFINE k == Cardinality(c.keep)
<1>4. ASSUME NEW n \in c.keep
      PROVE  AddressIndex(n, c) \in 1..k
  <2>1. AddressIndex(n, c) = 1 + Cardinality(Below(n))
    BY DEF AddressIndex
  <2> HIDE DEF Below
  <2> QED
    BY <1>1, <1>2, <2>1
<1>5. ASSUME NEW n \in c.keep, NEW m \in c.keep, AddressIndex(n, c) = AddressIndex(m, c)
      PROVE  n = m
  <2> DEFINE a == Cardinality(Below(n))
             b == Cardinality(Below(m))
  <2>1. AddressIndex(n, c) = 1 + a /\ AddressIndex(m, c) = 1 + b
    BY DEF AddressIndex
  <2>2. a \in Nat /\ b \in Nat
    BY <1>2
  <2>3. a = b
    <3> HIDE DEF a, b
    <3>1. 1 + a = 1 + b
      BY <1>5, <2>1, Zenon
    <3> QED
      BY <2>2, <3>1
  <2> QED
    BY <1>3, <2>3
<1> DEFINE f == [n \in c.keep |-> AddressIndex(n, c)]
<1>6. f \in [c.keep -> 1..k] /\ \A n, m \in c.keep : f[n] = f[m] => n = m
  BY <1>4, <1>5
<1>7. f \in Injection(c.keep, 1..k)
  BY <1>6 DEF Injection, IsInjective
<1>8. IsFiniteSet(1..k) /\ Cardinality(1..k) = k
  BY <1>1, FS_Interval
<1>9. f \in Surjection(c.keep, 1..k)
  BY <1>7, <1>8, FS_Injection
<1>10. \A i \in 1..k : \E n \in c.keep : AddressIndex(n, c) = i
  BY <1>9, Zenon DEF Surjection
<1> QED
  BY <1>1, <1>4, <1>5, <1>10

-----------------------------------------------------------------------------
\* The owner of a vbucket is the one kept node whose slice it is in.
LEMMA OwnerNodeKept ==
  ASSUME NEW c \in View, c.keep # {}, NEW vb \in Vbs
  PROVE  OwnerNode(vb, c) \in c.keep
<1>1. IsFiniteSet(c.keep)
  BY NodesAssumption, FS_Subset DEF View
<1>2. Cardinality(c.keep) \in Nat \ {0}
  BY <1>1, FS_EmptySet, FS_CardinalityType
<1>3. NumVbuckets \in Nat /\ vb \in 0..(NumVbuckets - 1)
  BY CountsAssumption DEF Vbs
<1>4. PICK i \in 1..Cardinality(c.keep) : vb \in Slice(NumVbuckets, Cardinality(c.keep), i)
  BY <1>2, <1>3, SlicesCover
<1>5. PICK n \in c.keep : AddressIndex(n, c) = i
  BY IndexBijective
<1>6. vb \in Slice(NumVbuckets, Cardinality(c.keep), AddressIndex(n, c))
  BY <1>4, <1>5
<1> QED
  BY <1>6 DEF OwnerNode

\* A plan gives every vbucket to a kept node, if the kept nodes are listed.
LEMMA AssignmentKept ==
  ASSUME NEW c \in View
  PROVE  /\ Assignment(c) \in [Vbs -> Owners]
         /\ c.keep # {} /\ c.keep \subseteq c.listed =>
              \A vb \in Vbs : Assignment(c)[vb] \in c.keep
<1>1. CASE c.keep = {}
  BY <1>1 DEF Assignment, Owners
<1>2. CASE c.keep # {}
  BY <1>2, OwnerNodeKept DEF Assignment, Address, View, Owners
<1> QED
  BY <1>1, <1>2

\* What the listed nodes are beyond the kept ones has no influence on the plan.
LEMMA AssignmentAgrees ==
  ASSUME NEW c \in View,
         NEW d \in View,
         c.keep = d.keep, c.keep \subseteq c.listed, d.keep \subseteq d.listed
  PROVE  Assignment(c) = Assignment(d)
<1>1. \A n \in c.keep : Address(n, c.listed) = n /\ Address(n, d.listed) = n
  BY DEF Address
<1>2. \A n, m \in c.keep : AddressBefore(n, m, c.listed) <=> AddressBefore(n, m, d.listed)
  BY <1>1 DEF AddressBefore
<1>3. \A n \in c.keep : AddressIndex(n, c) = AddressIndex(n, d)
  <2>1. ASSUME NEW n \in c.keep
        PROVE {m \in c.keep : AddressBefore(m, n, c.listed)}
                = {m \in d.keep : AddressBefore(m, n, d.listed)}
    BY <1>2
  <2> QED
    BY <2>1 DEF AddressIndex
<1>4. ASSUME NEW vb \in Vbs
      PROVE  OwnerNode(vb, c) = OwnerNode(vb, d)
  BY <1>3 DEF OwnerNode
<1>5. ASSUME NEW vb \in Vbs, c.keep # {}
      PROVE  Address(OwnerNode(vb, c), c.listed) = Address(OwnerNode(vb, d), d.listed)
  BY <1>1, <1>4, <1>5, OwnerNodeKept
<1> QED
  BY <1>5 DEF Assignment

\* The workers of a node share out its vbuckets.
LEMMA WorkersCover ==
  ASSUME NEW S \in SUBSET Vbs
  PROVE  /\ \A vb \in S : \E w \in Workers : vb \in WorkerSlice(S, w)
         /\ \A v, w \in Workers : v # w => WorkerSlice(S, v) \cap WorkerSlice(S, w) = {}
         /\ \A w \in Workers : WorkerSlice(S, w) \subseteq S
<1>1. IsFiniteSet(S) /\ Cardinality(S) \in Nat
  <2>1. IsFiniteSet(Vbs)
    BY CountsAssumption, FS_Interval DEF Vbs
  <2> QED
    BY <2>1, FS_Subset, FS_CardinalityType
<1>2. ASSUME NEW vb \in S
      PROVE  IndexIn(S, vb) \in 0..(Cardinality(S) - 1)
  <2> DEFINE B == {v \in S : v < vb}
  <2>1. B \in SUBSET S /\ vb \notin B
    BY CountsAssumption DEF Vbs
  <2> HIDE DEF B
  <2>2. /\ IsFiniteSet(B) /\ Cardinality(B) <= Cardinality(S)
        /\ Cardinality(S) = Cardinality(B) => S = B
    BY <1>1, <2>1, FS_Subset
  <2>3. Cardinality(B) \in Nat
    BY <2>2, FS_CardinalityType
  <2>4. Cardinality(B) \in 0..(Cardinality(S) - 1)
    BY <1>1, <2>1, <2>2, <2>3
  <2> QED
    BY <2>4 DEF IndexIn, B
<1>3. WorkerCount \in Nat \ {0}
  BY CountsAssumption
<1>4. ASSUME NEW vb \in S
      PROVE  \E w \in Workers : vb \in WorkerSlice(S, w)
  <2>1. \E w \in 1..WorkerCount : IndexIn(S, vb) \in Slice(Cardinality(S), WorkerCount, w)
    BY <1>1, <1>2, <1>3, SlicesCover
  <2> QED
    BY <2>1 DEF WorkerSlice, Workers
<1>5. ASSUME NEW v \in Workers, NEW w \in Workers, v # w
      PROVE  WorkerSlice(S, v) \cap WorkerSlice(S, w) = {}
  <2>1. Slice(Cardinality(S), WorkerCount, v) \cap Slice(Cardinality(S), WorkerCount, w) = {}
    BY <1>1, <1>3, <1>5, SlicesDisjoint DEF Workers
  <2> QED
    BY <2>1 DEF WorkerSlice
<1> QED
  BY <1>4, <1>5 DEF WorkerSlice

-----------------------------------------------------------------------------
(* The inductive invariant.                                                 *)

\* The maps of a producer are functions of what it read: assign of the inputs,
\* vbMapping and workerVbucketMap of assign once they have been recomputed.
PlanInv(r) ==
  /\ r.assign = Assignment(r.read)
  /\ r.pc \in {"mapped", "idle"} => r.mapping = NodeWorkerMap(r.assign)
  /\ r.pc = "idle" => r.workers = [w \in Workers |-> WorkerSlice(VbsOf(r.assign, r.home), w)]

IInv ==
  /\ TypeOK
  /\ cluster.keep \subseteq cluster.listed
  /\ \A n \in Nodes : PlanInv(p[n])

\* A producer that has not planned yet.
LEMMA FreshOK ==
  /\ Fresh \in ProducerType /\ PlanInv(Fresh)
  /\ [Fresh EXCEPT !.pc = "boot"] \in ProducerType /\ PlanInv([Fresh EXCEPT !.pc = "boot"])
  BY DEF Fresh, ProducerType, PlanInv, NotRead, View, Owners, Assignment

\* The maps that the planner computes have the types of its fields.
LEMMA MapTypes ==
  ASSUME NEW assign \in [Vbs -> Owners], NEW addr
  PROVE  /\ NodeWorkerMap(assign) \in [Vbs -> SUBSET Workers]
         /\ [w \in Workers |-> WorkerSlice(VbsOf(assign, addr), w)] \in [Workers -> SUBSET Vbs]
  BY DEF NodeWorkerMap, WorkerSlice, VbsOf

\* Changing one producer and neither the cluster nor what was before it.
LEMMA OneProducer ==
  ASSUME IInv, NEW n \in Nodes, NEW r \in ProducerType, PlanInv(r), Becomes(n, r),
         inbox' \in [Nodes -> Nat], budget' \in BudgetType
  PROVE  IInv'
<1>1. p' = [p EXCEPT ![n] = r] /\ cluster' = cluster /\ old' = old
  BY DEF Becomes
<1>2. p' \in [Nodes -> ProducerType] /\ \A m \in Nodes : p'[m] = IF m = n THEN r ELSE p[m]
  BY <1>1 DEF IInv, TypeOK
<1>3. \A m \in Nodes : PlanInv(p'[m])
  BY <1>2 DEF IInv
<1>4. (\A m \in Nodes : PlanInv(p[m]))'
  BY <1>3
<1>5. TypeOK'
  BY <1>1, <1>2 DEF IInv, TypeOK
<1> QED
  BY <1>1, <1>4, <1>5 DEF IInv

\* A planner that has not begun satisfies the inductive invariant
LEMMA InitIInv == Init => IInv
<1> SUFFICES ASSUME Init PROVE IInv
  OBVIOUS
<1>1. PICK keep \in (SUBSET budget.nodes) \ {{}} :
        /\ cluster = [keep |-> keep, listed |-> keep] /\ old = cluster
        /\ inbox = [n \in Nodes |-> 0]
        /\ p = [n \in Nodes |-> IF n \in keep THEN [Fresh EXCEPT !.pc = "boot"] ELSE Fresh]
  BY DEF Init
<1>2. p \in [Nodes -> ProducerType] /\ \A n \in Nodes : PlanInv(p[n])
  BY <1>1, FreshOK
<1>3. budget \in BudgetType
  BY BudgetsAssumption DEF Init
<1>4. keep \subseteq Nodes
  BY <1>1, <1>3 DEF BudgetType
<1>5. TypeOK
  BY <1>1, <1>2, <1>3, <1>4 DEF TypeOK, View
<1> QED
  BY <1>1, <1>2, <1>5 DEF IInv

\* A change of the cluster leaves a producer alone or starts it afresh.
LEMMA ClusterStep ==
  ASSUME IInv, Rebalance \/ Failover \/ Eject
  PROVE  IInv'
<1>1. /\ cluster' \in View /\ old' \in View
      /\ cluster'.keep \subseteq cluster'.listed
  <2>1. CASE Rebalance
    BY <2>1 DEF Rebalance, IInv, TypeOK, View, BudgetType
  <2>2. CASE Failover
    BY <2>2 DEF Failover, IInv, TypeOK, View
  <2>3. CASE Eject
    BY <2>3 DEF Eject, IInv, TypeOK, View
  <2> QED
    BY <2>1, <2>2, <2>3
<1>2. inbox' \in [Nodes -> Nat] /\ budget' \in BudgetType
  <2>1. CASE Rebalance
    BY <2>1 DEF Rebalance, IInv, TypeOK, Change, BudgetType
  <2>2. CASE Failover
    BY <2>2 DEF Failover, IInv, TypeOK, Change, BudgetType
  <2>3. CASE Eject
    BY <2>3 DEF Eject, IInv, TypeOK
  <2> QED
    BY <2>1, <2>2, <2>3
<1>3. p' \in [Nodes -> ProducerType] /\ \A n \in Nodes : PlanInv(p'[n])
  <2>1. CASE Rebalance
    BY <2>1, FreshOK DEF Rebalance, IInv, TypeOK
  <2>2. CASE Failover
    BY <2>2, FreshOK DEF Failover, IInv, TypeOK
  <2>3. CASE Eject
    BY <2>3, FreshOK DEF Eject, IInv, TypeOK
  <2> QED
    BY <2>1, <2>2, <2>3
<1>4. (\A n \in Nodes : PlanInv(p[n]))'
  BY <1>3
<1>5. TypeOK'
  BY <1>1, <1>2, <1>3 DEF TypeOK
<1> QED
  BY <1>1, <1>4, <1>5 DEF IInv

\* A step of a planner keeps its maps functions of what it read.
LEMMA PlannerStep ==
  ASSUME IInv, NEW n \in Nodes, Planner(n)
  PROVE  IInv'
<1>1. p[n] \in ProducerType /\ PlanInv(p[n])
  BY DEF IInv, TypeOK
<1>2. inbox \in [Nodes -> Nat] /\ budget \in BudgetType
  BY DEF IInv, TypeOK
<1>3. Fault => budget' \in BudgetType
  BY <1>2 DEF Fault, BudgetType
<1>4. CASE TopologyChange(n)
  <2> DEFINE r == [p[n] EXCEPT !.pc = "plan"]
  <2>1. r \in ProducerType /\ PlanInv(r)
    BY <1>1 DEF ProducerType, PlanInv
  <2>2. inbox' \in [Nodes -> Nat] /\ budget' \in BudgetType /\ Becomes(n, r)
    BY <1>2, <1>4 DEF TopologyChange
  <2> HIDE DEF r
  <2> QED
    BY <2>1, <2>2, OneProducer
<1>5. CASE VbEventingNodeAssign(n)
  <2>1. PICK c \in Inputs :
          /\ Becomes(n, [p[n] EXCEPT !.pc = "assigned",
                                     !.err = IF c.keep = {} THEN "failed" ELSE "nil",
                                     !.read = c, !.assign = Assignment(c)])
          /\ IF c = cluster THEN UNCHANGED budget ELSE Fault
    BY <1>5, Zenon DEF VbEventingNodeAssign
  <2>2. c \in View
    BY DEF Inputs, View, IInv, TypeOK, View
  <2>3. Assignment(c) \in [Vbs -> Owners]
    BY <2>2, AssignmentKept
  <2> DEFINE r == [p[n] EXCEPT !.pc = "assigned",
                               !.err = IF c.keep = {} THEN "failed" ELSE "nil",
                               !.read = c, !.assign = Assignment(c)]
  <2>4. r \in ProducerType /\ PlanInv(r)
    BY <1>1, <2>2, <2>3, Zenon DEF ProducerType, PlanInv
  <2>5. inbox' \in [Nodes -> Nat] /\ budget' \in BudgetType /\ Becomes(n, r)
    BY <1>2, <1>3, <1>5, <2>1 DEF VbEventingNodeAssign
  <2> HIDE DEF r
  <2> QED
    BY <2>4, <2>5, OneProducer
<1>6. CASE VbEventingNodeAssignFails(n)
  <2> DEFINE r == [p[n] EXCEPT !.pc = "assigned", !.err = "failed"]
  <2>1. r \in ProducerType /\ PlanInv(r)
    BY <1>1, Zenon DEF ProducerType, PlanInv
  <2>2. inbox' \in [Nodes -> Nat] /\ budget' \in BudgetType /\ Becomes(n, r)
    BY <1>2, <1>3, <1>6 DEF VbEventingNodeAssignFails
  <2> HIDE DEF r
  <2> QED
    BY <2>1, <2>2, OneProducer
<1>7. CASE VbNodeWorkerMap(n)
  <2> DEFINE r == [p[n] EXCEPT !.pc = "mapped", !.mapping = NodeWorkerMap(p[n].assign)]
  <2>1. NodeWorkerMap(p[n].assign) \in [Vbs -> SUBSET Workers]
    BY <1>1, MapTypes DEF ProducerType
  <2>2. r \in ProducerType /\ PlanInv(r)
    BY <1>1, <2>1, Zenon DEF ProducerType, PlanInv
  <2>3. inbox' \in [Nodes -> Nat] /\ budget' \in BudgetType /\ Becomes(n, r)
    BY <1>2, <1>7 DEF VbNodeWorkerMap
  <2> HIDE DEF r
  <2> QED
    BY <2>2, <2>3, OneProducer
<1>8. CASE InitWorkerVbMap(n)
  <2> DEFINE W(addr) == [w \in Workers |-> WorkerSlice(VbsOf(p[n].assign, addr), w)]
             r(addr) == [p[n] EXCEPT !.workers = W(addr), !.home = addr,
               !.pc = IF p[n].served = "booting" /\ p[n].err # "nil" THEN "boot" ELSE "idle",
               !.served = IF p[n].err = "nil" THEN "booted" ELSE @]
  <2>1. PICK addr \in {n, Unknown} :
          Becomes(n, r(addr)) /\ IF addr = n THEN UNCHANGED budget ELSE Fault
    BY <1>8, Zenon DEF InitWorkerVbMap
  <2>2. W(addr) \in [Workers -> SUBSET Vbs] /\ addr \in Owners /\ p[n].pc = "mapped"
    BY <1>1, <1>8, MapTypes DEF ProducerType, Owners, InitWorkerVbMap
  <2>3. r(addr) \in ProducerType /\ PlanInv(r(addr))
    BY <1>1, <2>2, Zenon DEF ProducerType, PlanInv
  <2>4. inbox' \in [Nodes -> Nat] /\ budget' \in BudgetType
    BY <1>2, <1>3, <1>8, <2>1 DEF InitWorkerVbMap
  <2> HIDE DEF r
  <2> QED
    BY <2>1, <2>3, <2>4, OneProducer
<1> QED
  BY <1>4, <1>5, <1>6, <1>7, <1>8 DEF Planner

\* Every step of every planner keeps the inductive invariant
LEMMA NextIInv == IInv /\ [Next]_vars => IInv'
<1> SUFFICES ASSUME IInv, [Next]_vars PROVE IInv'
  OBVIOUS
<1>1. CASE Rebalance \/ Failover \/ Eject
  BY <1>1, ClusterStep
<1>2. CASE \E n \in Nodes : Planner(n)
  BY <1>2, PlannerStep
<1>3. CASE UNCHANGED vars
  BY <1>3 DEF vars, IInv, TypeOK, PlanInv
<1> QED
  BY <1>1, <1>2, <1>3 DEF Next

-----------------------------------------------------------------------------
(* What the invariant gives.                                                *)

\* Two nodes that planned from the same keepNodes hold the same plan, and it
\* gives every vbucket to a kept node.
LEMMA AgreedPlans ==
  ASSUME IInv, NEW n \in Nodes, NEW m \in Nodes, Agreed(n), Agreed(m)
  PROVE  /\ p[n].assign = p[m].assign
         /\ cluster.keep # {} => \A vb \in Vbs : p[n].assign[vb] \in cluster.keep
<1>1. /\ p[n].read \in View /\ p[m].read \in View
      /\ PlanInv(p[n]) /\ PlanInv(p[m])
  BY DEF IInv, TypeOK, ProducerType
<1>2. /\ p[n].read.keep = cluster.keep /\ p[m].read.keep = cluster.keep
      /\ p[n].read.keep \subseteq p[n].read.listed /\ p[m].read.keep \subseteq p[m].read.listed
  BY DEF Agreed
<1>3. p[n].assign = Assignment(p[n].read) /\ p[m].assign = Assignment(p[m].read)
  BY <1>1, <1>2 DEF PlanInv
<1>4. Assignment(p[n].read) = Assignment(p[m].read)
  BY <1>1, <1>2, AssignmentAgrees
<1>5. cluster.keep # {} => \A vb \in Vbs : Assignment(p[n].read)[vb] \in p[n].read.keep
  BY <1>1, <1>2, AssignmentKept
<1> QED
  BY <1>2, <1>3, <1>4, <1>5

\* What the workers of an idle node hold.
LEMMA IdleWorkers ==
  ASSUME IInv, NEW n \in Nodes, p[n].pc = "idle", p[n].home = n, NEW w \in Workers
  PROVE  p[n].workers[w] = WorkerSlice(VbsOf(p[n].assign, n), w)
<1>1. PlanInv(p[n])
  BY DEF IInv
<1>2. p[n].workers = [u \in Workers |-> WorkerSlice(VbsOf(p[n].assign, n), u)]
  BY <1>1, Zenon DEF PlanInv
<1> QED
  BY <1>2

\* Nodes that planned from the present keepNodes give no vbucket to two consumers
LEMMA IInvNoDoubleClaim == IInv => NoDoubleClaim
<1> SUFFICES ASSUME IInv, NEW n \in Nodes, NEW m \in Nodes, Agreed(n), Agreed(m),
                    NEW v \in Workers, NEW w \in Workers, <<n, v>> # <<m, w>>
             PROVE  p[n].workers[v] \cap p[m].workers[w] = {}
  BY DEF NoDoubleClaim
<1> DEFINE S == VbsOf(p[n].assign, n)
           T == VbsOf(p[m].assign, m)
<1>1. p[n].workers[v] = WorkerSlice(S, v) /\ p[m].workers[w] = WorkerSlice(T, w)
  BY IdleWorkers DEF Agreed, Planned
<1>2. S \in SUBSET Vbs /\ T \in SUBSET Vbs
  BY DEF VbsOf
<1>3. n # m => S \cap T = {}
  BY AgreedPlans DEF VbsOf
<1>4. n = m => S = T /\ v # w
  OBVIOUS
<1> HIDE DEF S, T
<1>5. WorkerSlice(S, v) \subseteq S /\ WorkerSlice(T, w) \subseteq T
  BY <1>2, WorkersCover
<1>6. v # w => WorkerSlice(S, v) \cap WorkerSlice(S, w) = {}
  BY <1>2, WorkersCover
<1> QED
  BY <1>1, <1>3, <1>4, <1>5, <1>6

\* When every listed node has planned, no vbucket is left without a consumer
LEMMA IInvAllClaimed == IInv => AllClaimed
<1> SUFFICES ASSUME IInv, cluster.keep # {}, \A n \in cluster.listed : Agreed(n), NEW vb \in Vbs
             PROVE  \E n \in cluster.keep, w \in Workers : vb \in p[n].workers[w]
  BY DEF AllClaimed
<1>1. cluster.keep \subseteq cluster.listed /\ cluster.listed \subseteq Nodes
  BY DEF IInv, TypeOK, View
<1>2. PICK k \in cluster.keep : TRUE
  BY <1>1
<1>3. PICK n \in cluster.keep : p[k].assign[vb] = n
  BY <1>1, AgreedPlans
<1>4. p[n].assign[vb] = n
  BY <1>1, <1>3, AgreedPlans
<1> DEFINE S == VbsOf(p[n].assign, n)
<1>5. vb \in S /\ S \in SUBSET Vbs
  BY <1>4 DEF VbsOf
<1>6. \A w \in Workers : p[n].workers[w] = WorkerSlice(S, w)
  BY <1>1, IdleWorkers DEF Agreed, Planned
<1> HIDE DEF S
<1>7. PICK w \in Workers : vb \in WorkerSlice(S, w)
  BY <1>5, WorkersCover
<1> QED
  BY <1>6, <1>7

\* vbMapping and workerVbucketMap say the same of a node's own vbuckets
LEMMA IInvMappingAgrees == IInv => MappingAgrees
<1> SUFFICES ASSUME IInv, NEW n \in Nodes, Planned(n), p[n].home = n,
                    NEW vb \in Vbs, NEW w \in Workers
             PROVE  vb \in p[n].workers[w] <=> p[n].assign[vb] = n /\ p[n].mapping[vb] = {w}
  BY DEF MappingAgrees
<1> DEFINE S == VbsOf(p[n].assign, n)
<1>1. p[n].workers[w] = WorkerSlice(S, w)
  BY IdleWorkers DEF Planned
<1>2. p[n].assign[vb] = n => p[n].mapping[vb] = {u \in Workers : vb \in WorkerSlice(S, u)}
  <2>1. n # NoEntry
    BY NodesAssumption DEF NoEntry
  <2>2. p[n].mapping = NodeWorkerMap(p[n].assign)
    BY Zenon DEF Planned, IInv, PlanInv
  <2> QED
    BY <2>1, <2>2 DEF NodeWorkerMap
<1>3. S \in SUBSET Vbs /\ (vb \in S <=> p[n].assign[vb] = n)
  BY DEF VbsOf
<1> HIDE DEF S
<1>4. WorkerSlice(S, w) \subseteq S
  BY <1>3, WorkersCover
<1>5. \A u \in Workers : u # w => WorkerSlice(S, u) \cap WorkerSlice(S, w) = {}
  BY <1>3, WorkersCover
<1> QED
  BY <1>1, <1>2, <1>3, <1>4, <1>5

\* For any number of nodes, vbuckets and workers, any sequence of topology changes
\* and any failed or stale reads: the nodes that planned from the present keepNodes
\* (vbEventingNodeAssign, initWorkerVbMap) claim no vbucket twice, together they
\* claim every vbucket, and vbMapping agrees with workerVbucketMap.
THEOREM PlannerSafety ==
  Spec => [](TypeOK /\ NoDoubleClaim /\ AllClaimed /\ MappingAgrees)
<1>1. IInv => TypeOK /\ NoDoubleClaim /\ AllClaimed /\ MappingAgrees
  BY IInvNoDoubleClaim, IInvAllClaimed, IInvMappingAgrees DEF IInv
<1> QED
  BY InitIInv, NextIInv, <1>1, PTL DEF Spec
=============================================================================
