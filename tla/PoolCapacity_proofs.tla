-------------------------- MODULE PoolCapacity_proofs --------------------------
(***************************************************************************)
(* Proofs about PoolCapacity and InstanceChoice, for any catalog, prices,  *)
(* pools and numbers of GPUNodes and any kinds and numbers of              *)
(* disturbances.  Where a proof needs induction on natural numbers it      *)
(* takes a least counterexample.                                           *)
(***************************************************************************)
EXTENDS PoolCapacity, WellFoundedInduction, FiniteSetTheorems, TLAPS

--------------------------------------------------------------------------------
(* Numbers *)

LEMMA Least ==
    ASSUME NEW T, T \subseteq Nat, T # {}
    PROVE  \E x \in T : \A y \in T : x <= y
<1>1. PICK x \in T : \A y \in T : ~ (<<y, x>> \in OpToRel(<, Nat))
  BY WFMin, NatLessThanWellFounded, Zenon
<1>2. ASSUME NEW y \in T PROVE x <= y
  <2>1. x \in Nat /\ y \in Nat
    OBVIOUS
  <2>2. y < x => <<y, x>> \in OpToRel(<, Nat)
    BY <2>1 DEF OpToRel
  <2>3. ~ (y < x)
    BY <1>1, <2>2, Zenon
  <2>. QED
    BY <2>1, <2>3
<1>. QED
  BY <1>2

LEMMA MaxOfTwo ==
    ASSUME NEW a \in Int, NEW b \in Int
    PROVE  /\ Max({a, b}) \in Int /\ Max({a, b}) >= a /\ Max({a, b}) >= b
           /\ Max({a, b}) = a \/ Max({a, b}) = b
  BY DEF Max

LEMMA TimesNat ==
    ASSUME NEW a \in Nat, NEW b \in Nat
    PROVE  a * b \in Nat
  OBVIOUS

LEMMA TimesGrows ==
    ASSUME NEW a \in Int, NEW b \in Int, NEW p \in Nat, a <= b
    PROVE  a * p <= b * p /\ p * a <= p * b
  OBVIOUS

\* The least number of instances of the size b that reach a.
LEMMA Ceiling ==
    ASSUME NEW a \in Int, NEW b \in Nat, b > 0
    PROVE  /\ CeilDiv(a, b) \in Int
           /\ CeilDiv(a, b) * b >= a /\ (CeilDiv(a, b) - 1) * b < a
  BY DEF CeilDiv

LEMMA CeilingLeast ==
    ASSUME NEW a \in Int, NEW b \in Nat, b > 0, NEW k \in Int
    PROVE  k * b >= a <=> k >= CeilDiv(a, b)
<1>. DEFINE c == CeilDiv(a, b)
<1>1. c \in Int /\ c * b >= a /\ (c - 1) * b < a
  BY Ceiling
<1>. HIDE DEF c
<1>. SUFFICES k * b >= a <=> k >= c
  BY DEF c
<1>2. c * b \in Int /\ (c - 1) * b \in Int /\ k * b \in Int
  BY <1>1
<1>3. CASE k >= c
  BY <1>1, <1>2, <1>3, TimesGrows
<1>4. CASE k < c
  <2>1. k <= c - 1 /\ c - 1 \in Int
    BY <1>1, <1>4
  <2>2. k * b <= (c - 1) * b
    BY <2>1, TimesGrows
  <2>. QED
    BY <1>1, <1>2, <1>4, <2>2
<1>. QED
  BY <1>1, <1>3, <1>4

--------------------------------------------------------------------------------
(* The capacity that GPUNodes add up to *)

LEMMA OfferedTyped ==
    ASSUME NEW i \in DOMAIN Catalog
    PROVE  Offered(i) \in Amounts
<1>1. /\ Catalog[i].tflops \in Nat /\ Catalog[i].vram \in Nat
      /\ Catalog[i].gpus \in Nat /\ GiB \in Nat
  BY CatalogAssumption
<1>2. /\ Catalog[i].tflops * Catalog[i].gpus \in Nat
      /\ Catalog[i].vram * Catalog[i].gpus * GiB \in Nat
  BY <1>1, TimesNat
<1>. QED
  BY <1>2 DEF Offered, Amounts, Dims

LEMMA ShownTyped ==
    ASSUME NEW o \in NodeObj
    PROVE  Shown(o) \in Amounts
<1>1. Zero \in Amounts
  BY DEF Zero, Amounts
<1>2. CASE o.state = "live" /\ o.type # 0
  <2>1. o.type \in DOMAIN Catalog
    BY <1>2, CatalogAssumption DEF NodeObj
  <2>. QED
    BY <1>2, <2>1, OfferedTyped DEF Shown
<1>3. CASE ~ (o.state = "live" /\ o.type # 0)
  BY <1>1, <1>3 DEF Shown
<1>. QED
  BY <1>2, <1>3

\* The equation of the recursive function in Total, up to m.
SumsUp(g, f, m) ==
    g = [n \in 0..m |->
           IF n = 0 THEN Zero ELSE [d \in Dims |-> g[n - 1][d] + Shown(f[n])[d]]]

LEMMA SumExists ==
    ASSUME NEW f, NEW m \in Nat
    PROVE  \E g : SumsUp(g, f, m)
<1>. DEFINE T == {k \in Nat : ~ \E g : SumsUp(g, f, k)}
<1>. SUFFICES ASSUME m \in T PROVE FALSE
  OBVIOUS
<1>1. PICK x \in T : \A y \in T : x <= y
  BY Least
<1>2. CASE x = 0
  <2>. DEFINE g == [n \in 0..0 |-> Zero]
  <2>1. SumsUp(g, f, 0)
    BY DEF SumsUp
  <2>. QED
    BY <1>2, <2>1
<1>3. CASE x # 0
  <2>1. x - 1 \in Nat /\ x \in Nat
    BY <1>3
  <2>2. x - 1 \notin T
    BY <1>1, <2>1
  <2>3. PICK g : SumsUp(g, f, x - 1)
    BY <2>1, <2>2
  <2>. DEFINE h == [n \in 0..x |-> IF n = x
                                   THEN [d \in Dims |-> g[x - 1][d] + Shown(f[x])[d]]
                                   ELSE g[n]]
  <2>4. ASSUME NEW n \in 0..x
        PROVE  h[n] = IF n = 0 THEN Zero
                      ELSE [d \in Dims |-> h[n - 1][d] + Shown(f[n])[d]]
    <3>1. CASE n = x
      <4>1. h[n - 1] = g[x - 1]
        BY <2>1, <3>1
      <4>. QED
        BY <1>3, <3>1, <4>1
    <3>2. CASE n # x
      <4>1. n \in 0..(x - 1) /\ h[n] = g[n]
        BY <2>1, <3>2
      <4>2. n # 0 => h[n - 1] = g[n - 1]
        BY <2>1, <3>2
      <4>3. g[n] = IF n = 0 THEN Zero
                   ELSE [d \in Dims |-> g[n - 1][d] + Shown(f[n])[d]]
        BY <2>3, <4>1 DEF SumsUp
      <4>. QED
        BY <4>1, <4>2, <4>3
    <3>. QED
      BY <3>1, <3>2
  <2>5. h = [n \in 0..x |-> h[n]]
    OBVIOUS
  <2>. HIDE DEF h
  <2>6. SumsUp(h, f, x)
    BY <2>4, <2>5 DEF SumsUp
  <2>. QED
    BY <2>6
<1>. QED
  BY <1>2, <1>3

LEMMA TotalSum ==
    ASSUME NEW f
    PROVE  \E g : SumsUp(g, f, MaxNodes) /\ Total(f) = g[MaxNodes]
<1>1. Total(f) = (CHOOSE g : SumsUp(g, f, MaxNodes))[MaxNodes]
  BY DEF Total, SumsUp
<1>2. \E g : SumsUp(g, f, MaxNodes)
  BY SumExists, FaultAssumption
<1>. QED
  BY <1>1, <1>2

\* GPUNodes that show no more add up to no more.
LEMMA TotalGrows ==
    ASSUME NEW f \in [Names -> NodeObj], NEW g \in [Names -> NodeObj],
           \A n \in Names, d \in Dims : Shown(f[n])[d] <= Shown(g[n])[d]
    PROVE  /\ Total(f) \in Amounts /\ Total(g) \in Amounts
           /\ \A d \in Dims : Total(f)[d] <= Total(g)[d]
<1>1. PICK a : SumsUp(a, f, MaxNodes) /\ Total(f) = a[MaxNodes]
  BY TotalSum
<1>2. PICK b : SumsUp(b, g, MaxNodes) /\ Total(g) = b[MaxNodes]
  BY TotalSum
<1>. DEFINE Ok(n) == /\ a[n] \in Amounts /\ b[n] \in Amounts
                     /\ \A d \in Dims : a[n][d] <= b[n][d]
            T == {n \in 0..MaxNodes : ~ Ok(n)}
<1>3. ASSUME T # {} PROVE FALSE
  <2>0. T \subseteq Nat
    BY FaultAssumption
  <2>1. PICK x \in T : \A y \in T : x <= y
    BY <1>3, <2>0, Least
  <2>2. x \in 0..MaxNodes /\ MaxNodes \in Nat
    BY FaultAssumption
  <2>3. CASE x = 0
    <3>1. a[0] = Zero /\ b[0] = Zero
      BY <1>1, <1>2, <2>2, <2>3 DEF SumsUp
    <3>. QED
      BY <2>1, <2>3, <3>1 DEF Zero, Amounts
  <2>4. CASE x # 0
    <3>1. x - 1 \in 0..MaxNodes /\ x \in Names
      BY <2>2, <2>4 DEF Names
    <3>2. Ok(x - 1)
      BY <2>1, <2>2, <3>1
    <3>3. Shown(f[x]) \in Amounts /\ Shown(g[x]) \in Amounts
      BY <3>1, ShownTyped
    <3>4. /\ a[x] = [d \in Dims |-> a[x - 1][d] + Shown(f[x])[d]]
          /\ b[x] = [d \in Dims |-> b[x - 1][d] + Shown(g[x])[d]]
      BY <1>1, <1>2, <2>2, <2>4 DEF SumsUp
    <3>5. Ok(x)
      BY <3>1, <3>2, <3>3, <3>4 DEF Amounts
    <3>. QED
      BY <2>1, <3>5
  <2>. QED
    BY <2>3, <2>4
<1>4. Ok(MaxNodes)
  BY <1>3, FaultAssumption
<1>. QED
  BY <1>1, <1>2, <1>4
--------------------------------------------------------------------------------
(* The choice of instances *)

Gaps == [Dims -> Int]

\* NumInstances is the least number of a type that fills the gap in both dimensions.
LEMMA NumberFills ==
    ASSUME NEW i \in DOMAIN Catalog, \A d \in Dims : Offered(i)[d] > 0, NEW gap \in Gaps
    PROVE  /\ NumInstances(i, gap) \in Int
           /\ \A k \in Int : (\A d \in Dims : k * Offered(i)[d] >= gap[d])
                               <=> k >= NumInstances(i, gap)
           /\ Positive(gap) => NumInstances(i, gap) > 0
<1>. DEFINE N == NumInstances(i, gap)
            C(d) == CeilDiv(gap[d], Offered(i)[d])
<1>1. ASSUME NEW d \in Dims
      PROVE  /\ Offered(i)[d] \in Nat /\ Offered(i)[d] > 0 /\ gap[d] \in Int
             /\ C(d) \in Int
             /\ \A k \in Int : k * Offered(i)[d] >= gap[d] <=> k >= C(d)
  <2>1. Offered(i)[d] \in Nat /\ Offered(i)[d] > 0 /\ gap[d] \in Int
    BY OfferedTyped DEF Amounts, Gaps
  <2>. QED
    BY <2>1, Ceiling, CeilingLeast
<1>2. "tflops" \in Dims /\ "vram" \in Dims /\ \A d \in Dims : d = "tflops" \/ d = "vram"
  BY DEF Dims
<1>3. N = Max({C("tflops"), C("vram")})
  <2>1. {C(d) : d \in Dims} = {C("tflops"), C("vram")}
    BY <1>2
  <2>. QED
    BY <2>1 DEF NumInstances
<1>4. C("tflops") \in Int /\ C("vram") \in Int
  BY <1>1, <1>2
<1>. HIDE DEF C
<1>5. /\ N \in Int /\ N >= C("tflops") /\ N >= C("vram")
      /\ N = C("tflops") \/ N = C("vram")
  BY <1>3, <1>4, MaxOfTwo
<1>. HIDE DEF N
<1>6. ASSUME NEW k \in Int
      PROVE  (\A d \in Dims : k * Offered(i)[d] >= gap[d]) <=> k >= N
  <2>1. k >= N <=> k >= C("tflops") /\ k >= C("vram")
    BY <1>4, <1>5
  <2>2. (\A d \in Dims : k * Offered(i)[d] >= gap[d]) <=> \A d \in Dims : k >= C(d)
    BY <1>1
  <2>. QED
    BY <1>2, <2>1, <2>2
<1>7. ASSUME Positive(gap) PROVE N > 0
  <2>1. PICK d \in Dims : gap[d] > 0
    BY <1>7 DEF Positive
  <2>2. 0 * Offered(i)[d] = 0
    BY <1>1
  <2>3. ~ (0 * Offered(i)[d] >= gap[d])
    BY <1>1, <2>1, <2>2
  <2>4. ~ (0 >= N)
    BY <1>6, <2>3
  <2>. QED
    BY <1>5, <2>4
<1>. QED
  BY <1>5, <1>6, <1>7 DEF N

\* What PricesKnown says, of any prices.
Priced(p) == \A i \in DOMAIN p : /\ i \in DOMAIN Catalog /\ p[i] \in Nat
                                 /\ \A d \in Dims : Offered(i)[d] > 0

\* Cheapest is one of the types with its number, and none costs less.
LEMMA CheapestPlan ==
    ASSUME NEW p, Priced(p), DOMAIN p # {}, NEW gap \in Gaps, Positive(gap)
    PROVE  \E i \in DOMAIN p :
             /\ Cheapest(p, gap) = [type |-> i, num |-> NumInstances(i, gap)]
             /\ \A j \in DOMAIN p :
                  p[i] * NumInstances(i, gap) <= p[j] * NumInstances(j, gap)
<1>. DEFINE N(i) == NumInstances(i, gap)
            plans == {[type |-> i, num |-> N(i)] : i \in DOMAIN p}
            Cost(q) == p[q.type] * q.num
            Best(q) == \A r \in plans : \/ Cost(q) < Cost(r)
                                        \/ Cost(q) = Cost(r) /\ q.type <= r.type
            T == {p[i] * N(i) : i \in DOMAIN p}
<1>1. \A i \in DOMAIN p : i \in Nat /\ p[i] \in Nat /\ N(i) \in Nat
  BY NumberFills, CatalogAssumption DEF Priced
<1>2. Cheapest(p, gap) = CHOOSE q \in plans : Best(q)
  BY DEF Cheapest
<1>. HIDE DEF N
<1>3. T \subseteq Nat /\ T # {}
  BY <1>1, TimesNat
<1>4. PICK t \in T : \A u \in T : t <= u
  BY <1>3, Least
<1>. DEFINE U == {i \in DOMAIN p : p[i] * N(i) = t}
<1>5. U \subseteq Nat /\ U # {}
  BY <1>1
<1>6. PICK i \in U : \A j \in U : i <= j
  BY <1>5, Least
<1>7. Best([type |-> i, num |-> N(i)])
  <2>1. ASSUME NEW j \in DOMAIN p
        PROVE  \/ p[i] * N(i) < p[j] * N(j)
               \/ p[i] * N(i) = p[j] * N(j) /\ i <= j
    <3>1. p[j] * N(j) \in T /\ p[j] * N(j) \in Nat /\ t \in Nat /\ t <= p[j] * N(j)
      BY <1>3, <1>4
    <3>2. p[j] * N(j) = t => i <= j
      BY <1>6
    <3>3. p[i] * N(i) = t
      OBVIOUS
    <3>. QED
      BY <3>1, <3>2, <3>3
  <2>. QED
    BY <2>1
<1>8. Cheapest(p, gap) \in plans /\ Best(Cheapest(p, gap))
  BY <1>2, <1>7
<1>9. PICK k \in DOMAIN p : Cheapest(p, gap) = [type |-> k, num |-> N(k)]
  BY <1>8
<1>10. ASSUME NEW j \in DOMAIN p PROVE p[k] * N(k) <= p[j] * N(j)
  <2>1. [type |-> j, num |-> N(j)] \in plans
    OBVIOUS
  <2>2. p[k] * N(k) < p[j] * N(j) \/ p[k] * N(k) = p[j] * N(j)
    BY <1>8, <1>9, <2>1
  <2>3. p[k] * N(k) \in Nat /\ p[j] * N(j) \in Nat
    BY <1>1, TimesNat
  <2>. QED
    BY <2>2, <2>3
<1>. QED
  BY <1>9, <1>10 DEF N

\* Choose answers with a cheapest plan, cut off at the bound of the loop.
LEMMA Chosen ==
    ASSUME NEW p, Priced(p), NEW gap \in Gaps, Positive(gap), Choose(p, gap).type # 0
    PROVE  \E i \in DOMAIN p :
             /\ Choose(p, gap).type = i
             /\ Choose(p, gap).num \in 1..MaxPerLoop
             /\ Choose(p, gap).num <= NumInstances(i, gap)
             /\ Choose(p, gap).num < MaxPerLoop => Choose(p, gap).num = NumInstances(i, gap)
             /\ \A j \in DOMAIN p :
                  p[i] * NumInstances(i, gap) <= p[j] * NumInstances(j, gap)
<1>1. DOMAIN p # {}
  BY DEF Choose
<1>2. PICK i \in DOMAIN p :
        /\ Cheapest(p, gap) = [type |-> i, num |-> NumInstances(i, gap)]
        /\ \A j \in DOMAIN p : p[i] * NumInstances(i, gap) <= p[j] * NumInstances(j, gap)
  BY <1>1, CheapestPlan
<1>3. NumInstances(i, gap) \in Int /\ NumInstances(i, gap) > 0
  BY NumberFills DEF Priced
<1>4. /\ Choose(p, gap).type = i
      /\ Choose(p, gap).num = IF NumInstances(i, gap) > MaxPerLoop
                              THEN MaxPerLoop ELSE NumInstances(i, gap)
  BY <1>1, <1>2 DEF Choose
<1>5. MaxPerLoop \in Nat \ {0}
  BY CatalogAssumption
<1>. QED
  BY <1>2, <1>3, <1>4, <1>5
LEMMA PricesTyped ==
    ASSUME NEW c \in Configs
    PROVE  Priced(Prices(c.reqs, Default)) /\ DOMAIN Prices(c.reqs, Default) \subseteq 1..Len(Catalog)
<1>. DEFINE R == Region(c.reqs, Default)
            K == CapacityType(c.reqs)
            E == Eligible(c.reqs)
            p == Prices(c.reqs, Default)
<1>1. E \subseteq DOMAIN Catalog
  BY DEF Eligible
<1>2. R \in DOMAIN Ratio /\ Ratio[R] \in Nat
  BY ConfigAssumption, CatalogAssumption
<1>3. ASSUME NEW i \in DOMAIN Catalog PROVE GetInstancePricing(i, R, K) \in Nat
  <2>1. Catalog[i].cost \in Nat
    BY CatalogAssumption
  <2>2. Catalog[i].cost * Ratio[R] \in Nat
    BY <1>2, <2>1, TimesNat
  <2>3. (IF K = "Spot" THEN 3 ELSE 10) \in Nat
    OBVIOUS
  <2>. HIDE DEF R, K
  <2>. QED
    BY <2>2, <2>3, TimesNat DEF GetInstancePricing
<1>4. /\ \A i \in DOMAIN p : /\ i \in E /\ \A d \in Dims : Offered(i)[d] > 0
                             /\ p[i] = GetInstancePricing(i, R, K)
  <2>. HIDE DEF E, R, K
  <2>1. p = [i \in IF Zones(c.reqs) = <<>> THEN {} ELSE Usable(c.reqs) |->
               GetInstancePricing(i, R, K)]
    BY DEF Prices, R, K
  <2>2. \A i \in Usable(c.reqs) : i \in E /\ \A d \in Dims : Offered(i)[d] > 0
    BY DEF Usable, E
  <2>. HIDE DEF p
  <2>. QED
    BY <2>1, <2>2
<1>. HIDE DEF E, R, K, p
<1>5. Priced(p) /\ DOMAIN p \subseteq 1..Len(Catalog)
  BY <1>1, <1>3, <1>4, CatalogAssumption DEF Priced
<1>. QED
  BY <1>5 DEF p

--------------------------------------------------------------------------------
(* Types *)

Workers == [pc : Steps, obj : Status, gap : Gaps, type : 0..Len(Catalog),
            num : 0..MaxPerLoop, todo : SUBSET Names, failed : BOOLEAN]

LEMMA Empties ==
    /\ NoStatus \in Status /\ NoNode \in NodeObj /\ Zero \in Amounts /\ Zero \in Gaps
    /\ Idle \in Workers /\ Idle.pc = "idle"
<1>1. Zero \in Amounts /\ Zero \in Gaps
  BY DEF Zero, Amounts, Gaps
<1>2. NoStatus \in Status
  BY <1>1 DEF NoStatus, Status
<1>3. NoNode \in NodeObj
  BY CatalogAssumption DEF NoNode, NodeObj
<1>4. 0 \in 0..Len(Catalog) /\ 0 \in 0..MaxPerLoop /\ {} \in SUBSET Names
  BY CatalogAssumption
<1>5. Idle \in Workers /\ Idle.pc = "idle"
  BY <1>1, <1>2, <1>4 DEF Idle, Workers, Steps
<1>. QED
  BY <1>1, <1>2, <1>3, <1>5

LEMMA TypeParts ==
    TypeOK <=> /\ config \in Configs /\ DOMAIN prices \subseteq 1..Len(Catalog)
               /\ status \in Status /\ seen \in Status
               /\ node \in [Names -> NodeObj] /\ cache \in [Names -> NodeObj]
               /\ queue \in BOOLEAN /\ deleted \in BOOLEAN /\ w \in Workers
               /\ waste \in Nat /\ left \in 0..MaxFaults[config]
  BY DEF TypeOK, Workers, Gaps

LEMMA TypePartsNext ==
    TypeOK' <=> /\ config' \in Configs /\ DOMAIN prices' \subseteq 1..Len(Catalog)
                /\ status' \in Status /\ seen' \in Status
                /\ node' \in [Names -> NodeObj] /\ cache' \in [Names -> NodeObj]
                /\ queue' \in BOOLEAN /\ deleted' \in BOOLEAN /\ w' \in Workers
                /\ waste' \in Nat /\ left' \in 0..MaxFaults[config']
  BY DEF TypeOK, Workers, Gaps

LEMMA FaultBound ==
    ASSUME TypeOK
    PROVE  MaxFaults[config] \in Nat
  BY FaultAssumption DEF TypeOK

LEMMA Spent ==
    ASSUME TypeOK, NEW f, Spend(f)
    PROVE  left' = left - 1 /\ left' \in 0..MaxFaults[config]
  BY FaultBound DEF TypeOK, Spend

LEMMA RefreshedTyped ==
    ASSUME TypeOK
    PROVE  Refreshed \in Status /\ Refreshed.total = Total(cache)
<1>1. cache \in [Names -> NodeObj] /\ seen \in Status
  BY TypeParts
<1>2. Total(cache) \in Amounts
  <2>1. \A n \in Names, d \in Dims : Shown(cache[n])[d] <= Shown(cache[n])[d]
    BY <1>1, ShownTyped DEF Amounts
  <2>. QED
    BY <1>1, <2>1, TotalGrows
<1>3. Cardinality(Live(cache)) \in Nat
  <2>1. IsFiniteSet(Names)
    BY FS_Interval, FaultAssumption DEF Names
  <2>2. Live(cache) \subseteq Names
    BY DEF Live
  <2>. QED
    BY <2>1, <2>2, FS_Subset, FS_CardinalityType
<1>4. (IF Live(cache) = {} THEN seen.count ELSE Cardinality(Live(cache))) \in Nat
  BY <1>1, <1>3 DEF Status
<1>5. (\A n \in Live(cache) : cache[n].ready) \in BOOLEAN
  OBVIOUS
<1>. QED
  BY <1>2, <1>4, <1>5, Zenon DEF Refreshed, Status
LEMMA GapTyped ==
    ASSUME TypeOK
    PROVE  Gap(w.obj) \in Gaps
<1>1. config \in Configs /\ w.obj.total \in Amounts
  BY TypeParts DEF Workers, Status
<1>2. config.min \in Amounts \cup {None} /\ config.warm \in Amounts \cup {None}
  BY <1>1, ConfigAssumption
<1>3. CASE config.min # None /\ Positive([d \in Dims |-> config.min[d] - w.obj.total[d]])
  <2>1. [d \in Dims |-> config.min[d] - w.obj.total[d]] \in Gaps
    BY <1>1, <1>2, <1>3 DEF Amounts, Gaps
  <2>. QED
    BY <1>3, <2>1 DEF Gap
<1>4. CASE ~ (config.min # None /\ Positive([d \in Dims |-> config.min[d] - w.obj.total[d]]))
  <2>1. config.warm # None => config.warm \in Gaps
    BY <1>2 DEF Amounts, Gaps
  <2>. QED
    BY <1>4, <2>1, Empties DEF Gap
<1>. QED
  BY <1>3, <1>4

\* The decision: nothing is asked for, or what Choose answers for the gap.
Decides(gap, c) ==
    /\ Positive(gap) /\ ~ MaxReached(w.obj) /\ c.type # 0
    /\ w' = [w EXCEPT !.pc = "create", !.gap = gap, !.type = c.type, !.num = c.num,
                      !.todo = {n \in Unused : n < Min(Unused) + c.num}]
    /\ waste' = IF Justifies(c.num - 1, c.type, Total(node)) THEN waste ELSE waste + 1
    /\ UNCHANGED queue

LEMMA ScaleFacts ==
    ASSUME ScaleUp
    PROVE  /\ \/ w' = Idle /\ UNCHANGED waste /\ (UNCHANGED queue \/ queue' = TRUE)
              \/ Decides(Gap(w.obj), Choose(prices, Gap(w.obj)))
           /\ UNCHANGED <<config, prices, status, seen, node, cache, deleted, left>>
           /\ w.pc = "scale"
  BY DEF ScaleUp, Decides, Return, Retry

\* What the worker has decided when it starts to create.
LEMMA Decided ==
    ASSUME TypeOK, PricesKnown, NEW gap \in Gaps, Decides(gap, Choose(prices, gap))
    PROVE  /\ w' \in Workers /\ w'.pc = "create" /\ w'.gap = gap /\ w'.failed = w.failed
           /\ w'.type \in DOMAIN prices /\ w'.num \in 1..MaxPerLoop
           /\ w'.num <= NumInstances(w'.type, gap)
           /\ w'.num < MaxPerLoop => w'.num = NumInstances(w'.type, gap)
           /\ \A j \in DOMAIN prices : prices[w'.type] * NumInstances(w'.type, gap)
                                         <= prices[j] * NumInstances(j, gap)
           /\ w'.type = Choose(prices, gap).type /\ w'.num = Choose(prices, gap).num
<1>. DEFINE c == Choose(prices, gap)
            todo == {n \in Unused : n < Min(Unused) + c.num}
<1>1. Priced(prices)
  BY DEF PricesKnown, Priced
<1>2. Positive(gap) /\ c.type # 0
  BY DEF Decides
<1>3. /\ c.type \in DOMAIN prices /\ c.num \in 1..MaxPerLoop
      /\ c.num <= NumInstances(c.type, gap)
      /\ c.num < MaxPerLoop => c.num = NumInstances(c.type, gap)
      /\ \A j \in DOMAIN prices : prices[c.type] * NumInstances(c.type, gap)
                                    <= prices[j] * NumInstances(j, gap)
  BY <1>1, <1>2, Chosen
<1>4. /\ w' = [w EXCEPT !.pc = "create", !.gap = gap, !.type = c.type, !.num = c.num,
                        !.todo = todo]
  BY DEF Decides
<1>5. todo \in SUBSET Names
  BY DEF Unused
<1>6. c.type \in 0..Len(Catalog) /\ c.num \in 0..MaxPerLoop /\ w \in Workers
  BY <1>3, TypeParts, CatalogAssumption DEF PricesKnown
<1>. HIDE DEF todo, c
<1>7. /\ w' \in Workers /\ w'.pc = "create" /\ w'.gap = gap /\ w'.failed = w.failed
      /\ w'.type = c.type /\ w'.num = c.num
  BY <1>4, <1>5, <1>6 DEF Workers, Steps
<1>. QED
  BY <1>3, <1>7 DEF c

\* A step of one goroutine.
LEMMA CreateFacts ==
    ASSUME TypeOK, NEW n \in Names, Create(n)
    PROVE  /\ node' \in [Names -> NodeObj] /\ w' \in Workers
           /\ w'.pc = "create" /\ w'.gap = w.gap /\ w'.type = w.type /\ w'.num = w.num
           /\ w.pc = "create"
           /\ (w'.failed = w.failed /\ UNCHANGED left) \/ Spend("create")
           /\ UNCHANGED <<config, prices, status, seen, cache, queue, waste, deleted>>
<1>1. /\ w.pc = "create" /\ n \in w.todo
      /\ UNCHANGED <<config, prices, status, seen, cache, queue, waste, deleted>>
  BY DEF Create
<1>2. w \in Workers /\ node \in [Names -> NodeObj]
  BY TypeParts
<1>3. w.type \in 0..Len(Catalog) /\ 0 \in 0..Len(Catalog)
  BY <1>2, CatalogAssumption DEF Workers
<1>4. ASSUME NEW i \in 0..Len(Catalog)
      PROVE  [NoNode EXCEPT !.state = "live", !.type = i] \in NodeObj
  BY Empties DEF NodeObj
<1>5. [NoNode EXCEPT !.state = "gone"] \in NodeObj
  BY Empties DEF NodeObj
<1>6. \E o \in NodeObj : node' = [node EXCEPT ![n] = o]
  <2>1. CASE node' = [node EXCEPT ![n] = [NoNode EXCEPT !.state = "live", !.type = w.type]]
    BY <1>3, <1>4, <2>1
  <2>2. CASE \E o \in {[NoNode EXCEPT !.state = "gone"]}
                        \cup {[NoNode EXCEPT !.state = "live", !.type = i] :
                                i \in {0, w.type}} :
               node' = [node EXCEPT ![n] = o]
    BY <1>3, <1>4, <1>5, <2>2
  <2>. QED
    BY <2>1, <2>2 DEF Create
<1>7. node' \in [Names -> NodeObj]
  BY <1>2, <1>6
<1>8. w.todo \ {n} \in SUBSET Names
  BY <1>2 DEF Workers
<1>. DEFINE v == [w EXCEPT !.todo = @ \ {n}]
            u == [w EXCEPT !.todo = @ \ {n}, !.failed = TRUE]
<1>9. /\ v \in Workers /\ v.pc = w.pc /\ v.gap = w.gap /\ v.type = w.type /\ v.num = w.num
      /\ v.failed = w.failed
  BY <1>2, <1>8 DEF Workers
<1>10. /\ u \in Workers /\ u.pc = w.pc /\ u.gap = w.gap /\ u.type = w.type /\ u.num = w.num
  BY <1>2, <1>8 DEF Workers
<1>11. (w' = v /\ UNCHANGED left) \/ (w' = u /\ Spend("create"))
  BY DEF Create
<1>. HIDE DEF v, u
<1>. QED
  BY <1>1, <1>7, <1>9, <1>10, <1>11
LEMMA TypeStep ==
    ASSUME TypeOK, PricesKnown, [Next]_vars
    PROVE  TypeOK' /\ PricesKnown' /\ UNCHANGED <<config, prices>>
<1>. USE TypeParts
<1>i. Idle \in Workers
  BY Empties
<1>k. MaxFaults[config] \in Nat
  BY FaultBound
<1>pc. \A p \in Steps : [w EXCEPT !.pc = p] \in Workers
  BY DEF Workers
<1>0. CASE UNCHANGED vars
  BY <1>0, TypePartsNext DEF vars, PricesKnown
<1>1. CASE Start
  <2>1. [Idle EXCEPT !.pc = "refresh", !.obj = seen] \in Workers
    BY <1>i DEF Workers, Steps
  <2>2. UNCHANGED left \/ Spend("late")
    BY <1>1 DEF Start
  <2>. QED
    BY <1>1, <2>1, <2>2, Spent, TypePartsNext DEF Start, PricesKnown
<1>2. CASE Refresh
  <2>1. w' \in Workers /\ queue' \in BOOLEAN /\ status' \in Status
    BY <1>2, <1>i, <1>pc, RefreshedTyped DEF Refresh, Retry, Steps
  <2>. QED
    BY <1>2, <2>1, TypePartsNext DEF Refresh, PricesKnown
<1>3. CASE ScaleUp
  <2>. DEFINE gap == Gap(w.obj)
  <2>1. gap \in Gaps
    BY GapTyped
  <2>. HIDE DEF gap
  <2>2. CASE w' = Idle /\ UNCHANGED waste /\ (UNCHANGED queue \/ queue' = TRUE)
    BY <1>3, <1>i, <2>2, ScaleFacts, TypePartsNext DEF PricesKnown
  <2>3. CASE Decides(gap, Choose(prices, gap))
    <3>1. w' \in Workers
      BY <2>1, <2>3, Decided
    <3>2. waste' \in Nat /\ UNCHANGED queue
      BY <2>3 DEF Decides
    <3>. QED
      BY <1>3, <3>1, <3>2, ScaleFacts, TypePartsNext DEF PricesKnown
  <2>. QED
    BY <1>3, <2>2, <2>3, ScaleFacts DEF gap
<1>4. CASE WaitAll
  <2>1. w' \in Workers /\ queue' \in BOOLEAN
    BY <1>4, <1>i, <1>pc DEF WaitAll, Retry, Steps
  <2>. QED
    BY <1>4, <2>1, TypePartsNext DEF WaitAll, PricesKnown
<1>5. CASE RefreshAgain
  <2>1. w' \in Workers /\ queue' \in BOOLEAN /\ status' \in Status
    BY <1>5, <1>i, RefreshedTyped DEF RefreshAgain, Retry
  <2>2. UNCHANGED left \/ Spend("behind")
    BY <1>5 DEF RefreshAgain
  <2>. QED
    BY <1>5, <2>1, <2>2, Spent, TypePartsNext DEF RefreshAgain, PricesKnown
<1>6. ASSUME NEW n \in Names, Create(n)
      PROVE  TypeOK' /\ PricesKnown' /\ UNCHANGED <<config, prices>>
  BY <1>6, CreateFacts, Spent, TypePartsNext DEF PricesKnown
<1>7. CASE PoolEvent
  BY <1>7, TypePartsNext DEF PoolEvent, PricesKnown
<1>8. CASE Abort
  BY <1>8, <1>i, Spent, TypePartsNext DEF Abort, Retry, PricesKnown
<1>9. CASE Crash
  BY <1>9, <1>i, Spent, TypePartsNext DEF Crash, PricesKnown
<1>10. ASSUME NEW n \in Names, NodeEvent(n)
       PROVE  TypeOK' /\ PricesKnown' /\ UNCHANGED <<config, prices>>
  BY <1>10, TypePartsNext DEF NodeEvent, PricesKnown
<1>11. ASSUME NEW n \in Names, Ready(n)
       PROVE  TypeOK' /\ PricesKnown' /\ UNCHANGED <<config, prices>>
  <2>1. node' = [node EXCEPT ![n] = [node[n] EXCEPT !.ready = TRUE]]
    BY <1>11 DEF Ready
  <2>2. [node[n] EXCEPT !.ready = TRUE] \in NodeObj
    BY DEF NodeObj
  <2>. QED
    BY <1>11, <2>1, <2>2, TypePartsNext DEF Ready, PricesKnown
<1>12. ASSUME NEW n \in Names, DeleteNode(n)
       PROVE  TypeOK' /\ PricesKnown' /\ UNCHANGED <<config, prices>>
  <2>1. node' = [node EXCEPT ![n] = [node[n] EXCEPT !.state = "gone"]]
    BY <1>12 DEF DeleteNode
  <2>2. [node[n] EXCEPT !.state = "gone"] \in NodeObj
    BY DEF NodeObj
  <2>. QED
    BY <1>12, <2>1, <2>2, Spent, TypePartsNext DEF DeleteNode, PricesKnown
<1>. QED
  BY <1>0, <1>1, <1>2, <1>3, <1>4, <1>5, <1>6, <1>7, <1>8, <1>9, <1>10, <1>11, <1>12
     DEF Next, WorkerStep

--------------------------------------------------------------------------------
(* The plan *)

\* What Fills says, for any gap.
LEMMA FillsFrom ==
    ASSUME TypeOK, PricesKnown, NEW i \in DOMAIN prices, NEW k \in Int
    PROVE  Fills(i, k) <=> k >= NumInstances(i, w.gap)
<1>1. w.gap \in Gaps /\ i \in DOMAIN Catalog /\ \A d \in Dims : Offered(i)[d] > 0
  BY TypeParts DEF Workers, PricesKnown
<1>. QED
  BY <1>1, NumberFills DEF Fills

LEMMA BoundTyped ==
    ASSUME TypeOK
    PROVE  Bound \in Int
<1>1. w.gap \in Gaps
  BY TypeParts DEF Workers
<1>2. {w.gap[d] : d \in Dims} = {w.gap["tflops"], w.gap["vram"]}
  BY DEF Dims
<1>3. w.gap["tflops"] \in Int /\ w.gap["vram"] \in Int
  BY <1>1 DEF Gaps, Dims
<1>. QED
  BY <1>2, <1>3, MaxOfTwo DEF Bound

\* A plan as Choose makes it.
PlanMade ==
    /\ w.type \in DOMAIN prices /\ w.num \in 1..MaxPerLoop
    /\ w.num <= NumInstances(w.type, w.gap)
    /\ w.num < MaxPerLoop => w.num = NumInstances(w.type, w.gap)
    /\ \A j \in DOMAIN prices : prices[w.type] * NumInstances(w.type, w.gap)
                                  <= prices[j] * NumInstances(j, w.gap)

LEMMA PlanFound == TypeOK /\ PricesKnown /\ PlanMade => PlanOptimal
<1>. SUFFICES ASSUME TypeOK, PricesKnown, PlanMade PROVE PlanOptimal
  OBVIOUS
<1>. USE DEF PlanMade
<1>. DEFINE N(i) == NumInstances(i, w.gap)
<1>1. \A i \in DOMAIN prices : N(i) \in Int /\ prices[i] \in Nat
  BY TypeParts, NumberFills DEF Workers, PricesKnown
<1>2. \A i \in DOMAIN prices, k \in Int : Fills(i, k) <=> k >= N(i)
  BY FillsFrom
<1>3. w.num \in Int /\ w.num - 1 \in Int /\ w.num > 0 /\ MaxPerLoop \in Int
      /\ w.num <= MaxPerLoop
  BY CatalogAssumption
<1>. HIDE DEF N
<1>4. w.num <= N(w.type) /\ (w.num < MaxPerLoop => w.num = N(w.type))
  BY DEF N
<1>5. w.num = MaxPerLoop \/ Fills(w.type, w.num)
  BY <1>1, <1>2, <1>3, <1>4
<1>6. ~ Fills(w.type, w.num - 1)
  BY <1>1, <1>2, <1>3, <1>4
<1>7. ASSUME w.num < MaxPerLoop, NEW i \in DOMAIN prices, NEW k \in 0..Bound, Fills(i, k)
      PROVE  prices[i] * k >= prices[w.type] * w.num
  <2>1. k \in Int /\ k >= N(i)
    BY <1>2, <1>7, BoundTyped
  <2>2. prices[i] * N(i) <= prices[i] * k
    BY <1>1, <2>1, TimesGrows
  <2>3. prices[w.type] * w.num <= prices[i] * N(i)
    BY <1>4, <1>7 DEF N
  <2>4. prices[w.type] * w.num \in Int /\ prices[i] * N(i) \in Int /\ prices[i] * k \in Int
    BY <1>1, <1>3, <2>1
  <2>. QED
    BY <2>2, <2>3, <2>4
<1>. QED
  BY <1>3, <1>5, <1>6, <1>7 DEF PlanOptimal
LEMMA PlanFoundNext == TypeOK' /\ PricesKnown' /\ PlanMade' => PlanOptimal'
  BY PlanFound, PTL

\* The plan of a round stays as it is until the round has ended.
LEMMA PlanKept ==
    ASSUME PlanOptimal, UNCHANGED prices,
           w'.pc = "create" => /\ w.pc = "create" /\ w'.gap = w.gap
                               /\ w'.type = w.type /\ w'.num = w.num
    PROVE  PlanOptimal'
  BY DEF PlanOptimal, Fills, Bound

LEMMA PlanStep ==
    ASSUME CapacityInv, [Next]_vars
    PROVE  PlanOptimal' /\ FailedCreates'
<1>1. TypeOK /\ PricesKnown /\ PlanOptimal /\ FailedCreates /\ w \in Workers
  BY TypeParts DEF CapacityInv
<1>2. TypeOK' /\ PricesKnown' /\ UNCHANGED <<config, prices>>
  BY <1>1, TypeStep
<1>i. Idle.pc = "idle" /\ Idle.failed = FALSE
  BY DEF Idle
<1>3. CASE w' = w \/ w' = Idle
  BY <1>1, <1>2, <1>3, <1>i, PlanKept DEF FailedCreates
<1>4. CASE \E p \in Steps \ {"create"} : w' = [w EXCEPT !.pc = p] /\ ~ w.failed
  BY <1>1, <1>2, <1>4, PlanKept DEF FailedCreates, Workers
<1>5. CASE Start
  <2>1. w'.pc = "refresh" /\ w'.failed = FALSE
    BY <1>5 DEF Start, Idle
  <2>. QED
    BY <1>1, <1>2, <2>1, PlanKept DEF FailedCreates
<1>6. ASSUME NEW n \in Names, Create(n) PROVE PlanOptimal' /\ FailedCreates'
  BY <1>1, <1>2, <1>6, CreateFacts, PlanKept DEF FailedCreates
<1>7. CASE ScaleUp
  <2>. DEFINE gap == Gap(w.obj)
  <2>1. gap \in Gaps
    BY <1>1, GapTyped
  <2>. HIDE DEF gap
  <2>2. CASE Decides(gap, Choose(prices, gap))
    <3>1. PlanMade' /\ w'.pc = "create"
      BY <1>1, <1>2, <2>1, <2>2, Decided DEF PlanMade
    <3>. QED
      BY <1>2, <3>1, PlanFoundNext DEF FailedCreates
  <2>. QED
    BY <1>3, <1>7, <2>2, ScaleFacts DEF gap
<1>8. CASE Refresh
  BY <1>1, <1>3, <1>4, <1>8 DEF Refresh, Retry, FailedCreates, Steps
<1>9. CASE WaitAll
  BY <1>3, <1>4, <1>9 DEF WaitAll, Retry, Steps
<1>10. CASE UNCHANGED vars \/ PoolEvent \/ Abort \/ Crash \/ RefreshAgain
  BY <1>3, <1>10 DEF vars, PoolEvent, Abort, Crash, RefreshAgain, Retry
<1>11. ASSUME NEW n \in Names, NodeEvent(n) \/ Ready(n) \/ DeleteNode(n)
       PROVE  PlanOptimal' /\ FailedCreates'
  BY <1>3, <1>11 DEF NodeEvent, Ready, DeleteNode
<1>. QED
  BY <1>5, <1>6, <1>7, <1>8, <1>9, <1>10, <1>11 DEF Next, WorkerStep

--------------------------------------------------------------------------------
(* Superfluous rounds *)

\* A disturbance pays for one of them; else a clean state has to stay clean.
LEMMA Paid ==
    ASSUME CapacityInv, UNCHANGED <<config, waste>>,
           (\E f : Spend(f)) \/ (UNCHANGED left /\ (Clean => Clean'))
    PROVE  WastePaid'
<1>1. TypeOK /\ WastePaid /\ MaxFaults[config] \in Nat /\ waste \in Nat
      /\ left \in 0..MaxFaults[config]
  BY FaultBound, TypeParts DEF CapacityInv
<1>2. CASE \E f : Spend(f)
  <2>1. left' = left - 1
    BY <1>2 DEF Spend
  <2>2. waste <= MaxFaults[config] - left
    BY <1>1 DEF WastePaid
  <2>. QED
    BY <1>1, <2>1, <2>2 DEF WastePaid
<1>3. CASE UNCHANGED left /\ (Clean => Clean')
  BY <1>1, <1>3 DEF WastePaid
<1>. QED
  BY <1>2, <1>3

\* A decision that overlooks no GPUNode asks for what the pool lacks.
LEMMA CleanJustifies ==
    ASSUME TypeOK, PricesKnown, Enough(w.obj.total),
           NEW gap \in Gaps, gap = Gap(w.obj), Decides(gap, Choose(prices, gap))
    PROVE  UNCHANGED waste
<1>. DEFINE c == Choose(prices, gap)
            k == c.num - 1
            i == c.type
            real == Total(node)
            o == w.obj.total
<1>1. /\ i \in DOMAIN prices /\ c.num \in 1..MaxPerLoop /\ c.num <= NumInstances(i, gap)
  BY Decided
<1>2. k \in Int /\ k < NumInstances(i, gap) /\ NumInstances(i, gap) \in Int
  BY <1>1, NumberFills, CatalogAssumption DEF PricesKnown
<1>3. i \in DOMAIN Catalog /\ Offered(i) \in Amounts
  BY <1>1, OfferedTyped DEF PricesKnown
<1>4. PICK d \in Dims : ~ (k * Offered(i)[d] >= gap[d])
  BY <1>1, <1>2, <1>3, NumberFills DEF PricesKnown
<1>5. k * Offered(i)[d] \in Int /\ gap[d] \in Int /\ k * Offered(i)[d] < gap[d]
  BY <1>2, <1>3, <1>4 DEF Amounts, Gaps
<1>6. /\ real \in Amounts /\ o \in Amounts /\ \A e \in Dims : real[e] <= o[e]
  <2>1. node \in [Names -> NodeObj] /\ w.obj \in Status
    BY TypeParts DEF Workers
  <2>2. \A n \in Names, e \in Dims : Shown(node[n])[e] <= Shown(node[n])[e]
    BY <2>1, ShownTyped DEF Amounts
  <2>. QED
    BY <2>1, <2>2, TotalGrows DEF Enough, Status
<1>7. /\ config.min \in Amounts \cup {None} /\ config.warm \in Amounts \cup {None}
      /\ config.max \in Amounts \cup {None}
  BY TypeParts, ConfigAssumption
<1>8. Positive(gap) /\ ~ MaxReached(w.obj)
  BY DEF Decides
<1>9. waste' = IF Justifies(k, i, real) THEN waste ELSE waste + 1
  BY DEF Decides
<1>. HIDE DEF k, i, c, real, o
<1>10. config.max = None \/ \A e \in Dims : real[e] < config.max[e]
  BY <1>6, <1>7, <1>8 DEF MaxReached, Amounts, o
<1>11. \/ config.min # None /\ real[d] + k * Offered(i)[d] < config.min[d]
       \/ config.warm # None /\ k * Offered(i)[d] < config.warm[d]
  <2>. DEFINE toMin == [e \in Dims |-> config.min[e] - o[e]]
  <2>1. \/ config.min # None /\ gap = toMin
        \/ config.warm # None /\ gap = config.warm
        \/ gap = Zero
    BY DEF Gap, o
  <2>2. CASE config.min # None /\ gap = toMin
    <3>1. gap[d] = config.min[d] - o[d] /\ config.min[d] \in Nat /\ o[d] \in Nat
          /\ real[d] \in Nat /\ real[d] <= o[d]
      BY <1>6, <1>7, <2>2 DEF Amounts
    <3>. QED
      BY <1>5, <2>2, <3>1
  <2>3. CASE config.warm # None /\ gap = config.warm
    BY <1>5, <2>3
  <2>4. CASE gap = Zero
    BY <1>8, <2>4 DEF Positive, Zero
  <2>. QED
    BY <2>1, <2>2, <2>3, <2>4
<1>12. Justifies(k, i, real)
  BY <1>10, <1>11 DEF Justifies
<1>. QED
  BY <1>9, <1>12
LEMMA WasteStep ==
    ASSUME CapacityInv, [Next]_vars
    PROVE  WastePaid'
<1>1. /\ TypeOK /\ PricesKnown /\ FailedCreates /\ WastePaid
      /\ node \in [Names -> NodeObj] /\ cache \in [Names -> NodeObj] /\ w \in Workers
      /\ status \in Status /\ seen \in Status
  BY TypeParts DEF CapacityInv
<1>t. TypeOK' /\ UNCHANGED <<config, prices>> /\ node' \in [Names -> NodeObj]
  BY <1>1, TypeStep, TypePartsNext
<1>i. Idle.pc = "idle"
  BY DEF Idle
<1>s. \A n \in Names, d \in Dims : Shown(node[n])[d] \in Nat /\ Shown(cache[n])[d] \in Nat
                                    /\ Shown(node'[n])[d] \in Nat
  BY <1>1, <1>t, ShownTyped DEF Amounts
<1>r. Covered => Enough(Total(cache))
  BY <1>1, TotalGrows DEF Covered, Enough
<1>2. CASE UNCHANGED vars \/ PoolEvent
  <2>1. UNCHANGED <<config, status, node, cache, w, waste, left>>
    BY <1>2 DEF vars, PoolEvent
  <2>2. Clean => Clean'
    BY <2>1 DEF Clean, Covered, Enough
  <2>. QED
    BY <2>1, <2>2, Paid
<1>3. CASE Start
  <2>1. /\ UNCHANGED <<status, node, cache, waste>> /\ w.pc = "idle"
        /\ (seen = status /\ UNCHANGED left) \/ Spend("late")
    BY <1>3 DEF Start
  <2>2. w'.pc = "refresh" /\ w'.obj = seen
    BY <1>3 DEF Start, Idle
  <2>3. seen = status => (Clean => Clean')
    BY <2>1, <2>2 DEF Clean, Covered, Enough
  <2>. QED
    BY <1>t, <2>1, <2>3, Paid
<1>4. CASE Refresh
  <2>1. w.pc = "refresh" /\ UNCHANGED <<node, cache, waste, left>>
    BY <1>4 DEF Refresh
  <2>2. ASSUME Clean PROVE Clean'
    <3>1. Covered /\ Enough(status.total) /\ Enough(w.obj.total)
      BY <2>1, <2>2 DEF Clean
    <3>2. CASE status' = Refreshed /\ w' = [w EXCEPT !.pc = "scale"]
      <4>1. w'.pc = "scale" /\ w'.obj = w.obj
        BY <1>1, <3>2 DEF Workers
      <4>2. status'.total = Total(cache)
        BY <1>1, <3>2, RefreshedTyped
      <4>. QED
        BY <1>r, <2>1, <3>1, <4>1, <4>2 DEF Clean, Covered, Enough
    <3>3. CASE w' = Idle /\ UNCHANGED status
      BY <1>i, <2>1, <3>1, <3>3 DEF Clean, Covered, Enough
    <3>. QED
      BY <1>4, <3>2, <3>3 DEF Refresh, Retry
  <2>. QED
    BY <1>t, <2>1, <2>2, Paid
<1>5. CASE ScaleUp
  <2>. DEFINE gap == Gap(w.obj)
  <2>1. gap \in Gaps
    BY <1>1, GapTyped
  <2>2. w.pc = "scale" /\ UNCHANGED <<status, node, cache, left>>
    BY <1>5, ScaleFacts
  <2>3. CASE w' = Idle /\ UNCHANGED waste
    <3>1. Clean => Clean'
      BY <1>i, <2>2, <2>3 DEF Clean, Covered, Enough
    <3>. QED
      BY <1>t, <2>2, <2>3, <3>1, Paid
  <2>4. CASE Decides(gap, Choose(prices, gap))
    <3>. HIDE DEF gap
    <3>1. w'.pc = "create" /\ w'.failed = w.failed
      BY <1>1, <2>1, <2>4, Decided
    <3>2. Clean'
      BY <1>1, <2>2, <3>1 DEF Clean, FailedCreates
    <3>3. waste' = waste \/ waste' = waste + 1
      BY <2>4 DEF Decides
    <3>4. Clean => waste' = waste
      <4>1. Clean => Enough(w.obj.total)
        BY <2>2 DEF Clean
      <4>. QED
        BY <1>1, <2>1, <2>4, <4>1, CleanJustifies DEF gap
    <3>5. waste \in Nat /\ left \in Int /\ MaxFaults[config] \in Nat
      BY <1>1, FaultBound, TypeParts
    <3>6. waste' <= MaxFaults[config] - left
      BY <1>1, <3>3, <3>4, <3>5 DEF WastePaid
    <3>. QED
      BY <1>t, <2>2, <3>2, <3>5, <3>3, <3>6 DEF WastePaid
  <2>. QED
    BY <1>5, <2>3, <2>4, ScaleFacts
<1>6. ASSUME NEW n \in Names, Create(n) PROVE WastePaid'
  <2>1. /\ (w'.failed = w.failed /\ UNCHANGED left) \/ Spend("create")
        /\ w.pc = "create" /\ w'.pc = "create" /\ UNCHANGED waste
    BY <1>1, <1>6, CreateFacts
  <2>2. w'.failed = w.failed => (Clean => Clean')
    BY <2>1 DEF Clean
  <2>. QED
    BY <1>t, <2>1, <2>2, Paid
<1>7. CASE WaitAll
  <2>1. w.pc = "create" /\ UNCHANGED <<waste, left>>
    BY <1>7 DEF WaitAll
  <2>2. ASSUME Clean PROVE Clean'
    <3>1. ~ w.failed
      BY <2>1, <2>2 DEF Clean
    <3>2. w'.pc = "refreshAgain"
      BY <1>1, <1>7, <3>1 DEF WaitAll, Workers
    <3>. QED
      BY <3>2 DEF Clean
  <2>. QED
    BY <1>t, <2>1, <2>2, Paid
<1>8. CASE RefreshAgain
  <2>1. /\ UNCHANGED <<node, cache, waste>> /\ w' = Idle
        /\ \/ seen = status /\ cache = node /\ status' = Refreshed /\ UNCHANGED left
           \/ Spend("behind")
    BY <1>8 DEF RefreshAgain, Retry
  <2>2. ASSUME cache = node, status' = Refreshed PROVE Clean'
    <3>1. Covered
      BY <1>s, <2>2 DEF Covered
    <3>2. status'.total = Total(cache)
      BY <1>1, <2>2, RefreshedTyped
    <3>. QED
      BY <1>i, <1>r, <2>1, <3>1, <3>2 DEF Clean, Covered, Enough
  <2>. QED
    BY <1>t, <2>1, <2>2, Paid
<1>9. CASE Abort \/ Crash
  <2>1. UNCHANGED waste /\ \E f : Spend(f)
    BY <1>9 DEF Abort, Crash
  <2>. QED
    BY <1>t, <2>1, Paid
<1>10. ASSUME NEW n \in Names, DeleteNode(n) PROVE WastePaid'
  <2>1. UNCHANGED waste /\ \E f : Spend(f)
    BY <1>10 DEF DeleteNode
  <2>. QED
    BY <1>t, <2>1, Paid
<1>11. ASSUME NEW n \in Names, NodeEvent(n) PROVE WastePaid'
  <2>1. UNCHANGED <<status, node, w, waste, left>> /\ cache' = [cache EXCEPT ![n] = node[n]]
    BY <1>11 DEF NodeEvent
  <2>2. Covered => Covered'
    BY <1>1, <1>s, <2>1 DEF Covered
  <2>3. Clean => Clean'
    BY <2>1, <2>2 DEF Clean, Enough
  <2>. QED
    BY <1>t, <2>1, <2>3, Paid
<1>12. ASSUME NEW n \in Names, Ready(n) PROVE WastePaid'
  <2>1. /\ UNCHANGED <<status, cache, w, waste, left>>
        /\ node' = [node EXCEPT ![n] = [node[n] EXCEPT !.ready = TRUE]]
    BY <1>12 DEF Ready
  <2>2. ASSUME NEW m \in Names PROVE Shown(node'[m]) = Shown(node[m])
    <3>1. node'[m].state = node[m].state /\ node'[m].type = node[m].type
      BY <1>1, <2>1 DEF NodeObj
    <3>. QED
      BY <3>1 DEF Shown
  <2>3. Covered => Covered'
    BY <2>1, <2>2 DEF Covered
  <2>4. /\ Total(node') \in Amounts /\ Total(node) \in Amounts
        /\ \A d \in Dims : Total(node')[d] <= Total(node)[d]
    BY <1>1, <1>t, <1>s, <2>2, TotalGrows
  <2>5. ASSUME NEW t \in Amounts, Enough(t)
        PROVE  \A d \in Dims : Total(node')[d] <= t[d]
    BY <2>4, <2>5 DEF Enough, Amounts
  <2>6. status.total \in Amounts /\ w.obj.total \in Amounts
    BY <1>1 DEF Status, Workers
  <2>7. Clean => Clean'
    BY <2>1, <2>3, <2>5, <2>6 DEF Clean, Enough
  <2>. QED
    BY <1>t, <2>1, <2>7, Paid
<1>. QED
  BY <1>2, <1>3, <1>4, <1>5, <1>6, <1>7, <1>8, <1>9, <1>10, <1>11, <1>12
     DEF Next, WorkerStep

--------------------------------------------------------------------------------
(* Theorems *)

LEMMA InvInit == Init => CapacityInv
<1>. SUFFICES ASSUME Init PROVE CapacityInv
  OBVIOUS
<1>1. /\ config \in Configs /\ prices = Prices(config.reqs, Default)
      /\ status = NoStatus /\ seen = NoStatus
      /\ node = [n \in Names |-> NoNode] /\ cache = node
      /\ queue = TRUE /\ w = Idle /\ waste = 0 /\ deleted = FALSE
      /\ left = MaxFaults[config]
  BY DEF Init
<1>2. Priced(prices) /\ DOMAIN prices \subseteq 1..Len(Catalog)
  BY <1>1, PricesTyped
<1>3. MaxFaults[config] \in Nat
  BY <1>1, FaultAssumption
<1>4. node \in [Names -> NodeObj]
  BY <1>1, Empties
<1>5. TypeOK
  <2>1. left \in 0..MaxFaults[config] /\ waste \in Nat
    BY <1>1, <1>3
  <2>2. w \in Workers /\ status \in Status /\ seen \in Status /\ cache \in [Names -> NodeObj]
    BY <1>1, <1>4, Empties
  <2>3. queue \in BOOLEAN /\ deleted \in BOOLEAN /\ config \in Configs
    BY <1>1
  <2>. QED
    BY <1>2, <1>4, <2>1, <2>2, <2>3, TypeParts
<1>6. PricesKnown
  BY <1>2 DEF PricesKnown, Priced
<1>7. w.pc = "idle" /\ w.failed = FALSE
  BY <1>1 DEF Idle
<1>8. PlanOptimal /\ FailedCreates
  BY <1>7 DEF PlanOptimal, FailedCreates
<1>9. Clean
  <2>1. \A n \in Names : Shown(node[n]) = Zero
    BY <1>1 DEF Shown, NoNode
  <2>2. Covered
    BY <1>1, <2>1 DEF Covered, Zero
  <2>3. Total(node) = Zero
    <3>1. PICK g : SumsUp(g, node, MaxNodes) /\ Total(node) = g[MaxNodes]
      BY TotalSum
    <3>. DEFINE T == {n \in 0..MaxNodes : g[n] # Zero}
    <3>2. ASSUME T # {} PROVE FALSE
      <4>0. T \subseteq Nat
        BY FaultAssumption
      <4>1. PICK x \in T : \A y \in T : x <= y
        BY <3>2, <4>0, Least
      <4>2. x \in 0..MaxNodes /\ MaxNodes \in Nat
        BY FaultAssumption
      <4>3. x # 0
        BY <3>1, <4>1, <4>2 DEF SumsUp
      <4>4. x - 1 \in 0..MaxNodes /\ x \in Names
        BY <4>2, <4>3 DEF Names
      <4>5. g[x - 1] = Zero
        BY <4>1, <4>2, <4>4
      <4>6. g[x] = [d \in Dims |-> g[x - 1][d] + Shown(node[x])[d]]
        BY <3>1, <4>2, <4>3 DEF SumsUp
      <4>7. g[x] = Zero
        BY <2>1, <4>4, <4>5, <4>6 DEF Zero
      <4>. QED
        BY <4>1, <4>7
    <3>. QED
      BY <3>1, <3>2, FaultAssumption
  <2>4. Enough(status.total)
    BY <1>1, <2>3 DEF Enough, NoStatus, Zero
  <2>. QED
    BY <1>7, <2>2, <2>4 DEF Clean
<1>10. WastePaid
  BY <1>1, <1>3, <1>9 DEF WastePaid
<1>. QED
  BY <1>5, <1>6, <1>8, <1>10 DEF CapacityInv

LEMMA InvStep == CapacityInv /\ [Next]_vars => CapacityInv'
  BY TypeStep, PlanStep, WasteStep DEF CapacityInv

\* Every variable keeps its type.
THEOREM CapacityTypes == Spec => []TypeOK
<1>1. CapacityInv => TypeOK
  BY DEF CapacityInv
<1>. QED
  BY <1>1, InvInit, InvStep, PTL DEF Spec

\* For any catalog and requirements: the instances of a round fill the gap in both
\* dimensions up to the bound of the loop, one less would not, and no number of any
\* admitted type would do it for less.
THEOREM PlansAreOptimal == Spec => []PlanOptimal
<1>1. CapacityInv => PlanOptimal
  BY DEF CapacityInv
<1>. QED
  BY <1>1, InvInit, InvStep, PTL DEF Spec

\* For any number of disturbances of any kind: each costs at most one superfluous
\* round of creation.
THEOREM OneRoundPerDisturbance == Spec => []WasteBounded
<1>1. CapacityInv => WasteBounded
  <2>. SUFFICES ASSUME CapacityInv PROVE WasteBounded
    OBVIOUS
  <2>1. TypeOK /\ WastePaid
    BY DEF CapacityInv
  <2>2. waste \in Nat /\ left \in Int /\ MaxFaults[config] \in Nat
    BY <2>1, FaultBound, TypeParts
  <2>. QED
    BY <2>1, <2>2 DEF WastePaid, WasteBounded
<1>. QED
  BY <1>1, InvInit, InvStep, PTL DEF Spec

================================================================================
