------------------------------ MODULE TimerProofs ------------------------------
(***************************************************************************)
(* The list of Timer is exact and serves every timer at its tick, for      *)
(* every pool, every set of users, delays and time slices.                 *)
(***************************************************************************)
EXTENDS Timer, WellFoundedInduction, FiniteSetTheorems, TLAPS

-----------------------------------------------------------------------------
(* The inductive invariant. *)

ListType == [t0 : Timer, next : 0 .. Word - 1, link : [Timer -> Timer \cup {Nil}]]
TimeType == [Timer -> 0 .. Word - 1]

\* q[k] is the timer at place k of the list l, and the last place is n.
Linked(l, n, q) ==
    /\ q[0] = l.t0
    /\ \A k \in 0 .. n - 1 : l.link[q[k]] = q[k + 1]
    /\ q[n] = Sentinel /\ l.link[Sentinel] = Nil
    /\ \A j, k \in 0 .. n : q[j] = q[k] => j = k

\* The list is in the order of the timeouts, unless loose is TRUE.
Lists(l, tm, n, q, loose) ==
    /\ Linked(l, n, q)
    /\ loose = FALSE => /\ l.next = tm[l.t0]
                        /\ \A j, k \in 0 .. n : j <= k => tm[q[j]] <= tm[q[k]]

\* The list l holds the timers of S, in the order of their timeouts.
IsList(l, tm, S, loose) ==
    \E n \in 0 .. Cardinality(Timer) - 1 : \E q \in [0 .. n -> Timer] :
        Lists(l, tm, n, q, loose) /\ S = {q[k] : k \in 0 .. n}

InUse == {t \in Timer : flags[t] = 2} \ BeingArmed

\* The list holds the timers in use; after a misuse it may hold others too.
ListPart ==
    /\ IsList(list, timeout, Listed, misused)
    /\ InUse \subseteq Listed
    /\ misused = FALSE => Listed = InUse

\* What a user is about to insert is its own timer.
ArmingPart ==
    \A u \in User : arming[u] # Nil =>
        /\ flags[arming[u]] # 0 /\ fifo[arming[u]] = u
        /\ misused = FALSE => flags[arming[u]] = 2

\* The sentinel and the task timer are never taken out for good.
KernelPart == timeout[Sentinel] = Never /\ flags[Sentinel] = 2 /\ flags[TaskTimer] = 2

\* What holds as long as the list has an end.
Ending == ListPart /\ ArmingPart /\ KernelPart

IInv ==
    /\ TypeOK
    /\ endless = FALSE => Ending
    /\ endless = TRUE => misused = TRUE /\ Sentinel \notin Listed

-----------------------------------------------------------------------------
(* Places and chains. *)

Count == Cardinality(Timer)

\* Every set of numbers that has one has a least one.
LEMMA Least ==
  ASSUME NEW T \in SUBSET Nat, T # {}
  PROVE  \E x \in T : \A y \in T : x <= y
<1>1. DEFINE R == {ss \in Nat \X Nat : ss[1] < ss[2]}
<1>2. IsWellFoundedOn(R, Nat)
  BY NatLessThanWellFounded, Zenon DEF OpToRel
<1>3. HIDE DEF R
<1>4. PICK x \in T : \A y \in T : ~ (<<y, x>> \in R)
  BY <1>2, WFMin
<1>5. ASSUME NEW y \in T PROVE x <= y
  <2>1. ~ (y < x)
    BY <1>4 DEF R
  <2>2. QED
    BY <2>1, SMT
<1>6. QED
  BY <1>5

\* There are finitely many timers; the two of the kernel are none of the pool.
LEMMA Timers ==
  /\ IsFiniteSet(Timer) /\ Count \in Nat
  /\ TaskTimer \in Timer /\ Sentinel \in Timer /\ Pool \subseteq Timer
  /\ TaskTimer # Sentinel /\ TaskTimer \notin Pool /\ Sentinel \notin Pool
  /\ Nil \notin Timer /\ Nil \notin User
<1>1. IsFiniteSet({TaskTimer, Sentinel})
  <2>1. IsFiniteSet({TaskTimer} \cup {Sentinel})
    BY FS_Singleton, FS_AddElement
  <2>2. QED
    BY <2>1
<1>2. IsFiniteSet(Timer)
  BY <1>1, TimerAssumption, FS_Union DEF Timer
<1>3. Count \in Nat
  BY <1>2, FS_CardinalityType DEF Count
<1>4. QED
  BY <1>2, <1>3, TimerAssumption DEF Timer

LEMMA Words ==
  /\ Word \in Nat /\ MaxCount \in Nat /\ MaxCount < Never /\ Never \in Nat
  /\ Never \in 0 .. Word - 1
  /\ \A x \in Int : x % Word \in 0 .. Word - 1
  /\ \A x \in 0 .. Word - 1 : x % Word = x /\ x <= Never
  /\ \A s \in Slices : s \in Nat /\ s > 0 /\ s + MaxCount < Word
  /\ \A d \in Delays : d \in Nat
<1>1. /\ Word \in Nat /\ MaxCount \in Nat /\ MaxCount < Word - 1
      /\ \A s \in Slices : s \in Nat /\ s > 0 /\ s + MaxCount < Word
      /\ \A d \in Delays : d \in Nat
  BY CountAssumption
<1>2. Word > 1
  BY <1>1
<1>3. \A x \in Int : x % Word \in 0 .. Word - 1
  BY <1>1, <1>2
<1>4. \A x \in 0 .. Word - 1 : x % Word = x
  BY <1>1, <1>2
<1>5. QED
  BY <1>1, <1>2, <1>3, <1>4 DEF Never

\* A list without repetition has fewer links than there are timers.
LEMMA FewPlaces ==
  ASSUME NEW n \in Nat, NEW q \in [0 .. n -> Timer],
         \A j, k \in 0 .. n : q[j] = q[k] => j = k
  PROVE  n \in 0 .. Count - 1
<1>1. q \in Injection(0 .. n, Timer)
  BY DEF Injection, IsInjective
<1>2. Cardinality(0 .. n) <= Count
  BY <1>1, Timers, FS_Injection DEF Count
<1>3. Cardinality(0 .. n) = n + 1
  BY FS_Interval
<1>4. QED
  BY <1>2, <1>3, Timers

\* What Chain computes for a list.
LEMMA ChainIs ==
  ASSUME NEW l \in ListType, NEW n \in 0 .. Count - 1,
         NEW q \in [0 .. n -> Timer], Linked(l, n, q)
  PROVE  Chain(l) = [m \in 0 .. Count |-> IF m <= n THEN q[m] ELSE Nil]
<1> DEFINE f == [m \in 0 .. Count |-> IF m <= n THEN q[m] ELSE Nil]
           Step(g) == [m \in 0 .. Count |->
                          IF m = 0 THEN l.t0
                          ELSE IF g[m - 1] = Nil THEN Nil ELSE l.link[g[m - 1]]]
<1>1. /\ n \in Nat /\ Count \in Nat /\ n < Count
      /\ q[0] = l.t0 /\ q[n] = Sentinel /\ l.link[Sentinel] = Nil
      /\ \A k \in 0 .. n - 1 : l.link[q[k]] = q[k + 1]
      /\ \A k \in 0 .. n : q[k] \in Timer /\ q[k] # Nil
  BY Timers DEF Linked
<1>2. f = Step(f)
  <2>1. ASSUME NEW m \in 0 .. Count
        PROVE  f[m] = IF m = 0 THEN l.t0
                      ELSE IF f[m - 1] = Nil THEN Nil ELSE l.link[f[m - 1]]
    <3>1. CASE m = 0
      BY <1>1, <3>1
    <3>2. CASE m > 0 /\ m <= n
      <4>1. /\ m - 1 \in 0 .. Count /\ m - 1 \in 0 .. n - 1 /\ m - 1 \in 0 .. n
            /\ m - 1 <= n /\ (m - 1) + 1 = m
        BY <1>1, <3>2
      <4>2. f[m] = q[m] /\ f[m - 1] = q[m - 1]
        BY <3>2, <4>1
      <4>3. l.link[q[m - 1]] = q[m] /\ q[m - 1] # Nil
        BY <1>1, <4>1
      <4>4. m # 0
        BY <3>2
      <4>5. QED
        BY <4>2, <4>3, <4>4, Zenon
    <3>3. CASE m = n + 1
      <4>1. m - 1 \in 0 .. Count /\ m - 1 = n /\ m # 0 /\ ~ (m <= n)
        BY <1>1, <3>3
      <4>2. f[m] = Nil /\ f[m - 1] = Sentinel
        BY <1>1, <4>1
      <4>3. QED
        BY <1>1, <4>1, <4>2, Timers
    <3>4. CASE m > n + 1
      <4>1. m - 1 \in 0 .. Count /\ ~ (m - 1 <= n) /\ ~ (m <= n) /\ m # 0
        BY <1>1, <3>4
      <4>2. f[m] = Nil /\ f[m - 1] = Nil
        BY <4>1
      <4>3. QED
        BY <4>1, <4>2
    <3>5. QED
      BY <1>1, <3>1, <3>2, <3>3, <3>4
  <2>2. QED
    BY <2>1, Zenon
<1>3. PICK at : at = Chain(l) /\ at = Step(at)
  BY <1>2, Zenon DEF Chain, Count
<1>4. ASSUME NEW m \in 0 .. Count PROVE at[m] = f[m]
  <2> DEFINE D == {k \in 0 .. Count : at[k] # f[k]}
  <2>1. SUFFICES ASSUME D # {} PROVE FALSE
    OBVIOUS
  <2>2. PICK k \in D : \A y \in D : k <= y
    <3>1. D \in SUBSET Nat
      BY Timers
    <3>2. QED
      BY <2>1, <3>1, Least
  <2>3. k \in 0 .. Count /\ at[k] # f[k]
    BY <2>2
  <2>4. at[k] = (IF k = 0 THEN l.t0 ELSE IF at[k - 1] = Nil THEN Nil ELSE l.link[at[k - 1]])
    BY <1>3, <2>3, Zenon
  <2>5. f[k] = (IF k = 0 THEN l.t0 ELSE IF f[k - 1] = Nil THEN Nil ELSE l.link[f[k - 1]])
    BY <1>2, <2>3, Zenon
  <2>6. k # 0
    BY <2>3, <2>4, <2>5
  <2>7. k - 1 \in 0 .. Count /\ k - 1 < k
    BY <2>3, <2>6, Timers
  <2>8. at[k - 1] = f[k - 1]
    <3>1. k - 1 \notin D
      <4>1. ASSUME k - 1 \in D PROVE FALSE
        <5>1. k <= k - 1
          BY <2>2, <4>1
        <5>2. QED
          BY <2>3, <5>1, Timers
      <4>2. QED
        BY <4>1
    <3>2. QED
      BY <2>7, <3>1
  <2>9. QED
    BY <2>3, <2>4, <2>5, <2>8
<1>5. at = [m \in 0 .. Count |-> at[m]]
  BY <1>3, Zenon
<1>6. QED
  BY <1>3, <1>4, <1>5, Zenon

\* A loop stops at the first place that it does not pass.
LEMMA StepsAre ==
  ASSUME NEW at, DOMAIN at = 0 .. Count, NEW stops, NEW k \in 0 .. Count,
         at[k] \in stops, \A m \in 0 .. k - 1 : at[m] \notin stops
  PROVE  StepsTo(at, stops) = k
<1> DEFINE First(n) == at[n] \in stops /\ \A m \in 0 .. n - 1 : at[m] \notin stops
<1>1. Count \in Nat
  BY Timers
<1>2. First(k)
  OBVIOUS
<1>3. ASSUME NEW n \in 0 .. Count, First(n) PROVE n = k
  <2>1. CASE n < k
    <3>1. n \in 0 .. k - 1
      BY <2>1, <1>1
    <3>2. QED
      BY <1>3, <3>1
  <2>2. CASE k < n
    <3>1. k \in 0 .. n - 1
      BY <2>2, <1>1
    <3>2. QED
      BY <1>3, <3>1
  <2>3. QED
    BY <2>1, <2>2, <1>1
<1>4. QED
  BY <1>2, <1>3 DEF StepsTo


-----------------------------------------------------------------------------
(* What the operations do to the list. *)

\* The list m is l with t put at place k.
PutIn(l, m, tm, q, k, t, loose) ==
    /\ m.link[t] = q[k] /\ m.t0 = (IF k = 0 THEN t ELSE q[0])
    /\ loose = FALSE => m.next = tm[m.t0]
    /\ k > 0 => m.link[q[k - 1]] = t
    /\ \A x \in Timer : x # t /\ (k > 0 => x # q[k - 1]) => m.link[x] = l.link[x]

\* A timer is put at place k, before the timers that are not earlier.
LEMMA PutAt ==
  ASSUME NEW loose, NEW l \in ListType, NEW m \in ListType, NEW tm \in TimeType,
         NEW n \in 0 .. Count - 1, NEW q \in [0 .. n -> Timer], Lists(l, tm, n, q, loose),
         NEW t \in Timer, \A j \in 0 .. n : q[j] # t,
         NEW k \in 0 .. n, tm[t] <= tm[q[k]],
         \A j \in 0 .. k - 1 : tm[q[j]] <= tm[t],
         PutIn(l, m, tm, q, k, t, loose)
  PROVE  IsList(m, tm, {q[j] : j \in 0 .. n} \cup {t}, loose)
<1> /\ m.link[t] = q[k] /\ m.t0 = (IF k = 0 THEN t ELSE q[0])
    /\ loose = FALSE => m.next = tm[m.t0]
    /\ k > 0 => m.link[q[k - 1]] = t
    /\ \A x \in Timer : x # t /\ (k > 0 => x # q[k - 1]) => m.link[x] = l.link[x]
  BY DEF PutIn
<1> DEFINE p == [j \in 0 .. n + 1 |-> IF j < k THEN q[j] ELSE IF j = k THEN t ELSE q[j - 1]]
<1>1. /\ n \in Nat /\ k \in Nat /\ k <= n
      /\ q[0] = l.t0
      /\ \A j \in 0 .. n - 1 : l.link[q[j]] = q[j + 1]
      /\ q[n] = Sentinel /\ l.link[Sentinel] = Nil
  BY Timers DEF Lists, Linked
<1>2. \A i, j \in 0 .. n : q[j] = q[i] => j = i
  BY DEF Lists, Linked
<1>3. loose = FALSE => \A i, j \in 0 .. n : j <= i => tm[q[j]] <= tm[q[i]]
  BY DEF Lists, Linked
<1>4. \A x \in Timer : tm[x] \in Nat
  BY DEF TimeType
<1>5. p \in [0 .. n + 1 -> Timer]
  BY <1>1
<1>6. /\ \A j \in 0 .. k - 1 : p[j] = q[j] /\ j \in 0 .. n
      /\ p[k] = t
      /\ \A j \in k + 1 .. n + 1 : p[j] = q[j - 1] /\ j - 1 \in 0 .. n
  BY <1>1
<1>7. \A j \in 0 .. n + 1 : j \in 0 .. k - 1 \/ j = k \/ j \in k + 1 .. n + 1
  BY <1>1
<1> HIDE DEF p
<1>8. \A i, j \in 0 .. n + 1 : p[j] = p[i] => j = i
  <2> SUFFICES ASSUME NEW i \in 0 .. n + 1, NEW j \in 0 .. n + 1, p[j] = p[i] PROVE j = i
    OBVIOUS
  <2>1. CASE i \in 0 .. k - 1 /\ j \in 0 .. k - 1
    BY <1>2, <1>6, <2>1
  <2>2. CASE i \in k + 1 .. n + 1 /\ j \in k + 1 .. n + 1
    <3>1. j - 1 = i - 1
      BY <1>2, <1>6, <2>2
    <3>2. QED
      BY <3>1
  <2>3. CASE i \in 0 .. k - 1 /\ j \in k + 1 .. n + 1
    <3>1. i = j - 1
      BY <1>2, <1>6, <2>3
    <3>2. QED
      BY <1>1, <2>3, <3>1
  <2>4. CASE j \in 0 .. k - 1 /\ i \in k + 1 .. n + 1
    <3>1. j = i - 1
      BY <1>2, <1>6, <2>4
    <3>2. QED
      BY <1>1, <2>4, <3>1
  <2>5. CASE i = k \/ j = k
    BY <1>6, <1>7, <2>5
  <2>6. QED
    BY <1>7, <2>1, <2>2, <2>3, <2>4, <2>5
<1>9. ASSUME loose = FALSE
      PROVE  \A i, j \in 0 .. n + 1 : j <= i => tm[p[j]] <= tm[p[i]]
  <2> SUFFICES ASSUME NEW i \in 0 .. n + 1, NEW j \in 0 .. n + 1, j <= i
               PROVE  tm[p[j]] <= tm[p[i]]
    OBVIOUS
  <2>1. CASE i \in 0 .. k - 1 /\ j \in 0 .. k - 1
    BY <1>3, <1>9, <1>6, <2>1
  <2>2. CASE i \in k + 1 .. n + 1 /\ j \in k + 1 .. n + 1
    <3>1. j - 1 <= i - 1
      BY <1>1
    <3>2. QED
      BY <1>3, <1>9, <1>6, <2>2, <3>1
  <2>3. CASE j \in 0 .. k - 1 /\ i \in k + 1 .. n + 1
    <3>1. j <= i - 1
      BY <1>1, <2>3
    <3>2. QED
      BY <1>3, <1>9, <1>6, <2>3, <3>1
  <2>4. CASE i = k /\ j = k
    BY <1>4, <1>6, <2>4
  <2>5. CASE j = k /\ i \in k + 1 .. n + 1
    <3>1. k <= i - 1 /\ i - 1 \in 0 .. n /\ p[i] = q[i - 1]
      BY <1>1, <1>6, <2>5
    <3>2. tm[q[k]] <= tm[q[i - 1]]
      BY <1>3, <1>9, <3>1
    <3>3. tm[t] \in Nat /\ tm[q[k]] \in Nat /\ tm[q[i - 1]] \in Nat
      BY <1>4, <3>1
    <3>4. tm[t] <= tm[q[i - 1]]
      BY <3>2, <3>3
    <3>5. QED
      BY <1>6, <2>5, <3>1, <3>4
  <2>6. CASE i = k /\ j \in 0 .. k - 1
    BY <1>6, <2>6
  <2>7. CASE i < k /\ j >= k
    BY <1>1, <2>7
  <2>8. CASE i = k /\ j \in k + 1 .. n + 1
    BY <1>1, <2>8
  <2>9. QED
    BY <1>1, <1>7, <2>1, <2>2, <2>3, <2>4, <2>5, <2>6, <2>7, <2>8
<1>10. \A j \in 0 .. n : m.link[p[j]] = p[j + 1]
  <2> SUFFICES ASSUME NEW j \in 0 .. n PROVE m.link[p[j]] = p[j + 1]
    OBVIOUS
  <2>1. CASE j = k
    <3>1. k + 1 \in k + 1 .. n + 1 /\ (k + 1) - 1 = k
      BY <1>1
    <3>2. p[k + 1] = q[k]
      BY <1>6, <3>1
    <3>3. QED
      BY <1>6, <2>1, <3>2
  <2>2. CASE k > 0 /\ j = k - 1
    <3>1. j \in 0 .. k - 1 /\ j + 1 = k
      BY <1>1, <2>2
    <3>2. QED
      BY <1>6, <2>2, <3>1
  <2>3. CASE j < k - 1
    <3>1. /\ j \in 0 .. k - 1 /\ j + 1 \in 0 .. k - 1 /\ j \in 0 .. n - 1
          /\ k > 0 /\ k - 1 \in 0 .. n /\ j # k - 1
      BY <1>1, <2>3
    <3>2. p[j] = q[j] /\ p[j + 1] = q[j + 1]
      BY <1>6, <3>1
    <3>3. q[j] # t /\ q[j] # q[k - 1]
      BY <1>2, <3>1
    <3>4. m.link[q[j]] = l.link[q[j]]
      BY <3>3
    <3>5. QED
      BY <1>1, <3>1, <3>2, <3>4
  <2>4. CASE j > k
    <3>1. /\ j \in k + 1 .. n + 1 /\ j + 1 \in k + 1 .. n + 1
          /\ j - 1 \in 0 .. n - 1 /\ j - 1 \in 0 .. n
          /\ (j + 1) - 1 = j /\ (j - 1) + 1 = j /\ j - 1 # k - 1 /\ (k > 0 => k - 1 \in 0 .. n)
      BY <1>1, <2>4
    <3>2. p[j] = q[j - 1] /\ p[j + 1] = q[j]
      BY <1>6, <3>1
    <3>3. q[j - 1] # t /\ (k > 0 => q[j - 1] # q[k - 1])
      BY <1>2, <3>1
    <3>4. m.link[q[j - 1]] = l.link[q[j - 1]]
      BY <3>1, <3>3
    <3>5. l.link[q[j - 1]] = q[j]
      BY <1>1, <3>1
    <3>6. QED
      BY <3>2, <3>4, <3>5
  <2>5. QED
    BY <1>1, <2>1, <2>2, <2>3, <2>4
<1>11. p[0] = m.t0
  <2>1. CASE k = 0
    BY <1>6, <2>1
  <2>2. CASE k > 0
    <3>1. 0 \in 0 .. k - 1 /\ k # 0
      BY <1>1, <2>2
    <3>2. QED
      BY <1>6, <3>1
  <2>3. QED
    BY <1>1, <2>1, <2>2
<1>12. p[n + 1] = Sentinel /\ m.link[Sentinel] = Nil
  <2>1. n + 1 \in k + 1 .. n + 1 /\ (n + 1) - 1 = n /\ n \in 0 .. n
    BY <1>1
  <2>2. p[n + 1] = q[n]
    BY <1>6, <2>1
  <2>3. k > 0 => k - 1 \in 0 .. n /\ k - 1 # n
    BY <1>1
  <2>4. Sentinel # t /\ (k > 0 => Sentinel # q[k - 1])
    BY <1>1, <1>2, <2>1, <2>3
  <2>5. m.link[Sentinel] = l.link[Sentinel]
    BY <2>4, Timers
  <2>6. QED
    BY <1>1, <2>2, <2>5
<1>13. n + 1 \in 0 .. Count - 1
  BY <1>1, <1>5, <1>8, FewPlaces
<1>14. Lists(m, tm, n + 1, p, loose)
  <2>1. (n + 1) - 1 = n
    BY <1>1
  <2>2. QED
    BY <1>8, <1>9, <1>10, <1>11, <1>12, <2>1 DEF Lists, Linked
<1>15. {q[j] : j \in 0 .. n} \cup {t} = {p[j] : j \in 0 .. n + 1}
  <2>1. ASSUME NEW j \in 0 .. n PROVE \E i \in 0 .. n + 1 : q[j] = p[i]
    <3>1. CASE j < k
      <4>1. j \in 0 .. n + 1 /\ j \in 0 .. k - 1
        BY <1>1, <3>1
      <4>2. QED
        BY <1>6, <4>1
    <3>2. CASE j >= k
      <4>1. j + 1 \in 0 .. n + 1 /\ j + 1 \in k + 1 .. n + 1 /\ (j + 1) - 1 = j
        BY <1>1, <3>2
      <4>2. q[j] = p[j + 1]
        BY <1>6, <4>1
      <4>3. QED
        BY <4>1, <4>2
    <3>3. QED
      BY <1>1, <3>1, <3>2
  <2>2. k \in 0 .. n + 1
    BY <1>1
  <2>3. ASSUME NEW i \in 0 .. n + 1 PROVE p[i] = t \/ \E j \in 0 .. n : p[i] = q[j]
    BY <1>6, <1>7
  <2>4. {q[j] : j \in 0 .. n} \cup {t} \subseteq {p[j] : j \in 0 .. n + 1}
    <3>1. t = p[k]
      BY <1>6
    <3>2. ASSUME NEW x \in {q[j] : j \in 0 .. n} PROVE x \in {p[j] : j \in 0 .. n + 1}
      <4>1. PICK j \in 0 .. n : x = q[j]
        OBVIOUS
      <4>2. PICK i \in 0 .. n + 1 : q[j] = p[i]
        BY <2>1
      <4>3. QED
        BY <4>1, <4>2
    <3>3. QED
      BY <2>2, <3>1, <3>2
  <2>5. {p[j] : j \in 0 .. n + 1} \subseteq {q[j] : j \in 0 .. n} \cup {t}
    <3>1. ASSUME NEW i \in 0 .. n + 1 PROVE p[i] \in {q[j] : j \in 0 .. n} \cup {t}
      BY <2>3
    <3>2. QED
      BY <3>1
  <2>6. QED
    BY <2>4, <2>5, Zenon
<1>16. QED
  BY <1>5, <1>13, <1>14, <1>15 DEF IsList, Count


\* The next timer after the one at place k is taken out.
LEMMA TakeAt ==
  ASSUME NEW loose, NEW l \in ListType, NEW m \in ListType, NEW tm \in TimeType,
         NEW n \in 0 .. Count - 1, NEW q \in [0 .. n -> Timer], Lists(l, tm, n, q, loose),
         NEW k \in 0 .. n - 1,
         m.t0 = (IF k = 0 THEN q[1] ELSE q[0]), loose = FALSE => m.next = tm[m.t0],
         k > 0 => m.link[q[k - 1]] = q[k + 1],
         \A x \in Timer : (k > 0 => x # q[k - 1]) => m.link[x] = l.link[x]
  PROVE  IsList(m, tm, {q[j] : j \in 0 .. n} \ {q[k]}, loose)
<1> DEFINE p == [j \in 0 .. n - 1 |-> IF j < k THEN q[j] ELSE q[j + 1]]
<1>1. /\ n \in Nat /\ n > 0 /\ k \in Nat /\ k < n /\ n - 1 \in Nat
      /\ q[0] = l.t0
      /\ \A j \in 0 .. n - 1 : l.link[q[j]] = q[j + 1]
      /\ q[n] = Sentinel /\ l.link[Sentinel] = Nil
  BY Timers DEF Lists, Linked
<1>2. \A i, j \in 0 .. n : q[j] = q[i] => j = i
  BY DEF Lists, Linked
<1>3. loose = FALSE => \A i, j \in 0 .. n : j <= i => tm[q[j]] <= tm[q[i]]
  BY DEF Lists, Linked
<1>4. p \in [0 .. n - 1 -> Timer]
  BY <1>1
<1>5. /\ \A j \in 0 .. k - 1 : p[j] = q[j] /\ j \in 0 .. n
      /\ \A j \in k .. n - 1 : p[j] = q[j + 1] /\ j + 1 \in 0 .. n
  BY <1>1
<1>6. \A j \in 0 .. n - 1 : j \in 0 .. k - 1 \/ j \in k .. n - 1
  BY <1>1
<1> HIDE DEF p
<1>7. \A i, j \in 0 .. n - 1 : p[j] = p[i] => j = i
  <2> SUFFICES ASSUME NEW i \in 0 .. n - 1, NEW j \in 0 .. n - 1, p[j] = p[i] PROVE j = i
    OBVIOUS
  <2>1. CASE i \in 0 .. k - 1 /\ j \in 0 .. k - 1
    BY <1>2, <1>5, <2>1
  <2>2. CASE i \in k .. n - 1 /\ j \in k .. n - 1
    <3>1. j + 1 = i + 1
      BY <1>2, <1>5, <2>2
    <3>2. QED
      BY <3>1
  <2>3. CASE i \in 0 .. k - 1 /\ j \in k .. n - 1
    <3>1. i = j + 1
      BY <1>2, <1>5, <2>3
    <3>2. QED
      BY <1>1, <2>3, <3>1
  <2>4. CASE j \in 0 .. k - 1 /\ i \in k .. n - 1
    <3>1. j = i + 1
      BY <1>2, <1>5, <2>4
    <3>2. QED
      BY <1>1, <2>4, <3>1
  <2>5. QED
    BY <1>6, <2>1, <2>2, <2>3, <2>4
<1>8. ASSUME loose = FALSE
      PROVE  \A i, j \in 0 .. n - 1 : j <= i => tm[p[j]] <= tm[p[i]]
  <2> SUFFICES ASSUME NEW i \in 0 .. n - 1, NEW j \in 0 .. n - 1, j <= i
               PROVE  tm[p[j]] <= tm[p[i]]
    OBVIOUS
  <2>1. CASE i \in 0 .. k - 1 /\ j \in 0 .. k - 1
    BY <1>3, <1>8, <1>5, <2>1
  <2>2. CASE i \in k .. n - 1 /\ j \in k .. n - 1
    <3>1. j + 1 <= i + 1
      BY <1>1
    <3>2. QED
      BY <1>3, <1>8, <1>5, <2>2, <3>1
  <2>3. CASE j \in 0 .. k - 1 /\ i \in k .. n - 1
    <3>1. j <= i + 1
      BY <1>1
    <3>2. QED
      BY <1>3, <1>8, <1>5, <2>3, <3>1
  <2>4. CASE i < k /\ j >= k
    BY <1>1, <2>4
  <2>5. QED
    BY <1>1, <1>6, <2>1, <2>2, <2>3, <2>4
<1>9. \A j \in 0 .. (n - 1) - 1 : m.link[p[j]] = p[j + 1]
  <2> SUFFICES ASSUME NEW j \in 0 .. (n - 1) - 1 PROVE m.link[p[j]] = p[j + 1]
    OBVIOUS
  <2>1. CASE k > 0 /\ j = k - 1
    <3>1. j \in 0 .. k - 1 /\ j + 1 = k /\ k \in k .. n - 1
      BY <1>1, <2>1
    <3>2. p[j] = q[k - 1] /\ p[j + 1] = q[k + 1]
      BY <1>5, <2>1, <3>1
    <3>3. QED
      BY <2>1, <3>2
  <2>2. CASE j < k - 1
    <3>1. /\ j \in 0 .. k - 1 /\ j + 1 \in 0 .. k - 1 /\ j \in 0 .. n - 1 /\ j \in 0 .. n
          /\ k > 0 /\ k - 1 \in 0 .. n /\ j # k - 1
      BY <1>1, <2>2
    <3>2. p[j] = q[j] /\ p[j + 1] = q[j + 1]
      BY <1>5, <3>1
    <3>3. q[j] # q[k - 1]
      BY <1>2, <3>1
    <3>4. m.link[q[j]] = l.link[q[j]]
      BY <3>1, <3>3
    <3>5. QED
      BY <1>1, <3>1, <3>2, <3>4
  <2>3. CASE j >= k
    <3>1. /\ j \in k .. n - 1 /\ j + 1 \in k .. n - 1 /\ j + 1 \in 0 .. n - 1 /\ j + 1 \in 0 .. n
          /\ j + 1 # k - 1 /\ (k > 0 => k - 1 \in 0 .. n)
      BY <1>1, <2>3
    <3>2. p[j] = q[j + 1] /\ p[j + 1] = q[(j + 1) + 1]
      BY <1>5, <3>1
    <3>3. k > 0 => q[j + 1] # q[k - 1]
      BY <1>2, <3>1
    <3>4. m.link[q[j + 1]] = l.link[q[j + 1]]
      BY <3>1, <3>3
    <3>5. l.link[q[j + 1]] = q[(j + 1) + 1]
      BY <1>1, <3>1
    <3>6. QED
      BY <3>2, <3>4, <3>5
  <2>4. QED
    BY <1>1, <2>1, <2>2, <2>3
<1>10. p[0] = m.t0
  <2>1. CASE k = 0
    <3>1. 0 \in k .. n - 1
      BY <1>1, <2>1
    <3>2. QED
      BY <1>5, <2>1, <3>1
  <2>2. CASE k > 0
    <3>1. 0 \in 0 .. k - 1 /\ k # 0
      BY <1>1, <2>2
    <3>2. QED
      BY <1>5, <3>1
  <2>3. QED
    BY <1>1, <2>1, <2>2
<1>11. p[n - 1] = Sentinel /\ m.link[Sentinel] = Nil
  <2>1. n - 1 \in k .. n - 1 /\ (n - 1) + 1 = n /\ n \in 0 .. n
    BY <1>1
  <2>2. p[n - 1] = q[n]
    BY <1>5, <2>1
  <2>3. k > 0 => k - 1 \in 0 .. n /\ k - 1 # n
    BY <1>1
  <2>4. k > 0 => Sentinel # q[k - 1]
    BY <1>1, <1>2, <2>1, <2>3
  <2>5. m.link[Sentinel] = l.link[Sentinel]
    BY <2>4, Timers
  <2>6. QED
    BY <1>1, <2>2, <2>5
<1>12. n - 1 \in 0 .. Count - 1
  BY <1>1, Timers
<1>13. Lists(m, tm, n - 1, p, loose)
  BY <1>7, <1>8, <1>9, <1>10, <1>11 DEF Lists, Linked
<1>14. {q[j] : j \in 0 .. n} \ {q[k]} = {p[j] : j \in 0 .. n - 1}
  <2>1. ASSUME NEW j \in 0 .. n, q[j] # q[k] PROVE \E i \in 0 .. n - 1 : q[j] = p[i]
    <3>1. CASE j < k
      <4>1. j \in 0 .. n - 1 /\ j \in 0 .. k - 1
        BY <1>1, <3>1
      <4>2. QED
        BY <1>5, <4>1
    <3>2. CASE j > k
      <4>1. j - 1 \in 0 .. n - 1 /\ j - 1 \in k .. n - 1 /\ (j - 1) + 1 = j
        BY <1>1, <3>2
      <4>2. q[j] = p[j - 1]
        BY <1>5, <4>1
      <4>3. QED
        BY <4>1, <4>2
    <3>3. j # k
      BY <2>1
    <3>4. QED
      BY <1>1, <3>1, <3>2, <3>3
  <2>2. ASSUME NEW i \in 0 .. n - 1 PROVE p[i] # q[k] /\ \E j \in 0 .. n : p[i] = q[j]
    <3>1. CASE i \in 0 .. k - 1
      <4>1. p[i] = q[i] /\ i \in 0 .. n /\ k \in 0 .. n /\ i # k
        BY <1>1, <1>5, <3>1
      <4>2. QED
        BY <1>2, <4>1
    <3>2. CASE i \in k .. n - 1
      <4>1. p[i] = q[i + 1] /\ i + 1 \in 0 .. n /\ k \in 0 .. n /\ i + 1 # k
        BY <1>1, <1>5, <3>2
      <4>2. QED
        BY <1>2, <4>1
    <3>3. QED
      BY <1>6, <3>1, <3>2
  <2>3. {q[j] : j \in 0 .. n} \ {q[k]} \subseteq {p[j] : j \in 0 .. n - 1}
    <3>1. ASSUME NEW x \in {q[j] : j \in 0 .. n} \ {q[k]} PROVE x \in {p[j] : j \in 0 .. n - 1}
      <4>1. PICK j \in 0 .. n : x = q[j]
        OBVIOUS
      <4>2. PICK i \in 0 .. n - 1 : q[j] = p[i]
        BY <2>1, <4>1
      <4>3. QED
        BY <4>1, <4>2
    <3>2. QED
      BY <3>1
  <2>4. {p[j] : j \in 0 .. n - 1} \subseteq {q[j] : j \in 0 .. n} \ {q[k]}
    <3>1. ASSUME NEW i \in 0 .. n - 1 PROVE p[i] \in {q[j] : j \in 0 .. n} \ {q[k]}
      BY <2>2
    <3>2. QED
      BY <3>1
  <2>5. QED
    BY <2>3, <2>4, Zenon
<1>15. QED
  BY <1>4, <1>12, <1>13, <1>14 DEF IsList, Count


\* timer_settime: t is put into the list, which nobody else does with it.
LEMMA Inserts ==
  ASSUME NEW loose, NEW l \in ListType, NEW tm \in TimeType, NEW S, IsList(l, tm, S, loose),
         NEW t \in Timer, t \notin S, tm[Sentinel] = Never
  PROVE  /\ Inserted(l, tm, t) \in ListType
         /\ IsList(Inserted(l, tm, t), tm, S \cup {t}, loose)
<1>0. PICK n \in 0 .. Count - 1 : \E q \in [0 .. n -> Timer] :
         Lists(l, tm, n, q, loose) /\ S = {q[j] : j \in 0 .. n}
  BY DEF IsList, Count
<1>1. PICK q \in [0 .. n -> Timer] : Lists(l, tm, n, q, loose) /\ S = {q[j] : j \in 0 .. n}
  BY <1>0
<1>2. /\ n \in Nat /\ n <= Count /\ 0 \in 0 .. n /\ n \in 0 .. n /\ q[0] = l.t0 /\ q[n] = Sentinel
      /\ loose = FALSE => l.next = tm[l.t0]
      /\ Count \in Nat /\ \A j, k \in 0 .. n : q[j] = q[k] => j = k
  BY <1>1, Timers DEF Lists, Linked
<1>3. \A x \in Timer : tm[x] \in Nat /\ tm[x] \in 0 .. Word - 1
  BY Words DEF TimeType
<1>4. \A j \in 0 .. n : q[j] # t
  BY <1>1
<1>5. tm[t] <= tm[q[n]]
  BY <1>2, Words DEF TimeType
<1>6. PICK k \in 0 .. n : tm[t] <= tm[q[k]] /\ \A j \in 0 .. k - 1 : ~ (tm[t] <= tm[q[j]])
  <2> DEFINE D == {j \in 0 .. n : tm[t] <= tm[q[j]]}
  <2>1. D \in SUBSET Nat /\ n \in D
    BY <1>2, <1>5
  <2>2. PICK k \in D : \A y \in D : k <= y
    BY <2>1, Least
  <2>3. ASSUME NEW j \in 0 .. k - 1 PROVE ~ (tm[t] <= tm[q[j]])
    <3>1. k \in 0 .. n
      BY <2>2
    <3>2. j \in 0 .. n /\ ~ (k <= j)
      BY <1>2, <3>1
    <3>3. j \notin D
      BY <2>2, <3>2
    <3>4. QED
      BY <3>2, <3>3
  <2>4. QED
    BY <2>2, <2>3
<1>7. \A j \in 0 .. k - 1 : tm[q[j]] <= tm[t]
  <2>1. ASSUME NEW j \in 0 .. k - 1 PROVE tm[q[j]] <= tm[t]
    <3>1. j \in 0 .. n
      BY <1>2
    <3>2. tm[q[j]] \in Nat /\ tm[t] \in Nat /\ ~ (tm[t] <= tm[q[j]])
      BY <1>3, <1>6, <3>1
    <3>3. QED
      BY <3>2
  <2>2. QED
    BY <2>1
<1>8. /\ l.t0 \in Timer /\ l.link \in [Timer -> Timer \cup {Nil}]
      /\ l = [t0 |-> l.t0, next |-> l.next, link |-> l.link]
  BY DEF ListType
<1>9. CASE k = 0
  <2> DEFINE m == [t0 |-> t, next |-> tm[t], link |-> [l.link EXCEPT ![t] = l.t0]]
  <2>1. tm[t] <= tm[l.t0]
    BY <1>2, <1>6, <1>9
  <2>2. Inserted(l, tm, t) = m
    BY <2>1 DEF Inserted
  <2>3. m \in ListType
    BY <1>3, <1>8 DEF ListType
  <2>4. /\ m.link[t] = q[k] /\ m.t0 = t /\ m.next = tm[m.t0]
        /\ \A x \in Timer : x # t => m.link[x] = l.link[x]
    BY <1>2, <1>8, <1>9
  <2> HIDE DEF m
  <2>5. PutIn(l, m, tm, q, k, t, loose)
    BY <1>9, <2>4 DEF PutIn
  <2>6. IsList(m, tm, {q[j] : j \in 0 .. n} \cup {t}, loose)
    BY <1>1, <1>4, <1>6, <1>7, <2>3, <2>5, PutAt
  <2>7. QED
    BY <1>1, <2>2, <2>3, <2>6
<1>10. CASE k > 0
  <2> DEFINE m == [l EXCEPT !.link = [@ EXCEPT ![q[k - 1]] = t, ![t] = q[k]]]
             stops == {x \in Timer : tm[t] <= tm[x]}
  <2>1. ~ (tm[t] <= tm[l.t0]) /\ k - 1 \in 0 .. n /\ k \in Nat /\ k \in 0 .. Count
    <3>1. 0 \in 0 .. k - 1 /\ k - 1 \in 0 .. n /\ k \in Nat /\ k \in 0 .. Count
      BY <1>2, <1>10
    <3>2. QED
      BY <1>2, <1>6, <3>1
  <2>2. Chain(l) = [j \in 0 .. Count |-> IF j <= n THEN q[j] ELSE Nil]
    <3>1. Linked(l, n, q)
      BY <1>1 DEF Lists
    <3>2. QED
      BY <3>1, ChainIs
  <2>3. \A j \in 0 .. n : Chain(l)[j] = q[j]
    BY <1>2, <2>2
  <2>4. StepsTo(Chain(l), stops) = k
    <3>1. DOMAIN Chain(l) = 0 .. Count
      BY <2>2
    <3>2. Chain(l)[k] \in stops
      BY <1>6, <2>3
    <3>3. \A j \in 0 .. k - 1 : Chain(l)[j] \notin stops
      <4>1. ASSUME NEW j \in 0 .. k - 1 PROVE Chain(l)[j] \notin stops
        <5>1. j \in 0 .. n
          BY <1>2
        <5>2. QED
          BY <1>6, <2>3, <5>1
      <4>2. QED
        BY <4>1
    <3> HIDE DEF stops
    <3>4. QED
      BY <2>1, <3>1, <3>2, <3>3, StepsAre
  <2>5. Inserted(l, tm, t) = m
    <3>1. Inserted(l, tm, t) =
            [l EXCEPT !.link = [@ EXCEPT ![Chain(l)[k - 1]] = t, ![t] = Chain(l)[k]]]
      BY <2>1, <2>4, Zenon DEF Inserted
    <3>2. Chain(l)[k] = q[k] /\ Chain(l)[k - 1] = q[k - 1]
      BY <2>1, <2>3
    <3>3. QED
      BY <3>1, <3>2, Zenon
  <2>6. q[k] \in Timer /\ q[k - 1] \in Timer /\ q[k - 1] # t
    BY <1>4, <2>1
  <2>7. m \in ListType
    BY <1>8, <2>6 DEF ListType
  <2>8. /\ m.link[t] = q[k] /\ m.t0 = q[0] /\ m.link[q[k - 1]] = t
        /\ loose = FALSE => m.next = tm[m.t0]
        /\ \A x \in Timer : x # t /\ x # q[k - 1] => m.link[x] = l.link[x]
    BY <1>2, <1>8, <2>6
  <2> HIDE DEF m
  <2>9. PutIn(l, m, tm, q, k, t, loose)
    BY <1>10, <2>8 DEF PutIn
  <2>10. IsList(m, tm, {q[j] : j \in 0 .. n} \cup {t}, loose)
    BY <1>1, <1>4, <1>6, <1>7, <2>7, <2>9, PutAt
  <2>11. QED
    BY <1>1, <2>5, <2>7, <2>10
<1>11. QED
  BY <1>9, <1>10, <1>2

\* timer_cancel: t is taken out of the list in which it is.
LEMMA TakesOut ==
  ASSUME NEW loose, NEW l \in ListType, NEW tm \in TimeType, NEW S, IsList(l, tm, S, loose),
         NEW t \in S, t # Sentinel
  PROVE  /\ TakenOut(l, tm, t) \in ListType
         /\ IsList(TakenOut(l, tm, t), tm, S \ {t}, loose)
<1>0. PICK n \in 0 .. Count - 1 : \E q \in [0 .. n -> Timer] :
         Lists(l, tm, n, q, loose) /\ S = {q[j] : j \in 0 .. n}
  BY DEF IsList, Count
<1>1. PICK q \in [0 .. n -> Timer] : Lists(l, tm, n, q, loose) /\ S = {q[j] : j \in 0 .. n}
  BY <1>0
<1>2. /\ n \in Nat /\ n <= Count /\ 0 \in 0 .. n /\ n \in 0 .. n /\ q[0] = l.t0 /\ q[n] = Sentinel
      /\ loose = FALSE => l.next = tm[l.t0]
      /\ \A j \in 0 .. n - 1 : l.link[q[j]] = q[j + 1]
      /\ Count \in Nat /\ \A j, k \in 0 .. n : q[j] = q[k] => j = k
  BY <1>1, Timers DEF Lists, Linked
<1>3. \A x \in Timer : tm[x] \in Nat /\ tm[x] \in 0 .. Word - 1
  BY Words DEF TimeType
<1>4. PICK k \in 0 .. n : t = q[k]
  BY <1>1
<1>5. k \in 0 .. n - 1 /\ k + 1 \in 0 .. n /\ k \in Nat
  BY <1>2, <1>4
<1>6. l.link[t] = q[k + 1] /\ q[k + 1] \in Timer
  BY <1>2, <1>4, <1>5
<1>7. /\ l.t0 \in Timer /\ l.link \in [Timer -> Timer \cup {Nil}]
      /\ l = [t0 |-> l.t0, next |-> l.next, link |-> l.link]
  BY DEF ListType
<1>8. CASE k = 0
  <2> DEFINE m == [l EXCEPT !.t0 = q[1], !.next = tm[q[1]]]
  <2>1. TakenOut(l, tm, t) = m
    BY <1>2, <1>4, <1>6, <1>8 DEF TakenOut
  <2>2. q[1] \in Timer
    BY <1>6, <1>8
  <2>3. m \in ListType
    BY <1>3, <1>7, <2>2 DEF ListType
  <2>4. /\ m.t0 = q[1] /\ m.next = tm[m.t0]
        /\ \A x \in Timer : m.link[x] = l.link[x]
    BY <1>7
  <2> HIDE DEF m
  <2>5. /\ m.t0 = (IF k = 0 THEN q[1] ELSE q[0])
        /\ k > 0 => m.link[q[k - 1]] = q[k + 1]
        /\ \A x \in Timer : (k > 0 => x # q[k - 1]) => m.link[x] = l.link[x]
    BY <1>8, <2>4
  <2>6. IsList(m, tm, {q[j] : j \in 0 .. n} \ {q[k]}, loose)
    BY <1>1, <1>5, <2>3, <2>4, <2>5, TakeAt
  <2>7. QED
    BY <1>1, <1>4, <2>1, <2>3, <2>6
<1>9. CASE k > 0
  <2> DEFINE m == [l EXCEPT !.link = [@ EXCEPT ![q[k - 1]] = q[k + 1]]]
             stops == {x \in Timer : l.link[x] = t}
  <2>1. /\ t # l.t0 /\ (k - 1) + 1 = k
        /\ k - 1 \in 0 .. n /\ k - 1 \in 0 .. Count /\ k - 1 \in 0 .. n - 1
    BY <1>2, <1>4, <1>5, <1>9
  <2>2. Chain(l) = [j \in 0 .. Count |-> IF j <= n THEN q[j] ELSE Nil]
    <3>1. Linked(l, n, q)
      BY <1>1 DEF Lists
    <3>2. QED
      BY <3>1, ChainIs
  <2>3. \A j \in 0 .. n : Chain(l)[j] = q[j]
    BY <1>2, <2>2
  <2>4. StepsTo(Chain(l), stops) = k - 1
    <3>1. DOMAIN Chain(l) = 0 .. Count
      BY <2>2
    <3>2. Chain(l)[k - 1] \in stops
      <4>1. l.link[q[k - 1]] = q[k]
        BY <1>2, <2>1
      <4>2. QED
        BY <1>4, <2>1, <2>3, <4>1
    <3>3. \A j \in 0 .. (k - 1) - 1 : Chain(l)[j] \notin stops
      <4>1. ASSUME NEW j \in 0 .. (k - 1) - 1 PROVE Chain(l)[j] \notin stops
        <5>1. j \in 0 .. n /\ j \in 0 .. n - 1 /\ j + 1 \in 0 .. n /\ j + 1 # k
          BY <1>2, <1>5
        <5>2. l.link[q[j]] = q[j + 1] /\ q[j + 1] # q[k]
          BY <1>2, <5>1
        <5>3. QED
          BY <1>4, <2>3, <5>1, <5>2
      <4>2. QED
        BY <4>1
    <3> HIDE DEF stops
    <3>4. PICK i \in 0 .. Count : i = k - 1
      BY <2>1
    <3>5. QED
      BY <3>1, <3>2, <3>3, <3>4, StepsAre
  <2>5. TakenOut(l, tm, t) = m
    <3>1. TakenOut(l, tm, t) = [l EXCEPT !.link = [@ EXCEPT ![Chain(l)[k - 1]] = l.link[t]]]
      BY <2>1, <2>4, Zenon DEF TakenOut
    <3>2. Chain(l)[k - 1] = q[k - 1]
      BY <2>1, <2>3
    <3>3. QED
      BY <1>6, <3>1, <3>2, Zenon
  <2>6. q[k - 1] \in Timer
    BY <2>1
  <2>7. m \in ListType
    BY <1>6, <1>7, <2>6 DEF ListType
  <2>8. /\ m.t0 = q[0] /\ m.link[q[k - 1]] = q[k + 1]
        /\ loose = FALSE => m.next = tm[m.t0]
        /\ \A x \in Timer : x # q[k - 1] => m.link[x] = l.link[x]
    BY <1>2, <1>7, <2>6
  <2> HIDE DEF m
  <2>9. k # 0
    BY <1>9
  <2>10. IsList(m, tm, {q[j] : j \in 0 .. n} \ {q[k]}, loose)
    BY <1>1, <1>5, <1>9, <2>7, <2>8, <2>9, TakeAt
  <2>11. QED
    BY <1>1, <1>4, <2>5, <2>7, <2>10
<1>10. QED
  BY <1>5, <1>8, <1>9


\* The interrupt's loop takes the timers that are due off the front.
LEMMA Serves ==
  ASSUME NEW loose, list \in ListType, timeout \in TimeType, NEW S, IsList(list, timeout, S, loose),
         timeout[Sentinel] = Never, NEW c \in Nat, c < Never
  PROVE  /\ Due(c) \subseteq S \ {Sentinel}
         /\ loose = FALSE => Due(c) = {t \in S : timeout[t] <= c}
         /\ Served(c) \in ListType
         /\ IsList(Served(c), timeout, S \ Due(c), loose)
<1>0. PICK n \in 0 .. Count - 1 : \E q \in [0 .. n -> Timer] :
         Lists(list, timeout, n, q, loose) /\ S = {q[j] : j \in 0 .. n}
  BY DEF IsList, Count
<1>1. PICK q \in [0 .. n -> Timer] :
         Lists(list, timeout, n, q, loose) /\ S = {q[j] : j \in 0 .. n}
  BY <1>0
<1>2. /\ n \in Nat /\ n <= Count /\ 0 \in 0 .. n /\ n \in 0 .. n
      /\ q[n] = Sentinel /\ list.link[Sentinel] = Nil /\ Count \in Nat
      /\ \A j \in 0 .. n - 1 : list.link[q[j]] = q[j + 1]
      /\ \A j \in 0 .. n : j \in 0 .. Count
  BY <1>1, Timers DEF Lists, Linked
<1>3. \A j, k \in 0 .. n : q[j] = q[k] => j = k
  BY <1>1 DEF Lists, Linked
<1>4. loose = FALSE => \A j, k \in 0 .. n : j <= k => timeout[q[j]] <= timeout[q[k]]
  BY <1>1 DEF Lists, Linked
<1>5. \A j \in 0 .. n : timeout[q[j]] \in Nat /\ timeout[q[j]] \in 0 .. Word - 1 /\ q[j] \in Timer
  BY Words DEF TimeType
<1>6. PICK k \in 0 .. n : timeout[q[k]] > c /\ \A j \in 0 .. k - 1 : timeout[q[j]] <= c
  <2> DEFINE D == {j \in 0 .. n : timeout[q[j]] > c}
  <2>1. D \in SUBSET Nat /\ n \in D
    BY <1>2, Words
  <2>2. PICK k \in D : \A y \in D : k <= y
    BY <2>1, Least
  <2>3. ASSUME NEW j \in 0 .. k - 1 PROVE timeout[q[j]] <= c
    <3>1. k \in 0 .. n
      BY <2>2
    <3>2. j \in 0 .. n /\ ~ (k <= j)
      BY <1>2, <3>1
    <3>3. j \notin D
      BY <2>2, <3>2
    <3>4. timeout[q[j]] \in Nat /\ ~ (timeout[q[j]] > c)
      BY <1>5, <3>2, <3>3
    <3>5. QED
      BY <3>4
  <2>4. QED
    BY <2>2, <2>3
<1>7. k \in Nat /\ k <= n /\ k \in 0 .. Count /\ \A j \in 0 .. k - 1 : j \in 0 .. n
  BY <1>2
<1>8. ASSUME loose = FALSE, NEW j \in k .. n PROVE j \in 0 .. n /\ ~ (timeout[q[j]] <= c)
  <2>1. j \in 0 .. n /\ k <= j
    BY <1>7
  <2>2. timeout[q[k]] <= timeout[q[j]]
    BY <1>4, <1>8, <2>1
  <2>3. timeout[q[k]] \in Nat /\ timeout[q[j]] \in Nat
    BY <1>5, <2>1
  <2>4. QED
    BY <1>6, <2>1, <2>2, <2>3
<1>9. Chain(list) = [j \in 0 .. Count |-> IF j <= n THEN q[j] ELSE Nil]
  <2>1. Linked(list, n, q)
    BY <1>1 DEF Lists
  <2>2. QED
    BY <2>1, ChainIs
<1>10. DOMAIN Chain(list) = 0 .. Count /\ \A j \in 0 .. n : Chain(list)[j] = q[j]
  BY <1>2, <1>9
<1>11. StepsTo(Chain(list), {x \in Timer : timeout[x] > c}) = k
  <2> DEFINE stops == {x \in Timer : timeout[x] > c}
  <2>1. Chain(list)[k] \in stops
    BY <1>5, <1>6, <1>10
  <2>2. ASSUME NEW j \in 0 .. k - 1 PROVE Chain(list)[j] \notin stops
    <3>1. j \in 0 .. n /\ timeout[q[j]] <= c /\ timeout[q[j]] \in Nat
      BY <1>5, <1>6, <1>7
    <3>2. ~ (timeout[q[j]] > c)
      BY <3>1
    <3>3. QED
      BY <1>10, <3>1, <3>2
  <2> HIDE DEF stops
  <2>3. StepsTo(Chain(list), stops) = k
    BY <1>7, <1>10, <2>1, <2>2, StepsAre
  <2>4. QED
    BY <2>3 DEF stops
<1>12. Due(c) = {q[j] : j \in 0 .. k - 1}
  <2>1. Due(c) = {Chain(list)[j] : j \in 0 .. k - 1}
    BY <1>11, Zenon DEF Due
  <2>2. \A j \in 0 .. k - 1 : Chain(list)[j] = q[j]
    BY <1>7, <1>10
  <2>3. QED
    BY <2>1, <2>2
<1>13. ASSUME loose = FALSE PROVE Due(c) = {t \in S : timeout[t] <= c}
  <2>1. ASSUME NEW t \in S, timeout[t] <= c PROVE t \in Due(c)
    <3>1. PICK j \in 0 .. n : t = q[j]
      BY <1>1
    <3>2. j \notin k .. n
      BY <1>8, <1>13, <2>1, <3>1
    <3>3. j \in 0 .. k - 1
      BY <1>7, <3>2
    <3>4. QED
      BY <1>12, <3>1, <3>3
  <2>2. ASSUME NEW t \in Due(c) PROVE t \in S /\ timeout[t] <= c
    BY <1>1, <1>6, <1>7, <1>12
  <2>3. QED
    BY <2>1, <2>2
<1>14. \A j \in 0 .. k - 1 : q[j] \in Due(c)
  BY <1>12
<1>15. ASSUME NEW j \in k .. n PROVE q[j] \notin Due(c)
  <2>1. ASSUME NEW i \in 0 .. k - 1 PROVE q[i] # q[j]
    <3>1. i \in 0 .. n /\ j \in 0 .. n /\ i # j
      BY <1>7
    <3>2. QED
      BY <1>3, <3>1
  <2>2. QED
    BY <1>12, <2>1
<1>16. StepsTo(Chain(list), Timer \ Due(c)) = k
  <2> DEFINE stops == Timer \ Due(c)
  <2>1. Chain(list)[k] \in stops
    BY <1>2, <1>5, <1>7, <1>10, <1>15
  <2>2. \A j \in 0 .. k - 1 : Chain(list)[j] \notin stops
    BY <1>7, <1>10, <1>14
  <2> HIDE DEF stops
  <2>3. StepsTo(Chain(list), stops) = k
    BY <1>7, <1>10, <2>1, <2>2, StepsAre
  <2>4. QED
    BY <2>3 DEF stops
<1>17. Served(c) = [list EXCEPT !.t0 = q[k], !.next = timeout[q[k]]]
  <2>1. Served(c) = [list EXCEPT !.t0 = Chain(list)[k], !.next = timeout[Chain(list)[k]]]
    BY <1>16, Zenon DEF Served
  <2>2. QED
    BY <1>10, <2>1
<1>18. /\ list.t0 \in Timer /\ list.link \in [Timer -> Timer \cup {Nil}]
       /\ list = [t0 |-> list.t0, next |-> list.next, link |-> list.link]
  BY DEF ListType
<1>19. /\ Served(c) \in ListType
       /\ Served(c).t0 = q[k] /\ Served(c).next = timeout[q[k]] /\ Served(c).link = list.link
  BY <1>5, <1>17, <1>18 DEF ListType
<1> DEFINE p == [j \in 0 .. n - k |-> q[j + k]]
<1>20. \A j \in 0 .. n - k : p[j] = q[j + k] /\ j + k \in 0 .. n /\ j + k \in k .. n
  BY <1>7
<1>21. p \in [0 .. n - k -> Timer] /\ n - k \in 0 .. Count - 1 /\ n - k \in Nat
  BY <1>2, <1>7, <1>20
<1> HIDE DEF p
<1>22. Lists(Served(c), timeout, n - k, p, loose)
  <2>1. p[0] = q[k] /\ p[n - k] = Sentinel
    <3>1. 0 \in 0 .. n - k /\ 0 + k = k /\ n - k \in 0 .. n - k /\ (n - k) + k = n
      BY <1>7
    <3>2. p[0] = q[0 + k] /\ p[n - k] = q[(n - k) + k]
      BY <1>20, <3>1
    <3>3. QED
      BY <1>2, <3>1, <3>2
  <2>2. ASSUME NEW j \in 0 .. (n - k) - 1 PROVE list.link[p[j]] = p[j + 1]
    <3>1. /\ j \in 0 .. n - k /\ j + 1 \in 0 .. n - k /\ j + k \in 0 .. n - 1
          /\ (j + 1) + k = (j + k) + 1
      BY <1>7
    <3>2. p[j] = q[j + k] /\ p[j + 1] = q[(j + k) + 1]
      BY <1>20, <3>1
    <3>3. QED
      BY <1>2, <3>1, <3>2
  <2>3. ASSUME NEW i \in 0 .. n - k, NEW j \in 0 .. n - k, p[i] = p[j] PROVE i = j
    <3>1. i + k = j + k
      BY <1>3, <1>20, <2>3
    <3>2. QED
      BY <1>7, <3>1
  <2>4. ASSUME loose = FALSE, NEW i \in 0 .. n - k, NEW j \in 0 .. n - k, i <= j
        PROVE  timeout[p[i]] <= timeout[p[j]]
    <3>1. i + k <= j + k
      BY <1>7, <2>4
    <3>2. QED
      BY <1>4, <1>20, <2>4, <3>1
  <2>5. QED
    BY <1>2, <1>19, <2>1, <2>2, <2>3, <2>4 DEF Lists, Linked
<1>23. S \ Due(c) = {p[j] : j \in 0 .. n - k}
  <2>1. ASSUME NEW t \in S \ Due(c) PROVE t \in {p[j] : j \in 0 .. n - k}
    <3>1. PICK j \in 0 .. n : t = q[j]
      BY <1>1
    <3>2. j \notin 0 .. k - 1
      BY <1>14, <3>1
    <3>3. j - k \in 0 .. n - k /\ (j - k) + k = j
      BY <1>7, <3>2
    <3>4. t = p[j - k]
      BY <1>20, <3>1, <3>3
    <3>5. QED
      BY <3>3, <3>4
  <2>2. ASSUME NEW j \in 0 .. n - k PROVE p[j] \in S \ Due(c)
    BY <1>1, <1>15, <1>20
  <2>3. QED
    BY <2>1, <2>2
<1>24. Due(c) \subseteq S \ {Sentinel}
  <2>1. ASSUME NEW j \in 0 .. k - 1 PROVE q[j] \in S /\ q[j] # Sentinel
    <3>1. j \in 0 .. n /\ j # n
      BY <1>7
    <3>2. QED
      BY <1>1, <1>2, <1>3, <3>1
  <2>2. QED
    BY <1>12, <2>1
<1>25. QED
  BY <1>13, <1>19, <1>21, <1>22, <1>23, <1>24 DEF IsList, Count


-----------------------------------------------------------------------------
(* timer_cancelall takes several timers out, one after the other. *)

One(s) == CHOOSE x \in s : TRUE

\* A round of the loop, after the rounds for the other timers of s.
Round(f, s) == IF s = {} THEN list ELSE TakenOut(f[s \ {One(s)}], timeout, One(s))

\* The parts of D with at most n timers.
Parts(D, n) == {s \in SUBSET D : Cardinality(s) <= n}

LEMMA OneLess ==
  ASSUME NEW D, IsFiniteSet(D), NEW s \in SUBSET D, s # {}
  PROVE  /\ One(s) \in s /\ s \ {One(s)} \in SUBSET D
         /\ Cardinality(s) \in Nat /\ Cardinality(s \ {One(s)}) \in Nat
         /\ Cardinality(s \ {One(s)}) = Cardinality(s) - 1
<1>1. One(s) \in s
  BY DEF One
<1>2. IsFiniteSet(s)
  BY FS_Subset
<1>3. IsFiniteSet(s \ {One(s)})
  BY <1>2, FS_RemoveElement
<1>4. Cardinality(s \ {One(s)}) = Cardinality(s) - 1
  BY <1>1, <1>2, FS_RemoveElement
<1>5. QED
  BY <1>1, <1>2, <1>3, <1>4, FS_CardinalityType

\* The rounds for few timers are determined, and then those for one more.
LEMMA RoundsExist ==
  ASSUME NEW D, IsFiniteSet(D)
  PROVE  \E f : f = [s \in SUBSET D |-> Round(f, s)]
<1> DEFINE Some(n) == \E f : f = [s \in Parts(D, n) |-> Round(f, s)]
<1>1. \A s \in SUBSET D : Cardinality(s) \in Nat /\ Cardinality(s) <= Cardinality(D)
  BY FS_Subset, FS_CardinalityType
<1>2. Cardinality(D) \in Nat
  BY FS_CardinalityType
<1>3. Some(0)
  <2> DEFINE f == [s \in Parts(D, 0) |-> list]
  <2>1. \A s \in Parts(D, 0) : s = {}
    <3>1. ASSUME NEW s \in Parts(D, 0) PROVE s = {}
      <4>1. s \in SUBSET D /\ Cardinality(s) = 0
        BY <1>1 DEF Parts
      <4>2. IsFiniteSet(s)
        BY <4>1, FS_Subset
      <4>3. QED
        BY <4>1, <4>2, FS_EmptySet
    <3>2. QED
      BY <3>1
  <2>2. \A s \in Parts(D, 0) : f[s] = Round(f, s)
    BY <2>1 DEF Round
  <2>3. f = [s \in Parts(D, 0) |-> Round(f, s)]
    BY <2>2, Zenon
  <2>4. QED
    BY <2>3, Zenon
<1>4. ASSUME NEW n \in Nat, Some(n) PROVE Some(n + 1)
  <2>1. PICK f : f = [s \in Parts(D, n) |-> Round(f, s)]
    BY <1>4, Zenon
  <2> DEFINE g == [s \in Parts(D, n + 1) |-> Round(f, s)]
  <2>2. ASSUME NEW s \in Parts(D, n + 1), s # {}
        PROVE  s \ {One(s)} \in Parts(D, n) /\ s \ {One(s)} \in Parts(D, n + 1)
    <3>1. s \in SUBSET D /\ Cardinality(s) <= n + 1
      BY DEF Parts
    <3>2. /\ s \ {One(s)} \in SUBSET D /\ Cardinality(s \ {One(s)}) \in Nat
          /\ Cardinality(s) \in Nat /\ Cardinality(s \ {One(s)}) = Cardinality(s) - 1
      BY <2>2, <3>1, OneLess
    <3>3. Cardinality(s \ {One(s)}) <= n /\ Cardinality(s \ {One(s)}) <= n + 1
      BY <3>1, <3>2
    <3>4. QED
      BY <3>2, <3>3, Zenon DEF Parts
  <2>3. \A s \in Parts(D, n) : f[s] = Round(f, s)
    BY <2>1, Zenon
  <2>4. \A s \in Parts(D, n + 1) : g[s] = Round(f, s)
    BY Zenon
  <2> HIDE DEF g
  <2>5. ASSUME NEW s \in Parts(D, n + 1) PROVE Round(f, s) = Round(g, s)
    <3>1. CASE s = {}
      BY <3>1 DEF Round
    <3>2. CASE s # {}
      <4>1. f[s \ {One(s)}] = g[s \ {One(s)}]
        BY <2>2, <2>3, <2>4, <3>2, Zenon
      <4>2. QED
        BY <4>1, Zenon DEF Round
    <3>3. QED
      BY <3>1, <3>2
  <2>6. g = [s \in Parts(D, n + 1) |-> Round(g, s)]
    <3>1. g = [s \in Parts(D, n + 1) |-> Round(f, s)]
      BY Zenon DEF g
    <3>2. QED
      BY <2>5, <3>1, Zenon
  <2>7. QED
    BY <2>6, Zenon
<1> HIDE DEF Some
<1>5. Some(Cardinality(D))
  <2> DEFINE B == {n \in Nat : ~ Some(n)}
  <2>1. SUFFICES ASSUME B # {} PROVE FALSE
    BY <1>2
  <2>2. PICK n \in B : \A y \in B : n <= y
    BY <2>1, Least
  <2>3. n \in Nat /\ ~ Some(n)
    BY <2>2
  <2>4. n # 0
    BY <1>3, <2>3
  <2>5. n - 1 \in Nat /\ (n - 1) + 1 = n /\ ~ (n <= n - 1)
    BY <2>3, <2>4
  <2>6. Some(n - 1)
    BY <2>2, <2>5
  <2>7. PICK k \in Nat : k = n - 1
    BY <2>5
  <2>8. Some(k + 1)
    BY <1>4, <2>6, <2>7
  <2>9. QED
    BY <2>3, <2>5, <2>7, <2>8
<1>6. Parts(D, Cardinality(D)) = SUBSET D
  BY <1>1, Zenon DEF Parts
<1>7. QED
  BY <1>5, <1>6, Zenon DEF Some

\* What is left when the timers of D have been cancelled.
LEMMA CancelsAll ==
  ASSUME NEW loose, list \in ListType, timeout \in TimeType, NEW S, IsList(list, timeout, S, loose),
         S \subseteq Timer, NEW D \in SUBSET (S \ {Sentinel})
  PROVE  LET l == FoldSet(LAMBDA t, m : TakenOut(m, timeout, t), list, D)
         IN  l \in ListType /\ IsList(l, timeout, S \ D, loose)
<1>1. IsFiniteSet(D)
  BY Timers, FS_Subset
<1>2. PICK f : /\ f = [s \in SUBSET D |-> Round(f, s)]
               /\ FoldSet(LAMBDA t, m : TakenOut(m, timeout, t), list, D) = f[D]
  <2>1. \E f : f = [s \in SUBSET D |-> Round(f, s)]
    BY <1>1, RoundsExist
  <2>2. FoldSet(LAMBDA t, m : TakenOut(m, timeout, t), list, D)
          = (CHOOSE f : f = [s \in SUBSET D |-> Round(f, s)])[D]
    BY Zenon DEF FoldSet, MapThenFoldSet, Round, One
  <2>3. QED
    BY <2>1, <2>2, Zenon
<1>3. \A s \in SUBSET D : f[s] = Round(f, s)
  BY <1>2, Zenon
<1> DEFINE Good(s) == f[s] \in ListType /\ IsList(f[s], timeout, S \ s, loose)
<1>4. ASSUME NEW s \in SUBSET D, s # {}, Good(s \ {One(s)}) PROVE Good(s)
  <2> DEFINE r == s \ {One(s)}
  <2>1. One(s) \in s /\ r \in SUBSET D
    BY <1>1, <1>4, OneLess
  <2>2. One(s) \in S \ r /\ One(s) # Sentinel
    BY <2>1
  <2>3. f[s] = TakenOut(f[r], timeout, One(s))
    BY <1>3, <1>4, Zenon DEF Round
  <2>4. f[r] \in ListType /\ IsList(f[r], timeout, S \ r, loose)
    BY <1>4
  <2>5. (S \ r) \ {One(s)} = S \ s
    BY <2>1
  <2> HIDE DEF r
  <2>6. /\ TakenOut(f[r], timeout, One(s)) \in ListType
        /\ IsList(TakenOut(f[r], timeout, One(s)), timeout, (S \ r) \ {One(s)}, loose)
    BY <2>2, <2>4, TakesOut
  <2>7. QED
    BY <2>3, <2>5, <2>6
<1>5. Good({})
  <2>1. f[{}] = list
    BY <1>3 DEF Round
  <2>2. S \ {} = S
    OBVIOUS
  <2>3. QED
    BY <2>1, <2>2
<1> HIDE DEF Good
<1>6. Good(D)
  <2> DEFINE B == {n \in Nat : \E s \in SUBSET D : Cardinality(s) = n /\ ~ Good(s)}
  <2>1. SUFFICES ASSUME ~ Good(D) PROVE FALSE
    OBVIOUS
  <2>2. B \in SUBSET Nat /\ B # {}
    <3>1. Cardinality(D) \in B
      BY <1>1, <2>1, FS_CardinalityType
    <3>2. QED
      BY <3>1
  <2>3. PICK n \in B : \A y \in B : n <= y
    BY <2>2, Least
  <2>4. PICK s \in SUBSET D : Cardinality(s) = n /\ ~ Good(s)
    BY <2>3
  <2>5. s # {}
    BY <1>5, <2>4
  <2>6. /\ s \ {One(s)} \in SUBSET D
        /\ Cardinality(s \ {One(s)}) \in Nat /\ Cardinality(s \ {One(s)}) = n - 1
    BY <1>1, <2>4, <2>5, OneLess
  <2>7. ~ (n <= Cardinality(s \ {One(s)}))
    BY <2>2, <2>6
  <2>8. Good(s \ {One(s)})
    BY <2>3, <2>6, <2>7
  <2>9. QED
    BY <1>4, <2>4, <2>5, <2>8
<1>7. f[D] \in ListType /\ IsList(f[D], timeout, S \ D, loose)
  BY <1>6 DEF Good
<1>8. QED
  BY <1>2, <1>7, Zenon

-----------------------------------------------------------------------------
(* Lists without an end. *)

\* Every list has a chain, also one that runs in a circle.
LEMMA ChainSteps ==
  ASSUME NEW l
  PROVE  /\ DOMAIN Chain(l) = 0 .. Count
         /\ Chain(l)[0] = l.t0
         /\ \A m \in 1 .. Count : Chain(l)[m] = IF Chain(l)[m - 1] = Nil THEN Nil
                                                ELSE l.link[Chain(l)[m - 1]]
<1> DEFINE Next1(g, m) == IF m = 0 THEN l.t0
                          ELSE IF g[m - 1] = Nil THEN Nil ELSE l.link[g[m - 1]]
           Some(n) == \E f : f = [m \in 0 .. n |-> Next1(f, m)]
<1>1. Some(0)
  <2> DEFINE f == [m \in 0 .. 0 |-> l.t0]
  <2>1. \A m \in 0 .. 0 : m = 0
    OBVIOUS
  <2>2. \A m \in 0 .. 0 : f[m] = Next1(f, m)
    BY <2>1
  <2>3. f = [m \in 0 .. 0 |-> Next1(f, m)]
    BY <2>2, Zenon
  <2>4. QED
    BY <2>3, Zenon
<1>2. ASSUME NEW n \in Nat, Some(n) PROVE Some(n + 1)
  <2>1. PICK f : f = [m \in 0 .. n |-> Next1(f, m)]
    BY <1>2, Zenon
  <2> DEFINE g == [m \in 0 .. n + 1 |-> Next1(f, m)]
  <2>2. \A m \in 0 .. n : f[m] = Next1(f, m)
    BY <2>1, Zenon
  <2>3. \A m \in 0 .. n + 1 : g[m] = Next1(f, m)
    BY Zenon
  <2> HIDE DEF g
  <2>4. ASSUME NEW m \in 0 .. n + 1, m # 0 PROVE f[m - 1] = g[m - 1]
    <3>1. m - 1 \in 0 .. n /\ m - 1 \in 0 .. n + 1
      BY <2>4
    <3>2. QED
      BY <2>2, <2>3, <3>1
  <2>5. \A m \in 0 .. n + 1 : Next1(f, m) = Next1(g, m)
    BY <2>4
  <2>6. g = [m \in 0 .. n + 1 |-> Next1(g, m)]
    <3>1. g = [m \in 0 .. n + 1 |-> Next1(f, m)]
      BY Zenon DEF g
    <3>2. QED
      BY <2>5, <3>1, Zenon
  <2>7. QED
    BY <2>6, Zenon
<1>3. Some(Count)
  <2> HIDE DEF Some
  <2> DEFINE B == {n \in Nat : ~ Some(n)}
  <2>1. SUFFICES ASSUME B # {} PROVE FALSE
    BY Timers
  <2>2. PICK n \in B : \A y \in B : n <= y
    BY <2>1, Least
  <2>3. n \in Nat /\ ~ Some(n)
    BY <2>2
  <2>4. n # 0
    BY <1>1, <2>3
  <2>5. n - 1 \in Nat /\ (n - 1) + 1 = n /\ ~ (n <= n - 1)
    BY <2>3, <2>4
  <2>6. Some(n - 1)
    BY <2>2, <2>5
  <2>7. PICK k \in Nat : k = n - 1
    BY <2>5
  <2>8. Some(k + 1)
    BY <1>2, <2>6, <2>7
  <2>9. QED
    BY <2>3, <2>5, <2>7, <2>8
<1>4. PICK at : at = Chain(l) /\ at = [m \in 0 .. Count |-> Next1(at, m)]
  BY <1>3, Zenon DEF Chain, Count
<1>5. \A m \in 0 .. Count : at[m] = Next1(at, m)
  BY <1>4, Zenon
<1>6. DOMAIN at = 0 .. Count
  BY <1>4, Zenon
<1>7. 0 \in 0 .. Count /\ \A m \in 1 .. Count : m \in 0 .. Count /\ m # 0
  BY Timers
<1>8. QED
  BY <1>4, <1>5, <1>6, <1>7

\* timer_settime of a timer in the list: the list has no end any more.
LEMMA Loops ==
  ASSUME NEW loose, NEW l \in ListType, NEW tm \in TimeType, NEW S, IsList(l, tm, S, loose),
         NEW t \in S, t # Sentinel
  PROVE  /\ Inserted(l, tm, t) \in ListType
         /\ \A j \in DOMAIN Chain(Inserted(l, tm, t)) : Chain(Inserted(l, tm, t))[j] # Sentinel
<1>0. PICK n \in 0 .. Count - 1 : \E q \in [0 .. n -> Timer] :
         Lists(l, tm, n, q, loose) /\ S = {q[j] : j \in 0 .. n}
  BY DEF IsList, Count
<1>1. PICK q \in [0 .. n -> Timer] : Lists(l, tm, n, q, loose) /\ S = {q[j] : j \in 0 .. n}
  BY <1>0
<1>2. /\ n \in Nat /\ n <= Count /\ 0 \in 0 .. n /\ n \in 0 .. n /\ q[0] = l.t0 /\ q[n] = Sentinel
      /\ Count \in Nat /\ \A j, k \in 0 .. n : q[j] = q[k] => j = k
      /\ \A j \in 0 .. n - 1 : l.link[q[j]] = q[j + 1]
  BY <1>1, Timers DEF Lists, Linked
<1>3. \A x \in Timer : tm[x] \in Nat /\ tm[x] \in 0 .. Word - 1
  BY Words DEF TimeType
<1>4. PICK i \in 0 .. n : t = q[i]
  BY <1>1
<1>5. i \in Nat /\ i < n /\ t \in Timer
  BY <1>2, <1>4
<1>6. PICK k \in 0 .. i : tm[t] <= tm[q[k]] /\ \A j \in 0 .. k - 1 : ~ (tm[t] <= tm[q[j]])
  <2> DEFINE D == {j \in 0 .. i : tm[t] <= tm[q[j]]}
  <2>1. D \in SUBSET Nat /\ i \in D
    BY <1>3, <1>4, <1>5
  <2>2. PICK k \in D : \A y \in D : k <= y
    BY <2>1, Least
  <2>3. ASSUME NEW j \in 0 .. k - 1 PROVE ~ (tm[t] <= tm[q[j]])
    <3>1. k \in 0 .. i
      BY <2>2
    <3>2. j \in 0 .. i /\ ~ (k <= j)
      BY <1>5, <3>1
    <3>3. j \notin D
      BY <2>2, <3>2
    <3>4. QED
      BY <3>2, <3>3
  <2>4. QED
    BY <2>2, <2>3
<1>7. k \in Nat /\ k <= i /\ k \in 0 .. n /\ k \in 0 .. Count
  BY <1>2, <1>5
<1>8. /\ l.t0 \in Timer /\ l.link \in [Timer -> Timer \cup {Nil}]
      /\ l = [t0 |-> l.t0, next |-> l.next, link |-> l.link]
  BY DEF ListType
<1> DEFINE C == {q[j] : j \in 0 .. i}
<1>9. /\ C \subseteq Timer /\ Sentinel \notin C /\ t \in C /\ q[0] \in C /\ q[k] \in C
  <2>1. \A j \in 0 .. i : j \in 0 .. n /\ j # n
    BY <1>5
  <2>2. \A j \in 0 .. i : q[j] \in Timer /\ q[j] # Sentinel
    BY <1>2, <2>1
  <2>3. 0 \in 0 .. i /\ i \in 0 .. i
    BY <1>5
  <2>4. QED
    BY <1>4, <1>6, <2>2, <2>3
<1>10. ASSUME NEW x \in C, x # t PROVE l.link[x] \in C
  <2>1. PICK j \in 0 .. i : x = q[j]
    OBVIOUS
  <2>2. j # i
    BY <1>4, <1>10, <2>1
  <2>3. j \in 0 .. n - 1 /\ j + 1 \in 0 .. i
    BY <1>5, <2>2
  <2>4. QED
    BY <1>2, <2>1, <2>3
<1> HIDE DEF C
<1>11. PICK m \in ListType :
         /\ m = Inserted(l, tm, t) /\ m.t0 \in C /\ m.link[t] \in C
         /\ \A x \in Timer : x # t => m.link[x] = t \/ m.link[x] = l.link[x]
  <2>1. CASE k = 0
    <3> DEFINE m == [t0 |-> t, next |-> tm[t], link |-> [l.link EXCEPT ![t] = l.t0]]
    <3>1. tm[t] <= tm[l.t0]
      BY <1>2, <1>6, <2>1
    <3>2. Inserted(l, tm, t) = m
      BY <3>1 DEF Inserted
    <3>3. m \in ListType
      BY <1>3, <1>5, <1>8 DEF ListType
    <3>4. m.t0 = t /\ m.link[t] = l.t0 /\ \A x \in Timer : x # t => m.link[x] = l.link[x]
      BY <1>5, <1>8
    <3> HIDE DEF m
    <3>5. QED
      BY <1>2, <1>9, <3>2, <3>3, <3>4
  <2>2. CASE k > 0
    <3> DEFINE m == [l EXCEPT !.link = [@ EXCEPT ![q[k - 1]] = t, ![t] = q[k]]]
               stops == {x \in Timer : tm[t] <= tm[x]}
    <3>1. ~ (tm[t] <= tm[l.t0]) /\ k - 1 \in 0 .. n
      <4>1. 0 \in 0 .. k - 1 /\ k - 1 \in 0 .. n
        BY <1>2, <1>7, <2>2
      <4>2. QED
        BY <1>2, <1>6, <4>1
    <3>2. Chain(l) = [j \in 0 .. Count |-> IF j <= n THEN q[j] ELSE Nil]
      <4>1. Linked(l, n, q)
        BY <1>1 DEF Lists
      <4>2. QED
        BY <4>1, ChainIs
    <3>3. \A j \in 0 .. n : Chain(l)[j] = q[j]
      BY <1>2, <3>2
    <3>4. StepsTo(Chain(l), stops) = k
      <4>1. DOMAIN Chain(l) = 0 .. Count
        BY <3>2
      <4>2. Chain(l)[k] \in stops
        BY <1>6, <1>7, <3>3
      <4>3. ASSUME NEW j \in 0 .. k - 1 PROVE Chain(l)[j] \notin stops
        <5>1. j \in 0 .. n
          BY <1>7
        <5>2. QED
          BY <1>6, <3>3, <5>1
      <4> HIDE DEF stops
      <4>4. QED
        BY <1>7, <4>1, <4>2, <4>3, StepsAre
    <3>5. Inserted(l, tm, t) = m
      <4>1. Inserted(l, tm, t) =
              [l EXCEPT !.link = [@ EXCEPT ![Chain(l)[k - 1]] = t, ![t] = Chain(l)[k]]]
        BY <3>1, <3>4, Zenon DEF Inserted
      <4>2. Chain(l)[k] = q[k] /\ Chain(l)[k - 1] = q[k - 1]
        BY <1>7, <3>1, <3>3
      <4>3. QED
        BY <4>1, <4>2, Zenon
    <3>6. q[k] \in Timer /\ q[k - 1] \in Timer
      BY <1>7, <3>1
    <3>7. m \in ListType
      BY <1>5, <1>8, <3>6 DEF ListType
    <3>8. /\ m.link[t] = q[k] /\ m.t0 = q[0]
          /\ \A x \in Timer : x # t => m.link[x] = t \/ m.link[x] = l.link[x]
      BY <1>2, <1>5, <1>8, <3>6
    <3> HIDE DEF m
    <3>9. QED
      BY <1>9, <3>5, <3>7, <3>8
  <2>3. QED
    BY <1>7, <2>1, <2>2
<1>12. \A x \in C : m.link[x] \in C /\ x # Nil
  BY <1>9, <1>10, <1>11, Timers
<1>13. ASSUME NEW j \in 0 .. Count PROVE Chain(m)[j] \in C
  <2> DEFINE D == {x \in 0 .. Count : Chain(m)[x] \notin C}
  <2>1. SUFFICES ASSUME D # {} PROVE FALSE
    OBVIOUS
  <2>2. PICK x \in D : \A y \in D : x <= y
    <3>1. D \in SUBSET Nat
      BY <1>2
    <3>2. QED
      BY <2>1, <3>1, Least
  <2>3. x \in 0 .. Count /\ Chain(m)[x] \notin C
    BY <2>2
  <2>4. x # 0
    BY <1>11, <2>3, ChainSteps
  <2>5. x \in 1 .. Count /\ x - 1 \in 0 .. Count /\ ~ (x <= x - 1)
    BY <1>2, <2>3, <2>4
  <2>6. Chain(m)[x - 1] \in C
    BY <2>2, <2>5
  <2>7. Chain(m)[x] = m.link[Chain(m)[x - 1]]
    BY <1>12, <2>5, <2>6, ChainSteps
  <2>8. QED
    BY <1>12, <2>3, <2>6, <2>7
<1>14. QED
  BY <1>9, <1>11, <1>13, ChainSteps

-----------------------------------------------------------------------------
(* What the invariant says of the list. *)

LEMMA Known ==
  ASSUME IInv
  PROVE  /\ count \in Nat /\ count <= MaxCount /\ count \in 0 .. MaxCount
         /\ list \in ListType /\ timeout \in TimeType
         /\ flags \in [Timer -> 0 .. 2] /\ flags2 \in [Timer -> 0 .. 1]
         /\ fifo \in [Timer -> User \cup {Nil}] /\ arming \in [User -> Pool \cup {Nil}]
         /\ misused \in BOOLEAN /\ endless \in BOOLEAN
         /\ BeingArmed \subseteq Pool /\ InUse \subseteq Timer
<1>1. /\ count \in 0 .. MaxCount /\ list \in ListType /\ timeout \in TimeType
      /\ flags \in [Timer -> 0 .. 2] /\ flags2 \in [Timer -> 0 .. 1]
      /\ fifo \in [Timer -> User \cup {Nil}] /\ arming \in [User -> Pool \cup {Nil}]
      /\ misused \in BOOLEAN /\ endless \in BOOLEAN
  BY DEF IInv, TypeOK, ListType, TimeType
<1>2. BeingArmed \subseteq Pool
  BY <1>1 DEF BeingArmed
<1>3. QED
  BY <1>1, <1>2, Words DEF InUse

\* The walk along the list meets its timers in order, and nothing else.
LEMMA Walk ==
  ASSUME NEW loose, NEW l \in ListType, NEW tm \in TimeType, NEW S, IsList(l, tm, S, loose)
  PROVE  /\ \E n \in 0 .. Count - 1 : Chain(l)[n] = Sentinel /\ Chain(l)[n + 1] = Nil
         /\ {Chain(l)[n] : n \in DOMAIN Chain(l)} \ {Nil} = S
         /\ Sentinel \in S /\ l.t0 \in S /\ \A x \in S : x \in Timer
         /\ loose = FALSE =>
              /\ \A n \in 0 .. Count - 1 : Chain(l)[n] # Nil /\ Chain(l)[n + 1] # Nil
                     => tm[Chain(l)[n]] <= tm[Chain(l)[n + 1]]
              /\ l.next = tm[l.t0] /\ \A x \in S : l.next <= tm[x]
<1>0. PICK n \in 0 .. Count - 1 : \E q \in [0 .. n -> Timer] :
         Lists(l, tm, n, q, loose) /\ S = {q[j] : j \in 0 .. n}
  BY DEF IsList, Count
<1>1. PICK q \in [0 .. n -> Timer] : Lists(l, tm, n, q, loose) /\ S = {q[j] : j \in 0 .. n}
  BY <1>0
<1>2. /\ n \in Nat /\ n < Count /\ 0 \in 0 .. n /\ n \in 0 .. n /\ q[0] = l.t0 /\ q[n] = Sentinel
      /\ Count \in Nat
      /\ loose = FALSE => l.next = tm[l.t0]
  BY <1>1, Timers DEF Lists, Linked
<1>3. loose = FALSE => \A j, k \in 0 .. n : j <= k => tm[q[j]] <= tm[q[k]]
  BY <1>1 DEF Lists, Linked
<1>4. Chain(l) = [j \in 0 .. Count |-> IF j <= n THEN q[j] ELSE Nil]
  <2>1. Linked(l, n, q)
    BY <1>1 DEF Lists
  <2>2. QED
    BY <2>1, ChainIs
<1>5. /\ DOMAIN Chain(l) = 0 .. Count
      /\ \A j \in 0 .. n : Chain(l)[j] = q[j] /\ q[j] \in Timer /\ q[j] # Nil
      /\ \A j \in n + 1 .. Count : Chain(l)[j] = Nil
  BY <1>2, <1>4, Timers
<1>6. \A j \in 0 .. Count : j \in 0 .. n \/ j \in n + 1 .. Count
  BY <1>2
<1>7. ASSUME loose = FALSE, NEW j \in 0 .. Count - 1, Chain(l)[j] # Nil, Chain(l)[j + 1] # Nil
      PROVE  tm[Chain(l)[j]] <= tm[Chain(l)[j + 1]]
  <2>1. j \in 0 .. Count /\ j + 1 \in 0 .. Count /\ j <= j + 1
    BY <1>2
  <2>2. j \in 0 .. n /\ j + 1 \in 0 .. n
    BY <1>5, <1>6, <1>7, <2>1
  <2>3. QED
    BY <1>3, <1>5, <1>7, <2>1, <2>2
<1>8. Chain(l)[n] = Sentinel /\ Chain(l)[n + 1] = Nil
  <2>1. n + 1 \in n + 1 .. Count
    BY <1>2
  <2>2. QED
    BY <1>2, <1>5, <2>1
<1>9. {Chain(l)[j] : j \in DOMAIN Chain(l)} \ {Nil} = S
  <2>1. ASSUME NEW j \in DOMAIN Chain(l), Chain(l)[j] # Nil PROVE Chain(l)[j] \in S
    BY <1>1, <1>5, <1>6, <2>1
  <2>2. ASSUME NEW x \in S PROVE x # Nil /\ \E j \in DOMAIN Chain(l) : x = Chain(l)[j]
    <3>1. PICK j \in 0 .. n : x = q[j]
      BY <1>1
    <3>2. j \in 0 .. Count
      BY <1>2
    <3>3. QED
      BY <1>5, <3>1, <3>2
  <2>3. {Chain(l)[j] : j \in DOMAIN Chain(l)} \ {Nil} \subseteq S
    BY <2>1
  <2>4. S \subseteq {Chain(l)[j] : j \in DOMAIN Chain(l)} \ {Nil}
    BY <2>2
  <2>5. QED
    BY <2>3, <2>4
<1>10. l.t0 \in S /\ Sentinel \in S /\ \A x \in S : x \in Timer
  BY <1>1, <1>2
<1>11. ASSUME loose = FALSE, NEW x \in S PROVE l.next <= tm[x]
  <2>1. PICK j \in 0 .. n : x = q[j]
    BY <1>1
  <2>2. 0 <= j
    BY <1>2
  <2>3. tm[q[0]] <= tm[q[j]]
    BY <1>2, <1>3, <1>11, <2>2
  <2>4. QED
    BY <1>2, <1>11, <2>1, <2>3
<1>12. QED
  BY <1>2, <1>7, <1>8, <1>9, <1>10, <1>11

\* Timeouts of other timers do not matter to a list.
LEMMA OthersDoNotMatter ==
  ASSUME NEW l \in ListType, NEW tm \in TimeType, NEW new \in TimeType,
         NEW loose, NEW S, IsList(l, tm, S, loose),
         loose = FALSE => \A x \in S : new[x] = tm[x]
  PROVE  IsList(l, new, S, loose)
<1>0. PICK n \in 0 .. Count - 1 : \E q \in [0 .. n -> Timer] :
         Lists(l, tm, n, q, loose) /\ S = {q[j] : j \in 0 .. n}
  BY DEF IsList, Count
<1>1. PICK q \in [0 .. n -> Timer] : Lists(l, tm, n, q, loose) /\ S = {q[j] : j \in 0 .. n}
  BY <1>0
<1>2. loose = FALSE => \A j \in 0 .. n : new[q[j]] = tm[q[j]]
  BY <1>1
<1>3. 0 \in 0 .. n
  BY Timers
<1>4. loose = FALSE => new[l.t0] = tm[l.t0]
  BY <1>1, <1>2, <1>3 DEF Lists, Linked
<1>5. Lists(l, new, n, q, loose)
  BY <1>1, <1>2, <1>4 DEF Lists, Linked
<1>6. QED
  BY <1>1, <1>5 DEF IsList, Count

\* A list that misuse has made loose stays a list.
LEMMA Loosened ==
  ASSUME NEW l, NEW tm, NEW S, NEW loose, IsList(l, tm, S, loose)
  PROVE  IsList(l, tm, S, TRUE)
<1>1. ASSUME NEW n, NEW q, Lists(l, tm, n, q, loose) PROVE Lists(l, tm, n, q, TRUE)
  BY <1>1 DEF Lists
<1>2. QED
  BY <1>1 DEF IsList

\* As long as the list has an end.
LEMMA Ends ==
  ASSUME IInv, endless = FALSE
  PROVE  /\ IsList(list, timeout, Listed, misused) /\ InUse \subseteq Listed
         /\ misused = FALSE => Listed = InUse
         /\ Listed \subseteq Timer /\ Sentinel \in Listed /\ TaskTimer \in Listed
         /\ TaskTimer \in InUse /\ timeout[Sentinel] = Never
         /\ ArmingPart /\ KernelPart
<1>1. ListPart /\ ArmingPart /\ KernelPart
  BY DEF IInv, Ending
<1>2. IsList(list, timeout, Listed, misused) /\ list \in ListType /\ timeout \in TimeType
  BY <1>1, Known DEF ListPart
<1>3. Listed \subseteq Timer /\ Sentinel \in Listed
  BY <1>2, Walk
<1>4. TaskTimer \in InUse
  BY <1>1, Known, Timers DEF InUse, KernelPart
<1>5. QED
  BY <1>1, <1>2, <1>3, <1>4 DEF ListPart, KernelPart

LEMMA IInvImplies ==
  ASSUME IInv PROVE ListIsExact
<1>1. TypeOK
  BY DEF IInv
<1>2. CASE endless = TRUE
  <2>1. misused = TRUE /\ Sentinel \notin Listed
    BY <1>2 DEF IInv
  <2>2. QED
    BY <1>1, <1>2, <2>1 DEF ListIsExact
<1>3. CASE endless = FALSE
  <2>1. Sentinel \in Listed /\ (misused = FALSE => Listed = InUse)
    BY <1>3, Ends
  <2>2. /\ \E n \in 0 .. Count - 1 : Chain(list)[n] = Sentinel /\ Chain(list)[n + 1] = Nil
        /\ misused = FALSE =>
             /\ \A n \in 0 .. Count - 1 :
                    Chain(list)[n] # Nil /\ Chain(list)[n + 1] # Nil
                        => timeout[Chain(list)[n]] <= timeout[Chain(list)[n + 1]]
             /\ list.next = timeout[list.t0]
    <3>1. IsList(list, timeout, Listed, misused) /\ list \in ListType /\ timeout \in TimeType
      BY <1>3, Known, Ends
    <3>2. QED
      BY <3>1, Walk
  <2>3. misused \in BOOLEAN
    BY Known
  <2>4. QED
    BY <1>1, <1>3, <2>1, <2>2, <2>3 DEF ListIsExact, Count, InUse
<1>4. QED
  BY <1>2, <1>3, Known


-----------------------------------------------------------------------------
(* The boot establishes the invariant. *)

LEMMA InitIInv ==
  ASSUME Init PROVE IInv
<1>1. PICK s \in Slices :
         /\ timeout = [t \in Timer |-> IF t = Sentinel THEN Never
                                       ELSE IF t = TaskTimer THEN s ELSE 0]
         /\ list = [t0 |-> TaskTimer, next |-> s,
                    link |-> [t \in Timer |-> IF t = TaskTimer THEN Sentinel ELSE Nil]]
  BY DEF Init
<1>2. /\ count = 0 /\ flags = [t \in Timer |-> IF t \in Pool THEN 0 ELSE 2]
      /\ flags2 = [t \in Timer |-> 0] /\ fifo = [t \in Timer |-> Nil]
      /\ arming = [u \in User |-> Nil] /\ misused = FALSE /\ endless = FALSE
  BY DEF Init
<1>3. s \in 0 .. Word - 1 /\ 0 \in 0 .. Word - 1
  BY Words
<1>4. timeout \in TimeType /\ timeout[Sentinel] = Never /\ timeout[TaskTimer] = s
  BY <1>1, <1>3, Words, Timers DEF TimeType
<1>5. /\ list \in ListType /\ list.t0 = TaskTimer /\ list.next = s
      /\ list.link[TaskTimer] = Sentinel /\ list.link[Sentinel] = Nil
  BY <1>1, <1>3, Timers DEF ListType
<1>6. TypeOK
  <2>1. misused \in BOOLEAN /\ endless \in BOOLEAN
    BY <1>2, Zenon
  <2>2. /\ count \in 0 .. MaxCount /\ flags \in [Timer -> 0 .. 2] /\ flags2 \in [Timer -> 0 .. 1]
        /\ fifo \in [Timer -> User \cup {Nil}] /\ arming \in [User -> Pool \cup {Nil}]
    BY <1>2, Words
  <2>3. QED
    BY <1>4, <1>5, <2>1, <2>2 DEF TypeOK, ListType, TimeType
<1>7. BeingArmed = {}
  BY <1>2 DEF BeingArmed
<1>8. InUse = {TaskTimer, Sentinel}
  BY <1>2, <1>7, Timers DEF InUse, Timer
<1> DEFINE q == [j \in 0 .. 1 |-> IF j = 0 THEN TaskTimer ELSE Sentinel]
<1>9. q \in [0 .. 1 -> Timer] /\ q[0] = TaskTimer /\ q[1] = Sentinel
  BY Timers
<1>10. \A j \in 0 .. 1 : j = 0 \/ j = 1
  OBVIOUS
<1> HIDE DEF q
<1>11. \A j, k \in 0 .. 1 : q[j] = q[k] => j = k
  BY <1>9, <1>10, Timers
<1>12. 1 \in 0 .. Count - 1
  BY <1>9, <1>11, FewPlaces
<1>13. s <= Never
  BY <1>3, Words
<1>14. Lists(list, timeout, 1, q, FALSE)
  <2>1. \A j, k \in 0 .. 1 : j <= k => timeout[q[j]] <= timeout[q[k]]
    <3>1. /\ timeout[q[0]] <= timeout[q[1]]
          /\ timeout[q[0]] <= timeout[q[0]] /\ timeout[q[1]] <= timeout[q[1]]
      BY <1>3, <1>4, <1>9, <1>13, Words
    <3>2. QED
      BY <1>10, <3>1
  <2>2. \A j \in 0 .. 1 - 1 : list.link[q[j]] = q[j + 1]
    BY <1>5, <1>9
  <2>3. QED
    BY <1>4, <1>5, <1>9, <1>11, <2>1, <2>2 DEF Lists, Linked
<1>15. InUse = {q[j] : j \in 0 .. 1}
  <2>1. 0 \in 0 .. 1 /\ 1 \in 0 .. 1
    OBVIOUS
  <2>2. QED
    BY <1>8, <1>9, <1>10, <2>1
<1>16. IsList(list, timeout, InUse, FALSE)
  BY <1>9, <1>12, <1>14, <1>15 DEF IsList, Count
<1>17. Listed = InUse
  BY <1>4, <1>5, <1>16, Walk DEF Listed
<1>18. ListPart
  BY <1>2, <1>16, <1>17 DEF ListPart
<1>19. ArmingPart
  BY <1>2 DEF ArmingPart
<1>20. KernelPart
  BY <1>2, <1>4, Timers DEF KernelPart
<1>21. QED
  BY <1>2, <1>6, <1>18, <1>19, <1>20 DEF IInv, Ending

-----------------------------------------------------------------------------
(* Each operation preserves it. *)

\* The parts of the invariant, as each operation has to establish them.
LEMMA IInvNext ==
  ASSUME count' \in 0 .. MaxCount, list' \in ListType, timeout' \in TimeType,
         flags' \in [Timer -> 0 .. 2], flags2' \in [Timer -> 0 .. 1],
         fifo' \in [Timer -> User \cup {Nil}], arming' \in [User -> Pool \cup {Nil}],
         misused' \in BOOLEAN, endless' = FALSE,
         NEW X, IsList(list', timeout', X, misused'),
         InUse' \subseteq X, misused' = FALSE => X = InUse',
         ArmingPart', KernelPart'
  PROVE  IInv' /\ Listed' = X
<1>1. {Chain(list')[n] : n \in DOMAIN Chain(list')} \ {Nil} = X
  BY Walk
<1>2. Listed' = X
  BY <1>1 DEF Listed
<1>3. Ending'
  BY <1>2 DEF Ending, ListPart
<1>4. endless' \in BOOLEAN
  BY Zenon
<1>5. TypeOK'
  BY <1>4 DEF TypeOK, ListType, TimeType
<1>6. QED
  BY <1>2, <1>3, <1>5 DEF IInv

\* What a user has allocated is not being armed by another one, nor by itself.
LEMMA OwnIsOwn ==
  ASSUME IInv, endless = FALSE, NEW u \in User, Idle(u)
  PROVE  /\ Of(u) \subseteq Pool
         /\ \A t \in Of(u) : t \in Timer /\ t # Sentinel /\ t # TaskTimer /\ fifo[t] = u
         /\ \A t \in Of(u) : t \notin BeingArmed /\ \A v \in User : arming[v] # t
         /\ \A t \in Of(u) : flags[t] = 2 => t \in InUse /\ t \in Listed
<1>1. ASSUME NEW t \in Of(u), NEW v \in User, arming[v] = t PROVE FALSE
  <2>1. t \in Pool /\ fifo[t] = u
    BY DEF Of
  <2>2. t # Nil
    BY <2>1, Timers
  <2>3. fifo[t] = v
    BY <1>1, <2>2, Ends DEF ArmingPart
  <2>4. QED
    BY <1>1, <2>1, <2>2, <2>3 DEF Idle
<1>2. \A t \in Of(u) : t \in Pool /\ t \notin BeingArmed
  BY <1>1 DEF Of, BeingArmed
<1>3. \A t \in Of(u) : flags[t] = 2 => t \in InUse
  BY <1>2, Timers DEF InUse
<1>4. QED
  BY <1>1, <1>2, <1>3, Timers, Ends DEF Of

\* The users that are arming a timer, when nobody starts or ends to.
LEMMA ArmingKept ==
  ASSUME IInv, endless = FALSE, arming' = arming, fifo' = fifo,
         \A x \in BeingArmed : flags[x] # 0 => flags'[x] # 0,
         misused' = FALSE => misused = FALSE /\ \A x \in BeingArmed : flags'[x] = flags[x]
  PROVE  ArmingPart' /\ BeingArmed' = BeingArmed
<1>1. ASSUME NEW v \in User, arming[v] # Nil
      PROVE  /\ flags'[arming[v]] # 0 /\ fifo'[arming[v]] = v
             /\ misused' = FALSE => flags'[arming[v]] = 2
  <2>1. /\ flags[arming[v]] # 0 /\ fifo[arming[v]] = v
        /\ misused = FALSE => flags[arming[v]] = 2
    BY <1>1, Ends DEF ArmingPart
  <2>2. arming[v] \in BeingArmed
    BY <1>1 DEF BeingArmed
  <2>3. QED
    BY <2>1, <2>2
<1>2. ArmingPart'
  BY <1>1 DEF ArmingPart
<1>3. BeingArmed' = BeingArmed
  BY DEF BeingArmed
<1>4. QED
  BY <1>2, <1>3

LEMMA AllocStep ==
  ASSUME IInv, endless = FALSE,
         NEW u \in User, NEW t \in Pool, NEW app \in {0, 1}, Alloc(u, t, app)
  PROVE  IInv' /\ Listed' = Listed
<1>1. /\ flags[t] = 0 /\ flags' = [flags EXCEPT ![t] = 1] /\ flags2' = [flags2 EXCEPT ![t] = app]
      /\ fifo' = [fifo EXCEPT ![t] = u]
      /\ count' = count /\ list' = list /\ timeout' = timeout /\ arming' = arming
      /\ misused' = misused /\ endless' = endless
  BY DEF Alloc
<1>2. t \in Timer /\ t # Sentinel /\ t # TaskTimer
  BY Timers
<1>3. /\ flags' \in [Timer -> 0 .. 2] /\ flags'[t] = 1
      /\ \A x \in Timer : x # t => flags'[x] = flags[x] /\ fifo'[x] = fifo[x]
  BY <1>1, <1>2, Known
<1>4. BeingArmed' = BeingArmed
  BY <1>1 DEF BeingArmed
<1>5. InUse' = InUse
  BY <1>1, <1>2, <1>3, <1>4 DEF InUse
<1>6. ArmingPart'
  <2>1. ASSUME NEW v \in User, arming[v] # Nil
        PROVE  /\ flags'[arming[v]] # 0 /\ fifo'[arming[v]] = v
               /\ misused = FALSE => flags'[arming[v]] = 2
    <3>1. /\ flags[arming[v]] # 0 /\ fifo[arming[v]] = v
          /\ misused = FALSE => flags[arming[v]] = 2
      BY <2>1, Ends DEF ArmingPart
    <3>2. arming[v] \in Timer /\ arming[v] # t
      BY <1>1, <2>1, <3>1, Known, Timers
    <3>3. QED
      BY <1>3, <3>1, <3>2
  <2>2. QED
    BY <1>1, <2>1 DEF ArmingPart
<1>7. KernelPart'
  BY <1>1, <1>2, <1>3, Timers, Ends DEF KernelPart
<1>8. /\ flags2' \in [Timer -> 0 .. 1] /\ fifo' \in [Timer -> User \cup {Nil}]
  BY <1>1, <1>2, Known
<1>9. /\ count' \in 0 .. MaxCount /\ list' \in ListType /\ timeout' \in TimeType
      /\ arming' \in [User -> Pool \cup {Nil}]
      /\ misused' \in BOOLEAN /\ endless' = FALSE
  BY <1>1, Known
<1>10. /\ IsList(list', timeout', Listed, misused') /\ InUse' \subseteq Listed
       /\ misused' = FALSE => Listed = InUse'
  BY <1>1, <1>5, Ends
<1>11. QED
  BY <1>3, <1>6, <1>7, <1>8, <1>9, <1>10, IInvNext

LEMMA ArmStep ==
  ASSUME IInv, endless = FALSE,
         NEW u \in User, NEW t \in Pool, NEW d \in Delays, Arm(u, t, d)
  PROVE  /\ IInv' /\ Listed' = Listed
         /\ misused' = FALSE => misused = FALSE /\ \A x \in Listed : timeout'[x] = timeout[x]
         /\ misused = FALSE /\ misused' = TRUE => t \in Listed \ {Sentinel}
<1>1. /\ Idle(u) /\ t \in Of(u) /\ misused' = (misused \/ flags[t] = 2)
      /\ timeout' = [timeout EXCEPT ![t] = (d + count) % Word]
      /\ flags' = [flags EXCEPT ![t] = 2] /\ arming' = [arming EXCEPT ![u] = t]
      /\ count' = count /\ list' = list /\ flags2' = flags2 /\ fifo' = fifo
      /\ endless' = endless
  BY DEF Arm
<1>2. /\ t \in Timer /\ t # Sentinel /\ t # TaskTimer /\ fifo[t] = u /\ t # Nil
      /\ flags[t] = 2 => t \in Listed
  BY <1>1, OwnIsOwn, Timers
<1>3. (d + count) % Word \in 0 .. Word - 1
  BY Known, Words
<1>4. timeout' \in TimeType /\ \A x \in Timer : x # t => timeout'[x] = timeout[x]
  BY <1>1, <1>2, <1>3, Known DEF TimeType
<1>5. /\ flags' \in [Timer -> 0 .. 2] /\ flags'[t] = 2
      /\ \A x \in Timer : x # t => flags'[x] = flags[x]
  BY <1>1, <1>2, Known
<1>6. /\ arming' \in [User -> Pool \cup {Nil}] /\ arming'[u] = t
      /\ \A v \in User : v # u => arming'[v] = arming[v]
  BY <1>1, Known
<1>7. BeingArmed' = BeingArmed \cup {t}
  <2>1. arming[u] = Nil
    BY <1>1 DEF Idle
  <2>2. ASSUME NEW x \in BeingArmed' PROVE x \in BeingArmed \cup {t}
    BY <1>6 DEF BeingArmed
  <2>3. ASSUME NEW x \in BeingArmed PROVE x \in BeingArmed'
    <3>1. PICK v \in User : x = arming[v]
      BY DEF BeingArmed
    <3>2. x # Nil /\ v # u
      BY <2>1, <3>1 DEF BeingArmed
    <3>3. QED
      BY <1>6, <3>1, <3>2 DEF BeingArmed
  <2>4. t \in BeingArmed'
    BY <1>2, <1>6 DEF BeingArmed
  <2>5. QED
    BY <2>2, <2>3, <2>4
<1>8. InUse' = InUse \ {t}
  BY <1>2, <1>5, <1>7 DEF InUse
<1>9. /\ misused' \in BOOLEAN
      /\ misused' = FALSE => misused = FALSE /\ flags[t] # 2
      /\ misused = FALSE /\ misused' = TRUE => flags[t] = 2
  BY <1>1, Known, Zenon
<1>10. misused' = FALSE => t \notin Listed /\ InUse' = InUse
  <2>1. flags[t] # 2 => t \notin InUse
    BY DEF InUse
  <2>2. QED
    BY <1>8, <1>9, <2>1, Ends
<1>11. \A x \in Listed : x # t => timeout'[x] = timeout[x]
  BY <1>4, Ends
<1>12. misused' = FALSE => \A x \in Listed : timeout'[x] = timeout[x]
  BY <1>10, <1>11
<1>13. IsList(list', timeout', Listed, misused')
  <2>1. IsList(list, timeout, Listed, misused')
    <3>1. CASE misused' = FALSE
      BY <1>9, <3>1, Ends
    <3>2. CASE misused' = TRUE
      BY <3>2, Ends, Loosened
    <3>3. QED
      BY <1>9, <3>1, <3>2
  <2>2. PICK tm, loose : tm \in TimeType /\ tm = timeout' /\ loose = misused'
    BY <1>4
  <2>3. IsList(list, tm, Listed, loose)
    BY <1>12, <2>1, <2>2, Known, OthersDoNotMatter
  <2>4. QED
    BY <1>1, <2>2, <2>3
<1>14. ArmingPart'
  <2>1. ASSUME NEW v \in User, arming'[v] # Nil
        PROVE  /\ flags'[arming'[v]] # 0 /\ fifo'[arming'[v]] = v
               /\ misused' = FALSE => flags'[arming'[v]] = 2
    <3>1. CASE v = u
      BY <1>1, <1>2, <1>5, <1>6, <3>1
    <3>2. CASE v # u
      <4>1. arming'[v] = arming[v] /\ arming[v] # Nil
        BY <1>6, <2>1, <3>2
      <4>2. /\ flags[arming[v]] # 0 /\ fifo[arming[v]] = v
            /\ misused = FALSE => flags[arming[v]] = 2
        BY <4>1, Ends DEF ArmingPart
      <4>3. arming[v] \in Timer /\ arming[v] # t
        BY <1>1, <1>2, <3>2, <4>1, <4>2, Known, Timers
      <4>4. QED
        BY <1>1, <1>5, <1>9, <4>1, <4>2, <4>3
    <3>3. QED
      BY <3>1, <3>2
  <2>2. QED
    BY <2>1 DEF ArmingPart
<1>15. KernelPart'
  BY <1>2, <1>4, <1>5, Timers, Ends DEF KernelPart
<1>16. /\ count' \in 0 .. MaxCount /\ list' \in ListType /\ endless' = FALSE
       /\ flags2' \in [Timer -> 0 .. 1] /\ fifo' \in [Timer -> User \cup {Nil}]
  BY <1>1, Known
<1>17. misused' = FALSE => Listed = InUse'
  BY <1>8, <1>9, <1>10, Ends
<1>18. InUse' \subseteq Listed
  BY <1>8, Ends
<1>19. IInv' /\ Listed' = Listed
  BY <1>4, <1>5, <1>6, <1>9, <1>13, <1>14, <1>15, <1>16, <1>17, <1>18, IInvNext
<1>20. QED
  BY <1>2, <1>9, <1>12, <1>19

\* An insertion either adds a timer to the list or closes it to a circle.
LEMMA InsertStep ==
  ASSUME IInv, endless = FALSE, NEW u \in User, Insert(u)
  PROVE  /\ IInv' /\ arming[u] \in Timer
         /\ misused = FALSE => arming[u] \notin Listed /\ Listed' = Listed \cup {arming[u]}
<1>1. /\ arming[u] # Nil /\ list' = Inserted(list, timeout, arming[u])
      /\ arming' = [arming EXCEPT ![u] = Nil] /\ endless' = (arming[u] \in Listed)
      /\ count' = count /\ flags' = flags /\ flags2' = flags2 /\ timeout' = timeout /\ fifo' = fifo
      /\ misused' = misused
  BY DEF Insert, Idle
<1>2. PICK t : t = arming[u]
  OBVIOUS
<1>3. t \in Pool /\ t \in Timer /\ t # Nil /\ t # Sentinel
  BY <1>1, <1>2, Known, Timers
<1>4. flags[t] # 0 /\ fifo[t] = u
  BY <1>1, <1>2, Ends DEF ArmingPart
<1>5. t \in BeingArmed
  BY <1>2, <1>3 DEF BeingArmed
<1>6. misused = FALSE => t \notin Listed
  BY <1>5, Ends DEF InUse
<1>7. /\ arming' \in [User -> Pool \cup {Nil}] /\ arming'[u] = Nil
      /\ \A v \in User : v # u => arming'[v] = arming[v]
  BY <1>1, Known
<1>8. /\ count' \in 0 .. MaxCount /\ timeout' \in TimeType /\ flags' \in [Timer -> 0 .. 2]
      /\ flags2' \in [Timer -> 0 .. 1] /\ fifo' \in [Timer -> User \cup {Nil}]
      /\ misused' \in BOOLEAN
  BY <1>1, Known
<1>9. list' = Inserted(list, timeout, t)
  BY <1>1, <1>2
<1>10. CASE t \in Listed
  <2>1. misused' = TRUE /\ endless' = TRUE
    BY <1>1, <1>2, <1>6, <1>8, <1>10
  <2>2. /\ list' \in ListType
        /\ \A j \in DOMAIN Chain(list') : Chain(list')[j] # Sentinel
    BY <1>3, <1>9, <1>10, Known, Ends, Loops
  <2>3. Sentinel \notin Listed'
    BY <2>2 DEF Listed
  <2>4. endless' \in BOOLEAN
    BY <2>1
  <2>5. TypeOK'
    BY <1>7, <1>8, <2>2, <2>4 DEF TypeOK, ListType, TimeType
  <2>6. IInv'
    BY <2>1, <2>3, <2>5 DEF IInv
  <2>7. QED
    BY <1>2, <1>3, <1>6, <1>10, <2>6
<1>11. CASE t \notin Listed
  <2>1. endless' = FALSE
    <3>1. (arming[u] \in Listed) = FALSE
      BY <1>2, <1>11
    <3>2. QED
      BY <1>1, <3>1
  <2>2. BeingArmed' = BeingArmed \ {t}
    <3>1. ASSUME NEW v \in User, v # u PROVE arming[v] # t
      <4>1. ASSUME arming[v] = t PROVE FALSE
        <5>1. fifo[t] = v
          BY <1>3, <4>1, Ends DEF ArmingPart
        <5>2. QED
          BY <1>4, <3>1, <5>1
      <4>2. QED
        BY <4>1
    <3>2. ASSUME NEW x \in BeingArmed' PROVE x \in BeingArmed \ {t}
      <4>1. PICK v \in User : x = arming'[v] /\ x # Nil
        BY DEF BeingArmed
      <4>2. v # u
        BY <1>7, <4>1
      <4>3. x = arming[v] /\ x # t
        BY <1>7, <3>1, <4>1, <4>2
      <4>4. QED
        BY <4>1, <4>3 DEF BeingArmed
    <3>3. ASSUME NEW x \in BeingArmed \ {t} PROVE x \in BeingArmed'
      <4>1. PICK v \in User : x = arming[v] /\ x # Nil
        BY DEF BeingArmed
      <4>2. v # u
        BY <1>2, <3>3, <4>1
      <4>3. x = arming'[v]
        BY <1>7, <4>1, <4>2
      <4>4. QED
        BY <4>1, <4>3 DEF BeingArmed
    <3>4. QED
      BY <3>2, <3>3
  <2>3. /\ InUse' \subseteq InUse \cup {t}
        /\ flags[t] = 2 => InUse' = InUse \cup {t}
    BY <1>1, <1>3, <2>2 DEF InUse
  <2>4. misused = FALSE => flags[t] = 2
    BY <1>1, <1>2, Ends DEF ArmingPart
  <2>5. list' \in ListType /\ IsList(list', timeout', Listed \cup {t}, misused')
    <3>1. /\ Inserted(list, timeout, t) \in ListType
          /\ IsList(Inserted(list, timeout, t), timeout, Listed \cup {t}, misused)
      BY <1>3, <1>11, Known, Ends, Inserts
    <3>2. QED
      BY <1>1, <1>9, <3>1
  <2>6. ArmingPart'
    <3>1. ASSUME NEW v \in User, arming'[v] # Nil
          PROVE  /\ flags'[arming'[v]] # 0 /\ fifo'[arming'[v]] = v
                 /\ misused' = FALSE => flags'[arming'[v]] = 2
      <4>1. arming'[v] = arming[v]
        BY <1>7, <3>1
      <4>2. /\ flags[arming[v]] # 0 /\ fifo[arming[v]] = v
            /\ misused = FALSE => flags[arming[v]] = 2
        BY <3>1, <4>1, Ends DEF ArmingPart
      <4>3. QED
        BY <1>1, <4>1, <4>2
    <3>2. QED
      BY <3>1 DEF ArmingPart
  <2>7. KernelPart'
    BY <1>1, Ends DEF KernelPart
  <2>8. /\ InUse' \subseteq Listed \cup {t}
        /\ misused' = FALSE => Listed \cup {t} = InUse'
    BY <1>1, <2>3, <2>4, Ends
  <2>9. IInv' /\ Listed' = Listed \cup {t}
    BY <1>7, <1>8, <2>1, <2>5, <2>6, <2>7, <2>8, IInvNext
  <2>10. QED
    BY <1>2, <1>3, <1>11, <2>9
<1>12. QED
  BY <1>10, <1>11

LEMMA CancelStep ==
  ASSUME IInv, endless = FALSE, NEW u \in User, NEW t \in Pool, Cancel(u, t)
  PROVE  IInv' /\ Listed' = Listed \ {t} /\ {t} \in SUBSET (Listed \ {Sentinel})
<1>1. /\ Idle(u) /\ t \in Of(u) /\ flags[t] = 2
      /\ list' = TakenOut(list, timeout, t) /\ flags' = [flags EXCEPT ![t] = 1]
      /\ count' = count /\ flags2' = flags2 /\ timeout' = timeout /\ fifo' = fifo
      /\ arming' = arming /\ misused' = misused /\ endless' = endless
  BY DEF Cancel
<1>2. t \in Timer /\ t # Sentinel /\ t # TaskTimer /\ t \notin BeingArmed /\ t \in Listed
  BY <1>1, OwnIsOwn
<1>3. /\ flags' \in [Timer -> 0 .. 2] /\ flags'[t] = 1
      /\ \A x \in Timer : x # t => flags'[x] = flags[x]
  BY <1>1, <1>2, Known
<1>4. ArmingPart' /\ BeingArmed' = BeingArmed
  <2>1. \A x \in BeingArmed : flags'[x] = flags[x]
    BY <1>2, <1>3, Known, Timers
  <2>2. QED
    BY <1>1, <2>1, ArmingKept
<1>5. InUse' = InUse \ {t}
  BY <1>3, <1>4 DEF InUse
<1>6. list' \in ListType /\ IsList(list', timeout', Listed \ {t}, misused')
  <2>1. /\ TakenOut(list, timeout, t) \in ListType
        /\ IsList(TakenOut(list, timeout, t), timeout, Listed \ {t}, misused)
    BY <1>2, Known, Ends, TakesOut
  <2>2. QED
    BY <1>1, <2>1
<1>7. KernelPart'
  BY <1>1, <1>2, <1>3, Timers, Ends DEF KernelPart
<1>8. /\ count' \in 0 .. MaxCount /\ timeout' \in TimeType /\ flags2' \in [Timer -> 0 .. 1]
      /\ fifo' \in [Timer -> User \cup {Nil}] /\ arming' \in [User -> Pool \cup {Nil}]
      /\ misused' \in BOOLEAN /\ endless' = FALSE
  BY <1>1, Known
<1>9. /\ InUse' \subseteq Listed \ {t}
      /\ misused' = FALSE => Listed \ {t} = InUse'
  BY <1>1, <1>5, Ends
<1>10. IInv' /\ Listed' = Listed \ {t}
  BY <1>3, <1>4, <1>6, <1>7, <1>8, <1>9, IInvNext
<1>11. QED
  BY <1>2, <1>10

LEMMA FreeStep ==
  ASSUME IInv, endless = FALSE, NEW u \in User, NEW t \in Pool, Free(u, t)
  PROVE  /\ IInv' /\ Listed' = Listed
         /\ misused' = FALSE => misused = FALSE
         /\ misused = FALSE /\ misused' = TRUE => t \in Listed \ {Sentinel}
<1>1. /\ Idle(u) /\ t \in Of(u) /\ flags' = [flags EXCEPT ![t] = 0]
      /\ misused' = (misused \/ flags[t] = 2)
      /\ count' = count /\ list' = list /\ flags2' = flags2 /\ timeout' = timeout
      /\ fifo' = fifo /\ arming' = arming /\ endless' = endless
  BY DEF Free
<1>2. /\ t \in Timer /\ t # Sentinel /\ t # TaskTimer /\ t \notin BeingArmed
      /\ flags[t] = 2 => t \in Listed
  BY <1>1, OwnIsOwn
<1>3. /\ flags' \in [Timer -> 0 .. 2] /\ flags'[t] = 0
      /\ \A x \in Timer : x # t => flags'[x] = flags[x]
  BY <1>1, <1>2, Known
<1>4. /\ misused' \in BOOLEAN
      /\ misused' = FALSE => misused = FALSE /\ flags[t] # 2
      /\ misused = FALSE /\ misused' = TRUE => flags[t] = 2
  BY <1>1, Known, Zenon
<1>5. ArmingPart' /\ BeingArmed' = BeingArmed
  <2>1. \A x \in BeingArmed : flags'[x] = flags[x]
    BY <1>2, <1>3, Known, Timers
  <2>2. QED
    BY <1>1, <1>4, <2>1, ArmingKept
<1>6. InUse' = InUse \ {t}
  BY <1>3, <1>5 DEF InUse
<1>7. KernelPart'
  BY <1>1, <1>2, <1>3, Timers, Ends DEF KernelPart
<1>8. /\ count' \in 0 .. MaxCount /\ timeout' \in TimeType /\ flags2' \in [Timer -> 0 .. 1]
      /\ fifo' \in [Timer -> User \cup {Nil}] /\ arming' \in [User -> Pool \cup {Nil}]
      /\ list' \in ListType /\ endless' = FALSE
  BY <1>1, Known
<1>9. IsList(list', timeout', Listed, misused')
  <2>1. CASE misused' = FALSE
    BY <1>1, <1>4, <2>1, Ends
  <2>2. CASE misused' = TRUE
    BY <1>1, <2>2, Ends, Loosened
  <2>3. QED
    BY <1>4, <2>1, <2>2
<1>10. /\ InUse' \subseteq Listed
       /\ misused' = FALSE => Listed = InUse'
  <2>1. flags[t] # 2 => t \notin InUse
    BY DEF InUse
  <2>2. QED
    BY <1>4, <1>6, <2>1, Ends
<1>11. IInv' /\ Listed' = Listed
  BY <1>3, <1>4, <1>5, <1>7, <1>8, <1>9, <1>10, IInvNext
<1>12. QED
  BY <1>2, <1>4, <1>11

\* The timers that timer_cancelall frees.
Mine(u) == {t \in Of(u) : flags2[t] # 0}

LEMMA CancelAllStep ==
  ASSUME IInv, endless = FALSE, NEW u \in User, CancelAll(u)
  PROVE  IInv' /\ \E D \in SUBSET (Listed \ {Sentinel}) : Listed' = Listed \ D
<1> DEFINE D == {t \in Mine(u) : flags[t] = 2}
<1>1. /\ Idle(u)
      /\ flags' = [t \in Timer |-> IF t \in Mine(u) THEN 0 ELSE flags[t]]
      /\ count' = count /\ flags2' = flags2 /\ timeout' = timeout
      /\ fifo' = fifo /\ arming' = arming /\ misused' = misused /\ endless' = endless
  BY Zenon DEF CancelAll, Mine
<1>2. list' = FoldSet(LAMBDA t, m : TakenOut(m, timeout, t), list, D)
  BY Zenon DEF CancelAll, Mine
<1>3. /\ Mine(u) \subseteq Timer /\ Sentinel \notin Mine(u) /\ TaskTimer \notin Mine(u)
      /\ Mine(u) \cap BeingArmed = {}
  BY <1>1, OwnIsOwn DEF Mine
<1>4. D \in SUBSET (Listed \ {Sentinel})
  BY <1>1, <1>3, OwnIsOwn DEF Mine
<1>5. /\ flags' \in [Timer -> 0 .. 2] /\ \A x \in Mine(u) : flags'[x] = 0
      /\ \A x \in Timer : x \notin Mine(u) => flags'[x] = flags[x]
  BY <1>1, <1>3, Known
<1>6. ArmingPart' /\ BeingArmed' = BeingArmed
  <2>1. \A x \in BeingArmed : flags'[x] = flags[x]
    BY <1>3, <1>5, Known, Timers
  <2>2. QED
    BY <1>1, <2>1, ArmingKept
<1>7. InUse' = InUse \ D
  <2>1. ASSUME NEW x \in InUse' PROVE x \in InUse \ D
    <3>1. x \in Timer /\ flags'[x] = 2 /\ x \notin BeingArmed
      BY <1>6 DEF InUse
    <3>2. x \notin Mine(u)
      BY <1>5, <3>1
    <3>3. QED
      BY <1>5, <3>1, <3>2 DEF InUse
  <2>2. ASSUME NEW x \in InUse \ D PROVE x \in InUse'
    <3>1. x \in Timer /\ flags[x] = 2 /\ x \notin BeingArmed
      BY DEF InUse
    <3>2. x \notin Mine(u)
      BY <3>1, <2>2
    <3>3. QED
      BY <1>5, <1>6, <3>1, <3>2 DEF InUse
  <2>3. QED
    BY <2>1, <2>2
<1> HIDE DEF D
<1>8. list' \in ListType /\ IsList(list', timeout, Listed \ D, misused)
  <2>1. IsList(list, timeout, Listed, misused) /\ Listed \subseteq Timer
        /\ list \in ListType /\ timeout \in TimeType
    BY Known, Ends
  <2>2. LET l == FoldSet(LAMBDA t, m : TakenOut(m, timeout, t), list, D)
        IN  l \in ListType /\ IsList(l, timeout, Listed \ D, misused)
    BY <1>4, <2>1, CancelsAll, Zenon
  <2>3. QED
    BY <1>2, <2>2, Zenon
<1>9. IsList(list', timeout', Listed \ D, misused')
  BY <1>1, <1>8
<1>10. KernelPart'
  BY <1>1, <1>3, <1>5, Timers, Ends DEF KernelPart
<1>11. /\ count' \in 0 .. MaxCount /\ timeout' \in TimeType /\ flags2' \in [Timer -> 0 .. 1]
       /\ fifo' \in [Timer -> User \cup {Nil}] /\ arming' \in [User -> Pool \cup {Nil}]
       /\ misused' \in BOOLEAN /\ endless' = FALSE
  BY <1>1, Known
<1>12. /\ InUse' \subseteq Listed \ D
       /\ misused' = FALSE => Listed \ D = InUse'
  BY <1>1, <1>7, Ends
<1>13. IInv' /\ Listed' = Listed \ D
  BY <1>5, <1>6, <1>8, <1>9, <1>10, <1>11, <1>12, IInvNext
<1>14. QED
  BY <1>4, <1>13

LEMMA TickQuietStep ==
  ASSUME IInv, endless = FALSE, TickQuiet
  PROVE  /\ IInv' /\ count' = count + 1 /\ Listed' = Listed /\ timeout' = timeout
         /\ misused = FALSE => \A x \in Listed : timeout[x] > count + 1
<1>1. /\ count < MaxCount /\ count' = (count + 1) % Word /\ list.next > count'
      /\ list' = list /\ flags' = flags /\ flags2' = flags2 /\ timeout' = timeout
      /\ fifo' = fifo /\ arming' = arming /\ misused' = misused /\ endless' = endless
  BY DEF TickQuiet
<1>2. count' = count + 1 /\ count' \in 0 .. MaxCount /\ count' \in Nat
  <2>1. count + 1 \in 0 .. Word - 1 /\ count + 1 <= MaxCount
    BY <1>1, Known, Words DEF Never
  <2>2. QED
    BY <1>1, <2>1, Words
<1>3. InUse' = InUse
  BY <1>1 DEF InUse, BeingArmed
<1>4. ASSUME misused = FALSE, NEW x \in Listed PROVE timeout[x] > count + 1
  <2>1. IsList(list, timeout, Listed, FALSE) /\ list \in ListType /\ timeout \in TimeType
    BY <1>4, Known, Ends
  <2>2. list.next <= timeout[x] /\ x \in Timer
    BY <2>1, Walk
  <2>3. list.next \in Nat /\ timeout[x] \in Nat
    BY <2>1, <2>2, Words DEF ListType, TimeType
  <2>4. QED
    BY <1>1, <1>2, <2>2, <2>3
<1>5. ArmingPart'
  BY <1>1, Ends DEF ArmingPart
<1>6. KernelPart'
  BY <1>1, Ends DEF KernelPart
<1>7. /\ IsList(list', timeout', Listed, misused') /\ InUse' \subseteq Listed
      /\ misused' = FALSE => Listed = InUse'
  BY <1>1, <1>3, Ends
<1>8. /\ list' \in ListType /\ timeout' \in TimeType
      /\ flags' \in [Timer -> 0 .. 2] /\ flags2' \in [Timer -> 0 .. 1]
      /\ fifo' \in [Timer -> User \cup {Nil}] /\ arming' \in [User -> Pool \cup {Nil}]
      /\ misused' \in BOOLEAN /\ endless' = FALSE
  BY <1>1, Known
<1>9. IInv' /\ Listed' = Listed
  BY <1>2, <1>5, <1>6, <1>7, <1>8, IInvNext
<1>10. QED
  BY <1>1, <1>2, <1>4, <1>9

\* What the interrupt does at a tick at which timers are due.
LEMMA TickDueStep ==
  ASSUME IInv, endless = FALSE, TickDue
  PROVE  /\ IInv' /\ count' = count + 1
         /\ \E E \in SUBSET Timer :
               /\ misused = FALSE => E = {t \in Listed : timeout[t] <= count + 1}
               /\ Listed' = (Listed \ E) \cup (E \cap {TaskTimer})
               /\ \A x \in Timer : x # TaskTimer => timeout'[x] = timeout[x]
               /\ TaskTimer \notin E => timeout'[TaskTimer] = timeout[TaskTimer]
               /\ TaskTimer \in E => timeout'[TaskTimer] > count + 1
<1>1. /\ count < MaxCount /\ count' = (count + 1) % Word
      /\ flags' = [t \in Timer |-> IF t = TaskTimer THEN 2
                                   ELSE IF t \in Due(count') THEN 1 ELSE flags[t]]
      /\ flags2' = flags2 /\ fifo' = fifo /\ arming' = arming
      /\ misused' = misused /\ endless' = endless
  BY DEF TickDue
<1>2. PICK c \in Nat : c = count' /\ c = count + 1 /\ c \in 0 .. MaxCount /\ c < Never
  <2>1. count + 1 \in 0 .. Word - 1 /\ count + 1 <= MaxCount
    BY <1>1, Known, Words DEF Never
  <2>2. QED
    BY <1>1, <2>1, Words
<1>3. PICK E : E = Due(c)
  OBVIOUS
<1>4. /\ E \subseteq Listed \ {Sentinel}
      /\ misused = FALSE => E = {t \in Listed : timeout[t] <= c}
      /\ Served(c) \in ListType /\ IsList(Served(c), timeout, Listed \ E, misused)
  <2>1. /\ IsList(list, timeout, Listed, misused) /\ list \in ListType /\ timeout \in TimeType
        /\ timeout[Sentinel] = Never
    BY Known, Ends
  <2>2. QED
    <3>1. PICK S, loose : S = Listed /\ loose = misused
      OBVIOUS
    <3>2. IsList(list, timeout, S, loose)
      BY <2>1, <3>1
    <3>3. /\ Due(c) \subseteq S \ {Sentinel}
          /\ loose = FALSE => Due(c) = {t \in S : timeout[t] <= c}
          /\ Served(c) \in ListType
          /\ IsList(Served(c), timeout, S \ Due(c), loose)
      BY <1>2, <2>1, <3>2, Serves
    <3>4. QED
      BY <1>3, <3>1, <3>3
<1>5. E \subseteq Timer /\ (misused = FALSE => E \cap BeingArmed = {})
  BY <1>4, Ends DEF InUse
<1>6. flags' = [t \in Timer |-> IF t = TaskTimer THEN 2
                                ELSE IF t \in E THEN 1 ELSE flags[t]]
  BY <1>1, <1>2, <1>3
<1>7. /\ flags' \in [Timer -> 0 .. 2] /\ flags'[TaskTimer] = 2
      /\ \A x \in Timer : x \in E /\ x # TaskTimer => flags'[x] = 1
      /\ \A x \in Timer : x \notin E => flags'[x] = flags[x]
  <2>1. flags[TaskTimer] = 2
    BY Ends DEF KernelPart
  <2>2. QED
    BY <1>6, <2>1, Known, Timers
<1>8. ArmingPart' /\ BeingArmed' = BeingArmed
  <2>1. ASSUME NEW x \in BeingArmed
        PROVE  /\ flags[x] # 0 => flags'[x] # 0
               /\ misused = FALSE => flags'[x] = flags[x]
    <3>1. x \in Timer /\ x # TaskTimer
      BY Known, Timers
    <3>2. x \in E \/ x \notin E
      OBVIOUS
    <3>3. QED
      BY <1>5, <1>7, <3>1, <3>2
  <2>2. QED
    BY <1>1, <2>1, ArmingKept
<1>9. InUse' = (InUse \ E) \cup (E \cap {TaskTimer})
  <2>1. TaskTimer \in InUse /\ TaskTimer \notin BeingArmed
    BY Known, Timers, Ends
  <2>2. ASSUME NEW x \in InUse' PROVE x \in (InUse \ E) \cup (E \cap {TaskTimer})
    <3>1. x \in Timer /\ flags'[x] = 2 /\ x \notin BeingArmed
      BY <1>8 DEF InUse
    <3>2. CASE x \in E
      BY <1>7, <3>1, <3>2
    <3>3. CASE x \notin E
      BY <1>7, <3>1, <3>3 DEF InUse
    <3>4. QED
      BY <3>2, <3>3
  <2>3. ASSUME NEW x \in InUse \ E PROVE x \in InUse'
    BY <1>7, <1>8 DEF InUse
  <2>4. TaskTimer \in InUse'
    BY <1>7, <1>8, <2>1, Timers DEF InUse
  <2>5. QED
    BY <2>2, <2>3, <2>4
<1> DEFINE X == (Listed \ E) \cup (E \cap {TaskTimer})
<1>10. /\ list' \in ListType /\ timeout' \in TimeType /\ IsList(list', timeout', X, misused')
       /\ \A x \in Timer : x # TaskTimer => timeout'[x] = timeout[x]
       /\ TaskTimer \notin E => timeout'[TaskTimer] = timeout[TaskTimer]
       /\ TaskTimer \in E => timeout'[TaskTimer] > c
  <2>1. CASE TaskTimer \in E
    <3>1. PICK s \in Slices :
             /\ timeout' = [timeout EXCEPT ![TaskTimer] = (s + c) % Word]
             /\ list' = Inserted(Served(c), timeout', TaskTimer)
      BY <1>2, <1>3, <2>1 DEF TickDue
    <3>2. (s + c) % Word = s + c /\ s + c \in 0 .. Word - 1 /\ s + c > c
      <4>1. s \in Nat /\ s > 0 /\ s + c \in 0 .. Word - 1
        BY <1>2, Words
      <4>2. QED
        BY <4>1, Words
    <3>3. /\ timeout' \in TimeType /\ timeout'[TaskTimer] > c
          /\ \A x \in Timer : x # TaskTimer => timeout'[x] = timeout[x]
      BY <3>1, <3>2, Known, Timers DEF TimeType
    <3>4. PICK tm : tm = timeout'
      OBVIOUS
    <3>5. tm \in TimeType /\ tm[Sentinel] = Never
      BY <3>3, <3>4, Ends, Timers
    <3>6. \A x \in Listed \ E : tm[x] = timeout[x]
      BY <2>1, <3>3, <3>4, Ends
    <3>7. IsList(Served(c), tm, Listed \ E, misused)
      BY <1>4, <3>5, <3>6, Known, OthersDoNotMatter
    <3>8. TaskTimer \notin Listed \ E
      BY <2>1
    <3>9. /\ Inserted(Served(c), tm, TaskTimer) \in ListType
          /\ IsList(Inserted(Served(c), tm, TaskTimer), tm, (Listed \ E) \cup {TaskTimer}, misused)
      BY <1>4, <3>5, <3>7, <3>8, Timers, Inserts
    <3>10. X = (Listed \ E) \cup {TaskTimer}
      BY <2>1
    <3> HIDE DEF X
    <3>11. QED
      BY <1>1, <2>1, <3>1, <3>3, <3>4, <3>9, <3>10
  <2>2. CASE TaskTimer \notin E
    <3>1. list' = Served(c) /\ timeout' = timeout
      BY <1>2, <1>3, <2>2 DEF TickDue
    <3>2. X = Listed \ E
      BY <2>2
    <3> HIDE DEF X
    <3>3. QED
      BY <1>1, <1>4, <2>2, <3>1, <3>2, Known
  <2>3. QED
    BY <2>1, <2>2
<1>11. KernelPart'
  <2>1. timeout[Sentinel] = Never /\ flags[Sentinel] = 2
    BY Ends DEF KernelPart
  <2>2. QED
    BY <1>4, <1>7, <1>10, <2>1, Timers DEF KernelPart
<1>12. /\ count' \in 0 .. MaxCount /\ flags2' \in [Timer -> 0 .. 1]
       /\ fifo' \in [Timer -> User \cup {Nil}] /\ arming' \in [User -> Pool \cup {Nil}]
       /\ misused' \in BOOLEAN /\ endless' = FALSE
  BY <1>1, <1>2, Known
<1>13. InUse' \subseteq X /\ (misused' = FALSE => X = InUse')
  BY <1>1, <1>9, Ends
<1> HIDE DEF X
<1>14. misused' = FALSE => X = InUse'
  BY <1>13
<1>15. IInv' /\ Listed' = X
  BY <1>7, <1>8, <1>10, <1>11, <1>12, <1>13, <1>14, IInvNext
<1>16. E \in SUBSET Timer
  BY <1>5
<1>17. QED
  BY <1>2, <1>4, <1>10, <1>15, <1>16 DEF X


-----------------------------------------------------------------------------
(* What each operation means to the service. *)

\* When each timer goes off that the list holds, but for the sentinel.
Waits == [t \in Listed \ {Sentinel} |-> timeout[t]]

\* A step with nothing misused before or after it.
Proper ==
    \/ Listed' = Listed /\ count' = count /\ \A x \in Listed : timeout'[x] = timeout[x]
    \/ /\ count' = count /\ timeout' = timeout
       /\ \E t \in Timer \ Listed : Listed' = Listed \cup {t}
    \/ /\ count' = count /\ timeout' = timeout
       /\ \E D \in SUBSET (Listed \ {Sentinel}) : Listed' = Listed \ D
    \/ TickQuiet \/ TickDue

LEMMA StepKinds ==
  ASSUME IInv, [Next]_vars
  PROVE  /\ IInv' /\ misused \in BOOLEAN /\ misused' \in BOOLEAN
         /\ misused = FALSE /\ misused' = FALSE => Proper /\ endless = FALSE
         /\ misused = FALSE /\ misused' = TRUE => count' = count /\ Listed \ {Sentinel} # {}
         /\ misused = TRUE => misused' = TRUE /\ count' \in {count, count + 1}
<1> DEFINE Goal ==
       /\ IInv'
       /\ misused = FALSE /\ misused' = FALSE => Proper /\ endless = FALSE
       /\ misused = FALSE /\ misused' = TRUE => count' = count /\ Listed \ {Sentinel} # {}
       /\ misused = TRUE => misused' = TRUE /\ count' \in {count, count + 1}
<1>1. ASSUME endless = FALSE, TickQuiet PROVE Goal
  <2>1. misused' = misused
    BY <1>1 DEF TickQuiet
  <2>2. QED
    BY <1>1, <2>1, TickQuietStep DEF Proper
<1>2. ASSUME endless = FALSE, TickDue PROVE Goal
  <2>1. misused' = misused
    BY <1>2 DEF TickDue
  <2>2. QED
    BY <1>2, <2>1, TickDueStep DEF Proper
<1>3. ASSUME endless = FALSE, NEW u \in User, Insert(u) PROVE Goal
  <2>1. count' = count /\ timeout' = timeout /\ misused' = misused
    BY <1>3 DEF Insert
  <2>2. /\ IInv' /\ arming[u] \in Timer
        /\ misused = FALSE => arming[u] \notin Listed /\ Listed' = Listed \cup {arming[u]}
    BY <1>3, InsertStep
  <2>3. misused = FALSE => Proper
    BY <2>1, <2>2 DEF Proper
  <2>4. QED
    BY <1>3, <2>1, <2>2, <2>3
<1>4. ASSUME endless = FALSE, NEW u \in User, CancelAll(u) PROVE Goal
  <2>1. count' = count /\ timeout' = timeout /\ misused' = misused
    BY <1>4, Zenon DEF CancelAll
  <2>2. IInv' /\ \E D \in SUBSET (Listed \ {Sentinel}) : Listed' = Listed \ D
    BY <1>4, CancelAllStep
  <2>3. Proper
    BY <2>1, <2>2 DEF Proper
  <2>4. QED
    BY <1>4, <2>1, <2>2, <2>3
<1>5. ASSUME endless = FALSE, NEW u \in User, NEW t \in Pool, Cancel(u, t) PROVE Goal
  <2>1. count' = count /\ timeout' = timeout /\ misused' = misused
    BY <1>5 DEF Cancel
  <2>2. IInv' /\ Listed' = Listed \ {t} /\ {t} \in SUBSET (Listed \ {Sentinel})
    BY <1>5, CancelStep
  <2>3. Proper
    BY <2>1, <2>2 DEF Proper
  <2>4. QED
    BY <1>5, <2>1, <2>2, <2>3
<1>6. ASSUME endless = FALSE, NEW u \in User, NEW t \in Pool, Free(u, t) PROVE Goal
  <2>1. count' = count /\ timeout' = timeout /\ misused' = (misused \/ flags[t] = 2)
    BY <1>6 DEF Free
  <2>2. /\ IInv' /\ Listed' = Listed
        /\ misused' = FALSE => misused = FALSE
        /\ misused = FALSE /\ misused' = TRUE => t \in Listed \ {Sentinel}
    BY <1>6, FreeStep
  <2>3. Proper
    BY <2>1, <2>2 DEF Proper
  <2>4. misused = TRUE => misused' = TRUE
    BY <2>1, Zenon
  <2>5. QED
    BY <1>6, <2>1, <2>2, <2>3, <2>4
<1>7. ASSUME endless = FALSE, NEW u \in User, NEW t \in Pool, NEW app \in {0, 1}, Alloc(u, t, app)
      PROVE  Goal
  <2>1. count' = count /\ timeout' = timeout /\ misused' = misused
    BY <1>7 DEF Alloc
  <2>2. IInv' /\ Listed' = Listed
    BY <1>7, AllocStep
  <2>3. Proper
    BY <2>1, <2>2 DEF Proper
  <2>4. QED
    BY <1>7, <2>1, <2>2, <2>3
<1>8. ASSUME endless = FALSE, NEW u \in User, NEW t \in Pool, NEW d \in Delays, Arm(u, t, d)
      PROVE  Goal
  <2>1. count' = count /\ misused' = (misused \/ flags[t] = 2)
    BY <1>8 DEF Arm
  <2>2. /\ IInv' /\ Listed' = Listed
        /\ misused' = FALSE => misused = FALSE /\ \A x \in Listed : timeout'[x] = timeout[x]
        /\ misused = FALSE /\ misused' = TRUE => t \in Listed \ {Sentinel}
    BY <1>8, ArmStep
  <2>3. misused' = FALSE => Proper
    BY <2>1, <2>2 DEF Proper
  <2>4. misused = TRUE => misused' = TRUE
    BY <2>1, Zenon
  <2>5. QED
    BY <1>8, <2>1, <2>2, <2>3, <2>4
<1>9. ASSUME UNCHANGED vars PROVE Goal
  <2>1. /\ count' = count /\ list' = list /\ flags' = flags /\ flags2' = flags2
        /\ timeout' = timeout /\ fifo' = fifo /\ arming' = arming
        /\ misused' = misused /\ endless' = endless
    BY <1>9 DEF vars
  <2>2. Listed' = Listed /\ InUse' = InUse
    BY <2>1 DEF Listed, InUse, BeingArmed
  <2>3. TypeOK'
    BY <2>1 DEF IInv, TypeOK
  <2>4. endless = FALSE => Ending'
    <3>1. ListPart => ListPart'
      BY <2>1, <2>2 DEF ListPart
    <3>2. ArmingPart => ArmingPart'
      BY <2>1 DEF ArmingPart
    <3>3. KernelPart => KernelPart'
      BY <2>1 DEF KernelPart
    <3>4. QED
      BY <3>1, <3>2, <3>3 DEF IInv, Ending
  <2>5. IInv'
    BY <2>1, <2>2, <2>3, <2>4 DEF IInv
  <2>6. misused = FALSE => endless = FALSE
    BY Known DEF IInv
  <2>7. Proper
    BY <2>1, <2>2 DEF Proper
  <2>8. QED
    BY <2>1, <2>5, <2>6, <2>7
<1> HIDE DEF Goal
<1>10. Goal
  <2>1. CASE UNCHANGED vars
    BY <1>9, <2>1 DEF Goal
  <2>2. CASE Next
    <3>1. endless = FALSE
      BY <2>2, Known DEF Next
    <3>2. QED
      BY <1>1, <1>2, <1>3, <1>4, <1>5, <1>6, <1>7, <1>8, <2>2, <3>1, Zenon DEF Next, Tick, Goal
  <2>3. QED
    BY <2>1, <2>2
<1>11. misused' \in BOOLEAN
  <2>1. IInv'
    BY <1>10 DEF Goal
  <2>2. QED
    BY <2>1 DEF IInv, TypeOK
<1>12. QED
  BY <1>10, <1>11, Known DEF Goal

WaitsPart ==
    /\ [t \in Listed \ {Sentinel} |-> timeout[t]] = Waits
    /\ DOMAIN Waits = Listed \ {Sentinel}
    /\ endless = FALSE =>
         \A t \in Listed \ {Sentinel} : Waits[t] = timeout[t] /\ Waits[t] \in Nat

LEMMA WaitsIs ==
  ASSUME IInv PROVE WaitsPart
<1>1. ASSUME endless = FALSE, NEW t \in Listed
      PROVE  timeout[t] \in Nat
  <2>1. t \in Timer
    BY <1>1, Ends
  <2>2. timeout[t] \in 0 .. Word - 1
    BY <2>1, Known DEF TimeType
  <2>3. QED
    BY <2>2
<1>2. QED
  BY <1>1 DEF Waits, WaitsPart

LEMMA WaitsNext == IInv' => WaitsPart'
<1>1. IInv => WaitsPart
  BY WaitsIs
<1>2. QED
  BY <1>1, PTL

LEMMA InitMaps ==
  ASSUME Init PROVE Service!Init
<1>1. IInv
  BY InitIInv
<1>2. count = 0 /\ misused = FALSE /\ endless = FALSE
  BY DEF Init
<1>3. Listed \ {Sentinel} \in SUBSET Timer
  BY <1>1, <1>2, Ends
<1>4. Waits \in [Listed \ {Sentinel} -> Nat]
  BY <1>1, <1>2, WaitsIs DEF Waits, WaitsPart
<1>5. [t \in Listed \ {Sentinel} |-> timeout[t]] = Waits
  BY <1>1, WaitsIs DEF WaitsPart
<1>6. QED
  BY <1>2, <1>3, <1>4, <1>5 DEF Service!Init

\* A step with nothing misused is a step of the service.
LEMMA ProperMaps ==
  ASSUME IInv, IInv', [Next]_vars, misused = FALSE, misused' = FALSE
  PROVE  \/ Service!Tick
         \/ \E t \in Timer : Service!Set(t)
         \/ \E D \in SUBSET Timer : Service!Cancel(D)
         \/ UNCHANGED Service!vars
<1> DEFINE P == Listed \ {Sentinel}
<1>0. Proper /\ endless = FALSE /\ endless' = FALSE
  <2>1. endless' = FALSE
    BY DEF IInv, TypeOK
  <2>2. QED
    BY <2>1, StepKinds
<1>1. /\ [t \in Listed \ {Sentinel} |-> timeout[t]] = Waits
      /\ DOMAIN Waits = P /\ \A t \in P : Waits[t] = timeout[t] /\ Waits[t] \in Nat
  BY <1>0, WaitsIs DEF WaitsPart
<1>2. /\ [t \in Listed \ {Sentinel} |-> timeout[t]]' = Waits'
      /\ DOMAIN Waits' = P' /\ \A t \in P' : Waits'[t] = timeout'[t] /\ Waits'[t] \in Nat
  BY <1>0, WaitsNext DEF WaitsPart
<1>3. Waits' \in [P' -> Nat]
  <2>1. Waits' = [t \in P' |-> timeout'[t]]
    BY DEF Waits
  <2>2. \A t \in P' : timeout'[t] \in Nat
    BY <1>2
  <2>3. QED
    BY <2>1, <2>2
<1>4. Sentinel \in Listed /\ TaskTimer \in Listed /\ TaskTimer # Sentinel /\ Listed \subseteq Timer
  BY <1>0, Ends, Timers
<1>5. ASSUME Listed' = Listed, count' = count, \A x \in Listed : timeout'[x] = timeout[x]
      PROVE  UNCHANGED Service!vars
  <2>1. Waits' = Waits
    BY <1>5 DEF Waits
  <2>2. QED
    BY <1>1, <1>2, <1>5, <2>1 DEF Service!vars
<1>6. ASSUME count' = count, timeout' = timeout, NEW t \in Timer \ Listed,
             Listed' = Listed \cup {t}
      PROVE  Service!Set(t)
  <2>1. P' = P \cup {t} /\ t \notin P
    BY <1>4, <1>6
  <2>2. \A x \in P : Waits'[x] = Waits[x]
    BY <1>1, <1>2, <1>6, <2>1
  <2>3. QED
    BY <1>1, <1>2, <1>3, <1>6, <2>1, <2>2 DEF Service!Set, Service!Pending
<1>7. ASSUME count' = count, timeout' = timeout, NEW D \in SUBSET P, Listed' = Listed \ D
      PROVE  Service!Cancel(D) /\ D \in SUBSET Timer
  <2>1. P' = P \ D
    BY <1>7
  <2>2. Waits' = [x \in P \ D |-> Waits[x]]
    BY <1>1, <1>7, <2>1 DEF Waits
  <2>3. QED
    BY <1>1, <1>2, <1>4, <1>7, <2>2 DEF Service!Cancel, Service!Pending
<1>8. ASSUME TickQuiet PROVE Service!Tick
  <2>1. /\ count' = count + 1 /\ Listed' = Listed /\ timeout' = timeout
        /\ \A x \in Listed : timeout[x] > count + 1
    BY <1>0, <1>8, TickQuietStep
  <2> DEFINE waiting == {x \in P : Waits[x] > count + 1}
             renewed == (P \ waiting) \cap {TaskTimer}
  <2>2. waiting = P /\ renewed = {} /\ P' = P
    BY <1>1, <2>1
  <2>3. \A x \in waiting : Waits'[x] = Waits[x]
    BY <1>1, <1>2, <2>1, <2>2
  <2>4. Waits' \in [waiting \cup renewed -> Nat]
    BY <1>3, <2>2
  <2>5. QED
    BY <1>1, <1>2, <2>1, <2>2, <2>3, <2>4 DEF Service!Tick, Service!Pending
<1>9. ASSUME TickDue PROVE Service!Tick
  <2>1. count' = count + 1
    BY <1>0, <1>9, TickDueStep
  <2>2. PICK E \in SUBSET Timer :
               /\ E = {t \in Listed : timeout[t] <= count + 1}
               /\ Listed' = (Listed \ E) \cup (E \cap {TaskTimer})
               /\ \A x \in Timer : x # TaskTimer => timeout'[x] = timeout[x]
               /\ TaskTimer \notin E => timeout'[TaskTimer] = timeout[TaskTimer]
               /\ TaskTimer \in E => timeout'[TaskTimer] > count + 1
    BY <1>0, <1>9, TickDueStep
  <2> DEFINE waiting == {x \in P : Waits[x] > count + 1}
             renewed == (P \ waiting) \cap {TaskTimer}
  <2>3. waiting = P \ E
    <3>1. ASSUME NEW x \in P PROVE Waits[x] > count + 1 <=> x \notin E
      <4>1. Waits[x] = timeout[x] /\ Waits[x] \in Nat /\ count + 1 \in Nat /\ x \in Listed
        BY <1>1, Known
      <4>2. x \in E <=> timeout[x] <= count + 1
        BY <2>2, <4>1
      <4>3. QED
        BY <4>1, <4>2
    <3>2. QED
      BY <3>1
  <2>4. renewed = E \cap {TaskTimer}
    BY <1>4, <2>2, <2>3
  <2>5. P' = waiting \cup renewed
    BY <1>4, <2>2, <2>3, <2>4
  <2>6. ASSUME NEW x \in waiting PROVE Waits'[x] = Waits[x]
    <3>1. x \in P /\ x \in P' /\ x \notin E /\ x \in Timer
      BY <1>4, <2>3, <2>5
    <3>2. timeout'[x] = timeout[x]
      BY <2>2, <3>1
    <3>3. QED
      BY <1>1, <1>2, <3>1, <3>2
  <2>7. ASSUME NEW x \in renewed PROVE Waits'[x] > count + 1
    <3>1. x = TaskTimer /\ x \in E /\ x \in P'
      BY <2>4, <2>5
    <3>2. QED
      BY <1>2, <2>2, <3>1
  <2>8. Waits' \in [waiting \cup renewed -> Nat]
    BY <1>3, <2>5
  <2>9. waiting = {x \in DOMAIN Waits : Waits[x] > count + 1}
    BY <1>1
  <2>10. renewed = (DOMAIN Waits \ waiting) \cap {TaskTimer}
    BY <1>1
  <2> HIDE DEF waiting, renewed
  <2>11. QED
    BY <1>1, <1>2, <2>1, <2>6, <2>7, <2>8, <2>9, <2>10 DEF Service!Tick, Service!Pending
<1>10. \/ Listed' = Listed /\ count' = count /\ \A x \in Listed : timeout'[x] = timeout[x]
       \/ /\ count' = count /\ timeout' = timeout
          /\ \E t \in Timer \ Listed : Listed' = Listed \cup {t}
       \/ /\ count' = count /\ timeout' = timeout
          /\ \E D \in SUBSET P : Listed' = Listed \ D
       \/ TickQuiet \/ TickDue
  BY <1>0 DEF Proper
<1> HIDE DEF P
<1>11. QED
  BY <1>5, <1>6, <1>7, <1>8, <1>9, <1>10

LEMMA StepMaps ==
  ASSUME IInv, IInv', [Next]_vars PROVE [Service!Next]_(Service!vars)
<1>1. /\ misused \in BOOLEAN /\ misused' \in BOOLEAN
      /\ misused = FALSE /\ misused' = TRUE => count' = count /\ Listed \ {Sentinel} # {}
      /\ misused = TRUE => misused' = TRUE /\ count' \in {count, count + 1}
  BY StepKinds
<1>2. CASE misused = FALSE /\ misused' = FALSE
  BY <1>2, ProperMaps DEF Service!Next, Service!Tick, Service!Set, Service!Cancel
<1>3. CASE misused = FALSE /\ misused' = TRUE
  <2>1. PICK t \in Listed \ {Sentinel} : TRUE
    BY <1>1, <1>3
  <2>2. t \in Timer
    BY <1>3, Ends, Known DEF IInv
  <2>3. t \in DOMAIN [x \in Listed \ {Sentinel} |-> timeout[x]]
    OBVIOUS
  <2>4. Service!Misuse(t)
    BY <1>1, <1>3, <2>3 DEF Service!Misuse, Service!Pending
  <2>5. QED
    BY <1>3, <2>2, <2>4 DEF Service!Next
<1>4. CASE misused = TRUE
  <2>1. Service!Anything
    BY <1>1, <1>4 DEF Service!Anything
  <2>2. QED
    BY <1>4, <2>1 DEF Service!Next
<1>5. QED
  BY <1>1, <1>2, <1>3, <1>4

-----------------------------------------------------------------------------
(* The list that settime, cancel and the interrupt walk ends with the      *)
(* sentinel until timer_settime inserts a timer that is in it, and from    *)
(* then on has no end.  Until a timer is set or freed in use, the list     *)
(* ascends and holds exactly the timers in use, except for those whose     *)
(* timer_settime was interrupted before line 88, and next is the timeout   *)
(* of its first timer.  This for every pool, every number of users and     *)
(* every delay, also one whose sum wraps round.                            *)
THEOREM ListAlwaysExact == Spec => []ListIsExact
<1>1. Init => IInv
  BY InitIInv
<1>2. IInv /\ [Next]_vars => IInv'
  BY StepKinds
<1>3. IInv => ListIsExact
  BY IInvImplies
<1>4. QED
  BY <1>1, <1>2, <1>3, PTL DEF Spec

(* timer.c implements the timer service: each tick serves exactly the      *)
(* timers that are due, none early and none late, whatever is set,         *)
(* cancelled and freed between ticks and between the two halves of         *)
(* timer_settime, and the task timer is always set again, until a client   *)
(* sets or frees a timer that is pending.                                  *)
THEOREM TimersAreServed == Spec => IsTimerService
<1>1. Init => IInv /\ Service!Init
  BY InitIInv, InitMaps
<1>2. IInv /\ [Next]_vars => IInv'
  BY StepKinds
<1>3. IInv /\ IInv' /\ [Next]_vars => [Service!Next]_(Service!vars)
  BY StepMaps
<1>4. QED
  BY <1>1, <1>2, <1>3, PTL DEF Spec, IsTimerService, Service!Spec

=============================================================================
