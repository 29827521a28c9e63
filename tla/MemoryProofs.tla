---------------------------- MODULE MemoryProofs ----------------------------
(***************************************************************************)
(* The two users of the machine's memory.                                  *)
(*                                                                         *)
(* The file system: whatever is opened, edited, saved, made and forgotten, *)
(* each file keeps the text that was saved, no block has two owners and    *)
(* none is lost without being counted, names and paths find what they name *)
(* - for every size of the disk, the memory and the directories.           *)
(*                                                                         *)
(* The memory manager: the table of free areas loses nothing but what it   *)
(* counts as lost, and implements the allocator over single units, for     *)
(* every memory, every length of the table and all sizes asked for.        *)
(***************************************************************************)
EXTENDS MemMan, Files, FiniteSetTheorems, SequenceTheorems, WellFoundedInduction, TLAPS

-----------------------------------------------------------------------------
(* Numbers. *)

\* Every set of numbers that has one has a least one.
LEMMA Least ==
  ASSUME NEW T \in SUBSET Nat, T # {}
  PROVE  \E x \in T : \A z \in T : x <= z
<1>1. DEFINE R == {ss \in Nat \X Nat : ss[1] < ss[2]}
<1>2. IsWellFoundedOn(R, Nat)
  BY NatLessThanWellFounded, Zenon DEF OpToRel
<1>3. HIDE DEF R
<1>4. PICK x \in T : \A z \in T : ~ (<<z, x>> \in R)
  BY <1>2, WFMin
<1>5. ASSUME NEW z \in T PROVE x <= z
  <2>1. ~ (z < x)
    BY <1>4 DEF R
  <2>2. QED
    BY <2>1, SMT
<1>6. QED
  BY <1>5

\* A set of numbers that has 0 and with a number the next one has them all.
LEMMA AllNumbers ==
  ASSUME NEW T, T \subseteq Nat, 0 \in T, \A n \in T : n + 1 \in T
  PROVE  \A n \in Nat : n \in T
<1> DEFINE B == Nat \ T
<1>1. SUFFICES ASSUME B # {} PROVE FALSE
  OBVIOUS
<1>2. PICK x \in B : \A z \in B : x <= z
  BY <1>1, Least
<1>3. x \in Nat /\ x \notin T /\ x # 0
  BY <1>2
<1>4. x - 1 \in Nat /\ (x - 1) + 1 = x /\ ~ (x <= x - 1)
  BY <1>3
<1>5. x - 1 \in T
  BY <1>2, <1>4
<1>6. QED
  BY <1>3, <1>4, <1>5

\* A function on the first numbers can be defined from one to the next.
Recurs(f, V, v0, G, n) ==
    f \in [0 .. n -> V] /\ f[0] = v0 /\ \A k \in 1 .. n : f[k] = G[<<f[k - 1], k>>]

LEMMA Recursion ==
  ASSUME NEW V, NEW v0 \in V, NEW G \in [V \X Nat -> V], NEW n \in Nat
  PROVE  \E f : Recurs(f, V, v0, G, n)
<1> DEFINE Some(x) == \E f \in [0 .. x -> V] :
                         f[0] = v0 /\ \A k \in 1 .. x : f[k] = G[<<f[k - 1], k>>]
<1>1. Some(0)
  <2> DEFINE f == [m \in 0 .. 0 |-> v0]
  <2>1. f \in [0 .. 0 -> V] /\ f[0] = v0 /\ \A k \in 1 .. 0 : f[k] = G[<<f[k - 1], k>>]
    OBVIOUS
  <2>2. QED
    BY <2>1
<1>2. ASSUME NEW x \in Nat, Some(x) PROVE Some(x + 1)
  <2>1. PICK f \in [0 .. x -> V] : f[0] = v0 /\ \A k \in 1 .. x : f[k] = G[<<f[k - 1], k>>]
    BY <1>2
  <2>2. PICK v \in V : v = G[<<f[x], x + 1>>]
    <3>1. x \in 0 .. x /\ x + 1 \in Nat
      OBVIOUS
    <3>2. <<f[x], x + 1>> \in V \X Nat
      BY <3>1
    <3>3. QED
      BY <3>2
  <2> DEFINE g == [m \in 0 .. x + 1 |-> IF m = x + 1 THEN v ELSE f[m]]
  <2>3. g \in [0 .. x + 1 -> V]
    <3>1. ASSUME NEW m \in 0 .. x + 1, m # x + 1 PROVE f[m] \in V
      <4>1. m \in 0 .. x
        BY <3>1
      <4>2. QED
        BY <4>1
    <3>2. QED
      BY <3>1
  <2>4. \A m \in 0 .. x : g[m] = f[m]
    OBVIOUS
  <2>5. g[0] = v0 /\ g[x + 1] = v
    <3>1. 0 \in 0 .. x /\ x + 1 \in 0 .. x + 1
      OBVIOUS
    <3>2. g[0] = f[0]
      BY <2>4, <3>1
    <3>3. g[x + 1] = v
      BY <3>1
    <3>4. QED
      BY <2>1, <3>2, <3>3
  <2> HIDE DEF g
  <2>6. ASSUME NEW k \in 1 .. x + 1 PROVE g[k] = G[<<g[k - 1], k>>]
    <3>1. CASE k = x + 1
      <4>1. x \in 0 .. x /\ k - 1 = x
        BY <3>1
      <4>2. g[k - 1] = f[x]
        BY <2>4, <4>1
      <4>3. QED
        BY <2>2, <2>5, <3>1, <4>2
    <3>2. CASE k # x + 1
      <4>1. k \in 1 .. x /\ k \in 0 .. x /\ k - 1 \in 0 .. x
        BY <3>2
      <4>2. g[k] = f[k] /\ g[k - 1] = f[k - 1]
        BY <2>4, <4>1
      <4>3. QED
        BY <2>1, <4>1, <4>2
    <3>3. QED
      BY <3>1, <3>2
  <2>7. QED
    BY <2>3, <2>5, <2>6
<1> HIDE DEF Some
<1>3. PICK T : T = {x \in Nat : Some(x)}
  OBVIOUS
<1>4. T \subseteq Nat /\ 0 \in T /\ \A x \in T : x + 1 \in T
  BY <1>1, <1>2, <1>3
<1>5. \A x \in Nat : x \in T
  BY <1>4, AllNumbers
<1>6. Some(n)
  BY <1>3, <1>5
<1>7. QED
  BY <1>6, Zenon DEF Some, Recurs

LEMMA DivIs ==
  ASSUME NEW x \in Nat, NEW z \in Nat, z # 0
  PROVE  /\ x \div z \in Nat
         /\ z * (x \div z) <= x
         /\ x < z * (x \div z) + z
<1>1. z > 0
  OBVIOUS
<1>2. x \div z \in Nat
  BY <1>1, SMT
<1>3. z * (x \div z) <= x
  BY <1>1, SMT
<1>4. x < z * (x \div z) + z
  BY <1>1, SMT
<1>5. QED
  BY <1>2, <1>3, <1>4

LEMMA DivOf ==
  ASSUME NEW z \in Nat, z # 0, NEW n \in Nat, NEW r \in Nat, r < z
  PROVE  (z * n + r) \div z = n
BY SMT


-----------------------------------------------------------------------------
(* Chains of blocks. *)

Places == Disk \cup Buf
Numbers == 0 .. DiskBlocks + Frames
Memory == [Places -> [stat : SUBSET Status, orig : Numbers, next : Numbers, body : Seq(Letters)]]

\* Where the blocks of a chain lie.
Zone(a) == IF a \in Disk THEN Disk ELSE Buf

\* The sequence s is what a chain of blocks goes through, to its end.
Linked(d, s) ==
    /\ s \in Seq(Places) /\ Len(s) > 0
    /\ \A i, j \in 1 .. Len(s) : s[i] = s[j] => i = j
    /\ \A i \in 1 .. Len(s) : i < Len(s) => d[s[i]].next = s[i + 1]
    /\ d[s[Len(s)]].next = 0

LEMMA Bounds ==
  /\ DiskBlocks \in Nat /\ Frames \in Nat /\ Chars \in Nat
  /\ DiskBlocks > 0 /\ Frames > 0 /\ Chars > 0
  /\ MaxFinfo \in Nat /\ MaxFinfo > 0
  /\ Places = 1 .. DiskBlocks + Frames /\ Disk \cap Buf = {} /\ 1 \in Disk
<1>1. /\ DiskBlocks \in Nat \ {0} /\ Frames \in Nat \ {0} /\ Chars \in Nat \ {0}
      /\ MaxFinfo \in Nat \ {0}
  BY FilesAssumption
<1>2. QED
  BY <1>1, SMT DEF Places, Disk, Buf

LEMMA Places1 ==
  ASSUME NEW x \in Places
  PROVE  x \in Nat /\ x # 0 /\ x \in Numbers /\ x <= DiskBlocks + Frames
BY Bounds, SMT DEF Numbers

LEMMA Contents ==
  ASSUME NEW d \in Memory, NEW x \in Places
  PROVE  /\ DOMAIN d = Places
         /\ d[x].stat \subseteq Status /\ d[x].orig \in Numbers /\ d[x].next \in Numbers
         /\ d[x].body \in Seq(Letters) /\ Len(d[x].body) \in Nat
<1>1. d[x] \in [stat : SUBSET Status, orig : Numbers, next : Numbers, body : Seq(Letters)]
  BY DEF Memory
<1>2. DOMAIN d = Places
  BY DEF Memory
<1>3. QED
  BY <1>1, <1>2

\* No more blocks are gone through than there are.
LEMMA ShortEnough ==
  ASSUME NEW s \in Seq(Places), \A i, j \in 1 .. Len(s) : s[i] = s[j] => i = j
  PROVE  Len(s) <= DiskBlocks + Frames
<1>1. PICK n \in Nat : n = Len(s)
  OBVIOUS
<1>2. PICK top \in Nat : top = DiskBlocks + Frames
  BY Bounds
<1>3. Places = 1 .. top
  BY <1>2, Bounds
<1>4. s \in [1 .. n -> 1 .. top]
  BY <1>1, <1>3
<1>5. s \in Injection(1 .. n, 1 .. top)
  BY <1>1, <1>4, Zenon DEF Injection, IsInjective
<1>6. /\ IsFiniteSet(1 .. top) /\ Cardinality(1 .. top) = (IF 1 > top THEN 0 ELSE top - 1 + 1)
      /\ Cardinality(1 .. n) = (IF 1 > n THEN 0 ELSE n - 1 + 1)
  BY FS_Interval
<1>7. Cardinality(1 .. n) <= Cardinality(1 .. top)
  BY <1>5, <1>6, FS_Injection
<1>8. Cardinality(1 .. n) = n /\ Cardinality(1 .. top) = top
  BY <1>6, SMT
<1>9. QED
  BY <1>1, <1>2, <1>7, <1>8

\* One step along a chain.
Hop(d, f, a, k) == IF k = 0 THEN a ELSE IF f[k - 1] = 0 THEN 0 ELSE d[f[k - 1]].next

LEMMA HopsExist ==
  ASSUME NEW d \in Memory, NEW a \in Numbers, NEW top \in Nat
  PROVE  \E f : f = [k \in 0 .. top |-> Hop(d, f, a, k)]
<1> DEFINE G == [p \in Numbers \X Nat |-> IF p[1] = 0 THEN 0 ELSE d[p[1]].next]
<1>1. G \in [Numbers \X Nat -> Numbers]
  <2>1. ASSUME NEW p \in Numbers \X Nat, p[1] # 0 PROVE d[p[1]].next \in Numbers
    <3>1. p[1] \in Places
      BY <2>1, Bounds DEF Numbers
    <3>2. QED
      BY <3>1, Contents
  <2>2. 0 \in Numbers
    BY Bounds DEF Numbers
  <2>3. QED
    BY <2>1, <2>2
<1>2. \A v \in Numbers, k \in Nat : G[<<v, k>>] = IF v = 0 THEN 0 ELSE d[v].next
  OBVIOUS
<1> HIDE DEF G
<1>3. PICK f \in [0 .. top -> Numbers] : f[0] = a /\ \A k \in 1 .. top : f[k] = G[<<f[k - 1], k>>]
  <2>1. PICK f : Recurs(f, Numbers, a, G, top)
    BY <1>1, Recursion, Zenon
  <2>2. QED
    BY <2>1, Zenon DEF Recurs
<1>4. ASSUME NEW k \in 0 .. top PROVE f[k] = Hop(d, f, a, k)
  <2>1. CASE k = 0
    BY <1>3, <2>1 DEF Hop
  <2>2. CASE k # 0
    <3>1. k \in 1 .. top /\ k \in Nat /\ k - 1 \in 0 .. top
      BY <2>2
    <3>2. f[k] = G[<<f[k - 1], k>>] /\ f[k - 1] \in Numbers
      BY <1>3, <3>1
    <3>3. QED
      BY <1>2, <2>2, <3>1, <3>2 DEF Hop
  <2>3. QED
    BY <2>1, <2>2
<1>5. f = [k \in 0 .. top |-> f[k]]
  BY <1>3
<1>6. f = [k \in 0 .. top |-> Hop(d, f, a, k)]
  BY <1>4, <1>5, Zenon
<1>7. QED
  BY <1>6, Zenon


LEMMA ChainIs ==
  ASSUME NEW d \in Memory, NEW s, Linked(d, s)
  PROVE  Chain(d, s[1]) = s
<1>1. PICK n \in Nat : n = Len(s)
  BY DEF Linked
<1>2. PICK top \in Nat : top = DiskBlocks + Frames
  BY Bounds
<1>3. s \in Seq(Places) /\ n > 0 /\ n <= top
  BY <1>1, <1>2, ShortEnough DEF Linked
<1>4. \A i \in 1 .. n : s[i] \in Places /\ s[i] # 0 /\ s[i] \in Numbers
  BY <1>1, <1>3, Places1
<1>5. PICK a \in Numbers : a = s[1]
  BY <1>3, <1>4
<1>6. \E f : f = [k \in 0 .. DiskBlocks + Frames |-> Hop(d, f, a, k)]
  <2>1. \E f : f = [k \in 0 .. top |-> Hop(d, f, a, k)]
    BY HopsExist
  <2>2. QED
    BY <1>2, <2>1, Zenon
<1> DEFINE P(f) == f = [k \in 0 .. DiskBlocks + Frames |-> Hop(d, f, a, k)]
<1> DEFINE hop == CHOOSE f : P(f)
<1>7. P(hop)
  BY <1>6, Zenon
<1> DEFINE E(k) == hop[k] = 0 /\ \A j \in 0 .. k - 1 : hop[j] # 0
<1> DEFINE len == CHOOSE k \in 0 .. DiskBlocks + Frames : E(k)
<1>10. Chain(d, a) = [i \in 1 .. len |-> hop[i - 1]]
  BY Zenon DEF Chain, Hop
<1>9. (\E k \in 0 .. DiskBlocks + Frames : E(k)) => len \in 0 .. DiskBlocks + Frames /\ E(len)
  BY Zenon
<1>8. hop = [k \in 0 .. DiskBlocks + Frames |-> Hop(d, hop, a, k)]
  BY <1>7, Zenon
<1> HIDE DEF hop, len, P
<1>11. \A k \in 0 .. top : hop[k] = Hop(d, hop, a, k)
  BY <1>2, <1>8, Zenon
<1>12. hop[0] = a
  BY <1>11 DEF Hop
<1>13. ASSUME NEW k \in 0 .. top, k # 0 PROVE hop[k] = IF hop[k - 1] = 0 THEN 0 ELSE d[hop[k - 1]].next
  BY <1>11, <1>13 DEF Hop
<1>14. PICK T : T = {k \in Nat : k < n => hop[k] = s[k + 1]}
  OBVIOUS
<1>15. 0 \in T
  BY <1>5, <1>12, <1>14
<1>16. ASSUME NEW k \in T PROVE k + 1 \in T
  <2>1. k \in Nat /\ (k < n => hop[k] = s[k + 1])
    BY <1>14
  <2>2. SUFFICES ASSUME k + 1 < n PROVE hop[k + 1] = s[(k + 1) + 1]
    BY <1>14, <2>1
  <2>3. hop[k] = s[k + 1] /\ k + 1 \in 1 .. n /\ k + 1 \in 0 .. top /\ k + 1 # 0 /\ (k + 1) - 1 = k
    BY <1>3, <2>1, <2>2
  <2>4. hop[k + 1] = d[s[k + 1]].next
    BY <1>4, <1>13, <2>3
  <2>5. d[s[k + 1]].next = s[(k + 1) + 1]
    BY <1>1, <2>2, <2>3 DEF Linked
  <2>6. QED
    BY <2>4, <2>5
<1>17. \A k \in Nat : k \in T
  BY <1>14, <1>15, <1>16, AllNumbers
<1>18. ASSUME NEW k \in 0 .. n - 1 PROVE hop[k] = s[k + 1] /\ hop[k] # 0
  <2>1. k \in Nat /\ k < n /\ k + 1 \in 1 .. n
    BY <1>18
  <2>2. QED
    BY <1>4, <1>14, <1>17, <2>1
<1>19. hop[n] = 0
  <2>1. n \in 0 .. top /\ n # 0 /\ n - 1 \in 0 .. n - 1 /\ (n - 1) + 1 = n
    BY <1>3
  <2>2. hop[n] = d[s[n]].next
    BY <1>13, <1>18, <2>1
  <2>3. QED
    BY <1>1, <2>2 DEF Linked
<1>20. E(n) /\ n \in 0 .. top
  BY <1>3, <1>18, <1>19
<1>21. len \in 0 .. top /\ E(len)
  BY <1>2, <1>9, <1>20, Zenon
<1>22. len = n
  <2>1. ~ (len < n)
    BY <1>18, <1>21
  <2>2. ~ (n < len)
    BY <1>19, <1>21
  <2>3. QED
    BY <1>21, <2>1, <2>2
<1>23. ASSUME NEW i \in 1 .. n PROVE hop[i - 1] = s[i]
  <2>1. i - 1 \in 0 .. n - 1 /\ (i - 1) + 1 = i
    OBVIOUS
  <2>2. QED
    BY <1>18, <2>1
<1>24. [i \in 1 .. n |-> hop[i - 1]] = [i \in 1 .. n |-> s[i]]
  BY <1>23, Zenon
<1>25. s = [i \in 1 .. n |-> s[i]]
  BY <1>1, <1>3
<1>26. QED
  BY <1>5, <1>10, <1>22, <1>24, <1>25, Zenon

-----------------------------------------------------------------------------
(* Texts. *)

\* The texts of the first blocks, one after the other.
Concatenates(f, L, b, n) ==
    /\ f \in [1 .. n -> Seq(L)]
    /\ f[1] = b[1]
    /\ \A i \in 1 .. n : i < n => f[i + 1] = f[i] \o b[i + 1]
    /\ FlattenSeq(b) = f[n]

LEMMA FlattenIs ==
  ASSUME NEW L, NEW b \in Seq(Seq(L)), NEW n \in Nat, n = Len(b), n > 0
  PROVE  \E f : Concatenates(f, L, b, n)
<1> DEFINE S(f, i) == IF i = 1 THEN b[i] ELSE f[i - 1] \o b[i]
           P(f) == f = [i \in 1 .. n |-> S(f, i)]
<1>1. \E f : P(f)
  <2> DEFINE G == [p \in Seq(L) \X Nat |-> IF p[2] \in 1 .. n THEN p[1] \o b[p[2]] ELSE <<>>]
  <2>1. G \in [Seq(L) \X Nat -> Seq(L)]
    <3>1. ASSUME NEW p \in Seq(L) \X Nat, p[2] \in 1 .. n PROVE p[1] \o b[p[2]] \in Seq(L)
      <4>1. p[1] \in Seq(L) /\ b[p[2]] \in Seq(L)
        BY <3>1
      <4>2. QED
        BY <4>1, ConcatProperties
    <3>2. <<>> \in Seq(L)
      OBVIOUS
    <3>3. QED
      BY <3>1, <3>2
  <2>2. ASSUME NEW v \in Seq(L), NEW k \in 1 .. n PROVE G[<<v, k>>] = v \o b[k]
    <3>1. <<v, k>> \in Seq(L) \X Nat /\ <<v, k>>[1] = v /\ <<v, k>>[2] = k
      OBVIOUS
    <3>2. G[<<v, k>>] = IF <<v, k>>[2] \in 1 .. n THEN <<v, k>>[1] \o b[<<v, k>>[2]] ELSE <<>>
      BY <3>1, Zenon
    <3>3. QED
      BY <3>1, <3>2, Zenon
  <2> HIDE DEF G
  <2>3. PICK g \in [0 .. n -> Seq(L)] : g[0] = <<>> /\ \A k \in 1 .. n : g[k] = G[<<g[k - 1], k>>]
    <3>1. <<>> \in Seq(L)
      OBVIOUS
    <3>2. PICK g : Recurs(g, Seq(L), <<>>, G, n)
      BY <2>1, <3>1, Recursion, Zenon
    <3>3. QED
      BY <3>2, Zenon DEF Recurs
  <2>4. PICK f : f = [i \in 1 .. n |-> g[i]]
    OBVIOUS
  <2>5. ASSUME NEW i \in 1 .. n PROVE f[i] = S(f, i)
    <3>1. i \in 0 .. n /\ i - 1 \in 0 .. n
      OBVIOUS
    <3>2. g[i] = g[i - 1] \o b[i] /\ g[i - 1] \in Seq(L) /\ b[i] \in Seq(L)
      <4>1. g[i - 1] \in Seq(L)
        BY <2>3, <3>1
      <4>2. g[i] = G[<<g[i - 1], i>>]
        BY <2>3, Zenon
      <4>3. b[i] \in Seq(L)
        OBVIOUS
      <4>4. QED
        BY <2>2, <4>1, <4>2, <4>3, Zenon
    <3>3. CASE i = 1
      <4>1. g[i - 1] = <<>>
        BY <2>3, <3>3
      <4>2. g[i] = b[i]
        BY <3>2, <4>1, ConcatEmptySeq
      <4>3. QED
        BY <2>4, <3>3, <4>2
    <3>4. CASE i # 1
      <4>1. i - 1 \in 1 .. n
        BY <3>4
      <4>2. QED
        BY <2>4, <3>2, <3>4, <4>1
    <3>5. QED
      BY <3>3, <3>4
  <2>6. f = [i \in 1 .. n |-> S(f, i)]
    <3>1. f = [i \in 1 .. n |-> f[i]]
      BY <2>4
    <3>2. QED
      BY <2>5, <3>1, Zenon
  <2>7. QED
    BY <2>6, Zenon
<1>2. PICK f : f = CHOOSE g : P(g)
  OBVIOUS
<1>3. P(f)
  BY <1>1, <1>2, Zenon
<1>4. FlattenSeq(b) = f[n]
  <2>1. Len(b) # 0
    OBVIOUS
  <2>2. QED
    BY <1>2, <2>1, Zenon DEF FlattenSeq
<1>5. DOMAIN f = 1 .. n /\ f = [i \in 1 .. n |-> f[i]]
  BY <1>3
<1>6. \A i \in 1 .. n : f[i] = S(f, i)
  BY <1>3, Zenon
<1> HIDE DEF P
<1>7. 1 \in 1 .. n /\ f[1] = b[1]
  BY <1>6
<1>8. ASSUME NEW i \in 1 .. n, i < n PROVE f[i + 1] = f[i] \o b[i + 1]
  <2>1. i + 1 \in 1 .. n /\ i + 1 # 1 /\ (i + 1) - 1 = i
    BY <1>8
  <2>2. f[i + 1] = f[(i + 1) - 1] \o b[i + 1]
    BY <1>6, <2>1
  <2>3. QED
    BY <2>1, <2>2
<1>9. PICK T : T = {i \in Nat : i + 1 \in 1 .. n => f[i + 1] \in Seq(L)}
  OBVIOUS
<1>10. 0 \in T
  <2>1. b[1] \in Seq(L)
    BY <1>7
  <2>2. QED
    BY <1>7, <1>9, <2>1
<1>11. ASSUME NEW i \in T PROVE i + 1 \in T
  <2>1. i \in Nat /\ (i + 1 \in 1 .. n => f[i + 1] \in Seq(L))
    BY <1>9
  <2>2. SUFFICES ASSUME (i + 1) + 1 \in 1 .. n PROVE f[(i + 1) + 1] \in Seq(L)
    BY <1>9, <2>1
  <2>3. i + 1 \in 1 .. n /\ i + 1 < n
    BY <2>1, <2>2
  <2>4. f[(i + 1) + 1] = f[i + 1] \o b[(i + 1) + 1] /\ b[(i + 1) + 1] \in Seq(L)
    <3>1. f[(i + 1) + 1] = f[i + 1] \o b[(i + 1) + 1]
      BY <1>8, <2>3, Zenon
    <3>2. b[(i + 1) + 1] \in Seq(L)
      BY <2>2
    <3>3. QED
      BY <3>1, <3>2
  <2>5. QED
    BY <2>1, <2>3, <2>4, ConcatProperties
<1>12. \A i \in Nat : i \in T
  BY <1>9, <1>10, <1>11, AllNumbers
<1>13. ASSUME NEW i \in 1 .. n PROVE f[i] \in Seq(L)
  <2>1. i - 1 \in Nat /\ (i - 1) + 1 = i
    OBVIOUS
  <2>2. i - 1 \in T
    BY <1>12, <2>1
  <2>3. QED
    BY <1>9, <2>1, <2>2
<1>14. f \in [1 .. n -> Seq(L)]
  BY <1>5, <1>13
<1>15. Concatenates(f, L, b, n)
  BY <1>4, <1>7, <1>8, <1>14 DEF Concatenates
<1>16. QED
  BY <1>15, Zenon


LEMMA Times ==
  ASSUME NEW z \in Nat, NEW k \in Nat
  PROVE  z * k \in Nat /\ z * (k + 1) = z * k + z /\ z * 0 = 0
BY SMT

LEMMA TimesGrows ==
  ASSUME NEW z \in Nat, NEW i \in Nat, NEW j \in Nat, i <= j
  PROVE  z * i <= z * j
BY SMT

\* If all texts but the last one fill their blocks.
LEMMA FlattenLength ==
  ASSUME NEW L, NEW b \in Seq(Seq(L)), NEW n \in Nat, n + 1 = Len(b),
         \A i \in 1 .. n : Len(b[i]) = Chars
  PROVE  FlattenSeq(b) \in Seq(L) /\ Len(FlattenSeq(b)) = Chars * n + Len(b[n + 1])
<1>1. PICK m \in Nat : m = n + 1 /\ m = Len(b) /\ m > 0
  OBVIOUS
<1>2. PICK f \in [1 .. m -> Seq(L)] :
            /\ f[1] = b[1]
            /\ \A i \in 1 .. m : i < m => f[i + 1] = f[i] \o b[i + 1]
            /\ FlattenSeq(b) = f[m]
  <2>1. PICK f : Concatenates(f, L, b, m)
    BY <1>1, FlattenIs, Zenon
  <2>2. QED
    BY <2>1, Zenon DEF Concatenates
<1>3. Chars \in Nat
  BY Bounds
<1>4. \A i \in 1 .. m : b[i] \in Seq(L) /\ f[i] \in Seq(L) /\ Len(b[i]) \in Nat /\ Len(f[i]) \in Nat
  BY <1>1, <1>2
<1>5. PICK T : T = {k \in Nat : k + 1 <= m => Len(f[k + 1]) = Chars * k + Len(b[k + 1])}
  OBVIOUS
<1>6. 0 \in T
  <2>1. Chars * 0 = 0 /\ 0 + 1 = 1 /\ 1 \in 1 .. m
    BY <1>1, <1>3
  <2>2. Len(f[1]) = 0 + Len(b[1])
    BY <1>2, <1>4, <2>1
  <2>3. QED
    BY <1>5, <2>1, <2>2
<1>7. ASSUME NEW k \in T PROVE k + 1 \in T
  <2>1. k \in Nat /\ (k + 1 <= m => Len(f[k + 1]) = Chars * k + Len(b[k + 1]))
    BY <1>5
  <2>2. PICK x \in Nat : x = k + 1
    BY <2>1
  <2>3. SUFFICES ASSUME x + 1 <= m PROVE Len(f[x + 1]) = Chars * x + Len(b[x + 1])
    BY <1>5, <2>2
  <2>4. x \in 1 .. m /\ x < m /\ x + 1 \in 1 .. m /\ x \in 1 .. n
    BY <1>1, <2>1, <2>2, <2>3
  <2>5. PICK e \in Nat : e = Len(f[x])
    BY <1>4, <2>4
  <2>6. PICK g \in Nat : g = Len(b[x + 1])
    BY <1>4, <2>4
  <2>7. Len(f[x + 1]) = e + g
    <3>1. f[x + 1] = f[x] \o b[x + 1]
      BY <1>2, <2>4
    <3>2. Len(f[x] \o b[x + 1]) = Len(f[x]) + Len(b[x + 1])
      BY <1>4, <2>4, ConcatProperties
    <3>3. QED
      BY <2>5, <2>6, <3>1, <3>2
  <2>8. e = Chars * k + Chars
    <3>1. Len(b[x]) = Chars
      BY <2>4
    <3>2. Len(f[x]) = Chars * k + Len(b[x])
      BY <2>1, <2>2, <2>4
    <3>3. QED
      BY <2>5, <3>1, <3>2
  <2>9. Chars * x = Chars * k + Chars
    BY <1>3, <2>1, <2>2, Times
  <2>10. QED
    BY <2>6, <2>7, <2>8, <2>9
<1>8. \A k \in Nat : k \in T
  BY <1>5, <1>6, <1>7, AllNumbers
<1>9. Len(f[n + 1]) = Chars * n + Len(b[n + 1])
  <2>1. n \in T /\ n + 1 <= m
    BY <1>1, <1>8
  <2>2. QED
    BY <1>5, <2>1
<1>10. QED
  BY <1>1, <1>2, <1>4, <1>9

\* How a text is cut into pieces.
Pieced(L, text, q) ==
    /\ Chars * q <= Len(text) /\ Len(text) < Chars * q + Chars
    /\ \A i \in 1 .. q : /\ Chars * (i - 1) \in Nat /\ Chars * i = Chars * (i - 1) + Chars
                         /\ Chars * i <= Len(text)
                         /\ Piece(text, i) = SubSeq(text, Chars * (i - 1) + 1, Chars * i)
                         /\ Piece(text, i) \in Seq(L) /\ Len(Piece(text, i)) = Chars
    /\ Piece(text, q + 1) = SubSeq(text, Chars * q + 1, Len(text))
    /\ Piece(text, q + 1) \in Seq(L) /\ Len(Piece(text, q + 1)) < Chars
    /\ Len(Piece(text, q + 1)) = Len(text) - Chars * q

LEMMA PieceIs ==
  ASSUME NEW L, NEW text \in Seq(L), NEW q \in Nat, Needed(text) = q + 1
  PROVE  Pieced(L, text, q)
<1>1. Chars \in Nat /\ Chars # 0 /\ Chars > 0
  BY Bounds
<1>2. PICK l \in Nat : l = Len(text)
  OBVIOUS
<1>3. PICK y \in Nat : y = l \div Chars
  BY <1>1, DivIs
<1>4. y + 1 = q + 1
  BY <1>2, <1>3 DEF Needed
<1>5. y = q
  BY <1>4
<1>6. PICK w \in Nat : w = Chars * q
  BY <1>1, Times
<1>7. w <= l /\ l < w + Chars
  BY <1>1, <1>3, <1>5, <1>6, DivIs
<1>8. Chars * (q + 1) = w + Chars
  BY <1>1, <1>6, Times
<1>9. ASSUME NEW i \in 1 .. q
      PROVE  /\ Chars * (i - 1) \in Nat /\ Chars * i = Chars * (i - 1) + Chars
             /\ Chars * i <= Len(text)
             /\ Piece(text, i) = SubSeq(text, Chars * (i - 1) + 1, Chars * i)
             /\ Piece(text, i) \in Seq(L) /\ Len(Piece(text, i)) = Chars
  <2>1. PICK j \in Nat : j = i - 1 /\ j + 1 = i
    OBVIOUS
  <2>2. PICK v \in Nat : v = Chars * j
    BY <1>1, Times
  <2>3. Chars * i = v + Chars
    BY <1>1, <2>1, <2>2, Times
  <2>4. v + Chars <= l
    <3>1. Chars * i <= Chars * q
      BY <1>1, TimesGrows
    <3>2. QED
      BY <1>1, <1>2, <1>6, <1>7, <2>2, <2>3, <3>1
  <2>5. (IF Chars * i < Len(text) THEN Chars * i ELSE Len(text)) = v + Chars
    BY <1>1, <1>2, <2>2, <2>3, <2>4
  <2>6. Piece(text, i) = SubSeq(text, v + 1, v + Chars)
    BY <2>1, <2>2, <2>5 DEF Piece
  <2>7. \A x \in v + 1 .. v + Chars : text[x] \in L
    BY <1>1, <1>2, <2>2, <2>4
  <2>8. /\ SubSeq(text, v + 1, v + Chars) \in Seq(L)
        /\ Len(SubSeq(text, v + 1, v + Chars)) =
              IF v + 1 <= v + Chars THEN (v + Chars) - (v + 1) + 1 ELSE 0
    BY <1>1, <2>2, <2>7, SubSeqProperties
  <2>9. Len(SubSeq(text, v + 1, v + Chars)) = Chars
    BY <1>1, <2>2, <2>8
  <2>10. Piece(text, i) = SubSeq(text, Chars * (i - 1) + 1, Chars * i)
    BY <2>1, <2>2, <2>3, <2>6
  <2>11. QED
    BY <1>2, <2>1, <2>2, <2>3, <2>4, <2>6, <2>8, <2>9, <2>10
<1>10. Piece(text, q + 1) = SubSeq(text, w + 1, l)
  <2>1. (IF Chars * (q + 1) < Len(text) THEN Chars * (q + 1) ELSE Len(text)) = l
    BY <1>1, <1>2, <1>6, <1>7, <1>8
  <2>2. (q + 1) - 1 = q
    OBVIOUS
  <2>3. QED
    BY <1>6, <2>1, <2>2 DEF Piece
<1>11. \A x \in w + 1 .. l : text[x] \in L
  BY <1>2, <1>6
<1>12. /\ SubSeq(text, w + 1, l) \in Seq(L)
       /\ Len(SubSeq(text, w + 1, l)) = IF w + 1 <= l THEN l - (w + 1) + 1 ELSE 0
  BY <1>6, <1>2, <1>11, SubSeqProperties
<1>13. Len(SubSeq(text, w + 1, l)) = l - w
  BY <1>2, <1>6, <1>7, <1>12
<1>14. Chars * q <= Len(text) /\ Len(text) < Chars * q + Chars
  BY <1>2, <1>6, <1>7
<1>15. Piece(text, q + 1) = SubSeq(text, Chars * q + 1, Len(text))
  BY <1>2, <1>6, <1>10
<1>16. Len(Piece(text, q + 1)) = Len(text) - Chars * q
  BY <1>2, <1>6, <1>10, <1>13
<1>17. Len(Piece(text, q + 1)) < Chars
  BY <1>1, <1>2, <1>6, <1>7, <1>10, <1>13
<1>18. Piece(text, q + 1) \in Seq(L)
  BY <1>10, <1>12
<1>19. QED
  BY <1>9, <1>14, <1>15, <1>16, <1>17, <1>18, Zenon DEF Pieced

\* The pieces of a text are the text.
LEMMA FlattenPieces ==
  ASSUME NEW L, NEW text \in Seq(L), NEW q \in Nat, Needed(text) = q + 1,
         NEW b \in Seq(Seq(L)), Len(b) = q + 1, \A i \in 1 .. q + 1 : b[i] = Piece(text, i)
  PROVE  FlattenSeq(b) = text
<1>1. PICK m \in Nat : m = q + 1 /\ m = Len(b) /\ m > 0
  OBVIOUS
<1>2. PICK f \in [1 .. m -> Seq(L)] :
            /\ f[1] = b[1]
            /\ \A i \in 1 .. m : i < m => f[i + 1] = f[i] \o b[i + 1]
            /\ FlattenSeq(b) = f[m]
  <2>1. PICK f : Concatenates(f, L, b, m)
    BY <1>1, FlattenIs, Zenon
  <2>2. QED
    BY <2>1, Zenon DEF Concatenates
<1>3. Chars \in Nat /\ Chars * 0 = 0
  BY Bounds, Times
<1>4. PICK l \in Nat : l = Len(text)
  OBVIOUS
<1>20. Pieced(L, text, q)
  BY PieceIs, Zenon
<1>5. PICK w \in Nat : w = Chars * q /\ w <= l
  <2>1. Chars * q \in Nat
    BY <1>3, Times
  <2>2. Chars * q <= Len(text)
    BY <1>20, Zenon DEF Pieced
  <2>3. QED
    BY <1>4, <2>1, <2>2
<1>6. ASSUME NEW i \in 1 .. q
      PROVE  /\ Chars * (i - 1) \in Nat /\ Chars * i = Chars * (i - 1) + Chars
             /\ Chars * i <= Len(text)
             /\ b[i] = SubSeq(text, Chars * (i - 1) + 1, Chars * i)
  <2>1. b[i] = Piece(text, i)
    <3>1. i \in 1 .. q + 1
      OBVIOUS
    <3>2. QED
      BY <3>1
  <2>2. QED
    BY <1>20, <2>1, Zenon DEF Pieced
<1>7. b[q + 1] = SubSeq(text, w + 1, l)
  <2>1. b[q + 1] = Piece(text, q + 1)
    <3>1. q + 1 \in 1 .. q + 1
      OBVIOUS
    <3>2. QED
      BY <3>1
  <2>2. Piece(text, q + 1) = SubSeq(text, Chars * q + 1, Len(text))
    BY <1>20, Zenon DEF Pieced
  <2>3. QED
    BY <1>4, <1>5, <2>1, <2>2
<1>8. PICK T : T = {k \in Nat : k + 1 <= q => f[k + 1] = SubSeq(text, 1, Chars * (k + 1))}
  OBVIOUS
<1>9. 0 \in T
  <2>1. SUFFICES ASSUME 0 + 1 <= q PROVE f[0 + 1] = SubSeq(text, 1, Chars * (0 + 1))
    BY <1>8
  <2>2. 1 \in 1 .. q /\ 1 - 1 = 0 /\ 0 + 1 = 1
    BY <2>1
  <2>3. b[1] = SubSeq(text, Chars * (1 - 1) + 1, Chars * 1)
    BY <1>6, <2>2
  <2>4. Chars * (1 - 1) + 1 = 1
    BY <1>3
  <2>5. QED
    BY <1>2, <2>2, <2>3, <2>4
<1>10. ASSUME NEW k \in T PROVE k + 1 \in T
  <2>1. k \in Nat /\ (k + 1 <= q => f[k + 1] = SubSeq(text, 1, Chars * (k + 1)))
    BY <1>8
  <2>2. PICK x \in Nat : x = k + 1 /\ x > 0
    BY <2>1
  <2>3. SUFFICES ASSUME x + 1 <= q PROVE f[x + 1] = SubSeq(text, 1, Chars * (x + 1))
    BY <1>8, <2>2
  <2>4. x \in 1 .. m /\ x < m /\ x + 1 \in 1 .. q /\ (x + 1) - 1 = x
    BY <1>1, <2>2, <2>3
  <2>5. PICK v \in Nat : v = Chars * x
    BY <1>3, Times
  <2>6. b[x + 1] = SubSeq(text, v + 1, Chars * (x + 1)) /\ Chars * (x + 1) = v + Chars /\ v + Chars <= l
    BY <1>4, <1>6, <2>4, <2>5
  <2>7. f[x] = SubSeq(text, 1, v)
    BY <2>1, <2>2, <2>3, <2>5
  <2>8. SubSeq(text, 1, v) \o SubSeq(text, v + 1, v + Chars) = SubSeq(text, 1, v + Chars)
    <3>1. 1 \in 1 .. Len(text) + 1 /\ v \in 1 - 1 .. Len(text) /\ v + Chars \in v .. Len(text)
      BY <1>3, <1>4, <2>5, <2>6
    <3>2. QED
      BY <3>1, ConcatAdjacentSubSeq
  <2>9. f[x + 1] = f[x] \o b[x + 1]
    BY <1>2, <2>4
  <2>10. QED
    BY <2>6, <2>7, <2>8, <2>9
<1>11. \A k \in Nat : k \in T
  BY <1>8, <1>9, <1>10, AllNumbers
<1>12. CASE q = 0
  <2>1. w = 0 /\ m = 1
    BY <1>1, <1>3, <1>5, <1>12
  <2>2. f[m] = SubSeq(text, 0 + 1, l)
    BY <1>2, <1>7, <1>12, <2>1
  <2>3. SubSeq(text, 1, l) = text
    BY <1>4, SubSeqFull
  <2>4. QED
    BY <1>2, <2>2, <2>3
<1>13. CASE q > 0
  <2>1. PICK k \in Nat : k + 1 = q
    <3>1. q - 1 \in Nat /\ (q - 1) + 1 = q
      BY <1>13
    <3>2. QED
      BY <3>1
  <2>2. f[q] = SubSeq(text, 1, w)
    <3>1. k \in T
      BY <1>11
    <3>2. QED
      BY <1>5, <1>8, <2>1, <3>1
  <2>3. q \in 1 .. m /\ q < m
    BY <1>1, <1>13
  <2>4. f[q + 1] = f[q] \o b[q + 1]
    BY <1>2, <2>3
  <2>5. SubSeq(text, 1, w) \o SubSeq(text, w + 1, l) = SubSeq(text, 1, l)
    <3>1. 1 \in 1 .. Len(text) + 1 /\ w \in 1 - 1 .. Len(text) /\ l \in w .. Len(text)
      BY <1>4, <1>5
    <3>2. QED
      BY <3>1, ConcatAdjacentSubSeq
  <2>6. SubSeq(text, 1, l) = text
    BY <1>4, SubSeqFull
  <2>7. QED
    BY <1>1, <1>2, <1>7, <2>2, <2>4, <2>5, <2>6
<1>14. QED
  BY <1>12, <1>13


-----------------------------------------------------------------------------
(* Chains that have exactly the blocks that their text needs. *)

Exact(d, s) ==
    /\ Linked(d, s)
    /\ \A i \in 1 .. Len(s) : i < Len(s) => "cont" \in d[s[i]].stat /\ Len(d[s[i]].body) = Chars
    /\ Len(d[s[Len(s)]].body) < Chars

Bodies(d, s) == [i \in DOMAIN s |-> d[s[i]].body]

\* What the code finds out about a chain of blocks that starts with a.
Found(d, s, a) ==
    /\ Chain(d, a) = s
    /\ Text(d, a) = FlattenSeq(Bodies(d, s))
    /\ Text(d, a) \in Seq(Letters)
    /\ Needed(Text(d, a)) = Len(s)
    /\ BlockNum(d, a) = Len(s)
    /\ SizeOf(d, a) \in Nat

LEMMA ExactIs ==
  ASSUME NEW d \in Memory, NEW s, Exact(d, s)
  PROVE  Found(d, s, s[1])
<1>1. Linked(d, s)
  BY DEF Exact
<1>2. PICK q \in Nat : Len(s) = q + 1
  <2>1. Len(s) \in Nat /\ Len(s) > 0
    BY <1>1 DEF Linked
  <2>2. Len(s) - 1 \in Nat /\ Len(s) = (Len(s) - 1) + 1
    BY <2>1
  <2>3. QED
    BY <2>2
<1>3. s \in Seq(Places) /\ DOMAIN s = 1 .. q + 1 /\ q + 1 \in 1 .. q + 1 /\ 1 \in 1 .. q + 1
  BY <1>1, <1>2 DEF Linked
<1>4. \A i \in 1 .. q + 1 : s[i] \in Places
  BY <1>2, <1>3
<1>5. \A i \in 1 .. q + 1 : /\ d[s[i]].body \in Seq(Letters) /\ Len(d[s[i]].body) \in Nat
                            /\ d[s[i]].stat \subseteq Status
  BY <1>4, Contents
<1>6. ASSUME NEW i \in 1 .. q PROVE "cont" \in d[s[i]].stat /\ Len(d[s[i]].body) = Chars
  <2>1. i \in 1 .. q + 1 /\ i < q + 1
    OBVIOUS
  <2>2. QED
    BY <1>2, <2>1 DEF Exact
<1>7. PICK r \in Nat : r = Len(d[s[q + 1]].body) /\ r < Chars
  <2>1. Len(d[s[q + 1]].body) < Chars
    BY <1>2 DEF Exact
  <2>2. QED
    BY <1>3, <1>5, <2>1
<1>8. Chars \in Nat /\ Chars > 0 /\ Chars # 0
  BY Bounds
<1>9. PICK a : a = s[1]
  OBVIOUS
<1>10. Chain(d, a) = s
  BY <1>1, <1>9, ChainIs
<1>11. PICK b : b = Bodies(d, s)
  OBVIOUS
<1>12. /\ b \in Seq(Seq(Letters)) /\ Len(b) = q + 1
       /\ \A i \in 1 .. q + 1 : b[i] = d[s[i]].body
  <2>1. b = [i \in 1 .. q + 1 |-> d[s[i]].body]
    BY <1>3, <1>11, Zenon DEF Bodies
  <2>2. \A i \in 1 .. q + 1 : b[i] = d[s[i]].body
    BY <2>1, Zenon
  <2>3. \A i \in 1 .. q + 1 : b[i] \in Seq(Letters)
    BY <1>5, <2>2
  <2>4. b \in [1 .. q + 1 -> Seq(Letters)]
    <3>1. DOMAIN b = 1 .. q + 1 /\ b = [i \in 1 .. q + 1 |-> b[i]]
      BY <2>1
    <3>2. QED
      BY <2>3, <3>1
  <2>5. b \in Seq(Seq(Letters)) /\ Len(b) = q + 1
    BY <2>4
  <2>6. QED
    BY <2>2, <2>5
<1>13. Text(d, a) = FlattenSeq(b)
  BY <1>10, <1>11, Zenon DEF Text, Bodies
<1>14. FlattenSeq(b) \in Seq(Letters) /\ Len(FlattenSeq(b)) = Chars * q + r
  <2>1. \A i \in 1 .. q : Len(b[i]) = Chars
    <3>1. \A i \in 1 .. q : i \in 1 .. q + 1
      OBVIOUS
    <3>2. QED
      BY <1>6, <1>12, <3>1
  <2>2. Len(b[q + 1]) = r
    BY <1>3, <1>7, <1>12
  <2>3. q + 1 = Len(b)
    BY <1>12
  <2>4. FlattenSeq(b) \in Seq(Letters) /\ Len(FlattenSeq(b)) = Chars * q + Len(b[q + 1])
    BY <1>12, <2>1, <2>3, FlattenLength
  <2>5. QED
    BY <2>2, <2>4
<1>15. Needed(Text(d, a)) = q + 1
  <2>1. (Chars * q + r) \div Chars = q
    BY <1>7, <1>8, DivOf
  <2>2. QED
    BY <1>13, <1>14, <2>1 DEF Needed
<1>16. FullBlocks(d, a) = q
  <2> DEFINE F == {i \in DOMAIN s : \A j \in 1 .. i : /\ "cont" \in d[s[j]].stat
                                                    /\ Len(d[s[j]].body) = Chars}
  <2>1. FullBlocks(d, a) = Cardinality(F)
    BY <1>10, Zenon DEF FullBlocks
  <2>2. ASSUME NEW i \in F PROVE i \in 1 .. q
    <3>1. i \in 1 .. q + 1 /\ Len(d[s[i]].body) = Chars
      <4>1. i \in 1 .. q + 1
        BY <1>3
      <4>2. i \in 1 .. i
        BY <4>1
      <4>3. QED
        BY <4>1, <4>2
    <3>2. i # q + 1
      BY <1>7, <1>8, <3>1
    <3>3. QED
      BY <3>1, <3>2
  <2>3. ASSUME NEW i \in 1 .. q PROVE i \in F
    <3>1. i \in DOMAIN s
      BY <1>3
    <3>2. \A j \in 1 .. i : j \in 1 .. q
      OBVIOUS
    <3>3. QED
      BY <1>6, <3>1, <3>2
  <2> HIDE DEF F
  <2>4. F = 1 .. q
    BY <2>2, <2>3
  <2>5. Cardinality(1 .. q) = IF 1 > q THEN 0 ELSE q - 1 + 1
    BY FS_Interval
  <2>6. QED
    BY <2>1, <2>4, <2>5
<1>17. SizeOf(d, a) = (Chars + 1) * q + r
  <2>1. SizeOf(d, a) = (Chars + 1) * q + Len(d[s[q + 1]].body)
    BY <1>10, <1>16, Zenon DEF SizeOf
  <2>2. QED
    BY <1>7, <2>1
<1>18. PICK z \in Nat : z = Chars + 1 /\ z # 0 /\ r < z
  BY <1>7, <1>8
<1>19. z * q + r \in Nat
  <2>1. PICK y \in Nat : y = z * q
    BY <1>18, Times
  <2>2. QED
    BY <1>7, <1>18, <2>1
<1>20. (z * q + r) \div z = q
  BY <1>7, <1>18, DivOf
<1>21. BlockNum(d, a) = q + 1
  BY <1>17, <1>18, <1>20 DEF BlockNum
<1>22. SizeOf(d, a) \in Nat
  BY <1>17, <1>18, <1>19
<1>23. Text(d, a) = FlattenSeq(Bodies(d, s))
  BY <1>11, <1>13
<1>24. Text(d, a) \in Seq(Letters)
  BY <1>13, <1>14
<1>25. Found(d, s, a)
  BY <1>2, <1>10, <1>15, <1>21, <1>22, <1>23, <1>24 DEF Found
<1>26. QED
  BY <1>9, <1>25

\* Two memories hold the same in a block, but for the marks of open files.
Alike(d, e, x) ==
    /\ e[x].next = d[x].next /\ e[x].body = d[x].body
    /\ "cont" \in e[x].stat <=> "cont" \in d[x].stat

LEMMA ExactKept ==
  ASSUME NEW d \in Memory, NEW e \in Memory, NEW s, Exact(d, s),
         \A i \in 1 .. Len(s) : Alike(d, e, s[i])
  PROVE  Exact(e, s) /\ Text(e, s[1]) = Text(d, s[1])
<1>1. Linked(d, s)
  BY DEF Exact
<1>2. Len(s) \in 1 .. Len(s) /\ DOMAIN s = 1 .. Len(s)
  BY <1>1 DEF Linked
<1>3. Linked(e, s)
  <2>1. d[s[Len(s)]].next = 0 /\ e[s[Len(s)]].next = d[s[Len(s)]].next
    BY <1>1, <1>2 DEF Linked, Alike
  <2>2. ASSUME NEW i \in 1 .. Len(s), i < Len(s) PROVE e[s[i]].next = s[i + 1]
    BY <1>1, <2>2 DEF Linked, Alike
  <2>3. QED
    BY <1>1, <2>1, <2>2 DEF Linked
<1>4. Exact(e, s)
  <2>1. Len(e[s[Len(s)]].body) < Chars
    BY <1>2 DEF Exact, Alike
  <2>2. ASSUME NEW i \in 1 .. Len(s), i < Len(s)
        PROVE  "cont" \in e[s[i]].stat /\ Len(e[s[i]].body) = Chars
    BY <2>2 DEF Exact, Alike
  <2>3. QED
    BY <1>3, <2>1, <2>2 DEF Exact
<1>5. Bodies(e, s) = Bodies(d, s)
  <2>1. ASSUME NEW i \in DOMAIN s PROVE e[s[i]].body = d[s[i]].body
    BY <1>2 DEF Alike
  <2>2. QED
    BY <2>1, Zenon DEF Bodies
<1>6. Found(d, s, s[1]) /\ Found(e, s, s[1])
  BY <1>4, ExactIs
<1>7. QED
  BY <1>4, <1>5, <1>6, Zenon DEF Found


-----------------------------------------------------------------------------
(* How files and the copy lie in the blocks. *)

\* The blocks of the chain of a.
Owned(d, a) == ToSet(Chain(d, a))

\* Each chain is exact and in its zone, no two share a block, and the blocks
\* of the disk are valid and those of memory held if a chain has them, or, on
\* the disk, if they are lost.
Laid(d, h, R, l) ==
    /\ d \in Memory /\ R \subseteq Places /\ l \subseteq Disk /\ h \subseteq Buf
    /\ \A a \in R : Exact(d, Chain(d, a)) /\ Chain(d, a)[1] = a /\ Owned(d, a) \subseteq Zone(a)
    /\ \A a, b \in R : a # b => Owned(d, a) \cap Owned(d, b) = {}
    /\ \A x \in Disk : "valid" \in d[x].stat <=> (x \in l \/ \E a \in R : x \in Owned(d, a))
    /\ \A a \in R : Owned(d, a) \cap l = {}
    /\ \A x \in Buf : x \in h <=> \E a \in R : x \in Owned(d, a)

LEMMA ToSetIs ==
  ASSUME NEW X, NEW s \in Seq(X), NEW x
  PROVE  x \in ToSet(s) <=> \E i \in 1 .. Len(s) : x = s[i]
<1>1. DOMAIN s = 1 .. Len(s)
  OBVIOUS
<1>2. QED
  BY <1>1 DEF ToSet

LEMMA LinkedIs ==
  ASSUME NEW d, NEW s, Linked(d, s)
  PROVE  /\ s \in Seq(Places) /\ Len(s) \in Nat /\ Len(s) > 0 /\ DOMAIN s = 1 .. Len(s)
         /\ 1 \in 1 .. Len(s) /\ s[1] \in Places
         /\ \A i \in 1 .. Len(s) : s[i] \in Places
         /\ \A x : x \in ToSet(s) <=> \E i \in 1 .. Len(s) : x = s[i]
<1>1. s \in Seq(Places) /\ Len(s) > 0
  BY DEF Linked
<1>2. Len(s) \in Nat /\ DOMAIN s = 1 .. Len(s) /\ 1 \in 1 .. Len(s)
  BY <1>1
<1>3. \A i \in 1 .. Len(s) : s[i] \in Places
  BY <1>1
<1>4. \A x : x \in ToSet(s) <=> \E i \in 1 .. Len(s) : x = s[i]
  BY <1>1, ToSetIs
<1>5. QED
  BY <1>1, <1>2, <1>3, <1>4

LEMMA Zones ==
  ASSUME NEW a
  PROVE  /\ Zone(a) \subseteq Places
         /\ a \in Disk => Zone(a) = Disk
         /\ a \notin Disk => Zone(a) = Buf
BY DEF Zone, Places

\* What holds of a chain that is laid.
LEMMA LaidIs ==
  ASSUME NEW d, NEW h, NEW R, NEW l, Laid(d, h, R, l), NEW a \in R
  PROVE  /\ d \in Memory /\ a \in Places
         /\ Exact(d, Chain(d, a)) /\ Linked(d, Chain(d, a)) /\ Chain(d, a)[1] = a
         /\ Found(d, Chain(d, a), a)
         /\ a \in Owned(d, a) /\ Owned(d, a) \subseteq Places
<1>1. d \in Memory /\ a \in Places /\ Exact(d, Chain(d, a)) /\ Chain(d, a)[1] = a
      /\ Owned(d, a) \subseteq Zone(a)
  BY DEF Laid
<1>2. Linked(d, Chain(d, a))
  BY <1>1 DEF Exact
<1>3. Found(d, Chain(d, a), a)
  BY <1>1, ExactIs
<1>4. a \in Owned(d, a)
  BY <1>1, <1>2, LinkedIs DEF Owned
<1>5. Owned(d, a) \subseteq Places
  BY <1>1, Zones
<1>6. QED
  BY <1>1, <1>2, <1>3, <1>4, <1>5

\* What has to be shown when the chain of a is written, or a new one.
Relays(d, R, e, h, l, a, s) ==
    /\ Exact(e, s) /\ s[1] = a /\ ToSet(s) \subseteq Zone(a)
    /\ \A b \in R \ {a} : Owned(d, b) \cap ToSet(s) = {}
    /\ \A b \in R \ {a} : Owned(d, b) \cap l = {}
    /\ \A b \in R \ {a} : \A x \in Owned(d, b) : Alike(d, e, x)
    /\ l \subseteq Disk /\ h \subseteq Buf /\ ToSet(s) \cap l = {}
    /\ \A x \in Disk : "valid" \in e[x].stat <=>
                         (x \in l \/ x \in ToSet(s) \/ \E b \in R \ {a} : x \in Owned(d, b))
    /\ \A x \in Buf : x \in h <=> (x \in ToSet(s) \/ \E b \in R \ {a} : x \in Owned(d, b))

\* The other chains and their texts are as they were.
Spared(d, e, R) == \A b \in R : Chain(e, b) = Chain(d, b) /\ Text(e, b) = Text(d, b)

LEMMA SparedIs ==
  ASSUME NEW d, NEW h, NEW R, NEW l, Laid(d, h, R, l), NEW e \in Memory,
         NEW Q \in SUBSET R, \A b \in Q : \A x \in Owned(d, b) : Alike(d, e, x)
  PROVE  /\ Spared(d, e, Q)
         /\ \A b \in Q : Exact(e, Chain(e, b)) /\ Chain(e, b)[1] = b /\ Owned(e, b) = Owned(d, b)
<1>1. ASSUME NEW b \in Q
      PROVE  /\ Chain(e, b) = Chain(d, b) /\ Text(e, b) = Text(d, b)
             /\ Exact(e, Chain(e, b)) /\ Chain(e, b)[1] = b /\ Owned(e, b) = Owned(d, b)
  <2>1. b \in R
    OBVIOUS
  <2>2. PICK s : s = Chain(d, b)
    OBVIOUS
  <2>3. d \in Memory /\ Exact(d, s) /\ Linked(d, s) /\ s[1] = b
    BY <2>1, <2>2, LaidIs
  <2>4. ASSUME NEW i \in 1 .. Len(s) PROVE Alike(d, e, s[i])
    <3>1. s[i] \in Owned(d, b)
      BY <2>2, <2>3, LinkedIs DEF Owned
    <3>2. QED
      BY <3>1
  <2>5. Exact(e, s) /\ Text(e, s[1]) = Text(d, s[1])
    BY <2>3, <2>4, ExactKept
  <2>6. Found(e, s, s[1])
    BY <2>5, ExactIs
  <2>7. Chain(e, b) = s
    BY <2>3, <2>6 DEF Found
  <2>8. QED
    BY <2>2, <2>3, <2>5, <2>7 DEF Owned
<1>2. QED
  BY <1>1 DEF Spared

LEMMA Relaid ==
  ASSUME NEW d, NEW h, NEW R, NEW l, Laid(d, h, R, l), NEW a \in Places,
         NEW e \in Memory, NEW g, NEW m, NEW s, Relays(d, R, e, g, m, a, s)
  PROVE  /\ Laid(e, g, R \cup {a}, m)
         /\ Found(e, s, a)
         /\ Spared(d, e, R \ {a})
<1>1. /\ Exact(e, s) /\ s[1] = a /\ ToSet(s) \subseteq Zone(a)
      /\ m \subseteq Disk /\ g \subseteq Buf /\ ToSet(s) \cap m = {}
  BY DEF Relays
<1>2. Found(e, s, a)
  BY <1>1, ExactIs
<1>3. Chain(e, a) = s /\ Owned(e, a) = ToSet(s)
  BY <1>2 DEF Found, Owned
<1> DEFINE Q == R \ {a}
<1>4. /\ \A b \in Q : Owned(d, b) \cap ToSet(s) = {}
      /\ \A b \in Q : Owned(d, b) \cap m = {}
      /\ \A b \in Q : \A x \in Owned(d, b) : Alike(d, e, x)
      /\ \A x \in Disk : "valid" \in e[x].stat <=>
                           (x \in m \/ x \in ToSet(s) \/ \E b \in Q : x \in Owned(d, b))
      /\ \A x \in Buf : x \in g <=> (x \in ToSet(s) \/ \E b \in Q : x \in Owned(d, b))
  BY Zenon DEF Relays
<1>5. Q \in SUBSET R /\ R \cup {a} = Q \cup {a} /\ a \notin Q
  OBVIOUS
<1> HIDE DEF Q
<1>6. /\ Spared(d, e, Q)
      /\ \A b \in Q : Exact(e, Chain(e, b)) /\ Chain(e, b)[1] = b /\ Owned(e, b) = Owned(d, b)
  BY <1>4, <1>5, SparedIs
<1>7. R \cup {a} \subseteq Places
  BY DEF Laid
<1>8. ASSUME NEW b \in R \cup {a}
      PROVE  Exact(e, Chain(e, b)) /\ Chain(e, b)[1] = b /\ Owned(e, b) \subseteq Zone(b)
  <2>1. CASE b = a
    BY <1>1, <1>3, <2>1
  <2>2. CASE b # a
    <3>1. b \in Q /\ b \in R
      BY <1>5, <2>2
    <3>2. Owned(d, b) \subseteq Zone(b)
      BY <3>1 DEF Laid
    <3>3. QED
      BY <1>6, <3>1, <3>2
  <2>3. QED
    BY <2>1, <2>2
<1>9. ASSUME NEW b \in R \cup {a}, NEW c \in R \cup {a}, b # c PROVE Owned(e, b) \cap Owned(e, c) = {}
  <2>1. CASE b = a
    <3>1. c \in Q
      BY <1>5, <1>9, <2>1
    <3>2. QED
      BY <1>3, <1>4, <1>6, <2>1, <3>1
  <2>2. CASE c = a
    <3>1. b \in Q
      BY <1>5, <1>9, <2>2
    <3>2. QED
      BY <1>3, <1>4, <1>6, <2>2, <3>1
  <2>3. CASE b # a /\ c # a
    <3>1. b \in Q /\ c \in Q /\ b \in R /\ c \in R
      BY <1>5, <2>3
    <3>2. Owned(d, b) \cap Owned(d, c) = {}
      BY <1>9, <3>1 DEF Laid
    <3>3. QED
      BY <1>6, <3>1, <3>2
  <2>4. QED
    BY <2>1, <2>2, <2>3
<1>10. \A x : (\E b \in R \cup {a} : x \in Owned(e, b)) <=> (x \in ToSet(s) \/ \E b \in Q : x \in Owned(d, b))
  BY <1>3, <1>5, <1>6
<1>11. \A x \in Disk : "valid" \in e[x].stat <=> (x \in m \/ \E b \in R \cup {a} : x \in Owned(e, b))
  BY <1>4, <1>10
<1>12. \A x \in Buf : x \in g <=> \E b \in R \cup {a} : x \in Owned(e, b)
  BY <1>4, <1>10
<1>13. ASSUME NEW b \in R \cup {a} PROVE Owned(e, b) \cap m = {}
  BY <1>1, <1>3, <1>4, <1>5, <1>6
<1>14. Laid(e, g, R \cup {a}, m)
  BY <1>1, <1>7, <1>8, <1>9, <1>11, <1>12, <1>13, Zenon DEF Laid
<1>15. QED
  BY <1>2, <1>6, <1>14, Zenon DEF Q


\* Marks of open files change neither chains nor texts.
LEMMA Remarked ==
  ASSUME NEW d, NEW h, NEW R, NEW l, Laid(d, h, R, l), NEW e \in Memory,
         \A x \in Places : Alike(d, e, x) /\ ("valid" \in e[x].stat <=> "valid" \in d[x].stat)
  PROVE  Laid(e, h, R, l) /\ Spared(d, e, R) /\ \A b \in R : Owned(e, b) = Owned(d, b)
<1>1. ASSUME NEW b \in R, NEW x \in Owned(d, b) PROVE Alike(d, e, x)
  BY LaidIs
<1>2. R \in SUBSET R
  OBVIOUS
<1>3. /\ Spared(d, e, R)
      /\ \A b \in R : Exact(e, Chain(e, b)) /\ Chain(e, b)[1] = b /\ Owned(e, b) = Owned(d, b)
  BY <1>1, <1>2, SparedIs
<1>4. \A x \in Disk : x \in Places
  BY DEF Places
<1>5. Laid(e, h, R, l)
  BY <1>3, <1>4 DEF Laid
<1>6. QED
  BY <1>3, <1>5

\* The copy is given back.
LEMMA Unlaid ==
  ASSUME NEW d, NEW h, NEW R, NEW l, Laid(d, h, R, l), NEW a \in R, a \notin Disk
  PROVE  /\ Laid(Dropped(d, a), h \ Owned(d, a), R \ {a}, l)
         /\ Spared(d, Dropped(d, a), R \ {a})
         /\ \A x \in Places : x \notin Owned(d, a) => Dropped(d, a)[x] = d[x]
<1>1. d \in Memory /\ DOMAIN d = Places
  BY Contents DEF Laid, Memory
<1>2. PICK e : e = Dropped(d, a)
  OBVIOUS
<1>3. e = [x \in Places |-> IF x \in Owned(d, a) THEN Unused ELSE d[x]]
  BY <1>1, <1>2 DEF Dropped, Owned
<1>4. Unused \in [stat : SUBSET Status, orig : Numbers, next : Numbers, body : Seq(Letters)]
  BY Bounds DEF Unused, Numbers
<1>5. e \in Memory
  BY <1>1, <1>3, <1>4 DEF Memory
<1>6. \A x \in Places : x \notin Owned(d, a) => e[x] = d[x]
  BY <1>3
<1>7. Owned(d, a) \subseteq Buf /\ Owned(d, a) \subseteq Places
  BY LaidIs, Zones DEF Laid
<1> DEFINE Q == R \ {a}
<1>8. Q \in SUBSET R /\ a \notin Q /\ R = Q \cup {a}
  OBVIOUS
<1> HIDE DEF Q
<1>9. ASSUME NEW b \in Q PROVE Owned(d, b) \cap Owned(d, a) = {} /\ Owned(d, b) \subseteq Places
  <2>1. b \in R /\ b # a
    BY <1>8
  <2>2. Owned(d, b) \subseteq Places
    BY <2>1, LaidIs
  <2>3. Owned(d, b) \cap Owned(d, a) = {}
    BY <2>1 DEF Laid
  <2>4. QED
    BY <2>2, <2>3
<1>10. ASSUME NEW b \in Q, NEW x \in Owned(d, b) PROVE Alike(d, e, x)
  <2>1. e[x] = d[x]
    BY <1>6, <1>9
  <2>2. QED
    BY <2>1 DEF Alike
<1>11. /\ Spared(d, e, Q)
       /\ \A b \in Q : Exact(e, Chain(e, b)) /\ Chain(e, b)[1] = b /\ Owned(e, b) = Owned(d, b)
  BY <1>5, <1>8, <1>10, SparedIs
<1>12. ASSUME NEW b \in Q PROVE Owned(e, b) \subseteq Zone(b) /\ Owned(e, b) \cap l = {}
  BY <1>8, <1>11 DEF Laid
<1>13. ASSUME NEW b \in Q, NEW c \in Q, b # c PROVE Owned(e, b) \cap Owned(e, c) = {}
  BY <1>8, <1>11, <1>13 DEF Laid
<1>14. ASSUME NEW x \in Disk
       PROVE  "valid" \in e[x].stat <=> (x \in l \/ \E b \in Q : x \in Owned(e, b))
  <2>1. x \notin Owned(d, a) /\ x \in Places
    BY <1>7, Bounds DEF Places
  <2>2. e[x] = d[x]
    BY <1>6, <2>1
  <2>3. "valid" \in d[x].stat <=> (x \in l \/ \E b \in R : x \in Owned(d, b))
    BY DEF Laid
  <2>4. QED
    BY <1>8, <1>11, <2>1, <2>2, <2>3
<1>15. ASSUME NEW x \in Buf
       PROVE  x \in h \ Owned(d, a) <=> \E b \in Q : x \in Owned(e, b)
  <2>1. x \in h <=> \E b \in R : x \in Owned(d, b)
    BY DEF Laid
  <2>2. QED
    BY <1>8, <1>9, <1>11, <2>1
<1>16. Q \subseteq Places /\ l \subseteq Disk /\ h \ Owned(d, a) \subseteq Buf
  BY <1>8 DEF Laid
<1>17. Laid(e, h \ Owned(d, a), Q, l)
  BY <1>5, <1>11, <1>12, <1>13, <1>14, <1>15, <1>16, Zenon DEF Laid
<1>18. QED
  BY <1>2, <1>6, <1>11, <1>17, Zenon DEF Q

-----------------------------------------------------------------------------
(* Free blocks. *)

IsFree(d, h, a, x) == IF a \in Disk THEN x \in Disk /\ "valid" \notin d[x].stat ELSE x \in Buf \ h

\* The search for free blocks, up to block k.
Scan(d, h, a, f, k) ==
    IF k = 0 THEN <<>> ELSE IF IsFree(d, h, a, k) THEN Append(f[k - 1], k) ELSE f[k - 1]

Scans(d, h, a, top) == \E f : f = [k \in 0 .. top |-> Scan(d, h, a, f, k)]

LEMMA ScanExists ==
  ASSUME NEW d, NEW h, NEW a, NEW top \in Nat
  PROVE  Scans(d, h, a, top)
<1> DEFINE G == [p \in Seq(Nat) \X Nat |-> IF IsFree(d, h, a, p[2]) THEN Append(p[1], p[2]) ELSE p[1]]
<1>1. G \in [Seq(Nat) \X Nat -> Seq(Nat)]
  <2>1. ASSUME NEW p \in Seq(Nat) \X Nat PROVE Append(p[1], p[2]) \in Seq(Nat) /\ p[1] \in Seq(Nat)
    <3>1. p[1] \in Seq(Nat) /\ p[2] \in Nat
      OBVIOUS
    <3>2. QED
      BY <3>1, AppendProperties
  <2>2. QED
    BY <2>1
<1>2. ASSUME NEW v \in Seq(Nat), NEW k \in Nat
      PROVE  G[<<v, k>>] = IF IsFree(d, h, a, k) THEN Append(v, k) ELSE v
  <2>1. <<v, k>> \in Seq(Nat) \X Nat /\ <<v, k>>[1] = v /\ <<v, k>>[2] = k
    OBVIOUS
  <2>2. G[<<v, k>>] = IF IsFree(d, h, a, <<v, k>>[2]) THEN Append(<<v, k>>[1], <<v, k>>[2]) ELSE <<v, k>>[1]
    BY <2>1, Zenon
  <2>3. QED
    BY <2>1, <2>2, Zenon
<1> HIDE DEF G
<1>3. PICK f : Recurs(f, Seq(Nat), <<>>, G, top)
  <2>1. <<>> \in Seq(Nat)
    OBVIOUS
  <2>2. QED
    BY <1>1, <2>1, Recursion, Zenon
<1>4. /\ f \in [0 .. top -> Seq(Nat)] /\ f[0] = <<>>
      /\ \A k \in 1 .. top : f[k] = G[<<f[k - 1], k>>]
  BY <1>3, Zenon DEF Recurs
<1>5. ASSUME NEW k \in 0 .. top PROVE f[k] = Scan(d, h, a, f, k)
  <2>1. CASE k = 0
    BY <1>4, <2>1 DEF Scan
  <2>2. CASE k # 0
    <3>1. k \in 1 .. top /\ k \in Nat /\ k - 1 \in 0 .. top
      BY <2>2
    <3>2. f[k - 1] \in Seq(Nat)
      BY <1>4, <3>1
    <3>3. f[k] = G[<<f[k - 1], k>>]
      BY <1>4, <3>1, Zenon
    <3>4. QED
      BY <1>2, <2>2, <3>1, <3>2, <3>3, Zenon DEF Scan
  <2>3. QED
    BY <2>1, <2>2
<1>6. f = [k \in 0 .. top |-> f[k]]
  BY <1>4
<1>7. f = [k \in 0 .. top |-> Scan(d, h, a, f, k)]
  BY <1>5, <1>6, Zenon
<1>8. QED
  BY <1>7, Zenon DEF Scans

\* The search has found free blocks, each once, up to block k.
Finds(d, h, a, s, k) ==
    /\ s \in Seq(Nat)
    /\ \A i \in 1 .. Len(s) : s[i] <= k /\ IsFree(d, h, a, s[i])
    /\ \A i, j \in 1 .. Len(s) : s[i] = s[j] => i = j

LEMMA FindsNext ==
  ASSUME NEW d, NEW h, NEW a, NEW s, NEW k \in Nat, Finds(d, h, a, s, k), IsFree(d, h, a, k + 1)
  PROVE  Finds(d, h, a, Append(s, k + 1), k + 1)
<1>1. PICK n \in Nat : n = Len(s)
  BY DEF Finds
<1>2. PICK x \in Nat : x = k + 1
  OBVIOUS
<1>3. PICK t : t = Append(s, x)
  OBVIOUS
<1>4. /\ s \in Seq(Nat) /\ \A i \in 1 .. n : s[i] \in Nat /\ s[i] <= k /\ IsFree(d, h, a, s[i])
      /\ \A i, j \in 1 .. n : s[i] = s[j] => i = j
  BY <1>1 DEF Finds
<1>5. /\ t \in Seq(Nat) /\ Len(t) = n + 1
      /\ \A i \in 1 .. n : t[i] = s[i]
      /\ t[n + 1] = x
  BY <1>1, <1>2, <1>3, <1>4, AppendProperties
<1>6. ASSUME NEW i \in 1 .. n + 1 PROVE t[i] <= x /\ IsFree(d, h, a, t[i])
  <2>1. CASE i = n + 1
    BY <1>2, <1>5, <2>1
  <2>2. CASE i # n + 1
    <3>1. i \in 1 .. n
      BY <2>2
    <3>2. t[i] = s[i] /\ s[i] \in Nat /\ s[i] <= k /\ IsFree(d, h, a, s[i])
      BY <1>4, <1>5, <3>1
    <3>3. QED
      BY <1>2, <3>2
  <2>3. QED
    BY <2>1, <2>2
<1>7. ASSUME NEW i \in 1 .. n + 1, NEW j \in 1 .. n + 1, t[i] = t[j] PROVE i = j
  <2>1. \A m \in 1 .. n : t[m] # x
    BY <1>2, <1>4, <1>5
  <2>2. CASE i \in 1 .. n /\ j \in 1 .. n
    BY <1>4, <1>5, <1>7, <2>2
  <2>3. CASE i = n + 1 \/ j = n + 1
    <3>1. t[i] = x /\ t[j] = x
      BY <1>5, <1>7, <2>3
    <3>2. ~ (i \in 1 .. n) /\ ~ (j \in 1 .. n)
      BY <2>1, <3>1
    <3>3. QED
      BY <3>2
  <2>4. QED
    BY <2>2, <2>3
<1>8. QED
  BY <1>2, <1>3, <1>5, <1>6, <1>7 DEF Finds

LEMMA FreeIs ==
  ASSUME NEW d, NEW h, NEW a
  PROVE  Finds(d, h, a, FreeBlocks(d, h, a), DiskBlocks + Frames)
<1>1. PICK top \in Nat : top = DiskBlocks + Frames
  BY Bounds
<1> DEFINE P(f) == f = [k \in 0 .. DiskBlocks + Frames |-> Scan(d, h, a, f, k)]
           found == CHOOSE f : P(f)
<1>2. \E f : P(f)
  <2>0. Scans(d, h, a, top)
    BY <1>1, ScanExists
  <2>1. \E f : f = [k \in 0 .. top |-> Scan(d, h, a, f, k)]
    BY <2>0, Zenon DEF Scans
  <2>2. QED
    BY <1>1, <2>1, Zenon
<1>3. P(found)
  BY <1>2, Zenon
<1>4. FreeBlocks(d, h, a) = found[DiskBlocks + Frames]
  BY Zenon DEF FreeBlocks, Scan, IsFree
<1> HIDE DEF found
<1>5. \A k \in 0 .. top : found[k] = Scan(d, h, a, found, k)
  BY <1>1, <1>3, Zenon
<1> HIDE DEF P
<1>6. PICK T : T = {k \in Nat : k <= top => Finds(d, h, a, found[k], k)}
  OBVIOUS
<1>7. 0 \in T
  <2>1. 0 \in 0 .. top /\ 0 \in Nat
    OBVIOUS
  <2>2. found[0] = <<>>
    BY <1>5, <2>1 DEF Scan
  <2>3. Finds(d, h, a, <<>>, 0)
    BY DEF Finds
  <2>4. QED
    BY <1>6, <2>1, <2>2, <2>3
<1>8. ASSUME NEW k \in T PROVE k + 1 \in T
  <2>1. k \in Nat /\ (k <= top => Finds(d, h, a, found[k], k)) /\ k + 1 \in Nat
    BY <1>6
  <2>2. SUFFICES ASSUME k + 1 <= top PROVE Finds(d, h, a, found[k + 1], k + 1)
    BY <1>6, <2>1
  <2>3. k + 1 \in 0 .. top /\ k + 1 # 0 /\ (k + 1) - 1 = k /\ k <= top
    BY <2>1, <2>2
  <2>4. found[k + 1] = IF IsFree(d, h, a, k + 1) THEN Append(found[(k + 1) - 1], k + 1) ELSE found[(k + 1) - 1]
    BY <1>5, <2>3, Zenon DEF Scan
  <2>5. CASE IsFree(d, h, a, k + 1)
    <3>1. Finds(d, h, a, Append(found[k], k + 1), k + 1)
      BY <2>1, <2>3, <2>5, FindsNext
    <3>2. QED
      BY <2>3, <2>4, <2>5, <3>1
  <2>6. CASE ~ IsFree(d, h, a, k + 1)
    <3>1. found[k + 1] = found[k]
      BY <2>3, <2>4, <2>6
    <3>2. Finds(d, h, a, found[k], k)
      BY <2>1, <2>3
    <3>3. \A i \in 1 .. Len(found[k]) : found[k][i] \in Nat
      BY <3>2 DEF Finds
    <3>4. \A i \in 1 .. Len(found[k]) : found[k][i] <= k + 1
      BY <2>1, <3>2, <3>3 DEF Finds
    <3>5. Finds(d, h, a, found[k], k + 1)
      BY <3>2, <3>4 DEF Finds
    <3>6. QED
      BY <3>1, <3>5
  <2>7. QED
    BY <2>5, <2>6
<1>9. \A k \in Nat : k \in T
  BY <1>6, <1>7, <1>8, AllNumbers
<1>10. Finds(d, h, a, found[top], top)
  BY <1>6, <1>9
<1>11. QED
  BY <1>1, <1>4, <1>10


-----------------------------------------------------------------------------
(* Writing a text to a chain. *)

\* The n blocks c take the text, and the rest of old is cut off.
Chosen(d, h, R, l, a, old, m, n, c, tail) ==
    /\ c \in Seq(Places) /\ Len(c) = n
    /\ \A i, j \in 1 .. n : c[i] = c[j] => i = j
    /\ \A i \in 1 .. n : c[i] \in Zone(a)
    /\ \A i \in 1 .. n : i <= m => c[i] = old[i]
    /\ \A i \in 1 .. n : i > m => IsFree(d, h, a, c[i])
    /\ \A i \in 1 .. n : \A b \in R : b # a => c[i] \notin Owned(d, b)
    /\ \A i \in 1 .. n : c[i] \notin l
    /\ tail \in Seq(Places)
    /\ n < m => Len(tail) = m - n
    /\ n >= m => tail = <<>>
    /\ \A x : x \in ToSet(tail) <=> \E i \in 1 .. m : i > n /\ x = old[i]
    /\ \A i, j \in 1 .. Len(tail) : tail[i] = tail[j] => i = j

LEMMA FreeUnowned ==
  ASSUME NEW d, NEW h, NEW R, NEW l, Laid(d, h, R, l), NEW a, NEW x, IsFree(d, h, a, x)
  PROVE  x \in Zone(a) /\ x \in Places /\ x \notin l /\ \A b \in R : x \notin Owned(d, b)
<1>1. l \subseteq Disk /\ Disk \cap Buf = {}
  BY Bounds DEF Laid
<1>2. CASE a \in Disk
  <2>1. x \in Disk /\ "valid" \notin d[x].stat
    BY <1>2 DEF IsFree
  <2>2. x \notin l /\ \A b \in R : x \notin Owned(d, b)
    BY <2>1 DEF Laid
  <2>3. QED
    BY <1>2, <2>1, <2>2 DEF Zone, Places
<1>3. CASE a \notin Disk
  <2>1. x \in Buf /\ x \notin h
    BY <1>3 DEF IsFree
  <2>2. \A b \in R : x \notin Owned(d, b)
    BY <2>1 DEF Laid
  <2>3. QED
    BY <1>1, <1>3, <2>1, <2>2 DEF Zone, Places
<1>4. QED
  BY <1>2, <1>3

LEMMA BlocksChosen ==
  ASSUME NEW d, NEW h, NEW R, NEW l, Laid(d, h, R, l), NEW a \in R,
         NEW text, NEW q \in Nat, Needed(text) = q + 1, Room(d, h, a, text),
         NEW m \in Nat, m = Len(Chain(d, a))
  PROVE  Chosen(d, h, R, l, a, Chain(d, a), m, q + 1,
                SubSeq(Chain(d, a) \o FreeBlocks(d, h, a), 1, q + 1), CutOff(d, a, text))
<1>1. PICK old : old = Chain(d, a)
  OBVIOUS
<1>2. /\ d \in Memory /\ a \in Places /\ Exact(d, old) /\ Linked(d, old) /\ old[1] = a
      /\ Found(d, old, a)
  BY <1>1, LaidIs
<1>3. PICK n \in Nat : n = q + 1 /\ n > 0
  OBVIOUS
<1>4. PICK vacant : vacant = FreeBlocks(d, h, a)
  OBVIOUS
<1>5. PICK k \in Nat : k = Len(vacant)
  BY <1>4, FreeIs DEF Finds
<1>6. /\ vacant \in Seq(Nat)
      /\ \A i \in 1 .. k : IsFree(d, h, a, vacant[i])
      /\ \A i, j \in 1 .. k : vacant[i] = vacant[j] => i = j
  BY <1>4, <1>5, FreeIs DEF Finds
<1>7. /\ old \in Seq(Places) /\ m = Len(old) /\ m > 0
      /\ \A i \in 1 .. m : old[i] \in Places
      /\ \A i, j \in 1 .. m : old[i] = old[j] => i = j
      /\ \A x : x \in Owned(d, a) <=> \E i \in 1 .. m : x = old[i]
  BY <1>1, <1>2, LinkedIs DEF Linked, Owned
<1>8. n <= m + k
  BY <1>1, <1>3, <1>4, <1>5, <1>7 DEF Room
<1>9. ASSUME NEW i \in 1 .. k
      PROVE  /\ vacant[i] \in Zone(a) /\ vacant[i] \in Places /\ vacant[i] \notin l
             /\ \A b \in R : vacant[i] \notin Owned(d, b)
  BY <1>6, FreeUnowned
<1>10. vacant \in Seq(Places)
  <2>1. vacant \in [1 .. k -> Places]
    BY <1>5, <1>6, <1>9
  <2>2. QED
    BY <2>1
<1>11. PICK both : both = old \o vacant
  OBVIOUS
<1>12. /\ both \in Seq(Places) /\ Len(both) = m + k
       /\ \A i \in 1 .. m + k : both[i] = IF i <= m THEN old[i] ELSE vacant[i - m]
  BY <1>5, <1>7, <1>10, <1>11, ConcatProperties
<1>13. PICK c : c = SubSeq(both, 1, n)
  OBVIOUS
<1>14. c \in Seq(Places) /\ Len(c) = n /\ \A i \in 1 .. n : c[i] = both[i]
  <2>1. \A i \in 1 .. n : both[i] \in Places
    BY <1>5, <1>8, <1>12
  <2>2. /\ c \in Seq(Places) /\ Len(c) = (IF 1 <= n THEN n - 1 + 1 ELSE 0)
        /\ \A i \in 1 .. n - 1 + 1 : c[i] = both[1 + i - 1]
    BY <1>3, <1>13, <2>1, SubSeqProperties
  <2>3. ASSUME NEW i \in 1 .. n PROVE c[i] = both[i]
    <3>1. i \in 1 .. n - 1 + 1 /\ 1 + i - 1 = i
      BY <1>3
    <3>2. QED
      BY <2>2, <3>1
  <2>4. Len(c) = n
    BY <1>3, <2>2
  <2>5. QED
    BY <2>2, <2>3, <2>4
<1>15. ASSUME NEW i \in 1 .. n, i <= m PROVE c[i] = old[i] /\ i \in 1 .. m
  <2>1. i \in 1 .. m + k /\ i \in 1 .. m
    BY <1>3, <1>5, <1>8, <1>15
  <2>2. QED
    BY <1>12, <1>14, <1>15, <2>1
<1>16. ASSUME NEW i \in 1 .. n, i > m PROVE c[i] = vacant[i - m] /\ i - m \in 1 .. k
  <2>1. i \in 1 .. m + k /\ i - m \in 1 .. k /\ ~ (i <= m)
    BY <1>3, <1>5, <1>8, <1>16
  <2>2. QED
    BY <1>12, <1>14, <2>1
<1>17. ASSUME NEW i \in 1 .. n
       PROVE  /\ c[i] \in Zone(a) /\ c[i] \notin l
              /\ \A b \in R : b # a => c[i] \notin Owned(d, b)
              /\ i > m => IsFree(d, h, a, c[i])
  <2>1. CASE i <= m
    <3>1. c[i] \in Owned(d, a)
      BY <1>7, <1>15, <2>1
    <3>2. c[i] \in Zone(a) /\ c[i] \notin l /\ \A b \in R : b # a => c[i] \notin Owned(d, b)
      BY <3>1 DEF Laid
    <3>3. ~ (i > m)
      BY <1>3, <2>1
    <3>4. QED
      BY <3>2, <3>3
  <2>2. CASE i > m
    BY <1>6, <1>9, <1>16, <2>2
  <2>3. QED
    BY <1>3, <2>1, <2>2
<1>18. ASSUME NEW i \in 1 .. n, NEW j \in 1 .. n, c[i] = c[j] PROVE i = j
  <2>1. CASE i <= m /\ j <= m
    BY <1>7, <1>15, <1>18, <2>1
  <2>2. CASE i > m /\ j > m
    <3>1. i - m = j - m
      BY <1>6, <1>16, <1>18, <2>2
    <3>2. QED
      BY <1>3, <3>1
  <2>3. ASSUME NEW x \in 1 .. n, NEW z \in 1 .. n, x <= m, z > m PROVE c[x] # c[z]
    <3>1. c[x] \in Owned(d, a)
      BY <1>7, <1>15, <2>3
    <3>2. c[z] \notin Owned(d, a)
      BY <1>9, <1>16, <2>3
    <3>3. QED
      BY <3>1, <3>2
  <2>4. QED
    BY <1>3, <1>18, <2>1, <2>2, <2>3
<1>19. PICK tail : tail = CutOff(d, a, text)
  OBVIOUS
<1>20. BlockNum(d, a) = m
  BY <1>2, <1>7 DEF Found
<1>21. tail = IF n < m THEN SubSeq(old, n + 1, m) ELSE <<>>
  BY <1>1, <1>3, <1>7, <1>19, <1>20 DEF CutOff
<1>22. CASE n < m
  <2>1. tail = SubSeq(old, n + 1, m)
    BY <1>21, <1>22
  <2>2. \A i \in n + 1 .. m : old[i] \in Places
    BY <1>3, <1>7
  <2>3. /\ tail \in Seq(Places) /\ Len(tail) = (IF n + 1 <= m THEN m - (n + 1) + 1 ELSE 0)
        /\ \A i \in 1 .. m - (n + 1) + 1 : tail[i] = old[n + 1 + i - 1]
    BY <1>3, <2>1, <2>2, SubSeqProperties
  <2>4. Len(tail) = m - n
    BY <1>3, <1>22, <2>3
  <2>5. ASSUME NEW i \in 1 .. m - n PROVE tail[i] = old[n + i] /\ n + i \in 1 .. m /\ n + i > n
    <3>1. i \in 1 .. m - (n + 1) + 1 /\ n + 1 + i - 1 = n + i
      BY <1>3
    <3>2. n + i \in 1 .. m /\ n + i > n
      BY <1>3
    <3>3. QED
      BY <2>3, <3>1, <3>2
  <2>6. ASSUME NEW x PROVE x \in ToSet(tail) <=> \E i \in 1 .. m : i > n /\ x = old[i]
    <3>1. x \in ToSet(tail) <=> \E i \in 1 .. m - n : x = tail[i]
      BY <2>3, <2>4, ToSetIs
    <3>2. ASSUME NEW i \in 1 .. m, i > n, x = old[i] PROVE \E j \in 1 .. m - n : x = tail[j]
      <4>1. PICK j \in 1 .. m - n : i = n + j
        <5>1. i - n \in 1 .. m - n /\ i = n + (i - n)
          BY <1>3, <1>22, <3>2
        <5>2. QED
          BY <5>1
      <4>2. QED
        BY <2>5, <3>2, <4>1
    <3>3. QED
      BY <2>5, <3>1, <3>2
  <2>7. Chosen(d, h, R, l, a, old, m, n, c, tail)
    <3>1. ASSUME NEW i \in 1 .. m - n, NEW j \in 1 .. m - n, tail[i] = tail[j] PROVE i = j
      <4>1. n + i = n + j
        BY <1>7, <2>5, <3>1
      <4>2. QED
        BY <1>3, <4>1
    <3>2. QED
      BY <1>14, <1>15, <1>17, <1>18, <1>22, <2>3, <2>4, <2>6, <3>1 DEF Chosen
  <2>8. QED
    BY <1>1, <1>3, <1>4, <1>11, <1>13, <1>19, <2>7
<1>23. CASE ~ (n < m)
  <2>1. tail = <<>>
    BY <1>21, <1>23
  <2>2. tail \in Seq(Places) /\ ToSet(tail) = {} /\ ~ \E i \in 1 .. Len(tail) : TRUE
    BY <2>1 DEF ToSet
  <2>3. ~ \E i \in 1 .. m : i > n
    BY <1>3, <1>23
  <2>4. Chosen(d, h, R, l, a, old, m, n, c, tail)
    BY <1>14, <1>15, <1>17, <1>18, <1>23, <2>1, <2>2, <2>3 DEF Chosen
  <2>5. QED
    BY <1>1, <1>3, <1>4, <1>11, <1>13, <1>19, <2>4
<1>24. QED
  BY <1>22, <1>23


Content == [stat : SUBSET Status, orig : Numbers, next : Numbers, body : Seq(Letters)]

\* What is written to the block i of a chain.
OldBlock(d, a, m, c, i) ==
    IF i <= m THEN d[c[i]] ELSE [stat |-> FreshStat(a), orig |-> c[i], next |-> 0, body |-> <<>>]

NewBlock(d, a, text, m, n, c, tail, i) ==
    LET b == OldBlock(d, a, m, c, i)
    IN  [b EXCEPT !.body = Piece(text, i),
                  !.next = IF i < n THEN c[i+1] ELSE IF tail # <<>> THEN 0 ELSE @,
                  !.stat = IF i < n THEN @ \cup {"cont"}
                           ELSE IF tail # <<>> THEN @ \ {"cont"} ELSE @]

LEMMA NewBlockIs ==
  ASSUME NEW d, NEW h, NEW R, NEW l, Laid(d, h, R, l), NEW a \in R,
         NEW text \in Seq(Letters), NEW q \in Nat, Needed(text) = q + 1,
         NEW m \in Nat, m = Len(Chain(d, a)), NEW n \in Nat, n = q + 1, NEW c, NEW tail,
         Chosen(d, h, R, l, a, Chain(d, a), m, n, c, tail), NEW i \in 1 .. n,
         NEW b, b = NewBlock(d, a, text, m, n, c, tail, i)
  PROVE  /\ b \in Content /\ b.body = Piece(text, i)
         /\ b.next = IF i < n THEN c[i + 1] ELSE 0
         /\ i < n => "cont" \in b.stat
         /\ a \in Disk => "valid" \in b.stat
         /\ i <= m => b.orig = d[c[i]].orig /\ ("opened" \in b.stat <=> "opened" \in d[c[i]].stat)
<1>1. PICK o : o = OldBlock(d, a, m, c, i)
  OBVIOUS
<1>2. PICK old : old = Chain(d, a)
  OBVIOUS
<1>3. d \in Memory /\ Linked(d, old)
  BY <1>2, LaidIs
<1>4. /\ c \in Seq(Places) /\ Len(c) = n
      /\ \A j \in 1 .. n : c[j] \in Zone(a) /\ c[j] \in Places
      /\ \A j \in 1 .. n : j <= m => c[j] = old[j]
      /\ n >= m => tail = <<>>
      /\ n < m => Len(tail) = m - n
  BY <1>2 DEF Chosen
<1>5. o \in Content
  <2>1. CASE i <= m
    <3>1. d[c[i]] \in Content
      BY <1>3, <1>4 DEF Memory, Content
    <3>2. QED
      BY <1>1, <2>1, <3>1 DEF OldBlock
  <2>2. CASE ~ (i <= m)
    <3>1. c[i] \in Numbers /\ 0 \in Numbers
      BY <1>4, Places1, Bounds DEF Numbers
    <3>2. FreshStat(a) \subseteq Status
      BY DEF FreshStat, Status
    <3>3. <<>> \in Seq(Letters)
      OBVIOUS
    <3>4. QED
      BY <1>1, <2>2, <3>1, <3>2, <3>3 DEF OldBlock, Content
  <2>3. QED
    BY <2>1, <2>2
<1>6. Piece(text, i) \in Seq(Letters)
  <2>1. Pieced(Letters, text, q)
    BY PieceIs
  <2>2. i \in 1 .. q \/ i = q + 1
    OBVIOUS
  <2>3. QED
    BY <2>1, <2>2 DEF Pieced
<1>7. b = [o EXCEPT !.body = Piece(text, i),
                    !.next = IF i < n THEN c[i+1] ELSE IF tail # <<>> THEN 0 ELSE @,
                    !.stat = IF i < n THEN @ \cup {"cont"}
                             ELSE IF tail # <<>> THEN @ \ {"cont"} ELSE @]
  BY <1>1, Zenon DEF NewBlock
<1>8. i < n => c[i + 1] \in Numbers
  BY <1>4, Places1
<1>9. 0 \in Numbers /\ "cont" \in Status /\ "cont" # "valid" /\ "cont" # "opened"
  BY Bounds DEF Numbers, Status
<1>10. /\ b.body = Piece(text, i)
       /\ b.next = (IF i < n THEN c[i+1] ELSE IF tail # <<>> THEN 0 ELSE o.next)
       /\ b.stat = (IF i < n THEN o.stat \cup {"cont"}
                    ELSE IF tail # <<>> THEN o.stat \ {"cont"} ELSE o.stat)
       /\ b.orig = o.orig
  BY <1>5, <1>7 DEF Content
<1>11. b \in Content
  <2>1. /\ o.stat \subseteq Status /\ o.next \in Numbers /\ o.orig \in Numbers
    BY <1>5 DEF Content
  <2>2. b.stat \subseteq Status
    BY <1>9, <1>10, <2>1
  <2>3. b.next \in Numbers
    BY <1>8, <1>9, <1>10, <2>1
  <2>4. b = [stat |-> b.stat, orig |-> b.orig, next |-> b.next, body |-> b.body]
    BY <1>5, <1>7 DEF Content
  <2>5. QED
    BY <1>6, <1>10, <2>1, <2>2, <2>3, <2>4 DEF Content
<1>12. b.next = IF i < n THEN c[i + 1] ELSE 0
  <2>1. CASE i < n \/ tail # <<>>
    BY <1>10, <2>1
  <2>2. CASE ~ (i < n) /\ tail = <<>>
    <3>1. i = n /\ m \in Nat
      BY <2>2
    <3>2. ~ (n < m)
      <4>1. n < m => Len(tail) > 0
        BY <1>4
      <4>2. Len(tail) = 0
        BY <2>2
      <4>3. QED
        BY <4>1, <4>2
    <3>3. o.next = 0
      <4>1. CASE i <= m
        <5>1. i = m /\ i \in 1 .. n
          BY <3>1, <3>2, <4>1
        <5>2. c[i] = old[m]
          BY <1>4, <4>1, <5>1
        <5>3. d[old[m]].next = 0
          BY <1>2, <1>3 DEF Linked
        <5>4. o = d[c[i]]
          BY <1>1, <4>1 DEF OldBlock
        <5>5. QED
          BY <5>2, <5>3, <5>4
      <4>2. CASE ~ (i <= m)
        BY <1>1, <4>2 DEF OldBlock
      <4>3. QED
        BY <4>1, <4>2
    <3>4. QED
      BY <1>10, <2>2, <3>3
  <2>3. QED
    BY <2>1, <2>2
<1>13. ASSUME a \in Disk PROVE "valid" \in o.stat
  <2>1. CASE i <= m
    <3>1. c[i] \in Disk
      BY <1>4, <1>13 DEF Zone
    <3>2. i \in 1 .. m
      BY <2>1
    <3>3. c[i] \in Owned(d, a)
      BY <1>2, <1>3, <1>4, <2>1, <3>2, LinkedIs DEF Owned
    <3>4. "valid" \in d[c[i]].stat
      BY <3>1, <3>3 DEF Laid
    <3>5. QED
      BY <1>1, <2>1, <3>4 DEF OldBlock
  <2>2. CASE ~ (i <= m)
    BY <1>1, <1>13, <2>2 DEF OldBlock, FreshStat
  <2>3. QED
    BY <2>1, <2>2
<1>14. ASSUME i <= m PROVE b.orig = d[c[i]].orig /\ ("opened" \in b.stat <=> "opened" \in d[c[i]].stat)
  <2>1. o = d[c[i]]
    BY <1>1, <1>14 DEF OldBlock
  <2>2. QED
    BY <1>9, <1>10, <2>1
<1>15. a \in Disk => "valid" \in b.stat
  BY <1>9, <1>10, <1>13
<1>16. i < n => "cont" \in b.stat
  BY <1>10
<1>17. QED
  BY <1>10, <1>11, <1>12, <1>14, <1>15, <1>16

\* The blocks that are given back.
Gone(a, tail) == IF a \in Disk THEN Released(tail) ELSE ToSet(tail)

\* The memory e after the text is written.
Writes(d, a, text, m, n, c, tail, e) ==
    /\ DOMAIN e = DOMAIN d
    /\ e = [x \in DOMAIN d |-> e[x]]
    /\ \A i \in 1 .. n : e[c[i]] = NewBlock(d, a, text, m, n, c, tail, i)
    /\ \A x \in DOMAIN d : x \notin ToSet(c) /\ x \in Gone(a, tail) =>
          e[x] = IF a \in Disk THEN [d[x] EXCEPT !.stat = {}] ELSE Unused
    /\ \A x \in DOMAIN d : x \notin ToSet(c) /\ x \notin Gone(a, tail) => e[x] = d[x]

LEMMA WrittenWrites ==
  ASSUME NEW d, NEW h, NEW R, NEW l, Laid(d, h, R, l), NEW a \in R,
         NEW text, NEW q \in Nat, Needed(text) = q + 1, Room(d, h, a, text),
         NEW m \in Nat, m = Len(Chain(d, a)), NEW n \in Nat, n = q + 1,
         NEW c, c = SubSeq(Chain(d, a) \o FreeBlocks(d, h, a), 1, n),
         NEW tail, tail = CutOff(d, a, text)
  PROVE  Writes(d, a, text, m, n, c, tail, Written(d, h, a, text))
<1> DEFINE m0 == Len(Chain(d, a))
           n0 == Needed(text)
           c0 == SubSeq(Chain(d, a) \o FreeBlocks(d, h, a), 1, n0)
           t0 == CutOff(d, a, text)
           e == Written(d, h, a, text)
<1>2. e = [b \in DOMAIN d |->
            IF b \in ToSet(c0) THEN NewBlock(d, a, text, m0, n0, c0, t0, CHOOSE i \in 1..n0 : c0[i] = b)
            ELSE IF b \in Gone(a, t0)
                 THEN (IF a \in Disk THEN [d[b] EXCEPT !.stat = {}] ELSE Unused)
            ELSE d[b]]
  BY Zenon DEF Written, NewBlock, OldBlock, Gone
<1>1. m0 = m /\ n0 = n /\ c0 = c /\ t0 = tail
  OBVIOUS
<1> HIDE DEF m0, n0, c0, t0, e
<1>3. /\ c \in Seq(Places) /\ Len(c) = n
      /\ \A i, j \in 1 .. n : c[i] = c[j] => i = j
  <2>1. Chosen(d, h, R, l, a, Chain(d, a), m, q + 1,
                SubSeq(Chain(d, a) \o FreeBlocks(d, h, a), 1, q + 1), CutOff(d, a, text))
    BY BlocksChosen
  <2>2. Chosen(d, h, R, l, a, Chain(d, a), m, n, c, tail)
    BY <2>1, Zenon
  <2>3. QED
    BY <2>2 DEF Chosen
<1>4. DOMAIN d = Places
  BY DEF Laid, Memory
<1>10. n \in Nat /\ n0 \in Nat /\ c0 \in Seq(Places) /\ Len(c0) = n0
       /\ \A i, j \in 1 .. n0 : c0[i] = c0[j] => i = j
  BY <1>1, <1>3
<1>5. ASSUME NEW i \in 1 .. n0 PROVE e[c0[i]] = NewBlock(d, a, text, m0, n0, c0, t0, i)
  <2>1. c0[i] \in ToSet(c0)
    BY <1>10, ToSetIs
  <2>2. c0[i] \in DOMAIN d
    BY <1>4, <1>10
  <2>3. (CHOOSE j \in 1 .. n0 : c0[j] = c0[i]) = i
    <3>1. PICK z : z = CHOOSE j \in 1 .. n0 : c0[j] = c0[i]
      OBVIOUS
    <3>2. z \in 1 .. n0 /\ c0[z] = c0[i]
      BY <3>1, Zenon
    <3>3. z = i
      BY <1>10, <3>2
    <3>4. QED
      BY <3>1, <3>3
  <2>4. e[c0[i]] = NewBlock(d, a, text, m0, n0, c0, t0, CHOOSE j \in 1..n0 : c0[j] = c0[i])
    BY <1>2, <2>1, <2>2, Zenon
  <2>5. QED
    BY <2>3, <2>4, Zenon
<1>6. ASSUME NEW x \in DOMAIN d, x \notin ToSet(c0)
      PROVE  e[x] = IF x \in Gone(a, t0)
                    THEN (IF a \in Disk THEN [d[x] EXCEPT !.stat = {}] ELSE Unused) ELSE d[x]
  BY <1>2, <1>6, Zenon
<1>7. DOMAIN e = DOMAIN d
  BY <1>2, Zenon
<1>11. e = [x \in DOMAIN d |-> e[x]]
  BY <1>2
<1>8. Writes(d, a, text, m0, n0, c0, t0, e)
  BY <1>5, <1>6, <1>7, <1>11, Zenon DEF Writes
<1>9. QED
  BY <1>1, <1>8, Zenon DEF e


LEMMA TailIs ==
  ASSUME NEW tail \in Seq(Places), tail # <<>>,
         \A i, j \in 1 .. Len(tail) : tail[i] = tail[j] => i = j
  PROVE  /\ Last(tail) \in ToSet(tail) /\ Last(tail) \notin Released(tail)
         /\ ToSet(tail) = Released(tail) \cup {Last(tail)}
<1>1. PICK n \in Nat : n = Len(tail) /\ n > 0
  OBVIOUS
<1>2. \A x : x \in ToSet(tail) <=> \E i \in 1 .. n : x = tail[i]
  BY <1>1, ToSetIs
<1>3. PICK f : f = SubSeq(tail, 1, n - 1)
  OBVIOUS
<1>4. f \in Seq(Places) /\ Len(f) = n - 1 /\ \A i \in 1 .. n - 1 : f[i] = tail[i]
  <2>1. \A i \in 1 .. n - 1 : tail[i] \in Places
    BY <1>1
  <2>2. /\ f \in Seq(Places) /\ Len(f) = (IF 1 <= n - 1 THEN n - 1 - 1 + 1 ELSE 0)
        /\ \A i \in 1 .. n - 1 - 1 + 1 : f[i] = tail[1 + i - 1]
    BY <1>1, <1>3, <2>1, SubSeqProperties
  <2>3. ASSUME NEW i \in 1 .. n - 1 PROVE f[i] = tail[i]
    <3>1. i \in 1 .. n - 1 - 1 + 1 /\ 1 + i - 1 = i
      BY <1>1
    <3>2. QED
      BY <2>2, <3>1
  <2>4. Len(f) = n - 1
    BY <1>1, <2>2
  <2>5. QED
    BY <2>2, <2>3, <2>4
<1>5. Released(tail) = ToSet(f)
  BY <1>1, <1>3 DEF Released, Front
<1>6. \A x : x \in ToSet(f) <=> \E i \in 1 .. n - 1 : x = tail[i]
  <2>1. \A x : x \in ToSet(f) <=> \E i \in 1 .. Len(f) : x = f[i]
    BY <1>4, ToSetIs
  <2>2. QED
    BY <1>4, <2>1
<1>7. Last(tail) = tail[n]
  BY <1>1 DEF Last
<1>8. n \in 1 .. n /\ ~ (n \in 1 .. n - 1) /\ (\A i \in 1 .. n : i = n \/ i \in 1 .. n - 1)
      /\ (\A i \in 1 .. n - 1 : i \in 1 .. n)
  BY <1>1
<1>9. tail[n] \in ToSet(tail)
  BY <1>2, <1>8
<1>10. tail[n] \notin ToSet(f)
  BY <1>1, <1>6, <1>8
<1>11. ASSUME NEW x PROVE x \in ToSet(tail) <=> (x \in ToSet(f) \/ x = tail[n])
  BY <1>2, <1>6, <1>8
<1>12. QED
  BY <1>5, <1>7, <1>9, <1>10, <1>11

\* Writing keeps the marks and the addresses of the first blocks.
SameHeads(d, e, R) ==
    \A b \in R : e[b].orig = d[b].orig /\ ("opened" \in e[b].stat <=> "opened" \in d[b].stat)

HeldThen(h, a, c, tail) == IF a \in Disk THEN h ELSE (h \cup ToSet(c)) \ ToSet(tail)
LostThen(l, a, tail) == IF a \in Disk /\ tail # <<>> THEN l \cup {Last(tail)} ELSE l

\* What the memory e then is.
Wrote(d, R, a, text, c, e) ==
    /\ e \in Memory /\ Exact(e, c) /\ c[1] = a /\ Text(e, a) = text
    /\ SameHeads(d, e, R)
    /\ \A b \in R \ {a} : \A x \in Owned(d, b) : e[x] = d[x]
    /\ \A x \in ToSet(c) : a \in Disk => "valid" \in e[x].stat

LEMMA WritesIs ==
  ASSUME NEW d, NEW h, NEW R, NEW l, Laid(d, h, R, l), NEW a \in R,
         NEW text \in Seq(Letters), NEW q \in Nat, Needed(text) = q + 1,
         NEW m \in Nat, m = Len(Chain(d, a)), NEW n \in Nat, n = q + 1, NEW c, NEW tail,
         Chosen(d, h, R, l, a, Chain(d, a), m, n, c, tail),
         NEW e, Writes(d, a, text, m, n, c, tail, e)
  PROVE  Wrote(d, R, a, text, c, e)
<1>1. PICK old : old = Chain(d, a)
  OBVIOUS
<1>2. d \in Memory /\ Linked(d, old) /\ old[1] = a /\ a \in Places /\ DOMAIN d = Places
  BY <1>1, LaidIs DEF Memory
<1>3. /\ c \in Seq(Places) /\ Len(c) = n
      /\ \A i, j \in 1 .. n : c[i] = c[j] => i = j
      /\ \A i \in 1 .. n : c[i] \in Zone(a) /\ c[i] \in Places
      /\ \A i \in 1 .. n : i <= m => c[i] = old[i]
      /\ \A i \in 1 .. n : \A b \in R : b # a => c[i] \notin Owned(d, b)
      /\ tail \in Seq(Places)
      /\ \A x : x \in ToSet(tail) <=> \E i \in 1 .. m : i > n /\ x = old[i]
      /\ \A i, j \in 1 .. Len(tail) : tail[i] = tail[j] => i = j
  <2>1. Chosen(d, h, R, l, a, old, m, n, c, tail)
    BY <1>1
  <2>2. /\ c \in Seq(Places) /\ Len(c) = n
        /\ \A i, j \in 1 .. n : c[i] = c[j] => i = j
        /\ \A i \in 1 .. n : c[i] \in Zone(a)
        /\ \A i \in 1 .. n : i <= m => c[i] = old[i]
        /\ \A i \in 1 .. n : \A b \in R : b # a => c[i] \notin Owned(d, b)
    BY <2>1, Zenon DEF Chosen
  <2>3. /\ tail \in Seq(Places)
        /\ \A x : x \in ToSet(tail) <=> \E i \in 1 .. m : i > n /\ x = old[i]
        /\ \A i, j \in 1 .. Len(tail) : tail[i] = tail[j] => i = j
    BY <2>1, Zenon DEF Chosen
  <2>4. \A i \in 1 .. n : c[i] \in Places
    BY <2>2
  <2>5. \A i \in 1 .. n : c[i] \in Zone(a) /\ c[i] \in Places
    BY <2>2, <2>4
  <2>6. QED
    BY <2>2, <2>3, <2>5, Zenon
<1>4. /\ old \in Seq(Places) /\ m = Len(old) /\ m > 0
      /\ \A i \in 1 .. m : old[i] \in Places
      /\ \A i, j \in 1 .. m : old[i] = old[j] => i = j
      /\ \A x : x \in Owned(d, a) <=> \E i \in 1 .. m : x = old[i]
  <2>1. old \in Seq(Places) /\ m = Len(old)
    BY <1>1, <1>2 DEF Linked
  <2>2. m > 0 /\ \A i \in 1 .. m : old[i] \in Places
    BY <1>2, <2>1 DEF Linked
  <2>3. /\ \A i, j \in 1 .. m : old[i] = old[j] => i = j
        /\ \A x : x \in ToSet(old) <=> \E i \in 1 .. m : x = old[i]
    <3>1. \A i, j \in 1 .. Len(old) : old[i] = old[j] => i = j
      BY <1>2, Zenon DEF Linked
    <3>2. \A x : x \in ToSet(old) <=> \E i \in 1 .. Len(old) : x = old[i]
      BY <1>2, LinkedIs
    <3>3. QED
      BY <2>1, <3>1, <3>2
  <2>4. Owned(d, a) = ToSet(old)
    BY <1>1 DEF Owned
  <2>5. QED
    BY <2>1, <2>2, <2>3, <2>4
<1>5. \A x : x \in ToSet(c) <=> \E i \in 1 .. n : x = c[i]
  <2>1. c \in Seq(Places) /\ Len(c) = n
    BY <1>3
  <2>2. \A x : x \in ToSet(c) <=> \E i \in 1 .. Len(c) : x = c[i]
    BY <2>1, ToSetIs
  <2>3. QED
    BY <2>1, <2>2
<1>6. ASSUME NEW i \in 1 .. n
      PROVE  /\ e[c[i]] \in Content /\ e[c[i]].body = Piece(text, i)
             /\ e[c[i]].next = IF i < n THEN c[i + 1] ELSE 0
             /\ i < n => "cont" \in e[c[i]].stat
             /\ a \in Disk => "valid" \in e[c[i]].stat
             /\ i <= m => /\ e[c[i]].orig = d[c[i]].orig
                          /\ "opened" \in e[c[i]].stat <=> "opened" \in d[c[i]].stat
  <2>1. PICK b : b = NewBlock(d, a, text, m, n, c, tail, i)
    OBVIOUS
  <2>2. e[c[i]] = b
    BY <2>1 DEF Writes
  <2>3. /\ b \in Content /\ b.body = Piece(text, i)
        /\ b.next = IF i < n THEN c[i + 1] ELSE 0
        /\ i < n => "cont" \in b.stat
        /\ a \in Disk => "valid" \in b.stat
        /\ i <= m => b.orig = d[c[i]].orig /\ ("opened" \in b.stat <=> "opened" \in d[c[i]].stat)
    BY <2>1, NewBlockIs
  <2>4. QED
    BY <2>2, <2>3
<1>7. /\ Released(tail) \subseteq ToSet(tail) /\ Gone(a, tail) \subseteq ToSet(tail)
  <2>1. Released(tail) \subseteq ToSet(tail)
    <3>1. CASE tail = <<>>
      BY <3>1 DEF Released
    <3>2. CASE tail # <<>>
      BY <1>3, <3>2, TailIs
    <3>3. QED
      BY <3>1, <3>2
  <2>2. QED
    BY <2>1 DEF Gone
<1>8. ToSet(tail) \subseteq Owned(d, a)
  BY <1>3, <1>4
<1>9. ASSUME NEW x \in Places, x \notin ToSet(c), x \notin Gone(a, tail) PROVE e[x] = d[x]
  BY <1>2, <1>9 DEF Writes
<1>10. e \in Memory
  <2>1. ASSUME NEW x \in Places PROVE e[x] \in Content
    <3>1. d[x] \in Content
      BY <1>2 DEF Memory, Content
    <3>2. CASE x \in ToSet(c)
      BY <1>5, <1>6, <3>2
    <3>3. CASE x \notin ToSet(c) /\ x \in Gone(a, tail)
      <4>1. e[x] = IF a \in Disk THEN [d[x] EXCEPT !.stat = {}] ELSE Unused
        BY <1>2, <3>3 DEF Writes
      <4>2. [d[x] EXCEPT !.stat = {}] \in Content
        BY <3>1 DEF Content
      <4>3. Unused \in Content
        BY Bounds DEF Unused, Content, Numbers
      <4>4. QED
        BY <4>1, <4>2, <4>3
    <3>4. CASE x \notin ToSet(c) /\ x \notin Gone(a, tail)
      BY <1>9, <3>1, <3>4
    <3>5. QED
      BY <3>2, <3>3, <3>4
  <2>2. DOMAIN e = Places
    BY <1>2 DEF Writes
  <2>3. e = [x \in Places |-> e[x]]
    <3>1. e = [x \in DOMAIN d |-> e[x]]
      BY Zenon DEF Writes
    <3>2. QED
      BY <1>2, <3>1, Zenon
  <2>4. QED
    BY <2>1, <2>3 DEF Memory, Content
<1>11. Pieced(Letters, text, q)
  BY PieceIs
<1>12. Exact(e, c)
  <2>1. Linked(e, c)
    <3>1. \A i \in 1 .. n : i < n => e[c[i]].next = c[i + 1]
      BY <1>6
    <3>2. n \in 1 .. n /\ ~ (n < n) /\ n > 0
      OBVIOUS
    <3>3. e[c[n]].next = 0
      BY <1>6, <3>2
    <3>4. QED
      BY <1>3, <3>1, <3>2, <3>3 DEF Linked
  <2>2. ASSUME NEW i \in 1 .. n, i < n PROVE "cont" \in e[c[i]].stat /\ Len(e[c[i]].body) = Chars
    <3>1. i \in 1 .. q
      BY <2>2
    <3>2. Len(Piece(text, i)) = Chars
      BY <1>11, <3>1 DEF Pieced
    <3>3. QED
      BY <1>6, <2>2, <3>2
  <2>3. Len(e[c[n]].body) < Chars
    <3>1. n \in 1 .. n
      OBVIOUS
    <3>2. Len(Piece(text, q + 1)) < Chars
      BY <1>11 DEF Pieced
    <3>3. QED
      BY <1>6, <3>1, <3>2
  <2>4. QED
    BY <1>3, <2>1, <2>2, <2>3 DEF Exact
<1>13. c[1] = a
  <2>1. 1 \in 1 .. n /\ 1 <= m
    BY <1>4
  <2>2. QED
    BY <1>2, <1>3, <2>1
<1>14. Text(e, a) = text
  <2>1. Found(e, c, a)
    BY <1>10, <1>12, <1>13, ExactIs
  <2>2. PICK b : b = Bodies(e, c)
    OBVIOUS
  <2>3. DOMAIN c = 1 .. n
    BY <1>3
  <2>4. b = [i \in 1 .. n |-> e[c[i]].body]
    BY <2>2, <2>3, Zenon DEF Bodies
  <2>5. \A i \in 1 .. n : b[i] = Piece(text, i)
    BY <1>6, <2>4
  <2>6. \A i \in 1 .. n : b[i] \in Seq(Letters)
    <3>1. \A i \in 1 .. n : i \in 1 .. q \/ i = q + 1
      OBVIOUS
    <3>2. \A i \in 1 .. n : Piece(text, i) \in Seq(Letters)
      BY <1>11, <3>1 DEF Pieced
    <3>3. QED
      BY <2>5, <3>2
  <2>7. b \in Seq(Seq(Letters)) /\ Len(b) = n
    <3>1. b \in [1 .. n -> Seq(Letters)]
      BY <2>4, <2>6
    <3>2. QED
      BY <3>1
  <2>8. Len(b) = q + 1 /\ \A i \in 1 .. q + 1 : b[i] = Piece(text, i)
    BY <2>5, <2>7
  <2>9. FlattenSeq(b) = text
    BY <2>7, <2>8, FlattenPieces
  <2>10. QED
    BY <2>1, <2>2, <2>9 DEF Found
<1>15. ASSUME NEW b \in R \ {a}, NEW x \in Owned(d, b) PROVE e[x] = d[x]
  <2>1. b \in R /\ b # a /\ x \in Places
    BY LaidIs
  <2>2. Owned(d, b) \cap Owned(d, a) = {}
    BY <2>1 DEF Laid
  <2>3. x \notin Gone(a, tail)
    BY <1>7, <1>8, <2>2
  <2>4. x \notin ToSet(c)
    BY <1>3, <1>5, <2>1
  <2>5. QED
    BY <1>9, <2>1, <2>3, <2>4
<1>16. SameHeads(d, e, R)
  <2>1. ASSUME NEW b \in R
        PROVE  e[b].orig = d[b].orig /\ ("opened" \in e[b].stat <=> "opened" \in d[b].stat)
    <3>1. CASE b = a
      <4>1. 1 \in 1 .. n /\ 1 <= m /\ c[1] = b
        BY <1>4, <1>13, <3>1
      <4>2. QED
        BY <1>6, <4>1
    <3>2. CASE b # a
      <4>1. b \in Owned(d, b) /\ b \in R \ {a}
        BY <3>2, LaidIs
      <4>2. e[b] = d[b]
        BY <1>15, <4>1
      <4>3. QED
        BY <4>2
    <3>3. QED
      BY <3>1, <3>2
  <2>2. QED
    BY <2>1 DEF SameHeads
<1>17. ASSUME NEW x \in ToSet(c), a \in Disk PROVE "valid" \in e[x].stat
  BY <1>5, <1>6, <1>17
<1>18. QED
  BY <1>10, <1>12, <1>13, <1>14, <1>15, <1>16, <1>17, Zenon DEF Wrote


LEMMA WritesRelays ==
  ASSUME NEW d, NEW h, NEW R, NEW l, Laid(d, h, R, l), NEW a \in R,
         NEW text \in Seq(Letters), NEW q \in Nat, Needed(text) = q + 1,
         NEW m \in Nat, m = Len(Chain(d, a)), NEW n \in Nat, n = q + 1, NEW c, NEW tail,
         Chosen(d, h, R, l, a, Chain(d, a), m, n, c, tail),
         NEW e, Writes(d, a, text, m, n, c, tail, e)
  PROVE  Relays(d, R, e, HeldThen(h, a, c, tail), LostThen(l, a, tail), a, c)
<1>1. PICK old : old = Chain(d, a)
  OBVIOUS
<1>2. d \in Memory /\ Linked(d, old) /\ old[1] = a /\ a \in Places /\ DOMAIN d = Places
  BY <1>1, LaidIs DEF Memory
<1>3. /\ c \in Seq(Places) /\ Len(c) = n
      /\ \A i, j \in 1 .. n : c[i] = c[j] => i = j
      /\ \A i \in 1 .. n : c[i] \in Zone(a) /\ c[i] \in Places
      /\ \A i \in 1 .. n : i <= m => c[i] = old[i]
      /\ \A i \in 1 .. n : \A b \in R : b # a => c[i] \notin Owned(d, b)
      /\ \A i \in 1 .. n : c[i] \notin l
      /\ tail \in Seq(Places)
      /\ \A x : x \in ToSet(tail) <=> \E i \in 1 .. m : i > n /\ x = old[i]
      /\ \A i, j \in 1 .. Len(tail) : tail[i] = tail[j] => i = j
  BY <1>1 DEF Chosen
<1>4. /\ old \in Seq(Places) /\ m = Len(old) /\ m > 0
      /\ \A i, j \in 1 .. m : old[i] = old[j] => i = j
      /\ \A x : x \in Owned(d, a) <=> \E i \in 1 .. m : x = old[i]
  BY <1>1, <1>2, LinkedIs DEF Linked, Owned
<1>5. \A x : x \in ToSet(c) <=> \E i \in 1 .. n : x = c[i]
  BY <1>3, ToSetIs
<1>6. /\ Exact(e, c) /\ c[1] = a
      /\ \A b \in R \ {a} : \A x \in Owned(d, b) : e[x] = d[x]
      /\ \A x \in ToSet(c) : a \in Disk => "valid" \in e[x].stat
  <2>1. Wrote(d, R, a, text, c, e)
    BY WritesIs
  <2>2. QED
    BY <2>1, Zenon DEF Wrote
<1>7. /\ Owned(d, a) \subseteq Zone(a) /\ Owned(d, a) \cap l = {} /\ l \subseteq Disk /\ h \subseteq Buf
      /\ ToSet(tail) \subseteq Owned(d, a) /\ ToSet(c) \subseteq Zone(a) /\ ToSet(c) \cap l = {}
  BY <1>3, <1>4, <1>5 DEF Laid
<1>8. ToSet(tail) \cap ToSet(c) = {}
  <2>1. ASSUME NEW x \in ToSet(tail), NEW i \in 1 .. n, x = c[i] PROVE FALSE
    <3>1. PICK j \in 1 .. m : j > n /\ x = old[j]
      BY <1>3
    <3>2. i <= m /\ i \in 1 .. m /\ i # j
      BY <1>4, <3>1
    <3>3. c[i] = old[i]
      BY <1>3, <3>2
    <3>4. QED
      BY <1>4, <2>1, <3>1, <3>2, <3>3
  <2>2. QED
    BY <1>5, <2>1
<1>9. ASSUME NEW x \in Owned(d, a) PROVE x \in ToSet(c) \/ x \in ToSet(tail)
  <2>1. PICK i \in 1 .. m : x = old[i]
    BY <1>4
  <2>2. CASE i > n
    BY <1>3, <2>1, <2>2
  <2>3. CASE ~ (i > n)
    <3>1. i \in 1 .. n /\ i <= m
      BY <2>3
    <3>2. x = c[i]
      BY <1>3, <2>1, <3>1
    <3>3. QED
      BY <1>5, <3>1, <3>2
  <2>4. QED
    BY <2>2, <2>3
<1>10. CASE tail = <<>>
  <2>1. ToSet(tail) = {} /\ Released(tail) = {}
    BY <1>10 DEF ToSet, Released
  <2>2. Gone(a, tail) = {}
    BY <2>1 DEF Gone
  <2>3. HeldThen(h, a, c, tail) = IF a \in Disk THEN h ELSE h \cup ToSet(c)
    BY <2>1 DEF HeldThen
  <2>4. LostThen(l, a, tail) = l
    BY <1>10 DEF LostThen
  <2>5. \A x \in Places : x \notin ToSet(c) => e[x] = d[x]
    BY <1>2, <2>2 DEF Writes
  <2>6. ASSUME NEW x \in Disk
        PROVE  "valid" \in e[x].stat <=>
                 (x \in l \/ x \in ToSet(c) \/ \E b \in R \ {a} : x \in Owned(d, b))
    <3>1. x \in Places /\ ("valid" \in d[x].stat <=> (x \in l \/ \E b \in R : x \in Owned(d, b)))
      BY DEF Laid, Places
    <3>2. CASE x \in ToSet(c)
      <4>1. a \in Disk
        BY <1>7, <3>2, Bounds DEF Zone
      <4>2. QED
        BY <1>6, <3>2, <4>1
    <3>3. CASE x \notin ToSet(c)
      <4>1. e[x] = d[x] /\ x \notin Owned(d, a)
        BY <1>9, <2>1, <2>5, <3>1, <3>3
      <4>2. QED
        BY <3>1, <3>3, <4>1
    <3>4. QED
      BY <3>2, <3>3
  <2>7. ASSUME NEW x \in Buf
        PROVE  x \in HeldThen(h, a, c, tail) <=> (x \in ToSet(c) \/ \E b \in R \ {a} : x \in Owned(d, b))
    <3>1. x \in h <=> \E b \in R : x \in Owned(d, b)
      BY DEF Laid
    <3>2. x \notin Disk
      BY Bounds
    <3>3. a \in Disk => x \notin ToSet(c)
      BY <1>7, <3>2 DEF Zone
    <3>4. x \in HeldThen(h, a, c, tail) <=> (x \in h \/ x \in ToSet(c))
      BY <2>3, <3>3
    <3>5. x \in Owned(d, a) => x \in ToSet(c)
      BY <1>9, <2>1
    <3>6. QED
      BY <3>1, <3>4, <3>5
  <2>8. HeldThen(h, a, c, tail) \subseteq Buf
    BY <1>7, <2>3 DEF Zone
  <2>9. /\ \A b \in R \ {a} : Owned(d, b) \cap ToSet(c) = {}
        /\ \A b \in R \ {a} : Owned(d, b) \cap l = {}
        /\ \A b \in R \ {a} : \A x \in Owned(d, b) : Alike(d, e, x)
    BY <1>3, <1>5, <1>6 DEF Laid, Alike
  <2>10. QED
    BY <1>6, <1>7, <2>4, <2>6, <2>7, <2>8, <2>9, Zenon DEF Relays
<1>11. CASE tail # <<>>
  <2>1. PICK z : z = Last(tail)
    OBVIOUS
  <2>2. z \in ToSet(tail) /\ z \notin Released(tail) /\ ToSet(tail) = Released(tail) \cup {z}
    BY <1>3, <1>11, <2>1, TailIs
  <2>3. /\ HeldThen(h, a, c, tail) = IF a \in Disk THEN h ELSE (h \cup ToSet(c)) \ ToSet(tail)
        /\ LostThen(l, a, tail) = IF a \in Disk THEN l \cup {z} ELSE l
        /\ Gone(a, tail) = IF a \in Disk THEN Released(tail) ELSE ToSet(tail)
    BY <1>11, <2>1 DEF HeldThen, LostThen, Gone
  <2>4. ASSUME NEW b \in R \ {a}
        PROVE  /\ Owned(d, b) \cap Owned(d, a) = {} /\ Owned(d, b) \cap l = {}
               /\ Owned(d, b) \cap ToSet(c) = {} /\ Owned(d, b) \cap ToSet(tail) = {}
               /\ \A x \in Owned(d, b) : Alike(d, e, x)
    BY <1>3, <1>5, <1>6, <1>7 DEF Laid, Alike
  <2>5. \A x \in Places : x \notin ToSet(c) /\ x \notin Gone(a, tail) => e[x] = d[x]
    BY <1>2 DEF Writes
  <2>6. ASSUME NEW x \in Places, x \in Released(tail), a \in Disk PROVE "valid" \notin e[x].stat
    <3>1. x \in Gone(a, tail) /\ x \notin ToSet(c)
      BY <1>8, <2>2, <2>3, <2>6
    <3>2. e[x] = [d[x] EXCEPT !.stat = {}]
      BY <1>2, <2>6, <3>1 DEF Writes
    <3>3. d[x] \in [stat : SUBSET Status, orig : Numbers, next : Numbers, body : Seq(Letters)]
      BY <1>2 DEF Memory
    <3>4. QED
      BY <3>2, <3>3
  <2>7. ASSUME NEW x \in Disk
        PROVE  "valid" \in e[x].stat <=>
                 (x \in LostThen(l, a, tail) \/ x \in ToSet(c) \/ \E b \in R \ {a} : x \in Owned(d, b))
    <3>1. x \in Places /\ ("valid" \in d[x].stat <=> (x \in l \/ \E b \in R : x \in Owned(d, b)))
      BY DEF Laid, Places
    <3>2. CASE x \in ToSet(c)
      <4>1. a \in Disk
        BY <1>7, <3>2, Bounds DEF Zone
      <4>2. QED
        BY <1>6, <3>2, <4>1
    <3>3. CASE a \in Disk /\ x = z
      <4>1. x \in Owned(d, a) /\ x \notin ToSet(c) /\ x \notin Gone(a, tail)
        BY <1>7, <1>8, <2>2, <2>3, <3>3
      <4>2. e[x] = d[x]
        BY <2>5, <3>1, <4>1
      <4>3. x \in LostThen(l, a, tail)
        BY <2>3, <3>3
      <4>4. QED
        BY <3>1, <4>1, <4>2, <4>3
    <3>4. CASE a \in Disk /\ x \in Released(tail)
      <4>1. x \in Owned(d, a) /\ x \notin ToSet(c) /\ x # z /\ x \in ToSet(tail)
        BY <1>7, <1>8, <2>2, <3>4
      <4>2. "valid" \notin e[x].stat
        BY <2>6, <3>1, <3>4
      <4>3. x \notin l
        BY <1>7, <4>1
      <4>4. x \notin LostThen(l, a, tail)
        BY <2>3, <4>1, <4>3
      <4>5. QED
        BY <2>4, <4>1, <4>2, <4>4
    <3>5. CASE x \notin ToSet(c) /\ ~ (a \in Disk /\ x \in ToSet(tail))
      <4>1. x \notin Gone(a, tail) /\ x \notin Owned(d, a)
        <5>1. a \notin Disk => x \notin Owned(d, a)
          BY <1>7, Bounds DEF Zone
        <5>2. x \notin Owned(d, a)
          BY <1>9, <3>5, <5>1
        <5>3. QED
          BY <1>7, <2>2, <2>3, <3>5, <5>2
      <4>2. e[x] = d[x]
        BY <2>5, <3>1, <3>5, <4>1
      <4>3. x \in LostThen(l, a, tail) <=> x \in l
        BY <2>2, <2>3, <3>5
      <4>4. QED
        BY <3>1, <3>5, <4>1, <4>2, <4>3
    <3>6. QED
      BY <2>2, <3>2, <3>3, <3>4, <3>5
  <2>8. ASSUME NEW x \in Buf
        PROVE  x \in HeldThen(h, a, c, tail) <=> (x \in ToSet(c) \/ \E b \in R \ {a} : x \in Owned(d, b))
    <3>1. x \in h <=> \E b \in R : x \in Owned(d, b)
      BY DEF Laid
    <3>2. x \notin Disk
      BY Bounds
    <3>3. a \in Disk => x \notin ToSet(c) /\ x \notin Owned(d, a)
      BY <1>7, <3>2 DEF Zone
    <3>4. a \notin Disk => (x \in HeldThen(h, a, c, tail) <=> ((x \in h \/ x \in ToSet(c)) /\ x \notin ToSet(tail)))
      BY <2>3
    <3>5. a \in Disk => (x \in HeldThen(h, a, c, tail) <=> x \in h)
      BY <2>3
    <3>6. x \in Owned(d, a) => x \in ToSet(c) \/ x \in ToSet(tail)
      BY <1>9
    <3>7. x \in ToSet(tail) => x \notin ToSet(c) /\ x \in Owned(d, a) /\ \A b \in R \ {a} : x \notin Owned(d, b)
      BY <1>7, <1>8, <2>4
    <3>8. QED
      BY <3>1, <3>3, <3>4, <3>5, <3>6, <3>7
  <2>9. HeldThen(h, a, c, tail) \subseteq Buf
    BY <1>7, <2>3 DEF Zone
  <2>10. LostThen(l, a, tail) \subseteq Disk
    BY <1>7, <2>2, <2>3 DEF Zone
  <2>11. /\ \A b \in R \ {a} : Owned(d, b) \cap LostThen(l, a, tail) = {}
         /\ ToSet(c) \cap LostThen(l, a, tail) = {}
    BY <1>7, <1>8, <2>2, <2>3, <2>4
  <2>12. QED
    BY <1>6, <1>7, <2>4, <2>7, <2>8, <2>9, <2>10, <2>11, Zenon DEF Relays
<1>12. QED
  BY <1>10, <1>11

\* Writing a text to the chain of a keeps all that is laid, and the text is
\* then the one of a.
WrittenKeeps(d, h, R, l, a, text, e) ==
    LET c == SubSeq(Chain(d, a) \o FreeBlocks(d, h, a), 1, Needed(text))
        tail == CutOff(d, a, text)
    IN  /\ Laid(e, HeldThen(h, a, c, tail), R, LostThen(l, a, tail))
        /\ Chain(e, a) = c /\ Text(e, a) = text /\ SizeOf(e, a) \in Nat
        /\ Spared(d, e, R \ {a})
        /\ SameHeads(d, e, R)

LEMMA WrittenLaid ==
  ASSUME NEW d, NEW h, NEW R, NEW l, Laid(d, h, R, l), NEW a \in R,
         NEW text \in Seq(Letters), Room(d, h, a, text)
  PROVE  WrittenKeeps(d, h, R, l, a, text, Written(d, h, a, text))
<1>1. PICK q \in Nat : Needed(text) = q + 1
  <2>1. Len(text) \in Nat /\ Chars \in Nat /\ Chars > 0
    BY Bounds
  <2>2. Len(text) \div Chars \in Nat
    BY <2>1
  <2>3. QED
    BY <2>2 DEF Needed
<1>2. PICK n \in Nat : n = q + 1
  OBVIOUS
<1>3. PICK c : c = SubSeq(Chain(d, a) \o FreeBlocks(d, h, a), 1, n)
  OBVIOUS
<1>4. PICK tail : tail = CutOff(d, a, text)
  OBVIOUS
<1>5. PICK m \in Nat : m = Len(Chain(d, a))
  <2>1. Linked(d, Chain(d, a))
    BY LaidIs
  <2>2. Len(Chain(d, a)) \in Nat
    BY <2>1 DEF Linked
  <2>3. QED
    BY <2>2
<1>6. PICK e : e = Written(d, h, a, text)
  OBVIOUS
<1>7. Chosen(d, h, R, l, a, Chain(d, a), m, n, c, tail)
  <2>1. Chosen(d, h, R, l, a, Chain(d, a), m, q + 1,
                SubSeq(Chain(d, a) \o FreeBlocks(d, h, a), 1, q + 1), CutOff(d, a, text))
    BY <1>1, <1>5, BlocksChosen
  <2>2. QED
    BY <1>2, <1>3, <1>4, <2>1, Zenon
<1>8. Writes(d, a, text, m, n, c, tail, e)
  BY <1>1, <1>2, <1>3, <1>4, <1>5, <1>6, WrittenWrites
<1>9. /\ e \in Memory /\ Exact(e, c) /\ Text(e, a) = text /\ SameHeads(d, e, R) /\ c[1] = a
  <2>1. Wrote(d, R, a, text, c, e)
    BY <1>1, <1>2, <1>5, <1>7, <1>8, WritesIs
  <2>2. QED
    BY <2>1, Zenon DEF Wrote
<1>10. Relays(d, R, e, HeldThen(h, a, c, tail), LostThen(l, a, tail), a, c)
  BY <1>1, <1>2, <1>5, <1>7, <1>8, WritesRelays
<1>11. a \in Places /\ R \cup {a} = R
  BY LaidIs
<1>12. /\ Laid(e, HeldThen(h, a, c, tail), R \cup {a}, LostThen(l, a, tail))
       /\ Found(e, c, a) /\ Spared(d, e, R \ {a})
  BY <1>9, <1>10, <1>11, Relaid
<1>13. Chain(e, a) = c /\ SizeOf(e, a) \in Nat
  BY <1>12 DEF Found
<1>14. Needed(text) = n
  BY <1>1, <1>2
<1>15. c = SubSeq(Chain(d, a) \o FreeBlocks(d, h, a), 1, Needed(text))
  BY <1>3, <1>14
<1>16. Laid(e, HeldThen(h, a, c, tail), R, LostThen(l, a, tail))
  BY <1>11, <1>12
<1>17. WrittenKeeps(d, h, R, l, a, text, e)
  BY <1>4, <1>9, <1>12, <1>13, <1>15, <1>16, Zenon DEF WrittenKeeps
<1>18. QED
  BY <1>6, <1>17

\* A text is written to a file of the disk.
FileKept(d, R, a, text, h, k, e) ==
    /\ Laid(e, h, R, k)
    /\ Text(e, a) = text /\ SizeOf(e, a) \in Nat
    /\ Spared(d, e, R \ {a}) /\ SameHeads(d, e, R)

LEMMA FileWritten ==
  ASSUME NEW d, NEW h, NEW R, NEW l, Laid(d, h, R, l), NEW a \in R, a \in Disk,
         NEW text \in Seq(Letters), Room(d, h, a, text),
         NEW e, e = Written(d, h, a, text), NEW tail, tail = CutOff(d, a, text),
         NEW k, k = (IF tail = <<>> THEN l ELSE l \cup {Last(tail)})
  PROVE  FileKept(d, R, a, text, h, k, e)
<1>1. WrittenKeeps(d, h, R, l, a, text, e)
  BY WrittenLaid
<1>2. PICK c : c = SubSeq(Chain(d, a) \o FreeBlocks(d, h, a), 1, Needed(text))
  OBVIOUS
<1>3. /\ Laid(e, HeldThen(h, a, c, tail), R, LostThen(l, a, tail))
      /\ Text(e, a) = text /\ SizeOf(e, a) \in Nat
      /\ Spared(d, e, R \ {a}) /\ SameHeads(d, e, R)
  BY <1>1, <1>2, Zenon DEF WrittenKeeps
<1>4. HeldThen(h, a, c, tail) = h /\ LostThen(l, a, tail) = k
  BY DEF HeldThen, LostThen
<1>5. QED
  BY <1>3, <1>4 DEF FileKept

\* A text is written to the copy.
LEMMA CopyWritten ==
  ASSUME NEW d, NEW h, NEW R, NEW l, Laid(d, h, R, l), NEW a \in R, a \notin Disk,
         NEW text \in Seq(Letters), Room(d, h, a, text),
         NEW e, e = Written(d, h, a, text), NEW g, g = HeldAfter(d, h, a, text)
  PROVE  /\ Laid(e, g, R, l)
         /\ Text(e, a) = text /\ Spared(d, e, R \ {a}) /\ SameHeads(d, e, R)
<1>1. WrittenKeeps(d, h, R, l, a, text, e)
  BY WrittenLaid
<1>2. PICK c : c = SubSeq(Chain(d, a) \o FreeBlocks(d, h, a), 1, Needed(text))
  OBVIOUS
<1>3. PICK tail : tail = CutOff(d, a, text)
  OBVIOUS
<1>4. /\ Laid(e, HeldThen(h, a, c, tail), R, LostThen(l, a, tail))
      /\ Chain(e, a) = c /\ Text(e, a) = text
      /\ Spared(d, e, R \ {a}) /\ SameHeads(d, e, R)
  BY <1>1, <1>2, <1>3, Zenon DEF WrittenKeeps
<1>5. LostThen(l, a, tail) = l
  BY DEF LostThen
<1>6. HeldThen(h, a, c, tail) = g
  BY <1>3, <1>4 DEF HeldThen, HeldAfter
<1>7. QED
  BY <1>4, <1>5, <1>6


-----------------------------------------------------------------------------
(* No block holds more than it can take. *)

Fits(d) == \A x \in Places : Len(d[x].body) <= Chars

LEMMA WrittenFits ==
  ASSUME NEW d, NEW h, NEW R, NEW l, Laid(d, h, R, l), NEW a \in R,
         NEW text \in Seq(Letters), Room(d, h, a, text), Fits(d)
  PROVE  Fits(Written(d, h, a, text))
<1>1. PICK q \in Nat : Needed(text) = q + 1
  <2>1. Len(text) \in Nat /\ Chars \in Nat /\ Chars > 0
    BY Bounds
  <2>2. Len(text) \div Chars \in Nat
    BY <2>1
  <2>3. QED
    BY <2>2 DEF Needed
<1>2. PICK n \in Nat : n = q + 1
  OBVIOUS
<1>3. PICK c : c = SubSeq(Chain(d, a) \o FreeBlocks(d, h, a), 1, n)
  OBVIOUS
<1>4. PICK tail : tail = CutOff(d, a, text)
  OBVIOUS
<1>5. PICK m \in Nat : m = Len(Chain(d, a))
  <2>1. Linked(d, Chain(d, a))
    BY LaidIs
  <2>2. Len(Chain(d, a)) \in Nat
    BY <2>1 DEF Linked
  <2>3. QED
    BY <2>2
<1>6. PICK e : e = Written(d, h, a, text)
  OBVIOUS
<1>7. Chosen(d, h, R, l, a, Chain(d, a), m, n, c, tail)
  <2>1. Chosen(d, h, R, l, a, Chain(d, a), m, q + 1,
                SubSeq(Chain(d, a) \o FreeBlocks(d, h, a), 1, q + 1), CutOff(d, a, text))
    BY <1>1, <1>5, BlocksChosen
  <2>2. QED
    BY <1>2, <1>3, <1>4, <2>1, Zenon
<1>8. Writes(d, a, text, m, n, c, tail, e)
  BY <1>1, <1>2, <1>3, <1>4, <1>5, <1>6, WrittenWrites
<1>9. e \in Memory /\ Exact(e, c)
  <2>1. Wrote(d, R, a, text, c, e)
    BY <1>1, <1>2, <1>5, <1>7, <1>8, WritesIs
  <2>2. QED
    BY <2>1, Zenon DEF Wrote
<1>10. d \in Memory /\ DOMAIN d = Places
  BY LaidIs DEF Memory
<1>11. ASSUME NEW x \in Places PROVE Len(e[x].body) <= Chars
  <2>1. CASE x \in ToSet(c)
    <3>1. Linked(e, c)
      BY <1>9 DEF Exact
    <3>2. PICK i \in 1 .. Len(c) : x = c[i]
      BY <2>1, <3>1, LinkedIs
    <3>3. Len(c) \in Nat /\ (i < Len(c) \/ i = Len(c))
      BY <3>1, LinkedIs
    <3>4. CASE i < Len(c)
      <4>1. Len(e[c[i]].body) = Chars /\ Chars \in Nat
        BY <1>9, <3>4, Bounds DEF Exact
      <4>2. QED
        BY <3>2, <4>1
    <3>5. CASE i = Len(c)
      <4>1. Len(e[c[Len(c)]].body) < Chars
        BY <1>9 DEF Exact
      <4>2. Len(e[x].body) \in Nat /\ Chars \in Nat
        BY <1>9, Contents, Bounds
      <4>3. QED
        BY <3>2, <3>5, <4>1, <4>2
    <3>6. QED
      BY <3>3, <3>4, <3>5
  <2>2. CASE x \notin ToSet(c)
    <3>1. e[x].body = d[x].body \/ e[x].body = <<>>
      <4>1. CASE x \in Gone(a, tail)
        <5>1. e[x] = IF a \in Disk THEN [d[x] EXCEPT !.stat = {}] ELSE Unused
          BY <1>8, <1>10, <2>2, <4>1 DEF Writes
        <5>2. d[x] \in [stat : SUBSET Status, orig : Numbers, next : Numbers, body : Seq(Letters)]
          BY <1>10 DEF Memory
        <5>3. [d[x] EXCEPT !.stat = {}].body = d[x].body /\ Unused.body = <<>>
          BY <5>2 DEF Unused
        <5>4. QED
          BY <5>1, <5>3
      <4>2. CASE x \notin Gone(a, tail)
        <5>1. e[x] = d[x]
          BY <1>8, <1>10, <2>2, <4>2 DEF Writes
        <5>2. QED
          BY <5>1
      <4>3. QED
        BY <4>1, <4>2
    <3>2. Len(d[x].body) <= Chars /\ Len(<<>>) <= Chars
      BY Bounds DEF Fits
    <3>3. QED
      BY <3>1, <3>2
  <2>3. QED
    BY <2>1, <2>2
<1>12. QED
  BY <1>6, <1>11 DEF Fits

-----------------------------------------------------------------------------
(* Marks. *)

\* Only marks differ.
Marks(d, e) ==
    /\ DOMAIN e = DOMAIN d
    /\ \A x \in DOMAIN d :
         /\ Alike(d, e, x) /\ e[x].orig = d[x].orig
         /\ "valid" \in e[x].stat <=> "valid" \in d[x].stat

LEMMA MarkIs ==
  ASSUME NEW b \in Content, NEW s \in {"opened", "buf"}
  PROVE  /\ [b EXCEPT !.stat = @ \cup {s}] \in Content
         /\ [b EXCEPT !.stat = @ \cup {s}].next = b.next
         /\ [b EXCEPT !.stat = @ \cup {s}].body = b.body
         /\ [b EXCEPT !.stat = @ \cup {s}].orig = b.orig
         /\ [b EXCEPT !.stat = @ \cup {s}].stat = b.stat \cup {s}
<1>1. {s} \subseteq Status
  BY DEF Status
<1>2. QED
  BY <1>1 DEF Content

\* A status is added to the chain of a: if the first block did not have it, it
\* has it now, and blocks outside the chain are as they were.
StatusAdded(d, a, s, e) ==
    /\ e \in Memory /\ Marks(d, e)
    /\ \A x \in Places : e[x].stat = d[x].stat \/ e[x].stat = d[x].stat \cup {s}
    /\ s \notin d[a].stat => s \in e[a].stat
    /\ \A x \in Places : x \notin Owned(d, a) => e[x] = d[x]

LEMMA WithStatusIs ==
  ASSUME NEW d, NEW h, NEW R, NEW l, Laid(d, h, R, l), NEW a \in R, NEW s \in {"opened", "buf"}
  PROVE  StatusAdded(d, a, s, WithStatus(d, a, s))
<1>1. PICK c : c = Chain(d, a)
  OBVIOUS
<1>2. d \in Memory /\ Linked(d, c) /\ c[1] = a /\ a \in Places /\ DOMAIN d = Places
  BY <1>1, LaidIs DEF Memory
<1> DEFINE Marked(x) == \E i \in DOMAIN c : c[i] = x /\ \A j \in 1..i : s \notin d[c[j]].stat
           e == [x \in DOMAIN d |-> IF Marked(x) THEN [d[x] EXCEPT !.stat = @ \cup {s}] ELSE d[x]]
<1>3. WithStatus(d, a, s) = e
  BY <1>1, Zenon DEF WithStatus
<1>4. ASSUME NEW x \in Places, Marked(x) PROVE x \in Owned(d, a)
  <2>1. PICK i \in DOMAIN c : c[i] = x
    BY <1>4
  <2>2. i \in 1 .. Len(c)
    BY <1>2, LinkedIs
  <2>3. QED
    BY <1>1, <1>2, <2>1, <2>2, LinkedIs DEF Owned
<1>5. ASSUME s \notin d[a].stat PROVE Marked(a)
  <2>1. 1 \in DOMAIN c /\ c[1] = a
    BY <1>2, LinkedIs
  <2>2. \A j \in 1 .. 1 : s \notin d[c[j]].stat
    <3>1. \A j \in 1 .. 1 : j = 1
      OBVIOUS
    <3>2. QED
      BY <1>2, <1>5, <3>1
  <2>3. QED
    BY <2>1, <2>2
<1> HIDE DEF Marked
<1>6. DOMAIN e = Places
  BY <1>2
<1>7. ASSUME NEW x \in Places
      PROVE  /\ e[x] \in Content
             /\ e[x].next = d[x].next /\ e[x].body = d[x].body /\ e[x].orig = d[x].orig
             /\ e[x].stat = IF Marked(x) THEN d[x].stat \cup {s} ELSE d[x].stat
             /\ ~ Marked(x) => e[x] = d[x]
  <2>1. d[x] \in Content
    BY <1>2 DEF Memory, Content
  <2>2. e[x] = IF Marked(x) THEN [d[x] EXCEPT !.stat = @ \cup {s}] ELSE d[x]
    BY <1>2
  <2> HIDE DEF e
  <2>3. CASE Marked(x)
    <3>1. e[x] = [d[x] EXCEPT !.stat = @ \cup {s}]
      BY <2>2, <2>3
    <3>2. PICK b \in Content : b = d[x]
      BY <2>1
    <3>3. PICK f : f = [b EXCEPT !.stat = @ \cup {s}]
      OBVIOUS
    <3>4. /\ f \in Content /\ f.next = b.next /\ f.body = b.body /\ f.orig = b.orig
          /\ f.stat = b.stat \cup {s}
      BY <3>2, <3>3, MarkIs, Zenon
    <3>5. f = e[x]
      BY <3>1, <3>2, <3>3
    <3>6. QED
      BY <2>3, <3>2, <3>4, <3>5
  <2>4. CASE ~ Marked(x)
    BY <2>1, <2>2, <2>4
  <2>5. QED
    BY <2>3, <2>4
<1>8. e = [x \in Places |-> e[x]]
  BY <1>2
<1> HIDE DEF e
<1>9. e \in Memory
  BY <1>7, <1>8 DEF Memory, Content
<1>10. ASSUME NEW x \in Places
       PROVE  Alike(d, e, x) /\ ("valid" \in e[x].stat <=> "valid" \in d[x].stat)
  <2>1. s # "valid" /\ s # "cont"
    OBVIOUS
  <2>2. QED
    BY <1>7, <2>1 DEF Alike
<1>11. Marks(d, e)
  BY <1>2, <1>6, <1>7, <1>10 DEF Marks
<1>12. s \notin d[a].stat => s \in e[a].stat
  BY <1>2, <1>5, <1>7
<1>13. QED
  BY <1>3, <1>4, <1>7, <1>9, <1>11, <1>12 DEF StatusAdded

\* All that is laid is still so, with the same texts.
LEMMA MarksKeep ==
  ASSUME NEW d, NEW h, NEW R, NEW l, Laid(d, h, R, l), NEW e \in Memory, Marks(d, e)
  PROVE  /\ Laid(e, h, R, l) /\ Spared(d, e, R) /\ \A b \in R : Owned(e, b) = Owned(d, b)
         /\ Fits(d) => Fits(e)
<1>1. d \in Memory /\ DOMAIN d = Places
  BY DEF Laid, Memory
<1>2. \A x \in Places : Alike(d, e, x) /\ ("valid" \in e[x].stat <=> "valid" \in d[x].stat)
  BY <1>1 DEF Marks
<1>3. Laid(e, h, R, l) /\ Spared(d, e, R) /\ \A b \in R : Owned(e, b) = Owned(d, b)
  BY <1>2, Remarked
<1>4. Fits(d) => Fits(e)
  BY <1>2 DEF Fits, Alike
<1>5. QED
  BY <1>3, <1>4

\* What marking leaves as it was.
MarksKept(d, e, h, R, l) ==
    /\ Laid(e, h, R, l) /\ Spared(d, e, R) /\ Fits(e)
    /\ \A b \in R : Owned(e, b) = Owned(d, b)

LEMMA MarksKeptIs ==
  ASSUME NEW d, NEW h, NEW R, NEW l, Laid(d, h, R, l), Fits(d), NEW e \in Memory, Marks(d, e)
  PROVE  MarksKept(d, e, h, R, l)
<1>1. /\ Laid(e, h, R, l) /\ Spared(d, e, R) /\ \A b \in R : Owned(e, b) = Owned(d, b)
      /\ Fits(d) => Fits(e)
  BY MarksKeep
<1>2. QED
  BY <1>1, Zenon DEF MarksKept

\* What giving back the chain of a leaves.
Returned(d, a, e, h, R, l) ==
    /\ Laid(e, h \ Owned(d, a), R \ {a}, l) /\ Spared(d, e, R \ {a}) /\ Fits(e)
    /\ \A x \in Places : x \notin Owned(d, a) => e[x] = d[x]

LEMMA ReturnedIs ==
  ASSUME NEW d, NEW h, NEW R, NEW l, Laid(d, h, R, l), Fits(d), NEW a \in R, a \notin Disk,
         NEW e, e = Dropped(d, a)
  PROVE  Returned(d, a, e, h, R, l)
<1>1. /\ Laid(e, h \ Owned(d, a), R \ {a}, l)
      /\ Spared(d, e, R \ {a})
      /\ \A x \in Places : x \notin Owned(d, a) => e[x] = d[x]
  BY Unlaid
<1>2. Fits(e)
  <2>1. DOMAIN d = Places
    BY DEF Laid, Memory
  <2>2. \A x \in Places : e[x] = IF x \in Owned(d, a) THEN Unused ELSE d[x]
    BY <2>1 DEF Dropped, Owned
  <2>3. Len(Unused.body) = 0 /\ Chars \in Nat
    BY Bounds DEF Unused
  <2>4. ASSUME NEW x \in Places PROVE Len(e[x].body) <= Chars
    <3>1. CASE x \in Owned(d, a)
      <4>1. e[x] = Unused
        BY <2>2, <3>1
      <4>2. QED
        BY <2>3, <4>1
    <3>2. CASE x \notin Owned(d, a)
      <4>1. e[x] = d[x]
        BY <2>2, <3>2
      <4>2. QED
        BY <4>1 DEF Fits
    <3>3. QED
      BY <3>1, <3>2
  <2>5. QED
    BY <2>4 DEF Fits
<1>3. QED
  BY <1>1, <1>2, Zenon DEF Returned


-----------------------------------------------------------------------------
(* The copy of a file. *)

\* What a block of the copy is.
CopyBlock(d, c, to, n, b) ==
    [d[c[b - to + 1]] EXCEPT !.next = IF b - to + 1 < n THEN b + 1 ELSE 0]

\* The blocks s are a copy of the chain of a.
CopyMade(d, h, R, l, a, to, n, e) ==
    /\ Laid(e, h \cup to .. to + n - 1, R \cup {to}, l)
    /\ Text(e, to) = Text(d, a) /\ Spared(d, e, R)
    /\ e[to].orig = d[a].orig
    /\ \A x \in Places : x \notin to .. to + n - 1 => e[x] = d[x]
    /\ Fits(d) => Fits(e)

LEMMA CopiedIs ==
  ASSUME NEW d, NEW h, NEW R, NEW l, Laid(d, h, R, l), NEW a \in R,
         NEW n \in Nat, n = BlockNum(d, a), NEW to \in Nat, to .. to + n - 1 \subseteq Buf \ h
  PROVE  /\ CopyMade(d, h, R, l, a, to, n, Copied(d, a, to))
         /\ to \in to .. to + n - 1
<1>1. PICK c : c = Chain(d, a)
  OBVIOUS
<1>2. /\ d \in Memory /\ Exact(d, c) /\ Linked(d, c) /\ c[1] = a /\ a \in Places /\ DOMAIN d = Places
      /\ Found(d, c, a)
  BY <1>1, LaidIs DEF Memory
<1>3. n = Len(c)
  BY <1>2 DEF Found
<1>4. /\ c \in Seq(Places) /\ n > 0 /\ DOMAIN c = 1 .. n /\ 1 \in 1 .. n
      /\ \A i \in 1 .. n : c[i] \in Places
  BY <1>2, <1>3, LinkedIs
<1>5. to \in to .. to + n - 1
  BY <1>4
<1> DEFINE e == Copied(d, a, to)
<1>6. e = [b \in Places |-> IF b \in to .. to + n - 1 THEN CopyBlock(d, c, to, n, b) ELSE d[b]]
  <2>1. e = [b \in DOMAIN d |-> IF b \in to .. to + Len(c) - 1 THEN CopyBlock(d, c, to, Len(c), b) ELSE d[b]]
    BY <1>1, Zenon DEF Copied, CopyBlock
  <2>2. QED
    BY <1>2, <1>3, <2>1, Zenon
<1> HIDE DEF e
<1>7. ASSUME NEW x \in Places, x \notin to .. to + n - 1 PROVE e[x] = d[x]
  BY <1>6, <1>7
<1>8. ASSUME NEW i \in 1 .. n
      PROVE  /\ to + i - 1 \in to .. to + n - 1 /\ to + i - 1 \in Buf /\ to + i - 1 \in Places
             /\ to + i - 1 \notin h
             /\ e[to + i - 1] \in Content
             /\ e[to + i - 1].body = d[c[i]].body /\ e[to + i - 1].stat = d[c[i]].stat
             /\ e[to + i - 1].orig = d[c[i]].orig
             /\ e[to + i - 1].next = IF i < n THEN to + i ELSE 0
  <2>1. PICK b \in Nat : b = to + i - 1
    OBVIOUS
  <2>2. b \in to .. to + n - 1 /\ b - to + 1 = i /\ b + 1 = to + i
    BY <2>1
  <2>3. b \in Buf /\ b \in Places /\ b \notin h
    BY <2>2 DEF Places
  <2>4. e[b] = CopyBlock(d, c, to, n, b)
    BY <1>6, <2>2, <2>3
  <2>5. PICK o \in Content : o = d[c[i]]
    BY <1>2, <1>4 DEF Memory, Content
  <2>6. PICK z \in Numbers : z = IF i < n THEN to + i ELSE 0
    <3>1. i < n => to + i \in Numbers
      <4>1. i < n => to + i \in to .. to + n - 1
        OBVIOUS
      <4>2. i < n => to + i \in Places
        BY <4>1 DEF Places
      <4>3. QED
        BY <4>2, Places1
    <3>2. 0 \in Numbers
      BY Bounds DEF Numbers
    <3>3. QED
      BY <3>1, <3>2
  <2>7. e[b] = [o EXCEPT !.next = z]
    BY <2>2, <2>4, <2>5, <2>6 DEF CopyBlock
  <2>8. /\ [o EXCEPT !.next = z] \in Content /\ [o EXCEPT !.next = z].body = o.body
        /\ [o EXCEPT !.next = z].stat = o.stat /\ [o EXCEPT !.next = z].orig = o.orig
        /\ [o EXCEPT !.next = z].next = z
    BY <2>5, <2>6 DEF Content
  <2>9. QED
    BY <2>1, <2>2, <2>3, <2>5, <2>6, <2>7, <2>8
<1>9. e \in Memory
  <2>1. ASSUME NEW x \in Places PROVE e[x] \in Content
    <3>1. CASE x \in to .. to + n - 1
      <4>1. x - to + 1 \in 1 .. n /\ to + (x - to + 1) - 1 = x
        BY <3>1
      <4>2. QED
        BY <1>8, <4>1
    <3>2. CASE x \notin to .. to + n - 1
      <4>1. d[x] \in Content
        BY <1>2 DEF Memory, Content
      <4>2. QED
        BY <1>7, <3>2, <4>1
    <3>3. QED
      BY <3>1, <3>2
  <2>2. e = [x \in Places |-> e[x]]
    BY <1>6
  <2>3. QED
    BY <2>1, <2>2 DEF Memory, Content
<1>10. PICK s : s = [i \in 1 .. n |-> to + i - 1]
  OBVIOUS
<1>11. /\ s \in Seq(Places) /\ Len(s) = n /\ DOMAIN s = 1 .. n
       /\ \A i \in 1 .. n : s[i] = to + i - 1
  <2>1. s \in [1 .. n -> Places]
    BY <1>8, <1>10
  <2>2. s \in Seq(Places) /\ Len(s) = n /\ DOMAIN s = 1 .. n
    BY <2>1
  <2>3. QED
    BY <1>10, <2>2
<1>12. s[1] = to
  BY <1>4, <1>11
<1>13. ASSUME NEW i \in 1 .. n
       PROVE  /\ e[s[i]].body = d[c[i]].body /\ e[s[i]].stat = d[c[i]].stat
              /\ e[s[i]].orig = d[c[i]].orig
              /\ e[s[i]].next = IF i < n THEN s[i + 1] ELSE 0
  <2>1. s[i] = to + i - 1
    BY <1>11
  <2>2. i < n => s[i + 1] = to + i
    <3>1. i < n => i + 1 \in 1 .. n /\ to + (i + 1) - 1 = to + i
      OBVIOUS
    <3>2. QED
      BY <1>11, <3>1
  <2>3. QED
    BY <1>8, <2>1, <2>2
<1>14. Exact(e, s)
  <2>1. Linked(e, s)
    <3>1. ASSUME NEW i \in 1 .. n, NEW j \in 1 .. n, s[i] = s[j] PROVE i = j
      <4>1. to + i - 1 = to + j - 1
        BY <1>11, <3>1
      <4>2. QED
        BY <4>1
    <3>2. \A i \in 1 .. n : i < n => e[s[i]].next = s[i + 1]
      BY <1>13
    <3>3. e[s[n]].next = 0
      <4>1. n \in 1 .. n /\ ~ (n < n)
        BY <1>4
      <4>2. QED
        BY <1>13, <4>1
    <3>4. QED
      BY <1>4, <1>11, <3>1, <3>2, <3>3 DEF Linked
  <2>2. ASSUME NEW i \in 1 .. n, i < n PROVE "cont" \in e[s[i]].stat /\ Len(e[s[i]].body) = Chars
    <3>1. "cont" \in d[c[i]].stat /\ Len(d[c[i]].body) = Chars
      BY <1>2, <1>3, <2>2 DEF Exact
    <3>2. QED
      BY <1>13, <3>1
  <2>3. Len(e[s[n]].body) < Chars
    <3>1. n \in 1 .. n
      BY <1>4
    <3>2. Len(d[c[n]].body) < Chars
      BY <1>2, <1>3 DEF Exact
    <3>3. QED
      BY <1>13, <3>1, <3>2
  <2>4. QED
    BY <1>11, <2>1, <2>2, <2>3 DEF Exact
<1>15. ToSet(s) = to .. to + n - 1
  <2>1. ASSUME NEW x PROVE x \in ToSet(s) <=> x \in to .. to + n - 1
    <3>1. x \in ToSet(s) <=> \E i \in 1 .. n : x = s[i]
      BY <1>11, ToSetIs
    <3>2. ASSUME x \in to .. to + n - 1 PROVE \E i \in 1 .. n : x = s[i]
      <4>1. x - to + 1 \in 1 .. n /\ to + (x - to + 1) - 1 = x
        BY <3>2
      <4>2. s[x - to + 1] = x
        BY <1>11, <4>1
      <4>3. QED
        BY <4>1, <4>2
    <3>3. ASSUME NEW i \in 1 .. n, x = s[i] PROVE x \in to .. to + n - 1
      BY <1>8, <1>11, <3>3
    <3>4. QED
      BY <3>1, <3>2, <3>3
  <2>2. QED
    BY <2>1
<1>16. PICK B : B = to .. to + n - 1
  OBVIOUS
<1>17. ToSet(s) = B /\ B \subseteq Buf /\ B \cap h = {} /\ to \in B /\ to \in Buf /\ to \notin Disk /\ to \in Places
       /\ Disk \cap Buf = {}
  <2>1. Disk \cap Buf = {}
    BY Bounds
  <2>2. B \subseteq Buf /\ to \in B /\ B \cap h = {}
    BY <1>5, <1>16
  <2>3. QED
    BY <1>15, <1>16, <2>1, <2>2 DEF Places
<1>18. ASSUME NEW b \in R PROVE Owned(d, b) \cap B = {} /\ Owned(d, b) \cap l = {} /\ Owned(d, b) \subseteq Places
  <2>1. ASSUME NEW x \in B PROVE x \notin Owned(d, b)
    <3>1. x \in Buf /\ x \notin h
      BY <1>17
    <3>2. QED
      BY <3>1 DEF Laid
  <2>2. QED
    BY <2>1, LaidIs DEF Laid
<1>19. to \notin R
  BY <1>17, <1>18, LaidIs
<1>20. ASSUME NEW b \in R, NEW x \in Owned(d, b) PROVE e[x] = d[x]
  <2>1. x \in Places /\ x \notin to .. to + n - 1
    BY <1>16, <1>18
  <2>2. QED
    BY <1>7, <2>1
<1>21. Relays(d, R, e, h \cup B, l, to, s)
  <2>1. R \ {to} = R
    BY <1>19
  <2>2. l \subseteq Disk /\ h \subseteq Buf
    BY DEF Laid
  <2>3. ToSet(s) \subseteq Zone(to) /\ ToSet(s) \cap l = {} /\ h \cup B \subseteq Buf
    BY <1>17, <2>2 DEF Zone
  <2>4. ASSUME NEW x \in Disk
        PROVE "valid" \in e[x].stat <=> (x \in l \/ x \in ToSet(s) \/ \E b \in R : x \in Owned(d, b))
    <3>1. x \notin B /\ x \in Places
      BY <1>17 DEF Places
    <3>2. e[x] = d[x]
      BY <1>7, <1>16, <3>1
    <3>3. "valid" \in d[x].stat <=> (x \in l \/ \E b \in R : x \in Owned(d, b))
      BY DEF Laid
    <3>4. QED
      BY <1>17, <3>1, <3>2, <3>3
  <2>5. ASSUME NEW x \in Buf
        PROVE x \in h \cup B <=> (x \in ToSet(s) \/ \E b \in R : x \in Owned(d, b))
    <3>1. x \in h <=> \E b \in R : x \in Owned(d, b)
      BY DEF Laid
    <3>2. QED
      BY <1>17, <3>1
  <2>6. /\ \A b \in R : Owned(d, b) \cap ToSet(s) = {} /\ Owned(d, b) \cap l = {}
        /\ \A b \in R : \A x \in Owned(d, b) : Alike(d, e, x)
    BY <1>17, <1>18, <1>20 DEF Alike
  <2>7. QED
    BY <1>12, <1>14, <2>1, <2>2, <2>3, <2>4, <2>5, <2>6, Zenon DEF Relays
<1>22. Laid(e, h \cup B, R \cup {to}, l) /\ Found(e, s, to) /\ Spared(d, e, R \ {to})
  BY <1>9, <1>17, <1>21, Relaid
<1>23. Text(e, to) = Text(d, a)
  <2>1. Bodies(e, s) = Bodies(d, c)
    <3>1. Bodies(e, s) = [i \in 1 .. n |-> e[s[i]].body]
      BY <1>11, Zenon DEF Bodies
    <3>2. Bodies(d, c) = [i \in 1 .. n |-> d[c[i]].body]
      BY <1>4, Zenon DEF Bodies
    <3>3. \A i \in 1 .. n : e[s[i]].body = d[c[i]].body
      BY <1>13
    <3>4. QED
      BY <3>1, <3>2, <3>3, Zenon
  <2>2. QED
    BY <1>2, <1>22, <2>1 DEF Found
<1>24. e[to].orig = d[a].orig
  BY <1>2, <1>4, <1>12, <1>13
<1>25. ASSUME Fits(d) PROVE Fits(e)
  <2>1. ASSUME NEW x \in Places PROVE Len(e[x].body) <= Chars
    <3>1. CASE x \in to .. to + n - 1
      <4>1. PICK i \in 1 .. n : to + i - 1 = x
        <5>1. x - to + 1 \in 1 .. n /\ to + (x - to + 1) - 1 = x
          BY <3>1
        <5>2. QED
          BY <5>1
      <4>2. e[x].body = d[c[i]].body /\ c[i] \in Places
        BY <1>4, <1>8, <4>1
      <4>3. QED
        BY <1>25, <4>2 DEF Fits
    <3>2. CASE x \notin to .. to + n - 1
      BY <1>7, <1>25, <3>2 DEF Fits
    <3>3. QED
      BY <3>1, <3>2
  <2>2. QED
    BY <2>1 DEF Fits
<1>26. R \ {to} = R
  BY <1>19
<1>27. CopyMade(d, h, R, l, a, to, n, e)
  BY <1>7, <1>16, <1>22, <1>23, <1>24, <1>25, <1>26, Zenon DEF CopyMade
<1>28. QED
  BY <1>5, <1>27 DEF e

-----------------------------------------------------------------------------
(* A new file. *)

FirstBlock(a) == [stat |-> {"valid"}, orig |-> a, next |-> 0, body |-> <<>>]

FileMade(d, h, R, l, a, e) ==
    /\ Laid(e, h, R \cup {a}, l) /\ Spared(d, e, R)
    /\ Text(e, a) = <<>> /\ e[a] = FirstBlock(a)
    /\ a \in Disk /\ a \notin R
    /\ \A x \in Places : x # a => e[x] = d[x]
    /\ Fits(d) => Fits(e)

LEMMA FileMadeIs ==
  ASSUME NEW d, NEW h, NEW R, NEW l, Laid(d, h, R, l), FreeBlocks(d, h, 1) # <<>>,
         NEW a, a = FreeBlocks(d, h, 1)[1]
  PROVE  FileMade(d, h, R, l, a, [d EXCEPT ![a] = FirstBlock(a)])
<1>1. 1 \in Disk /\ Disk \cap Buf = {}
  BY Bounds
<1>2. IsFree(d, h, 1, a)
  <2>1. Finds(d, h, 1, FreeBlocks(d, h, 1), DiskBlocks + Frames)
    BY FreeIs
  <2>2. 1 \in 1 .. Len(FreeBlocks(d, h, 1))
    BY <2>1 DEF Finds
  <2>3. QED
    BY <2>1, <2>2 DEF Finds
<1>3. a \in Disk /\ a \in Places /\ a \notin l /\ \A b \in R : a \notin Owned(d, b)
  BY <1>1, <1>2, FreeUnowned DEF Zone
<1>4. d \in Memory /\ DOMAIN d = Places
  BY DEF Laid, Memory
<1>5. PICK e : e = [d EXCEPT ![a] = FirstBlock(a)]
  OBVIOUS
<1>6. /\ e[a] = FirstBlock(a) /\ DOMAIN e = Places
      /\ \A x \in Places : x # a => e[x] = d[x]
  BY <1>3, <1>4, <1>5
<1>7. FirstBlock(a) \in Content
  <2>1. a \in Numbers /\ 0 \in Numbers
    BY <1>3, Places1, Bounds DEF Numbers
  <2>2. QED
    BY <2>1 DEF FirstBlock, Content, Status
<1>8. e \in Memory
  BY <1>4, <1>5, <1>7 DEF Memory, Content
<1>9. PICK s : s = <<a>>
  OBVIOUS
<1>10. s \in Seq(Places) /\ Len(s) = 1 /\ s[1] = a /\ DOMAIN s = {1} /\ ToSet(s) = {a}
  BY <1>3, <1>9 DEF ToSet
<1>11. e[a].next = 0 /\ e[a].body = <<>> /\ e[a].stat = {"valid"}
  BY <1>6 DEF FirstBlock
<1>12. Exact(e, s)
  <2>1. \A i \in 1 .. 1 : i = 1
    OBVIOUS
  <2>2. Linked(e, s)
    BY <1>10, <1>11, <2>1 DEF Linked
  <2>3. Len(e[s[1]].body) < Chars
    BY <1>10, <1>11, Bounds
  <2>4. QED
    BY <1>10, <2>1, <2>2, <2>3 DEF Exact
<1>13. a \notin R
  BY <1>3, LaidIs
<1>14. Relays(d, R, e, h, l, a, s)
  <2>1. R \ {a} = R
    BY <1>13
  <2>2. l \subseteq Disk /\ h \subseteq Buf
    BY DEF Laid
  <2>3. ToSet(s) \subseteq Zone(a) /\ ToSet(s) \cap l = {}
    BY <1>3, <1>10 DEF Zone
  <2>4. ASSUME NEW x \in Disk
        PROVE "valid" \in e[x].stat <=> (x \in l \/ x \in ToSet(s) \/ \E b \in R : x \in Owned(d, b))
    <3>1. "valid" \in d[x].stat <=> (x \in l \/ \E b \in R : x \in Owned(d, b))
      BY DEF Laid
    <3>2. CASE x = a
      BY <1>10, <1>11, <3>2
    <3>3. CASE x # a
      <4>1. e[x] = d[x]
        BY <1>6, <3>3 DEF Places
      <4>2. QED
        BY <1>10, <3>1, <3>3, <4>1
    <3>4. QED
      BY <3>2, <3>3
  <2>5. ASSUME NEW x \in Buf
        PROVE x \in h <=> (x \in ToSet(s) \/ \E b \in R : x \in Owned(d, b))
    <3>1. x \in h <=> \E b \in R : x \in Owned(d, b)
      BY DEF Laid
    <3>2. x # a
      BY <1>1, <1>3
    <3>3. QED
      BY <1>10, <3>1, <3>2
  <2>6. ASSUME NEW b \in R
        PROVE  /\ Owned(d, b) \cap ToSet(s) = {} /\ Owned(d, b) \cap l = {}
               /\ \A x \in Owned(d, b) : Alike(d, e, x)
    <3>1. \A x \in Owned(d, b) : x # a /\ x \in Places
      BY <1>3, LaidIs
    <3>2. \A x \in Owned(d, b) : e[x] = d[x]
      BY <1>6, <3>1
    <3>3. QED
      BY <1>10, <3>1, <3>2 DEF Laid, Alike
  <2>7. QED
    BY <1>10, <1>12, <2>1, <2>2, <2>3, <2>4, <2>5, <2>6, Zenon DEF Relays
<1>15. Laid(e, h, R \cup {a}, l) /\ Found(e, s, a) /\ Spared(d, e, R \ {a})
  BY <1>3, <1>8, <1>14, Relaid
<1>16. Text(e, a) = <<>>
  <2>1. Text(e, a) \in Seq(Letters) /\ Needed(Text(e, a)) = 1 /\ Text(e, a) = FlattenSeq(Bodies(e, s))
    BY <1>10, <1>15 DEF Found
  <2>2. FlattenSeq(Bodies(e, s)) = <<>>
    <3>1. Bodies(e, s) = <<<<>>>>
      <4>1. Bodies(e, s) = [i \in {1} |-> e[s[i]].body]
        BY <1>10, Zenon DEF Bodies
      <4>2. \A i \in {1} : e[s[i]].body = <<>>
        BY <1>10, <1>11
      <4>3. Bodies(e, s) = [i \in {1} |-> <<>>]
        BY <4>1, <4>2
      <4>4. <<<<>>>> = [i \in {1} |-> <<>>]
        <5>1. {1} = 1 .. 1
          OBVIOUS
        <5>2. QED
          BY <5>1
      <4>5. QED
        BY <4>3, <4>4
    <3>2. <<>> \in Seq(Letters) /\ Needed(<<>>) = 0 + 1
      <4>1. 0 \div Chars = 0
        BY Bounds
      <4>2. QED
        BY <4>1 DEF Needed
    <3>3. Pieced(Letters, <<>>, 0)
      BY <3>2, PieceIs
    <3>4. Piece(<<>>, 1) = <<>>
      <4>1. Piece(<<>>, 0 + 1) \in Seq(Letters)
        BY <3>3 DEF Pieced
      <4>2. Len(<<>>) = 0 /\ Chars > 0 /\ Chars \in Nat
        BY Bounds
      <4>3. Piece(<<>>, 1) = SubSeq(<<>>, Chars * (1 - 1) + 1, 0)
        BY <4>2 DEF Piece
      <4>4. Chars * (1 - 1) + 1 = 1
        BY <4>2
      <4>5. QED
        BY <4>3, <4>4
    <3>5. <<<<>>>> \in Seq(Seq(Letters)) /\ Len(<<<<>>>>) = 0 + 1
          /\ \A i \in 1 .. 0 + 1 : <<<<>>>>[i] = Piece(<<>>, i)
      BY <3>4
    <3>6. FlattenSeq(<<<<>>>>) = <<>>
      BY <3>2, <3>5, FlattenPieces
    <3>7. QED
      BY <3>1, <3>6
  <2>3. QED
    BY <2>1, <2>2
<1>17. ASSUME Fits(d) PROVE Fits(e)
  <2>1. \A x \in Places : Len(e[x].body) <= Chars
    BY <1>6, <1>11, <1>17, Bounds DEF Fits
  <2>2. QED
    BY <2>1 DEF Fits
<1>18. R \ {a} = R
  BY <1>13
<1>19. FileMade(d, h, R, l, a, e)
  BY <1>3, <1>6, <1>13, <1>15, <1>16, <1>17, <1>18, Zenon DEF FileMade
<1>20. QED
  BY <1>5, <1>19


-----------------------------------------------------------------------------
(* Directories and their tables. *)

Directory == [base : Bases \cup {DiskFile}, parent : Nat, table : Seq(Entry)]

\* What Search finds in a table.
FirstMatch(t, base, ext) ==
    LET hits == {i \in DOMAIN t : Matches(t[i], base, ext)}
    IN  IF hits = {} THEN 0 ELSE CHOOSE i \in hits : \A j \in hits : i <= j

LEMMA SearchIs ==
  ASSUME NEW d, NEW base, NEW ext
  PROVE  Search(d, base, ext) = FirstMatch(dirs[d].table, base, ext)
BY Zenon DEF Search, FirstMatch

IsFirst(t, base, ext, i) ==
    \/ i = 0 /\ \A j \in DOMAIN t : ~ Matches(t[j], base, ext)
    \/ /\ i \in DOMAIN t /\ Matches(t[i], base, ext)
       /\ \A j \in DOMAIN t : Matches(t[j], base, ext) => i <= j

LEMMA FirstIs ==
  ASSUME NEW t \in Seq(Entry), NEW base, NEW ext
  PROVE  IsFirst(t, base, ext, FirstMatch(t, base, ext))
<1> DEFINE hits == {i \in DOMAIN t : Matches(t[i], base, ext)}
<1>1. hits \subseteq Nat
  OBVIOUS
<1>2. CASE hits = {}
  <2>1. FirstMatch(t, base, ext) = 0
    BY <1>2 DEF FirstMatch
  <2>2. QED
    BY <1>2, <2>1 DEF IsFirst
<1>3. CASE hits # {}
  <2>1. \E i \in hits : \A j \in hits : i <= j
    BY <1>1, <1>3, Least
  <2>2. FirstMatch(t, base, ext) = CHOOSE i \in hits : \A j \in hits : i <= j
    BY <1>3 DEF FirstMatch
  <2>3. PICK i : i = FirstMatch(t, base, ext)
    OBVIOUS
  <2>4. i \in hits /\ \A j \in hits : i <= j
    BY <2>1, <2>2, <2>3, Zenon
  <2>5. IsFirst(t, base, ext, i)
    BY <2>4 DEF IsFirst
  <2>6. QED
    BY <2>3, <2>5
<1>4. QED
  BY <1>2, <1>3

LEMMA FirstUnique ==
  ASSUME NEW t \in Seq(Entry), NEW base, NEW ext, NEW i, IsFirst(t, base, ext, i)
  PROVE  FirstMatch(t, base, ext) = i
<1>1. PICK k : k = FirstMatch(t, base, ext)
  OBVIOUS
<1>2. IsFirst(t, base, ext, k)
  BY <1>1, FirstIs
<1>3. \A x \in DOMAIN t : x \in Nat /\ x # 0
  OBVIOUS
<1>4. k = i
  BY <1>2, <1>3 DEF IsFirst
<1>5. QED
  BY <1>1, <1>4

\* Each name that was checked finds its entry.
Named(t) ==
    \A i \in DOMAIN t : (t[i].checked /\ (t[i].kind = "dir" => t[i].ext = NoExt))
                           => FirstMatch(t, t[i].base, t[i].ext) = i

LEMMA NamedAppend ==
  ASSUME NEW t \in Seq(Entry), Named(t), NEW e \in Entry,
         e.checked => FirstMatch(t, e.base, e.ext) = 0
  PROVE  Named(Append(t, e))
<1>1. PICK n \in Nat : n = Len(t)
  OBVIOUS
<1>2. PICK u : u = Append(t, e)
  OBVIOUS
<1>3. /\ u \in Seq(Entry) /\ Len(u) = n + 1 /\ DOMAIN t = 1 .. n /\ DOMAIN u = 1 .. n + 1
      /\ \A i \in 1 .. n : u[i] = t[i]
      /\ u[n + 1] = e
  BY <1>1, <1>2, AppendProperties
<1>4. ASSUME NEW i \in 1 .. n + 1, u[i].checked, u[i].kind = "dir" => u[i].ext = NoExt
      PROVE  FirstMatch(u, u[i].base, u[i].ext) = i
  <2>1. CASE i \in 1 .. n
    <3>1. u[i] = t[i]
      BY <1>3, <2>1
    <3>2. FirstMatch(t, t[i].base, t[i].ext) = i
      BY <1>3, <1>4, <2>1, <3>1 DEF Named
    <3>3. IsFirst(t, t[i].base, t[i].ext, i)
      BY <3>2, FirstIs
    <3>4. /\ Matches(t[i], t[i].base, t[i].ext)
          /\ \A j \in 1 .. n : Matches(t[j], t[i].base, t[i].ext) => i <= j
      BY <1>3, <2>1, <3>3 DEF IsFirst
    <3>5. ASSUME NEW j \in 1 .. n + 1, Matches(u[j], t[i].base, t[i].ext) PROVE i <= j
      <4>1. CASE j \in 1 .. n
        BY <1>3, <3>4, <3>5, <4>1
      <4>2. CASE j \notin 1 .. n
        BY <2>1, <4>2
      <4>3. QED
        BY <4>1, <4>2
    <3>6. IsFirst(u, t[i].base, t[i].ext, i)
      BY <1>3, <3>1, <3>4, <3>5 DEF IsFirst
    <3>7. QED
      BY <1>3, <3>1, <3>6, FirstUnique
  <2>2. CASE i = n + 1
    <3>1. u[i] = e /\ e.checked
      BY <1>3, <1>4, <2>2
    <3>2. FirstMatch(t, e.base, e.ext) = 0
      BY <3>1
    <3>3. IsFirst(t, e.base, e.ext, 0)
      BY <3>2, FirstIs
    <3>4. \A j \in 1 .. n : ~ Matches(t[j], e.base, e.ext)
      <4>1. 0 \notin DOMAIN t
        BY <1>3
      <4>2. QED
        BY <1>3, <3>3, <4>1 DEF IsFirst
    <3>5. Matches(e, e.base, e.ext)
      BY <1>4, <3>1 DEF Matches
    <3>6. ASSUME NEW j \in 1 .. n + 1, Matches(u[j], e.base, e.ext) PROVE i <= j
      <4>1. CASE j \in 1 .. n
        BY <1>3, <3>4, <3>6, <4>1
      <4>2. CASE j \notin 1 .. n
        BY <2>2, <4>2
      <4>3. QED
        BY <4>1, <4>2
    <3>7. IsFirst(u, e.base, e.ext, i)
      BY <1>3, <2>2, <3>1, <3>5, <3>6 DEF IsFirst
    <3>8. QED
      BY <1>3, <3>1, <3>7, FirstUnique
  <2>3. QED
    BY <2>1, <2>2
<1>5. Named(u)
  BY <1>3, <1>4 DEF Named
<1>6. QED
  BY <1>2, <1>5

\* The size of an entry plays no part.
Resized(t, u) ==
    /\ u \in Seq(Entry) /\ Len(u) = Len(t) /\ Named(u)
    /\ \A j \in DOMAIN t : u[j].kind = t[j].kind /\ u[j].base = t[j].base /\ u[j].at = t[j].at
                           /\ u[j].ext = t[j].ext /\ u[j].checked = t[j].checked

LEMMA NamedResize ==
  ASSUME NEW t \in Seq(Entry), Named(t), NEW i \in DOMAIN t, NEW z \in Nat,
         NEW u, u = [t EXCEPT ![i] = [t[i] EXCEPT !.size = z]]
  PROVE  Resized(t, u)
<1>1. PICK n \in Nat : n = Len(t)
  OBVIOUS
<1>2. DOMAIN t = 1 .. n /\ t \in [1 .. n -> Entry]
  BY <1>1
<1>3. PICK e : e = [t[i] EXCEPT !.size = z]
  OBVIOUS
<1>4. /\ e \in Entry /\ e.kind = t[i].kind /\ e.base = t[i].base /\ e.at = t[i].at
      /\ e.ext = t[i].ext /\ e.checked = t[i].checked
  <2>1. t[i] \in Entry
    BY <1>2
  <2>2. QED
    BY <1>3, <2>1 DEF Entry
<1>5. u \in [1 .. n -> Entry] /\ u[i] = e /\ \A j \in 1 .. n : j # i => u[j] = t[j]
  BY <1>2, <1>3, <1>4
<1>6. u \in Seq(Entry) /\ Len(u) = n /\ DOMAIN u = 1 .. n
  BY <1>5
<1>7. \A j \in 1 .. n : u[j].kind = t[j].kind /\ u[j].base = t[j].base /\ u[j].at = t[j].at
                        /\ u[j].ext = t[j].ext /\ u[j].checked = t[j].checked
  BY <1>4, <1>5
<1>8. ASSUME NEW j \in 1 .. n, u[j].checked, u[j].kind = "dir" => u[j].ext = NoExt
      PROVE  FirstMatch(u, u[j].base, u[j].ext) = j
  <2>1. PICK b, x : b = t[j].base /\ x = t[j].ext
    OBVIOUS
  <2>2. \A k \in 1 .. n : Matches(u[k], b, x) <=> Matches(t[k], b, x)
    BY <1>7 DEF Matches
  <2>3. FirstMatch(t, b, x) = j
    BY <1>2, <1>7, <1>8, <2>1 DEF Named
  <2>4. IsFirst(t, b, x, j)
    BY <2>3, FirstIs
  <2>5. IsFirst(u, b, x, j)
    BY <1>2, <1>6, <2>2, <2>4 DEF IsFirst
  <2>6. FirstMatch(u, b, x) = j
    BY <1>6, <2>5, FirstUnique
  <2>7. u[j].base = b /\ u[j].ext = x
    BY <1>7, <2>1
  <2>8. QED
    BY <2>6, <2>7
<1>9. Named(u)
  BY <1>6, <1>8 DEF Named
<1>10. Len(u) = Len(t) /\ DOMAIN t = 1 .. n
  BY <1>1, <1>2, <1>6
<1>11. QED
  BY <1>6, <1>7, <1>9, <1>10, Zenon DEF Resized

\* An entry leads to what it names: a file to its first block, a directory to
\* the one with the same name.
Leads(D, H, e) ==
    /\ e.kind = "file" => e.at \in H
    /\ e.kind = "dir" => e.checked /\ e.at \in DOMAIN D /\ D[e.at].base = e.base

\* The directories D, when the files start with the blocks H.
Tables(D, H) ==
    /\ D \in Seq(Directory) /\ 1 \in DOMAIN D
    /\ \A d \in DOMAIN D : /\ D[d].parent \in 0 .. d - 1 /\ (D[d].parent = 0 <=> d = 1)
                           /\ Len(D[d].table) <= MaxFinfo
                           /\ Named(D[d].table)
                           /\ \A i \in DOMAIN D[d].table : Leads(D, H, D[d].table[i])

\* The first n of the m directories are the old ones, with their tables or new ones.
Changed(D, G, E, n, m) ==
    /\ E \in Seq(Directory)
    /\ \A x \in 1 .. n : E[x].base = D[x].base /\ E[x].parent = D[x].parent
    /\ \A x \in 1 .. m : x > n => E[x].parent \in 1 .. x - 1
    /\ \A x \in 1 .. m :
          \/ x \in 1 .. n /\ E[x].table = D[x].table
          \/ /\ Len(E[x].table) <= MaxFinfo /\ Named(E[x].table)
             /\ \A i \in DOMAIN E[x].table : Leads(E, G, E[x].table[i])

LEMMA TablesChange ==
  ASSUME NEW D, NEW H, Tables(D, H), NEW G, H \subseteq G, NEW E,
         NEW n \in Nat, n = Len(D), NEW m \in Nat, m = Len(E), n <= m,
         Changed(D, G, E, n, m)
  PROVE  Tables(E, G)
<1>1. n > 0
  <2>1. D \in Seq(Directory) /\ 1 \in DOMAIN D
    BY DEF Tables
  <2>2. QED
    BY <2>1
<1>2. /\ E \in Seq(Directory)
      /\ \A x \in 1 .. n : E[x].base = D[x].base /\ E[x].parent = D[x].parent
      /\ \A x \in 1 .. m : x > n => E[x].parent \in 1 .. x - 1
      /\ \A x \in 1 .. m :
            \/ x \in 1 .. n /\ E[x].table = D[x].table
            \/ /\ Len(E[x].table) <= MaxFinfo /\ Named(E[x].table)
               /\ \A i \in DOMAIN E[x].table : Leads(E, G, E[x].table[i])
  BY Zenon DEF Changed
<1>3. DOMAIN D = 1 .. n /\ DOMAIN E = 1 .. m /\ 1 \in 1 .. m
  <2>1. D \in Seq(Directory) /\ E \in Seq(Directory)
    BY <1>2 DEF Tables
  <2>2. QED
    BY <1>1, <2>1
<1>4. ASSUME NEW e, Leads(D, H, e) PROVE Leads(E, G, e)
  <2>1. \A x \in 1 .. n : x \in 1 .. m /\ E[x].base = D[x].base
    <3>1. \A x \in 1 .. n : x \in 1 .. m
      BY <1>1
    <3>2. QED
      BY <1>2, <3>1
  <2>2. QED
    BY <1>2, <1>3, <1>4, <2>1 DEF Leads
<1>5. ASSUME NEW x \in 1 .. m
      PROVE  E[x].parent \in 0 .. x - 1 /\ (E[x].parent = 0 <=> x = 1)
  <2>1. CASE x \in 1 .. n
    <3>1. D[x].parent \in 0 .. x - 1 /\ (D[x].parent = 0 <=> x = 1)
      BY <1>3, <2>1 DEF Tables
    <3>2. E[x].parent = D[x].parent
      BY <1>2, <2>1
    <3>3. QED
      BY <3>1, <3>2
  <2>2. CASE x \notin 1 .. n
    <3>1. x > n /\ x # 1
      BY <1>1, <2>2
    <3>2. E[x].parent \in 1 .. x - 1
      BY <1>1, <1>2, <3>1
    <3>3. QED
      BY <3>1, <3>2
  <2>3. QED
    BY <2>1, <2>2
<1>6. ASSUME NEW x \in 1 .. m
      PROVE  /\ Len(E[x].table) <= MaxFinfo /\ Named(E[x].table)
             /\ \A i \in DOMAIN E[x].table : Leads(E, G, E[x].table[i])
  <2>1. CASE x \in 1 .. n /\ E[x].table = D[x].table
    <3>1. /\ Len(D[x].table) <= MaxFinfo /\ Named(D[x].table)
          /\ \A i \in DOMAIN D[x].table : Leads(D, H, D[x].table[i])
      BY <1>3, <2>1 DEF Tables
    <3>2. QED
      BY <1>4, <2>1, <3>1
  <2>2. CASE ~ (x \in 1 .. n /\ E[x].table = D[x].table)
    BY <1>1, <1>2, <2>2
  <2>3. QED
    BY <2>1, <2>2
<1>7. QED
  BY <1>2, <1>3, <1>5, <1>6, Zenon DEF Tables

LEMMA TablesAre ==
  ASSUME NEW D, NEW H, Tables(D, H), NEW d \in DOMAIN D
  PROVE  /\ D \in Seq(Directory) /\ Len(D) \in Nat /\ DOMAIN D = 1 .. Len(D)
         /\ 1 \in DOMAIN D /\ d \in 1 .. Len(D)
         /\ D[d] \in Directory /\ D[d].table \in Seq(Entry) /\ D[d].base \in Bases \cup {DiskFile}
         /\ Len(D[d].table) \in Nat /\ Len(D[d].table) <= MaxFinfo
         /\ DOMAIN D[d].table = 1 .. Len(D[d].table)
         /\ \A i \in DOMAIN D[d].table : D[d].table[i] \in Entry
         /\ Named(D[d].table)
<1>1. D \in Seq(Directory) /\ 1 \in DOMAIN D /\ Len(D[d].table) <= MaxFinfo /\ Named(D[d].table)
  BY DEF Tables
<1>2. Len(D) \in Nat /\ DOMAIN D = 1 .. Len(D) /\ D[d] \in Directory
  BY <1>1
<1>3. D[d].table \in Seq(Entry) /\ D[d].base \in Bases \cup {DiskFile}
  BY <1>2 DEF Directory
<1>4. /\ Len(D[d].table) \in Nat /\ DOMAIN D[d].table = 1 .. Len(D[d].table)
      /\ \A i \in DOMAIN D[d].table : D[d].table[i] \in Entry
  BY <1>3
<1>5. QED
  BY <1>1, <1>2, <1>3, <1>4


\* A directory gets the table t.
TablePut(D, d, t, E) ==
    /\ E \in Seq(Directory) /\ Len(E) = Len(D) /\ E[d].table = t
    /\ \A x \in 1 .. Len(D) : E[x].base = D[x].base /\ E[x].parent = D[x].parent
    /\ \A x \in 1 .. Len(D) : x # d => E[x] = D[x]

LEMMA TablePutIs ==
  ASSUME NEW D \in Seq(Directory), NEW d \in 1 .. Len(D), NEW t \in Seq(Entry),
         NEW E, E = [D EXCEPT ![d].table = t]
  PROVE  TablePut(D, d, t, E)
<1>1. PICK n \in Nat : n = Len(D)
  OBVIOUS
<1>2. PICK o \in Directory : o = [D[d] EXCEPT !.table = t]
  <2>1. D[d] \in Directory
    OBVIOUS
  <2>2. [D[d] EXCEPT !.table = t] \in Directory
    BY <2>1 DEF Directory
  <2>3. QED
    BY <2>2
<1>3. o.table = t /\ o.base = D[d].base /\ o.parent = D[d].parent
  <2>1. D[d] \in Directory
    OBVIOUS
  <2>2. QED
    BY <1>2, <2>1 DEF Directory
<1>5. E = [D EXCEPT ![d] = o]
  BY <1>2, Zenon
<1>6. D \in [1 .. n -> Directory]
  BY <1>1
<1>7. E \in [1 .. n -> Directory] /\ E[d] = o /\ \A x \in 1 .. n : x # d => E[x] = D[x]
  BY <1>1, <1>5, <1>6
<1>8. E \in Seq(Directory) /\ Len(E) = n
  BY <1>7
<1>9. \A x \in 1 .. n : E[x].base = D[x].base /\ E[x].parent = D[x].parent
  BY <1>3, <1>7
<1>10. QED
  BY <1>1, <1>3, <1>7, <1>8, <1>9 DEF TablePut

IsAppended(S, s, x, t, n) ==
    /\ t \in Seq(S) /\ Len(t) = n + 1 /\ DOMAIN t = 1 .. n + 1
    /\ \A i \in 1 .. n : t[i] = s[i]
    /\ t[n + 1] = x

LEMMA Appended ==
  ASSUME NEW S, NEW s \in Seq(S), NEW x \in S, NEW t, t = Append(s, x), NEW n \in Nat, n = Len(s)
  PROVE  IsAppended(S, s, x, t, n)
BY AppendProperties DEF IsAppended

\* After the directories D come E, which are k more.
Follows(D, E, H, k) == Tables(E, H) /\ Len(E) = Len(D) + k

\* A directory that is made.
LEMMA DirectoryMade ==
  ASSUME NEW D, NEW H, Tables(D, H), NEW d \in DOMAIN D, NEW base \in Bases, NEW ext \in Exts,
         FirstMatch(D[d].table, base, ext) = 0, Len(D[d].table) # MaxFinfo,
         NEW e, e = [kind |-> "dir", base |-> base, ext |-> ext, at |-> Len(D) + 1,
                     size |-> 0, checked |-> TRUE],
         NEW new, new = [base |-> base, parent |-> d, table |-> <<>>],
         NEW E, E = Append([D EXCEPT ![d].table = Append(@, e)], new)
  PROVE  Follows(D, E, H, 1)
<1>1. PICK n \in Nat : n = Len(D)
  BY TablesAre
<1>2. PICK t \in Seq(Entry) : t = D[d].table
  BY TablesAre
<1>3. /\ D \in Seq(Directory) /\ DOMAIN D = 1 .. n /\ d \in 1 .. n
      /\ Len(t) \in Nat /\ Len(t) <= MaxFinfo /\ DOMAIN t = 1 .. Len(t)
      /\ Named(t) /\ \A i \in DOMAIN t : Leads(D, H, t[i])
  <2>1. \A i \in DOMAIN D[d].table : Leads(D, H, D[d].table[i])
    BY DEF Tables
  <2>2. QED
    BY <1>1, <1>2, <2>1, TablesAre
<1>4. e \in Entry
  BY <1>1 DEF Entry
<1>5. PICK u : u = Append(t, e)
  OBVIOUS
<1>6. /\ u \in Seq(Entry) /\ Len(u) = Len(t) + 1 /\ DOMAIN u = 1 .. Len(t) + 1
      /\ \A i \in 1 .. Len(t) : u[i] = t[i]
      /\ u[Len(t) + 1] = e
  BY <1>4, <1>5, AppendProperties
<1>7. Named(u)
  BY <1>2, <1>3, <1>4, <1>5, NamedAppend
<1>8. PICK F : F = [D EXCEPT ![d].table = u]
  OBVIOUS
<1>9. TablePut(D, d, u, F)
  BY <1>1, <1>3, <1>6, <1>8, TablePutIs
<1>10. E = Append(F, new)
  BY <1>2, <1>5, <1>8, Zenon
<1>11. /\ F \in Seq(Directory) /\ Len(F) = n /\ F[d].table = u
       /\ \A x \in 1 .. n : F[x].base = D[x].base /\ F[x].parent = D[x].parent
       /\ \A x \in 1 .. n : x # d => F[x] = D[x]
  BY <1>1, <1>9 DEF TablePut
<1>12. new \in Directory /\ new.base = base /\ new.parent = d /\ new.table = <<>>
  <2>1. d \in Nat
    BY <1>3
  <2>2. QED
    BY <2>1 DEF Directory
<1>13. /\ E \in Seq(Directory) /\ Len(E) = n + 1 /\ DOMAIN E = 1 .. n + 1
       /\ \A x \in 1 .. n : E[x] = F[x]
       /\ E[n + 1] = new
  <2>1. F \in Seq(Directory) /\ Len(F) = n /\ new \in Directory
    BY <1>11, <1>12
  <2>2. IsAppended(Directory, F, new, E, n)
    BY <1>10, <2>1, Appended, Zenon
  <2>3. QED
    BY <2>2, Zenon DEF IsAppended
<1>14. \A x \in 1 .. n : E[x].base = D[x].base /\ E[x].parent = D[x].parent
  BY <1>11, <1>13
<1>15. ASSUME NEW x \in 1 .. n + 1, x > n PROVE E[x].parent \in 1 .. x - 1
  <2>1. x = n + 1
    BY <1>15
  <2>2. E[x].parent = d
    BY <1>12, <1>13, <2>1
  <2>3. QED
    BY <1>3, <2>1, <2>2
<1>16. ASSUME NEW i \in DOMAIN u PROVE Leads(E, H, u[i])
  <2>1. CASE i = Len(t) + 1
    <3>1. u[i] = e
      BY <1>6, <2>1
    <3>2. e.kind = "dir" /\ e.at = n + 1 /\ e.checked /\ e.base = base
      BY <1>1
    <3>3. n + 1 \in DOMAIN E /\ E[n + 1].base = base
      BY <1>12, <1>13
    <3>4. QED
      BY <3>1, <3>2, <3>3 DEF Leads
  <2>2. CASE i # Len(t) + 1
    <3>1. i \in 1 .. Len(t)
      BY <1>3, <1>6, <2>2
    <3>2. u[i] = t[i] /\ Leads(D, H, t[i])
      BY <1>3, <1>6, <3>1
    <3>3. \A x \in 1 .. n : x \in 1 .. n + 1
      OBVIOUS
    <3>4. QED
      BY <1>3, <1>13, <1>14, <3>2, <3>3 DEF Leads
  <2>3. QED
    BY <2>1, <2>2
<1>17. ASSUME NEW x \in 1 .. n + 1
       PROVE  \/ x \in 1 .. n /\ E[x].table = D[x].table
              \/ /\ Len(E[x].table) <= MaxFinfo /\ Named(E[x].table)
                 /\ \A i \in DOMAIN E[x].table : Leads(E, H, E[x].table[i])
  <2>1. CASE x = n + 1
    <3>1. E[x].table = <<>>
      BY <1>12, <1>13, <2>1
    <3>2. Len(<<>>) <= MaxFinfo /\ DOMAIN <<>> = {}
      BY Bounds
    <3>3. Named(<<>>)
      BY <3>2 DEF Named
    <3>4. QED
      BY <3>1, <3>2, <3>3
  <2>2. CASE x = d
    <3>1. E[x].table = u
      BY <1>3, <1>11, <1>13, <2>2
    <3>2. Len(u) <= MaxFinfo
      BY <1>2, <1>3, <1>6, Bounds
    <3>3. QED
      BY <1>7, <1>16, <3>1, <3>2
  <2>3. CASE x # n + 1 /\ x # d
    <3>1. x \in 1 .. n
      BY <2>3
    <3>2. E[x] = D[x]
      BY <1>11, <1>13, <2>3, <3>1
    <3>3. QED
      BY <3>1, <3>2
  <2>4. QED
    BY <2>1, <2>2, <2>3
<1>18. n <= n + 1 /\ H \subseteq H
  OBVIOUS
<1>19. Tables(E, H)
  <2>1. Changed(D, H, E, n, n + 1)
    BY <1>13, <1>14, <1>15, <1>17, Zenon DEF Changed
  <2>2. n + 1 \in Nat /\ n + 1 = Len(E)
    BY <1>13
  <2>3. QED
    BY <1>1, <1>18, <2>1, <2>2, TablesChange, Zenon
<1>20. QED
  BY <1>1, <1>13, <1>19 DEF Follows

\* An entry that is added.
LEMMA EntryAdded ==
  ASSUME NEW D, NEW H, Tables(D, H), NEW d \in DOMAIN D, NEW G, H \subseteq G,
         NEW e \in Entry, e.kind = "file", e.at \in G,
         e.checked => FirstMatch(D[d].table, e.base, e.ext) = 0, Len(D[d].table) # MaxFinfo,
         NEW E, E = [D EXCEPT ![d].table = Append(@, e)]
  PROVE  Follows(D, E, G, 0)
<1>1. PICK n \in Nat : n = Len(D)
  BY TablesAre
<1>2. PICK t \in Seq(Entry) : t = D[d].table
  BY TablesAre
<1>3. /\ D \in Seq(Directory) /\ DOMAIN D = 1 .. n /\ d \in 1 .. n
      /\ Len(t) \in Nat /\ Len(t) <= MaxFinfo /\ DOMAIN t = 1 .. Len(t)
      /\ Named(t) /\ \A i \in DOMAIN t : Leads(D, H, t[i])
  <2>1. \A i \in DOMAIN D[d].table : Leads(D, H, D[d].table[i])
    BY DEF Tables
  <2>2. QED
    BY <1>1, <1>2, <2>1, TablesAre
<1>4. PICK u : u = Append(t, e)
  OBVIOUS
<1>5. /\ u \in Seq(Entry) /\ Len(u) = Len(t) + 1 /\ DOMAIN u = 1 .. Len(t) + 1
      /\ \A i \in 1 .. Len(t) : u[i] = t[i]
      /\ u[Len(t) + 1] = e
  BY <1>4, AppendProperties
<1>6. Named(u)
  BY <1>2, <1>3, <1>4, NamedAppend
<1>7. E = [D EXCEPT ![d].table = u]
  BY <1>2, <1>4, Zenon
<1>8. TablePut(D, d, u, E)
  <2>1. D \in Seq(Directory) /\ d \in 1 .. Len(D) /\ u \in Seq(Entry)
    BY <1>1, <1>3, <1>5
  <2>2. QED
    BY <1>7, <2>1, TablePutIs, Zenon
<1>9. /\ E \in Seq(Directory) /\ Len(E) = n /\ E[d].table = u /\ DOMAIN E = 1 .. n
      /\ \A x \in 1 .. n : E[x].base = D[x].base /\ E[x].parent = D[x].parent
      /\ \A x \in 1 .. n : x # d => E[x] = D[x]
  BY <1>1, <1>8 DEF TablePut
<1>10. ASSUME NEW i \in DOMAIN u PROVE Leads(E, G, u[i])
  <2>1. CASE i = Len(t) + 1
    BY <1>5, <2>1 DEF Leads
  <2>2. CASE i # Len(t) + 1
    <3>1. i \in 1 .. Len(t)
      BY <1>3, <1>5, <2>2
    <3>2. u[i] = t[i] /\ Leads(D, H, t[i])
      BY <1>3, <1>5, <3>1
    <3>3. QED
      BY <1>3, <1>9, <3>2 DEF Leads
  <2>3. QED
    BY <2>1, <2>2
<1>11. ASSUME NEW x \in 1 .. n
       PROVE  \/ x \in 1 .. n /\ E[x].table = D[x].table
              \/ /\ Len(E[x].table) <= MaxFinfo /\ Named(E[x].table)
                 /\ \A i \in DOMAIN E[x].table : Leads(E, G, E[x].table[i])
  <2>1. CASE x = d
    <3>1. Len(u) <= MaxFinfo
      BY <1>2, <1>3, <1>5, Bounds
    <3>2. QED
      BY <1>6, <1>9, <1>10, <2>1, <3>1
  <2>2. CASE x # d
    BY <1>9, <2>2
  <2>3. QED
    BY <2>1, <2>2
<1>12. n <= n /\ \A x \in 1 .. n : ~ (x > n)
  OBVIOUS
<1>13. Tables(E, G)
  <2>1. \A x \in 1 .. n : x > n => E[x].parent \in 1 .. x - 1
    BY <1>12
  <2>2. Changed(D, G, E, n, n)
    BY <1>9, <1>11, <2>1, Zenon DEF Changed
  <2>3. n = Len(E)
    BY <1>9
  <2>4. QED
    BY <1>1, <1>12, <2>2, <2>3, TablesChange, Zenon
<1>14. QED
  BY <1>1, <1>9, <1>13 DEF Follows

\* The table of the root when it is forgotten.
LEMMA RootForgotten ==
  ASSUME NEW D, NEW H, Tables(D, H), NEW E, E = [D EXCEPT ![1].table = RootTable]
  PROVE  Follows(D, E, H, 0)
<1>1. PICK n \in Nat : n = Len(D)
  <2>1. D \in Seq(Directory)
    BY DEF Tables
  <2>2. QED
    BY <2>1
<1>2. D \in Seq(Directory) /\ DOMAIN D = 1 .. n /\ 1 \in 1 .. n
  <2>1. D \in Seq(Directory) /\ 1 \in DOMAIN D
    BY DEF Tables
  <2>2. QED
    BY <1>1, <2>1
<1>3. PICK e : e = [kind |-> "disk", base |-> DiskFile, ext |-> NoExt, at |-> 0, size |-> 0, checked |-> TRUE]
  OBVIOUS
<1>4. e \in Entry /\ e.kind = "disk" /\ e.base = DiskFile /\ e.ext = NoExt
  BY <1>3, FilesAssumption DEF Entry
<1>5. RootTable \in Seq(Entry) /\ Len(RootTable) = 1 /\ RootTable[1] = e /\ DOMAIN RootTable = 1 .. 1
  BY <1>3, <1>4 DEF RootTable
<1>6. Named(RootTable)
  <2>1. \A i \in 1 .. 1 : i = 1
    OBVIOUS
  <2>2. Matches(e, e.base, e.ext)
    BY <1>4 DEF Matches
  <2>3. IsFirst(RootTable, e.base, e.ext, 1)
    BY <1>5, <2>1, <2>2 DEF IsFirst
  <2>4. FirstMatch(RootTable, e.base, e.ext) = 1
    BY <1>5, <2>3, FirstUnique
  <2>5. QED
    BY <1>5, <2>1, <2>4 DEF Named
<1>7. TablePut(D, 1, RootTable, E)
  BY <1>1, <1>2, <1>5, TablePutIs
<1>8. /\ E \in Seq(Directory) /\ Len(E) = n /\ E[1].table = RootTable
      /\ \A x \in 1 .. n : E[x].base = D[x].base /\ E[x].parent = D[x].parent
      /\ \A x \in 1 .. n : x # 1 => E[x] = D[x]
  BY <1>1, <1>7 DEF TablePut
<1>9. ASSUME NEW x \in 1 .. n
      PROVE  \/ x \in 1 .. n /\ E[x].table = D[x].table
             \/ /\ Len(E[x].table) <= MaxFinfo /\ Named(E[x].table)
                /\ \A i \in DOMAIN E[x].table : Leads(E, H, E[x].table[i])
  <2>1. CASE x = 1
    <3>1. \A i \in 1 .. 1 : i = 1
      OBVIOUS
    <3>2. Leads(E, H, e)
      BY <1>4 DEF Leads
    <3>3. 1 <= MaxFinfo
      BY Bounds
    <3>4. QED
      BY <1>5, <1>6, <1>8, <2>1, <3>1, <3>2, <3>3
  <2>2. CASE x # 1
    BY <1>8, <2>2
  <2>3. QED
    BY <2>1, <2>2
<1>10. n <= n /\ H \subseteq H /\ \A x \in 1 .. n : ~ (x > n)
  OBVIOUS
<1>11. Tables(E, H)
  <2>1. \A x \in 1 .. n : x > n => E[x].parent \in 1 .. x - 1
    BY <1>10
  <2>2. Changed(D, H, E, n, n)
    BY <1>8, <1>9, <2>1, Zenon DEF Changed
  <2>3. n = Len(E)
    BY <1>8
  <2>4. QED
    BY <1>1, <1>10, <2>2, <2>3, TablesChange, Zenon
<1>12. QED
  BY <1>1, <1>8, <1>11 DEF Follows

\* The size in an entry is set.
LEMMA EntryResized ==
  ASSUME NEW D, NEW H, Tables(D, H), NEW d \in DOMAIN D, NEW i \in DOMAIN D[d].table,
         NEW z \in Nat, NEW E, E = [D EXCEPT ![d].table[i].size = z]
  PROVE  Follows(D, E, H, 0)
<1>1. PICK n \in Nat : n = Len(D)
  BY TablesAre
<1>2. PICK t \in Seq(Entry) : t = D[d].table
  BY TablesAre
<1>3. /\ D \in Seq(Directory) /\ DOMAIN D = 1 .. n /\ d \in 1 .. n
      /\ Len(t) \in Nat /\ Len(t) <= MaxFinfo
      /\ Named(t) /\ \A j \in DOMAIN t : Leads(D, H, t[j])
  <2>1. \A j \in DOMAIN D[d].table : Leads(D, H, D[d].table[j])
    BY DEF Tables
  <2>2. QED
    BY <1>1, <1>2, <2>1, TablesAre
<1>4. PICK u : u = [t EXCEPT ![i] = [t[i] EXCEPT !.size = z]]
  OBVIOUS
<1>5. /\ u \in Seq(Entry) /\ Len(u) = Len(t) /\ Named(u)
      /\ \A j \in DOMAIN t : u[j].kind = t[j].kind /\ u[j].base = t[j].base /\ u[j].at = t[j].at
                             /\ u[j].ext = t[j].ext /\ u[j].checked = t[j].checked
  <2>1. t \in Seq(Entry) /\ i \in DOMAIN t /\ Named(t)
    BY <1>2, <1>3
  <2>2. Resized(t, u)
    BY <1>4, <2>1, NamedResize, Zenon
  <2>3. QED
    BY <2>2, Zenon DEF Resized
<1>6. E = [D EXCEPT ![d].table = u]
  BY <1>2, <1>4, Zenon
<1>7. TablePut(D, d, u, E)
  <2>1. D \in Seq(Directory) /\ d \in 1 .. Len(D) /\ u \in Seq(Entry)
    BY <1>1, <1>3, <1>5
  <2>2. QED
    BY <1>6, <2>1, TablePutIs, Zenon
<1>8. /\ E \in Seq(Directory) /\ Len(E) = n /\ E[d].table = u /\ DOMAIN E = 1 .. n
      /\ \A x \in 1 .. n : E[x].base = D[x].base /\ E[x].parent = D[x].parent
      /\ \A x \in 1 .. n : x # d => E[x] = D[x]
  BY <1>1, <1>7 DEF TablePut
<1>9. DOMAIN u = DOMAIN t
  BY <1>5
<1>10. ASSUME NEW j \in DOMAIN u PROVE Leads(E, H, u[j])
  <2>1. Leads(D, H, t[j]) /\ u[j].kind = t[j].kind /\ u[j].base = t[j].base /\ u[j].at = t[j].at
        /\ u[j].checked = t[j].checked
    BY <1>3, <1>5, <1>9
  <2>2. QED
    BY <1>3, <1>8, <2>1 DEF Leads
<1>11. ASSUME NEW x \in 1 .. n
       PROVE  \/ x \in 1 .. n /\ E[x].table = D[x].table
              \/ /\ Len(E[x].table) <= MaxFinfo /\ Named(E[x].table)
                 /\ \A j \in DOMAIN E[x].table : Leads(E, H, E[x].table[j])
  <2>1. CASE x = d
    BY <1>3, <1>5, <1>8, <1>10, <2>1
  <2>2. CASE x # d
    BY <1>8, <2>2
  <2>3. QED
    BY <2>1, <2>2
<1>12. n <= n /\ H \subseteq H /\ \A x \in 1 .. n : ~ (x > n)
  OBVIOUS
<1>13. Tables(E, H)
  <2>1. \A x \in 1 .. n : x > n => E[x].parent \in 1 .. x - 1
    BY <1>12
  <2>2. Changed(D, H, E, n, n)
    BY <1>8, <1>11, <2>1, Zenon DEF Changed
  <2>3. n = Len(E)
    BY <1>8
  <2>4. QED
    BY <1>1, <1>12, <2>2, <2>3, TablesChange, Zenon
<1>14. QED
  BY <1>1, <1>8, <1>13 DEF Follows


-----------------------------------------------------------------------------
(* Paths. *)

Stops == {-1, 0} \cup DOMAIN dirs

LEMMA EnterIs ==
  ASSUME NEW H, Tables(dirs, H), NEW d \in Stops, NEW part
  PROVE  Enter(d, part) \in Stops
<1>1. dirs \in Seq(Directory) /\ DOMAIN dirs = 1 .. Len(dirs) /\ Len(dirs) \in Nat
  <2>1. dirs \in Seq(Directory)
    BY DEF Tables
  <2>2. QED
    BY <2>1
<1>2. -1 \in Stops /\ 0 \in Stops /\ DOMAIN dirs \subseteq Stops
  BY DEF Stops
<1>3. CASE d <= 0
  BY <1>2, <1>3 DEF Enter
<1>4. CASE ~ (d <= 0)
  <2>1. d \in DOMAIN dirs /\ d \in 1 .. Len(dirs)
    BY <1>1, <1>4 DEF Stops
  <2>2. CASE part = ".."
    <3>1. dirs[d].parent \in 0 .. d - 1
      BY <2>1 DEF Tables
    <3>2. dirs[d].parent # 0 => dirs[d].parent \in DOMAIN dirs
      BY <1>1, <2>1, <3>1
    <3>3. Enter(d, part) = IF dirs[d].parent = 0 THEN -1 ELSE dirs[d].parent
      BY <1>4, <2>2 DEF Enter
    <3>4. QED
      BY <1>2, <3>2, <3>3
  <2>3. CASE part # ".."
    <3>1. PICK i : i = Search(d, part, NoExt)
      OBVIOUS
    <3>2. Enter(d, part) = IF i = 0 THEN -1
                           ELSE IF dirs[d].table[i].kind = "dir" THEN dirs[d].table[i].at ELSE 0
      BY <1>4, <2>3, <3>1 DEF Enter
    <3>3. ASSUME i # 0 PROVE i \in DOMAIN dirs[d].table
      <4>1. dirs[d].table \in Seq(Entry)
        BY <2>1, TablesAre
      <4>2. IsFirst(dirs[d].table, part, NoExt, i)
        BY <3>1, <4>1, FirstIs, SearchIs
      <4>3. QED
        BY <3>3, <4>2 DEF IsFirst
    <3>4. ASSUME i # 0, dirs[d].table[i].kind = "dir" PROVE dirs[d].table[i].at \in DOMAIN dirs
      <4>1. Leads(dirs, H, dirs[d].table[i])
        BY <2>1, <3>3, <3>4 DEF Tables
      <4>2. QED
        BY <3>4, <4>1 DEF Leads
    <3>5. QED
      BY <1>2, <3>2, <3>4
  <2>4. QED
    BY <2>2, <2>3
<1>5. QED
  BY <1>3, <1>4

\* Where the parts of a path lead, one after the other.
Walk(f, start, parts, n) ==
    /\ f \in [0 .. n -> Stops] /\ f[0] = start
    /\ \A k \in 1 .. n : f[k] = Enter(f[k - 1], parts[k])
    /\ Parse(start, parts) = f[n]

Onward(start, parts, f, k) == IF k = 0 THEN start ELSE Enter(f[k - 1], parts[k])

LEMMA WalkExists ==
  ASSUME NEW H, Tables(dirs, H), NEW start \in Stops, NEW parts, NEW n \in Nat, n = Len(parts)
  PROVE  \E f : Walk(f, start, parts, n)
<1> DEFINE G == [p \in Stops \X Nat |-> Enter(p[1], parts[p[2]])]
<1>1. G \in [Stops \X Nat -> Stops]
  <2>1. ASSUME NEW p \in Stops \X Nat PROVE Enter(p[1], parts[p[2]]) \in Stops
    <3>1. p[1] \in Stops
      OBVIOUS
    <3>2. QED
      BY <3>1, EnterIs
  <2>2. QED
    BY <2>1
<1>2. ASSUME NEW v \in Stops, NEW k \in Nat PROVE G[<<v, k>>] = Enter(v, parts[k])
  <2>1. <<v, k>> \in Stops \X Nat /\ <<v, k>>[1] = v /\ <<v, k>>[2] = k
    OBVIOUS
  <2>2. G[<<v, k>>] = Enter(<<v, k>>[1], parts[<<v, k>>[2]])
    BY <2>1, Zenon
  <2>3. QED
    BY <2>1, <2>2, Zenon
<1> HIDE DEF G
<1>3. PICK f : Recurs(f, Stops, start, G, n)
  BY <1>1, Recursion, Zenon
<1>4. /\ f \in [0 .. n -> Stops] /\ f[0] = start
      /\ \A k \in 1 .. n : f[k] = G[<<f[k - 1], k>>]
  BY <1>3, Zenon DEF Recurs
<1>5. ASSUME NEW k \in 1 .. n PROVE f[k] = Enter(f[k - 1], parts[k])
  <2>1. k \in Nat /\ k - 1 \in 0 .. n
    OBVIOUS
  <2>2. f[k - 1] \in Stops
    BY <1>4, <2>1
  <2>3. QED
    BY <1>2, <1>4, <2>1, <2>2, Zenon
<1>6. ASSUME NEW k \in 0 .. n PROVE f[k] = Onward(start, parts, f, k)
  <2>1. CASE k = 0
    BY <1>4, <2>1 DEF Onward
  <2>2. CASE k # 0
    <3>1. k \in 1 .. n
      BY <2>2
    <3>2. QED
      BY <1>5, <2>2, <3>1 DEF Onward
  <2>3. QED
    BY <2>1, <2>2
<1>7. f = [k \in 0 .. n |-> Onward(start, parts, f, k)]
  <2>1. f = [k \in 0 .. n |-> f[k]]
    BY <1>4
  <2>2. QED
    BY <1>6, <2>1, Zenon
<1> DEFINE P(g) == g = [k \in 0 .. Len(parts) |-> Onward(start, parts, g, k)]
           go == CHOOSE g : P(g)
<1>8. P(go)
  <2>1. P(f)
    BY <1>7, Zenon
  <2>2. QED
    BY <2>1, Zenon
<1>9. Parse(start, parts) = go[Len(parts)]
  BY Zenon DEF Parse, Onward
<1> HIDE DEF go
<1>10. \A k \in 0 .. n : go[k] = Onward(start, parts, go, k)
  BY <1>8, Zenon
<1> HIDE DEF P
<1>11. PICK T : T = {k \in Nat : k <= n => go[k] = f[k]}
  OBVIOUS
<1>12. 0 \in T
  <2>1. 0 \in 0 .. n /\ 0 \in Nat
    OBVIOUS
  <2>2. go[0] = start
    BY <1>10, <2>1 DEF Onward
  <2>3. QED
    BY <1>4, <1>11, <2>1, <2>2
<1>13. ASSUME NEW k \in T PROVE k + 1 \in T
  <2>1. k \in Nat /\ (k <= n => go[k] = f[k]) /\ k + 1 \in Nat
    BY <1>11
  <2>2. SUFFICES ASSUME k + 1 <= n PROVE go[k + 1] = f[k + 1]
    BY <1>11, <2>1
  <2>3. k + 1 \in 0 .. n /\ k + 1 # 0 /\ (k + 1) - 1 = k /\ k <= n /\ k + 1 \in 1 .. n
    BY <2>1, <2>2
  <2>4. go[k + 1] = Enter(go[(k + 1) - 1], parts[k + 1])
    BY <1>10, <2>3, Zenon DEF Onward
  <2>5. f[k + 1] = Enter(f[(k + 1) - 1], parts[k + 1])
    BY <1>5, <2>3, Zenon
  <2>6. go[(k + 1) - 1] = f[(k + 1) - 1]
    BY <2>1, <2>3
  <2>7. QED
    BY <2>4, <2>5, <2>6, Zenon
<1>14. \A k \in Nat : k \in T
  BY <1>11, <1>12, <1>13, AllNumbers
<1>15. go[n] = f[n]
  BY <1>11, <1>14
<1>16. Walk(f, start, parts, n)
  BY <1>4, <1>5, <1>9, <1>15, Zenon DEF Walk
<1>17. QED
  BY <1>16

\* The way up from a directory to the root.
Above(d, f, k) == IF k = 0 THEN d ELSE IF f[k - 1] <= 1 THEN 1 ELSE dirs[f[k - 1]].parent

WayUp(d, f, depth) ==
    /\ f \in [0 .. Len(dirs) -> DOMAIN dirs] /\ f[0] = d /\ f[depth] = 1
    /\ depth \in 0 .. Len(dirs)
    /\ \A k \in 1 .. depth : f[k] = dirs[f[k - 1]].parent
    /\ Ancestry(d) = [i \in 1 .. depth |-> f[depth - i]]

LEMMA WayUpExists ==
  ASSUME NEW H, Tables(dirs, H), NEW d \in DOMAIN dirs
  PROVE  \E f, depth : WayUp(d, f, depth)
<1>1. PICK n \in Nat : n = Len(dirs) /\ DOMAIN dirs = 1 .. n /\ 1 \in DOMAIN dirs /\ d \in 1 .. n
  BY TablesAre
<1> DEFINE G == [p \in (DOMAIN dirs) \X Nat |-> IF p[1] <= 1 THEN 1 ELSE dirs[p[1]].parent]
<1>2. ASSUME NEW v \in DOMAIN dirs, ~ (v <= 1)
      PROVE  dirs[v].parent \in DOMAIN dirs /\ dirs[v].parent < v
  <2>1. dirs[v].parent \in 0 .. v - 1 /\ (dirs[v].parent = 0 <=> v = 1)
    BY DEF Tables
  <2>2. v \in 1 .. n
    BY <1>1
  <2>3. dirs[v].parent \in 1 .. n /\ dirs[v].parent < v
    BY <1>2, <2>1, <2>2
  <2>4. QED
    BY <1>1, <2>3
<1>3. G \in [(DOMAIN dirs) \X Nat -> DOMAIN dirs]
  <2>1. ASSUME NEW p \in (DOMAIN dirs) \X Nat
        PROVE  (IF p[1] <= 1 THEN 1 ELSE dirs[p[1]].parent) \in DOMAIN dirs
    <3>1. p[1] \in DOMAIN dirs
      OBVIOUS
    <3>2. QED
      BY <1>1, <1>2, <3>1
  <2>2. QED
    BY <2>1
<1>4. ASSUME NEW v \in DOMAIN dirs, NEW k \in Nat
      PROVE  G[<<v, k>>] = IF v <= 1 THEN 1 ELSE dirs[v].parent
  <2>1. <<v, k>> \in (DOMAIN dirs) \X Nat /\ <<v, k>>[1] = v
    OBVIOUS
  <2>2. G[<<v, k>>] = IF <<v, k>>[1] <= 1 THEN 1 ELSE dirs[<<v, k>>[1]].parent
    BY <2>1, Zenon
  <2>3. QED
    BY <2>1, <2>2, Zenon
<1> HIDE DEF G
<1>5. PICK f : Recurs(f, DOMAIN dirs, d, G, n)
  BY <1>3, Recursion, Zenon
<1>6. /\ f \in [0 .. n -> DOMAIN dirs] /\ f[0] = d
      /\ \A k \in 1 .. n : f[k] = G[<<f[k - 1], k>>]
  BY <1>5, Zenon DEF Recurs
<1>7. ASSUME NEW k \in 0 .. n PROVE f[k] = Above(d, f, k)
  <2>1. CASE k = 0
    BY <1>6, <2>1 DEF Above
  <2>2. CASE k # 0
    <3>1. k \in 1 .. n /\ k \in Nat /\ k - 1 \in 0 .. n
      BY <2>2
    <3>2. f[k - 1] \in DOMAIN dirs
      BY <1>6, <3>1
    <3>3. QED
      <4>1. f[k] = G[<<f[k - 1], k>>]
        BY <1>6, <3>1
      <4>2. f[k] = IF f[k - 1] <= 1 THEN 1 ELSE dirs[f[k - 1]].parent
        BY <1>4, <3>1, <3>2, <4>1
      <4>3. QED
        BY <2>2, <4>2, Zenon DEF Above
  <2>3. QED
    BY <2>1, <2>2
<1>8. f = [k \in 0 .. n |-> Above(d, f, k)]
  <2>1. f = [k \in 0 .. n |-> f[k]]
    BY <1>6
  <2>2. QED
    BY <1>7, <2>1, Zenon
<1> DEFINE P(g) == g = [k \in 0 .. Len(dirs) |-> Above(d, g, k)]
           up == CHOOSE g : P(g)
           Depth == CHOOSE k \in 0 .. Len(dirs) : up[k] = 1 /\ \A j \in 0 .. k - 1 : up[j] # 1
<1>9. P(up)
  <2>1. P(f)
    BY <1>1, <1>8, Zenon
  <2>2. QED
    BY <2>1, Zenon
<1>10. Ancestry(d) = [i \in 1 .. Depth |-> up[Depth - i]]
  BY Zenon DEF Ancestry, Above
<1> HIDE DEF up
<1>11. \A k \in 0 .. n : up[k] = Above(d, up, k)
  BY <1>1, <1>9, Zenon
<1>12. up = [k \in 0 .. n |-> up[k]]
  BY <1>1, <1>9, Zenon
<1> HIDE DEF P
<1>13. PICK T : T = {k \in Nat : k <= n => up[k] = f[k] /\ (f[k] = 1 \/ f[k] + k <= d)}
  OBVIOUS
<1>14. 0 \in T
  <2>1. 0 \in 0 .. n /\ 0 \in Nat
    OBVIOUS
  <2>2. up[0] = d
    BY <1>11, <2>1 DEF Above
  <2>3. d + 0 <= d
    BY <1>1
  <2>4. QED
    BY <1>6, <1>13, <2>1, <2>2, <2>3
<1>15. ASSUME NEW k \in T PROVE k + 1 \in T
  <2>1. k \in Nat /\ (k <= n => up[k] = f[k] /\ (f[k] = 1 \/ f[k] + k <= d)) /\ k + 1 \in Nat
    BY <1>13
  <2>2. SUFFICES ASSUME k + 1 <= n
                 PROVE  up[k + 1] = f[k + 1] /\ (f[k + 1] = 1 \/ f[k + 1] + (k + 1) <= d)
    BY <1>13, <2>1
  <2>3. k + 1 \in 0 .. n /\ k + 1 # 0 /\ (k + 1) - 1 = k /\ k <= n /\ k \in 0 .. n
    BY <2>1, <2>2
  <2>4. up[k + 1] = IF up[k] <= 1 THEN 1 ELSE dirs[up[k]].parent
    <3>1. up[k + 1] = IF up[(k + 1) - 1] <= 1 THEN 1 ELSE dirs[up[(k + 1) - 1]].parent
      BY <1>11, <2>3, Zenon DEF Above
    <3>2. QED
      BY <2>3, <3>1, Zenon
  <2>5. f[k + 1] = IF f[k] <= 1 THEN 1 ELSE dirs[f[k]].parent
    <3>1. f[k + 1] = IF f[(k + 1) - 1] <= 1 THEN 1 ELSE dirs[f[(k + 1) - 1]].parent
      BY <1>7, <2>3, Zenon DEF Above
    <3>2. QED
      BY <2>3, <3>1, Zenon
  <2>6. up[k] = f[k] /\ (f[k] = 1 \/ f[k] + k <= d)
    BY <2>1, <2>3
  <2>7. up[k + 1] = f[k + 1]
    BY <2>4, <2>5, <2>6
  <2>8. PICK v \in DOMAIN dirs : v = f[k]
    BY <1>6, <2>3
  <2>9. v \in 1 .. n /\ d \in 1 .. n
    BY <1>1, <2>8
  <2>10. CASE v <= 1
    BY <2>5, <2>7, <2>8, <2>10
  <2>11. CASE ~ (v <= 1)
    <3>1. f[k + 1] = dirs[v].parent
      BY <2>5, <2>8, <2>11
    <3>2. PICK w \in 1 .. n : w = dirs[v].parent /\ w < v
      BY <1>1, <1>2, <2>11
    <3>3. v + k <= d
      BY <2>6, <2>8, <2>9, <2>11
    <3>4. w + (k + 1) <= d
      BY <2>1, <2>9, <3>2, <3>3
    <3>5. QED
      BY <2>7, <3>1, <3>2, <3>4
  <2>12. QED
    BY <2>10, <2>11
<1>16. \A k \in Nat : k \in T
  BY <1>13, <1>14, <1>15, AllNumbers
<1>17. ASSUME NEW k \in 0 .. n PROVE up[k] = f[k] /\ (f[k] = 1 \/ f[k] + k <= d)
  BY <1>13, <1>16
<1>18. f[n] = 1
  <2>1. PICK v \in 1 .. n : v = f[n]
    BY <1>1, <1>6
  <2>2. n \in 0 .. n
    OBVIOUS
  <2>3. v = 1 \/ v + n <= d
    BY <1>17, <2>1, <2>2
  <2>4. QED
    BY <1>1, <2>1, <2>3
<1>19. PICK S : S = {k \in Nat : k <= n /\ up[k] = 1}
  OBVIOUS
<1>20. n \in S
  BY <1>17, <1>18, <1>19
<1>21. S \in SUBSET Nat /\ S # {}
  BY <1>19, <1>20
<1>22. PICK m \in S : \A k \in S : m <= k
  BY <1>21, Least
<1>23. m \in 0 .. n /\ up[m] = 1 /\ \A j \in 0 .. m - 1 : up[j] # 1
  BY <1>19, <1>22
<1>24. Depth \in 0 .. n /\ up[Depth] = 1 /\ \A j \in 0 .. Depth - 1 : up[j] # 1
  <2>1. \E k \in 0 .. Len(dirs) : up[k] = 1 /\ \A j \in 0 .. k - 1 : up[j] # 1
    BY <1>1, <1>23
  <2>2. Depth \in 0 .. Len(dirs) /\ up[Depth] = 1 /\ \A j \in 0 .. Depth - 1 : up[j] # 1
    BY <2>1, Zenon
  <2>3. QED
    BY <1>1, <2>2
<1> HIDE DEF Depth
<1>25. PICK depth : depth = Depth
  OBVIOUS
<1>26. depth \in 0 .. n /\ f[depth] = 1 /\ \A j \in 0 .. depth - 1 : f[j] # 1
  <2>1. depth \in 0 .. n /\ up[depth] = 1 /\ \A j \in 0 .. depth - 1 : up[j] # 1
    BY <1>24, <1>25
  <2>2. \A j \in 0 .. depth - 1 : j \in 0 .. n
    BY <2>1
  <2>3. QED
    BY <1>17, <2>1, <2>2
<1>27. ASSUME NEW k \in 1 .. depth PROVE f[k] = dirs[f[k - 1]].parent
  <2>1. k \in 0 .. n /\ k # 0 /\ k - 1 \in 0 .. n /\ k - 1 \in 0 .. depth - 1
    BY <1>26
  <2>2. f[k] = IF f[k - 1] <= 1 THEN 1 ELSE dirs[f[k - 1]].parent
    BY <1>7, <2>1, Zenon DEF Above
  <2>3. PICK v \in 1 .. n : v = f[k - 1]
    BY <1>1, <1>6, <2>1
  <2>4. v # 1
    BY <1>26, <2>1, <2>3
  <2>5. ~ (v <= 1)
    BY <2>4
  <2>6. QED
    BY <2>2, <2>3, <2>5
<1>28. Ancestry(d) = [i \in 1 .. depth |-> f[depth - i]]
  <2>1. Ancestry(d) = [i \in 1 .. depth |-> up[depth - i]]
    BY <1>10, <1>25, Zenon
  <2>2. ASSUME NEW i \in 1 .. depth PROVE up[depth - i] = f[depth - i]
    <3>1. depth - i \in 0 .. n
      BY <1>26
    <3>2. QED
      BY <1>17, <3>1
  <2>3. QED
    BY <2>1, <2>2, Zenon
<1>29. WayUp(d, f, depth)
  BY <1>1, <1>6, <1>26, <1>27, <1>28, Zenon DEF WayUp
<1>30. QED
  BY <1>29


\* Each directory of the path is found by its name in the one above it.
LEMMA PathFound ==
  ASSUME NEW H, Tables(dirs, H), NEW d \in DOMAIN dirs,
         \A e \in ToSet(Ancestry(d)) :
            /\ Shown(e) # Garbage
            /\ \E x \in Listing(dirs[e].parent) : x.kind = "dir" /\ x.at = e /\ x.ext = NoExt
  PROVE  Parse(1, PathOf(d)) = d
<1>1. PICK n \in Nat : n = Len(dirs) /\ DOMAIN dirs = 1 .. n /\ 1 \in DOMAIN dirs
  BY TablesAre
<1>2. PICK up, m : WayUp(d, up, m)
  BY WayUpExists
<1>3. /\ up \in [0 .. n -> DOMAIN dirs] /\ up[0] = d /\ up[m] = 1 /\ m \in 0 .. n
      /\ \A k \in 1 .. m : up[k] = dirs[up[k - 1]].parent
      /\ Ancestry(d) = [i \in 1 .. m |-> up[m - i]]
  BY <1>1, <1>2, Zenon DEF WayUp
<1>4. m \in Nat
  BY <1>3
<1>5. PICK a : a = Ancestry(d)
  OBVIOUS
<1>6. a \in Seq(DOMAIN dirs) /\ Len(a) = m /\ DOMAIN a = 1 .. m /\ \A i \in 1 .. m : a[i] = up[m - i]
  <2>1. ASSUME NEW i \in 1 .. m PROVE up[m - i] \in DOMAIN dirs
    <3>1. m - i \in 0 .. n
      BY <1>3
    <3>2. QED
      BY <1>3, <3>1
  <2>2. a = [i \in 1 .. m |-> up[m - i]]
    BY <1>3, <1>5
  <2>3. a \in [1 .. m -> DOMAIN dirs]
    BY <2>1, <2>2
  <2>4. a \in Seq(DOMAIN dirs) /\ Len(a) = m /\ DOMAIN a = 1 .. m
    BY <1>4, <2>3
  <2>5. QED
    BY <2>2, <2>4
<1>7. PICK p : p = PathOf(d)
  OBVIOUS
<1>8. Len(p) = m /\ \A i \in 1 .. m : p[i] = Shown(a[i])
  <2>1. p = [i \in DOMAIN a |-> Shown(a[i])]
    BY <1>5, <1>7, Zenon DEF PathOf
  <2>2. p = [i \in 1 .. m |-> Shown(a[i])]
    BY <1>6, <2>1, Zenon
  <2>3. Len(p) = m
    BY <1>4, <2>2
  <2>4. QED
    BY <2>2, <2>3
<1>9. 1 \in Stops
  BY <1>1 DEF Stops
<1>10. PICK go : Walk(go, 1, p, m)
  BY <1>4, <1>8, <1>9, WalkExists
<1>11. /\ go[0] = 1 /\ \A k \in 1 .. m : go[k] = Enter(go[k - 1], p[k])
       /\ Parse(1, p) = go[m]
  BY <1>10, Zenon DEF Walk
<1>12. ASSUME NEW k \in Nat, k + 1 <= m, go[k] = up[m - k]
       PROVE  go[k + 1] = up[m - (k + 1)]
  <2>1. k + 1 \in 1 .. m /\ (k + 1) - 1 = k /\ m - (k + 1) \in 0 .. n /\ m - k \in 1 .. m
        /\ (m - k) - 1 = m - (k + 1)
    BY <1>3, <1>4, <1>12
  <2>2. PICK e \in DOMAIN dirs : e = up[m - (k + 1)]
    BY <1>3, <2>1
  <2>3. a[k + 1] = e
    BY <1>6, <2>1, <2>2
  <2>4. e \in ToSet(Ancestry(d))
    BY <1>5, <1>6, <2>1, <2>3, ToSetIs
  <2>5. PICK q : q = dirs[e].parent
    OBVIOUS
  <2>6. go[k] = q
    <3>1. up[m - k] = dirs[up[(m - k) - 1]].parent
      BY <1>3, <2>1
    <3>2. QED
      BY <1>12, <2>1, <2>2, <2>5, <3>1
  <2>7. q \in DOMAIN dirs /\ q > 0
    <3>1. m - k \in 0 .. n
      BY <1>3, <2>1
    <3>2. up[m - k] \in DOMAIN dirs
      BY <1>3, <3>1
    <3>3. QED
      BY <1>1, <1>12, <2>6, <3>2
  <2>8. Shown(e) # Garbage
    BY <2>4
  <2>9. PICK x \in Listing(q) : x.kind = "dir" /\ x.at = e /\ x.ext = NoExt
    BY <2>4, <2>5
  <2>10. PICK t \in Seq(Entry) : t = dirs[q].table
    BY <2>7, TablesAre
  <2>11. PICK i \in 1 .. Len(t) : x = t[i]
    BY <2>9, <2>10, ToSetIs DEF Listing
  <2>12. DOMAIN t = 1 .. Len(t) /\ Named(t) /\ Leads(dirs, H, x)
    <3>1. i \in DOMAIN t
      BY <2>10
    <3>2. Leads(dirs, H, t[i])
      BY <2>7, <2>10, <3>1 DEF Tables
    <3>3. QED
      BY <2>7, <2>10, <2>11, <3>2, TablesAre
  <2>13. x.checked /\ dirs[e].base = x.base
    BY <2>9, <2>12 DEF Leads
  <2>14. FirstMatch(t, x.base, NoExt) = i
    BY <2>9, <2>11, <2>12, <2>13 DEF Named
  <2>15. Shown(e) = x.base
    BY <2>8, <2>13 DEF Shown
  <2>16. x.base # ".."
    <3>1. x.base \in Bases \cup {DiskFile}
      BY <2>13, TablesAre
    <3>2. QED
      BY <3>1, FilesAssumption
  <2>17. Search(q, Shown(e), NoExt) = i
    BY <2>10, <2>14, <2>15, SearchIs
  <2>18. Enter(q, Shown(e)) = e
    <3>1. ~ (q <= 0) /\ i # 0
      BY <1>1, <2>7
    <3>2. Shown(e) # ".."
      BY <2>15, <2>16
    <3>3. dirs[q].table[i] = x
      BY <2>10, <2>11
    <3>4. Enter(q, Shown(e)) = IF dirs[q].table[i].kind = "dir" THEN dirs[q].table[i].at ELSE 0
      BY <2>17, <3>1, <3>2, Zenon DEF Enter
    <3>5. QED
      BY <2>9, <3>3, <3>4
  <2>19. p[k + 1] = Shown(e)
    BY <1>8, <2>1, <2>3
  <2>20. go[k + 1] = Enter(go[k], p[k + 1])
    BY <1>11, <2>1
  <2>21. QED
    BY <2>2, <2>6, <2>18, <2>19, <2>20
<1>13. PICK T : T = {k \in Nat : k <= m => go[k] = up[m - k]}
  OBVIOUS
<1>14. 0 \in T
  BY <1>3, <1>4, <1>11, <1>13
<1>15. ASSUME NEW k \in T PROVE k + 1 \in T
  <2>1. k \in Nat /\ (k <= m => go[k] = up[m - k]) /\ k + 1 \in Nat
    BY <1>13
  <2>2. k + 1 <= m => k <= m
    BY <1>4, <2>1
  <2>3. k + 1 <= m => go[k + 1] = up[m - (k + 1)]
    BY <1>12, <2>1, <2>2
  <2>4. QED
    BY <1>13, <2>1, <2>3
<1>16. \A k \in Nat : k \in T
  BY <1>13, <1>14, <1>15, AllNumbers
<1>17. go[m] = up[m - m]
  BY <1>4, <1>13, <1>16
<1>18. m - m = 0
  BY <1>4
<1>19. Parse(1, p) = d
  BY <1>3, <1>11, <1>17, <1>18
<1>20. QED
  BY <1>7, <1>19


-----------------------------------------------------------------------------
(* What holds of the files: blocks d and held h, lost blocks l, the copy s, the *)
(* first blocks H of the files, their texts saved sv, and the copy's text ty.   *)

TopsOf(H, s) == H \cup ({s} \ {0})

FilesStand(d, h, l, s, H, sv, ty) ==
    /\ Laid(d, h, TopsOf(H, s), l) /\ Fits(d)
    /\ H \subseteq Disk /\ DOMAIN sv = H /\ s \in Buf \cup {0}
    /\ \A a \in H : d[a].orig = a
    /\ s # 0 => d[s].orig \in H
    /\ \A a \in H : "opened" \in d[a].stat <=> (s # 0 /\ a = d[s].orig)
    /\ \A a \in H : Text(d, a) = sv[a]
    /\ s # 0 => Text(d, s) = ty

LEMMA TopsIs ==
  ASSUME NEW d, NEW h, NEW l, NEW s, NEW H, NEW sv, NEW ty, FilesStand(d, h, l, s, H, sv, ty)
  PROVE  /\ H \subseteq TopsOf(H, s) /\ s \notin H
         /\ s # 0 => s \in TopsOf(H, s) /\ s \in Buf /\ s \notin Disk
         /\ s # 0 => TopsOf(H, s) = H \cup {s}
         /\ s = 0 => TopsOf(H, s) = H
<1>1. H \subseteq Disk /\ s \in Buf \cup {0}
  BY DEF FilesStand
<1>2. Disk \cap Buf = {} /\ 0 \notin Disk
  BY Bounds DEF Disk
<1>3. QED
  BY <1>1, <1>2 DEF TopsOf

FilesMade(e, h, l, s, G, v, ty, a) == FilesStand(e, h, l, s, G, v, ty) /\ a \in Disk

LEMMA MkfileKeeps ==
  ASSUME NEW d, NEW h, NEW l, NEW s, NEW H, NEW sv, NEW ty, FilesStand(d, h, l, s, H, sv, ty),
         FreeBlocks(d, h, 1) # <<>>, NEW a, a = FreeBlocks(d, h, 1)[1],
         NEW e, e = [d EXCEPT ![a] = FirstBlock(a)], NEW v, v = With(sv, a, <<>>),
         NEW G, G = H \cup {a}
  PROVE  FilesMade(e, h, l, s, G, v, ty, a)
<1>1. PICK R : R = TopsOf(H, s)
  OBVIOUS
<1>2. /\ Laid(d, h, R, l) /\ Fits(d)
      /\ H \subseteq Disk /\ DOMAIN sv = H /\ s \in Buf \cup {0}
      /\ \A x \in H : d[x].orig = x
      /\ s # 0 => d[s].orig \in H
      /\ \A x \in H : "opened" \in d[x].stat <=> (s # 0 /\ x = d[s].orig)
      /\ \A x \in H : Text(d, x) = sv[x]
      /\ s # 0 => Text(d, s) = ty
  BY <1>1, Zenon DEF FilesStand
<1>3. FileMade(d, h, R, l, a, e)
  BY <1>2, FileMadeIs, Zenon
<1>4. /\ Laid(e, h, R \cup {a}, l) /\ Spared(d, e, R)
      /\ Text(e, a) = <<>> /\ e[a] = FirstBlock(a)
      /\ a \in Disk /\ a \notin R
      /\ \A x \in Places : x # a => e[x] = d[x]
      /\ Fits(e)
  BY <1>2, <1>3, Zenon DEF FileMade
<1>5. H \subseteq R /\ (s # 0 => s \in R) /\ R \subseteq Places
  BY <1>1, <1>2, TopsIs DEF Laid
<1>6. R \cup {a} = TopsOf(H \cup {a}, s)
  BY <1>1 DEF TopsOf
<1>7. e[a].orig = a /\ "opened" \notin e[a].stat
  BY <1>4 DEF FirstBlock
<1>8. \A x \in R : e[x] = d[x] /\ Text(e, x) = Text(d, x)
  BY <1>4, <1>5 DEF Spared
<1>9. DOMAIN v = H \cup {a} /\ v[a] = <<>> /\ \A x \in H : v[x] = sv[x]
  <2>1. v = [x \in {a} \cup H |-> IF x = a THEN <<>> ELSE sv[x]]
    BY <1>2, Zenon DEF With
  <2>2. a \notin H
    BY <1>4, <1>5
  <2>3. QED
    BY <2>1, <2>2
<1>10. H \cup {a} \subseteq Disk
  BY <1>2, <1>4
<1>11. \A x \in H \cup {a} : e[x].orig = x
  BY <1>2, <1>5, <1>7, <1>8
<1>12. s # 0 => e[s].orig \in H /\ e[s].orig = d[s].orig
  BY <1>2, <1>5, <1>8
<1>13. ASSUME NEW x \in H \cup {a} PROVE "opened" \in e[x].stat <=> (s # 0 /\ x = e[s].orig)
  <2>1. CASE x = a
    <3>1. s # 0 => a # e[s].orig
      BY <1>4, <1>5, <1>12
    <3>2. QED
      BY <1>7, <2>1, <3>1
  <2>2. CASE x # a
    <3>1. x \in H /\ e[x] = d[x]
      BY <1>5, <1>8, <2>2
    <3>2. QED
      BY <1>2, <1>12, <3>1
  <2>3. QED
    BY <2>1, <2>2
<1>14. \A x \in H \cup {a} : Text(e, x) = v[x]
  <2>1. \A x \in H : Text(e, x) = v[x]
    BY <1>2, <1>5, <1>8, <1>9
  <2>2. QED
    BY <1>4, <1>9, <2>1
<1>15. s # 0 => Text(e, s) = ty
  BY <1>2, <1>5, <1>8
<1>16. s # 0 => e[s].orig \in H \cup {a}
  BY <1>12
<1>17. FilesStand(e, h, l, s, H \cup {a}, v, ty)
  BY <1>2, <1>4, <1>6, <1>9, <1>10, <1>11, <1>13, <1>14, <1>15, <1>16, Zenon DEF FilesStand
<1>18. QED
  BY <1>4, <1>17 DEF FilesMade

FilesSaved(e, h, k, s, H, v, ty, a) == FilesStand(e, h, k, s, H, v, ty) /\ SizeOf(e, a) \in Nat

LEMMA SaveKeeps ==
  ASSUME NEW d, NEW h, NEW l, NEW s, NEW H, NEW sv, NEW ty, FilesStand(d, h, l, s, H, sv, ty),
         s # 0, NEW a, a = d[s].orig, NEW text, text = Text(d, s), Room(d, h, a, text),
         NEW e, e = Written(d, h, a, text), NEW tail, tail = CutOff(d, a, text),
         NEW k, k = (IF tail = <<>> THEN l ELSE l \cup {Last(tail)}),
         NEW v, v = [sv EXCEPT ![a] = text]
  PROVE  FilesSaved(e, h, k, s, H, v, ty, a)
<1>1. PICK R : R = TopsOf(H, s)
  OBVIOUS
<1>2. /\ Laid(d, h, R, l) /\ Fits(d)
      /\ H \subseteq Disk /\ DOMAIN sv = H /\ s \in Buf \cup {0}
      /\ \A x \in H : d[x].orig = x
      /\ s # 0 => d[s].orig \in H
      /\ \A x \in H : "opened" \in d[x].stat <=> (s # 0 /\ x = d[s].orig)
      /\ \A x \in H : Text(d, x) = sv[x]
      /\ s # 0 => Text(d, s) = ty
  BY <1>1, Zenon DEF FilesStand
<1>3. H \subseteq R /\ s \in R /\ s \notin H /\ a \in H /\ a \in R /\ a \in Disk
  BY <1>1, <1>2, TopsIs
<1>4. text \in Seq(Letters)
  BY <1>2, <1>3, LaidIs DEF Found
<1>5. /\ Laid(e, h, R, k)
      /\ Text(e, a) = text /\ SizeOf(e, a) \in Nat
      /\ Spared(d, e, R \ {a}) /\ SameHeads(d, e, R)
  <2>1. FileKept(d, R, a, text, h, k, e)
    BY <1>2, <1>3, <1>4, FileWritten, Zenon
  <2>2. QED
    BY <2>1, Zenon DEF FileKept
<1>6. Fits(e)
  BY <1>2, <1>3, <1>4, WrittenFits
<1>7. \A x \in R : e[x].orig = d[x].orig /\ ("opened" \in e[x].stat <=> "opened" \in d[x].stat)
  BY <1>5 DEF SameHeads
<1>8. \A x \in R : x # a => Text(e, x) = Text(d, x)
  BY <1>5 DEF Spared
<1>9. DOMAIN v = H /\ v[a] = text /\ \A x \in H : x # a => v[x] = sv[x]
  BY <1>2, <1>3
<1>10. \A x \in H : e[x].orig = x
  BY <1>2, <1>3, <1>7
<1>11. e[s].orig = d[s].orig
  BY <1>3, <1>7
<1>12. \A x \in H : "opened" \in e[x].stat <=> (s # 0 /\ x = e[s].orig)
  BY <1>2, <1>3, <1>7, <1>11
<1>13. \A x \in H : Text(e, x) = v[x]
  BY <1>2, <1>3, <1>5, <1>8, <1>9
<1>14. Text(e, s) = ty
  BY <1>2, <1>3, <1>8
<1>15. e[s].orig \in H
  BY <1>2, <1>11
<1>16. FilesStand(e, h, k, s, H, v, ty)
  BY <1>1, <1>2, <1>5, <1>6, <1>9, <1>10, <1>12, <1>13, <1>14, <1>15, Zenon DEF FilesStand
<1>17. QED
  BY <1>5, <1>16 DEF FilesSaved

LEMMA EditKeeps ==
  ASSUME NEW d, NEW h, NEW l, NEW s, NEW H, NEW sv, NEW ty, FilesStand(d, h, l, s, H, sv, ty),
         s # 0, NEW text \in Seq(Letters), Room(d, h, s, text),
         NEW e, e = Written(d, h, s, text), NEW g, g = HeldAfter(d, h, s, text)
  PROVE  FilesStand(e, g, l, s, H, sv, text)
<1>1. PICK R : R = TopsOf(H, s)
  OBVIOUS
<1>2. /\ Laid(d, h, R, l) /\ Fits(d)
      /\ H \subseteq Disk /\ DOMAIN sv = H /\ s \in Buf \cup {0}
      /\ \A x \in H : d[x].orig = x
      /\ s # 0 => d[s].orig \in H
      /\ \A x \in H : "opened" \in d[x].stat <=> (s # 0 /\ x = d[s].orig)
      /\ \A x \in H : Text(d, x) = sv[x]
  BY <1>1, Zenon DEF FilesStand
<1>3. H \subseteq R /\ s \in R /\ s \notin H /\ s \notin Disk
  BY <1>1, TopsIs
<1>4. /\ Laid(e, g, R, l)
      /\ Text(e, s) = text
      /\ Spared(d, e, R \ {s}) /\ SameHeads(d, e, R)
  BY <1>2, <1>3, CopyWritten
<1>5. Fits(e)
  BY <1>2, <1>3, WrittenFits
<1>6. \A x \in R : e[x].orig = d[x].orig /\ ("opened" \in e[x].stat <=> "opened" \in d[x].stat)
  BY <1>4 DEF SameHeads
<1>7. \A x \in R : x # s => Text(e, x) = Text(d, x)
  BY <1>4 DEF Spared
<1>8. \A x \in H : e[x].orig = x
  BY <1>2, <1>3, <1>6
<1>9. e[s].orig = d[s].orig /\ e[s].orig \in H
  BY <1>2, <1>3, <1>6
<1>10. \A x \in H : "opened" \in e[x].stat <=> (s # 0 /\ x = e[s].orig)
  BY <1>2, <1>3, <1>6, <1>9
<1>11. \A x \in H : Text(e, x) = sv[x]
  BY <1>2, <1>3, <1>7
<1>12. QED
  BY <1>1, <1>2, <1>4, <1>5, <1>8, <1>9, <1>10, <1>11, Zenon DEF FilesStand


\* The file is marked and copied, and the copy marked.
LEMMA OpenKeeps ==
  ASSUME NEW d, NEW h, NEW l, NEW H, NEW sv, NEW ty, FilesStand(d, h, l, 0, H, sv, ty),
         NEW a \in H, NEW n, n = BlockNum(d, a),
         NEW to, to \in Buf, to + n - 1 \in Buf, h \cap to .. to + n - 1 = {},
         NEW m, m = WithStatus(d, a, "opened"),
         NEW e, e = WithStatus(Copied(m, a, to), to, "buf"),
         NEW g, g = h \cup to .. to + n - 1, NEW t, t = Text(d, a)
  PROVE  FilesStand(e, g, l, to, H, sv, t)
<1>1. TopsOf(H, 0) = H
  BY DEF TopsOf
<1>2. /\ Laid(d, h, H, l) /\ Fits(d)
      /\ H \subseteq Disk /\ DOMAIN sv = H
      /\ \A x \in H : d[x].orig = x
      /\ \A x \in H : "opened" \notin d[x].stat
      /\ \A x \in H : Text(d, x) = sv[x]
  BY <1>1 DEF FilesStand
<1>3. StatusAdded(d, a, "opened", m)
  BY <1>2, WithStatusIs, Zenon
<1>4. /\ m \in Memory /\ Marks(d, m)
      /\ "opened" \in m[a].stat
      /\ \A x \in Places : x \notin Owned(d, a) => m[x] = d[x]
  BY <1>2, <1>3 DEF StatusAdded
<1>5. /\ Laid(m, h, H, l) /\ Spared(d, m, H) /\ \A b \in H : Owned(m, b) = Owned(d, b)
      /\ Fits(m)
  BY <1>2, <1>4, MarksKeep
<1>6. H \subseteq Places /\ a \in Places /\ DOMAIN d = Places
  BY <1>2 DEF Laid, Memory
<1>7. n \in Nat /\ n = BlockNum(m, a)
  <2>1. Found(d, Chain(d, a), a) /\ Found(m, Chain(m, a), a) /\ Linked(d, Chain(d, a))
    BY <1>2, <1>5, LaidIs
  <2>2. Chain(m, a) = Chain(d, a)
    BY <1>5 DEF Spared
  <2>3. BlockNum(d, a) = Len(Chain(d, a)) /\ BlockNum(m, a) = Len(Chain(m, a))
    BY <2>1 DEF Found
  <2>4. Len(Chain(d, a)) \in Nat
    BY <2>1 DEF Linked
  <2>5. QED
    BY <2>2, <2>3, <2>4
<1>8. to \in Nat /\ to .. to + n - 1 \subseteq Buf \ h /\ to \notin Disk /\ to # 0 /\ to \in Places
  <2>1. DiskBlocks \in Nat /\ Frames \in Nat /\ Disk \cap Buf = {}
    BY Bounds
  <2>2. to \in Nat /\ to # 0
    BY <2>1 DEF Buf
  <2>3. to .. to + n - 1 \subseteq Buf
    BY <1>7, <2>1, <2>2 DEF Buf
  <2>4. QED
    BY <2>1, <2>2, <2>3 DEF Places
<1>9. PICK o : o = Copied(m, a, to)
  OBVIOUS
<1>10. CopyMade(m, h, H, l, a, to, n, o) /\ to \in to .. to + n - 1
  BY <1>5, <1>7, <1>8, <1>9, CopiedIs, Zenon
<1>11. /\ Laid(o, g, H \cup {to}, l)
       /\ Text(o, to) = Text(m, a) /\ Spared(m, o, H)
       /\ o[to].orig = m[a].orig
       /\ \A x \in Places : x \notin to .. to + n - 1 => o[x] = m[x]
       /\ Fits(o)
  BY <1>5, <1>10, Zenon DEF CopyMade
<1>12. StatusAdded(o, to, "buf", e)
  <2>1. to \in H \cup {to} /\ "buf" \in {"opened", "buf"}
    OBVIOUS
  <2>2. e = WithStatus(o, to, "buf")
    BY <1>9
  <2>3. StatusAdded(o, to, "buf", WithStatus(o, to, "buf"))
    BY <1>11, <2>1, WithStatusIs, Zenon
  <2>4. QED
    BY <2>2, <2>3, Zenon
<1>13. /\ e \in Memory /\ Marks(o, e)
       /\ \A x \in Places : e[x].stat = o[x].stat \/ e[x].stat = o[x].stat \cup {"buf"}
  BY <1>12, Zenon DEF StatusAdded
<1>14. /\ Laid(e, g, H \cup {to}, l) /\ Spared(o, e, H \cup {to}) /\ Fits(e)
  BY <1>11, <1>13, MarksKeep
<1>15. TopsOf(H, to) = H \cup {to}
  BY <1>8 DEF TopsOf
<1>16. DOMAIN o = Places
  BY <1>11 DEF Laid, Memory
<1>17. ASSUME NEW x \in H PROVE x \notin to .. to + n - 1 /\ x \in Places
  <2>1. Disk \cap Buf = {}
    BY Bounds
  <2>2. QED
    BY <1>2, <1>6, <1>8, <2>1
<1>18. ASSUME NEW x \in Places
       PROVE  e[x].orig = o[x].orig /\ ("opened" \in e[x].stat <=> "opened" \in o[x].stat)
              /\ m[x].orig = d[x].orig
  BY <1>4, <1>6, <1>13, <1>16 DEF Marks
<1>19. ASSUME NEW x \in H
       PROVE  /\ e[x].orig = x
              /\ "opened" \in e[x].stat <=> x = a
              /\ Text(e, x) = sv[x]
  <2>1. o[x] = m[x]
    BY <1>11, <1>17
  <2>2. e[x].orig = x
    BY <1>2, <1>17, <1>18, <2>1
  <2>3. "opened" \in m[x].stat <=> x = a
    <3>1. CASE x = a
      BY <1>4, <3>1
    <3>2. CASE x # a
      <4>1. x \in Owned(d, x) /\ Owned(d, x) \cap Owned(d, a) = {}
        <5>1. x \in Owned(d, x)
          BY <1>2, LaidIs
        <5>2. Owned(d, x) \cap Owned(d, a) = {}
          BY <1>2, <3>2 DEF Laid
        <5>3. QED
          BY <5>1, <5>2
      <4>2. m[x] = d[x]
        BY <1>4, <1>17, <4>1
      <4>3. QED
        BY <1>2, <3>2, <4>2
    <3>3. QED
      BY <3>1, <3>2
  <2>4. Text(e, x) = Text(o, x) /\ Text(o, x) = Text(m, x) /\ Text(m, x) = Text(d, x)
    BY <1>5, <1>11, <1>14 DEF Spared
  <2>5. QED
    BY <1>2, <1>17, <1>18, <2>1, <2>2, <2>3, <2>4
<1>20. e[to].orig = a
  BY <1>2, <1>6, <1>8, <1>11, <1>18
<1>21. Text(e, to) = t
  <2>1. Text(e, to) = Text(o, to) /\ Text(m, a) = Text(d, a)
    BY <1>5, <1>14 DEF Spared
  <2>2. QED
    BY <1>11, <2>1
<1>22. \A x \in H : "opened" \in e[x].stat <=> (to # 0 /\ x = e[to].orig)
  BY <1>8, <1>19, <1>20
<1>23. e[to].orig \in H /\ to \in Buf \cup {0}
  BY <1>20
<1>24. Laid(e, g, TopsOf(H, to), l)
  BY <1>14, <1>15
<1>25. \A x \in H : e[x].orig = x
  BY <1>19
<1>26. \A x \in H : Text(e, x) = sv[x]
  BY <1>19
<1>27. (to # 0 => e[to].orig \in H) /\ (to # 0 => Text(e, to) = t)
  BY <1>21, <1>23
<1>28. QED
  BY <1>2, <1>14, <1>22, <1>23, <1>24, <1>25, <1>26, <1>27, Zenon DEF FilesStand

\* The file of the copy is always marked as open.
LEMMA CopyMarked ==
  ASSUME NEW d, NEW h, NEW l, NEW s, NEW H, NEW sv, NEW ty, FilesStand(d, h, l, s, H, sv, ty), s # 0
  PROVE  d[s].orig \in H /\ "opened" \in d[d[s].orig].stat
BY DEF FilesStand

\* The mark is taken from the file and the copy given back.
LEMMA CloseKeeps ==
  ASSUME NEW d, NEW h, NEW l, NEW s, NEW H, NEW sv, NEW ty, FilesStand(d, h, l, s, H, sv, ty),
         s # 0, NEW a, a = d[s].orig,
         NEW u, u = [d EXCEPT ![a].stat = @ \ {"opened"}],
         NEW e, e = Dropped(u, s), NEW g, g = h \ ToSet(Chain(d, s))
  PROVE  FilesStand(e, g, l, 0, H, sv, <<>>)
<1>1. PICK R : R = TopsOf(H, s)
  OBVIOUS
<1>2. /\ Laid(d, h, R, l) /\ Fits(d)
      /\ H \subseteq Disk /\ DOMAIN sv = H /\ s \in Buf \cup {0}
      /\ \A x \in H : d[x].orig = x
      /\ s # 0 => d[s].orig \in H
      /\ \A x \in H : "opened" \in d[x].stat <=> (s # 0 /\ x = d[s].orig)
      /\ \A x \in H : Text(d, x) = sv[x]
  BY <1>1, Zenon DEF FilesStand
<1>3. H \subseteq R /\ s \in R /\ s \notin H /\ s \notin Disk /\ a \in H /\ R \ {s} = H
  BY <1>1, <1>2, TopsIs
<1>4. d \in Memory /\ DOMAIN d = Places /\ R \subseteq Places /\ a \in Places
  BY <1>2, <1>3 DEF Laid, Memory
<1>5. PICK b \in Content : b = d[a]
  BY <1>4 DEF Memory, Content
<1>6. PICK o : o = [b EXCEPT !.stat = @ \ {"opened"}]
  OBVIOUS
<1>7. /\ o \in Content /\ o.next = b.next /\ o.body = b.body /\ o.orig = b.orig
      /\ o.stat = b.stat \ {"opened"}
  BY <1>5, <1>6 DEF Content
<1>8. u = [d EXCEPT ![a] = o]
  BY <1>5, <1>6, Zenon
<1>9. DOMAIN u = Places /\ u[a] = o /\ \A x \in Places : x # a => u[x] = d[x]
  BY <1>4, <1>8
<1>10. u \in Memory
  BY <1>4, <1>7, <1>8 DEF Memory, Content
<1>11. ASSUME NEW x \in Places
       PROVE  /\ Alike(d, u, x) /\ u[x].orig = d[x].orig
              /\ "valid" \in u[x].stat <=> "valid" \in d[x].stat
              /\ "opened" \in u[x].stat <=> ("opened" \in d[x].stat /\ x # a)
  <2>1. CASE x = a
    <3>1. u[x] = o /\ d[x] = b
      BY <1>5, <1>9, <2>1
    <3>2. QED
      BY <1>7, <2>1, <3>1 DEF Alike
  <2>2. CASE x # a
    <3>1. u[x] = d[x]
      BY <1>9, <2>2
    <3>2. QED
      BY <2>2, <3>1 DEF Alike
  <2>3. QED
    BY <2>1, <2>2
<1>12. Marks(d, u)
  BY <1>4, <1>9, <1>11 DEF Marks
<1>13. /\ Laid(u, h, R, l) /\ Spared(d, u, R) /\ \A x \in R : Owned(u, x) = Owned(d, x)
       /\ Fits(u)
  <2>1. MarksKept(d, u, h, R, l)
    BY <1>2, <1>10, <1>12, MarksKeptIs, Zenon
  <2>2. QED
    BY <2>1, Zenon DEF MarksKept
<1>14. /\ Laid(e, h \ Owned(u, s), R \ {s}, l)
       /\ Spared(u, e, R \ {s})
       /\ \A x \in Places : x \notin Owned(u, s) => e[x] = u[x]
       /\ Fits(e)
  <2>1. Returned(u, s, e, h, R, l)
    BY <1>3, <1>13, ReturnedIs, Zenon
  <2>2. QED
    BY <2>1, Zenon DEF Returned
<1>15. h \ Owned(u, s) = g
  BY <1>3, <1>13 DEF Owned
<1>16. Laid(e, g, H, l) /\ Spared(u, e, H)
  BY <1>3, <1>14, <1>15
<1>17. Fits(e)
  BY <1>14
<1>18. ASSUME NEW x \in H PROVE e[x] = u[x] /\ x \in Places
  <2>1. x \in R /\ x # s
    BY <1>3
  <2>2. x \in Owned(d, x) /\ Owned(d, x) \cap Owned(d, s) = {} /\ x \in Places
    <3>1. x \in Owned(d, x) /\ x \in Places
      BY <1>2, <2>1, LaidIs
    <3>2. Owned(d, x) \cap Owned(d, s) = {}
      BY <1>2, <1>3, <2>1 DEF Laid
    <3>3. QED
      BY <3>1, <3>2
  <2>3. x \notin Owned(u, s)
    BY <1>3, <1>13, <2>2
  <2>4. QED
    BY <1>14, <2>2, <2>3
<1>19. \A x \in H : e[x].orig = x /\ "opened" \notin e[x].stat
  <2>1. ASSUME NEW x \in H PROVE e[x].orig = x /\ "opened" \notin e[x].stat
    <3>1. d[x].orig = x /\ ("opened" \in d[x].stat <=> x = a)
      BY <1>2
    <3>2. e[x] = u[x] /\ x \in Places
      BY <1>18
    <3>3. u[x].orig = d[x].orig /\ ("opened" \in u[x].stat <=> ("opened" \in d[x].stat /\ x # a))
      BY <1>11, <3>2
    <3>4. QED
      BY <3>1, <3>2, <3>3
  <2>2. QED
    BY <2>1
<1>20. \A x \in H : Text(e, x) = sv[x]
  <2>1. ASSUME NEW x \in H PROVE Text(e, x) = sv[x]
    <3>1. Text(e, x) = Text(u, x) /\ Text(u, x) = Text(d, x)
      BY <1>3, <1>13, <1>16 DEF Spared
    <3>2. QED
      BY <1>2, <3>1
  <2>2. QED
    BY <2>1
<1>21. TopsOf(H, 0) = H
  BY DEF TopsOf
<1>22. Laid(e, g, TopsOf(H, 0), l)
  BY <1>16, <1>21
<1>23. \A x \in H : e[x].orig = x
  BY <1>19
<1>24. \A x \in H : "opened" \in e[x].stat <=> (0 # 0 /\ x = e[0].orig)
  BY <1>19
<1>25. 0 \in Buf \cup {0} /\ (0 # 0 => e[0].orig \in H) /\ (0 # 0 => Text(e, 0) = <<>>)
  OBVIOUS
<1>26. QED
  BY <1>2, <1>17, <1>20, <1>22, <1>23, <1>24, <1>25, Zenon DEF FilesStand


-----------------------------------------------------------------------------
(* The invariant of the file system. *)

\* Where the consoles are and what the heads of the files say.
Seats(D, C, G) ==
    /\ C \in [Consoles -> DOMAIN D]
    /\ G \in [DOMAIN G -> [dir : DOMAIN D, base : Bases, ext : Exts]]

FaultIsKnown == fault \in {"none", "pointer", "table", "stack"}

\* The directories, the blocks, and the two together.
FilesIInv ==
    /\ Tables(dirs, DOMAIN heads)
    /\ Seats(dirs, cur, heads)
    /\ FilesStand(data, held, lost, setfdata, DOMAIN heads, saved, typed)
    /\ FaultIsKnown

LEMMA SeatsStay ==
  ASSUME NEW D, NEW C, NEW G, Seats(D, C, G), Tables(D, DOMAIN G), NEW E, NEW H, Tables(E, H),
         Len(E) \in {Len(D), Len(D) + 1}
  PROVE  Seats(E, C, G) /\ DOMAIN D \subseteq DOMAIN E
<1>1. D \in Seq(Directory) /\ E \in Seq(Directory)
  BY DEF Tables
<1>2. PICK n \in Nat : n = Len(D)
  BY <1>1
<1>3. DOMAIN D = 1 .. n /\ (DOMAIN E = 1 .. n \/ DOMAIN E = 1 .. n + 1)
  BY <1>1, <1>2
<1>4. DOMAIN D \subseteq DOMAIN E
  BY <1>2, <1>3
<1>5. QED
  BY <1>4 DEF Seats

LEMMA EmptyStands == FilesStand([b \in Places |-> Unused], {}, {}, 0, {}, <<>>, <<>>)
<1>1. PICK d : d = [b \in Places |-> Unused]
  OBVIOUS
<1>2. Unused \in [stat : SUBSET Status, orig : Numbers, next : Numbers, body : Seq(Letters)]
  BY Bounds DEF Unused, Numbers
<1>3. d \in Memory
  BY <1>1, <1>2 DEF Memory
<1>4. \A x \in Places : d[x].stat = {} /\ Len(d[x].body) = 0
  BY <1>1 DEF Unused
<1>5. Disk \subseteq Places /\ Buf \subseteq Places
  BY DEF Places
<1>6. Laid(d, {}, {}, {})
  BY <1>3, <1>4, <1>5 DEF Laid
<1>7. Fits(d)
  BY <1>4, Bounds DEF Fits
<1>8. TopsOf({}, 0) = {}
  BY DEF TopsOf
<1>9. DOMAIN <<>> = {}
  OBVIOUS
<1>10. Laid(d, {}, TopsOf({}, 0), {})
  BY <1>6, <1>8
<1>11. FilesStand(d, {}, {}, 0, {}, <<>>, <<>>)
  BY <1>7, <1>9, <1>10 DEF FilesStand
<1>12. QED
  BY <1>1, <1>11

LEMMA RootStands ==
  Tables(<<[base |-> DiskFile, parent |-> 0, table |-> RootTable]>>, {})
<1>1. PICK root : root = [base |-> DiskFile, parent |-> 0, table |-> RootTable]
  OBVIOUS
<1>2. PICK e : e = [kind |-> "disk", base |-> DiskFile, ext |-> NoExt, at |-> 0,
                    size |-> 0, checked |-> TRUE]
  OBVIOUS
<1>3. e \in Entry /\ RootTable = <<e>>
  BY <1>2, FilesAssumption DEF Entry, RootTable
<1>4. RootTable \in Seq(Entry) /\ Len(RootTable) = 1 /\ DOMAIN RootTable = {1} /\ RootTable[1] = e
  BY <1>3
<1>5. root \in Directory /\ root.parent = 0 /\ root.table = RootTable
  BY <1>1, <1>4 DEF Directory
<1>6. PICK D : D = <<root>>
  OBVIOUS
<1>7. D \in Seq(Directory) /\ DOMAIN D = {1} /\ D[1] = root
  BY <1>5, <1>6
<1>8. Named(RootTable)
  <2>1. e.base = DiskFile /\ e.ext = NoExt /\ e.kind = "disk"
    BY <1>2
  <2>2. Matches(e, e.base, e.ext)
    BY <2>1 DEF Matches
  <2>3. IsFirst(RootTable, e.base, e.ext, 1)
    BY <1>4, <2>2 DEF IsFirst
  <2>4. FirstMatch(RootTable, e.base, e.ext) = 1
    BY <1>4, <2>3, FirstUnique
  <2>5. QED
    BY <1>4, <2>4 DEF Named
<1>9. Leads(D, {}, e)
  BY <1>2 DEF Leads
<1>10. Len(RootTable) <= MaxFinfo
  BY <1>4, Bounds
<1>11. Tables(D, {})
  <2>1. ASSUME NEW d \in DOMAIN D
        PROVE  /\ D[d].parent \in 0 .. d - 1 /\ (D[d].parent = 0 <=> d = 1)
               /\ Len(D[d].table) <= MaxFinfo
               /\ Named(D[d].table)
               /\ \A i \in DOMAIN D[d].table : Leads(D, {}, D[d].table[i])
    <3>1. d = 1 /\ D[d] = root
      BY <1>7
    <3>2. D[d].parent = 0 /\ D[d].table = RootTable
      BY <1>5, <3>1
    <3>3. D[d].parent \in 0 .. d - 1
      BY <3>1, <3>2
    <3>4. \A i \in DOMAIN RootTable : Leads(D, {}, RootTable[i])
      BY <1>4, <1>9
    <3>5. QED
      BY <1>8, <1>10, <3>1, <3>2, <3>3, <3>4
  <2>2. QED
    BY <1>7, <2>1 DEF Tables
<1>12. QED
  BY <1>1, <1>6, <1>11

LEMMA FilesStart ==
  ASSUME FilesInit
  PROVE  FilesIInv
<1>1. heads = <<>> /\ DOMAIN heads = {}
  BY DEF FilesInit
<1>2. Tables(dirs, DOMAIN heads)
  BY <1>1, RootStands DEF FilesInit
<1>3. FilesStand(data, held, lost, setfdata, DOMAIN heads, saved, typed)
  BY <1>1, EmptyStands DEF FilesInit, Places
<1>4. Seats(dirs, cur, heads)
  <2>1. DOMAIN dirs = {1} /\ cur = [c \in Consoles |-> 1]
    BY DEF FilesInit
  <2>2. heads \in [DOMAIN heads -> [dir : DOMAIN dirs, base : Bases, ext : Exts]]
    BY <1>1
  <2>3. QED
    BY <2>1, <2>2 DEF Seats
<1>5. QED
  BY <1>2, <1>3, <1>4 DEF FilesIInv, FaultIsKnown, FilesInit

LEMMA FaultsStand ==
  ASSUME FilesIInv, NEW what \in {"pointer", "table", "stack"}, Fails(what)
  PROVE  FilesIInv'
<1>1. /\ dirs' = dirs /\ data' = data /\ held' = held /\ setfdata' = setfdata /\ cur' = cur
      /\ heads' = heads /\ saved' = saved /\ typed' = typed /\ lost' = lost /\ fault' = what
  BY DEF Fails
<1>2. QED
  BY <1>1 DEF FilesIInv, FaultIsKnown

LEMMA SameStands ==
  ASSUME FilesIInv, UNCHANGED filesVars
  PROVE  FilesIInv'
<1>1. /\ dirs' = dirs /\ data' = data /\ held' = held /\ setfdata' = setfdata /\ cur' = cur
      /\ heads' = heads /\ saved' = saved /\ typed' = typed /\ lost' = lost /\ fault' = fault
  BY DEF filesVars
<1>2. QED
  BY <1>1 DEF FilesIInv, FaultIsKnown

LEMMA CdStands ==
  ASSUME FilesIInv, NEW c \in Consoles, NEW absolute \in BOOLEAN, NEW parts \in Paths,
         Cd(c, absolute, parts)
  PROVE  FilesIInv'
<1>1. PICK start : start = IF absolute THEN 1 ELSE cur[c]
  OBVIOUS
<1>2. PICK dest : dest = Parse(start, parts)
  OBVIOUS
<1>3. Tables(dirs, DOMAIN heads) /\ Seats(dirs, cur, heads)
  BY DEF FilesIInv
<1>4. start \in DOMAIN dirs
  <2>1. cur[c] \in DOMAIN dirs
    BY <1>3 DEF Seats
  <2>2. 1 \in DOMAIN dirs
    BY <1>3 DEF Tables
  <2>3. QED
    BY <1>1, <2>1, <2>2
<1>5. start \in Stops /\ Len(parts) \in Nat
  BY <1>4 DEF Stops, Paths
<1>6. PICK n \in Nat : n = Len(parts)
  BY <1>5
<1>7. PICK f : Walk(f, start, parts, n)
  BY <1>3, <1>5, <1>6, WalkExists, Zenon
<1>8. dest \in Stops
  BY <1>2, <1>6, <1>7 DEF Walk
<1>9. dest > 0
  BY <1>1, <1>2 DEF Cd
<1>10. dest \in DOMAIN dirs
  BY <1>8, <1>9 DEF Stops
<1>11. cur' = [cur EXCEPT ![c] = dest]
  BY <1>1, <1>2 DEF Cd
<1>12. /\ dirs' = dirs /\ data' = data /\ held' = held /\ setfdata' = setfdata
       /\ heads' = heads /\ saved' = saved /\ typed' = typed /\ lost' = lost /\ fault' = fault
  BY DEF Cd
<1>13. Seats(dirs, cur', heads)
  BY <1>3, <1>10, <1>11 DEF Seats
<1>14. QED
  BY <1>12, <1>13 DEF FilesIInv, FaultIsKnown


LEMMA MkdirStands ==
  ASSUME FilesIInv, NEW c \in Consoles, NEW n \in DirNames, Mkdir(c, n[1], n[2])
  PROVE  FilesIInv'
<1>1. PICK d : d = cur[c]
  OBVIOUS
<1>2. PICK base : base = n[1]
  OBVIOUS
<1>3. PICK ext : ext = n[2]
  OBVIOUS
<1>4. base \in Bases /\ ext \in Exts
  BY <1>2, <1>3, FilesAssumption
<1>5. Tables(dirs, DOMAIN heads) /\ Seats(dirs, cur, heads)
      /\ FilesStand(data, held, lost, setfdata, DOMAIN heads, saved, typed)
  BY DEF FilesIInv
<1>6. d \in DOMAIN dirs
  BY <1>1, <1>5 DEF Seats
<1>7. Search(d, base, ext) = 0 /\ Mkdir(c, base, ext)
  BY <1>1, <1>2, <1>3 DEF Mkdir
<1>8. CASE NoRoom(d)
  <2>1. Fails("table")
    BY <1>1, <1>7, <1>8 DEF Mkdir
  <2>2. QED
    BY <2>1, FaultsStand
<1>9. CASE ~ NoRoom(d)
  <2>1. PICK e : e = [kind |-> "dir", base |-> base, ext |-> ext, at |-> Len(dirs) + 1,
                      size |-> 0, checked |-> TRUE]
    OBVIOUS
  <2>2. PICK new : new = [base |-> base, parent |-> d, table |-> <<>>]
    OBVIOUS
  <2>10. PICK E : E = Append([dirs EXCEPT ![d].table = Append(@, e)], new)
    OBVIOUS
  <2>3. dirs' = E
    BY <1>1, <1>7, <1>9, <2>1, <2>2, <2>10 DEF Mkdir
  <2>4. /\ data' = data /\ held' = held /\ setfdata' = setfdata /\ cur' = cur
        /\ heads' = heads /\ saved' = saved /\ typed' = typed /\ lost' = lost /\ fault' = fault
    BY <1>1, <1>7, <1>9 DEF Mkdir
  <2>5. FirstMatch(dirs[d].table, base, ext) = 0 /\ Len(dirs[d].table) # MaxFinfo
    BY <1>7, <1>9, SearchIs DEF NoRoom
  <2>9. Tables(E, DOMAIN heads) /\ Len(E) = Len(dirs) + 1
    <3>1. Follows(dirs, E, DOMAIN heads, 1)
      BY <1>4, <1>5, <1>6, <2>1, <2>2, <2>10, <2>5, DirectoryMade, Zenon
    <3>2. QED
      BY <3>1 DEF Follows
  <2>6. Tables(dirs', DOMAIN heads) /\ Len(dirs') = Len(dirs) + 1
    BY <2>3, <2>9
  <2>7. Seats(dirs', cur, heads)
    BY <1>5, <2>6, SeatsStay
  <2>8. QED
    BY <1>5, <2>4, <2>6, <2>7 DEF FilesIInv, FaultIsKnown
<1>10. QED
  BY <1>8, <1>9

LEMMA MkfsStands ==
  ASSUME FilesIInv, NEW c \in Consoles, Mkfs(c)
  PROVE  FilesIInv'
<1>1. Tables(dirs, DOMAIN heads) /\ Seats(dirs, cur, heads)
      /\ FilesStand(data, held, lost, setfdata, DOMAIN heads, saved, typed)
  BY DEF FilesIInv
<1>2. dirs' = [dirs EXCEPT ![1].table = RootTable] /\ cur' = [cur EXCEPT ![c] = 1]
  BY DEF Mkfs
<1>3. /\ data' = data /\ held' = held /\ setfdata' = setfdata
      /\ heads' = heads /\ saved' = saved /\ typed' = typed /\ lost' = lost /\ fault' = fault
  BY DEF Mkfs
<1>4. Tables(dirs', DOMAIN heads) /\ Len(dirs') = Len(dirs)
  <2>1. Follows(dirs, dirs', DOMAIN heads, 0)
    BY <1>1, <1>2, RootForgotten, Zenon
  <2>2. Len(dirs) \in Nat
    BY <1>1 DEF Tables
  <2>3. QED
    BY <2>1, <2>2 DEF Follows
<1>5. Seats(dirs', cur, heads)
  BY <1>1, <1>4, SeatsStay
<1>6. 1 \in DOMAIN dirs'
  BY <1>4 DEF Tables
<1>7. Seats(dirs', cur', heads)
  BY <1>2, <1>5, <1>6 DEF Seats
<1>8. QED
  BY <1>1, <1>3, <1>4, <1>7 DEF FilesIInv, FaultIsKnown

SeatsTaken(D, C, G, K, a) == Seats(D, C, K) /\ DOMAIN K = DOMAIN G \cup {a}

LEMMA SeatsWith ==
  ASSUME NEW D, NEW C, NEW G, Seats(D, C, G), NEW d \in DOMAIN D, NEW base \in Bases,
         NEW ext \in Exts, NEW a, NEW v, v = [dir |-> d, base |-> base, ext |-> ext],
         NEW K, K = With(G, a, v)
  PROVE  SeatsTaken(D, C, G, K, a)
<1>1. K = [x \in {a} \cup DOMAIN G |-> IF x = a THEN v ELSE G[x]]
  BY DEF With
<1>2. v \in [dir : DOMAIN D, base : Bases, ext : Exts]
  OBVIOUS
<1>3. \A x \in DOMAIN G : G[x] \in [dir : DOMAIN D, base : Bases, ext : Exts]
  BY DEF Seats
<1>4. DOMAIN K = DOMAIN G \cup {a}
  BY <1>1
<1>5. K \in [DOMAIN K -> [dir : DOMAIN D, base : Bases, ext : Exts]]
  BY <1>1, <1>2, <1>3
<1>6. QED
  BY <1>4, <1>5 DEF Seats, SeatsTaken

LEMMA MkfileStands ==
  ASSUME FilesIInv, NEW c \in Consoles, NEW n \in FileNames, NEW ended \in BOOLEAN,
         Mkfile(c, n[1], n[2], ended)
  PROVE  FilesIInv'
<1>1. PICK d : d = cur[c]
  OBVIOUS
<1>2. PICK base : base = n[1]
  OBVIOUS
<1>3. PICK ext : ext = n[2]
  OBVIOUS
<1>4. base \in Bases /\ ext \in Exts
  BY <1>2, <1>3, FilesAssumption
<1>5. PICK H : H = DOMAIN heads
  OBVIOUS
<1>6. Tables(dirs, H) /\ Seats(dirs, cur, heads)
      /\ FilesStand(data, held, lost, setfdata, H, saved, typed)
  BY <1>5 DEF FilesIInv
<1>7. d \in DOMAIN dirs
  BY <1>1, <1>6 DEF Seats
<1>8. Mkfile(c, base, ext, ended)
  BY <1>2, <1>3
<1>9. CASE NoRoom(d)
  <2>1. Fails("table")
    BY <1>1, <1>8, <1>9 DEF Mkfile
  <2>2. QED
    BY <2>1, FaultsStand
<1>10. CASE ~ NoRoom(d)
  <2>1. PICK a : a = FreeBlocks(data, held, 1)[1]
    OBVIOUS
  <2>2. PICK e : e = [kind |-> "file", base |-> base, ext |-> ext, at |-> a,
                      size |-> 0, checked |-> Search(d, base, ext) = 0]
    OBVIOUS
  <2>3. PICK v : v = [dir |-> d, base |-> base, ext |-> ext]
    OBVIOUS
  <2>4. FreeBlocks(data, held, 1) # <<>>
    BY <1>1, <1>8, <1>10 DEF Mkfile
  <2>5. dirs' = [dirs EXCEPT ![d].table = Append(@, e)]
    BY <1>1, <1>8, <1>10, <2>1, <2>2 DEF Mkfile
  <2>6. data' = [data EXCEPT ![a] = FirstBlock(a)]
    BY <1>1, <1>8, <1>10, <2>1 DEF Mkfile, FirstBlock
  <2>7. heads' = With(heads, a, v) /\ saved' = With(saved, a, <<>>)
    BY <1>1, <1>8, <1>10, <2>1, <2>3 DEF Mkfile
  <2>8. /\ held' = held /\ setfdata' = setfdata /\ cur' = cur
        /\ typed' = typed /\ lost' = lost /\ fault' = fault
    BY <1>1, <1>8, <1>10 DEF Mkfile
  <2>21. PICK m : m = [data EXCEPT ![a] = FirstBlock(a)]
    OBVIOUS
  <2>22. PICK sv : sv = With(saved, a, <<>>)
    OBVIOUS
  <2>23. PICK K : K = With(heads, a, v)
    OBVIOUS
  <2>24. FilesStand(m, held, lost, setfdata, H \cup {a}, sv, typed) /\ a \in Disk
    <3>1. PICK G : G = H \cup {a}
      OBVIOUS
    <3>2. FilesMade(m, held, lost, setfdata, G, sv, typed, a)
      BY <1>6, <2>1, <2>4, <2>21, <2>22, <3>1, MkfileKeeps, Zenon
    <3>3. QED
      BY <3>1, <3>2 DEF FilesMade
  <2>9. FilesStand(data', held, lost, setfdata, H \cup {a}, saved', typed) /\ a \in Disk
    BY <2>6, <2>7, <2>21, <2>22, <2>24
  <2>25. Seats(dirs, cur, K) /\ DOMAIN K = DOMAIN heads \cup {a}
    <3>1. SeatsTaken(dirs, cur, heads, K, a)
      BY <1>4, <1>6, <1>7, <2>3, <2>23, SeatsWith, Zenon
    <3>2. QED
      BY <3>1 DEF SeatsTaken
  <2>10. Seats(dirs, cur, heads') /\ DOMAIN heads' = H \cup {a}
    BY <1>5, <2>7, <2>23, <2>25
  <2>11. e \in Entry /\ e.kind = "file" /\ e.at = a /\ e.base = base /\ e.ext = ext
         /\ (e.checked => Search(d, base, ext) = 0)
    <3>1. (Search(d, base, ext) = 0) \in BOOLEAN /\ a \in Nat
      BY <2>9, Bounds DEF Disk
    <3>2. PICK z \in BOOLEAN : z = (Search(d, base, ext) = 0)
      BY <3>1
    <3>3. e = [kind |-> "file", base |-> base, ext |-> ext, at |-> a, size |-> 0, checked |-> z]
      BY <2>2, <3>2
    <3>4. e \in Entry /\ e.kind = "file" /\ e.at = a /\ e.base = base /\ e.ext = ext /\ e.checked = z
      BY <1>4, <3>1, <3>3 DEF Entry
    <3>5. QED
      BY <3>2, <3>4
  <2>12. e.checked => FirstMatch(dirs[d].table, e.base, e.ext) = 0
    BY <2>11, SearchIs
  <2>13. PICK G : G = H \cup {a}
    OBVIOUS
  <2>14. H \subseteq G /\ e.at \in G /\ Len(dirs[d].table) # MaxFinfo
    BY <1>10, <2>11, <2>13 DEF NoRoom
  <2>16. PICK E : E = [dirs EXCEPT ![d].table = Append(@, e)]
    OBVIOUS
  <2>26. Tables(E, G) /\ Len(E) = Len(dirs)
    <3>1. Follows(dirs, E, G, 0)
      BY <1>6, <1>7, <2>16, <2>11, <2>12, <2>14, EntryAdded, Zenon
    <3>2. Len(dirs) \in Nat
      BY <1>6 DEF Tables
    <3>3. QED
      BY <3>1, <3>2 DEF Follows
  <2>15. Tables(dirs', G) /\ Len(dirs') = Len(dirs)
    BY <2>5, <2>16, <2>26
  <2>17. DOMAIN dirs' = DOMAIN dirs
    <3>1. dirs \in Seq(Directory) /\ dirs' \in Seq(Directory)
      BY <1>6, <2>15 DEF Tables
    <3>2. QED
      BY <2>15, <3>1
  <2>18. Seats(dirs', cur', heads')
    BY <2>8, <2>10, <2>17 DEF Seats
  <2>19. FaultIsKnown'
    BY <2>8 DEF FilesIInv, FaultIsKnown
  <2>20. QED
    BY <2>8, <2>9, <2>10, <2>13, <2>15, <2>18, <2>19 DEF FilesIInv
<1>11. QED
  BY <1>9, <1>10


\* The entry that a search finds.
LEMMA EntryFound ==
  ASSUME NEW H, Tables(dirs, H), NEW d \in DOMAIN dirs, NEW base, NEW ext,
         NEW i, i = Search(d, base, ext), i # 0
  PROVE  /\ i \in DOMAIN dirs[d].table /\ dirs[d].table[i] \in Entry
         /\ Leads(dirs, H, dirs[d].table[i])
<1>1. dirs[d].table \in Seq(Entry) /\ \A j \in DOMAIN dirs[d].table : dirs[d].table[j] \in Entry
  BY TablesAre
<1>2. IsFirst(dirs[d].table, base, ext, i)
  BY <1>1, FirstIs, SearchIs
<1>3. i \in DOMAIN dirs[d].table
  BY <1>2 DEF IsFirst
<1>4. Leads(dirs, H, dirs[d].table[i])
  BY <1>3 DEF Tables
<1>5. QED
  BY <1>1, <1>3, <1>4

LEMMA OpenStands ==
  ASSUME FilesIInv, NEW c \in Consoles, NEW base, NEW ext, Open(c, base, ext)
  PROVE  FilesIInv'
<1>1. PICK d : d = cur[c]
  OBVIOUS
<1>2. PICK i : i = Search(d, base, ext)
  OBVIOUS
<1>3. PICK H : H = DOMAIN heads
  OBVIOUS
<1>4. Tables(dirs, H) /\ Seats(dirs, cur, heads)
      /\ FilesStand(data, held, lost, setfdata, H, saved, typed) /\ FaultIsKnown
  BY <1>3 DEF FilesIInv
<1>5. d \in DOMAIN dirs
  BY <1>1, <1>4 DEF Seats
<1>6. CASE i = 0
  <2>1. Fails("table")
    BY <1>1, <1>2, <1>6 DEF Open
  <2>2. QED
    BY <2>1, FaultsStand
<1>7. CASE i # 0 /\ dirs[d].table[i].kind = "disk"
  <2>1. Fails("pointer")
    BY <1>1, <1>2, <1>7 DEF Open
  <2>2. QED
    BY <2>1, FaultsStand
<1>8. CASE i # 0 /\ dirs[d].table[i].kind # "disk"
  <2>1. PICK a : a = dirs[d].table[i].at
    OBVIOUS
  <2>2. PICK n : n = BlockNum(data, a)
    OBVIOUS
  <2>3. PICK m : m = WithStatus(data, a, "opened")
    OBVIOUS
  <2> DEFINE num == BlockNum(data, dirs[cur[c]].table[Search(cur[c], base, ext)].at)
  <2> DEFINE gaps == {b \in Buf : b + num - 1 \in Buf /\ held \cap b..b + num - 1 = {}}
  <2>5. PICK to : to = CHOOSE b \in gaps : \A b2 \in gaps : b <= b2
    OBVIOUS
  <2>4. num = n
    BY <1>1, <1>2, <2>1, <2>2
  <2>6. PICK e : e = WithStatus(Copied(m, a, to), to, "buf")
    OBVIOUS
  <2>7. PICK g : g = held \cup to .. to + n - 1
    OBVIOUS
  <2>8. PICK t : t = Text(data, a)
    OBVIOUS
  <2>9. /\ setfdata = 0 /\ dirs[d].table[i].kind # "dir" /\ gaps # {}
        /\ data' = e /\ held' = g /\ setfdata' = to /\ typed' = t
        /\ dirs' = dirs /\ cur' = cur /\ fault' = fault /\ heads' = heads
        /\ saved' = saved /\ lost' = lost
    <3>1. setfdata = 0 /\ dirs[d].table[i].kind # "dir"
      BY <1>1, <1>2, <1>8, Zenon DEF Open
    <3>2. gaps # {}
      BY <1>1, <1>2, <1>8 DEF Open
    <3>3. data' = e
      BY <1>1, <1>2, <1>8, <2>1, <2>3, <2>5, <2>6 DEF Open
    <3>4. held' = g
      <4>1. held' = held \cup to .. to + num - 1
        BY <1>1, <1>2, <1>8, <2>5 DEF Open
      <4>2. QED
        BY <2>4, <2>7, <4>1
    <3>5. setfdata' = to
      BY <1>1, <1>2, <1>8, <2>5 DEF Open
    <3>6. typed' = t
      BY <1>1, <1>2, <1>8, <2>1, <2>8 DEF Open
    <3>7. dirs' = dirs /\ cur' = cur /\ fault' = fault /\ heads' = heads
          /\ saved' = saved /\ lost' = lost
      BY <1>1, <1>2, <1>8 DEF Open
    <3>8. QED
      BY <3>1, <3>2, <3>3, <3>4, <3>5, <3>6, <3>7
  <2>10. a \in H
    <3>1. dirs[d].table[i] \in Entry /\ Leads(dirs, H, dirs[d].table[i])
      BY <1>2, <1>4, <1>5, <1>8, EntryFound
    <3>2. dirs[d].table[i].kind = "file"
      BY <1>8, <2>9, <3>1 DEF Entry
    <3>3. QED
      BY <2>1, <3>1, <3>2 DEF Leads
  <2>11. to \in gaps
    <3>1. gaps \in SUBSET Nat
      BY Bounds DEF Buf
    <3>2. \E b \in gaps : \A b2 \in gaps : b <= b2
      BY <2>9, <3>1, Least
    <3>3. HIDE DEF gaps
    <3>4. QED
      BY <2>5, <3>2
  <2>12. to \in Buf /\ to + n - 1 \in Buf /\ held \cap to .. to + n - 1 = {}
    BY <2>4, <2>11
  <2>13. FilesStand(data, held, lost, 0, H, saved, typed)
    BY <1>4, <2>9
  <2>14. FilesStand(e, g, lost, to, H, saved, t)
    BY <2>2, <2>3, <2>6, <2>7, <2>8, <2>10, <2>12, <2>13, OpenKeeps, Zenon
  <2>15. QED
    BY <1>3, <1>4, <2>9, <2>14 DEF FilesIInv, FaultIsKnown
<1>9. QED
  BY <1>6, <1>7, <1>8

LEMMA CloseStands ==
  ASSUME FilesIInv, Close
  PROVE  FilesIInv'
<1>1. PICK a : a = data[setfdata].orig
  OBVIOUS
<1>2. PICK H : H = DOMAIN heads
  OBVIOUS
<1>3. Tables(dirs, H) /\ Seats(dirs, cur, heads)
      /\ FilesStand(data, held, lost, setfdata, H, saved, typed) /\ FaultIsKnown
  BY <1>2 DEF FilesIInv
<1>4. setfdata # 0
  BY DEF Close
<1>5. "opened" \in data[a].stat
  BY <1>1, <1>3, <1>4, CopyMarked, Zenon
<1>6. PICK u : u = [data EXCEPT ![a].stat = @ \ {"opened"}]
  OBVIOUS
<1>7. PICK e : e = Dropped(u, setfdata)
  OBVIOUS
<1>8. PICK g : g = held \ ToSet(Chain(data, setfdata))
  OBVIOUS
<1>9. /\ data' = e /\ held' = g /\ setfdata' = 0 /\ typed' = <<>>
      /\ dirs' = dirs /\ cur' = cur /\ fault' = fault /\ heads' = heads
      /\ saved' = saved /\ lost' = lost
  BY <1>1, <1>5, <1>6, <1>7, <1>8 DEF Close
<1>10. FilesStand(e, g, lost, 0, H, saved, <<>>)
  BY <1>1, <1>3, <1>4, <1>6, <1>7, <1>8, CloseKeeps, Zenon
<1>11. QED
  BY <1>2, <1>3, <1>9, <1>10 DEF FilesIInv, FaultIsKnown

LEMMA SaveStands ==
  ASSUME FilesIInv, Save
  PROVE  FilesIInv'
<1>1. PICK a : a = data[setfdata].orig
  OBVIOUS
<1>2. PICK H : H = DOMAIN heads
  OBVIOUS
<1>3. Tables(dirs, H) /\ Seats(dirs, cur, heads)
      /\ FilesStand(data, held, lost, setfdata, H, saved, typed) /\ FaultIsKnown
  BY <1>2 DEF FilesIInv
<1>4. PICK d : d = heads[a].dir
  OBVIOUS
<1>5. PICK i : i = Search(d, heads[a].base, heads[a].ext)
  OBVIOUS
<1>6. PICK text : text = Text(data, setfdata)
  OBVIOUS
<1>7. PICK tail : tail = CutOff(data, a, text)
  OBVIOUS
<1>8. PICK e : e = Written(data, held, a, text)
  OBVIOUS
<1>9. PICK k : k = (IF tail = <<>> THEN lost ELSE lost \cup {Last(tail)})
  OBVIOUS
<1>10. PICK sv : sv = [saved EXCEPT ![a] = text]
  OBVIOUS
<1>11. PICK z : z = SizeOf(e, a)
  OBVIOUS
<1>12. PICK E : E = [dirs EXCEPT ![d].table[i].size = z]
  OBVIOUS
<1>13. /\ setfdata # 0 /\ i # 0 /\ Room(data, held, a, text)
       /\ data' = e /\ dirs' = E /\ saved' = sv /\ lost' = k
       /\ held' = held /\ setfdata' = setfdata /\ cur' = cur /\ fault' = fault
       /\ heads' = heads /\ typed' = typed
  BY <1>1, <1>4, <1>5, <1>6, <1>7, <1>8, <1>9, <1>10, <1>11, <1>12 DEF Save
<1>14. FilesStand(e, held, k, setfdata, H, sv, typed) /\ SizeOf(e, a) \in Nat
  <2>1. FilesSaved(e, held, k, setfdata, H, sv, typed, a)
    BY <1>1, <1>3, <1>6, <1>7, <1>8, <1>9, <1>10, <1>13, SaveKeeps, Zenon
  <2>2. QED
    BY <2>1 DEF FilesSaved
<1>15. a \in H
  BY <1>1, <1>3, <1>13, CopyMarked, Zenon
<1>16. d \in DOMAIN dirs
  BY <1>2, <1>3, <1>4, <1>15 DEF Seats
<1>17. i \in DOMAIN dirs[d].table
  BY <1>3, <1>5, <1>13, <1>16, EntryFound
<1>18. Tables(E, H) /\ Len(E) = Len(dirs)
  <2>1. z \in Nat
    BY <1>11, <1>14
  <2>2. Follows(dirs, E, H, 0)
    BY <1>3, <1>12, <1>16, <1>17, <2>1, EntryResized, Zenon
  <2>3. Len(dirs) \in Nat
    BY <1>3 DEF Tables
  <2>4. QED
    BY <2>2, <2>3 DEF Follows
<1>19. Seats(E, cur, heads)
  BY <1>2, <1>3, <1>18, SeatsStay
<1>20. QED
  BY <1>2, <1>3, <1>13, <1>14, <1>18, <1>19 DEF FilesIInv, FaultIsKnown


\* The texts that edits are made from and lead to.
LEMMA LettersAre ==
  /\ Blank \in Letters /\ Garbage \in Letters /\ Lines \subseteq Seq(Letters)
  /\ <<>> \in Seq(Letters) /\ <<Garbage>> \in Seq(Letters)
<1>1. Blank \in Letters /\ Garbage \in Letters
  <2> DEFINE L == UNION {ToSet(line) : line \in Lines}
  <2>1. Letters = L \cup {Blank, Garbage}
    BY DEF Letters
  <2> HIDE DEF L
  <2>2. QED
    BY <2>1
<1>2. Lines \subseteq Seq(Letters)
  BY LinesAssumption
<1>3. <<>> \in Seq(Letters) /\ <<Garbage>> \in Seq(Letters)
  BY <1>1
<1>4. QED
  BY <1>1, <1>2, <1>3

LEMMA OverlaidIs ==
  ASSUME NEW text \in Seq(Letters), NEW line \in Seq(Letters)
  PROVE  Overlaid(text, line) \in Seq(Letters)
<1>1. PICK n \in Nat : n = IF Len(line) > Len(text) THEN Len(line) ELSE Len(text)
  OBVIOUS
<1>2. \A i \in 1 .. n : (i <= Len(line) => line[i] \in Letters) /\ (i <= Len(text) => text[i] \in Letters)
  OBVIOUS
<1>3. Overlaid(text, line) =
        [i \in 1 .. n |-> IF i <= Len(line) /\ (line[i] # Blank \/ i = Len(text) + 1) THEN line[i]
                          ELSE IF i <= Len(text) THEN text[i] ELSE Garbage]
  BY <1>1 DEF Overlaid
<1>4. \A i \in 1 .. n : (IF i <= Len(line) /\ (line[i] # Blank \/ i = Len(text) + 1) THEN line[i]
                         ELSE IF i <= Len(text) THEN text[i] ELSE Garbage) \in Letters
  BY <1>2, LettersAre
<1>5. QED
  BY <1>3, <1>4

LEMMA CopyIs ==
  ASSUME FilesIInv, setfdata # 0
  PROVE  Text(data, setfdata) \in Seq(Letters)
<1>1. PICK H : H = DOMAIN heads
  OBVIOUS
<1>2. FilesStand(data, held, lost, setfdata, H, saved, typed)
  BY <1>1 DEF FilesIInv
<1>3. Laid(data, held, TopsOf(H, setfdata), lost)
  BY <1>2, Zenon DEF FilesStand
<1>4. setfdata \in TopsOf(H, setfdata)
  BY DEF TopsOf
<1>5. Found(data, Chain(data, setfdata), setfdata)
  BY <1>3, <1>4, LaidIs
<1>6. QED
  BY <1>5 DEF Found

LEMMA EditedStands ==
  ASSUME FilesIInv, NEW text \in Seq(Letters), Edited(text)
  PROVE  FilesIInv'
<1>1. PICK H : H = DOMAIN heads
  OBVIOUS
<1>2. FilesStand(data, held, lost, setfdata, H, saved, typed)
  BY <1>1 DEF FilesIInv
<1>3. PICK e : e = Written(data, held, setfdata, text)
  OBVIOUS
<1>4. PICK g : g = HeldAfter(data, held, setfdata, text)
  OBVIOUS
<1>5. /\ setfdata # 0 /\ Room(data, held, setfdata, text)
      /\ data' = e /\ held' = g /\ typed' = text
      /\ dirs' = dirs /\ setfdata' = setfdata /\ cur' = cur /\ fault' = fault
      /\ heads' = heads /\ saved' = saved /\ lost' = lost
  BY <1>3, <1>4 DEF Edited
<1>6. FilesStand(e, g, lost, setfdata, H, saved, text)
  BY <1>2, <1>3, <1>4, <1>5, EditKeeps, Zenon
<1>7. QED
  BY <1>1, <1>5, <1>6 DEF FilesIInv, FaultIsKnown

LEMMA AddStands ==
  ASSUME FilesIInv, NEW line \in Lines, Add(line)
  PROVE  FilesIInv'
<1>1. setfdata # 0 /\ Edited(Text(data, setfdata) \o line)
  BY DEF Add
<1>2. Text(data, setfdata) \o line \in Seq(Letters)
  BY <1>1, CopyIs, LettersAre
<1>3. QED
  BY <1>1, <1>2, EditedStands

LEMMA InsStands ==
  ASSUME FilesIInv, NEW line \in Lines, NEW rest \in {<<>>, <<Garbage>>}, Ins(line, rest)
  PROVE  FilesIInv'
<1>1. setfdata # 0 /\ Edited(Overlaid(Text(data, setfdata), line) \o rest)
  BY DEF Ins
<1>2. Overlaid(Text(data, setfdata), line) \in Seq(Letters)
  BY <1>1, CopyIs, LettersAre, OverlaidIs
<1>3. Overlaid(Text(data, setfdata), line) \o rest \in Seq(Letters)
  <2>1. PICK u \in Seq(Letters) : u = Overlaid(Text(data, setfdata), line)
    BY <1>2
  <2>2. rest \in Seq(Letters)
    BY LettersAre
  <2>3. u \o rest \in Seq(Letters)
    BY <2>1, <2>2
  <2>4. QED
    BY <2>1, <2>3
<1>4. QED
  BY <1>1, <1>3, EditedStands

\* A text that is cleared takes one block, and there is room for it.
LEMMA RoomForNone ==
  ASSUME NEW d, NEW h, NEW l, NEW s, NEW H, NEW sv, NEW ty, FilesStand(d, h, l, s, H, sv, ty), s # 0
  PROVE  Room(d, h, s, <<>>)
<1>1. Laid(d, h, TopsOf(H, s), l)
  BY Zenon DEF FilesStand
<1>2. s \in TopsOf(H, s)
  BY DEF TopsOf
<1>3. Linked(d, Chain(d, s))
  BY <1>1, <1>2, LaidIs
<1>4. Len(Chain(d, s)) \in Nat /\ Len(Chain(d, s)) > 0
  BY <1>3 DEF Linked
<1>5. PICK k \in Nat : k = Len(FreeBlocks(d, h, s))
  BY FreeIs DEF Finds
<1>6. Needed(<<>>) = 1
  <2>1. 0 \div Chars = 0
    BY Bounds
  <2>2. QED
    BY <2>1 DEF Needed
<1>7. QED
  BY <1>4, <1>5, <1>6 DEF Room

LEMMA ClsStands ==
  ASSUME FilesIInv, NEW line \in Lines, Cls(line)
  PROVE  FilesIInv'
<1>1. PICK H : H = DOMAIN heads
  OBVIOUS
<1>2. FilesStand(data, held, lost, setfdata, H, saved, typed)
  BY <1>1 DEF FilesIInv
<1>3. PICK d : d = Written(data, held, setfdata, <<>>)
  OBVIOUS
<1>4. PICK h : h = HeldAfter(data, held, setfdata, <<>>)
  OBVIOUS
<1>5. PICK e : e = Written(d, h, setfdata, line)
  OBVIOUS
<1>6. PICK g : g = HeldAfter(d, h, setfdata, line)
  OBVIOUS
<1>7. /\ setfdata # 0 /\ Room(d, h, setfdata, line)
      /\ data' = e /\ held' = g /\ typed' = line
      /\ dirs' = dirs /\ setfdata' = setfdata /\ cur' = cur /\ fault' = fault
      /\ heads' = heads /\ saved' = saved /\ lost' = lost
  BY <1>3, <1>4, <1>5, <1>6 DEF Cls
<1>8. Room(data, held, setfdata, <<>>)
  BY <1>2, <1>7, RoomForNone, Zenon
<1>9. <<>> \in Seq(Letters) /\ line \in Seq(Letters)
  BY LettersAre
<1>10. FilesStand(d, h, lost, setfdata, H, saved, <<>>)
  BY <1>2, <1>3, <1>4, <1>7, <1>8, <1>9, EditKeeps, Zenon
<1>11. FilesStand(e, g, lost, setfdata, H, saved, line)
  BY <1>5, <1>6, <1>7, <1>9, <1>10, EditKeeps, Zenon
<1>12. QED
  BY <1>1, <1>7, <1>11 DEF FilesIInv, FaultIsKnown

LEMMA FilesStep ==
  ASSUME FilesIInv, [FilesNext]_filesVars
  PROVE  FilesIInv'
<1>1. CASE UNCHANGED filesVars
  BY <1>1, SameStands
<1>2. ASSUME NEW c \in Consoles, NEW absolute \in BOOLEAN, NEW parts \in Paths,
             Cd(c, absolute, parts)
      PROVE  FilesIInv'
  BY <1>2, CdStands
<1>3. ASSUME NEW c \in Consoles, NEW absolute \in BOOLEAN, NEW parts \in Paths,
             CdAstray(c, absolute, parts)
      PROVE  FilesIInv'
  BY <1>3, FaultsStand DEF CdAstray
<1>4. ASSUME NEW c \in Consoles, NEW n \in DirNames, Mkdir(c, n[1], n[2])
      PROVE  FilesIInv'
  BY <1>4, MkdirStands
<1>5. ASSUME NEW c \in Consoles, NEW n \in FileNames, NEW t \in BOOLEAN, Mkfile(c, n[1], n[2], t)
      PROVE  FilesIInv'
  BY <1>5, MkfileStands
<1>6. ASSUME NEW c \in Consoles, NEW base, NEW ext, Open(c, base, ext)
      PROVE  FilesIInv'
  BY <1>6, OpenStands
<1>7. ASSUME NEW c \in Consoles, Mkfs(c)
      PROVE  FilesIInv'
  BY <1>7, MkfsStands
<1>8. CASE Close
  BY <1>8, CloseStands
<1>9. CASE Save
  BY <1>9, SaveStands
<1>10. ASSUME NEW line \in Lines, Add(line) PROVE FilesIInv'
  BY <1>10, AddStands
<1>11. ASSUME NEW line \in Lines, Cls(line) PROVE FilesIInv'
  BY <1>11, ClsStands
<1>12. ASSUME NEW line \in Lines, NEW rest \in {<<>>, <<Garbage>>}, Ins(line, rest)
       PROVE  FilesIInv'
  BY <1>12, InsStands
<1>13. CASE ClsTooLong
  <2>1. <<>> \in Seq(Letters)
    OBVIOUS
  <2>2. QED
    BY <1>13, <2>1, EditedStands DEF ClsTooLong
<1>14. CASE Overrun
  BY <1>14, FaultsStand DEF Overrun
<1>15. QED
  BY <1>1, <1>2, <1>3, <1>4, <1>5, <1>6, <1>7, <1>8, <1>9, <1>10, <1>11, <1>12, <1>13, <1>14
  DEF FilesNext

\* No operation on files, directories and copies leaves the invariant: mkdir,
\* mkfile, mkfs, cd, and myfopen, myfclose, myfsave, myfwrite of file.c.
THEOREM FilesInductive == FilesSpec => []FilesIInv
<1>1. FilesInit => FilesIInv
  BY FilesStart
<1>2. FilesIInv /\ [FilesNext]_filesVars => FilesIInv'
  BY FilesStep
<1>3. QED
  BY <1>1, <1>2, PTL DEF FilesSpec


-----------------------------------------------------------------------------
(* What the invariant says of the properties. *)

LEMMA IsTyped ==
  ASSUME FilesIInv
  PROVE  FilesTypeOK
<1>1. PICK H : H = DOMAIN heads
  OBVIOUS
<1>2. Tables(dirs, H) /\ Seats(dirs, cur, heads) /\ FaultIsKnown
      /\ FilesStand(data, held, lost, setfdata, H, saved, typed)
  BY <1>1 DEF FilesIInv
<1>3. PICK R : R = TopsOf(H, setfdata)
  OBVIOUS
<1>4. /\ Laid(data, held, R, lost) /\ Fits(data)
      /\ H \subseteq Disk /\ DOMAIN saved = H /\ setfdata \in Buf \cup {0}
  BY <1>2, <1>3, Zenon DEF FilesStand
<1>5. dirs \in Seq([base : Bases \cup {DiskFile}, parent : Nat, table : Seq(Entry)])
  BY <1>2 DEF Tables, Directory
<1>6. \A d \in DOMAIN dirs : dirs[d].parent \in 0..d - 1 /\ Len(dirs[d].table) <= MaxFinfo
  BY <1>2 DEF Tables
<1>7. data \in Memory /\ held \subseteq Buf /\ lost \subseteq Disk
  BY <1>4 DEF Laid
<1>8. data \in [Disk \cup Buf -> [stat : SUBSET Status, orig : 0..DiskBlocks + Frames,
                                  next : 0..DiskBlocks + Frames, body : Seq(Letters)]]
  BY <1>7 DEF Memory, Places, Numbers
<1>9. \A b \in DOMAIN data : Len(data[b].body) <= Chars
  <2>1. DOMAIN data = Places
    BY <1>7 DEF Memory
  <2>2. QED
    BY <1>4, <2>1 DEF Fits
<1>10. setfdata \in held \cup {0}
  <2>1. CASE setfdata # 0
    <3>1. setfdata \in R /\ setfdata \in Buf
      BY <1>3, <1>4, <2>1 DEF TopsOf
    <3>2. setfdata \in Owned(data, setfdata)
      BY <1>4, <3>1, LaidIs
    <3>3. setfdata \in held
      BY <1>4, <3>1, <3>2 DEF Laid
    <3>4. QED
      BY <3>3
  <2>2. QED
    BY <2>1
<1>11. /\ cur \in [Consoles -> DOMAIN dirs]
       /\ heads \in [DOMAIN heads -> [dir : DOMAIN dirs, base : Bases, ext : Exts]]
  BY <1>2 DEF Seats
<1>12. fault \in {"none", "pointer", "table", "stack"}
  BY <1>2 DEF FaultIsKnown
<1>13. DOMAIN heads \subseteq Disk /\ DOMAIN saved = DOMAIN heads
  BY <1>1, <1>4
<1>14. QED
  BY <1>5, <1>6, <1>7, <1>8, <1>9, <1>10, <1>11, <1>12, <1>13 DEF FilesTypeOK

LEMMA TextsAreKept ==
  ASSUME FilesIInv
  PROVE  SavedIsKept /\ TypedIsKept
<1>1. PICK H : H = DOMAIN heads
  OBVIOUS
<1>2. FilesStand(data, held, lost, setfdata, H, saved, typed)
  BY <1>1 DEF FilesIInv
<1>3. /\ \A a \in H : Text(data, a) = saved[a]
      /\ setfdata # 0 => Text(data, setfdata) = typed
  BY <1>2, Zenon DEF FilesStand
<1>4. QED
  BY <1>1, <1>3 DEF SavedIsKept, TypedIsKept, View

LEMMA MarksAreRight ==
  ASSUME FilesIInv
  PROVE  OpenIsMarked
<1>1. PICK H : H = DOMAIN heads
  OBVIOUS
<1>2. FilesStand(data, held, lost, setfdata, H, saved, typed)
  BY <1>1 DEF FilesIInv
<1>3. /\ \A a \in H : "opened" \in data[a].stat <=> (setfdata # 0 /\ a = data[setfdata].orig)
      /\ setfdata # 0 => data[setfdata].orig \in H
  BY <1>2, Zenon DEF FilesStand
<1>4. CASE setfdata = 0
  <2>1. {a \in DOMAIN heads : "opened" \in data[a].stat} = {}
    BY <1>1, <1>3, <1>4
  <2>2. QED
    BY <1>4, <2>1 DEF OpenIsMarked
<1>5. CASE setfdata # 0
  <2>1. PICK o : o = data[setfdata].orig
    OBVIOUS
  <2>2. o \in H /\ \A a \in H : "opened" \in data[a].stat <=> a = o
    BY <1>3, <1>5, <2>1
  <2>3. {a \in DOMAIN heads : "opened" \in data[a].stat} = {o}
    BY <1>1, <2>2
  <2>4. QED
    BY <1>5, <2>1, <2>3 DEF OpenIsMarked
<1>6. QED
  BY <1>4, <1>5

LEMMA ChainsExact ==
  ASSUME FilesIInv
  PROVE  ChainsAreExact
<1>1. FilesStand(data, held, lost, setfdata, DOMAIN heads, saved, typed)
  BY DEF FilesIInv
<1>2. Laid(data, held, TopsOf(DOMAIN heads, setfdata), lost)
  BY <1>1, Zenon DEF FilesStand
<1>3. ASSUME NEW a \in DOMAIN heads \cup ({setfdata} \ {0})
      PROVE  /\ Len(Chain(data, a)) = Needed(Text(data, a))
             /\ BlockNum(data, a) = Len(Chain(data, a))
  <2>1. a \in TopsOf(DOMAIN heads, setfdata)
    BY DEF TopsOf
  <2>2. Found(data, Chain(data, a), a)
    BY <1>2, <2>1, LaidIs
  <2>3. QED
    BY <2>2 DEF Found
<1>4. QED
  BY <1>3, IsTyped, MarksAreRight DEF ChainsAreExact

LEMMA BlocksAreAccounted ==
  ASSUME FilesIInv
  PROVE  BlocksAccounted
<1>1. PICK H : H = DOMAIN heads
  OBVIOUS
<1>2. FilesStand(data, held, lost, setfdata, H, saved, typed)
  BY <1>1 DEF FilesIInv
<1>3. PICK R : R = TopsOf(H, setfdata)
  OBVIOUS
<1>4. Laid(data, held, R, lost) /\ H \subseteq Disk /\ setfdata \in Buf \cup {0}
  BY <1>2, <1>3, Zenon DEF FilesStand
<1>5. /\ H \subseteq R /\ setfdata \notin H
      /\ setfdata # 0 => setfdata \in R /\ setfdata \in Buf /\ setfdata \notin Disk
      /\ setfdata # 0 => R = H \cup {setfdata}
      /\ setfdata = 0 => R = H
  BY <1>2, <1>3, TopsIs
<1>6. /\ \A x \in Disk : "valid" \in data[x].stat <=> (x \in lost \/ \E a \in R : x \in Owned(data, a))
      /\ \A a \in R : Owned(data, a) \cap lost = {} /\ Owned(data, a) \subseteq Zone(a)
      /\ \A x \in Buf : x \in held <=> \E a \in R : x \in Owned(data, a)
      /\ lost \subseteq Disk /\ held \subseteq Buf
  BY <1>4 DEF Laid
<1>7. Disk \cap Buf = {}
  BY Bounds
<1>8. /\ \A a \in H : Owned(data, a) \subseteq Disk
      /\ setfdata # 0 => Owned(data, setfdata) \subseteq Buf
  BY <1>4, <1>5, <1>6 DEF Zone
<1> DEFINE inFiles == UNION {ToSet(Chain(data, a)) : a \in DOMAIN heads}
<1>9. \A x : x \in inFiles <=> \E a \in H : x \in Owned(data, a)
  BY <1>1 DEF Owned
<1>10. inFiles \subseteq Disk
  BY <1>8, <1>9
<1> HIDE DEF inFiles
<1>11. ASSUME NEW x \in Disk PROVE (\E a \in R : x \in Owned(data, a)) <=> x \in inFiles
  BY <1>5, <1>7, <1>8, <1>9
<1>12. {b \in Disk : "valid" \in data[b].stat} = inFiles \cup lost
  BY <1>6, <1>10, <1>11
<1>13. inFiles \cap lost = {}
  BY <1>5, <1>6, <1>9
<1>14. held = IF setfdata = 0 THEN {} ELSE ToSet(Chain(data, setfdata))
  <2>1. CASE setfdata = 0
    BY <1>5, <1>6, <1>7, <1>8, <2>1
  <2>2. CASE setfdata # 0
    <3>1. \A x \in Buf : x \in held <=> x \in Owned(data, setfdata)
      BY <1>5, <1>6, <1>7, <1>8, <2>2
    <3>2. held = Owned(data, setfdata)
      BY <1>6, <1>8, <2>2, <3>1
    <3>3. QED
      BY <2>2, <3>2 DEF Owned
  <2>3. QED
    BY <2>1, <2>2
<1>15. QED
  BY <1>12, <1>13, <1>14 DEF BlocksAccounted, inFiles

LEMMA NamesAreFound ==
  ASSUME FilesIInv
  PROVE  NamesFound
<1>1. Tables(dirs, DOMAIN heads)
  BY DEF FilesIInv
<1>2. ASSUME NEW d \in DOMAIN dirs, NEW i \in DOMAIN dirs[d].table, NEW e, e = dirs[d].table[i],
             e.checked, e.kind = "dir" => e.ext = NoExt
      PROVE  Search(d, e.base, e.ext) = i
  <2>1. Named(dirs[d].table)
    BY <1>1 DEF Tables
  <2>2. FirstMatch(dirs[d].table, e.base, e.ext) = i
    BY <1>2, <2>1 DEF Named
  <2>3. QED
    BY <2>2, SearchIs
<1>3. QED
  BY <1>2 DEF NamesFound

LEMMA PathsLeadBack ==
  ASSUME FilesIInv
  PROVE  PathLeadsBack
<1>1. Tables(dirs, DOMAIN heads)
  BY DEF FilesIInv
<1>2. QED
  BY <1>1, PathFound, Zenon DEF PathLeadsBack

\* Each file's text is the one that myfsave last saved, whatever was done since
\* to other files, to this file's copy and to the directories.
THEOREM FilesKeepTexts == FilesSpec => []SavedIsKept
<1>1. FilesIInv => SavedIsKept
  BY TextsAreKept
<1>2. QED
  BY <1>1, FilesInductive, PTL

\* The text that edit goes on with (myfread of the copy) is the text that the
\* file had when it was opened, with all edits since.
THEOREM CopyIsTyped == FilesSpec => []TypedIsKept
<1>1. FilesIInv => TypedIsKept
  BY TextsAreKept
<1>2. QED
  BY <1>1, FilesInductive, PTL

\* get_blocknum_myfdata, which counts full blocks, is the length of the chain,
\* and a file is marked as open exactly while its copy is edited.
THEOREM FilesExact == FilesSpec => []ChainsAreExact
<1>1. FilesIInv => ChainsAreExact
  BY ChainsExact
<1>2. QED
  BY <1>1, FilesInductive, PTL

\* A block of the disk is valid exactly if it is in a chain or was the last of
\* one that myfwrite cut; the blocks of memory are those of the copy.
THEOREM FilesAccount == FilesSpec => []BlocksAccounted
<1>1. FilesIInv => BlocksAccounted
  BY BlocksAreAccounted
<1>2. QED
  BY <1>1, FilesInductive, PTL

\* search_file finds each entry whose name was looked up before it was made.
THEOREM FilesNames == FilesSpec => []NamesFound
<1>1. FilesIInv => NamesFound
  BY NamesAreFound
<1>2. QED
  BY <1>1, FilesInductive, PTL

\* cd with the path that the prompt shows leads to the directory of the prompt,
\* unless mkfs has forgotten a directory on it or its name cannot be typed.
THEOREM FilesPaths == FilesSpec => []PathLeadsBack
<1>1. FilesIInv => PathLeadsBack
  BY PathsLeadBack
<1>2. QED
  BY <1>1, FilesInductive, PTL

-----------------------------------------------------------------------------
(* Tables: what the operations on free do to any sequence of blocks.       *)

Ends(b) == b.addr + b.size

\* Every entry ends before any later one begins.
Ascends(t) == \A i, j \in 1 .. Len(t) : i < j => Ends(t[i]) < t[j].addr

UnitsIn(t) == UNION {AreaUnits(t[i]) : i \in 1 .. Len(t)}

\* The inductive invariant: neighbours are apart, and so are all entries.
Ascending == Ascends(free)

IInv == TypeOK /\ Ascending /\ Accounted

-----------------------------------------------------------------------------
LEMMA Blocks ==
  ASSUME NEW b \in Block
  PROVE  /\ b.addr \in Nat /\ b.addr > 0 /\ b.size \in Nat /\ b.size > 0
         /\ Ends(b) \in Nat /\ Ends(b) > b.addr
         /\ \A u : u \in AreaUnits(b) <=> u \in Nat /\ b.addr <= u /\ u < Ends(b)
<1>1. b.addr \in Nat /\ b.addr > 0 /\ b.size \in Nat /\ b.size > 0
  BY DEF Block
<1>2. QED
  BY <1>1, SMT DEF Ends, AreaUnits

LEMMA Entries ==
  ASSUME NEW t \in Seq(Block)
  PROVE  /\ Len(t) \in Nat /\ DOMAIN t = 1 .. Len(t)
         /\ \A i \in 1 .. Len(t) :
               /\ t[i] \in Block
               /\ t[i].addr \in Nat /\ t[i].addr > 0 /\ t[i].size \in Nat /\ t[i].size > 0
               /\ Ends(t[i]) \in Nat /\ Ends(t[i]) > t[i].addr
         /\ \A u : u \in UnitsIn(t) <=>
               /\ u \in Nat
               /\ \E i \in 1 .. Len(t) : t[i].addr <= u /\ u < Ends(t[i])
<1>1. Len(t) \in Nat /\ DOMAIN t = 1 .. Len(t) /\ \A i \in 1 .. Len(t) : t[i] \in Block
  BY SMT
<1>2. \A i \in 1 .. Len(t) :
         /\ t[i].addr \in Nat /\ t[i].addr > 0 /\ t[i].size \in Nat /\ t[i].size > 0
         /\ Ends(t[i]) \in Nat /\ Ends(t[i]) > t[i].addr
         /\ \A u : u \in AreaUnits(t[i]) <=> u \in Nat /\ t[i].addr <= u /\ u < Ends(t[i])
  BY <1>1, Blocks
<1>3. \A u : u \in UnitsIn(t) <=> \E i \in 1 .. Len(t) : u \in AreaUnits(t[i])
  BY DEF UnitsIn
<1>4. \A u : u \in UnitsIn(t) <=>
         /\ u \in Nat
         /\ \E i \in 1 .. Len(t) : t[i].addr <= u /\ u < Ends(t[i])
  BY <1>2, <1>3
<1>5. QED
  BY <1>1, <1>2, <1>4

\* One entry is removed: those after it move up by one.
LEMMA Removed ==
  ASSUME NEW t \in Seq(Block), NEW i \in 1 .. Len(t)
  PROVE  LET r == RemoveAt(t, i)
         IN  /\ r \in Seq(Block) /\ Len(r) = Len(t) - 1
             /\ \A j \in 1 .. Len(t) - 1 : j < i => r[j] = t[j]
             /\ \A j \in 1 .. Len(t) - 1 : j >= i => r[j] = t[j + 1]
<1>1. Len(t) \in Nat /\ i \in Int /\ i >= 1 /\ i <= Len(t) /\ \A j \in 1 .. Len(t) : t[j] \in Block
  BY Entries
<1>2. DEFINE s1 == SubSeq(t, 1, i - 1)
             s2 == SubSeq(t, i + 1, Len(t))
<1>3. \A j \in 1 .. i - 1 : t[j] \in Block
  BY <1>1
<1>4. s1 \in Seq(Block) /\ Len(s1) = i - 1 /\ \A j \in 1 .. i - 1 : s1[j] = t[j]
  <2>1. i - 1 \in Int /\ 1 \in Int
    BY <1>1
  <2>2. /\ s1 \in Seq(Block)
        /\ Len(s1) = IF 1 <= i - 1 THEN (i - 1) - 1 + 1 ELSE 0
        /\ \A j \in 1 .. (i - 1) - 1 + 1 : s1[j] = t[1 + j - 1]
    BY <2>1, <1>3, SubSeqProperties
  <2>3. \A j \in 1 .. i - 1 : s1[j] = t[j]
    <3>1. \A j \in 1 .. i - 1 : 1 + j - 1 = j /\ j \in 1 .. (i - 1) - 1 + 1
      BY <1>1
    <3>2. QED
      BY <3>1, <2>2
  <2>4. QED
    BY <2>2, <2>3, <1>1
<1>5. s2 \in Seq(Block) /\ Len(s2) = Len(t) - i /\ \A j \in 1 .. Len(t) - i : s2[j] = t[i + j]
  <2>1. i + 1 \in Int /\ Len(t) \in Int /\ \A j \in i + 1 .. Len(t) : t[j] \in Block
    BY <1>1
  <2>2. /\ s2 \in Seq(Block)
        /\ Len(s2) = IF i + 1 <= Len(t) THEN Len(t) - (i + 1) + 1 ELSE 0
        /\ \A j \in 1 .. Len(t) - (i + 1) + 1 : s2[j] = t[i + 1 + j - 1]
    BY <2>1, SubSeqProperties
  <2>3. \A j \in 1 .. Len(t) - i : s2[j] = t[i + j]
    <3>1. \A j \in 1 .. Len(t) - i : i + 1 + j - 1 = i + j /\ j \in 1 .. Len(t) - (i + 1) + 1
      BY <1>1
    <3>2. QED
      BY <3>1, <2>2
  <2>4. QED
    BY <2>2, <2>3, <1>1
<1>6. RemoveAt(t, i) = s1 \o s2
  BY DEF RemoveAt
<1>7. HIDE DEF s1, s2
<1>8. /\ s1 \o s2 \in Seq(Block)
      /\ Len(s1 \o s2) = Len(s1) + Len(s2)
      /\ \A j \in 1 .. Len(s1) + Len(s2) :
            (s1 \o s2)[j] = IF j <= Len(s1) THEN s1[j] ELSE s2[j - Len(s1)]
  BY <1>4, <1>5, ConcatProperties
<1>9. Len(s1) + Len(s2) = Len(t) - 1
  BY <1>1, <1>4, <1>5
<1>10. ASSUME NEW j \in 1 .. Len(t) - 1, j < i
       PROVE  (s1 \o s2)[j] = t[j]
  <2>1. j <= Len(s1) /\ j \in 1 .. Len(s1) + Len(s2) /\ j \in 1 .. i - 1
    BY <1>1, <1>4, <1>9, <1>10
  <2>2. QED
    BY <2>1, <1>4, <1>8
<1>11. ASSUME NEW j \in 1 .. Len(t) - 1, j >= i
       PROVE  (s1 \o s2)[j] = t[j + 1]
  <2>1. /\ ~ (j <= Len(s1)) /\ j \in 1 .. Len(s1) + Len(s2)
        /\ j - Len(s1) \in 1 .. Len(t) - i /\ i + (j - Len(s1)) = j + 1
    BY <1>1, <1>4, <1>9, <1>11
  <2>2. QED
    BY <2>1, <1>5, <1>8
<1>12. QED
  BY <1>6, <1>8, <1>9, <1>10, <1>11

\* One entry is inserted: those from its place on move down by one.
LEMMA Inserted ==
  ASSUME NEW t \in Seq(Block), NEW i \in 1 .. Len(t) + 1, NEW b \in Block
  PROVE  LET r == InsertAt(t, i, b)
         IN  /\ r \in Seq(Block) /\ Len(r) = Len(t) + 1
             /\ \A j \in 1 .. Len(t) + 1 : j < i => r[j] = t[j]
             /\ r[i] = b
             /\ \A j \in 1 .. Len(t) + 1 : j > i => r[j] = t[j - 1]
<1>1. Len(t) \in Nat /\ i \in Int /\ i >= 1 /\ i <= Len(t) + 1 /\ \A j \in 1 .. Len(t) : t[j] \in Block
  BY Entries
<1>2. DEFINE s1 == SubSeq(t, 1, i - 1)
             s2 == SubSeq(t, i, Len(t))
<1>4. s1 \in Seq(Block) /\ Len(s1) = i - 1 /\ \A j \in 1 .. i - 1 : s1[j] = t[j]
  <2>1. i - 1 \in Int /\ 1 \in Int /\ \A j \in 1 .. i - 1 : t[j] \in Block
    BY <1>1
  <2>2. /\ s1 \in Seq(Block)
        /\ Len(s1) = IF 1 <= i - 1 THEN (i - 1) - 1 + 1 ELSE 0
        /\ \A j \in 1 .. (i - 1) - 1 + 1 : s1[j] = t[1 + j - 1]
    BY <2>1, SubSeqProperties
  <2>3. \A j \in 1 .. i - 1 : s1[j] = t[j]
    <3>1. \A j \in 1 .. i - 1 : 1 + j - 1 = j /\ j \in 1 .. (i - 1) - 1 + 1
      BY <1>1
    <3>2. QED
      BY <3>1, <2>2
  <2>4. QED
    BY <2>2, <2>3, <1>1
<1>5. s2 \in Seq(Block) /\ Len(s2) = Len(t) - i + 1 /\ \A j \in 1 .. Len(t) - i + 1 : s2[j] = t[i + j - 1]
  <2>1. i \in Int /\ Len(t) \in Int /\ \A j \in i .. Len(t) : t[j] \in Block
    BY <1>1
  <2>2. /\ s2 \in Seq(Block)
        /\ Len(s2) = IF i <= Len(t) THEN Len(t) - i + 1 ELSE 0
        /\ \A j \in 1 .. Len(t) - i + 1 : s2[j] = t[i + j - 1]
    BY <2>1, SubSeqProperties
  <2>4. QED
    BY <2>2, <1>1
<1>6. InsertAt(t, i, b) = (s1 \o <<b>>) \o s2
  BY DEF InsertAt
<1>7. <<b>> \in Seq(Block) /\ Len(<<b>>) = 1 /\ <<b>>[1] = b
  OBVIOUS
<1>8. HIDE DEF s1, s2
<1>9. DEFINE m == s1 \o <<b>>
<1>10. /\ m \in Seq(Block) /\ Len(m) = i
       /\ \A j \in 1 .. i - 1 : m[j] = t[j]
       /\ m[i] = b
  <2>1. DEFINE e == <<b>>
  <2>2. e \in Seq(Block) /\ Len(e) = 1 /\ e[1] = b
    BY <1>7
  <2>3. HIDE DEF e
  <2>4. /\ s1 \o e \in Seq(Block)
        /\ Len(s1 \o e) = Len(s1) + Len(e)
        /\ \A j \in 1 .. Len(s1) + Len(e) :
              (s1 \o e)[j] = IF j <= Len(s1) THEN s1[j] ELSE e[j - Len(s1)]
    BY <1>4, <2>2, ConcatProperties
  <2>5. Len(s1) + Len(e) = i
    BY <1>1, <1>4, <2>2
  <2>6. ASSUME NEW j \in 1 .. i - 1 PROVE (s1 \o e)[j] = t[j]
    <3>1. j <= Len(s1) /\ j \in 1 .. Len(s1) + Len(e)
      BY <1>1, <1>4, <2>5, <2>6
    <3>2. QED
      BY <3>1, <2>4, <1>4
  <2>7. (s1 \o e)[i] = b
    <3>1. ~ (i <= Len(s1)) /\ i - Len(s1) = 1 /\ i \in 1 .. Len(s1) + Len(e)
      BY <1>1, <1>4, <2>5
    <3>2. QED
      BY <3>1, <2>2, <2>4
  <2>8. m = s1 \o e
    BY DEF e
  <2>9. QED
    BY <2>4, <2>5, <2>6, <2>7, <2>8
<1>11. HIDE DEF m
<1>12. /\ m \o s2 \in Seq(Block)
       /\ Len(m \o s2) = Len(m) + Len(s2)
       /\ \A j \in 1 .. Len(m) + Len(s2) :
             (m \o s2)[j] = IF j <= Len(m) THEN m[j] ELSE s2[j - Len(m)]
  BY <1>5, <1>10, ConcatProperties
<1>13. Len(m) + Len(s2) = Len(t) + 1
  BY <1>1, <1>5, <1>10
<1>14. ASSUME NEW j \in 1 .. Len(t) + 1, j <= i PROVE (m \o s2)[j] = m[j]
  BY <1>1, <1>10, <1>12, <1>13, <1>14
<1>15. ASSUME NEW j \in 1 .. Len(t) + 1, j > i PROVE (m \o s2)[j] = t[j - 1]
  <2>1. /\ ~ (j <= Len(m)) /\ j - Len(m) \in 1 .. Len(t) - i + 1
        /\ i + (j - Len(m)) - 1 = j - 1 /\ j \in 1 .. Len(m) + Len(s2)
    BY <1>1, <1>10, <1>13, <1>15
  <2>2. QED
    BY <2>1, <1>5, <1>12
<1>16. ASSUME NEW j \in 1 .. Len(t) + 1, j < i PROVE (m \o s2)[j] = t[j]
  <2>1. j \in 1 .. i - 1 /\ j <= i
    BY <1>1, <1>16
  <2>2. QED
    BY <2>1, <1>10, <1>14
<1>17. (m \o s2)[i] = b
  BY <1>1, <1>10, <1>14
<1>18. InsertAt(t, i, b) = m \o s2
  BY <1>6 DEF m
<1>19. QED
  BY <1>12, <1>13, <1>15, <1>16, <1>17, <1>18

-----------------------------------------------------------------------------
(* What each change of the table does to the units that are free. *)

\* Two entries of an ascending table do not share a unit.
LEMMA OneEntry ==
  ASSUME NEW t \in Seq(Block), Ascends(t), NEW i \in 1 .. Len(t), NEW j \in 1 .. Len(t),
         NEW u \in Nat, t[i].addr <= u, u <= Ends(t[i]), t[j].addr <= u, u <= Ends(t[j])
  PROVE  i = j
<1>1. i \in Nat /\ j \in Nat /\ t[i].addr \in Nat /\ t[j].addr \in Nat
      /\ Ends(t[i]) \in Nat /\ Ends(t[j]) \in Nat
  BY Entries
<1>2. CASE i < j
  <2>1. Ends(t[i]) < t[j].addr
    BY <1>2 DEF Ascends
  <2>2. QED
    BY <2>1, <1>1
<1>3. CASE j < i
  <2>1. Ends(t[j]) < t[i].addr
    BY <1>3 DEF Ascends
  <2>2. QED
    BY <2>1, <1>1
<1>4. QED
  BY <1>1, <1>2, <1>3

\* An entry that is used up goes.
LEMMA TakesAll ==
  ASSUME NEW t \in Seq(Block), Ascends(t), NEW i \in 1 .. Len(t)
  PROVE  LET r == RemoveAt(t, i)
         IN  /\ r \in Seq(Block) /\ Len(r) = Len(t) - 1 /\ Ascends(r)
             /\ UnitsIn(r) = UnitsIn(t) \ AreaUnits(t[i])
<1>1. DEFINE r == RemoveAt(t, i)
<1>2. /\ r \in Seq(Block) /\ Len(r) = Len(t) - 1
      /\ \A j \in 1 .. Len(t) - 1 : j < i => r[j] = t[j]
      /\ \A j \in 1 .. Len(t) - 1 : j >= i => r[j] = t[j + 1]
  BY Removed
<1>3. HIDE DEF r
<1>4. Len(t) \in Nat /\ i \in Nat /\ i >= 1 /\ i <= Len(t)
  BY Entries
<1>5. ASSUME NEW j \in 1 .. Len(r)
      PROVE  \E k \in 1 .. Len(t) : /\ k # i /\ r[j] = t[k]
                                    /\ k = IF j < i THEN j ELSE j + 1
  <2>1. CASE j < i
    BY <2>1, <1>2, <1>4
  <2>2. CASE ~ (j < i)
    <3>1. j + 1 \in 1 .. Len(t) /\ j + 1 # i /\ j >= i /\ j \in 1 .. Len(t) - 1
      BY <2>2, <1>2, <1>4
    <3>2. QED
      BY <2>2, <3>1, <1>2
  <2>3. QED
    BY <2>1, <2>2
<1>6. ASSUME NEW k \in 1 .. Len(t), k # i
      PROVE  \E j \in 1 .. Len(r) : r[j] = t[k]
  <2>1. CASE k < i
    BY <2>1, <1>2, <1>4
  <2>2. CASE ~ (k < i)
    <3>1. k - 1 \in 1 .. Len(t) - 1 /\ k - 1 >= i /\ (k - 1) + 1 = k /\ k - 1 \in 1 .. Len(r)
      BY <2>2, <1>2, <1>4, <1>6
    <3>2. r[k - 1] = t[k]
      BY <3>1, <1>2
    <3>3. QED
      BY <3>1, <3>2
  <2>3. QED
    BY <2>1, <2>2
<1>7. ASSUME NEW j \in 1 .. Len(r), NEW l \in 1 .. Len(r), j < l
      PROVE  Ends(r[j]) < r[l].addr
  <2>1. PICK k \in 1 .. Len(t) : r[j] = t[k] /\ k = IF j < i THEN j ELSE j + 1
    BY <1>5
  <2>2. PICK m \in 1 .. Len(t) : r[l] = t[m] /\ m = IF l < i THEN l ELSE l + 1
    BY <1>5
  <2>3. k < m
    BY <1>4, <1>7, <2>1, <2>2
  <2>4. QED
    BY <2>1, <2>2, <2>3 DEF Ascends
<1>8. Ascends(r)
  BY <1>7 DEF Ascends
<1>9. ASSUME NEW u PROVE u \in UnitsIn(r) <=> u \in UnitsIn(t) /\ u \notin AreaUnits(t[i])
  <2>1. ASSUME u \in UnitsIn(r) PROVE u \in UnitsIn(t) /\ u \notin AreaUnits(t[i])
    <3>1. PICK j \in 1 .. Len(r) : r[j].addr <= u /\ u < Ends(r[j]) /\ u \in Nat
      BY <2>1, <1>2, Entries
    <3>2. PICK k \in 1 .. Len(t) : k # i /\ r[j] = t[k]
      BY <1>5
    <3>3. t[k].addr <= u /\ u < Ends(t[k]) /\ u \in Nat
      BY <3>1, <3>2
    <3>4. u \in UnitsIn(t)
      BY <3>3, Entries
    <3>5. ASSUME u \in AreaUnits(t[i]) PROVE FALSE
      <4>1. t[i] \in Block /\ t[k] \in Block
        BY Entries
      <4>2. t[i].addr <= u /\ u < Ends(t[i]) /\ Ends(t[i]) \in Nat /\ Ends(t[k]) \in Nat
        BY <3>5, <4>1, Blocks
      <4>3. u <= Ends(t[i]) /\ u <= Ends(t[k])
        BY <3>3, <4>2
      <4>4. k = i
        BY <3>3, <4>2, <4>3, OneEntry
      <4>5. QED
        BY <4>4, <3>2
    <3>6. QED
      BY <3>4, <3>5
  <2>2. ASSUME u \in UnitsIn(t), u \notin AreaUnits(t[i]) PROVE u \in UnitsIn(r)
    <3>1. PICK k \in 1 .. Len(t) : t[k].addr <= u /\ u < Ends(t[k]) /\ u \in Nat
      BY <2>2, Entries
    <3>2. k # i
      <4>1. t[i] \in Block
        BY Entries
      <4>2. QED
        BY <3>1, <4>1, <2>2, Blocks
    <3>3. PICK j \in 1 .. Len(r) : r[j] = t[k]
      BY <3>2, <1>6
    <3>4. QED
      BY <3>1, <3>3, <1>2, Entries
  <2>3. QED
    BY <2>1, <2>2
<1>10. UnitsIn(r) = UnitsIn(t) \ AreaUnits(t[i])
  BY <1>9
<1>11. QED
  BY <1>2, <1>8, <1>10 DEF r

\* An entry is replaced by one that stays clear of its neighbours.
LEMMA Replaced ==
  ASSUME NEW t \in Seq(Block), Ascends(t), NEW i \in 1 .. Len(t), NEW e \in Block,
         \A j \in 1 .. Len(t) : j < i => Ends(t[j]) < e.addr,
         \A j \in 1 .. Len(t) : i < j => Ends(e) < t[j].addr
  PROVE  LET r == [t EXCEPT ![i] = e]
         IN  /\ r \in Seq(Block) /\ Len(r) = Len(t) /\ Ascends(r)
             /\ \A u : u \in UnitsIn(r) <=>
                  \/ u \in UnitsIn(t) /\ u \notin AreaUnits(t[i])
                  \/ u \in AreaUnits(e)
<1>1. DEFINE r == [t EXCEPT ![i] = e]
<1>2. /\ r \in Seq(Block) /\ Len(r) = Len(t)
      /\ r[i] = e /\ \A j \in 1 .. Len(t) : j # i => r[j] = t[j]
  BY SMT
<1>3. HIDE DEF r
<1>4. Len(t) \in Nat /\ i \in Nat
  BY Entries
<1>5. ASSUME NEW j \in 1 .. Len(r), NEW l \in 1 .. Len(r), j < l
      PROVE  Ends(r[j]) < r[l].addr
  <2>1. CASE j = i
    <3>1. l # i /\ i < l
      BY <2>1, <1>4, <1>5
    <3>2. QED
      BY <2>1, <3>1, <1>2
  <2>2. CASE l = i
    <3>1. j # i /\ j < i
      BY <2>2, <1>4, <1>5
    <3>2. QED
      BY <2>2, <3>1, <1>2
  <2>3. CASE j # i /\ l # i
    BY <2>3, <1>2, <1>5 DEF Ascends
  <2>4. QED
    BY <2>1, <2>2, <2>3
<1>6. Ascends(r)
  BY <1>5 DEF Ascends
<1>7. ASSUME NEW u, u \in UnitsIn(r)
      PROVE  (u \notin AreaUnits(e)) => (u \in UnitsIn(t) /\ u \notin AreaUnits(t[i]))
  <2>1. SUFFICES ASSUME u \notin AreaUnits(e)
                 PROVE  u \in UnitsIn(t) /\ u \notin AreaUnits(t[i])
    OBVIOUS
  <2>2. PICK j \in 1 .. Len(r) : r[j].addr <= u /\ u < Ends(r[j]) /\ u \in Nat
    BY <1>7, <1>2, Entries
  <2>3. j # i
    BY <2>1, <2>2, <1>2, Blocks
  <2>4. r[j] = t[j] /\ j \in 1 .. Len(t)
    BY <2>3, <1>2
  <2>5. t[j].addr <= u /\ u < Ends(t[j])
    BY <2>2, <2>4
  <2>6. u \in UnitsIn(t)
    BY <2>2, <2>4, <2>5, Entries
  <2>7. ASSUME u \in AreaUnits(t[i]) PROVE FALSE
    <3>1. t[i] \in Block /\ t[j] \in Block
      BY <2>4, Entries
    <3>2. t[i].addr <= u /\ u < Ends(t[i]) /\ Ends(t[i]) \in Nat /\ Ends(t[j]) \in Nat
      BY <2>7, <3>1, Blocks
    <3>3. u <= Ends(t[i]) /\ u <= Ends(t[j])
      BY <2>2, <2>5, <3>2
    <3>4. QED
      BY <2>2, <2>3, <2>4, <2>5, <3>2, <3>3, OneEntry
  <2>8. QED
    BY <2>6, <2>7
<1>8. ASSUME NEW u, u \in UnitsIn(t), u \notin AreaUnits(t[i])
      PROVE  u \in UnitsIn(r)
  <2>1. PICK j \in 1 .. Len(t) : t[j].addr <= u /\ u < Ends(t[j]) /\ u \in Nat
    BY <1>8, Entries
  <2>2. j # i
    <3>1. t[i] \in Block
      BY Entries
    <3>2. QED
      BY <2>1, <3>1, <1>8, Blocks
  <2>3. QED
    BY <2>1, <2>2, <1>2, Entries
<1>9. ASSUME NEW u, u \in AreaUnits(e)
      PROVE  u \in UnitsIn(r)
  <2>1. u \in Nat /\ e.addr <= u /\ u < Ends(e)
    BY <1>9, Blocks
  <2>2. QED
    BY <2>1, <1>2, Entries
<1>10. QED
  BY <1>2, <1>6, <1>7, <1>8, <1>9 DEF r

\* An entry is inserted that stays clear of its neighbours.
LEMMA Inserts ==
  ASSUME NEW t \in Seq(Block), Ascends(t), NEW i \in 1 .. Len(t) + 1, NEW b \in Block,
         \A j \in 1 .. Len(t) : j < i => Ends(t[j]) < b.addr,
         \A j \in 1 .. Len(t) : i <= j => Ends(b) < t[j].addr
  PROVE  LET r == InsertAt(t, i, b)
         IN  /\ r \in Seq(Block) /\ Len(r) = Len(t) + 1 /\ Ascends(r)
             /\ UnitsIn(r) = UnitsIn(t) \cup AreaUnits(b)
<1>1. DEFINE r == InsertAt(t, i, b)
<1>2. /\ r \in Seq(Block) /\ Len(r) = Len(t) + 1
      /\ \A j \in 1 .. Len(t) + 1 : j < i => r[j] = t[j]
      /\ r[i] = b
      /\ \A j \in 1 .. Len(t) + 1 : j > i => r[j] = t[j - 1]
  BY Inserted
<1>3. HIDE DEF r
<1>4. Len(t) \in Nat /\ i \in Nat /\ i >= 1 /\ i <= Len(t) + 1
  BY Entries
<1>5. ASSUME NEW j \in 1 .. Len(r), j # i
      PROVE  \E k \in 1 .. Len(t) : r[j] = t[k] /\ k = IF j < i THEN j ELSE j - 1
  <2>1. CASE j < i
    BY <2>1, <1>2, <1>4
  <2>2. CASE ~ (j < i)
    <3>1. j - 1 \in 1 .. Len(t) /\ j > i /\ j \in 1 .. Len(t) + 1
      BY <2>2, <1>2, <1>4, <1>5
    <3>2. QED
      BY <2>2, <3>1, <1>2
  <2>3. QED
    BY <2>1, <2>2
<1>6. ASSUME NEW k \in 1 .. Len(t)
      PROVE  \E j \in 1 .. Len(r) : r[j] = t[k]
  <2>1. CASE k < i
    <3>1. k \in 1 .. Len(t) + 1 /\ k \in 1 .. Len(r)
      BY <2>1, <1>2, <1>4
    <3>2. QED
      BY <2>1, <3>1, <1>2
  <2>2. CASE ~ (k < i)
    <3>1. k + 1 \in 1 .. Len(t) + 1 /\ k + 1 > i /\ (k + 1) - 1 = k /\ k + 1 \in 1 .. Len(r)
      BY <2>2, <1>2, <1>4
    <3>2. r[k + 1] = t[k]
      BY <3>1, <1>2
    <3>3. QED
      BY <3>1, <3>2
  <2>3. QED
    BY <2>1, <2>2
<1>7. ASSUME NEW j \in 1 .. Len(r), NEW l \in 1 .. Len(r), j < l
      PROVE  Ends(r[j]) < r[l].addr
  <2>1. CASE j = i
    <3>1. l # i
      BY <2>1, <1>4, <1>7
    <3>2. PICK m \in 1 .. Len(t) : r[l] = t[m] /\ m = IF l < i THEN l ELSE l - 1
      BY <3>1, <1>5
    <3>3. i <= m
      BY <2>1, <3>1, <3>2, <1>4, <1>7
    <3>4. QED
      BY <2>1, <3>2, <3>3, <1>2
  <2>2. CASE l = i
    <3>1. j # i
      BY <2>2, <1>4, <1>7
    <3>2. PICK k \in 1 .. Len(t) : r[j] = t[k] /\ k = IF j < i THEN j ELSE j - 1
      BY <3>1, <1>5
    <3>3. k < i
      BY <2>2, <3>1, <3>2, <1>4, <1>7
    <3>4. QED
      BY <2>2, <3>2, <3>3, <1>2
  <2>3. CASE j # i /\ l # i
    <3>1. PICK k \in 1 .. Len(t) : r[j] = t[k] /\ k = IF j < i THEN j ELSE j - 1
      BY <2>3, <1>5
    <3>2. PICK m \in 1 .. Len(t) : r[l] = t[m] /\ m = IF l < i THEN l ELSE l - 1
      BY <2>3, <1>5
    <3>3. k < m
      BY <2>3, <3>1, <3>2, <1>4, <1>7
    <3>4. QED
      BY <3>1, <3>2, <3>3 DEF Ascends
  <2>4. QED
    BY <2>1, <2>2, <2>3
<1>8. Ascends(r)
  BY <1>7 DEF Ascends
<1>9. ASSUME NEW u, u \in UnitsIn(r), u \notin AreaUnits(b)
      PROVE  u \in UnitsIn(t)
  <2>1. PICK j \in 1 .. Len(r) : r[j].addr <= u /\ u < Ends(r[j]) /\ u \in Nat
    BY <1>9, <1>2, Entries
  <2>2. j # i
    BY <2>1, <1>2, <1>9, Blocks
  <2>3. PICK k \in 1 .. Len(t) : r[j] = t[k]
    BY <2>2, <1>5
  <2>4. QED
    BY <2>1, <2>3, Entries
<1>10. ASSUME NEW u, u \in UnitsIn(t)
       PROVE  u \in UnitsIn(r)
  <2>1. PICK k \in 1 .. Len(t) : t[k].addr <= u /\ u < Ends(t[k]) /\ u \in Nat
    BY <1>10, Entries
  <2>2. PICK j \in 1 .. Len(r) : r[j] = t[k]
    BY <1>6
  <2>3. QED
    BY <2>1, <2>2, <1>2, Entries
<1>11. ASSUME NEW u, u \in AreaUnits(b)
       PROVE  u \in UnitsIn(r)
  <2>1. u \in Nat /\ b.addr <= u /\ u < Ends(b) /\ i \in 1 .. Len(r)
    BY <1>2, <1>4, <1>11, Blocks
  <2>2. QED
    BY <2>1, <1>2, Entries
<1>12. UnitsIn(r) = UnitsIn(t) \cup AreaUnits(b)
  BY <1>9, <1>10, <1>11
<1>13. QED
  BY <1>2, <1>8, <1>12 DEF r

\* A block that fills the gap between two entries makes one of them.
LEMMA ClosesGap ==
  ASSUME NEW t \in Seq(Block), Ascends(t), NEW i \in 2 .. Len(t), NEW e \in Block,
         e.addr = t[i - 1].addr, Ends(e) = Ends(t[i])
  PROVE  LET r == RemoveAt([t EXCEPT ![i - 1] = e], i)
         IN  /\ r \in Seq(Block) /\ Len(r) = Len(t) - 1 /\ Ascends(r)
             /\ \A u : u \in UnitsIn(r) <=> u \in UnitsIn(t) \/ u \in AreaUnits(e)
<1>1. DEFINE s == [t EXCEPT ![i - 1] = e]
             r == RemoveAt(s, i)
             q == RemoveAt(t, i)
             p == [q EXCEPT ![i - 1] = e]
<1>2. Len(t) \in Nat /\ i \in Nat /\ i >= 2 /\ i <= Len(t) /\ i \in 1 .. Len(t)
      /\ i - 1 \in 1 .. Len(t) /\ i - 1 \in 1 .. Len(t) - 1 /\ i - 1 < i
  BY Entries
<1>3. /\ s \in Seq(Block) /\ Len(s) = Len(t) /\ s[i - 1] = e
      /\ \A j \in 1 .. Len(t) : j # i - 1 => s[j] = t[j]
  BY <1>2, SMT
<1>4. /\ q \in Seq(Block) /\ Len(q) = Len(t) - 1 /\ Ascends(q)
      /\ UnitsIn(q) = UnitsIn(t) \ AreaUnits(t[i])
  BY <1>2, TakesAll
<1>5. /\ \A j \in 1 .. Len(t) - 1 : j < i => q[j] = t[j]
      /\ \A j \in 1 .. Len(t) - 1 : j >= i => q[j] = t[j + 1]
  BY <1>2, Removed
<1>6. HIDE DEF s, q
<1>7. /\ r \in Seq(Block) /\ Len(r) = Len(t) - 1
      /\ \A j \in 1 .. Len(t) - 1 : j < i => r[j] = s[j]
      /\ \A j \in 1 .. Len(t) - 1 : j >= i => r[j] = s[j + 1]
  BY <1>2, <1>3, Removed
<1>8. HIDE DEF r
<1>9. /\ p \in Seq(Block) /\ Len(p) = Len(t) - 1 /\ p[i - 1] = e
      /\ \A j \in 1 .. Len(t) - 1 : j # i - 1 => p[j] = q[j]
  <2>1. i - 1 \in 1 .. Len(q)
    BY <1>2, <1>4
  <2>2. /\ p \in Seq(Block) /\ Len(p) = Len(q) /\ p[i - 1] = e
        /\ \A j \in 1 .. Len(q) : j # i - 1 => p[j] = q[j]
    BY <2>1, <1>4, SMT
  <2>3. QED
    BY <2>2, <1>4
<1>10. \A j \in 1 .. Len(t) - 1 : r[j] = p[j]
  <2>1. ASSUME NEW j \in 1 .. Len(t) - 1 PROVE r[j] = p[j]
    <3>1. CASE j = i - 1
      BY <3>1, <1>2, <1>3, <1>7, <1>9
    <3>2. CASE j < i /\ j # i - 1
      <4>1. r[j] = s[j] /\ p[j] = q[j] /\ q[j] = t[j] /\ j \in 1 .. Len(t)
        BY <3>2, <1>2, <1>5, <1>7, <1>9
      <4>2. QED
        BY <3>2, <4>1, <1>3
    <3>3. CASE ~ (j < i)
      <4>1. j >= i /\ j # i - 1 /\ j + 1 # i - 1 /\ j + 1 \in 1 .. Len(t)
        BY <3>3, <1>2
      <4>2. r[j] = s[j + 1] /\ s[j + 1] = t[j + 1] /\ p[j] = q[j] /\ q[j] = t[j + 1]
        BY <4>1, <1>3, <1>5, <1>7, <1>9
      <4>3. QED
        BY <4>2
    <3>4. QED
      BY <3>1, <3>2, <3>3
  <2>2. QED
    BY <2>1
<1>11. r = p
  BY <1>7, <1>9, <1>10, SeqEqual
<1>12. /\ t[i] \in Block /\ t[i - 1] \in Block
       /\ \A j \in 1 .. Len(t) : Ends(t[j]) \in Nat /\ t[j].addr \in Nat
  BY <1>2, Entries
<1>13. i - 1 \in 1 .. Len(q) /\ q[i - 1] = t[i - 1]
  BY <1>2, <1>4, <1>5
<1>14. \A j \in 1 .. Len(q) : j < i - 1 => Ends(q[j]) < e.addr
  <2>1. ASSUME NEW j \in 1 .. Len(q), j < i - 1 PROVE Ends(q[j]) < e.addr
    <3>1. q[j] = t[j] /\ j \in 1 .. Len(t)
      BY <2>1, <1>2, <1>4, <1>5
    <3>2. QED
      BY <2>1, <3>1, <1>2 DEF Ascends
  <2>2. QED
    BY <2>1
<1>15. \A j \in 1 .. Len(q) : i - 1 < j => Ends(e) < q[j].addr
  <2>1. ASSUME NEW j \in 1 .. Len(q), i - 1 < j PROVE Ends(e) < q[j].addr
    <3>1. q[j] = t[j + 1] /\ j + 1 \in 1 .. Len(t) /\ i < j + 1
      BY <2>1, <1>2, <1>4, <1>5
    <3>2. QED
      BY <3>1, <1>2 DEF Ascends
  <2>2. QED
    BY <2>1
<1>16. /\ p \in Seq(Block) /\ Ascends(p)
       /\ \A u : u \in UnitsIn(p) <=>
            \/ u \in UnitsIn(q) /\ u \notin AreaUnits(q[i - 1])
            \/ u \in AreaUnits(e)
  BY <1>4, <1>13, <1>14, <1>15, Replaced
<1>17. Ends(t[i - 1]) < t[i].addr /\ Ends(e) \in Nat /\ e.addr \in Nat
  BY <1>2, Blocks DEF Ascends
<1>18. AreaUnits(t[i]) \subseteq AreaUnits(e) /\ AreaUnits(t[i - 1]) \subseteq AreaUnits(e)
  <2>1. ASSUME NEW u \in AreaUnits(t[i]) PROVE u \in AreaUnits(e)
    <3>1. u \in Nat /\ t[i].addr <= u /\ u < Ends(t[i])
          /\ Ends(t[i - 1]) > t[i - 1].addr /\ t[i - 1].addr \in Nat /\ Ends(t[i - 1]) \in Nat
          /\ t[i].addr \in Nat
      BY <1>12, Blocks
    <3>2. e.addr <= u /\ u < Ends(e)
      BY <3>1, <1>17
    <3>3. QED
      BY <3>1, <3>2, Blocks
  <2>2. ASSUME NEW u \in AreaUnits(t[i - 1]) PROVE u \in AreaUnits(e)
    <3>1. u \in Nat /\ t[i - 1].addr <= u /\ u < Ends(t[i - 1])
          /\ Ends(t[i]) > t[i].addr /\ t[i].addr \in Nat /\ Ends(t[i - 1]) \in Nat
          /\ Ends(t[i]) \in Nat
      BY <1>12, Blocks
    <3>2. e.addr <= u /\ u < Ends(e)
      BY <3>1, <1>17
    <3>3. QED
      BY <3>1, <3>2, Blocks
  <2>3. QED
    BY <2>1, <2>2
<1>19. \A u : u \in UnitsIn(p) <=> u \in UnitsIn(t) \/ u \in AreaUnits(e)
  BY <1>4, <1>13, <1>16, <1>18
<1>20. QED
  BY <1>7, <1>11, <1>16, <1>19 DEF r, s

-----------------------------------------------------------------------------
(* The table of the manager, and the block that is given back. *)

\* The areas that HariMain gives are apart, not only neighbour from neighbour.
LEMMA AreasAscend == Areas \in Seq(Block) /\ Ascends(Areas)
<1>1. Areas \in Seq(Block)
  BY AreaAssumption DEF Block
<1>2. \A i \in 1 .. Len(Areas) - 1 : Ends(Areas[i]) < Areas[i + 1].addr
  BY AreaAssumption DEF Ends
<1>3. /\ Len(Areas) \in Nat
      /\ \A i \in 1 .. Len(Areas) :
            Areas[i].addr \in Nat /\ Ends(Areas[i]) \in Nat /\ Ends(Areas[i]) > Areas[i].addr
  BY <1>1, Entries
<1>4. ASSUME NEW i \in 1 .. Len(Areas), NEW k \in 1 .. Len(Areas), i < k,
             ~ (Ends(Areas[i]) < Areas[k].addr)
      PROVE  FALSE
  <2>1. DEFINE T == {j \in 1 .. Len(Areas) : i < j /\ ~ (Ends(Areas[i]) < Areas[j].addr)}
  <2>2. T \subseteq Nat /\ k \in T
    BY <1>3, <1>4
  <2>3. PICK m \in T : \A y \in T : m <= y
    BY <2>2, Least
  <2>4. m \in 1 .. Len(Areas) /\ i < m /\ ~ (Ends(Areas[i]) < Areas[m].addr)
    BY <2>3
  <2>5. m - 1 \in 1 .. Len(Areas) - 1 /\ m - 1 \in 1 .. Len(Areas) /\ (m - 1) + 1 = m
        /\ i <= m - 1 /\ ~ (m <= m - 1)
    BY <2>4, <1>3
  <2>6. Ends(Areas[m - 1]) < Areas[m].addr
    BY <2>5, <1>2
  <2>7. m - 1 \notin T
    BY <2>3, <2>5
  <2>8. CASE i = m - 1
    BY <2>4, <2>6, <2>8
  <2>9. CASE i # m - 1
    <3>1. i < m - 1
      BY <2>5, <2>9, <1>3
    <3>2. Ends(Areas[i]) < Areas[m - 1].addr
      <4>. DEFINE n == m - 1
      <4>1. n \in 1 .. Len(Areas) /\ i < n /\ n \notin T
        BY <2>5, <2>7, <3>1
      <4>2. HIDE DEF n
      <4>3. Ends(Areas[i]) < Areas[n].addr
        BY <4>1
      <4>4. QED
        BY <4>3 DEF n
    <3>3. /\ Ends(Areas[i]) \in Nat /\ Areas[m - 1].addr \in Nat
          /\ Ends(Areas[m - 1]) \in Nat /\ Areas[m].addr \in Nat
          /\ Areas[m - 1].addr < Ends(Areas[m - 1])
      BY <1>3, <2>4, <2>5
    <3>4. QED
      BY <3>3, <2>4, <2>6, <3>2
  <2>10. QED
    BY <2>8, <2>9
<1>5. QED
  BY <1>1, <1>4 DEF Ascends

\* There is a bound on the memory that there is.
LEMMA AllUnitsFinite == IsFiniteSet(AllUnits) /\ AllUnits \subseteq Nat
<1>1. Areas \in Seq(Block) /\ Ascends(Areas)
  BY AreasAscend
<1>2. DOMAIN Areas = 1 .. Len(Areas) /\ Len(Areas) \in Nat
  BY <1>1, Entries
<1>3. AllUnits = UnitsIn(Areas)
  BY <1>2 DEF AllUnits, UnitsIn
<1>4. \A u : u \in AllUnits =>
         u \in Nat /\ \E i \in 1 .. Len(Areas) : Areas[i].addr <= u /\ u < Ends(Areas[i])
  BY <1>1, <1>3, Entries
<1>5. CASE Len(Areas) = 0
  <2>1. AllUnits = {}
    BY <1>2, <1>4, <1>5
  <2>2. QED
    BY <2>1, FS_EmptySet
<1>6. CASE Len(Areas) # 0
  <2>1. DEFINE n == Len(Areas)
  <2>2. n \in 1 .. Len(Areas)
    BY <1>2, <1>6
  <2>3. Ends(Areas[n]) \in Nat
    BY <1>1, <2>2, Entries
  <2>4. ASSUME NEW u \in AllUnits PROVE u <= Ends(Areas[n])
    <3>1. PICK i \in 1 .. Len(Areas) : Areas[i].addr <= u /\ u < Ends(Areas[i])
      BY <1>4
    <3>2. u \in Nat /\ Ends(Areas[i]) \in Nat /\ Areas[n].addr \in Nat /\ Areas[n].addr < Ends(Areas[n])
      BY <1>1, <1>4, <2>2, Entries
    <3>3. i \in Nat /\ Len(Areas) \in Nat /\ i <= Len(Areas)
      BY <3>1, <1>2
    <3>4. CASE i = n
      BY <3>1, <3>2, <3>4, <2>3
    <3>5. CASE i < n
      <4>1. Ends(Areas[i]) < Areas[n].addr
        BY <1>1, <2>2, <3>5 DEF Ascends
      <4>2. QED
        BY <4>1, <3>1, <3>2, <2>3
    <3>6. i # Len(Areas) => i < Len(Areas)
      BY <3>3
    <3>7. QED
      BY <3>4, <3>5, <3>6
  <2>5. AllUnits \subseteq Nat
    BY <1>4
  <2>6. HIDE DEF n
  <2>7. QED
    BY <2>3, <2>4, <2>5, FS_BoundedSetOfNaturals
<1>7. QED
  BY <1>4, <1>5, <1>6

\* What the invariant says of the free units and the units in use.
LEMMA Holds ==
  ASSUME IInv
  PROVE  /\ free \in Seq(Block) /\ Ascends(free) /\ FreeUnits = UnitsIn(free)
         /\ Len(free) \in Nat /\ DOMAIN free = 1 .. Len(free)
         /\ \A b \in owned : b \in Block
         /\ \A u : u \in OwnedUnits <=> \E b \in owned : u \in AreaUnits(b)
         /\ IsFiniteSet(FreeUnits) /\ IsFiniteSet(OwnedUnits)
         /\ Cardinality(FreeUnits) \in Nat /\ Cardinality(OwnedUnits) \in Nat
         /\ FreeUnits \subseteq Nat /\ OwnedUnits \subseteq Nat
<1>1. free \in Seq(Block) /\ Ascends(free) /\ \A b \in owned : b \in Block
  BY DEF IInv, TypeOK, Ascending
<1>2. Len(free) \in Nat /\ DOMAIN free = 1 .. Len(free)
  BY <1>1, Entries
<1>3. FreeUnits = UnitsIn(free)
  BY <1>2 DEF FreeUnits, UnitsIn
<1>4. FreeUnits \subseteq AllUnits /\ OwnedUnits \subseteq AllUnits
  BY DEF IInv, Accounted, NoOverlap
<1>5. /\ IsFiniteSet(FreeUnits) /\ IsFiniteSet(OwnedUnits)
      /\ FreeUnits \subseteq Nat /\ OwnedUnits \subseteq Nat
  BY <1>4, AllUnitsFinite, FS_Subset
<1>6. Cardinality(FreeUnits) \in Nat /\ Cardinality(OwnedUnits) \in Nat
  BY <1>5, FS_CardinalityType
<1>7. \A u : u \in OwnedUnits <=> \E b \in owned : u \in AreaUnits(b)
  BY DEF OwnedUnits
<1>8. QED
  BY <1>1, <1>2, <1>3, <1>5, <1>6, <1>7

\* The place of a block exists, and parts the table.
LEMMA Placed ==
  ASSUME free \in Seq(Block), NEW addr \in Nat
  PROVE  /\ Place(addr) \in 1 .. Len(free) + 1
         /\ Place(addr) <= Len(free) => free[Place(addr)].addr > addr
         /\ \A j \in 1 .. Place(addr) - 1 : free[j].addr <= addr
<1>1. Len(free) \in Nat /\ \A j \in 1 .. Len(free) : free[j].addr \in Nat
  BY Entries
<1>2. DEFINE T == {i \in 1 .. Len(free) + 1 : i <= Len(free) => free[i].addr > addr}
<1>3. T \subseteq Nat /\ Len(free) + 1 \in T
  BY <1>1
<1>4. PICK i \in T : \A y \in T : i <= y
  BY <1>3, Least
<1>5. ASSUME NEW j \in 1 .. i - 1 PROVE free[j].addr <= addr
  <2>1. i \in 1 .. Len(free) + 1
    BY <1>4
  <2>2. j \in 1 .. Len(free) /\ j \in 1 .. Len(free) + 1 /\ j <= Len(free) /\ ~ (i <= j)
    BY <2>1, <1>1
  <2>3. j \notin T
    BY <2>2, <1>4
  <2>4. ~ (free[j].addr > addr)
    BY <2>2, <2>3
  <2>5. QED
    BY <2>2, <2>4, <1>1
<1>6. \E k \in 1 .. Len(free) + 1 :
         /\ k <= Len(free) => free[k].addr > addr
         /\ \A j \in 1 .. k - 1 : free[j].addr <= addr
  BY <1>4, <1>5
<1>7. QED
  BY <1>6 DEF Place

\* A block in use lies between the entries before its place and those after.
LEMMA Between ==
  ASSUME IInv, NEW b \in owned
  PROVE  LET i == Place(b.addr)
         IN  /\ b \in Block
             /\ i \in Nat /\ i >= 1 /\ i <= Len(free) + 1
             /\ \A j \in 1 .. Len(free) : j < i => Ends(free[j]) <= b.addr
             /\ \A j \in 1 .. Len(free) : i <= j => Ends(b) <= free[j].addr
             /\ ~ JoinsPrevious(b, i) =>
                   \A j \in 1 .. Len(free) : j < i => Ends(free[j]) < b.addr
             /\ ~ JoinsNext(b, i) =>
                   \A j \in 1 .. Len(free) : i <= j => Ends(b) < free[j].addr
<1>1. DEFINE i == Place(b.addr)
<1>2. /\ free \in Seq(Block) /\ Ascends(free) /\ b \in Block /\ Len(free) \in Nat
      /\ FreeUnits = UnitsIn(free)
  BY Holds
<1>3. b.addr \in Nat /\ Ends(b) \in Nat /\ b.addr < Ends(b)
  BY <1>2, Blocks
<1>4. /\ i \in 1 .. Len(free) + 1
      /\ i <= Len(free) => free[i].addr > b.addr
      /\ \A j \in 1 .. i - 1 : free[j].addr <= b.addr
  BY <1>2, <1>3, Placed
<1>5. i \in Nat /\ i >= 1 /\ i <= Len(free) + 1
  BY <1>2, <1>4
<1>6. /\ JoinsPrevious(b, i) <=> i > 1 /\ Ends(free[i - 1]) = b.addr
      /\ JoinsNext(b, i) <=> i <= Len(free) /\ Ends(b) = free[i].addr
  BY DEF JoinsPrevious, JoinsNext, Ends
<1>7. HIDE DEF i
<1>8. \A j \in 1 .. Len(free) :
         free[j].addr \in Nat /\ Ends(free[j]) \in Nat /\ free[j].addr < Ends(free[j])
  BY <1>2, Entries
<1>9. \A u \in Nat : b.addr <= u /\ u < Ends(b) => u \notin FreeUnits
  <2>1. ASSUME NEW u \in Nat, b.addr <= u, u < Ends(b) PROVE u \notin FreeUnits
    <3>1. u \in AreaUnits(b)
      BY <2>1, <1>2, Blocks
    <3>2. u \in OwnedUnits
      BY <3>1 DEF OwnedUnits
    <3>3. QED
      BY <3>2 DEF IInv, Accounted, NoOverlap
  <2>2. QED
    BY <2>1
<1>10. ASSUME NEW j \in 1 .. Len(free), j < i PROVE Ends(free[j]) <= b.addr
  <2>1. free[j].addr <= b.addr
    BY <1>4, <1>5, <1>10
  <2>2. b.addr \notin FreeUnits
    BY <1>3, <1>9
  <2>3. ~ (b.addr < Ends(free[j]))
    BY <2>1, <2>2, <1>2, <1>3, Entries
  <2>4. QED
    BY <2>3, <1>3, <1>8
<1>11. ASSUME NEW j \in 1 .. Len(free), i <= j PROVE Ends(b) <= free[j].addr
  <2>1. free[j].addr > b.addr
    <3>1. free[i].addr > b.addr /\ i \in 1 .. Len(free)
      BY <1>4, <1>5, <1>11
    <3>2. CASE i = j
      BY <3>1, <3>2
    <3>3. CASE i < j
      <4>1. Ends(free[i]) < free[j].addr
        BY <3>1, <3>3, <1>2 DEF Ascends
      <4>2. QED
        BY <4>1, <3>1, <1>3, <1>8
    <3>4. QED
      BY <3>2, <3>3, <1>5, <1>11
  <2>2. free[j].addr \in FreeUnits
    BY <1>2, <1>8, Entries
  <2>3. ~ (free[j].addr < Ends(b))
    BY <2>1, <2>2, <1>3, <1>8, <1>9
  <2>4. QED
    BY <2>3, <1>3, <1>8
<1>12. ASSUME ~ JoinsPrevious(b, i), NEW j \in 1 .. Len(free), j < i
       PROVE  Ends(free[j]) < b.addr
  <2>1. i > 1 /\ i - 1 \in 1 .. Len(free) /\ i - 1 < i
    BY <1>5, <1>12
  <2>2. Ends(free[i - 1]) < b.addr
    <3>1. Ends(free[i - 1]) <= b.addr /\ Ends(free[i - 1]) # b.addr
      BY <2>1, <1>6, <1>10, <1>12
    <3>2. QED
      BY <3>1, <2>1, <1>3, <1>8
  <2>3. CASE j = i - 1
    BY <2>2, <2>3
  <2>4. CASE j < i - 1
    <3>1. Ends(free[j]) < free[i - 1].addr
      BY <2>1, <2>4, <1>2 DEF Ascends
    <3>2. QED
      BY <3>1, <2>1, <2>2, <1>3, <1>8
  <2>5. QED
    BY <2>3, <2>4, <1>5, <1>12
<1>13. ASSUME ~ JoinsNext(b, i), NEW j \in 1 .. Len(free), i <= j
       PROVE  Ends(b) < free[j].addr
  <2>1. i <= Len(free) /\ i \in 1 .. Len(free)
    BY <1>5, <1>13
  <2>2. Ends(b) < free[i].addr
    <3>1. Ends(b) <= free[i].addr /\ Ends(b) # free[i].addr
      BY <2>1, <1>5, <1>6, <1>11, <1>13
    <3>2. QED
      BY <3>1, <2>1, <1>3, <1>8
  <2>3. CASE j = i
    BY <2>2, <2>3
  <2>4. CASE i < j
    <3>1. Ends(free[i]) < free[j].addr
      BY <2>1, <2>4, <1>2 DEF Ascends
    <3>2. QED
      BY <3>1, <2>1, <2>2, <1>3, <1>8
  <2>5. QED
    BY <2>3, <2>4, <1>5, <1>13
<1>14. QED
  BY <1>2, <1>5, <1>10, <1>11, <1>12, <1>13 DEF i

-----------------------------------------------------------------------------
(* The operations on free, unit by unit. *)

\* memman_alloc takes the first units of the entry.
LEMMA Takes ==
  ASSUME IInv, NEW i \in DOMAIN free, NEW n \in Nat \ {0}, free[i].size >= n
  PROVE  LET b == [addr |-> free[i].addr, size |-> n]
         IN  /\ Shrunk(i, n) \in Seq(Block) /\ Len(Shrunk(i, n)) <= Len(free)
             /\ Ascends(Shrunk(i, n))
             /\ b \in Block /\ AreaUnits(b) \subseteq FreeUnits
             /\ UnitsIn(Shrunk(i, n)) = FreeUnits \ AreaUnits(b)
<1>1. /\ free \in Seq(Block) /\ Ascends(free) /\ FreeUnits = UnitsIn(free)
      /\ i \in 1 .. Len(free) /\ Len(free) \in Nat
  BY Holds
<1>2. /\ free[i] \in Block /\ free[i].addr \in Nat /\ free[i].addr > 0 /\ free[i].size \in Nat
      /\ Ends(free[i]) \in Nat /\ Ends(free[i]) = free[i].addr + free[i].size
      /\ \A j \in 1 .. Len(free) :
            free[j].addr \in Nat /\ Ends(free[j]) \in Nat /\ free[j].addr < Ends(free[j])
  BY <1>1, Entries DEF Ends
<1>3. DEFINE b == [addr |-> free[i].addr, size |-> n]
<1>4. b \in Block /\ Ends(b) = free[i].addr + n /\ b.addr = free[i].addr
  BY <1>2 DEF Block, Ends
<1>5. HIDE DEF b
<1>6. \A u : u \in AreaUnits(b) <=> u \in Nat /\ free[i].addr <= u /\ u < free[i].addr + n
  BY <1>4, Blocks
<1>7. \A u : u \in AreaUnits(free[i]) <=> u \in Nat /\ free[i].addr <= u /\ u < Ends(free[i])
  BY <1>2, Blocks
<1>8. AreaUnits(b) \subseteq AreaUnits(free[i])
  BY <1>2, <1>6, <1>7
<1>9. AreaUnits(free[i]) \subseteq FreeUnits
  BY <1>1, <1>7, Entries
<1>10. CASE free[i].size = n
  <2>1. Shrunk(i, n) = RemoveAt(free, i)
    BY <1>10 DEF Shrunk
  <2>2. AreaUnits(b) = AreaUnits(free[i])
    BY <1>2, <1>6, <1>7, <1>10
  <2>3. /\ Shrunk(i, n) \in Seq(Block) /\ Len(Shrunk(i, n)) = Len(free) - 1
        /\ Ascends(Shrunk(i, n))
        /\ UnitsIn(Shrunk(i, n)) = UnitsIn(free) \ AreaUnits(free[i])
    BY <1>1, <2>1, TakesAll
  <2>4. QED
    BY <1>1, <1>4, <1>8, <1>9, <2>2, <2>3 DEF b
<1>11. CASE free[i].size # n
  <2>1. DEFINE e == [addr |-> free[i].addr + n, size |-> free[i].size - n]
  <2>2. Shrunk(i, n) = [free EXCEPT ![i] = e]
    BY <1>11 DEF Shrunk
  <2>3. e \in Block /\ e.addr = free[i].addr + n /\ Ends(e) = Ends(free[i])
    <3>1. free[i].addr + n \in Nat \ {0} /\ free[i].size - n \in Nat \ {0}
      BY <1>2, <1>11
    <3>2. (free[i].addr + n) + (free[i].size - n) = free[i].addr + free[i].size
      BY <1>2
    <3>3. QED
      BY <3>1, <3>2 DEF Block, Ends
  <2>4. HIDE DEF e
  <2>5. \A j \in 1 .. Len(free) : j < i => Ends(free[j]) < e.addr
    <3>1. ASSUME NEW j \in 1 .. Len(free), j < i PROVE Ends(free[j]) < e.addr
      <4>1. Ends(free[j]) < free[i].addr
        BY <1>1, <3>1 DEF Ascends
      <4>2. QED
        BY <4>1, <2>3, <1>2
    <3>2. QED
      BY <3>1
  <2>6. \A j \in 1 .. Len(free) : i < j => Ends(e) < free[j].addr
    BY <1>1, <2>3 DEF Ascends
  <2>7. /\ Shrunk(i, n) \in Seq(Block) /\ Len(Shrunk(i, n)) = Len(free)
        /\ Ascends(Shrunk(i, n))
        /\ \A u : u \in UnitsIn(Shrunk(i, n)) <=>
             \/ u \in UnitsIn(free) /\ u \notin AreaUnits(free[i])
             \/ u \in AreaUnits(e)
    <3>1. DEFINE r == [free EXCEPT ![i] = e]
    <3>2. /\ r \in Seq(Block) /\ Len(r) = Len(free) /\ Ascends(r)
          /\ \A u : u \in UnitsIn(r) <=>
               \/ u \in UnitsIn(free) /\ u \notin AreaUnits(free[i])
               \/ u \in AreaUnits(e)
      BY <1>1, <2>3, <2>5, <2>6, Replaced
    <3>3. QED
      BY <2>2, <3>2
  <2>8. \A u : u \in AreaUnits(e) <=> u \in AreaUnits(free[i]) /\ u \notin AreaUnits(b)
    <3>1. \A u : u \in AreaUnits(e) <=> u \in Nat /\ free[i].addr + n <= u /\ u < Ends(free[i])
      BY <2>3, Blocks
    <3>2. QED
      BY <3>1, <1>2, <1>6, <1>7
  <2>9. \A u : u \in UnitsIn(Shrunk(i, n)) <=> u \in FreeUnits /\ u \notin AreaUnits(b)
    BY <1>1, <1>8, <1>9, <2>7, <2>8
  <2>10. QED
    BY <1>1, <1>4, <1>8, <1>9, <2>7, <2>9 DEF b
<1>12. QED
  BY <1>10, <1>11

\* memman_free joins the block to what it touches.
LEMMA Joins ==
  ASSUME IInv, NEW b \in owned,
         JoinsPrevious(b, Place(b.addr)) \/ JoinsNext(b, Place(b.addr))
  PROVE  LET t == Joined(b, Place(b.addr))
         IN  /\ t \in Seq(Block) /\ Len(t) <= Len(free) /\ Ascends(t)
             /\ UnitsIn(t) = FreeUnits \cup AreaUnits(b)
<1>1. DEFINE i == Place(b.addr)
<1>2. /\ b \in Block
      /\ i \in Nat /\ i >= 1 /\ i <= Len(free) + 1
      /\ \A j \in 1 .. Len(free) : j < i => Ends(free[j]) <= b.addr
      /\ \A j \in 1 .. Len(free) : i <= j => Ends(b) <= free[j].addr
      /\ ~ JoinsPrevious(b, i) =>
            \A j \in 1 .. Len(free) : j < i => Ends(free[j]) < b.addr
      /\ ~ JoinsNext(b, i) =>
            \A j \in 1 .. Len(free) : i <= j => Ends(b) < free[j].addr
  BY Between
<1>3. JoinsPrevious(b, i) \/ JoinsNext(b, i)
  OBVIOUS
<1>4. /\ JoinsPrevious(b, i) <=> i > 1 /\ Ends(free[i - 1]) = b.addr
      /\ JoinsNext(b, i) <=> i <= Len(free) /\ Ends(b) = free[i].addr
  BY DEF JoinsPrevious, JoinsNext, Ends
<1>5. /\ free \in Seq(Block) /\ Ascends(free) /\ FreeUnits = UnitsIn(free) /\ Len(free) \in Nat
  BY Holds
<1>6. \A j \in 1 .. Len(free) :
         /\ free[j] \in Block
         /\ free[j].addr \in Nat /\ free[j].addr > 0 /\ free[j].size \in Nat /\ free[j].size > 0
         /\ Ends(free[j]) \in Nat /\ free[j].addr < Ends(free[j])
         /\ Ends(free[j]) = free[j].addr + free[j].size
  BY <1>5, Entries DEF Ends
<1>7. /\ b.addr \in Nat /\ b.addr > 0 /\ b.size \in Nat /\ b.size > 0
      /\ Ends(b) \in Nat /\ b.addr < Ends(b) /\ Ends(b) = b.addr + b.size
      /\ \A u : u \in AreaUnits(b) <=> u \in Nat /\ b.addr <= u /\ u < Ends(b)
  BY <1>2, Blocks DEF Ends
<1>8. \A j \in 1 .. Len(free) : \A u : u \in AreaUnits(free[j]) <=>
         u \in Nat /\ free[j].addr <= u /\ u < Ends(free[j])
  BY <1>6, Blocks
<1>9. \A j \in 1 .. Len(free) : AreaUnits(free[j]) \subseteq FreeUnits
  BY <1>5 DEF UnitsIn
<1>10. HIDE DEF i
<1>11. CASE JoinsPrevious(b, i) /\ JoinsNext(b, i)
  <2>1. /\ i > 1 /\ i <= Len(free) /\ i - 1 \in 1 .. Len(free) /\ i \in 1 .. Len(free)
        /\ i \in 2 .. Len(free)
        /\ Ends(free[i - 1]) = b.addr /\ Ends(b) = free[i].addr
    BY <1>2, <1>4, <1>5, <1>11
  <2>2. DEFINE e == [addr |-> free[i - 1].addr,
                     size |-> free[i - 1].size + b.size + free[i].size]
  <2>3. e = [free[i - 1] EXCEPT !.size = free[i - 1].size + b.size + free[i].size]
    BY <1>6, <2>1 DEF Block
  <2>4. [free EXCEPT ![i - 1].size = free[i - 1].size + b.size + free[i].size]
           = [free EXCEPT ![i - 1] = e]
    BY <2>3
  <2>5. Joined(b, i) = RemoveAt([free EXCEPT ![i - 1] = e], i)
    BY <1>11, <2>4 DEF Joined
  <2>6. e \in Block /\ e.addr = free[i - 1].addr /\ Ends(e) = Ends(free[i])
    <3>1. /\ free[i - 1].addr \in Nat \ {0}
          /\ free[i - 1].size + b.size + free[i].size \in Nat \ {0}
      <4>1. /\ free[i - 1].addr \in Nat /\ free[i - 1].addr > 0
            /\ free[i - 1].size \in Nat /\ free[i - 1].size > 0
            /\ free[i].size \in Nat
        BY <1>6, <2>1
      <4>2. QED
        BY <4>1, <1>7
    <3>2. free[i - 1].addr + (free[i - 1].size + b.size + free[i].size)
             = free[i].addr + free[i].size
      <4>1. /\ free[i - 1].addr \in Nat /\ free[i - 1].size \in Nat
            /\ free[i].addr \in Nat /\ free[i].size \in Nat
            /\ free[i - 1].addr + free[i - 1].size = b.addr
            /\ b.addr + b.size = free[i].addr
        BY <1>6, <1>7, <2>1
      <4>2. QED
        BY <4>1, <1>7
    <3>3. QED
      BY <3>1, <3>2, <1>6, <2>1 DEF Block, Ends
  <2>7. HIDE DEF e
  <2>8. /\ Joined(b, i) \in Seq(Block) /\ Len(Joined(b, i)) = Len(free) - 1
        /\ Ascends(Joined(b, i))
        /\ \A u : u \in UnitsIn(Joined(b, i)) <=> u \in UnitsIn(free) \/ u \in AreaUnits(e)
    BY <1>5, <2>1, <2>5, <2>6, ClosesGap
  <2>9. \A u : u \in AreaUnits(e) <=> u \in Nat /\ free[i - 1].addr <= u /\ u < Ends(free[i])
    BY <2>6, Blocks
  <2>10. ASSUME NEW u \in AreaUnits(e)
         PROVE  u \notin AreaUnits(b) => u \in FreeUnits
    <3>1. u \in Nat /\ free[i - 1].addr <= u /\ u < Ends(free[i])
      BY <2>9, <2>10
    <3>2. u < b.addr => u \in AreaUnits(free[i - 1])
      BY <3>1, <1>8, <2>1
    <3>3. u >= Ends(b) => u \in AreaUnits(free[i])
      BY <3>1, <1>8, <2>1
    <3>4. ~ (u < b.addr) /\ ~ (u >= Ends(b)) => u \in AreaUnits(b)
      BY <3>1, <1>7
    <3>5. QED
      BY <3>2, <3>3, <3>4, <1>9, <2>1
  <2>11. ASSUME NEW u \in AreaUnits(b) PROVE u \in AreaUnits(e)
    <3>1. u \in Nat /\ b.addr <= u /\ u < Ends(b)
      BY <1>7, <2>11
    <3>2. free[i - 1].addr <= b.addr /\ Ends(b) < Ends(free[i])
          /\ free[i - 1].addr \in Nat /\ Ends(free[i]) \in Nat
      BY <1>6, <1>7, <2>1
    <3>3. free[i - 1].addr <= u /\ u < Ends(free[i])
      BY <3>1, <3>2, <1>7
    <3>4. QED
      BY <3>1, <3>3, <2>9
  <2>12. UnitsIn(Joined(b, i)) = FreeUnits \cup AreaUnits(b)
    BY <1>5, <2>8, <2>10, <2>11
  <2>13. QED
    BY <1>5, <2>8, <2>12 DEF i
<1>12. CASE JoinsPrevious(b, i) /\ ~ JoinsNext(b, i)
  <2>1. i > 1 /\ i - 1 \in 1 .. Len(free) /\ Ends(free[i - 1]) = b.addr
    BY <1>2, <1>4, <1>5, <1>12
  <2>2. DEFINE e == [addr |-> free[i - 1].addr, size |-> free[i - 1].size + b.size]
  <2>3. e = [free[i - 1] EXCEPT !.size = free[i - 1].size + b.size]
    BY <1>6, <2>1 DEF Block
  <2>4. Joined(b, i) = [free EXCEPT ![i - 1] = e]
    BY <1>12, <2>3 DEF Joined
  <2>6. e \in Block /\ e.addr = free[i - 1].addr /\ Ends(e) = Ends(b)
    <3>1. free[i - 1].addr \in Nat \ {0} /\ free[i - 1].size + b.size \in Nat \ {0}
      BY <1>6, <1>7, <2>1
    <3>2. free[i - 1].addr + (free[i - 1].size + b.size) = b.addr + b.size
      <4>1. /\ free[i - 1].addr \in Nat /\ free[i - 1].size \in Nat
            /\ free[i - 1].addr + free[i - 1].size = b.addr
        BY <1>6, <2>1
      <4>2. QED
        BY <4>1, <1>7
    <3>3. QED
      BY <3>1, <3>2 DEF Block, Ends
  <2>7. HIDE DEF e
  <2>8. \A j \in 1 .. Len(free) : j < i - 1 => Ends(free[j]) < e.addr
    BY <1>5, <2>1, <2>6 DEF Ascends
  <2>9. \A j \in 1 .. Len(free) : i - 1 < j => Ends(e) < free[j].addr
    <3>1. \A j \in 1 .. Len(free) : i - 1 < j => i <= j
      BY <1>2
    <3>2. QED
      BY <3>1, <1>2, <1>12, <2>6
  <2>10. /\ Joined(b, i) \in Seq(Block) /\ Len(Joined(b, i)) = Len(free)
         /\ Ascends(Joined(b, i))
         /\ \A u : u \in UnitsIn(Joined(b, i)) <=>
              \/ u \in UnitsIn(free) /\ u \notin AreaUnits(free[i - 1])
              \/ u \in AreaUnits(e)
    <3>1. DEFINE r == [free EXCEPT ![i - 1] = e]
    <3>2. /\ r \in Seq(Block) /\ Len(r) = Len(free) /\ Ascends(r)
          /\ \A u : u \in UnitsIn(r) <=>
               \/ u \in UnitsIn(free) /\ u \notin AreaUnits(free[i - 1])
               \/ u \in AreaUnits(e)
      BY <1>5, <2>1, <2>6, <2>8, <2>9, Replaced
    <3>3. QED
      BY <2>4, <3>2
  <2>11. \A u : u \in AreaUnits(e) <=> u \in AreaUnits(free[i - 1]) \/ u \in AreaUnits(b)
    <3>1. \A u : u \in AreaUnits(e) <=> u \in Nat /\ free[i - 1].addr <= u /\ u < Ends(b)
      BY <2>6, Blocks
    <3>2. \A u : u \in AreaUnits(free[i - 1]) <=>
             u \in Nat /\ free[i - 1].addr <= u /\ u < b.addr
      BY <1>8, <2>1
    <3>3. free[i - 1].addr \in Nat /\ free[i - 1].addr < b.addr
      BY <1>6, <2>1
    <3>4. QED
      BY <3>1, <3>2, <3>3, <1>7
  <2>12. UnitsIn(Joined(b, i)) = FreeUnits \cup AreaUnits(b)
    BY <1>5, <1>9, <2>1, <2>10, <2>11
  <2>13. QED
    BY <1>5, <2>10, <2>12 DEF i
<1>13. CASE ~ JoinsPrevious(b, i) /\ JoinsNext(b, i)
  <2>1. i \in 1 .. Len(free) /\ Ends(b) = free[i].addr
    BY <1>2, <1>4, <1>5, <1>13
  <2>2. DEFINE e == [addr |-> b.addr, size |-> b.size + free[i].size]
  <2>4. Joined(b, i) = [free EXCEPT ![i] = e]
    BY <1>13 DEF Joined
  <2>6. e \in Block /\ e.addr = b.addr /\ Ends(e) = Ends(free[i])
    <3>1. b.addr \in Nat \ {0} /\ b.size + free[i].size \in Nat \ {0}
      BY <1>6, <1>7, <2>1
    <3>2. b.addr + (b.size + free[i].size) = free[i].addr + free[i].size
      <4>1. /\ free[i].addr \in Nat /\ free[i].size \in Nat
            /\ b.addr + b.size = free[i].addr
        BY <1>6, <1>7, <2>1
      <4>2. QED
        BY <4>1, <1>7
    <3>3. QED
      BY <3>1, <3>2 DEF Block, Ends
  <2>7. HIDE DEF e
  <2>8. \A j \in 1 .. Len(free) : j < i => Ends(free[j]) < e.addr
    BY <1>2, <1>13, <2>6
  <2>9. \A j \in 1 .. Len(free) : i < j => Ends(e) < free[j].addr
    BY <1>5, <2>1, <2>6 DEF Ascends
  <2>10. /\ Joined(b, i) \in Seq(Block) /\ Len(Joined(b, i)) = Len(free)
         /\ Ascends(Joined(b, i))
         /\ \A u : u \in UnitsIn(Joined(b, i)) <=>
              \/ u \in UnitsIn(free) /\ u \notin AreaUnits(free[i])
              \/ u \in AreaUnits(e)
    <3>1. DEFINE r == [free EXCEPT ![i] = e]
    <3>2. /\ r \in Seq(Block) /\ Len(r) = Len(free) /\ Ascends(r)
          /\ \A u : u \in UnitsIn(r) <=>
               \/ u \in UnitsIn(free) /\ u \notin AreaUnits(free[i])
               \/ u \in AreaUnits(e)
      BY <1>5, <2>1, <2>6, <2>8, <2>9, Replaced
    <3>3. QED
      BY <2>4, <3>2
  <2>11. \A u : u \in AreaUnits(e) <=> u \in AreaUnits(free[i]) \/ u \in AreaUnits(b)
    <3>1. \A u : u \in AreaUnits(e) <=> u \in Nat /\ b.addr <= u /\ u < Ends(free[i])
      BY <2>6, Blocks
    <3>2. \A u : u \in AreaUnits(free[i]) <=>
             u \in Nat /\ Ends(b) <= u /\ u < Ends(free[i])
      BY <1>8, <2>1
    <3>3. Ends(free[i]) \in Nat /\ Ends(b) < Ends(free[i])
      BY <1>6, <2>1
    <3>4. QED
      BY <3>1, <3>2, <3>3, <1>7
  <2>12. UnitsIn(Joined(b, i)) = FreeUnits \cup AreaUnits(b)
    BY <1>5, <1>9, <2>1, <2>10, <2>11
  <2>13. QED
    BY <1>5, <2>10, <2>12 DEF i
<1>14. QED
  BY <1>3, <1>11, <1>12, <1>13

\* A block that joins nothing touches no free unit.
LEMMA Alone ==
  ASSUME IInv, NEW b \in owned,
         ~ (JoinsPrevious(b, Place(b.addr)) \/ JoinsNext(b, Place(b.addr)))
  PROVE  LET t == InsertAt(free, Place(b.addr), b)
         IN  /\ b.addr - 1 \notin FreeUnits /\ Ends(b) \notin FreeUnits
             /\ t \in Seq(Block) /\ Len(t) = Len(free) + 1 /\ Ascends(t)
             /\ UnitsIn(t) = FreeUnits \cup AreaUnits(b)
<1>1. DEFINE i == Place(b.addr)
<1>2. /\ b \in Block
      /\ i \in Nat /\ i >= 1 /\ i <= Len(free) + 1
      /\ \A j \in 1 .. Len(free) : j < i => Ends(free[j]) < b.addr
      /\ \A j \in 1 .. Len(free) : i <= j => Ends(b) < free[j].addr
  BY Between
<1>3. /\ free \in Seq(Block) /\ Ascends(free) /\ FreeUnits = UnitsIn(free) /\ Len(free) \in Nat
  BY Holds
<1>4. /\ b.addr \in Nat /\ b.addr > 0 /\ Ends(b) \in Nat /\ b.addr < Ends(b)
  BY <1>2, Blocks
<1>5. HIDE DEF i
<1>6. ASSUME NEW j \in 1 .. Len(free), NEW u \in Nat, u = b.addr - 1 \/ u = Ends(b)
      PROVE  ~ (free[j].addr <= u /\ u < Ends(free[j]))
  <2>1. free[j].addr \in Nat /\ Ends(free[j]) \in Nat /\ free[j].addr < Ends(free[j]) /\ j \in Nat
    BY <1>3, Entries
  <2>2. CASE j < i
    <3>1. Ends(free[j]) < b.addr
      BY <1>2, <2>2
    <3>2. QED
      BY <3>1, <2>1, <1>4, <1>6
  <2>3. CASE i <= j
    <3>1. Ends(b) < free[j].addr
      BY <1>2, <2>3
    <3>2. QED
      BY <3>1, <2>1, <1>4, <1>6
  <2>4. QED
    BY <2>1, <2>2, <2>3, <1>2
<1>7. b.addr - 1 \in Nat
  BY <1>4
<1>8. b.addr - 1 \notin FreeUnits /\ Ends(b) \notin FreeUnits
  <2>1. ASSUME NEW u \in Nat, u = b.addr - 1 \/ u = Ends(b) PROVE u \notin UnitsIn(free)
    <3>1. ~ \E j \in 1 .. Len(free) : free[j].addr <= u /\ u < Ends(free[j])
      BY <1>6, <2>1
    <3>2. QED
      BY <1>3, <3>1, Entries
  <2>2. QED
    BY <1>3, <1>4, <1>7, <2>1
<1>9. i \in 1 .. Len(free) + 1
  BY <1>2, <1>3
<1>10. /\ InsertAt(free, i, b) \in Seq(Block) /\ Len(InsertAt(free, i, b)) = Len(free) + 1
       /\ Ascends(InsertAt(free, i, b))
       /\ UnitsIn(InsertAt(free, i, b)) = UnitsIn(free) \cup AreaUnits(b)
  BY <1>2, <1>3, <1>9, Inserts
<1>11. QED
  BY <1>3, <1>8, <1>10 DEF i

\* A run of free units lies within one entry.
LEMMA NoRun ==
  ASSUME IInv, NEW n \in Nat, \A i \in DOMAIN free : free[i].size < n,
         NEW a \in FreeUnits
  PROVE  ~ (a .. a + n - 1 \subseteq FreeUnits)
<1>1. /\ free \in Seq(Block) /\ Ascends(free) /\ FreeUnits = UnitsIn(free)
      /\ DOMAIN free = 1 .. Len(free) /\ Len(free) \in Nat
  BY Holds
<1>2. PICK i \in 1 .. Len(free) : a \in Nat /\ free[i].addr <= a /\ a < Ends(free[i])
  BY <1>1, Entries
<1>3. /\ free[i].addr \in Nat /\ free[i].size \in Nat /\ Ends(free[i]) \in Nat
      /\ Ends(free[i]) = free[i].addr + free[i].size /\ free[i].size < n
      /\ free[i].addr < Ends(free[i])
  BY <1>1, Entries DEF Ends
<1>4. Ends(free[i]) \in a .. a + n - 1
  BY <1>2, <1>3
<1>5. Ends(free[i]) \notin FreeUnits
  <2>1. SUFFICES ASSUME Ends(free[i]) \in FreeUnits PROVE FALSE
    OBVIOUS
  <2>2. PICK j \in 1 .. Len(free) : free[j].addr <= Ends(free[i]) /\ Ends(free[i]) < Ends(free[j])
    BY <1>1, <2>1, Entries
  <2>3. Ends(free[j]) \in Nat
    BY <1>1, Entries
  <2>4. free[i].addr <= Ends(free[i]) /\ Ends(free[i]) <= Ends(free[i]) /\ Ends(free[i]) <= Ends(free[j])
    BY <1>3, <2>2, <2>3
  <2>5. i = j
    BY <1>1, <1>3, <2>2, <2>4, OneEntry
  <2>6. QED
    BY <1>3, <2>2, <2>5
<1>6. QED
  BY <1>4, <1>5

-----------------------------------------------------------------------------
(* Who holds a unit, and how many units there are. *)

LEMMA Parted ==
  ASSUME NEW S, NEW T, IsFiniteSet(S), IsFiniteSet(T), S \cap T = {}
  PROVE  /\ IsFiniteSet(S \cup T)
         /\ Cardinality(S) \in Nat /\ Cardinality(T) \in Nat
         /\ Cardinality(S \cup T) = Cardinality(S) + Cardinality(T)
<1>1. Cardinality(S) \in Nat /\ Cardinality(T) \in Nat
  BY FS_CardinalityType
<1>2. /\ IsFiniteSet(S \cup T)
      /\ Cardinality(S \cup T) = Cardinality(S) + Cardinality(T) - Cardinality(S \cap T)
  BY FS_Union
<1>3. Cardinality(S \cap T) = 0
  BY FS_EmptySet
<1>4. QED
  BY <1>1, <1>2, <1>3

LEMMA BlockSize ==
  ASSUME NEW b \in Block
  PROVE  IsFiniteSet(AreaUnits(b)) /\ Cardinality(AreaUnits(b)) = b.size
<1>1. b.addr \in Nat /\ b.size \in Nat /\ b.size > 0
  BY Blocks
<1>2. b.addr + b.size - 1 \in Int /\ ~ (b.addr > b.addr + b.size - 1)
      /\ (b.addr + b.size - 1) - b.addr + 1 = b.size
  BY <1>1
<1>3. DEFINE e == b.addr + b.size - 1
<1>4. /\ IsFiniteSet(b.addr .. e)
      /\ Cardinality(b.addr .. e) = IF b.addr > e THEN 0 ELSE e - b.addr + 1
  <2>1. e \in Int /\ b.addr \in Int
    BY <1>1, <1>2
  <2>2. HIDE DEF e
  <2>3. QED
    BY <2>1, FS_Interval
<1>5. QED
  BY <1>2, <1>4 DEF AreaUnits

\* A block that is given back takes its units, and no others, out of use.
LEMMA Frees ==
  ASSUME IInv, NEW b \in owned, owned' = owned \ {b}
  PROVE  /\ b \in Block
         /\ AreaUnits(b) \subseteq OwnedUnits
         /\ OwnedUnits' = OwnedUnits \ AreaUnits(b)
         /\ \A c, d \in owned' : c # d => AreaUnits(c) \cap AreaUnits(d) = {}
         /\ owned' \subseteq Block
         /\ IsFiniteSet(OwnedUnits')
         /\ Cardinality(OwnedUnits') \in Nat
         /\ Cardinality(OwnedUnits) = Cardinality(OwnedUnits') + b.size
<1>1. /\ b \in Block /\ IsFiniteSet(OwnedUnits) /\ owned \subseteq Block
      /\ \A u : u \in OwnedUnits <=> \E c \in owned : u \in AreaUnits(c)
  BY Holds
<1>2. \A u : u \in OwnedUnits' <=> \E c \in owned' : u \in AreaUnits(c)
  BY DEF OwnedUnits, AreaUnits
<1>3. \A c, d \in owned : c # d => AreaUnits(c) \cap AreaUnits(d) = {}
  BY DEF IInv, Accounted, NoOverlap
<1>4. AreaUnits(b) \subseteq OwnedUnits
  BY <1>1
<1>5. ASSUME NEW u PROVE u \in OwnedUnits' <=> u \in OwnedUnits /\ u \notin AreaUnits(b)
  <2>1. ASSUME u \in OwnedUnits' PROVE u \in OwnedUnits /\ u \notin AreaUnits(b)
    <3>1. PICK c \in owned' : u \in AreaUnits(c)
      BY <2>1, <1>2
    <3>2. c \in owned /\ c # b
      BY <3>1
    <3>3. QED
      BY <3>1, <3>2, <1>1, <1>3
  <2>2. ASSUME u \in OwnedUnits, u \notin AreaUnits(b) PROVE u \in OwnedUnits'
    <3>1. PICK c \in owned : u \in AreaUnits(c)
      BY <2>2, <1>1
    <3>2. c \in owned'
      BY <3>1, <2>2
    <3>3. QED
      BY <3>1, <3>2, <1>2
  <2>3. QED
    BY <2>1, <2>2
<1>6. OwnedUnits' = OwnedUnits \ AreaUnits(b)
  BY <1>5
<1>7. IsFiniteSet(OwnedUnits') /\ OwnedUnits' \subseteq OwnedUnits
  <2>1. OwnedUnits' \in SUBSET OwnedUnits
    BY <1>6
  <2>2. QED
    BY <2>1, <1>1, FS_Subset
<1>8. OwnedUnits = OwnedUnits' \cup AreaUnits(b) /\ OwnedUnits' \cap AreaUnits(b) = {}
  BY <1>4, <1>6
<1>9. /\ Cardinality(OwnedUnits') \in Nat
      /\ Cardinality(OwnedUnits) = Cardinality(OwnedUnits') + b.size
  <2>1. IsFiniteSet(AreaUnits(b)) /\ Cardinality(AreaUnits(b)) = b.size
    BY <1>1, BlockSize
  <2>2. DEFINE S == OwnedUnits'
               T == AreaUnits(b)
  <2>3. IsFiniteSet(S) /\ IsFiniteSet(T) /\ S \cap T = {} /\ OwnedUnits = S \cup T
        /\ Cardinality(T) = b.size
    BY <2>1, <1>7, <1>8
  <2>4. HIDE DEF S, T
  <2>5. Cardinality(S) \in Nat /\ Cardinality(S \cup T) = Cardinality(S) + Cardinality(T)
    BY <2>3, Parted
  <2>6. Cardinality(S) \in Nat /\ Cardinality(OwnedUnits) = Cardinality(S) + b.size
    BY <2>3, <2>5
  <2>7. QED
    BY <2>6 DEF S
<1>10. \A c, d \in owned' : c # d => AreaUnits(c) \cap AreaUnits(d) = {}
  BY <1>3
<1>11. owned' \subseteq Block
  BY <1>1
<1>12. QED
  BY <1>1, <1>4, <1>6, <1>7, <1>9, <1>10, <1>11

\* The units of a table that memman_alloc or memman_free has changed.
LEMMA TableUnits ==
  ASSUME NEW t \in Seq(Block), free' = t
  PROVE  FreeUnits' = UnitsIn(t)
<1>1. DOMAIN t = 1 .. Len(t)
  BY Entries
<1>2. FreeUnits' = UNION {AreaUnits(t[i]) : i \in DOMAIN t}
  BY DEF FreeUnits, AreaUnits
<1>3. QED
  BY <1>1, <1>2 DEF UnitsIn

-----------------------------------------------------------------------------
(* The inductive invariant. *)

LEMMA InitHolds == Init => IInv
<1>1. SUFFICES ASSUME Init PROVE IInv
  OBVIOUS
<1>2. Areas \in Seq(Block) /\ Ascends(Areas)
  BY AreasAscend
<1>3. TypeOK
  BY <1>1, <1>2, MaxFreesAssumption DEF Init, TypeOK
<1>4. Ascending
  BY <1>1, <1>2 DEF Init, Ascending
<1>5. FreeUnits = AllUnits /\ OwnedUnits = {}
  BY <1>1 DEF Init, FreeUnits, AllUnits, OwnedUnits
<1>6. NoOverlap
  BY <1>1, <1>5 DEF Init, NoOverlap
<1>7. Cardinality(OwnedUnits) = 0 /\ lostsize = 0
  BY <1>1, <1>5, FS_EmptySet DEF Init
<1>8. Cardinality(FreeUnits) \in Nat
  BY <1>5, AllUnitsFinite, FS_CardinalityType
<1>9. Accounted
  BY <1>5, <1>6, <1>7, <1>8 DEF Accounted
<1>10. QED
  BY <1>3, <1>4, <1>9 DEF IInv

\* What Alloc does to the units, for the invariant and for the refinement.
LEMMA AllocTakes ==
  ASSUME IInv, NEW n \in Sizes, Alloc(n)
  PROVE  /\ \E b \in Block :
              /\ b.size = n /\ b = [addr |-> b.addr, size |-> n]
              /\ answer' = b.addr
              /\ owned' = owned \cup {b}
              /\ AreaUnits(b) \subseteq FreeUnits
              /\ FreeUnits' = FreeUnits \ AreaUnits(b)
         /\ free' \in Seq(Block) /\ Len(free') <= MaxFrees /\ Ascends(free')
<1>1. PICK i \in DOMAIN free :
         /\ free[i].size >= n
         /\ answer' = free[i].addr
         /\ owned' = owned \cup {[addr |-> free[i].addr, size |-> n]}
         /\ free' = Shrunk(i, n)
  BY DEF Alloc
<1>2. n \in Nat \ {0}
  BY SizesAssumption
<1>3. DEFINE b == [addr |-> free[i].addr, size |-> n]
<1>4. /\ Shrunk(i, n) \in Seq(Block) /\ Len(Shrunk(i, n)) <= Len(free)
      /\ Ascends(Shrunk(i, n))
      /\ b \in Block /\ AreaUnits(b) \subseteq FreeUnits
      /\ UnitsIn(Shrunk(i, n)) = FreeUnits \ AreaUnits(b)
  BY <1>1, <1>2, Takes
<1>5. FreeUnits' = FreeUnits \ AreaUnits(b)
  BY <1>1, <1>4, TableUnits
<1>6. b.size = n /\ b.addr = free[i].addr /\ b = [addr |-> b.addr, size |-> n]
  OBVIOUS
<1>7. answer' = b.addr /\ owned' = owned \cup {b}
  BY <1>1
<1>8. Len(free) \in Nat /\ Len(free) <= MaxFrees /\ MaxFrees \in Nat
  BY Holds, MaxFreesAssumption DEF IInv, TypeOK
<1>9. Len(Shrunk(i, n)) <= MaxFrees
  BY <1>4, <1>8, Entries
<1>10. HIDE DEF b
<1>11. QED
  BY <1>1, <1>4, <1>5, <1>6, <1>7, <1>9

LEMMA AllocKeeps ==
  ASSUME IInv, NEW n \in Sizes, Alloc(n)
  PROVE  IInv'
<1>1. PICK b \in Block :
         /\ b.size = n
         /\ answer' = b.addr
         /\ owned' = owned \cup {b}
         /\ AreaUnits(b) \subseteq FreeUnits
         /\ FreeUnits' = FreeUnits \ AreaUnits(b)
  BY AllocTakes
<1>2. free' \in Seq(Block) /\ Len(free') <= MaxFrees /\ Ascends(free')
  BY AllocTakes
<1>3. losts' = losts /\ lostsize' = lostsize
  BY DEF Alloc
<1>4. /\ owned \subseteq Block /\ losts \in Nat /\ lostsize \in Nat
      /\ \A c, d \in owned : c # d => AreaUnits(c) \cap AreaUnits(d) = {}
      /\ OwnedUnits \cap FreeUnits = {} /\ OwnedUnits \cup FreeUnits \subseteq AllUnits
      /\ Cardinality(FreeUnits) + Cardinality(OwnedUnits) + lostsize = Cardinality(AllUnits)
  BY DEF IInv, TypeOK, Accounted, NoOverlap
<1>5. /\ IsFiniteSet(FreeUnits) /\ IsFiniteSet(OwnedUnits)
      /\ Cardinality(FreeUnits) \in Nat /\ Cardinality(OwnedUnits) \in Nat
      /\ \A u : u \in OwnedUnits <=> \E c \in owned : u \in AreaUnits(c)
  BY Holds
<1>6. answer' \in Nat
  BY <1>1, Blocks
<1>7. TypeOK'
  BY <1>1, <1>2, <1>3, <1>4, <1>6 DEF TypeOK
<1>8. Ascending'
  BY <1>2 DEF Ascending, Ascends, Ends
<1>9. OwnedUnits' = OwnedUnits \cup AreaUnits(b)
  <2>1. \A u : u \in OwnedUnits' <=> \E c \in owned' : u \in AreaUnits(c)
    BY DEF OwnedUnits, AreaUnits
  <2>2. QED
    BY <2>1, <1>1, <1>5
<1>10. \A c, d \in owned' : c # d => AreaUnits(c) \cap AreaUnits(d) = {}
  <2>1. \A c \in owned : AreaUnits(c) \cap AreaUnits(b) = {}
    BY <1>1, <1>4, <1>5
  <2>2. QED
    BY <2>1, <1>1, <1>4
<1>11. NoOverlap'
  <2>1. OwnedUnits' \cap FreeUnits' = {} /\ OwnedUnits' \cup FreeUnits' \subseteq AllUnits
    BY <1>1, <1>4, <1>9
  <2>2. AllUnits' = AllUnits
    BY DEF AllUnits, AreaUnits
  <2>3. \A c, d \in owned' : c # d => AreaUnits(c)' \cap AreaUnits(d)' = {}
    BY <1>10 DEF AreaUnits
  <2>4. QED
    BY <2>1, <2>2, <2>3 DEF NoOverlap, AreaUnits
<1>12. Cardinality(FreeUnits') + Cardinality(OwnedUnits') + lostsize' = Cardinality(AllUnits)
  <2>1. DEFINE A == AreaUnits(b)
               F == FreeUnits'
               O == OwnedUnits
  <2>2. /\ IsFiniteSet(A) /\ IsFiniteSet(F) /\ IsFiniteSet(O)
        /\ F \cap A = {} /\ O \cap A = {}
        /\ FreeUnits = F \cup A /\ OwnedUnits' = O \cup A
    <3>1. IsFiniteSet(A)
      BY BlockSize
    <3>2. F \in SUBSET FreeUnits
      BY <1>1
    <3>3. IsFiniteSet(F)
      BY <3>2, <1>5, FS_Subset
    <3>4. QED
      BY <3>1, <3>3, <1>1, <1>4, <1>5, <1>9
  <2>3. HIDE DEF A, F, O
  <2>4. /\ Cardinality(A) \in Nat /\ Cardinality(F) \in Nat /\ Cardinality(O) \in Nat
        /\ Cardinality(F \cup A) = Cardinality(F) + Cardinality(A)
        /\ Cardinality(O \cup A) = Cardinality(O) + Cardinality(A)
    BY <2>2, Parted
  <2>5. Cardinality(F) + Cardinality(A) + Cardinality(O) + lostsize = Cardinality(AllUnits)
    <3>1. Cardinality(F \cup A) + Cardinality(O) + lostsize = Cardinality(AllUnits)
      BY <2>2, <1>4 DEF O
    <3>2. QED
      BY <3>1, <2>4, <1>4
  <2>6. Cardinality(F) + Cardinality(O \cup A) + lostsize = Cardinality(AllUnits)
    BY <2>4, <2>5, <1>4
  <2>7. QED
    BY <2>2, <2>6, <1>3 DEF F
<1>13. Accounted'
  <2>1. AllUnits' = AllUnits
    BY DEF AllUnits, AreaUnits
  <2>2. QED
    BY <2>1, <1>11, <1>12 DEF Accounted
<1>14. QED
  BY <1>7, <1>8, <1>13 DEF IInv

\* What memman_free does to the units, when the block is not lost.
LEMMA FreeGives ==
  ASSUME IInv, NEW b \in owned, FreeJoins(b) \/ FreeInserts(b)
  PROVE  /\ owned' = owned \ {b} /\ UNCHANGED <<losts, lostsize, answer>>
         /\ FreeUnits' = FreeUnits \cup AreaUnits(b)
         /\ free' \in Seq(Block) /\ Len(free') <= MaxFrees /\ Ascends(free')
<1>1. DEFINE i == Place(b.addr)
<1>2. Len(free) \in Nat /\ Len(free) <= MaxFrees /\ MaxFrees \in Nat
  BY Holds, MaxFreesAssumption DEF IInv, TypeOK
<1>3. CASE FreeJoins(b)
  <2>1. /\ JoinsPrevious(b, i) \/ JoinsNext(b, i)
        /\ free' = Joined(b, i)
        /\ owned' = owned \ {b} /\ UNCHANGED <<losts, lostsize, answer>>
    BY <1>3 DEF FreeJoins
  <2>2. /\ Joined(b, i) \in Seq(Block) /\ Len(Joined(b, i)) <= Len(free)
        /\ Ascends(Joined(b, i))
        /\ UnitsIn(Joined(b, i)) = FreeUnits \cup AreaUnits(b)
    BY <2>1, Joins
  <2>3. HIDE DEF i
  <2>4. FreeUnits' = FreeUnits \cup AreaUnits(b)
    BY <2>1, <2>2, TableUnits
  <2>5. Len(free') <= MaxFrees
    BY <2>1, <2>2, <1>2, Entries
  <2>6. QED
    BY <2>1, <2>2, <2>4, <2>5
<1>4. CASE FreeInserts(b)
  <2>1. /\ ~ (JoinsPrevious(b, i) \/ JoinsNext(b, i))
        /\ Len(free) < MaxFrees
        /\ free' = InsertAt(free, i, b)
        /\ owned' = owned \ {b} /\ UNCHANGED <<losts, lostsize, answer>>
    BY <1>4 DEF FreeInserts
  <2>2. /\ InsertAt(free, i, b) \in Seq(Block) /\ Len(InsertAt(free, i, b)) = Len(free) + 1
        /\ Ascends(InsertAt(free, i, b))
        /\ UnitsIn(InsertAt(free, i, b)) = FreeUnits \cup AreaUnits(b)
    BY <2>1, Alone
  <2>3. HIDE DEF i
  <2>4. FreeUnits' = FreeUnits \cup AreaUnits(b)
    BY <2>1, <2>2, TableUnits
  <2>5. Len(free') <= MaxFrees
    BY <2>1, <2>2, <1>2
  <2>6. QED
    BY <2>1, <2>2, <2>4, <2>5
<1>5. QED
  BY <1>3, <1>4

LEMMA FreeKeeps ==
  ASSUME IInv, NEW b \in owned, FreeJoins(b) \/ FreeInserts(b)
  PROVE  IInv'
<1>1. /\ owned' = owned \ {b} /\ losts' = losts /\ lostsize' = lostsize /\ answer' = answer
      /\ FreeUnits' = FreeUnits \cup AreaUnits(b)
      /\ free' \in Seq(Block) /\ Len(free') <= MaxFrees /\ Ascends(free')
  BY FreeGives
<1>2. /\ b \in Block
      /\ AreaUnits(b) \subseteq OwnedUnits
      /\ OwnedUnits' = OwnedUnits \ AreaUnits(b)
      /\ \A c, d \in owned' : c # d => AreaUnits(c) \cap AreaUnits(d) = {}
      /\ owned' \subseteq Block
      /\ IsFiniteSet(OwnedUnits')
      /\ Cardinality(OwnedUnits') \in Nat
      /\ Cardinality(OwnedUnits) = Cardinality(OwnedUnits') + b.size
  BY <1>1, Frees
<1>3. /\ losts \in Nat /\ lostsize \in Nat /\ answer \in Nat
      /\ OwnedUnits \cap FreeUnits = {} /\ OwnedUnits \cup FreeUnits \subseteq AllUnits
      /\ Cardinality(FreeUnits) + Cardinality(OwnedUnits) + lostsize = Cardinality(AllUnits)
  BY DEF IInv, TypeOK, Accounted, NoOverlap
<1>4. TypeOK'
  BY <1>1, <1>2, <1>3 DEF TypeOK
<1>5. Ascending'
  BY <1>1 DEF Ascending, Ascends, Ends
<1>6. AllUnits' = AllUnits
  BY DEF AllUnits, AreaUnits
<1>7. NoOverlap'
  <2>1. OwnedUnits' \cap FreeUnits' = {} /\ OwnedUnits' \cup FreeUnits' \subseteq AllUnits
    BY <1>1, <1>2, <1>3
  <2>2. QED
    BY <2>1, <1>2, <1>6 DEF NoOverlap, AreaUnits
<1>8. Cardinality(FreeUnits') = Cardinality(FreeUnits) + b.size /\ Cardinality(FreeUnits) \in Nat
      /\ b.size \in Nat
  <2>1. IsFiniteSet(FreeUnits) /\ Cardinality(FreeUnits) \in Nat
    BY Holds
  <2>2. IsFiniteSet(AreaUnits(b)) /\ Cardinality(AreaUnits(b)) = b.size
    BY <1>2, BlockSize
  <2>3. FreeUnits \cap AreaUnits(b) = {}
    BY <1>2, <1>3
  <2>4. Cardinality(FreeUnits \cup AreaUnits(b)) = Cardinality(FreeUnits) + Cardinality(AreaUnits(b))
    BY <2>1, <2>2, <2>3, Parted
  <2>5. QED
    BY <1>1, <1>2, <2>1, <2>2, <2>4, Blocks
<1>9. Cardinality(FreeUnits') + Cardinality(OwnedUnits') + lostsize' = Cardinality(AllUnits)
  BY <1>1, <1>2, <1>3, <1>8
<1>10. QED
  BY <1>4, <1>5, <1>6, <1>7, <1>9 DEF IInv, Accounted

LEMMA LossKeeps ==
  ASSUME IInv, NEW b \in owned, FreeLoses(b)
  PROVE  IInv'
<1>1. /\ owned' = owned \ {b} /\ losts' = losts + 1 /\ lostsize' = lostsize + b.size
      /\ answer' = answer /\ free' = free
  BY DEF FreeLoses
<1>2. /\ b \in Block
      /\ AreaUnits(b) \subseteq OwnedUnits
      /\ OwnedUnits' = OwnedUnits \ AreaUnits(b)
      /\ \A c, d \in owned' : c # d => AreaUnits(c) \cap AreaUnits(d) = {}
      /\ owned' \subseteq Block
      /\ Cardinality(OwnedUnits') \in Nat
      /\ Cardinality(OwnedUnits) = Cardinality(OwnedUnits') + b.size
  BY <1>1, Frees
<1>3. /\ free \in Seq(Block) /\ Len(free) <= MaxFrees /\ Ascending
      /\ losts \in Nat /\ lostsize \in Nat /\ answer \in Nat
      /\ OwnedUnits \cap FreeUnits = {} /\ OwnedUnits \cup FreeUnits \subseteq AllUnits
      /\ Cardinality(FreeUnits) + Cardinality(OwnedUnits) + lostsize = Cardinality(AllUnits)
  BY DEF IInv, TypeOK, Accounted, NoOverlap
<1>4. b.size \in Nat
  BY <1>2, Blocks
<1>5. TypeOK'
  BY <1>1, <1>2, <1>3, <1>4 DEF TypeOK
<1>6. Ascending'
  BY <1>1, <1>3 DEF Ascending, Ascends, Ends
<1>7. AllUnits' = AllUnits /\ FreeUnits' = FreeUnits
  BY <1>1 DEF AllUnits, FreeUnits, AreaUnits
<1>8. NoOverlap'
  <2>1. OwnedUnits' \cap FreeUnits' = {} /\ OwnedUnits' \cup FreeUnits' \subseteq AllUnits
    BY <1>2, <1>3, <1>7
  <2>2. QED
    BY <2>1, <1>2, <1>7 DEF NoOverlap, AreaUnits
<1>9. Cardinality(FreeUnits) \in Nat
  BY Holds
<1>10. Cardinality(FreeUnits') + Cardinality(OwnedUnits') + lostsize' = Cardinality(AllUnits)
  BY <1>1, <1>2, <1>3, <1>4, <1>7, <1>9
<1>11. QED
  BY <1>5, <1>6, <1>7, <1>8, <1>10 DEF IInv, Accounted

LEMMA StutterKeeps ==
  ASSUME IInv, UNCHANGED <<free, losts, lostsize, owned>>, answer' \in Nat
  PROVE  IInv'
<1>1. AllUnits' = AllUnits /\ FreeUnits' = FreeUnits /\ OwnedUnits' = OwnedUnits
  BY DEF AllUnits, FreeUnits, OwnedUnits, AreaUnits
<1>2. TypeOK' /\ Ascending'
  BY DEF IInv, TypeOK, Ascending, Ascends, Ends
<1>3. NoOverlap'
  BY <1>1 DEF IInv, Accounted, NoOverlap, AreaUnits
<1>4. QED
  BY <1>1, <1>2, <1>3 DEF IInv, Accounted

LEMMA NextKeeps == IInv /\ [Next]_vars => IInv'
<1>1. SUFFICES ASSUME IInv, [Next]_vars PROVE IInv'
  OBVIOUS
<1>2. ASSUME NEW n \in Sizes, Alloc(n) PROVE IInv'
  BY <1>1, <1>2, AllocKeeps
<1>3. ASSUME NEW n \in Sizes, AllocFails(n) PROVE IInv'
  BY <1>1, <1>3, StutterKeeps DEF AllocFails
<1>4. ASSUME NEW b \in owned, FreeJoins(b) \/ FreeInserts(b) PROVE IInv'
  BY <1>1, <1>4, FreeKeeps
<1>5. ASSUME NEW b \in owned, FreeLoses(b) PROVE IInv'
  BY <1>1, <1>5, LossKeeps
<1>6. CASE UNCHANGED vars
  <2>1. answer \in Nat
    BY <1>1 DEF IInv, TypeOK
  <2>2. QED
    BY <1>1, <1>6, <2>1, StutterKeeps DEF vars
<1>7. QED
  BY <1>1, <1>2, <1>3, <1>4, <1>5, <1>6 DEF Next

(* The invariant of memman_alloc and memman_free.                          *)
THEOREM Inductive == Spec => []IInv
<1>1. Init => IInv
  BY InitHolds
<1>2. IInv /\ [Next]_vars => IInv'
  BY NextKeeps
<1>3. QED
  BY <1>1, <1>2, PTL DEF Spec

(* The table ascends and no two entries touch, whatever is asked for and   *)
(* given back: what the two loops of memman_free rest on.                  *)
THEOREM TableAlwaysNormal == Spec => []TableIsNormal
<1>1. IInv => TableIsNormal
  <2>1. SUFFICES ASSUME IInv PROVE TableIsNormal
    OBVIOUS
  <2>2. TypeOK /\ Ascends(free) /\ Len(free) \in Nat
    BY <2>1, Holds DEF IInv
  <2>3. ASSUME NEW i \in 1 .. Len(free) - 1
        PROVE  free[i].addr + free[i].size < free[i + 1].addr
    <3>1. i \in 1 .. Len(free) /\ i + 1 \in 1 .. Len(free) /\ i < i + 1
      BY <2>2
    <3>2. QED
      BY <3>1, <2>2 DEF Ascends, Ends
  <2>4. QED
    BY <2>2, <2>3 DEF TableIsNormal
<1>2. QED
  BY <1>1, Inductive, PTL

(* Every unit of the memory is free, or in use by one caller, or counted   *)
(* in lostsize.                                                            *)
THEOREM NothingUnaccounted == Spec => []Accounted
<1>1. IInv => Accounted
  BY DEF IInv
<1>2. QED
  BY <1>1, Inductive, PTL

-----------------------------------------------------------------------------
(* The table implements the allocator over single units. *)

LEMMA InitImplements == Init => Abstract!Init
BY DEF Init, Abstract!Init, FreeUnits, AllUnits

LEMMA AllocImplements ==
  ASSUME IInv, NEW n \in Sizes, Alloc(n)
  PROVE  Abstract!Alloc(n)
<1>1. PICK b \in Block :
         /\ b.size = n /\ b = [addr |-> b.addr, size |-> n]
         /\ answer' = b.addr
         /\ owned' = owned \cup {b}
         /\ AreaUnits(b) \subseteq FreeUnits
         /\ FreeUnits' = FreeUnits \ AreaUnits(b)
  BY AllocTakes
<1>2. b.addr \in FreeUnits
  <2>1. b.addr \in AreaUnits(b)
    BY Blocks
  <2>2. QED
    BY <2>1, <1>1
<1>3. \A c : Abstract!UnitsOf(c) = AreaUnits(c)
  BY DEF Abstract!UnitsOf, AreaUnits
<1>4. QED
  BY <1>1, <1>2, <1>3 DEF Abstract!Alloc

LEMMA RefusalImplements ==
  ASSUME IInv, NEW n \in Sizes, AllocFails(n)
  PROVE  Abstract!Refuse(n)
<1>1. n \in Nat
  BY SizesAssumption
<1>2. \A a \in FreeUnits : ~ (a .. a + n - 1 \subseteq FreeUnits)
  BY <1>1, NoRun DEF AllocFails
<1>3. FreeUnits' = FreeUnits
  BY DEF AllocFails, FreeUnits, AreaUnits
<1>4. QED
  BY <1>2, <1>3 DEF AllocFails, Abstract!Refuse

LEMMA FreeImplements ==
  ASSUME IInv, NEW b \in owned, FreeJoins(b) \/ FreeInserts(b)
  PROVE  Abstract!Free(b)
<1>1. /\ owned' = owned \ {b} /\ answer' = answer
      /\ FreeUnits' = FreeUnits \cup AreaUnits(b)
  BY FreeGives
<1>2. Abstract!UnitsOf(b) = AreaUnits(b)
  BY DEF Abstract!UnitsOf, AreaUnits
<1>3. QED
  BY <1>1, <1>2 DEF Abstract!Free

LEMMA LossImplements ==
  ASSUME IInv, NEW b \in owned, FreeLoses(b)
  PROVE  Abstract!Lose(b)
<1>1. /\ ~ (JoinsPrevious(b, Place(b.addr)) \/ JoinsNext(b, Place(b.addr)))
      /\ owned' = owned \ {b} /\ answer' = answer /\ free' = free
  BY DEF FreeLoses
<1>2. b.addr - 1 \notin FreeUnits /\ b.addr + b.size \notin FreeUnits
  BY <1>1, Alone DEF Ends
<1>3. FreeUnits' = FreeUnits
  BY <1>1 DEF FreeUnits, AreaUnits
<1>4. QED
  BY <1>1, <1>2, <1>3 DEF Abstract!Lose

LEMMA NextImplements == IInv /\ [Next]_vars => [Abstract!Next]_(Abstract!vars)
<1>1. SUFFICES ASSUME IInv, [Next]_vars PROVE [Abstract!Next]_(Abstract!vars)
  OBVIOUS
<1>2. ASSUME NEW n \in Sizes, Alloc(n) \/ AllocFails(n) PROVE Abstract!Next
  BY <1>1, <1>2, AllocImplements, RefusalImplements DEF Abstract!Next
<1>3. ASSUME NEW b \in owned, FreeJoins(b) \/ FreeInserts(b) \/ FreeLoses(b)
      PROVE  Abstract!Next
  BY <1>1, <1>3, FreeImplements, LossImplements DEF Abstract!Next
<1>4. CASE UNCHANGED vars
  BY <1>4 DEF vars, Abstract!vars, FreeUnits, AreaUnits
<1>5. QED
  BY <1>1, <1>2, <1>3, <1>4 DEF Next

(* The table refuses a request only when no run of free units is long      *)
(* enough, takes only what is free, and loses a block only when it touches *)
(* no free unit: memory.c implements the allocator over single units.      *)
THEOREM TableImplementsAllocator == Spec => IsAllocator
<1>1. Init => Abstract!Init
  BY InitImplements
<1>2. IInv /\ [Next]_vars => [Abstract!Next]_(Abstract!vars)
  BY NextImplements
<1>3. Spec => Abstract!Spec
  BY <1>1, <1>2, Inductive, PTL DEF Spec, Abstract!Spec
<1>4. QED
  BY <1>3 DEF IsAllocator
==============================================================================
