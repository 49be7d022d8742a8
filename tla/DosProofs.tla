------------------------------ MODULE DosProofs -----------------------------
(***************************************************************************)
(* The soundness of the volume, proved for every size of volume, every     *)
(* number of open files and every place where the power or a write fails.  *)
(*                                                                         *)
(* The inductive invariant labels each cluster with the directory entry it *)
(* belongs to and its place in the chain, and says what the FAT on disk,   *)
(* the FAT as DOS sees it, the entries, the open files and the call in     *)
(* progress have to do with the labels.  A cluster of no entry is free, on *)
(* its way in or out, or lost.                                             *)
(***************************************************************************)
EXTENDS DosVolume, Counting, FiniteSetTheorems

-----------------------------------------------------------------------------
(***************************************************************************)
(* What DOS's walks along the FAT find, for every size of volume: a chain  *)
(* of clusters has an end, its length is what LOCATE_SECTOR counts, and    *)
(* the searches for a free cluster and a free entry find one if there is   *)
(* one.                                                                    *)
(*                                                                         *)
(* The facts are about a FAT f whose clusters are labelled: own gives the  *)
(* directory entry a cluster belongs to, pos its place in the chain.       *)
(***************************************************************************)

NoLoc == <<0, 0>>
Labels == [Clusters -> Loc \union {NoLoc}]
Places == [Clusters -> Nat]
Fats == [Clusters -> FatValue]

\* What clusters are not.
LEMMA ClusterFacts ==
  /\ 0 \notin Clusters /\ FREE \notin Clusters /\ EOC \notin Clusters
  /\ Clusters \subseteq Nat /\ FREE # EOC /\ NoLoc \notin Loc
  /\ \A c \in Clusters : c # 0 /\ c # FREE /\ c # EOC
  /\ \A l \in Loc : l[1] # 0 => l[1] \in Clusters
  /\ MAXCLUS \in Nat /\ MAXCLUS >= 3
<1>1. MAXCLUS \in Nat /\ MAXCLUS >= 3 /\ MAXCLUS <= 65526 /\ ROOTN \in Nat
  BY VolumeAssumption, SMTT(60)
<1> QED
  BY <1>1, SMTT(60) DEF Clusters, FREE, EOC, Loc, NoLoc

(***************************************************************************)
(* Walk(f, c), a recursive function, is defined: NEXT_CLUSTER once more at *)
(* each place.                                                             *)
(***************************************************************************)
LEMMA WalkStep ==
  ASSUME NEW f \in Fats, NEW c \in FatValue
  PROVE  /\ Walk(f, c) \in [0 .. MAXCLUS -> FatValue]
         /\ After(f, c, 0) = c
         /\ \A i \in 0 .. MAXCLUS - 1 :
              After(f, c, i + 1) = IF After(f, c, i) \in Clusters THEN f[After(f, c, i)]
                                   ELSE After(f, c, i)
<1> DEFINE Nx(p) == IF p \in Clusters THEN f[p] ELSE p
           Rec(g) == [i \in 0 .. MAXCLUS |-> IF i = 0 THEN c ELSE Nx(g[i - 1])]
           Upto(g, n) == /\ g \in [0 .. n -> FatValue]
                         /\ g[0] = c /\ \A i \in 1 .. n : g[i] = Nx(g[i - 1])
           S == {n \in 0 .. MAXCLUS : \E g : Upto(g, n)}
<1>0. MAXCLUS \in Nat
  BY ClusterFacts
<1>10. \A p \in FatValue : Nx(p) \in FatValue
  BY DEF Fats
<1> HIDE DEF Nx
<1>1. 0 \in S
  <2>1. Upto([i \in 0 .. 0 |-> c], 0)
    OBVIOUS
  <2> HIDE DEF Upto
  <2> QED
    BY <1>0, <2>1
<1>2. ASSUME NEW n \in 0 .. MAXCLUS - 1, n \in S PROVE n + 1 \in S
  <2>1. PICK g : Upto(g, n)
    BY <1>2
  <2> DEFINE k == [i \in 0 .. n + 1 |-> IF i = n + 1 THEN Nx(g[n]) ELSE g[i]]
  <2>2. Nx(g[n]) \in FatValue
    BY <1>0, <1>10, <2>1
  <2>3. k \in [0 .. n + 1 -> FatValue] /\ k[0] = c
    BY <1>0, <2>1, <2>2
  <2>4. ASSUME NEW i \in 1 .. n + 1 PROVE k[i] = Nx(k[i - 1])
    <3>1. k[i - 1] = g[i - 1]
      BY <1>0
    <3>2. CASE i = n + 1
      BY <1>0, <3>1, <3>2
    <3>3. CASE i \in 1 .. n
      BY <1>0, <2>1, <3>1, <3>3
    <3> QED
      BY <1>0, <3>2, <3>3
  <2>5. Upto(k, n + 1)
    BY <2>3, <2>4
  <2> HIDE DEF Upto, k
  <2> QED
    BY <1>0, <2>5
<1>3. MAXCLUS \in S
  <2> HIDE DEF S
  <2>1. \A i \in 0 .. MAXCLUS : i \in S
    BY <1>0, <1>1, <1>2, UpTo
  <2> QED
    BY <1>0, <2>1
<1>4. PICK g : Upto(g, MAXCLUS)
  BY <1>3
<1>5. g = Rec(g)
  BY <1>0, <1>4
<1>6. Walk(f, c) = Rec(Walk(f, c))
  BY <1>5 DEF Walk, Nx
<1>7. /\ Walk(f, c)[0] = c
      /\ \A i \in 0 .. MAXCLUS - 1 : Walk(f, c)[i + 1] = Nx(Walk(f, c)[i])
  <2> DEFINE w == Walk(f, c)
  <2>1. w = Rec(w)
    BY <1>6
  <2> HIDE DEF w
  <2>2. w[0] = c
    BY <1>0, <2>1
  <2>3. ASSUME NEW i \in 0 .. MAXCLUS - 1 PROVE w[i + 1] = Nx(w[i])
    <3>1. i + 1 \in 0 .. MAXCLUS /\ i + 1 # 0 /\ (i + 1) - 1 = i
      BY <1>0
    <3> QED
      BY <2>1, <3>1
  <2> QED
    BY <2>2, <2>3 DEF w
<1>8. Walk(f, c) \in [0 .. MAXCLUS -> FatValue]
  <2> DEFINE w == Walk(f, c)
             T == {i \in 0 .. MAXCLUS : w[i] \in FatValue}
  <2>1. w = Rec(w)
    BY <1>6
  <2>2. w[0] = c /\ \A i \in 0 .. MAXCLUS - 1 : w[i + 1] = Nx(w[i])
    BY <1>7
  <2> HIDE DEF w
  <2>3. \A i \in 0 .. MAXCLUS : i \in T
    <3>1. 0 \in T
      BY <1>0, <2>2
    <3>2. \A i \in 0 .. MAXCLUS - 1 : i \in T => i + 1 \in T
      BY <1>0, <1>10, <2>2
    <3> HIDE DEF T
    <3> QED
      BY <1>0, <3>1, <3>2, UpTo
  <2>4. w \in [0 .. MAXCLUS -> FatValue]
    BY <2>1, <2>3
  <2> QED
    BY <2>4 DEF w
<1> QED
  BY <1>7, <1>8 DEF After, Nx

\* A set of clusters that no link leaves holds the chains that start in it.
LEMMA ChainWithin ==
  ASSUME NEW f \in Fats, NEW c \in FatValue, NEW S,
         c \in Clusters => c \in S,
         \A x \in Clusters : x \in S /\ f[x] \in Clusters => f[x] \in S
  PROVE  Chain(f, c) \subseteq S
<1> DEFINE T == {i \in 0 .. MAXCLUS : After(f, c, i) \in Clusters => After(f, c, i) \in S}
<1>0. MAXCLUS \in Nat /\ MAXCLUS >= 3
  BY ClusterFacts
<1>1. 0 \in T
  BY <1>0, WalkStep
<1>2. ASSUME NEW i \in 0 .. MAXCLUS - 1, i \in T PROVE i + 1 \in T
  <2>1. After(f, c, i + 1) = IF After(f, c, i) \in Clusters THEN f[After(f, c, i)]
                             ELSE After(f, c, i)
    BY WalkStep
  <2> QED
    BY <1>0, <1>2, <2>1
<1>3. \A i \in 0 .. MAXCLUS : i \in T
  <2> HIDE DEF T
  <2> QED
    BY <1>0, <1>1, <1>2, UpTo
<1>4. \A i \in 0 .. MAXCLUS - 3 : i \in 0 .. MAXCLUS
  BY <1>0
<1> QED
  BY <1>3, <1>4 DEF Chain

\* The chain of a file without clusters.
LEMMA ChainEmpty ==
  ASSUME NEW f \in Fats
  PROVE  Chain(f, 0) = {}
<1>1. 0 \in FatValue /\ 0 \notin Clusters
  BY ClusterFacts DEF FatValue, FREE
<1> DEFINE S == {}
<1>2. \A x \in Clusters : x \in S /\ f[x] \in Clusters => f[x] \in S
  OBVIOUS
<1>3. Chain(f, 0) \subseteq S
  <2> HIDE DEF S
  <2> QED
    BY <1>1, <1>2, ChainWithin
<1> QED
  BY <1>3

-----------------------------------------------------------------------------
\* Each link of f goes one place further in the chain of the same owner, to a
\* cluster in use, and no two links go to the same.
Linked(f, own, pos) ==
  \A c \in Clusters : f[c] \in Clusters =>
    /\ own[f[c]] = own[c] /\ pos[f[c]] = pos[c] + 1
    /\ f[f[c]] # FREE
    /\ \A d \in Clusters : f[d] = f[c] => d = c

\* The clusters of l are one chain that starts at h.
Headed(f, own, pos, l, h) ==
  /\ h \in Clusters /\ own[h] = l /\ pos[h] = 0
  /\ \A c \in Clusters : own[c] = l /\ pos[c] = 0 => c = h
  /\ \A c \in Clusters : own[c] = l /\ pos[c] > 0 => \E d \in Clusters : f[d] = c

\* Before each cluster of a chain are clusters at all the lower places.
LEMMA PlacesBelow ==
  ASSUME NEW f \in Fats, NEW own \in Labels, NEW pos \in Places, NEW l, NEW h,
         Linked(f, own, pos), Headed(f, own, pos, l, h),
         NEW c \in Clusters, own[c] = l, NEW k \in 0 .. pos[c]
  PROVE  \E d \in Clusters : own[d] = l /\ pos[d] = k
<1> DEFINE n == pos[c]
           T == {i \in 0 .. n : \E d \in Clusters : own[d] = l /\ pos[d] = n - i}
<1>0. n \in Nat
  BY DEF Places
<1>1. 0 \in T
  BY <1>0
<1>2. ASSUME NEW i \in 0 .. n - 1, i \in T PROVE i + 1 \in T
  <2>1. PICK d \in Clusters : own[d] = l /\ pos[d] = n - i
    BY <1>2
  <2>2. pos[d] > 0
    BY <1>0, <2>1
  <2>3. PICK e \in Clusters : f[e] = d
    BY <2>1, <2>2 DEF Headed
  <2>4. own[e] = l /\ pos[d] = pos[e] + 1 /\ pos[e] \in Nat
    BY <2>1, <2>3 DEF Linked, Places
  <2>5. pos[e] = n - (i + 1)
    BY <1>0, <2>1, <2>4
  <2> QED
    BY <1>0, <2>4, <2>5
<1>3. \A i \in 0 .. n : i \in T
  <2> HIDE DEF T, n
  <2> QED
    BY <1>0, <1>1, <1>2, UpTo
<1>4. n - k \in T /\ n - (n - k) = k
  BY <1>0, <1>3
<1> QED
  BY <1>4

\* No two clusters of a chain have the same place.
LEMMA PlacesDiffer ==
  ASSUME NEW f \in Fats, NEW own \in Labels, NEW pos \in Places, NEW l, NEW h,
         Linked(f, own, pos), Headed(f, own, pos, l, h),
         NEW c \in Clusters, NEW d \in Clusters, own[c] = l, own[d] = l, pos[c] = pos[d]
  PROVE  c = d
<1> DEFINE n == pos[c]
           T == {i \in 0 .. n : \A x, y \in Clusters :
                   own[x] = l /\ own[y] = l /\ pos[x] = i /\ pos[y] = i => x = y}
<1>0. n \in Nat
  BY DEF Places
<1>1. 0 \in T
  BY <1>0 DEF Headed
<1>2. ASSUME NEW i \in 0 .. n - 1, i \in T PROVE i + 1 \in T
  <2>1. SUFFICES ASSUME NEW x \in Clusters, NEW y \in Clusters, own[x] = l, own[y] = l,
                        pos[x] = i + 1, pos[y] = i + 1
                 PROVE  x = y
    BY <1>0
  <2>2. PICK u \in Clusters : f[u] = x
    BY <2>1, <1>0 DEF Headed
  <2>3. PICK v \in Clusters : f[v] = y
    BY <2>1, <1>0 DEF Headed
  <2>4. own[u] = l /\ own[v] = l /\ pos[x] = pos[u] + 1 /\ pos[y] = pos[v] + 1
    BY <2>1, <2>2, <2>3 DEF Linked
  <2>5. pos[u] = i /\ pos[v] = i
    BY <2>1, <2>4 DEF Places
  <2>6. u = v
    BY <1>2, <2>4, <2>5
  <2> QED
    BY <2>2, <2>3, <2>6
<1>3. \A i \in 0 .. n : i \in T
  <2> HIDE DEF T, n
  <2> QED
    BY <1>0, <1>1, <1>2, UpTo
<1>4. n \in T
  BY <1>0, <1>3
<1> QED
  BY <1>4

\* How many clusters there are.
LEMMA ClusterCount == IsFiniteSet(Clusters) /\ Cardinality(Clusters) = MAXCLUS - 2
<1>1. MAXCLUS \in Nat /\ MAXCLUS >= 3
  BY ClusterFacts
<1>2. 2 \in Int /\ MAXCLUS - 1 \in Int
  BY <1>1
<1>3. /\ IsFiniteSet(2 .. MAXCLUS - 1)
      /\ Cardinality(2 .. MAXCLUS - 1) = IF 2 > MAXCLUS - 1 THEN 0 ELSE (MAXCLUS - 1) - 2 + 1
  BY <1>2, FS_Interval
<1> QED
  BY <1>1, <1>3 DEF Clusters

\* A chain is no longer than the volume, so a walk of MAXCLUS - 3 steps sees all of it.
LEMMA PlaceBound ==
  ASSUME NEW f \in Fats, NEW own \in Labels, NEW pos \in Places, NEW l, NEW h,
         Linked(f, own, pos), Headed(f, own, pos, l, h), NEW c \in Clusters, own[c] = l
  PROVE  pos[c] \in 0 .. MAXCLUS - 3
<1> DEFINE n == pos[c]
           At0(k) == CHOOSE d \in Clusters : own[d] = l /\ pos[d] = k
           g == [k \in 0 .. n |-> At0(k)]
<1>0. n \in Nat /\ MAXCLUS \in Nat /\ MAXCLUS >= 3
  BY ClusterFacts DEF Places
<1>1. \A k \in 0 .. n : At0(k) \in Clusters /\ pos[At0(k)] = k
  BY PlacesBelow
<1> HIDE DEF At0
<1>2. g \in Injection(0 .. n, Clusters)
  <2>1. g \in [0 .. n -> Clusters]
    BY <1>1
  <2>2. \A a, b \in 0 .. n : g[a] = g[b] => a = b
    BY <1>1
  <2> QED
    BY <2>1, <2>2 DEF Injection, IsInjective
<1>3. Cardinality(0 .. n) <= Cardinality(Clusters)
  <2> HIDE DEF g, n
  <2> QED
    BY <1>2, ClusterCount, FS_Injection
<1>4. Cardinality(0 .. n) = n + 1
  BY <1>0, FS_Interval
<1> QED
  BY <1>0, <1>3, <1>4, ClusterCount

\* The walk from the head comes to each cluster of the chain at its place.
LEMMA AfterPos ==
  ASSUME NEW f \in Fats, NEW own \in Labels, NEW pos \in Places, NEW l, NEW h,
         Linked(f, own, pos), Headed(f, own, pos, l, h), NEW c \in Clusters, own[c] = l
  PROVE  After(f, h, pos[c]) = c
<1> DEFINE n == pos[c]
           T == {i \in 0 .. n : \A x \in Clusters :
                   own[x] = l /\ pos[x] = i => After(f, h, i) = x}
<1>0. n \in Nat /\ n <= MAXCLUS - 3 /\ MAXCLUS \in Nat /\ h \in FatValue
  BY PlaceBound, ClusterFacts DEF Headed, FatValue
<1>1. 0 \in T
  <2>1. After(f, h, 0) = h
    BY <1>0, WalkStep
  <2> QED
    BY <1>0, <2>1 DEF Headed
<1>2. ASSUME NEW i \in 0 .. n - 1, i \in T PROVE i + 1 \in T
  <2>1. SUFFICES ASSUME NEW x \in Clusters, own[x] = l, pos[x] = i + 1
                 PROVE  After(f, h, i + 1) = x
    BY <1>0
  <2>2. PICK u \in Clusters : f[u] = x
    BY <2>1, <1>0 DEF Headed
  <2>3. own[u] = l /\ pos[x] = pos[u] + 1
    BY <2>1, <2>2 DEF Linked
  <2>4. pos[u] = i
    BY <2>1, <2>3 DEF Places
  <2>5. After(f, h, i) = u
    BY <1>2, <2>3, <2>4
  <2>6. i \in 0 .. MAXCLUS - 1
    BY <1>0
  <2>7. After(f, h, i + 1) = IF After(f, h, i) \in Clusters THEN f[After(f, h, i)]
                             ELSE After(f, h, i)
    BY <1>0, <2>6, WalkStep
  <2> QED
    BY <2>2, <2>5, <2>7
<1>3. \A i \in 0 .. n : i \in T
  <2> HIDE DEF T, n
  <2> QED
    BY <1>0, <1>1, <1>2, UpTo
<1>4. n \in T
  BY <1>0, <1>3
<1> QED
  BY <1>4

\* The chain of a file is the clusters that belong to it.
LEMMA ChainIs ==
  ASSUME NEW f \in Fats, NEW own \in Labels, NEW pos \in Places, NEW l, NEW h,
         Linked(f, own, pos), Headed(f, own, pos, l, h)
  PROVE  Chain(f, h) = {c \in Clusters : own[c] = l}
<1> DEFINE S == {c \in Clusters : own[c] = l}
<1>1. Chain(f, h) \subseteq S
  <2>1. h \in FatValue /\ h \in S
    BY DEF Headed, FatValue
  <2>2. \A x \in Clusters : x \in S /\ f[x] \in Clusters => f[x] \in S
    BY DEF Linked
  <2> HIDE DEF S
  <2> QED
    BY <2>1, <2>2, ChainWithin
<1>2. S \subseteq Chain(f, h)
  <2>1. SUFFICES ASSUME NEW c \in Clusters, own[c] = l
                 PROVE  c \in Chain(f, h)
    OBVIOUS
  <2>2. pos[c] \in 0 .. MAXCLUS - 3
    BY <2>1, PlaceBound
  <2>3. After(f, h, pos[c]) = c
    BY <2>1, AfterPos
  <2> QED
    BY <2>2, <2>3 DEF Chain
<1> QED
  BY <1>1, <1>2

\* A chain has an end, and LastOf finds one.
LEMMA LastFound ==
  ASSUME NEW f \in Fats, NEW own \in Labels, NEW pos \in Places, NEW l, NEW h,
         Linked(f, own, pos), Headed(f, own, pos, l, h)
  PROVE  /\ LastOf(f, h) \in Clusters /\ own[LastOf(f, h)] = l
         /\ f[LastOf(f, h)] \notin Clusters
<1> DEFINE S == {MAXCLUS - pos[c] : c \in {d \in Clusters : own[d] = l}}
<1>0. MAXCLUS \in Nat /\ h \in Clusters /\ own[h] = l
  BY ClusterFacts DEF Headed
<1>1. \A c \in Clusters : own[c] = l => pos[c] \in 0 .. MAXCLUS - 3
  BY PlaceBound
<1>2. S \subseteq Nat /\ S # {}
  BY <1>0, <1>1
<1>3. PICK m \in S : \A k \in S : m <= k
  <2> HIDE DEF S
  <2> QED
    BY <1>2, Least
<1>4. PICK c \in Clusters : own[c] = l /\ m = MAXCLUS - pos[c]
  BY <1>3
<1>5. ASSUME f[c] \in Clusters PROVE FALSE
  <2>1. own[f[c]] = l /\ pos[f[c]] = pos[c] + 1
    BY <1>4, <1>5 DEF Linked
  <2>2. m <= MAXCLUS - pos[f[c]]
    BY <1>3, <1>5, <2>1
  <2>3. pos[c] \in Nat
    BY DEF Places
  <2> QED
    BY <1>0, <1>4, <2>1, <2>2, <2>3
<1>6. Chain(f, h) = {x \in Clusters : own[x] = l}
  BY ChainIs
<1>7. \E x \in Chain(f, h) : f[x] \notin Clusters
  BY <1>4, <1>5, <1>6
<1>8. LastOf(f, h) \in Chain(f, h) /\ f[LastOf(f, h)] \notin Clusters
  BY <1>7 DEF LastOf
<1> QED
  BY <1>6, <1>8

\* The n-th cluster of a chain of more than n clusters.
LEMMA AfterFound ==
  ASSUME NEW f \in Fats, NEW own \in Labels, NEW pos \in Places, NEW l, NEW h,
         Linked(f, own, pos), Headed(f, own, pos, l, h),
         NEW n \in Nat, n < ChainLen(f, h)
  PROVE  After(f, h, n) \in Clusters /\ own[After(f, h, n)] = l
<1> DEFINE C == {c \in Clusters : own[c] = l}
           g == [c \in C |-> pos[c]]
<1>1. Chain(f, h) = C
  BY ChainIs
<1>2. IsFiniteSet(C) /\ Cardinality(C) \in Nat
  BY ClusterCount, FS_Subset, FS_CardinalityType
<1>3. \E c \in C : pos[c] = n
  <2>1. SUFFICES ASSUME \A c \in C : pos[c] # n
                 PROVE  FALSE
    OBVIOUS
  <2>2. \A c \in C : pos[c] \in 0 .. n - 1
    <3>1. SUFFICES ASSUME NEW c \in C, pos[c] > n PROVE FALSE
      BY <2>1 DEF Places
    <3>2. n \in 0 .. pos[c]
      BY <3>1 DEF Places
    <3>3. \E d \in Clusters : own[d] = l /\ pos[d] = n
      BY <3>2, PlacesBelow
    <3> QED
      BY <2>1, <3>3
  <2>3. g \in Injection(C, 0 .. n - 1)
    <3>1. g \in [C -> 0 .. n - 1]
      BY <2>2
    <3>2. \A a, b \in C : g[a] = g[b] => a = b
      BY PlacesDiffer
    <3> QED
      BY <3>1, <3>2 DEF Injection, IsInjective
  <2>4. IsFiniteSet(0 .. n - 1) /\ Cardinality(0 .. n - 1) = n
    BY FS_Interval
  <2>5. Cardinality(C) <= Cardinality(0 .. n - 1)
    <3> HIDE DEF g, C
    <3> QED
      BY <2>3, <2>4, FS_Injection
  <2> QED
    BY <1>1, <1>2, <2>4, <2>5 DEF ChainLen
<1>4. PICK c \in C : pos[c] = n
  BY <1>3
<1>5. After(f, h, n) = c
  BY <1>4, AfterPos
<1> QED
  BY <1>4, <1>5

-----------------------------------------------------------------------------
\* No sector of the FAT has the number that says that FATBUF has no changes.
LEMMA SecIsOne ==
  ASSUME NEW c \in Clusters
  PROVE  Sec(c) # NONE
<1>1. c \in Nat /\ c < 65526 /\ PerSector \in Nat /\ PerSector >= 1
  BY VolumeAssumption, SMTT(60) DEF Clusters
<1> DEFINE q == c \div PerSector
           r == c % PerSector
<1>2. q \in Nat /\ r \in Nat /\ c = PerSector * q + r
  BY <1>1
<1> HIDE DEF q, r
<1>3. q <= PerSector * q
  BY <1>1, <1>2
<1>4. q <= c
  BY <1>1, <1>2, <1>3
<1>5. q # 65535
  BY <1>1, <1>2, <1>4
<1> QED
  BY <1>5, SMTT(60) DEF Sec, NONE, q

\* ALLOC_CLUSTER ends at a free cluster if there is one.
LEMMA FirstFreeFound ==
  ASSUME ALLOC_HINT \in 2 .. MAXCLUS, FreeClusters # {}
  PROVE  FirstFree \in FreeClusters
<1> DEFINE S == {SearchPos(c) : c \in FreeClusters}
<1>1. AcStart \in Clusters /\ MAXCLUS \in Nat
  <2>1. MAXCLUS \in Nat /\ MAXCLUS >= 3
    BY ClusterFacts
  <2> QED
    BY <2>1 DEF AcStart, Clusters
<1>2. ASSUME NEW c \in FreeClusters PROVE SearchPos(c) \in Nat
  <2>1. c \in Clusters
    BY DEF FreeClusters
  <2> QED
    BY <1>1, <2>1 DEF SearchPos, Clusters
<1> HIDE DEF S
<1>3. S \subseteq Nat /\ S # {}
  BY <1>2 DEF S
<1>4. PICK m \in S : \A k \in S : m <= k
  BY <1>3, Least
<1>5. \E c \in FreeClusters : \A d \in FreeClusters : SearchPos(c) <= SearchPos(d)
  BY <1>4 DEF S
<1> QED
  BY <1>5 DEF FirstFree

\* FIND_FREE_DIRENT ends at a free entry of the directory if there is one.
LEMMA FirstFreeEntryFound ==
  ASSUME NEW d \in Clusters \union {0}, fat \in Fats, FreeEntries(d) # {}
  PROVE  FirstFreeEntry(d) \in FreeEntries(d)
<1> DEFINE F == FreeEntries(d)
           S == {Depth(d, l) : l \in F}
<1>0. MAXCLUS \in Nat /\ MAXCLUS >= 3
  BY ClusterFacts
<1>1. ASSUME NEW l \in F PROVE Depth(d, l) \in Nat
  <2>1. CASE d = 0
    BY <2>1 DEF Depth
  <2>2. CASE d # 0
    <3>1. l[1] \in Chain(fat, d)
      BY <2>2 DEF FreeEntries, Entries, Region
    <3>2. \E n \in 0 .. MAXCLUS : After(fat, d, n) = l[1]
      BY <1>0, <3>1 DEF Chain
    <3>3. Depth(d, l) \in 0 .. MAXCLUS
      BY <2>2, <3>2 DEF Depth
    <3> QED
      BY <1>0, <3>3
  <2> QED
    BY <2>1, <2>2
<1>2. ASSUME NEW l \in F PROVE l[2] \in Nat
  <2>1. l \in Loc
    BY DEF FreeEntries, Entries
  <2>2. ROOTN \in Nat /\ DIRN \in Nat
    BY VolumeAssumption
  <2> QED
    BY <2>1, <2>2 DEF Loc
<1>3. F # {}
  OBVIOUS
<1> HIDE DEF F, S
<1>4. PICK m \in S : \A k \in S : m <= k
  <2>1. S \subseteq Nat /\ S # {}
    BY <1>1, <1>3 DEF S
  <2> QED
    BY <2>1, Least
<1> DEFINE U == {l[2] : l \in {x \in F : Depth(d, x) = m}}
<1> HIDE DEF U
<1>5. PICK i \in U : \A k \in U : i <= k
  <2>1. U \subseteq Nat /\ U # {}
    BY <1>2, <1>4 DEF U, S
  <2> QED
    BY <2>1, Least
<1>6. PICK l \in F : Depth(d, l) = m /\ l[2] = i
  BY <1>5 DEF U
<1>7. ASSUME NEW x \in F
      PROVE  Depth(d, l) < Depth(d, x) \/ (Depth(d, l) = Depth(d, x) /\ l[2] <= x[2])
  <2>1. m <= Depth(d, x)
    BY <1>4 DEF S
  <2>2. Depth(d, x) = m => i <= x[2]
    BY <1>5 DEF U
  <2>3. m \in Nat /\ Depth(d, x) \in Nat
    BY <1>1, <1>6
  <2> QED
    BY <1>6, <2>1, <2>2, <2>3
<1>8. \E y \in FreeEntries(d) : \A x \in FreeEntries(d) :
        Depth(d, y) < Depth(d, x) \/ (Depth(d, y) = Depth(d, x) /\ y[2] <= x[2])
  BY <1>7 DEF F
<1> QED
  BY <1>8 DEF FirstFreeEntry

-----------------------------------------------------------------------------
(* The volume at work                                                      *)

\* The open-file table is in memory only, and a failed FAT write in the middle
\* of a file's growth loses the growth but not what the slot says of it (run
\* dos_lost_alloc): soundness is claimed for volumes where FAT writes fail only
\* while no file can be open.
Guarded == \A s \in Setups : "fat" \notin s.failures \/ s.handles = {}

\* The same of the volume at hand.
FatSafe == "fat" \notin setup.failures \/ setup.handles = {}

OpType ==
  [pc : {"idle", "look", "d_find", "x_alloc", "x_zero", "x_link", "x_done", "o_entry",
         "o_init", "k_entry", "free", "f_done", "m_alloc", "m_zero", "m_entry", "flush",
         "w_walk", "w_first", "w_alloc", "w_link", "s_entry"},
   h : Nat, loc : Loc \union {NoLoc}, dir : Clusters \union {0}, clus : Clusters \union {0},
   prev : Clusters \union {0}, idx : 0 .. MAXCLUS, from : 0 .. MAXCLUS,
   then : {"idle", "o_entry", "m_alloc", "o_init", "w_walk", "keep", "close"}]

\* Cluster c belongs to a directory.
InDir(own, c) == own[c] # NoLoc /\ ents[own[c]].kind = "dir"

\* The entries on disk: each names the first cluster of its own chain, in use
\* on disk, and is itself in the root or in a cluster of a directory.
EntriesKept(own, pos) ==
  \A l \in Loc :
    /\ ents[l].kind = "free" => ents[l] = Blank
    /\ ents[l].kind = "dir" => ents[l].clus # 0
    /\ ents[l].clus # 0 =>
         own[ents[l].clus] = l /\ pos[ents[l].clus] = 0 /\ fat1[ents[l].clus] # FREE
    /\ ents[l].kind # "free" /\ l[1] # 0 => InDir(own, l[1])

\* Cluster c is the first of its owner's chain, by the entry or by an open file.
IsHead(own, c) ==
  \/ c = ents[own[c]].clus
  \/ \E h \in Handles : /\ slot[h].inuse /\ slot[h].dirloc = own[c]
                        /\ slot[h].startclus = c

\* The clusters that belong to an entry are in use and in its chain.
OwnedKept(own, pos) ==
  \A c \in Clusters : own[c] # NoLoc =>
    /\ fat[c] # FREE /\ ents[own[c]].kind # "free"
    /\ pos[c] = 0 => IsHead(own, c)
    /\ pos[c] > 0 => \E d \in Clusters : fat[d] = c
    /\ pos[c] > 0 /\ fat1[c] \in Clusters => \E d \in Clusters : fat1[d] = c
    /\ ents[own[c]].kind = "dir" => c \notin junk

\* An open file is a file, open once, and knows its first and its dirty cluster.
SlotsKept(own, pos) ==
  \A h \in Handles :
    /\ ~slot[h].inuse => slot[h] = Closed
    /\ slot[h].inuse =>
         /\ slot[h].dirloc \in Loc /\ ents[slot[h].dirloc].kind = "file"
         /\ ents[slot[h].dirloc].clus \in {0, slot[h].startclus}
         /\ slot[h].startclus # 0 =>
              own[slot[h].startclus] = slot[h].dirloc /\ pos[slot[h].startclus] = 0
         /\ slot[h].dirty # 0 => own[slot[h].dirty] = slot[h].dirloc
         /\ \A g \in Handles : slot[g].inuse /\ slot[g].dirloc = slot[h].dirloc => g = h

\* DOS's view of the FAT differs from the disk only in the sector in FATBUF.
CacheKept ==
  /\ \A c \in Clusters : fat1[c] # fat[c] => FATDIRTY = Sec(c)
  /\ FATDIRTY = NONE \/ copy2 = 1 => fat1 = fat

\* A cluster just taken, that nothing names yet.
Fresh(x, own) ==
  /\ x \in Clusters /\ own[x] = NoLoc /\ fat[x] = EOC /\ fat1[x] \notin Clusters
  /\ \A c \in Clusters : fat[c] # x /\ fat1[c] # x

\* The last cluster of a chain.
LastIs(x, own) == x \in Clusters /\ own[x] # NoLoc /\ fat[x] \notin Clusters

\* A place for an entry in a directory.
Place(l, own) == l \in Loc /\ (l[1] # 0 => InDir(own, l[1]))

SlotFree(h) == h \in Handles /\ ~slot[h].inuse

\* The entry of the file being opened is that of an empty file nobody has open.
Emptied(own) ==
  /\ SlotFree(op.h) /\ op.loc \in Loc /\ ents[op.loc] = [kind |-> "file", clus |-> 0]
  /\ NotOpen(op.loc) /\ \A c \in Clusters : own[c] # op.loc

\* Only FREE_CHAIN is ahead of the disk with clusters it frees.
OrderKept ==
  op.pc \notin {"free", "f_done"} => \A c \in Clusters : fat[c] = FREE => fat1[c] = FREE

\* A directory's clusters are linked on disk, but for one being added.
DirsKept(own, pos) ==
  \A c \in Clusters : InDir(own, c) /\ pos[c] > 0 /\ ~(op.pc = "x_done" /\ c = op.clus) =>
    \E d \in Clusters : fat1[d] = c

\* FIND_FREE_DIRENT and EXTEND_DIR.
Extending(own, pos) ==
  /\ op.pc = "d_find" => op.dir \in Dirs /\ op.clus = 0
  /\ op.pc \in {"d_find", "x_alloc", "x_zero", "x_link", "x_done"} =>
       op.then = "m_alloc" \/ (op.then = "o_entry" /\ SlotFree(op.h))
  /\ op.pc \in {"x_alloc", "x_zero", "x_link"} => LastIs(op.prev, own) /\ InDir(own, op.prev)
  /\ op.pc = "x_done" => /\ op.clus \in Clusters /\ InDir(own, op.clus) /\ pos[op.clus] > 0
                         /\ \A l \in Loc : l[1] = op.clus => ents[l].kind = "free"

\* A cluster taken and not yet named, and zeroed if it is to hold entries.
Taking(own) ==
  /\ op.pc \in {"x_zero", "x_link", "m_zero", "m_entry", "w_link"} => Fresh(op.clus, own)
  /\ op.pc \in {"x_link", "m_entry"} => op.clus \notin junk

\* The entries about to be written.
Entering(own) ==
  /\ op.pc = "o_entry" => /\ SlotFree(op.h) /\ Place(op.loc, own) /\ NotOpen(op.loc)
                          /\ ents[op.loc].kind # "dir" /\ ents[op.loc].clus = op.clus
  /\ op.pc \in {"m_alloc", "m_zero", "m_entry"} => Place(op.loc, own) /\ ents[op.loc] = Blank
  /\ op.pc = "k_entry" => /\ op.loc \in Loc /\ ents[op.loc].kind # "free"
                          /\ ents[op.loc].clus = op.clus /\ NotOpen(op.loc)
                          /\ op.then = "idle"
                          /\ ents[op.loc].kind = "dir" =>
                               /\ op.clus # CWDCLUS
                               /\ \A m \in Loc : m[1] # 0 /\ own[m[1]] = op.loc =>
                                    ents[m].kind = "free"

\* FREE_CHAIN: nothing names the rest of the chain.
Freeing(own) ==
  /\ op.pc = "free" => /\ op.clus \in Clusters /\ own[op.clus] = NoLoc
                       /\ \A c \in Clusters : fat[c] # op.clus
  /\ op.pc \in {"free", "f_done"} => op.then = "idle" \/ (op.then = "o_init" /\ Emptied(own))
  /\ op.pc = "o_init" => Emptied(own)

\* FILE_WRITE and SYNC_SLOT.
Writing(own) ==
  /\ op.pc \in {"flush", "w_walk", "w_first", "w_alloc", "w_link", "s_entry"} =>
       op.h \in Handles /\ slot[op.h].inuse
  /\ op.pc = "flush" => slot[op.h].dirty # 0
  /\ op.pc = "w_walk" \/ op.then = "w_walk" => op.idx >= 1
  /\ op.pc = "w_first" => slot[op.h].startclus = 0
  /\ op.pc \in {"w_alloc", "w_link"} =>
       LastIs(op.prev, own) /\ own[op.prev] = slot[op.h].dirloc

Doing(own, pos) ==
  Extending(own, pos) /\ Taking(own) /\ Entering(own) /\ Freeing(own) /\ Writing(own)

\* Without crashes and errors a used cluster has an owner unless the call in
\* progress has it, and FATBUF has no changes once files and calls are done.
Leaks(own) ==
  Untroubled =>
    /\ \A c \in Clusters : fat[c] # FREE /\ own[c] = NoLoc =>
         \/ op.pc = "free" /\ (c = op.clus \/ \E d \in Clusters : fat[d] = c)
         \/ op.pc \in {"x_zero", "x_link", "m_zero", "m_entry", "w_link"} /\ c = op.clus
    /\ (\A h \in Handles : ~slot[h].inuse)
         /\ op.pc \notin {"x_zero", "x_link", "x_done", "m_zero", "m_entry", "free", "f_done"} =>
       FATDIRTY = NONE

Types == setup \in Setups /\ TypeOK /\ op \in OpType

Layout(own, pos) ==
  /\ Linked(fat, own, pos) /\ Linked(fat1, own, pos)
  /\ EntriesKept(own, pos) /\ OwnedKept(own, pos) /\ SlotsKept(own, pos)
  /\ CacheKept /\ OrderKept /\ DirsKept(own, pos) /\ Doing(own, pos) /\ Leaks(own)

Kept(own, pos) == Types /\ CwdLives /\ Layout(own, pos)

DosInv == \E own \in Labels, pos \in Places : Kept(own, pos)

-----------------------------------------------------------------------------
(* The second copy of the FAT. *)

\* Only a commit under way leaves a sector's second copy behind.
Behind == Untroubled => stale \subseteq (IF copy2 = 1 THEN {FATDIRTY} ELSE {})

\* Every call but the commit leaves the copies alone.
LEMMA CallsLeaveCopies ==
  ASSUME Next, ~FatCommit1, ~FatCommit2, Untroubled
  PROVE  stale' = stale /\ copy2' = copy2 /\ (copy2 = 1 => FATDIRTY' = FATDIRTY)
<1>1. CASE Call
  BY <1>1, Zenon DEF Call, DOS_STAT, DOS_CHDIR, DOS_MKDIR, OpenCreate, DOS_KILL, DOS_RMDIR,
     OpenTruncate, OpenKeep, FILE_WRITE, SYNC_SLOT, DOS_EXIT, disk, cache
<1>2. CASE Look \/ FIND_FREE_DIRENT \/ ExtendAlloc \/ ExtendZero \/ ExtendLink \/ ExtendDone
  BY <1>2 DEF Look, FIND_FREE_DIRENT, ExtendAlloc, ExtendZero, ExtendLink, ExtendDone,
     Ready, ALLOC_CLUSTER, SET_FAT_ENTRY, disk, cache
<1>3. CASE OpenEntry \/ OpenInit \/ KillEntry \/ FREE_CHAIN \/ FreeDone
  BY <1>3 DEF OpenEntry, OpenInit, KillEntry, FREE_CHAIN, FreeDone, Ready, disk, cache
<1>4. CASE MkdirAlloc \/ MkdirZero \/ MkdirEntry \/ FLUSH_SLOT
  BY <1>4 DEF MkdirAlloc, MkdirZero, MkdirEntry, FLUSH_SLOT, Ready, ALLOC_CLUSTER, disk, cache
<1>5. CASE LocateWalk \/ LocateFirst \/ LocateAlloc \/ LocateLink \/ SyncEntry
  BY <1>5 DEF LocateWalk, LocateFirst, LocateAlloc, LocateLink, SyncEntry, Ready,
     ALLOC_CLUSTER, SET_FAT_ENTRY, disk, cache
<1>6. CASE Crash \/ CommitFails \/ EntryFails \/ FlushFails
  BY <1>6 DEF Crash, CommitFails, EntryFails, FlushFails, Untroubled
<1> QED
  BY <1>1, <1>2, <1>3, <1>4, <1>5, <1>6, Zenon DEF Next, Step

(***************************************************************************)
(* The second copy of the FAT agrees with the first whenever no commit is  *)
(* under way (FAT_COMMIT), on every volume without crashes and errors.     *)
(***************************************************************************)
THEOREM DosCopiesAgree == Spec => []CopiesAgree
<1>1. Init => Behind
  BY DEF Init, Behind
<1>2. Behind /\ [Next]_vars => Behind'
  <2>1. SUFFICES ASSUME Behind, Next, Untroubled'
                 PROVE  stale' \subseteq (IF copy2' = 1 THEN {FATDIRTY'} ELSE {})
    BY DEF Behind, vars, disk, cache, Untroubled
  <2>2. Untroubled
    BY <2>1 DEF Next, Untroubled
  <2>3. CASE FatCommit1
    BY <2>1, <2>2, <2>3 DEF FatCommit1, CommitDue, Behind
  <2>4. CASE FatCommit2
    BY <2>1, <2>2, <2>4 DEF FatCommit2, Behind
  <2>5. CASE ~FatCommit1 /\ ~FatCommit2
    BY <2>1, <2>2, <2>5, CallsLeaveCopies DEF Behind
  <2> QED
    BY <2>3, <2>4, <2>5
<1>3. Behind => CopiesAgree
  BY DEF Behind, CopiesAgree
<1> QED
  BY <1>1, <1>2, <1>3, PTL DEF Spec

-----------------------------------------------------------------------------
(* Facts about the steps. *)

\* What Ready(p) says of FATBUF: at a commit point it has no changes, and if it
\* has any then the FAT entries the step looks at are in its sector.
LEMMA ReadyMeans ==
  ASSUME NEW p, Ready(p)
  PROVE  /\ op.pc = p /\ copy2 = 0 /\ (p \in CommitPoints => FATDIRTY = NONE)
         /\ \A c \in FatWanted : FATDIRTY = NONE \/ Sec(c) = FATDIRTY
BY DEF Ready, CommitDue

\* Where FAT entry c may be set without a commit, the rest of the FAT as DOS
\* sees it still differs from the disk only in the sector of c.
LEMMA CacheSet ==
  ASSUME CacheKept, TypeOK, copy2 = 0, NEW c \in Clusters, NEW v,
         FATDIRTY = NONE \/ Sec(c) = FATDIRTY,
         fat' = [fat EXCEPT ![c] = v], FATDIRTY' = Sec(c), fat1' = fat1, copy2' = copy2
  PROVE  CacheKept'
<1>1. \A x \in Clusters : fat1'[x] # fat'[x] => x = c \/ fat1[x] # fat[x]
  BY DEF TypeOK
<1>2. \A x \in Clusters : fat1[x] # fat[x] => FATDIRTY = Sec(x) /\ FATDIRTY # NONE
  BY DEF CacheKept
<1>3. FATDIRTY' # NONE
  BY SecIsOne
<1> QED
  BY <1>1, <1>2, <1>3 DEF CacheKept

\* Between calls there is nothing to keep about the call in progress.
LEMMA IdleDoes ==
  ASSUME op' = IdleOp, NEW own, NEW pos
  PROVE  Doing(own, pos)' /\ op' \in OpType
<1>1. op' \in OpType
  BY ClusterFacts DEF IdleOp, OpType, NoLoc
<1>2. op'.pc = "idle" /\ op'.then = "idle"
  BY DEF IdleOp
<1>3. Extending(own, pos)'
  BY <1>2 DEF Extending
<1>4. Taking(own)'
  BY <1>2 DEF Taking
<1>5. Entering(own)'
  BY <1>2 DEF Entering
<1>6. Freeing(own)'
  BY <1>2 DEF Freeing
<1>7. Writing(own)'
  BY <1>2 DEF Writing
<1> QED
  BY <1>1, <1>3, <1>4, <1>5, <1>6, <1>7 DEF Doing

\* What a step that changes no FAT, entry or open file has to keep.
LEMMA OpMoves ==
  ASSUME NEW own \in Labels, NEW pos \in Places, Kept(own, pos),
         UNCHANGED <<disk, cache, slot, setup>>, op' \in OpType, CWDCLUS' \in Dirs,
         OrderKept', DirsKept(own, pos)', Doing(own, pos)', Leaks(own)'
  PROVE  Kept(own, pos)'
<1>1. Types' /\ CwdLives'
  <2>1. Dirs \subseteq Clusters \union {0} /\ Dirs' = Dirs
    BY DEF Kept, Types, TypeOK, Dirs, disk
  <2> QED
    BY <2>1 DEF Kept, Types, TypeOK, CwdLives, disk, cache, Handles
<1>2. Linked(fat, own, pos)' /\ Linked(fat1, own, pos)' /\ CacheKept'
  BY DEF Kept, Layout, Linked, CacheKept, disk, cache
<1>3. EntriesKept(own, pos)'
  BY DEF Kept, Layout, EntriesKept, InDir, disk
<1>4. OwnedKept(own, pos)'
  BY DEF Kept, Layout, OwnedKept, IsHead, Handles, disk, cache
<1>5. SlotsKept(own, pos)'
  BY DEF Kept, Layout, SlotsKept, Handles, disk
<1> QED
  BY <1>1, <1>2, <1>3, <1>4, <1>5 DEF Kept, Layout

\* A step that only starts or advances a call.
LEMMA OpOnly ==
  ASSUME NEW own \in Labels, NEW pos \in Places, Kept(own, pos),
         UNCHANGED <<disk, cache, slot, setup>>, op' \in OpType, CWDCLUS' \in Dirs,
         op.pc \notin {"free", "f_done", "x_done"},
         op.pc \in {"x_zero", "x_link", "m_zero", "m_entry", "w_link"} => ~Untroubled,
         Doing(own, pos)'
  PROVE  Kept(own, pos)'
<1>1. OrderKept' /\ DirsKept(own, pos)'
  BY DEF Kept, Layout, OrderKept, DirsKept, InDir, disk, cache
<1>2. Leaks(own)'
  BY DEF Kept, Layout, Leaks, Untroubled, Handles, disk, cache
<1> QED
  BY <1>1, <1>2, OpMoves

-----------------------------------------------------------------------------
(* The chains that entries and open files name. *)

\* The chain that an entry names has all the clusters of the entry.
LEMMA EntryHead ==
  ASSUME NEW own \in Labels, NEW pos \in Places, Kept(own, pos),
         NEW l \in Loc, ents[l].clus # 0
  PROVE  Headed(fat, own, pos, l, ents[l].clus)
<1>1. /\ ents[l].clus \in Clusters /\ own[ents[l].clus] = l /\ pos[ents[l].clus] = 0
      /\ l # NoLoc
  BY ClusterFacts DEF Kept, Types, TypeOK, Layout, EntriesKept
<1>2. \A c \in Clusters : own[c] = l /\ pos[c] = 0 => c = ents[l].clus
  BY <1>1 DEF Kept, Layout, OwnedKept, IsHead, SlotsKept
<1>3. \A c \in Clusters : own[c] = l /\ pos[c] > 0 => \E d \in Clusters : fat[d] = c
  BY <1>1 DEF Kept, Layout, OwnedKept
<1> QED
  BY <1>1, <1>2, <1>3 DEF Headed

\* The chain of an open file has all the clusters of its entry.
LEMMA SlotHead ==
  ASSUME NEW own \in Labels, NEW pos \in Places, Kept(own, pos),
         NEW h \in Handles, slot[h].inuse, slot[h].startclus # 0
  PROVE  Headed(fat, own, pos, slot[h].dirloc, slot[h].startclus)
<1> DEFINE l == slot[h].dirloc
           s == slot[h].startclus
<1>1. s \in Clusters
  BY DEF Kept, Types, TypeOK
<1>2. l \in Loc /\ l # NoLoc /\ own[s] = l /\ pos[s] = 0
  BY ClusterFacts DEF Kept, Layout, SlotsKept
<1>3. ASSUME NEW c \in Clusters, own[c] = l, pos[c] = 0 PROVE c = s
  <2>1. IsHead(own, c)
    BY <1>2, <1>3 DEF Kept, Layout, OwnedKept
  <2>2. c # 0
    BY ClusterFacts
  <2> QED
    BY <1>3, <2>1, <2>2 DEF IsHead, Kept, Layout, SlotsKept
<1>4. \A c \in Clusters : own[c] = l /\ pos[c] > 0 => \E d \in Clusters : fat[d] = c
  BY <1>2 DEF Kept, Layout, OwnedKept
<1> QED
  BY <1>1, <1>2, <1>3, <1>4 DEF Headed

\* An entry whose clusters no entry or open file heads has no clusters.
LEMMA OwnerHasHead ==
  ASSUME NEW own \in Labels, NEW pos \in Places, Linked(fat, own, pos), OwnedKept(own, pos),
         NEW c \in Clusters, own[c] # NoLoc
  PROVE  \E h \in Clusters : own[h] = own[c] /\ pos[h] = 0
<1> DEFINE S == {pos[d] : d \in {x \in Clusters : own[x] = own[c]}}
<1>1. S \subseteq Nat /\ S # {}
  BY DEF Places
<1>2. PICK m \in S : \A k \in S : m <= k
  <2> HIDE DEF S
  <2> QED
    BY <1>1, Least
<1>3. PICK h \in Clusters : own[h] = own[c] /\ pos[h] = m
  BY <1>2
<1>4. ASSUME pos[h] > 0 PROVE FALSE
  <2>1. PICK d \in Clusters : fat[d] = h
    BY <1>3, <1>4 DEF OwnedKept
  <2>2. own[d] = own[c] /\ pos[h] = pos[d] + 1 /\ pos[d] \in Nat
    BY <1>3, <2>1 DEF Linked, Places
  <2>3. m <= pos[d]
    BY <1>2, <2>2
  <2> QED
    BY <1>3, <2>2, <2>3
<1> QED
  BY <1>3, <1>4 DEF Places

\* The clusters of a directory belong to its entry.
LEMMA DirWithin ==
  ASSUME NEW own \in Labels, NEW pos \in Places, Kept(own, pos),
         NEW d \in Dirs, d # 0, NEW f \in {fat, fat1}
  PROVE  \E m \in Loc : /\ ents[m].kind = "dir" /\ ents[m].clus = d
                        /\ \A c \in Chain(f, d) : own[c] = m
<1>1. PICK m \in Loc : ents[m].kind = "dir" /\ ents[m].clus = d
  BY DEF Dirs
<1>2. d \in Clusters /\ own[d] = m /\ f \in Fats /\ Linked(f, own, pos)
  BY <1>1 DEF Kept, Types, TypeOK, Layout, EntriesKept, Fats
<1> DEFINE S == {c \in Clusters : own[c] = m}
<1>3. d \in FatValue /\ d \in S
  BY <1>2 DEF FatValue
<1>4. \A x \in Clusters : x \in S /\ f[x] \in Clusters => f[x] \in S
  BY <1>2 DEF Linked
<1>5. Chain(f, d) \subseteq S
  <2> HIDE DEF S
  <2> QED
    BY <1>2, <1>3, <1>4, ChainWithin
<1> QED
  BY <1>1, <1>5

-----------------------------------------------------------------------------
(* The calls. *)

\* A call that opens a file that keeps its contents.
LEMMA OpenKeepKept ==
  ASSUME NEW own \in Labels, NEW pos \in Places, Kept(own, pos), setup' = setup,
         NEW h \in Handles, NEW l \in Loc, OpenKeep(h, l)
  PROVE  Kept(own, pos)'
<1> DEFINE e == [Closed EXCEPT !.inuse = TRUE, !.startclus = ents[l].clus, !.dirloc = l]
<1>1. /\ slot' = [slot EXCEPT ![h] = e] /\ UNCHANGED <<disk, cache, CWDCLUS, op, setup>>
      /\ op.pc = "idle" /\ ~slot[h].inuse /\ ents[l].kind = "file" /\ NotOpen(l)
  BY DEF OpenKeep, FreeSlot
<1>2. /\ e.inuse = TRUE /\ e.startclus = ents[l].clus /\ e.dirloc = l /\ e.dirty = 0
      /\ ents[l].clus \in Clusters \union {0}
      /\ e \in [inuse : BOOLEAN, startclus : Clusters \union {0},
                dirloc : Loc \union {<<0, 0>>}, dirty : Clusters \union {0}]
  BY DEF Closed, Kept, Types, TypeOK
<1> HIDE DEF e
<1>3. slot'[h] = e /\ \A g \in Handles \ {h} : slot'[g] = slot[g]
  BY <1>1 DEF Kept, Types, TypeOK
<1>4. Types'
  BY <1>1, <1>2 DEF Kept, Types, TypeOK, disk, cache, Handles
<1>5. CwdLives'
  BY <1>1 DEF Kept, CwdLives, Dirs, disk
<1>6. Linked(fat, own, pos)' /\ Linked(fat1, own, pos)' /\ CacheKept' /\ EntriesKept(own, pos)'
  BY <1>1 DEF Kept, Layout, Linked, CacheKept, EntriesKept, InDir, disk, cache
<1>7. OwnedKept(own, pos)'
  BY <1>1, <1>3 DEF Kept, Layout, OwnedKept, IsHead, Handles, disk, cache
<1>8. SlotsKept(own, pos)'
  BY <1>1, <1>2, <1>3 DEF Kept, Layout, SlotsKept, EntriesKept, NotOpen, Handles, disk
<1>9. OrderKept' /\ DirsKept(own, pos)'
  BY <1>1 DEF Kept, Layout, OrderKept, DirsKept, InDir, disk, cache
<1>10. Doing(own, pos)'
  <2>1. op'.pc = "idle" /\ op'.then = op.then /\ op'.idx = op.idx
    BY <1>1
  <2>2. Writing(own)'
    BY <1>1, <2>1 DEF Writing, Kept, Layout, Doing
  <2> QED
    BY <2>1, <2>2 DEF Doing, Extending, Taking, Entering, Freeing
<1>11. Leaks(own)'
  BY <1>1, <1>2, <1>3 DEF Kept, Layout, Leaks, Untroubled, Handles, disk, cache
<1> QED
  BY <1>4, <1>5, <1>6, <1>7, <1>8, <1>9, <1>10, <1>11 DEF Kept, Layout

\* Every call starts in a state that keeps the invariant.
LEMMA CallKept ==
  ASSUME NEW own \in Labels, NEW pos \in Places, Kept(own, pos), Call, setup' = setup
  PROVE  Kept(own, pos)'
<1>0. op.pc = "idle"
  BY DEF Call
<1> DEFINE Quiet == UNCHANGED <<disk, cache, slot, CWDCLUS, setup>>
<1>1. ASSUME Quiet, op' \in OpType, Doing(own, pos)' PROVE Kept(own, pos)'
  <2>1. UNCHANGED <<disk, cache, slot, setup>> /\ CWDCLUS' \in Dirs
    BY <1>1 DEF Kept, CwdLives
  <2> QED
    BY <1>0, <1>1, <2>1, OpOnly
<1>2. Handles \subseteq Nat /\ Dirs \subseteq Clusters \union {0} /\ 0 \in 0 .. MAXCLUS
  <2>1. Handles \subseteq Nat
    <3>1. \A s \in Setups : s.handles \subseteq Nat
      BY SetupAssumption
    <3> QED
      BY <3>1 DEF Kept, Types, Handles
  <2>2. Dirs \subseteq Clusters \union {0}
    BY DEF Kept, Types, TypeOK, Dirs
  <2>3. MAXCLUS \in Nat
    BY ClusterFacts
  <2> QED
    BY <2>1, <2>2, <2>3
<1>3. \A l \in Loc : ents[l].clus \in Clusters \union {0}
  BY DEF Kept, Types, TypeOK
<1>4. ASSUME NEW c \in Clusters, DOS_STAT(c) PROVE Kept(own, pos)'
  <2>1. op' = [IdleOp EXCEPT !.pc = "look", !.clus = c] /\ Quiet
    BY <1>4 DEF DOS_STAT, Start
  <2>2. op' \in OpType /\ op'.pc = "look" /\ op'.then = "idle"
    BY <1>2, <2>1 DEF IdleOp, OpType, NoLoc
  <2>3. Doing(own, pos)'
    BY <2>2 DEF Doing, Extending, Taking, Entering, Freeing, Writing
  <2> QED
    BY <1>1, <2>1, <2>2, <2>3
<1>5. ASSUME NEW d \in Dirs, DOS_CHDIR(d) PROVE Kept(own, pos)'
  <2>1. UNCHANGED <<disk, cache, slot, setup>> /\ CWDCLUS' \in Dirs /\ op' = op
    BY <1>5 DEF DOS_CHDIR
  <2>2. Doing(own, pos)'
    <3>1. op'.pc = "idle" /\ op'.then = op.then /\ op'.idx = op.idx
      BY <1>0, <2>1
    <3>2. Writing(own)'
      BY <1>0, <3>1 DEF Writing, Kept, Layout, Doing
    <3> QED
      BY <3>1, <3>2 DEF Doing, Extending, Taking, Entering, Freeing
  <2> QED
    BY <1>0, <2>1, <2>2, OpOnly DEF Kept, Types
<1>6. ASSUME NEW d \in Dirs, DOS_MKDIR(d) PROVE Kept(own, pos)'
  <2>1. op' = [IdleOp EXCEPT !.pc = "d_find", !.dir = d, !.then = "m_alloc"] /\ Quiet
    BY <1>6 DEF DOS_MKDIR, Start
  <2>2. /\ op' \in OpType /\ op'.pc = "d_find" /\ op'.then = "m_alloc" /\ op'.dir = d
        /\ op'.clus = 0
    BY <1>2, <2>1 DEF IdleOp, OpType, NoLoc
  <2>3. d \in Dirs'
    BY <2>1 DEF Dirs, disk
  <2>4. Doing(own, pos)'
    BY <2>2, <2>3 DEF Doing, Extending, Taking, Entering, Freeing, Writing
  <2> QED
    BY <1>1, <2>1, <2>2, <2>4
<1>7. ASSUME NEW d \in Dirs, NEW h \in Handles, OpenCreate(h, d) PROVE Kept(own, pos)'
  <2>1. /\ op' = [IdleOp EXCEPT !.pc = "d_find", !.h = h, !.dir = d, !.then = "o_entry"]
        /\ Quiet /\ ~slot[h].inuse
    BY <1>7 DEF OpenCreate, Start, FreeSlot
  <2>2. /\ op' \in OpType /\ op'.pc = "d_find" /\ op'.then = "o_entry" /\ op'.dir = d
        /\ op'.clus = 0 /\ op'.h = h
    BY <1>2, <2>1 DEF IdleOp, OpType, NoLoc
  <2>3. d \in Dirs' /\ SlotFree(h)'
    BY <2>1 DEF Dirs, disk, SlotFree, Handles
  <2>4. Doing(own, pos)'
    BY <2>2, <2>3 DEF Doing, Extending, Taking, Entering, Freeing, Writing
  <2> QED
    BY <1>1, <2>1, <2>2, <2>4
<1>8. ASSUME NEW l \in Loc, DOS_KILL(l) \/ DOS_RMDIR(l) PROVE Kept(own, pos)'
  <2>1. /\ op' = [IdleOp EXCEPT !.pc = "k_entry", !.loc = l, !.clus = ents[l].clus] /\ Quiet
        /\ ents[l].kind # "free"
    BY <1>8 DEF DOS_KILL, DOS_RMDIR, Start
  <2>2. /\ op' \in OpType /\ op'.pc = "k_entry" /\ op'.then = "idle" /\ op'.loc = l
        /\ op'.clus = ents[l].clus
    BY <1>2, <1>3, <2>1 DEF IdleOp, OpType, NoLoc
  <2>3. NotOpen(l)'
    <3>1. NotOpen(l)
      BY <1>8 DEF DOS_KILL, DOS_RMDIR, NotOpen, Kept, Layout, SlotsKept
    <3> QED
      BY <2>1, <3>1 DEF NotOpen, Handles
  <2>4. ASSUME ents[l].kind = "dir"
        PROVE  /\ ents[l].clus # CWDCLUS
               /\ \A m \in Loc : m[1] # 0 /\ own[m[1]] = l => ents[m].kind = "free"
    <3>1. DOS_RMDIR(l)
      BY <1>8, <2>4 DEF DOS_KILL
    <3>2. ents[l].clus # 0
      BY <2>4 DEF Kept, Layout, EntriesKept
    <3>3. fat \in Fats /\ Linked(fat, own, pos)
      BY DEF Kept, Types, TypeOK, Fats, Layout
    <3>4. Headed(fat, own, pos, l, ents[l].clus)
      BY <3>2, EntryHead
    <3>5. Chain(fat, ents[l].clus) = {c \in Clusters : own[c] = l}
      BY <3>3, <3>4, ChainIs
    <3>6. ASSUME NEW m \in Loc, m[1] # 0, own[m[1]] = l PROVE m \in Entries(ents[l].clus)
      <4>1. m[1] \in Clusters
        BY <3>6, ClusterFacts
      <4> QED
        BY <3>2, <3>5, <3>6, <4>1 DEF Entries, Region
    <3> QED
      BY <3>1, <3>6 DEF DOS_RMDIR
  <2>5. Entering(own)'
    BY <2>1, <2>2, <2>3, <2>4 DEF Entering, disk
  <2>6. Doing(own, pos)'
    BY <2>2, <2>5 DEF Doing, Extending, Taking, Freeing, Writing
  <2> QED
    BY <1>1, <2>1, <2>2, <2>6
<1>9. ASSUME NEW h \in Handles, NEW l \in Loc, OpenTruncate(h, l) PROVE Kept(own, pos)'
  <2>1. /\ op' = [IdleOp EXCEPT !.pc = "o_entry", !.h = h, !.loc = l, !.clus = ents[l].clus]
        /\ Quiet /\ ~slot[h].inuse /\ ents[l].kind = "file" /\ NotOpen(l)
    BY <1>9 DEF OpenTruncate, Start, FreeSlot
  <2>2. /\ op' \in OpType /\ op'.pc = "o_entry" /\ op'.then = "idle" /\ op'.loc = l
        /\ op'.clus = ents[l].clus /\ op'.h = h
    BY <1>2, <1>3, <2>1 DEF IdleOp, OpType, NoLoc
  <2>3. NotOpen(l)' /\ SlotFree(h)'
    BY <2>1 DEF NotOpen, SlotFree, Handles
  <2>4. Place(l, own)'
    BY <2>1 DEF Place, InDir, Kept, Layout, EntriesKept, disk
  <2>5. Entering(own)'
    BY <2>1, <2>2, <2>3, <2>4 DEF Entering, disk
  <2>6. Doing(own, pos)'
    BY <2>2, <2>5 DEF Doing, Extending, Taking, Freeing, Writing
  <2> QED
    BY <1>1, <2>1, <2>2, <2>6
<1>10. ASSUME NEW h \in Handles, NEW k \in 1 .. MAXCLUS, NEW from \in 1 .. k,
              FILE_WRITE(h, k, from)
       PROVE  Kept(own, pos)'
  <2> DEFINE p == IF slot[h].dirty = 0 THEN "w_walk" ELSE "flush"
  <2>1. /\ op' = [IdleOp EXCEPT !.pc = p, !.h = h, !.idx = k, !.from = from, !.then = "w_walk"]
        /\ Quiet /\ slot[h].inuse
    BY <1>10 DEF FILE_WRITE, Start
  <2>0. k \in 0 .. MAXCLUS /\ from \in 0 .. MAXCLUS
    BY ClusterFacts
  <2>2. /\ op' \in OpType /\ op'.pc = p /\ op'.then = "w_walk" /\ op'.h = h /\ op'.idx = k
    BY <1>2, <2>0, <2>1 DEF IdleOp, OpType, NoLoc
  <2>3. Doing(own, pos)'
    BY <2>1, <2>2, ClusterFacts DEF Doing, Extending, Taking, Entering, Freeing, Writing, Handles
  <2> QED
    BY <1>1, <2>1, <2>2, <2>3
<1>11. ASSUME NEW h \in Handles, NEW then \in {"keep", "close"}, SYNC_SLOT(h, then)
       PROVE  Kept(own, pos)'
  <2> DEFINE p == IF slot[h].dirty = 0 THEN "s_entry" ELSE "flush"
  <2>1. /\ op' = [IdleOp EXCEPT !.pc = p, !.h = h, !.then = then]
        /\ Quiet /\ slot[h].inuse
    BY <1>11 DEF SYNC_SLOT, Start
  <2>2. op' \in OpType /\ op'.pc = p /\ op'.then = then /\ op'.h = h
    BY <1>2, <2>1 DEF IdleOp, OpType, NoLoc
  <2>3. Doing(own, pos)'
    BY <2>1, <2>2 DEF Doing, Extending, Taking, Entering, Freeing, Writing, Handles
  <2> QED
    BY <1>1, <2>1, <2>2, <2>3
<1>12. ASSUME DOS_EXIT PROVE Kept(own, pos)'
  <2>1. op' = [IdleOp EXCEPT !.pc = "f_done"] /\ Quiet
    BY <1>12 DEF DOS_EXIT, Start
  <2>2. op' \in OpType /\ op'.pc = "f_done" /\ op'.then = "idle"
    BY <1>2, <2>1 DEF IdleOp, OpType, NoLoc
  <2>3. Doing(own, pos)'
    BY <2>2 DEF Doing, Extending, Taking, Entering, Freeing, Writing
  <2> QED
    BY <1>1, <2>1, <2>2, <2>3
<1> HIDE DEF Quiet
<1> QED
  BY <1>4, <1>5, <1>6, <1>7, <1>8, <1>9, <1>10, <1>11, <1>12, OpenKeepKept DEF Call

-----------------------------------------------------------------------------
(* The steps that change only the call in progress. *)

\* FIND_FREE_DIRENT finds a free entry, or the end of the directory.
LEMMA FindKept ==
  ASSUME NEW own \in Labels, NEW pos \in Places, Kept(own, pos), FIND_FREE_DIRENT, setup' = setup
  PROVE  Kept(own, pos)'
<1>1. /\ UNCHANGED <<disk, cache, slot, setup>> /\ CWDCLUS' \in Dirs
      /\ op.pc = "d_find"
  BY ReadyMeans DEF FIND_FREE_DIRENT, Kept, CwdLives
<1>2. /\ op \in OpType /\ op.dir \in Dirs /\ op.clus = 0
      /\ op.then = "m_alloc" \/ (op.then = "o_entry" /\ SlotFree(op.h))
      /\ op.dir \in Clusters \union {0} /\ fat \in Fats
  BY <1>1 DEF Kept, Types, TypeOK, Layout, Doing, Extending, OpType, Fats
<1>3. CASE FreeEntries(op.dir) # {}
  <2>0. PICK l : l = FirstFreeEntry(op.dir)
    OBVIOUS
  <2>1. op' = [op EXCEPT !.pc = op.then, !.loc = l]
    BY <1>3, <2>0 DEF FIND_FREE_DIRENT
  <2>2. l \in FreeEntries(op.dir)
    BY <1>2, <1>3, <2>0, FirstFreeEntryFound
  <2>3. l \in Loc /\ ents[l] = Blank /\ l[1] \in Region(op.dir)
    BY <2>2 DEF FreeEntries, Entries, Kept, Layout, EntriesKept
  <2>4. l[1] # 0 => InDir(own, l[1])
    <3>1. CASE op.dir = 0
      BY <2>3, <3>1 DEF Region
    <3>2. CASE op.dir # 0
      <4>1. PICK m \in Loc : /\ ents[m].kind = "dir"
                             /\ \A c \in Chain(fat, op.dir) : own[c] = m
        BY <1>2, <3>2, DirWithin
      <4> QED
        BY <2>3, <3>2, <4>1, ClusterFacts DEF Region, InDir
    <3> QED
      BY <3>1, <3>2
  <2>5. NotOpen(l)
    BY <2>3 DEF NotOpen, Kept, Layout, SlotsKept, Blank
  <2>6. /\ op'.pc = op.then /\ op'.loc = l /\ op'.clus = 0 /\ op'.h = op.h
        /\ op'.then = op.then /\ op'.idx = op.idx /\ op' \in OpType
    BY <1>2, <2>1, <2>3, ZenonT(60) DEF OpType
  <2>7. Place(l, own)' /\ NotOpen(l)' /\ ents' = ents /\ (SlotFree(op.h) => SlotFree(op.h)')
    BY <1>1, <2>3, <2>4, <2>5, <2>6 DEF Place, InDir, NotOpen, SlotFree, Handles, disk
  <2>8. Entering(own)'
    BY <1>2, <2>3, <2>6, <2>7 DEF Entering, Blank
  <2>9. Doing(own, pos)'
    BY <1>2, <2>6, <2>8 DEF Doing, Extending, Taking, Freeing, Writing
  <2> QED
    BY <1>1, <2>6, <2>9, OpOnly
<1>4. CASE FreeEntries(op.dir) = {} /\ op.dir = 0
  <2>1. op' = IdleOp
    BY <1>4 DEF FIND_FREE_DIRENT, Return
  <2> QED
    BY <1>1, <2>1, IdleDoes, OpOnly
<1>5. CASE FreeEntries(op.dir) = {} /\ op.dir # 0
  <2>0. PICK x : x = LastOf(fat, op.dir)
    OBVIOUS
  <2>1. op' = [op EXCEPT !.pc = "x_alloc", !.prev = x]
    BY <1>5, <2>0 DEF FIND_FREE_DIRENT
  <2>2. PICK m \in Loc : ents[m].kind = "dir" /\ ents[m].clus = op.dir
    BY <1>2, <1>5 DEF Dirs
  <2>3. Headed(fat, own, pos, m, op.dir)
    BY <1>5, <2>2, EntryHead
  <2>4. Linked(fat, own, pos)
    BY DEF Kept, Layout
  <2>5. x \in Clusters /\ own[x] = m /\ fat[x] \notin Clusters
    BY <1>2, <2>0, <2>3, <2>4, LastFound
  <2>6. /\ op'.pc = "x_alloc" /\ op'.prev = x /\ op'.h = op.h
        /\ op'.then = op.then /\ op'.idx = op.idx /\ op' \in OpType
    BY <1>2, <2>1, <2>5, ZenonT(90) DEF OpType
  <2>7. /\ LastIs(x, own)' /\ InDir(own, x)' /\ (SlotFree(op.h) => SlotFree(op.h)')
    BY <1>1, <2>2, <2>5, <2>6, ClusterFacts DEF LastIs, InDir, SlotFree, Handles, disk, cache
  <2>8. Extending(own, pos)'
    BY <1>2, <2>6, <2>7 DEF Extending
  <2>9. Doing(own, pos)'
    BY <1>2, <2>6, <2>8 DEF Doing, Taking, Entering, Freeing, Writing
  <2> QED
    BY <1>1, <2>6, <2>9, OpOnly
<1> QED
  BY <1>3, <1>4, <1>5

\* EXTEND_DIR ends with the new cluster's first entry as the place to use.
LEMMA ExtendDoneKept ==
  ASSUME NEW own \in Labels, NEW pos \in Places, Kept(own, pos), ExtendDone, setup' = setup
  PROVE  Kept(own, pos)'
<1>0. PICK l : l = <<op.clus, 1>>
  OBVIOUS
<1>1. /\ UNCHANGED <<disk, cache, slot, setup>> /\ CWDCLUS' \in Dirs
      /\ op' = [op EXCEPT !.pc = op.then, !.loc = l, !.clus = 0, !.prev = 0]
      /\ op.pc = "x_done" /\ FATDIRTY = NONE
  BY <1>0, ReadyMeans DEF ExtendDone, Kept, CwdLives, CommitPoints
<1>2. /\ op \in OpType /\ op.clus \in Clusters /\ InDir(own, op.clus)
      /\ \A m \in Loc : m[1] = op.clus => ents[m].kind = "free"
      /\ op.then = "m_alloc" \/ (op.then = "o_entry" /\ SlotFree(op.h))
  BY <1>1 DEF Kept, Types, Layout, Doing, Extending
<1>3. l \in Loc /\ l[1] = op.clus
  <2>1. 1 \in 1 .. DIRN
    BY VolumeAssumption, SMTT(60)
  <2> QED
    BY <1>0, <1>2, <2>1 DEF Loc
<1>4. ents[l] = Blank
  BY <1>2, <1>3 DEF Kept, Layout, EntriesKept
<1>5. NotOpen(l)
  BY <1>4 DEF NotOpen, Kept, Layout, SlotsKept, Blank
<1>6. /\ op'.pc = op.then /\ op'.loc = l /\ op'.clus = 0 /\ op'.h = op.h
      /\ op'.then = op.then /\ op'.idx = op.idx /\ op' \in OpType
  BY <1>1, <1>2, <1>3 DEF OpType
<1>7. Place(l, own)' /\ NotOpen(l)' /\ ents' = ents /\ (SlotFree(op.h) => SlotFree(op.h)')
  BY <1>1, <1>2, <1>3, <1>5, <1>6 DEF Place, InDir, NotOpen, SlotFree, Handles, disk
<1>8. Entering(own)'
  BY <1>2, <1>4, <1>6, <1>7 DEF Entering, Blank
<1>9. Doing(own, pos)'
  BY <1>2, <1>6, <1>8 DEF Doing, Extending, Taking, Freeing, Writing
<1>10. OrderKept' /\ DirsKept(own, pos)'
  <2>1. fat1 = fat
    BY <1>1 DEF Kept, Layout, CacheKept
  <2> QED
    BY <1>1, <2>1 DEF OrderKept, DirsKept, InDir, Kept, Layout, OwnedKept, disk, cache
<1>11. Leaks(own)'
  BY <1>1 DEF Kept, Layout, Leaks, Untroubled, Handles, disk, cache
<1> QED
  BY <1>1, <1>6, <1>9, <1>10, <1>11, OpMoves

\* FREE_CHAIN and DOS_EXIT end with a commit.
LEMMA FreeDoneKept ==
  ASSUME NEW own \in Labels, NEW pos \in Places, Kept(own, pos), FreeDone, setup' = setup
  PROVE  Kept(own, pos)'
<1>1. /\ UNCHANGED <<disk, cache, slot, setup>> /\ CWDCLUS' \in Dirs
      /\ op.pc = "f_done" /\ FATDIRTY = NONE
      /\ op.then = "idle" => op' = IdleOp
      /\ op.then # "idle" => op' = [op EXCEPT !.pc = op.then]
  BY ReadyMeans DEF FreeDone, Kept, CwdLives, CommitPoints, Return, Goto
<1>2. OrderKept' /\ DirsKept(own, pos)'
  <2>1. fat1 = fat
    BY <1>1 DEF Kept, Layout, CacheKept
  <2> QED
    BY <1>1, <2>1 DEF OrderKept, DirsKept, InDir, Kept, Layout, OwnedKept, disk, cache
<1>3. Leaks(own)'
  BY <1>1 DEF Kept, Layout, Leaks, Untroubled, Handles, disk, cache
<1>4. CASE op.then = "idle"
  BY <1>1, <1>2, <1>3, <1>4, IdleDoes, OpMoves
<1>5. CASE op.then # "idle"
  <2>1. op \in OpType /\ op.then = "o_init" /\ Emptied(own)
    BY <1>1, <1>5 DEF Kept, Types, Layout, Doing, Freeing
  <2>2. /\ op'.pc = "o_init" /\ op'.then = "o_init" /\ op'.h = op.h /\ op'.loc = op.loc
        /\ op' \in OpType
    BY <1>1, <1>5, <2>1 DEF OpType
  <2>3. Emptied(own)'
    BY <1>1, <2>1, <2>2 DEF Emptied, SlotFree, NotOpen, Handles, disk
  <2>4. Doing(own, pos)'
    BY <2>2, <2>3 DEF Doing, Extending, Taking, Entering, Freeing, Writing
  <2> QED
    BY <1>1, <1>2, <1>3, <2>2, <2>4, OpMoves
<1> QED
  BY <1>4, <1>5

\* The end of a walk, and the write of a buffer that fails.
LEMMA LookKept ==
  ASSUME NEW own \in Labels, NEW pos \in Places, Kept(own, pos), Look \/ FlushFails, setup' = setup
  PROVE  Kept(own, pos)'
<1>1. /\ UNCHANGED <<disk, cache, slot, setup>> /\ CWDCLUS' \in Dirs
      /\ op.pc \in {"look", "flush"}
      /\ op' = IdleOp \/ (op' = [op EXCEPT !.pc = "s_entry"] /\ op.pc = "flush" /\ op.then # "w_walk")
  BY ReadyMeans DEF Look, FlushFails, Kept, CwdLives, Return, Goto
<1>2. CASE op' = IdleOp
  BY <1>1, <1>2, IdleDoes, OpOnly
<1>3. CASE op' # IdleOp
  <2>1. op \in OpType /\ op.pc = "flush" /\ op.h \in Handles /\ slot[op.h].inuse
    BY <1>1, <1>3 DEF Kept, Types, Layout, Doing, Writing
  <2>2. /\ op'.pc = "s_entry" /\ op'.h = op.h /\ op'.then = op.then /\ op.then # "w_walk"
        /\ op' \in OpType
    BY <1>1, <1>3, <2>1 DEF OpType
  <2>3. Doing(own, pos)'
    BY <1>1, <2>1, <2>2 DEF Doing, Extending, Taking, Entering, Freeing, Writing, Handles
  <2> QED
    BY <1>1, <2>1, <2>2, <2>3, OpOnly
<1> QED
  BY <1>2, <1>3

-----------------------------------------------------------------------------
(* FAT_COMMIT *)

\* With its first write the FAT on disk is the one DOS sees.
LEMMA Commit1Kept ==
  ASSUME NEW own \in Labels, NEW pos \in Places, Kept(own, pos), FatCommit1, setup' = setup
  PROVE  Kept(own, pos)'
<1>1. /\ fat1' = [c \in Clusters |-> IF Sec(c) = FATDIRTY THEN fat[c] ELSE fat1[c]]
      /\ stale' = stale \union {FATDIRTY} /\ copy2' = 1
      /\ UNCHANGED <<ents, junk, fat, FATDIRTY, ALLOC_HINT, CWDCLUS, slot, op, setup>>
      /\ FATDIRTY # NONE
  BY DEF FatCommit1, CommitDue
<1>2. fat1' = fat
  <2>1. fat \in [Clusters -> FatValue]
    BY DEF Kept, Types, TypeOK
  <2>2. \A c \in Clusters : (IF Sec(c) = FATDIRTY THEN fat[c] ELSE fat1[c]) = fat[c]
    BY DEF Kept, Layout, CacheKept
  <2> QED
    BY <1>1, <2>1, <2>2
<1>3. Types'
  BY <1>1, <1>2 DEF Kept, Types, TypeOK, Handles
<1>4. CwdLives'
  BY <1>1 DEF Kept, CwdLives, Dirs
<1>5. Linked(fat, own, pos)' /\ Linked(fat1, own, pos)' /\ CacheKept'
  BY <1>1, <1>2 DEF Kept, Layout, Linked, CacheKept
<1>6. EntriesKept(own, pos)'
  <2>1. \A l \in Loc : ents[l].clus # 0 => ents[l].clus \in Clusters
    BY DEF Kept, Types, TypeOK
  <2>2. ASSUME NEW l \in Loc, ents[l].clus # 0 PROVE fat[ents[l].clus] # FREE
    <3>1. own[ents[l].clus] = l /\ l # NoLoc
      BY <2>2, ClusterFacts DEF Kept, Layout, EntriesKept
    <3> QED
      BY <2>1, <2>2, <3>1 DEF Kept, Layout, OwnedKept
  <2> QED
    BY <1>1, <1>2, <2>2 DEF Kept, Layout, EntriesKept, InDir
<1>7. OwnedKept(own, pos)'
  BY <1>1, <1>2 DEF Kept, Layout, OwnedKept, IsHead, Handles
<1>8. SlotsKept(own, pos)'
  BY <1>1 DEF Kept, Layout, SlotsKept, Handles
<1>9. OrderKept' /\ DirsKept(own, pos)'
  BY <1>1, <1>2 DEF OrderKept, DirsKept, InDir, Kept, Layout, OwnedKept
<1>10. Leaks(own)'
  BY <1>1 DEF Kept, Layout, Leaks, Untroubled, Handles
<1>11. Doing(own, pos)'
  <2>1. Taking(own)'
    BY <1>1, <1>2, ClusterFacts DEF Kept, Layout, Doing, Taking, Fresh
  <2>2. Extending(own, pos)'
    BY <1>1 DEF Kept, Layout, Doing, Extending, SlotFree, LastIs, InDir, Handles, Dirs
  <2>3. Entering(own)'
    BY <1>1 DEF Kept, Layout, Doing, Entering, SlotFree, Place, InDir, NotOpen, Handles
  <2>4. Freeing(own)' /\ Writing(own)'
    BY <1>1 DEF Kept, Layout, Doing, Freeing, Writing, Emptied, SlotFree, NotOpen, LastIs, Handles
  <2> QED
    BY <2>1, <2>2, <2>3, <2>4 DEF Doing
<1> QED
  BY <1>3, <1>4, <1>5, <1>6, <1>7, <1>8, <1>9, <1>10, <1>11 DEF Kept, Layout

\* With its second write FATBUF has no changes.
LEMMA Commit2Kept ==
  ASSUME NEW own \in Labels, NEW pos \in Places, Kept(own, pos), FatCommit2, setup' = setup
  PROVE  Kept(own, pos)'
<1>1. /\ copy2 = 1 /\ stale' = stale \ {FATDIRTY} /\ FATDIRTY' = NONE /\ copy2' = 0
      /\ UNCHANGED <<fat1, ents, junk, fat, ALLOC_HINT, CWDCLUS, slot, op, setup>>
  BY DEF FatCommit2
<1>3. Types'
  BY <1>1 DEF Kept, Types, TypeOK, Handles
<1>4. CwdLives'
  BY <1>1 DEF Kept, CwdLives, Dirs
<1>5. Linked(fat, own, pos)' /\ Linked(fat1, own, pos)' /\ CacheKept'
  BY <1>1 DEF Kept, Layout, Linked, CacheKept
<1>6. EntriesKept(own, pos)'
  BY <1>1 DEF Kept, Layout, EntriesKept, InDir
<1>7. OwnedKept(own, pos)'
  BY <1>1 DEF Kept, Layout, OwnedKept, IsHead, Handles
<1>8. SlotsKept(own, pos)'
  BY <1>1 DEF Kept, Layout, SlotsKept, Handles
<1>9. OrderKept' /\ DirsKept(own, pos)'
  BY <1>1 DEF OrderKept, DirsKept, InDir, Kept, Layout
<1>10. Leaks(own)'
  BY <1>1 DEF Kept, Layout, Leaks, Untroubled, Handles
<1>11. Doing(own, pos)'
  <2>1. Taking(own)'
    BY <1>1 DEF Kept, Layout, Doing, Taking, Fresh
  <2>2. Extending(own, pos)'
    BY <1>1 DEF Kept, Layout, Doing, Extending, SlotFree, LastIs, InDir, Handles, Dirs
  <2>3. Entering(own)'
    BY <1>1 DEF Kept, Layout, Doing, Entering, SlotFree, Place, InDir, NotOpen, Handles
  <2>4. Freeing(own)' /\ Writing(own)'
    BY <1>1 DEF Kept, Layout, Doing, Freeing, Writing, Emptied, SlotFree, NotOpen, LastIs, Handles
  <2> QED
    BY <2>1, <2>2, <2>3, <2>4 DEF Doing
<1> QED
  BY <1>3, <1>4, <1>5, <1>6, <1>7, <1>8, <1>9, <1>10, <1>11 DEF Kept, Layout

-----------------------------------------------------------------------------
(* ALLOC_CLUSTER *)

\* What ALLOC_CLUSTER finds is nobody's, in memory and on disk.
LEMMA FoundIsFree ==
  ASSUME NEW own \in Labels, NEW pos \in Places, Kept(own, pos),
         FreeClusters # {}, op.pc \notin {"free", "f_done"}
  PROVE  /\ FirstFree \in Clusters /\ fat[FirstFree] = FREE /\ fat1[FirstFree] = FREE
         /\ own[FirstFree] = NoLoc
         /\ \A c \in Clusters : fat[c] # FirstFree /\ fat1[c] # FirstFree
         /\ FirstFree \in Searched /\ FirstFree + 1 \in 2 .. MAXCLUS
<1>1. ALLOC_HINT \in 2 .. MAXCLUS
  BY DEF Kept, Types, TypeOK
<1>2. FirstFree \in Clusters /\ fat[FirstFree] = FREE
  <2>1. FirstFree \in FreeClusters
    BY <1>1, FirstFreeFound
  <2> QED
    BY <2>1 DEF FreeClusters
<1>3. fat1[FirstFree] = FREE /\ own[FirstFree] = NoLoc
  BY <1>2 DEF Kept, Layout, OrderKept, OwnedKept
<1>4. \A c \in Clusters : fat[c] # FirstFree /\ fat1[c] # FirstFree
  BY <1>2, <1>3 DEF Kept, Layout, Linked
<1>5. FirstFree \in Searched
  <2>1. AcStart \in Nat /\ FirstFree \in Nat /\ MAXCLUS \in Nat
    BY <1>1, <1>2, ClusterFacts DEF AcStart
  <2>2. SearchPos(FirstFree) <= SearchPos(FirstFree)
    BY <2>1 DEF SearchPos
  <2> QED
    BY <1>2, <2>2 DEF Searched
<1>6. FirstFree + 1 \in 2 .. MAXCLUS
  <2>1. MAXCLUS \in Nat
    BY ClusterFacts
  <2> QED
    BY <1>2, <2>1 DEF Clusters
<1> QED
  BY <1>2, <1>3, <1>4, <1>5, <1>6

\* A cluster is taken: EXTEND_DIR, DOS_MKDIR and LOCATE_SECTOR.
LEMMA AllocKept ==
  ASSUME NEW own \in Labels, NEW pos \in Places, Kept(own, pos), setup' = setup,
         ExtendAlloc \/ MkdirAlloc \/ LocateAlloc
  PROVE  Kept(own, pos)'
<1>1. /\ ALLOC_CLUSTER /\ UNCHANGED <<disk, CWDCLUS, slot, setup>>
      /\ op.pc \in {"x_alloc", "m_alloc", "w_alloc"} /\ copy2 = 0
      /\ FreeClusters = {} => op' = IdleOp
      /\ \A c \in FatWanted : FATDIRTY = NONE \/ Sec(c) = FATDIRTY
  BY ReadyMeans DEF ExtendAlloc, MkdirAlloc, LocateAlloc, Return
<1>2. CASE FreeClusters = {}
  <2>1. UNCHANGED <<disk, cache, slot, setup>> /\ CWDCLUS' \in Dirs
    BY <1>1, <1>2 DEF ALLOC_CLUSTER, cache, Kept, CwdLives
  <2> QED
    BY <1>1, <1>2, <2>1, IdleDoes, OpOnly
<1>3. CASE FreeClusters # {}
  <2>1. PICK x : x = FirstFree
    OBVIOUS
  <2>2. /\ x \in Clusters /\ fat[x] = FREE /\ fat1[x] = FREE /\ own[x] = NoLoc
        /\ \A c \in Clusters : fat[c] # x /\ fat1[c] # x
        /\ x \in Searched /\ x + 1 \in 2 .. MAXCLUS
    BY <1>1, <1>3, <2>1, FoundIsFree
  <2>3. /\ fat' = [fat EXCEPT ![x] = EOC] /\ FATDIRTY' = Sec(x) /\ ALLOC_HINT' = x + 1
        /\ UNCHANGED <<fat1, stale, ents, junk, copy2, CWDCLUS, slot, setup>>
    BY <1>1, <1>3, <2>1 DEF ALLOC_CLUSTER, disk
  <2>4. \/ op.pc = "x_alloc" /\ op' = [op EXCEPT !.pc = "x_zero", !.clus = x]
        \/ op.pc = "m_alloc" /\ op' = [op EXCEPT !.pc = "m_zero", !.clus = x]
        \/ op.pc = "w_alloc" /\ op' = [op EXCEPT !.pc = "w_link", !.clus = x]
    BY <1>3, <2>1, ReadyMeans DEF ExtendAlloc, MkdirAlloc, LocateAlloc
  <2>5. /\ op' \in OpType /\ op'.clus = x
        /\ op'.h = op.h /\ op'.then = op.then /\ op'.prev = op.prev /\ op'.loc = op.loc
        /\ op'.idx = op.idx
        /\ \/ op.pc = "x_alloc" /\ op'.pc = "x_zero"
           \/ op.pc = "m_alloc" /\ op'.pc = "m_zero"
           \/ op.pc = "w_alloc" /\ op'.pc = "w_link"
    <3>1. op \in OpType
      BY DEF Kept, Types
    <3> QED
      BY <1>1, <2>2, <2>4, <3>1, ZenonT(90) DEF OpType
  <2>6. fat'[x] = EOC /\ \A c \in Clusters : c # x => fat'[c] = fat[c]
    BY <2>2, <2>3 DEF Kept, Types, TypeOK
  <2>7. Types'
    BY <2>2, <2>3, <2>5 DEF Kept, Types, TypeOK, Handles, FatValue
  <2>8. CwdLives'
    BY <2>3 DEF Kept, CwdLives, Dirs
  <2>9. Linked(fat1, own, pos)' /\ EntriesKept(own, pos)' /\ SlotsKept(own, pos)'
    BY <2>3 DEF Kept, Layout, Linked, EntriesKept, InDir, SlotsKept, Handles
  <2>10. Linked(fat, own, pos)'
    <3>1. Linked(fat, own, pos) /\ EOC \notin Clusters /\ FREE # EOC
      BY ClusterFacts DEF Kept, Layout
    <3>2. \A c \in Clusters : fat'[c] \in Clusters => fat'[c] = fat[c] /\ c # x /\ fat[c] # x
      BY <2>2, <2>6, <3>1
    <3> QED
      BY <2>6, <3>1, <3>2 DEF Linked
  <2>11. CacheKept'
    <3>1. FATDIRTY = NONE \/ Sec(x) = FATDIRTY
      BY <1>1, <2>2 DEF FatWanted
    <3> QED
      BY <1>1, <2>2, <2>3, <3>1, CacheSet DEF Kept, Types, Layout
  <2>12. OwnedKept(own, pos)'
    BY <2>2, <2>3, <2>6, ClusterFacts DEF Kept, Layout, OwnedKept, IsHead, Handles
  <2>13. OrderKept' /\ DirsKept(own, pos)'
    BY <1>1, <2>2, <2>3, <2>5, <2>6, ClusterFacts DEF Kept, Layout, OrderKept, DirsKept, InDir
  <2>14. Leaks(own)'
    BY <1>1, <2>2, <2>3, <2>5, <2>6 DEF Kept, Layout, Leaks, Untroubled, SlotsKept, Writing, Doing, Handles
  <2>15. Doing(own, pos)'
    <3>1. Fresh(x, own)'
      BY <2>2, <2>3, <2>6, ClusterFacts DEF Fresh
    <3>2. Taking(own)'
      BY <2>5, <3>1 DEF Taking
    <3>3. ASSUME op.pc \in {"x_alloc", "w_alloc"} PROVE LastIs(op.prev, own)'
      <4>1. LastIs(op.prev, own) /\ op.prev # x
        BY <2>2, <3>3 DEF Kept, Layout, Doing, Extending, Writing, LastIs
      <4> QED
        BY <2>5, <2>6, <4>1 DEF LastIs
    <3>4. Extending(own, pos)'
      BY <2>3, <2>5, <3>3 DEF Kept, Layout, Doing, Extending, SlotFree, InDir, Handles
    <3>5. Entering(own)'
      BY <2>3, <2>5 DEF Kept, Layout, Doing, Entering, Place, InDir
    <3>6. Freeing(own)'
      BY <2>5 DEF Freeing
    <3>7. Writing(own)'
      BY <2>3, <2>5, <3>3 DEF Kept, Layout, Doing, Writing, Handles
    <3> QED
      BY <3>2, <3>4, <3>5, <3>6, <3>7 DEF Doing
  <2> QED
    BY <2>7, <2>8, <2>9, <2>10, <2>11, <2>12, <2>13, <2>14, <2>15 DEF Kept, Layout
<1> QED
  BY <1>2, <1>3

-----------------------------------------------------------------------------
(* Writes to clusters. *)

\* A cluster of no directory holds no live entries, so a write to it leaves the
\* entries as they are.
LEMMA NoEntriesThere ==
  ASSUME NEW own \in Labels, NEW pos \in Places, Kept(own, pos), NEW x \in Clusters,
         ~InDir(own, x)
  PROVE  [l \in Loc |-> IF l[1] = x THEN Blank ELSE ents[l]] = ents
<1>1. \A l \in Loc : l[1] = x => ents[l] = Blank
  BY ClusterFacts DEF Kept, Layout, EntriesKept
<1>2. ents = [l \in Loc |-> ents[l]]
  BY DEF Kept, Types, TypeOK
<1> QED
  BY <1>1, <1>2

\* ZERO_CLUSTER, for EXTEND_DIR and DOS_MKDIR.
LEMMA ZeroKept ==
  ASSUME NEW own \in Labels, NEW pos \in Places, Kept(own, pos), setup' = setup,
         ExtendZero \/ MkdirZero
  PROVE  Kept(own, pos)'
<1>1. /\ junk' = junk \ {op.clus}
      /\ ents' = [l \in Loc |-> IF l[1] = op.clus THEN Blank ELSE ents[l]]
      /\ UNCHANGED <<fat1, stale, fat, FATDIRTY, copy2, ALLOC_HINT, CWDCLUS, slot, setup>>
      /\ \/ op.pc = "x_zero" /\ op' = [op EXCEPT !.pc = "x_link"]
         \/ op.pc = "m_zero" /\ op' = [op EXCEPT !.pc = "m_entry"]
  BY ReadyMeans DEF ExtendZero, MkdirZero, ZERO_CLUSTER, Goto, cache
<1>2. Fresh(op.clus, own) /\ op \in OpType
  BY <1>1 DEF Kept, Types, Layout, Doing, Taking
<1>3. ents' = ents
  <2>1. op.clus \in Clusters /\ ~InDir(own, op.clus)
    BY <1>2 DEF Fresh, InDir
  <2> QED
    BY <1>1, <2>1, NoEntriesThere
<1>4. /\ op' \in OpType /\ op'.clus = op.clus
      /\ op'.h = op.h /\ op'.then = op.then /\ op'.prev = op.prev /\ op'.loc = op.loc
      /\ op'.idx = op.idx
      /\ \/ op.pc = "x_zero" /\ op'.pc = "x_link"
         \/ op.pc = "m_zero" /\ op'.pc = "m_entry"
  BY <1>1, <1>2 DEF OpType
<1>5. Types'
  BY <1>1, <1>3, <1>4 DEF Kept, Types, TypeOK, Handles
<1>6. CwdLives'
  BY <1>1, <1>3 DEF Kept, CwdLives, Dirs
<1>7. Linked(fat, own, pos)' /\ Linked(fat1, own, pos)' /\ CacheKept'
  BY <1>1, SMTT(60) DEF Kept, Layout, Linked, CacheKept
<1>8. EntriesKept(own, pos)' /\ SlotsKept(own, pos)'
  BY <1>1, <1>3 DEF Kept, Layout, EntriesKept, InDir, SlotsKept, Handles
<1>9. OwnedKept(own, pos)'
  BY <1>1, <1>3 DEF Kept, Layout, OwnedKept, IsHead, Handles
<1>10. OrderKept' /\ DirsKept(own, pos)'
  BY <1>1, <1>3, <1>4 DEF OrderKept, DirsKept, InDir, Kept, Layout
<1>11. Leaks(own)'
  BY <1>1, <1>4 DEF Kept, Layout, Leaks, Untroubled, Handles
<1>12. Doing(own, pos)'
  <2>1. Taking(own)'
    BY <1>1, <1>2, <1>4 DEF Taking, Fresh
  <2>2. Extending(own, pos)'
    BY <1>1, <1>3, <1>4, SMTT(60) DEF Kept, Layout, Doing, Extending, SlotFree, LastIs, InDir, Handles
  <2>3. Entering(own)'
    BY <1>1, <1>3, <1>4 DEF Kept, Layout, Doing, Entering, Place, InDir
  <2>4. Freeing(own)' /\ Writing(own)'
    BY <1>4 DEF Kept, Layout, Doing, Freeing, Writing
  <2> QED
    BY <2>1, <2>2, <2>3, <2>4 DEF Doing
<1> QED
  BY <1>5, <1>6, <1>7, <1>8, <1>9, <1>10, <1>11, <1>12 DEF Kept, Layout

\* FLUSH_SLOT writes to a cluster of the file.
LEMMA FlushKept ==
  ASSUME NEW own \in Labels, NEW pos \in Places, Kept(own, pos), setup' = setup, FLUSH_SLOT
  PROVE  Kept(own, pos)'
<1> DEFINE x == slot[op.h].dirty
<1>1. /\ junk' = junk \union {x}
      /\ ents' = [l \in Loc |-> IF l[1] = x THEN Blank ELSE ents[l]]
      /\ slot' = [slot EXCEPT ![op.h].dirty = 0]
      /\ UNCHANGED <<fat1, stale, fat, FATDIRTY, copy2, ALLOC_HINT, CWDCLUS, setup>>
      /\ op.pc = "flush"
      /\ op' = [op EXCEPT !.pc = IF op.then = "w_walk" THEN "w_walk" ELSE "s_entry"]
  BY ReadyMeans DEF FLUSH_SLOT, WriteData, Goto, cache
<1>2. /\ op \in OpType /\ op.h \in Handles /\ slot[op.h].inuse /\ x # 0 /\ x \in Clusters
      /\ op.then = "w_walk" => op.idx >= 1
  BY <1>1 DEF Kept, Types, TypeOK, Layout, Doing, Writing
<1>3. own[x] = slot[op.h].dirloc /\ ents[own[x]].kind = "file"
  BY <1>2 DEF Kept, Layout, SlotsKept
<1> HIDE DEF x
<1>4. ents' = ents
  <2>1. ~InDir(own, x)
    BY <1>3 DEF InDir
  <2> QED
    BY <1>1, <1>2, <2>1, NoEntriesThere
<1>5. /\ op' \in OpType /\ op'.h = op.h /\ op'.then = op.then /\ op'.idx = op.idx
      /\ op'.pc \in {"w_walk", "s_entry"}
      /\ op'.pc = "w_walk" => op.then = "w_walk"
  BY <1>1, <1>2 DEF OpType
<1>6. /\ \A h \in Handles : /\ slot'[h].inuse = slot[h].inuse
                            /\ slot'[h].startclus = slot[h].startclus
                            /\ slot'[h].dirloc = slot[h].dirloc
                            /\ slot'[h].dirty \in {0, slot[h].dirty}
      /\ \A h \in Handles : h # op.h => slot'[h] = slot[h]
      /\ slot' \in [Handles -> [inuse : BOOLEAN, startclus : Clusters \union {0},
                                dirloc : Loc \union {<<0, 0>>}, dirty : Clusters \union {0}]]
  BY <1>1, ZenonT(90) DEF Kept, Types, TypeOK
<1>7. Types'
  BY <1>1, <1>2, <1>4, <1>5, <1>6 DEF Kept, Types, TypeOK, Handles
<1>8. CwdLives'
  BY <1>1, <1>4, SMTT(60) DEF Kept, CwdLives, Dirs
<1>9. Linked(fat, own, pos)' /\ Linked(fat1, own, pos)' /\ CacheKept'
  BY <1>1 DEF Kept, Layout, Linked, CacheKept
<1>10. EntriesKept(own, pos)'
  BY <1>1, <1>4 DEF Kept, Layout, EntriesKept, InDir
<1>11. SlotsKept(own, pos)'
  <2>1. Handles' = Handles
    BY <1>1 DEF Handles
  <2>2. SlotsKept(own, pos)
    BY DEF Kept, Layout
  <2> QED
    BY <1>2, <1>4, <1>6, <2>1, <2>2 DEF SlotsKept
<1>12. OwnedKept(own, pos)'
  <2>1. Handles' = Handles
    BY <1>1 DEF Handles
  <2>2. OwnedKept(own, pos)
    BY DEF Kept, Layout
  <2> QED
    BY <1>1, <1>3, <1>4, <1>6, <2>1, <2>2 DEF OwnedKept, IsHead
<1>13. OrderKept' /\ DirsKept(own, pos)'
  BY <1>1, <1>4, <1>5 DEF OrderKept, DirsKept, InDir, Kept, Layout
<1>14. Leaks(own)'
  BY <1>1, <1>2, <1>5, <1>6 DEF Kept, Layout, Leaks, Untroubled, Handles
<1>15. Doing(own, pos)'
  <2>1. Writing(own)'
    BY <1>1, <1>2, <1>5, <1>6 DEF Writing, Handles
  <2> QED
    BY <1>5, <2>1 DEF Doing, Extending, Taking, Entering, Freeing
<1> QED
  BY <1>7, <1>8, <1>9, <1>10, <1>11, <1>12, <1>13, <1>14, <1>15 DEF Kept, Layout

-----------------------------------------------------------------------------
(* LOCATE_SECTOR *)

\* The cluster is found, or the end of the chain.
LEMMA WalkKept ==
  ASSUME NEW own \in Labels, NEW pos \in Places, Kept(own, pos), setup' = setup, LocateWalk
  PROVE  Kept(own, pos)'
<1>0. PICK s : s = slot[op.h].startclus
  OBVIOUS
<1>1. /\ op.pc = "w_walk" /\ UNCHANGED <<disk, cache, CWDCLUS, setup>>
      /\ \/ /\ op.idx <= ChainLen(fat, s) /\ op' = IdleOp
            /\ slot' = [slot EXCEPT ![op.h].dirty = After(fat, s, op.idx - 1)]
         \/ /\ op' = IF s = 0 THEN [op EXCEPT !.pc = "w_first"]
                     ELSE [op EXCEPT !.pc = "w_alloc", !.prev = LastOf(fat, s)]
            /\ slot' = slot
  BY <1>0, ReadyMeans DEF LocateWalk, Return
<1>2. /\ op \in OpType /\ op.h \in Handles /\ slot[op.h].inuse /\ op.idx >= 1
      /\ s \in Clusters \union {0} /\ fat \in Fats /\ Linked(fat, own, pos)
  BY <1>0, <1>1 DEF Kept, Types, TypeOK, Layout, Doing, Writing, Fats
<1>3. s # 0 => Headed(fat, own, pos, slot[op.h].dirloc, s)
  BY <1>0, <1>2, SlotHead
<1>4. CASE /\ op.idx <= ChainLen(fat, s) /\ op' = IdleOp
           /\ slot' = [slot EXCEPT ![op.h].dirty = After(fat, s, op.idx - 1)]
  <2>1. op.idx \in Nat /\ op.idx - 1 \in Nat
    BY <1>2, ClusterFacts DEF OpType
  <2>2. ChainLen(fat, s) \in Nat
    <3>1. Chain(fat, s) \subseteq Clusters
      BY DEF Chain
    <3>2. IsFiniteSet(Chain(fat, s))
      BY <3>1, ClusterCount, FS_Subset
    <3> QED
      BY <3>2, FS_CardinalityType DEF ChainLen
  <2>3. s # 0
    <3>1. ASSUME s = 0 PROVE FALSE
      <4>1. ChainLen(fat, s) = 0
        BY <1>2, <3>1, ChainEmpty, FS_EmptySet DEF ChainLen
      <4> QED
        BY <1>2, <1>4, <2>1, <4>1
    <3> QED
      BY <3>1
  <2>4. PICK x : x = After(fat, s, op.idx - 1)
    OBVIOUS
  <2>5. x \in Clusters /\ own[x] = slot[op.h].dirloc
    <3>1. op.idx - 1 < ChainLen(fat, s)
      BY <1>4, <2>1, <2>2
    <3> QED
      BY <1>2, <1>3, <2>1, <2>3, <2>4, <3>1, AfterFound
  <2>6. slot' = [slot EXCEPT ![op.h].dirty = x]
    BY <1>4, <2>4
  <2>7. /\ \A h \in Handles : /\ slot'[h].inuse = slot[h].inuse
                              /\ slot'[h].startclus = slot[h].startclus
                              /\ slot'[h].dirloc = slot[h].dirloc
        /\ \A h \in Handles : h # op.h => slot'[h] = slot[h]
        /\ slot'[op.h].dirty = x
        /\ slot' \in [Handles -> [inuse : BOOLEAN, startclus : Clusters \union {0},
                                  dirloc : Loc \union {<<0, 0>>}, dirty : Clusters \union {0}]]
    BY <1>2, <2>5, <2>6 DEF Kept, Types, TypeOK
  <2>8. Doing(own, pos)' /\ op' \in OpType /\ op'.pc = "idle"
    BY <1>4, IdleDoes DEF IdleOp
  <2>9. Types'
    BY <1>1, <2>7, <2>8 DEF Kept, Types, TypeOK, Handles, disk, cache
  <2>10. CwdLives'
    BY <1>1 DEF Kept, CwdLives, Dirs, disk
  <2>11. Linked(fat, own, pos)' /\ Linked(fat1, own, pos)' /\ CacheKept' /\ EntriesKept(own, pos)'
    BY <1>1 DEF Kept, Layout, Linked, CacheKept, EntriesKept, InDir, disk, cache
  <2>12. Handles' = Handles /\ SlotsKept(own, pos) /\ OwnedKept(own, pos)
    BY <1>1 DEF Handles, Kept, Layout
  <2>13. SlotsKept(own, pos)'
    BY <1>1, <1>2, <2>5, <2>7, <2>12 DEF SlotsKept, disk
  <2>14. OwnedKept(own, pos)'
    BY <1>1, <2>7, <2>12 DEF OwnedKept, IsHead, disk, cache
  <2>15. OrderKept' /\ DirsKept(own, pos)'
    BY <1>1, <2>8 DEF OrderKept, DirsKept, InDir, Kept, Layout, disk, cache
  <2>16. Leaks(own)'
    BY <1>1, <1>2, <2>7, <2>8 DEF Kept, Layout, Leaks, Untroubled, Handles, disk, cache
  <2> QED
    BY <2>8, <2>9, <2>10, <2>11, <2>13, <2>14, <2>15, <2>16 DEF Kept, Layout
<1>5. CASE /\ op' = IF s = 0 THEN [op EXCEPT !.pc = "w_first"]
                    ELSE [op EXCEPT !.pc = "w_alloc", !.prev = LastOf(fat, s)]
           /\ slot' = slot
  <2>1. UNCHANGED <<disk, cache, slot, setup>> /\ CWDCLUS' \in Dirs
    BY <1>1, <1>5 DEF Kept, CwdLives
  <2>2. CASE s = 0
    <3>1. /\ op' \in OpType /\ op'.pc = "w_first" /\ op'.h = op.h /\ op'.then = op.then
          /\ op'.idx = op.idx
      BY <1>2, <1>5, <2>2 DEF OpType
    <3>2. Writing(own)'
      BY <1>0, <1>2, <2>1, <2>2, <3>1 DEF Writing, Handles
    <3>3. Doing(own, pos)'
      BY <3>1, <3>2 DEF Doing, Extending, Taking, Entering, Freeing
    <3> QED
      BY <1>1, <2>1, <3>1, <3>3, OpOnly
  <2>3. CASE s # 0
    <3>1. PICK x : x = LastOf(fat, s)
      OBVIOUS
    <3>2. x \in Clusters /\ own[x] = slot[op.h].dirloc /\ fat[x] \notin Clusters
      BY <1>2, <1>3, <2>3, <3>1, LastFound
    <3>3. op' = [op EXCEPT !.pc = "w_alloc", !.prev = x]
      BY <1>5, <2>3, <3>1
    <3>4. /\ op' \in OpType /\ op'.pc = "w_alloc" /\ op'.h = op.h /\ op'.then = op.then
          /\ op'.idx = op.idx /\ op'.prev = x
      BY <1>2, <3>2, <3>3 DEF OpType
    <3>5. slot[op.h].dirloc # NoLoc
      BY <1>2, ClusterFacts DEF Kept, Layout, SlotsKept
    <3>6. LastIs(x, own)'
      BY <2>1, <3>2, <3>5 DEF LastIs, cache
    <3>7. Writing(own)'
      BY <1>2, <2>1, <3>2, <3>4, <3>6 DEF Writing, Handles
    <3>8. Doing(own, pos)'
      BY <3>4, <3>7 DEF Doing, Extending, Taking, Entering, Freeing
    <3> QED
      BY <1>1, <2>1, <3>4, <3>8, OpOnly
  <2> QED
    BY <2>2, <2>3
<1> QED
  BY <1>1, <1>4, <1>5

\* An empty file gets its first cluster.
LEMMA FirstKept ==
  ASSUME NEW own \in Labels, NEW pos \in Places, Kept(own, pos), setup' = setup, LocateFirst
  PROVE  \E o \in Labels, p \in Places : Kept(o, p)'
<1>1. /\ ALLOC_CLUSTER /\ UNCHANGED <<disk, CWDCLUS, setup>> /\ op' = IdleOp
      /\ op.pc = "w_first" /\ copy2 = 0
      /\ FreeClusters = {} => slot' = slot
      /\ \A c \in FatWanted : FATDIRTY = NONE \/ Sec(c) = FATDIRTY
  BY ReadyMeans DEF LocateFirst, Return
<1>2. CASE FreeClusters = {}
  <2>1. UNCHANGED <<disk, cache, slot, setup>> /\ CWDCLUS' \in Dirs
    BY <1>1, <1>2 DEF ALLOC_CLUSTER, cache, Kept, CwdLives
  <2> QED
    BY <1>1, <2>1, IdleDoes, OpOnly
<1>3. CASE FreeClusters # {}
  <2>1. PICK x : x = FirstFree
    OBVIOUS
  <2>2. /\ x \in Clusters /\ fat[x] = FREE /\ fat1[x] = FREE /\ own[x] = NoLoc
        /\ \A c \in Clusters : fat[c] # x /\ fat1[c] # x
        /\ x \in Searched /\ x + 1 \in 2 .. MAXCLUS
    BY <1>1, <1>3, <2>1, FoundIsFree
  <2>3. /\ fat' = [fat EXCEPT ![x] = EOC] /\ FATDIRTY' = Sec(x) /\ ALLOC_HINT' = x + 1
        /\ UNCHANGED <<fat1, stale, ents, junk, copy2, CWDCLUS, setup>>
        /\ slot' = [slot EXCEPT ![op.h].startclus = x, ![op.h].dirty = x]
    BY <1>1, <1>3, <2>1 DEF ALLOC_CLUSTER, disk, LocateFirst
  <2>4. /\ op.h \in Handles /\ slot[op.h].inuse /\ slot[op.h].startclus = 0
        /\ Handles' = Handles
    BY <1>1, <2>3 DEF Kept, Layout, Doing, Writing, Handles
  <2>5. PICK l : l = slot[op.h].dirloc
    OBVIOUS
  <2>6. /\ l \in Loc /\ l # NoLoc /\ ents[l].kind = "file" /\ ents[l].clus = 0
        /\ \A g \in Handles : slot[g].inuse /\ slot[g].dirloc = l => g = op.h
    BY <2>4, <2>5, ClusterFacts DEF Kept, Layout, SlotsKept
  <2>7. PICK o \in Labels : o = [own EXCEPT ![x] = l]
    BY <2>6 DEF Labels
  <2>8. PICK p \in Places : p = [pos EXCEPT ![x] = 0]
    BY DEF Places
  <2>9. /\ o[x] = l /\ p[x] = 0
        /\ \A c \in Clusters : c # x => o[c] = own[c] /\ p[c] = pos[c]
    BY <2>2, <2>7, <2>8 DEF Labels, Places
  <2>10. fat'[x] = EOC /\ \A c \in Clusters : c # x => fat'[c] = fat[c]
    BY <2>2, <2>3 DEF Kept, Types, TypeOK
  <2>11. /\ \A h \in Handles : /\ slot'[h].inuse = slot[h].inuse
                               /\ slot'[h].dirloc = slot[h].dirloc
                               /\ h # op.h => slot'[h] = slot[h]
         /\ slot'[op.h].dirty = x /\ slot'[op.h].startclus = x
         /\ slot' \in [Handles -> [inuse : BOOLEAN, startclus : Clusters \union {0},
                                   dirloc : Loc \union {<<0, 0>>}, dirty : Clusters \union {0}]]
    <3> DEFINE T == [inuse : BOOLEAN, startclus : Clusters \union {0},
                     dirloc : Loc \union {<<0, 0>>}, dirty : Clusters \union {0}]
               e == [slot[op.h] EXCEPT !.startclus = x, !.dirty = x]
    <3>1. slot \in [Handles -> T] /\ slot[op.h] \in T
      BY <2>4 DEF Kept, Types, TypeOK
    <3>2. /\ e \in T /\ e.inuse = slot[op.h].inuse /\ e.dirloc = slot[op.h].dirloc
          /\ e.startclus = x /\ e.dirty = x
      BY <2>2, <3>1
    <3>3. slot' = [slot EXCEPT ![op.h] = e]
      BY <2>3, <2>4, <3>1
    <3> HIDE DEF e, T
    <3>4. slot' \in [Handles -> T] /\ slot'[op.h] = e
          /\ \A h \in Handles : h # op.h => slot'[h] = slot[h]
      BY <2>4, <3>1, <3>2, <3>3
    <3> QED
      BY <3>2, <3>4 DEF T
  <2>12. Doing(o, p)' /\ op' \in OpType /\ op'.pc = "idle"
    BY <1>1, IdleDoes DEF IdleOp
  <2>13. Types'
    BY <2>2, <2>3, <2>4, <2>11, <2>12 DEF Kept, Types, TypeOK, FatValue
  <2>14. CwdLives'
    BY <2>3 DEF Kept, CwdLives, Dirs
  <2>15. Linked(fat, o, p)'
    <3>1. Linked(fat, own, pos) /\ EOC \notin Clusters /\ FREE # EOC
      BY ClusterFacts DEF Kept, Layout
    <3>2. \A c \in Clusters : fat'[c] \in Clusters => fat'[c] = fat[c] /\ c # x /\ fat[c] # x
      BY <2>2, <2>10, <3>1
    <3> QED
      BY <2>9, <2>10, <3>1, <3>2 DEF Linked
  <2>16. Linked(fat1, o, p)'
    <3>1. Linked(fat1, own, pos)
      BY DEF Kept, Layout
    <3>2. \A c \in Clusters : fat1[c] \in Clusters => c # x /\ fat1[c] # x
      BY <2>2, ClusterFacts
    <3> QED
      BY <2>3, <2>9, <3>1, <3>2 DEF Linked
  <2>17. CacheKept'
    <3>1. FATDIRTY = NONE \/ Sec(x) = FATDIRTY
      BY <1>1, <2>2 DEF FatWanted
    <3> QED
      BY <1>1, <2>2, <2>3, <3>1, CacheSet DEF Kept, Types, Layout
  <2>18. \A c \in Clusters : InDir(o, c)' <=> InDir(own, c)
    BY <2>2, <2>3, <2>6, <2>9 DEF InDir
  <2>19. EntriesKept(o, p)'
    <3>1. EntriesKept(own, pos)
      BY DEF Kept, Layout
    <3>2. \A m \in Loc : ents[m].clus # 0 => ents[m].clus \in Clusters /\ ents[m].clus # x
      BY <2>2, <3>1, ClusterFacts DEF EntriesKept, Kept, Types, TypeOK
    <3>3. \A m \in Loc : m[1] # 0 => m[1] \in Clusters
      BY ClusterFacts
    <3> QED
      BY <2>3, <2>9, <2>18, <3>1, <3>2, <3>3 DEF EntriesKept
  <2>20. OwnedKept(o, p)'
    <3>1. ASSUME NEW c \in Clusters, c # x, own[c] # NoLoc, pos[c] = 0, IsHead(own, c)
          PROVE  IsHead(o, c)'
      <4>1. c # 0
        BY ClusterFacts
      <4> QED
        BY <2>3, <2>4, <2>9, <2>11, <3>1, <4>1 DEF IsHead
    <3>2. IsHead(o, x)'
      BY <2>4, <2>5, <2>9, <2>11 DEF IsHead
    <3>3. OwnedKept(own, pos) /\ FREE # EOC
      BY ClusterFacts DEF Kept, Layout
    <3>4. ASSUME NEW c \in Clusters, c # x, own[c] # NoLoc, pos[c] > 0
          PROVE  \E d \in Clusters : fat'[d] = c
      <4>1. PICK d \in Clusters : fat[d] = c
        BY <3>3, <3>4 DEF OwnedKept
      <4>2. d # x
        BY <2>2, <4>1, ClusterFacts
      <4> QED
        BY <2>10, <4>1, <4>2
    <3>5. ASSUME NEW c \in Clusters, o[c] # NoLoc
          PROVE  /\ fat'[c] # FREE /\ ents'[o[c]].kind # "free"
                 /\ ents'[o[c]].kind = "dir" => c \notin junk'
                 /\ p[c] > 0 /\ fat1'[c] \in Clusters => \E d \in Clusters : fat1'[d] = c
      BY <2>3, <2>6, <2>9, <2>10, <3>3, <3>5 DEF OwnedKept
    <3>6. ASSUME NEW c \in Clusters, o[c] # NoLoc
          PROVE  /\ p[c] = 0 => IsHead(o, c)'
                 /\ p[c] > 0 => \E d \in Clusters : fat'[d] = c
      BY <2>9, <3>1, <3>2, <3>3, <3>4, <3>6, SMTT(60) DEF OwnedKept
    <3> QED
      BY <3>5, <3>6, SMTT(60) DEF OwnedKept
  <2>21. SlotsKept(o, p)'
    <3>1. SlotsKept(own, pos)
      BY DEF Kept, Layout
    <3>2. \A h \in Handles : slot[h].inuse =>
            /\ slot[h].startclus # 0 => slot[h].startclus \in Clusters /\ slot[h].startclus # x
            /\ slot[h].dirty # 0 => slot[h].dirty \in Clusters /\ slot[h].dirty # x
      BY <2>2, <3>1, ClusterFacts DEF SlotsKept, Kept, Types, TypeOK
    <3> QED
      BY <2>3, <2>4, <2>5, <2>6, <2>9, <2>11, <3>1, <3>2 DEF SlotsKept
  <2>22. OrderKept' /\ DirsKept(o, p)'
    BY <1>1, <2>2, <2>3, <2>9, <2>10, <2>12, <2>18, ClusterFacts, SMTT(60)
    DEF OrderKept, DirsKept, InDir, Kept, Layout
  <2>23. Leaks(o)'
    BY <1>1, <2>2, <2>3, <2>4, <2>6, <2>9, <2>10, <2>11, <2>12 DEF Leaks, Untroubled, Kept, Layout
  <2> QED
    BY <2>12, <2>13, <2>14, <2>15, <2>16, <2>17, <2>19, <2>20, <2>21, <2>22, <2>23
    DEF Kept, Layout
<1> QED
  BY <1>2, <1>3

\* A chain grows by a cluster: EXTEND_DIR and LOCATE_SECTOR.
LEMMA LinkKept ==
  ASSUME NEW own \in Labels, NEW pos \in Places, Kept(own, pos), setup' = setup,
         ExtendLink \/ LocateLink
  PROVE  \E o \in Labels, p \in Places : Kept(o, p)'
<1>0. PICK x, y : x = op.clus /\ y = op.prev
  OBVIOUS
<1>1. /\ fat' = [fat EXCEPT ![y] = x] /\ FATDIRTY' = Sec(y)
      /\ UNCHANGED <<fat1, stale, ents, junk, copy2, ALLOC_HINT, CWDCLUS, setup>>
      /\ copy2 = 0 /\ (\A c \in FatWanted : FATDIRTY = NONE \/ Sec(c) = FATDIRTY)
      /\ \/ op.pc = "x_link" /\ op' = [op EXCEPT !.pc = "x_done"] /\ slot' = slot
         \/ op.pc = "w_link" /\ op' = IdleOp /\ slot' = [slot EXCEPT ![op.h].dirty = x]
  BY <1>0, ReadyMeans DEF ExtendLink, LocateLink, SET_FAT_ENTRY, Goto, Return, disk
<1>2. /\ Fresh(x, own) /\ LastIs(y, own) /\ op \in OpType /\ x \in Clusters /\ y \in Clusters
      /\ op.pc = "x_link" => /\ InDir(own, y) /\ x \notin junk
                             /\ op.then = "m_alloc" \/ (op.then = "o_entry" /\ SlotFree(op.h))
      /\ op.pc = "w_link" => /\ op.h \in Handles /\ slot[op.h].inuse
                             /\ own[y] = slot[op.h].dirloc
  BY <1>0, <1>1 DEF Kept, Types, Layout, Doing, Taking, Extending, Writing, Fresh, LastIs
<1>3. PICK l : l = own[y]
  OBVIOUS
<1>4. /\ l \in Loc /\ ents[l].kind # "free" /\ x # y
      /\ op.pc = "x_link" => ents[l].kind = "dir"
      /\ op.pc = "w_link" => ents[l].kind = "file"
  <2>1. l \in Loc /\ x # y
    BY <1>2, <1>3 DEF Fresh, LastIs, Labels
  <2> QED
    BY <1>2, <1>3, <2>1 DEF InDir, Kept, Layout, SlotsKept, OwnedKept, LastIs
<1>5. PICK o \in Labels : o = [own EXCEPT ![x] = l]
  BY <1>4 DEF Labels
<1>6. PICK p \in Places : p = [pos EXCEPT ![x] = pos[y] + 1]
  <2>1. pos[y] + 1 \in Nat
    BY <1>2 DEF Places
  <2>2. [pos EXCEPT ![x] = pos[y] + 1] \in Places
    BY <2>1 DEF Places
  <2> QED
    BY <2>2
<1>7. /\ o[x] = l /\ p[x] = pos[y] + 1 /\ p[x] > 0 /\ o[y] = l /\ p[y] = pos[y]
      /\ \A c \in Clusters : c # x => o[c] = own[c] /\ p[c] = pos[c]
  BY <1>2, <1>3, <1>4, <1>5, <1>6 DEF Labels, Places
<1>8. /\ fat'[y] = x /\ (\A c \in Clusters : c # y => fat'[c] = fat[c])
      /\ fat'[x] = EOC
  BY <1>1, <1>2, <1>4 DEF Kept, Types, TypeOK, Fresh
<1>9. /\ own[x] = NoLoc /\ fat[x] = EOC /\ fat[y] \notin Clusters /\ fat1[x] \notin Clusters
      /\ \A c \in Clusters : fat[c] # x /\ fat1[c] # x
      /\ l # NoLoc
  BY <1>2, <1>3 DEF Fresh, LastIs
<1>10. /\ op' \in OpType
       /\ \/ op.pc = "x_link" /\ op'.pc = "x_done" /\ op'.clus = x /\ slot' = slot
             /\ op'.h = op.h /\ op'.then = op.then /\ op'.idx = op.idx
          \/ op.pc = "w_link" /\ op'.pc = "idle" /\ op' = IdleOp
  <2>1. CASE op.pc = "x_link"
    BY <1>0, <1>1, <1>2, <2>1 DEF OpType
  <2>2. CASE op.pc = "w_link"
    BY <1>1, <2>2, IdleDoes DEF IdleOp
  <2> QED
    BY <1>1, <2>1, <2>2
<1>11. /\ \A h \in Handles : /\ slot'[h].inuse = slot[h].inuse
                             /\ slot'[h].startclus = slot[h].startclus
                             /\ slot'[h].dirloc = slot[h].dirloc
                             /\ h # op.h => slot'[h] = slot[h]
                             /\ ~slot[h].inuse => slot'[h] = slot[h]
       /\ op.pc = "w_link" => slot'[op.h].dirty = x
       /\ slot' \in [Handles -> [inuse : BOOLEAN, startclus : Clusters \union {0},
                                 dirloc : Loc \union {<<0, 0>>}, dirty : Clusters \union {0}]]
       /\ Handles' = Handles
  BY <1>1, <1>2, SMTT(60) DEF Kept, Types, TypeOK, Handles
<1>12. Types'
  BY <1>1, <1>2, <1>10, <1>11 DEF Kept, Types, TypeOK, FatValue
<1>13. CwdLives'
  BY <1>1 DEF Kept, CwdLives, Dirs
<1>14. Linked(fat, o, p)'
  <2>1. Linked(fat, own, pos) /\ EOC \notin Clusters /\ FREE # EOC /\ x # FREE
    BY <1>2, ClusterFacts DEF Kept, Layout
  <2>2. ASSUME NEW c \in Clusters, c # y, fat'[c] \in Clusters
        PROVE  /\ o[fat'[c]] = o[c] /\ p[fat'[c]] = p[c] + 1 /\ fat'[fat'[c]] # FREE
               /\ \A d \in Clusters : fat'[d] = fat'[c] => d = c
    <3>1. fat'[c] = fat[c] /\ c # x /\ fat[c] # x
      BY <1>8, <1>9, <2>1, <2>2
    <3> QED
      BY <1>7, <1>8, <2>1, <2>2, <3>1 DEF Linked
  <2>3. /\ o[fat'[y]] = o[y] /\ p[fat'[y]] = p[y] + 1 /\ fat'[fat'[y]] # FREE
        /\ \A d \in Clusters : fat'[d] = fat'[y] => d = y
    BY <1>7, <1>8, <1>9, <2>1
  <2> QED
    BY <2>2, <2>3 DEF Linked
<1>15. Linked(fat1, o, p)'
  <2>1. Linked(fat1, own, pos)
    BY DEF Kept, Layout
  <2>2. \A c \in Clusters : fat1[c] \in Clusters => c # x /\ fat1[c] # x
    BY <1>9
  <2> QED
    BY <1>1, <1>7, <2>1, <2>2 DEF Linked
<1>16. CacheKept'
  <2>1. FATDIRTY = NONE \/ Sec(y) = FATDIRTY
    BY <1>0, <1>1 DEF FatWanted
  <2> QED
    BY <1>1, <1>2, <2>1, CacheSet DEF Kept, Types, Layout
<1>17. \A c \in Clusters : c # x => (InDir(o, c)' <=> InDir(own, c))
  BY <1>1, <1>7 DEF InDir
<1>18. EntriesKept(o, p)'
  <2>1. EntriesKept(own, pos) /\ ~InDir(own, x)
    BY <1>9 DEF Kept, Layout, InDir
  <2>2. \A m \in Loc : ents[m].clus # 0 => ents[m].clus \in Clusters /\ ents[m].clus # x
    BY <1>9, <2>1, ClusterFacts DEF EntriesKept, Kept, Types, TypeOK
  <2>3. \A m \in Loc : ents[m].kind # "free" /\ m[1] # 0 => m[1] \in Clusters /\ m[1] # x
    BY <2>1, ClusterFacts DEF EntriesKept
  <2> QED
    BY <1>1, <1>7, <1>17, <2>1, <2>2, <2>3 DEF EntriesKept
<1>19. OwnedKept(o, p)'
  <2>1. OwnedKept(own, pos) /\ FREE # EOC /\ x # FREE
    BY <1>2, ClusterFacts DEF Kept, Layout
  <2>2. ASSUME NEW c \in Clusters, c # x, own[c] # NoLoc, pos[c] = 0
        PROVE  IsHead(o, c)'
    <3>1. IsHead(own, c)
      BY <2>1, <2>2 DEF OwnedKept
    <3> QED
      BY <1>1, <1>7, <1>11, <2>2, <3>1 DEF IsHead
  <2>3. ASSUME NEW c \in Clusters, c # x, own[c] # NoLoc, pos[c] > 0
        PROVE  \E d \in Clusters : fat'[d] = c
    <3>1. PICK d \in Clusters : fat[d] = c
      BY <2>1, <2>3 DEF OwnedKept
    <3>2. d # y
      BY <1>9, <3>1
    <3> QED
      BY <1>8, <3>1, <3>2
  <2>4. ASSUME NEW c \in Clusters, o[c] # NoLoc
        PROVE  /\ fat'[c] # FREE /\ ents'[o[c]].kind # "free"
               /\ ents'[o[c]].kind = "dir" => c \notin junk'
               /\ p[c] > 0 /\ fat1'[c] \in Clusters => \E d \in Clusters : fat1'[d] = c
    <3>1. CASE c = x
      BY <1>1, <1>2, <1>4, <1>7, <1>8, <1>9, <2>1, <3>1
    <3>2. CASE c # x
      BY <1>1, <1>7, <1>8, <2>1, <2>4, <3>2 DEF OwnedKept
    <3> QED
      BY <3>1, <3>2
  <2>5. ASSUME NEW c \in Clusters, o[c] # NoLoc
        PROVE  /\ p[c] = 0 => IsHead(o, c)'
               /\ p[c] > 0 => \E d \in Clusters : fat'[d] = c
    BY <1>2, <1>7, <1>8, <2>2, <2>3, <2>5
  <2> QED
    BY <2>4, <2>5 DEF OwnedKept
<1>20. SlotsKept(o, p)'
  <2>1. SlotsKept(own, pos)
    BY DEF Kept, Layout
  <2>2. \A h \in Handles : slot[h].inuse =>
          /\ slot[h].startclus # 0 => slot[h].startclus \in Clusters /\ slot[h].startclus # x
          /\ slot[h].dirty # 0 => slot[h].dirty \in Clusters /\ slot[h].dirty # x
    BY <1>9, <2>1, ClusterFacts DEF SlotsKept, Kept, Types, TypeOK
  <2>3. \A h \in Handles : slot[h].inuse => slot'[h].dirty = slot[h].dirty \/
          (slot'[h].dirty = x /\ slot[h].dirloc = l)
    BY <1>1, <1>2, <1>3, <1>11
  <2> QED
    BY <1>1, <1>7, <1>11, <2>1, <2>2, <2>3 DEF SlotsKept
<1>21. OrderKept' /\ DirsKept(o, p)'
  <2>1. OrderKept'
    BY <1>1, <1>2, <1>8, <1>10, ClusterFacts DEF OrderKept, Kept, Layout
  <2>2. ASSUME NEW c \in Clusters, c # x, InDir(o, c)', p[c] > 0
        PROVE  \E d \in Clusters : fat1'[d] = c
    BY <1>1, <1>7, <1>17, <2>2 DEF DirsKept, Kept, Layout
  <2>3. op'.pc # "x_done" => ~InDir(o, x)'
    BY <1>1, <1>4, <1>7, <1>10 DEF InDir
  <2> QED
    BY <1>10, <2>1, <2>2, <2>3 DEF DirsKept
<1>22. Leaks(o)'
  <2>1. ASSUME Untroubled, NEW c \in Clusters, fat'[c] # FREE, o[c] = NoLoc PROVE FALSE
    <3>1. c # x /\ c # y /\ fat[c] # FREE /\ own[c] = NoLoc
      BY <1>7, <1>8, <1>9, <2>1
    <3> QED
      BY <1>0, <1>1, <2>1, <3>1 DEF Leaks, Kept, Layout
  <2>2. (\A h \in Handles' : ~slot'[h].inuse) => op'.pc = "x_done"
    BY <1>2, <1>10, <1>11
  <2> QED
    BY <1>1, <2>1, <2>2 DEF Leaks, Untroubled
<1>23. Doing(o, p)'
  <2>1. CASE op.pc = "x_link"
    <3>1. InDir(o, x)' /\ \A m \in Loc : m[1] = x => ents'[m].kind = "free"
      BY <1>1, <1>2, <1>4, <1>7, <1>9, <2>1, ClusterFacts
      DEF InDir, Kept, Layout, EntriesKept
    <3>2. SlotFree(op.h) => SlotFree(op.h)'
      BY <1>10, <1>11, <2>1 DEF SlotFree
    <3>3. Extending(o, p)'
      BY <1>2, <1>7, <1>10, <2>1, <3>1, <3>2 DEF Extending
    <3>4. Writing(o)'
      BY <1>2, <1>10, <2>1 DEF Writing
    <3> QED
      BY <1>10, <2>1, <3>3, <3>4 DEF Doing, Taking, Entering, Freeing
  <2>2. CASE op.pc = "w_link"
    BY <1>10, <2>2, IdleDoes
  <2> QED
    BY <1>10, <2>1, <2>2
<1> QED
  BY <1>12, <1>13, <1>14, <1>15, <1>16, <1>18, <1>19, <1>20, <1>21, <1>22, <1>23
  DEF Kept, Layout

-----------------------------------------------------------------------------
(* Entries are written. *)

\* DOS_MKDIR's entry names the new directory's cluster, which is in use on disk.
LEMMA MkdirKept ==
  ASSUME NEW own \in Labels, NEW pos \in Places, Kept(own, pos), setup' = setup, MkdirEntry
  PROVE  \E o \in Labels, p \in Places : Kept(o, p)'
<1>0. PICK x, l : x = op.clus /\ l = op.loc
  OBVIOUS
<1>1. /\ ents' = [ents EXCEPT ![l] = [kind |-> "dir", clus |-> x]] /\ op' = IdleOp
      /\ UNCHANGED <<fat1, stale, junk, fat, FATDIRTY, copy2, ALLOC_HINT, CWDCLUS, slot, setup>>
      /\ op.pc = "m_entry" /\ FATDIRTY = NONE
  BY <1>0, ReadyMeans DEF MkdirEntry, Return, CommitPoints, cache
<1>2. /\ x \in Clusters /\ own[x] = NoLoc /\ fat[x] = EOC /\ fat1[x] \notin Clusters
      /\ \A c \in Clusters : fat[c] # x /\ fat1[c] # x
      /\ x \notin junk /\ l \in Loc /\ l # NoLoc /\ ents[l] = Blank
      /\ l[1] # 0 => InDir(own, l[1])
  BY <1>0, <1>1, ClusterFacts DEF Kept, Layout, Doing, Taking, Entering, Fresh, Place
<1>3. fat1 = fat
  BY <1>1 DEF Kept, Layout, CacheKept
<1>4. PICK o \in Labels : o = [own EXCEPT ![x] = l]
  BY <1>2 DEF Labels
<1>5. PICK p \in Places : p = [pos EXCEPT ![x] = 0]
  BY DEF Places
<1>6. /\ o[x] = l /\ p[x] = 0
      /\ \A c \in Clusters : c # x => o[c] = own[c] /\ p[c] = pos[c]
  BY <1>2, <1>4, <1>5 DEF Labels, Places
<1>7. /\ ents'[l].kind = "dir" /\ ents'[l].clus = x
      /\ \A m \in Loc : m # l => ents'[m] = ents[m]
      /\ ents' \in [Loc -> [kind : {"free", "file", "dir"}, clus : Clusters \union {0}]]
  BY <1>1, <1>2 DEF Kept, Types, TypeOK
<1>8. ents[l].kind = "free" /\ ents[l].clus = 0
  BY <1>2 DEF Blank
<1>9. \A c \in Clusters : own[c] # l
  BY <1>2, <1>8 DEF Kept, Layout, OwnedKept
<1>10. Doing(o, p)' /\ op' \in OpType /\ op'.pc = "idle"
  BY <1>1, IdleDoes DEF IdleOp
<1>11. Types'
  BY <1>1, <1>7, <1>10 DEF Kept, Types, TypeOK, Handles
<1>12. CwdLives'
  BY <1>1, <1>7, <1>8 DEF Kept, CwdLives, Dirs
<1>13. Linked(fat, o, p)' /\ Linked(fat1, o, p)'
  <2>1. Linked(fat, own, pos) /\ EOC \notin Clusters
    BY ClusterFacts DEF Kept, Layout
  <2>2. \A c \in Clusters : fat[c] \in Clusters => c # x /\ fat[c] # x
    BY <1>2, <2>1
  <2> QED
    BY <1>1, <1>3, <1>6, <2>1, <2>2 DEF Linked
<1>14. CacheKept' /\ OrderKept'
  BY <1>1, <1>3 DEF Kept, Layout, CacheKept, OrderKept
<1>15. \A c \in Clusters : c # x => (InDir(o, c)' <=> InDir(own, c))
  <2>1. \A c \in Clusters : own[c] # NoLoc => own[c] \in Loc
    BY DEF Labels
  <2> QED
    BY <1>6, <1>7, <1>9, <2>1 DEF InDir
<1>16. EntriesKept(o, p)'
  <2>1. EntriesKept(own, pos) /\ ~InDir(own, x) /\ EOC # FREE
    BY <1>2, ClusterFacts DEF Kept, Layout, InDir
  <2>2. \A m \in Loc : ents[m].clus # 0 => ents[m].clus \in Clusters /\ ents[m].clus # x
    BY <1>2, <2>1, ClusterFacts DEF EntriesKept, Kept, Types, TypeOK
  <2>3. \A m \in Loc : (ents[m].kind # "free" \/ m = l) /\ m[1] # 0 =>
          m[1] \in Clusters /\ m[1] # x /\ InDir(own, m[1])
    BY <1>2, <2>1, ClusterFacts DEF EntriesKept
  <2>4. ASSUME NEW m \in Loc, m # l
        PROVE  /\ ents'[m].kind = "free" => ents'[m] = Blank
               /\ ents'[m].kind = "dir" => ents'[m].clus # 0
               /\ ents'[m].clus # 0 => /\ o[ents'[m].clus] = m /\ p[ents'[m].clus] = 0
                                       /\ fat1'[ents'[m].clus] # FREE
               /\ ents'[m].kind # "free" /\ m[1] # 0 => InDir(o, m[1])'
    BY <1>1, <1>6, <1>7, <1>15, <2>1, <2>2, <2>3, <2>4 DEF EntriesKept
  <2>5. /\ ents'[l].clus # 0 => /\ o[ents'[l].clus] = l /\ p[ents'[l].clus] = 0
                                /\ fat1'[ents'[l].clus] # FREE
        /\ l[1] # 0 => InDir(o, l[1])'
        /\ ents'[l].clus # 0
    BY <1>1, <1>2, <1>3, <1>6, <1>7, <1>15, <2>1, <2>3, ClusterFacts
  <2> QED
    BY <1>7, <2>4, <2>5 DEF EntriesKept
<1>17. OwnedKept(o, p)'
  <2>1. OwnedKept(own, pos) /\ FREE # EOC
    BY ClusterFacts DEF Kept, Layout
  <2>2. ASSUME NEW c \in Clusters, c # x, o[c] # NoLoc
        PROVE  o[c] = own[c] /\ p[c] = pos[c] /\ ents'[o[c]] = ents[own[c]]
    BY <1>6, <1>7, <1>9, <2>2 DEF Labels
  <2>3. ASSUME NEW c \in Clusters, c # x, o[c] # NoLoc, p[c] = 0 PROVE IsHead(o, c)'
    BY <1>1, <2>1, <2>2, <2>3 DEF OwnedKept, IsHead, Handles
  <2>4. IsHead(o, x)'
    BY <1>6, <1>7 DEF IsHead
  <2>5. ASSUME NEW c \in Clusters, c # x, o[c] # NoLoc
        PROVE  /\ fat'[c] # FREE /\ ents'[o[c]].kind # "free"
               /\ p[c] > 0 => \E d \in Clusters : fat'[d] = c
               /\ p[c] > 0 /\ fat1'[c] \in Clusters => \E d \in Clusters : fat1'[d] = c
               /\ ents'[o[c]].kind = "dir" => c \notin junk'
    BY <1>1, <2>1, <2>2, <2>5 DEF OwnedKept
  <2>6. fat'[x] # FREE /\ ents'[o[x]].kind = "dir" /\ ~(p[x] > 0) /\ x \notin junk'
    BY <1>1, <1>2, <1>6, <1>7, <2>1
  <2> QED
    BY <2>3, <2>4, <2>5, <2>6 DEF OwnedKept
<1>18. SlotsKept(o, p)'
  <2>1. SlotsKept(own, pos)
    BY DEF Kept, Layout
  <2>2. \A h \in Handles : slot[h].inuse =>
          /\ slot[h].startclus # 0 => slot[h].startclus \in Clusters /\ slot[h].startclus # x
          /\ slot[h].dirty # 0 => slot[h].dirty \in Clusters /\ slot[h].dirty # x
          /\ slot[h].dirloc # l
    BY <1>2, <1>8, <2>1, ClusterFacts DEF SlotsKept, Kept, Types, TypeOK
  <2> QED
    BY <1>1, <1>6, <1>7, <2>1, <2>2 DEF SlotsKept, Handles
<1>19. DirsKept(o, p)'
  <2>1. ASSUME NEW c \in Clusters, c # x, InDir(o, c)', p[c] > 0
        PROVE  \E d \in Clusters : fat1'[d] = c
    BY <1>1, <1>6, <1>15, <2>1 DEF DirsKept, Kept, Layout
  <2> QED
    BY <1>6, <2>1 DEF DirsKept
<1>20. Leaks(o)'
  BY <1>0, <1>1, <1>2, <1>6, <1>10 DEF Leaks, Untroubled, Kept, Layout, Handles
<1> QED
  BY <1>10, <1>11, <1>12, <1>13, <1>14, <1>16, <1>17, <1>18, <1>19, <1>20 DEF Kept, Layout

\* An entry lets go of its chain: DOS_KILL and DOS_RMDIR mark it deleted,
\* DOS_OPEN makes it that of an empty file.
LEMMA ReleaseKept ==
  ASSUME NEW own \in Labels, NEW pos \in Places, Kept(own, pos), setup' = setup,
         KillEntry \/ OpenEntry
  PROVE  \E o \in Labels, p \in Places : Kept(o, p)'
<1>0. PICK x, l : x = op.clus /\ l = op.loc
  OBVIOUS
<1> DEFINE Emptyfile == [kind |-> "file", clus |-> 0]
<1>1. /\ UNCHANGED <<fat1, stale, junk, fat, FATDIRTY, copy2, ALLOC_HINT, CWDCLUS, slot, setup>>
      /\ \/ /\ op.pc = "k_entry" /\ ents' = [ents EXCEPT ![l] = Blank]
            /\ op' = IF x = 0 THEN IdleOp ELSE [op EXCEPT !.pc = "free"]
         \/ /\ op.pc = "o_entry" /\ ents' = [ents EXCEPT ![l] = Emptyfile]
            /\ op' = [op EXCEPT !.pc = IF x = 0 THEN "o_init" ELSE "free", !.then = "o_init"]
  BY <1>0, ReadyMeans DEF KillEntry, OpenEntry, Return, cache
<1>2. /\ l \in Loc /\ l # NoLoc /\ ents[l].clus = x /\ NotOpen(l) /\ op \in OpType
      /\ x \in Clusters \union {0}
  BY <1>0, <1>1, ClusterFacts DEF Kept, Types, OpType, Layout, Doing, Entering, Place
<1>3. PICK o \in Labels : o = [c \in Clusters |-> IF own[c] = l THEN NoLoc ELSE own[c]]
  BY DEF Labels
<1>4. \A c \in Clusters : /\ own[c] = l => o[c] = NoLoc
                          /\ own[c] # l => o[c] = own[c]
                          /\ o[c] # l
  BY <1>2, <1>3
<1>5. /\ \A m \in Loc : m # l => ents'[m] = ents[m]
      /\ ents'[l].clus = 0 /\ ents'[l].kind # "dir"
      /\ op.pc = "k_entry" => ents'[l] = Blank
      /\ op.pc = "o_entry" => ents'[l] = Emptyfile
      /\ ents' \in [Loc -> [kind : {"free", "file", "dir"}, clus : Clusters \union {0}]]
  BY <1>1, <1>2, SMTT(60) DEF Kept, Types, TypeOK, Blank
<1>6. /\ op' \in OpType
      /\ \/ op.pc = "k_entry" /\ x = 0 /\ op' = IdleOp /\ op'.pc = "idle"
         \/ op.pc = "k_entry" /\ x # 0 /\ op'.pc = "free" /\ op'.then = op.then /\ op'.clus = x
         \/ /\ op.pc = "o_entry" /\ op'.pc = (IF x = 0 THEN "o_init" ELSE "free")
            /\ op'.then = "o_init" /\ op'.clus = x /\ op'.loc = l /\ op'.h = op.h
  <2>1. CASE op.pc = "k_entry" /\ x = 0
    BY <1>1, <2>1, IdleDoes DEF IdleOp
  <2>2. CASE op.pc = "k_entry" /\ x # 0
    BY <1>0, <1>1, <1>2, <2>2 DEF OpType
  <2>3. CASE op.pc = "o_entry"
    BY <1>0, <1>1, <1>2, <2>3, ZenonT(60) DEF OpType
  <2> QED
    BY <1>1, <2>1, <2>2, <2>3
<1>7. Types'
  BY <1>1, <1>5, <1>6 DEF Kept, Types, TypeOK, Handles
<1>8. CwdLives'
  <2>1. CWDCLUS = 0 \/ \E m \in Loc : ents[m].kind = "dir" /\ ents[m].clus = CWDCLUS
    BY DEF Kept, CwdLives, Dirs
  <2>2. \A m \in Loc : ents[m].kind = "dir" /\ ents[m].clus = CWDCLUS => m # l
    BY <1>0, <1>1, <1>2 DEF Kept, Layout, Doing, Entering
  <2> QED
    BY <1>1, <1>5, <2>1, <2>2 DEF CwdLives, Dirs
<1>9. Linked(fat, o, pos)' /\ Linked(fat1, o, pos)'
  BY <1>1, <1>4 DEF Kept, Layout, Linked
<1>10. CacheKept' /\ OrderKept'
  BY <1>1, <1>6 DEF Kept, Layout, CacheKept, OrderKept
<1>11. \A c \in Clusters : (InDir(o, c)' => InDir(own, c)) /\
                           (InDir(own, c) /\ own[c] # l => InDir(o, c)')
  <2>1. \A c \in Clusters : own[c] # NoLoc => own[c] \in Loc
    BY DEF Labels
  <2> QED
    BY <1>4, <1>5, <2>1 DEF InDir
<1>12. ASSUME NEW m \in Loc, m[1] # 0, ents'[m].kind # "free" PROVE InDir(o, m[1])'
  <2>1. m[1] \in Clusters
    BY <1>12, ClusterFacts
  <2>2. InDir(own, m[1])
    <3>1. CASE m # l
      BY <1>5, <1>12, <3>1 DEF Kept, Layout, EntriesKept
    <3>2. CASE m = l
      <4>1. op.pc = "o_entry"
        BY <1>1, <1>5, <1>12, <3>2 DEF Blank
      <4> QED
        BY <1>0, <1>12, <3>2, <4>1 DEF Kept, Layout, Doing, Entering, Place
    <3> QED
      BY <3>1, <3>2
  <2>3. own[m[1]] # l
    <3>1. SUFFICES ASSUME own[m[1]] = l PROVE FALSE
      OBVIOUS
    <3>2. ents[l].kind = "dir"
      BY <2>2, <3>1 DEF InDir
    <3>3. op.pc = "k_entry"
      BY <1>0, <1>1, <3>2 DEF Kept, Layout, Doing, Entering
    <3>4. ents[m].kind = "free"
      BY <1>0, <1>12, <3>1, <3>2, <3>3 DEF Kept, Layout, Doing, Entering
    <3> QED
      BY <1>5, <1>12, <3>3, <3>4 DEF Blank
  <2> QED
    BY <1>11, <2>1, <2>2, <2>3
<1>13. EntriesKept(o, pos)'
  <2>1. EntriesKept(own, pos)
    BY DEF Kept, Layout
  <2>2. \A m \in Loc : ents[m].clus # 0 => ents[m].clus \in Clusters
    BY DEF Kept, Types, TypeOK
  <2>3. ASSUME NEW m \in Loc, m # l
        PROVE  /\ ents'[m].kind = "free" => ents'[m] = Blank
               /\ ents'[m].kind = "dir" => ents'[m].clus # 0
               /\ ents'[m].clus # 0 => /\ o[ents'[m].clus] = m /\ pos[ents'[m].clus] = 0
                                       /\ fat1'[ents'[m].clus] # FREE
    BY <1>1, <1>4, <1>5, <2>1, <2>2, <2>3 DEF EntriesKept
  <2>4. ents'[l].kind = "free" => ents'[l] = Blank
    BY <1>1, <1>5
  <2> QED
    BY <1>5, <1>12, <2>3, <2>4 DEF EntriesKept
<1>14. OwnedKept(o, pos)'
  <2>1. OwnedKept(own, pos)
    BY DEF Kept, Layout
  <2>2. ASSUME NEW c \in Clusters, o[c] # NoLoc
        PROVE  o[c] = own[c] /\ own[c] # l /\ ents'[o[c]] = ents[own[c]]
    BY <1>4, <1>5, <2>2 DEF Labels
  <2>3. ASSUME NEW c \in Clusters, o[c] # NoLoc, pos[c] = 0 PROVE IsHead(o, c)'
    BY <1>1, <2>1, <2>2, <2>3 DEF OwnedKept, IsHead, Handles
  <2>4. ASSUME NEW c \in Clusters, o[c] # NoLoc
        PROVE  /\ fat'[c] # FREE /\ ents'[o[c]].kind # "free"
               /\ pos[c] > 0 => \E d \in Clusters : fat'[d] = c
               /\ pos[c] > 0 /\ fat1'[c] \in Clusters => \E d \in Clusters : fat1'[d] = c
               /\ ents'[o[c]].kind = "dir" => c \notin junk'
    BY <1>1, <2>1, <2>2, <2>4 DEF OwnedKept
  <2> QED
    BY <2>3, <2>4 DEF OwnedKept
<1>15. SlotsKept(o, pos)'
  <2>1. SlotsKept(own, pos)
    BY DEF Kept, Layout
  <2>2. \A h \in Handles : slot[h].inuse =>
          /\ slot[h].startclus # 0 => slot[h].startclus \in Clusters
          /\ slot[h].dirty # 0 => slot[h].dirty \in Clusters
          /\ slot[h].dirloc # l
    BY <1>2 DEF Kept, Types, TypeOK, NotOpen
  <2> QED
    BY <1>1, <1>4, <1>5, <2>1, <2>2 DEF SlotsKept, Handles
<1>16. DirsKept(o, pos)'
  BY <1>1, <1>6, <1>11 DEF DirsKept, Kept, Layout
<1>17. Leaks(o)'
  <2>1. ASSUME Untroubled, NEW c \in Clusters, fat'[c] # FREE, o[c] = NoLoc
        PROVE  op'.pc = "free" /\ (c = op'.clus \/ \E d \in Clusters : fat'[d] = c)
    <3>1. own[c] = l
      BY <1>1, <1>4, <2>1 DEF Leaks, Kept, Layout
    <3>2. \A d \in Clusters : own[d] = l /\ pos[d] = 0 => d = x
      BY <1>2 DEF Kept, Layout, OwnedKept, IsHead, NotOpen
    <3>3. PICK h \in Clusters : own[h] = l /\ pos[h] = 0
      BY <1>2, <3>1, OwnerHasHead DEF Kept, Layout
    <3>4. x # 0
      BY <3>2, <3>3, ClusterFacts
    <3>5. pos[c] > 0 => \E d \in Clusters : fat'[d] = c
      BY <1>1, <1>2, <3>1 DEF Kept, Layout, OwnedKept
    <3> QED
      BY <1>6, <3>1, <3>2, <3>4, <3>5 DEF Places
  <2>2. ASSUME Untroubled, \A h \in Handles : ~slot[h].inuse PROVE FATDIRTY = NONE
    BY <1>1, <2>2 DEF Leaks, Kept, Layout
  <2> QED
    BY <1>1, <2>1, <2>2 DEF Leaks, Untroubled, Handles
<1>18. Doing(o, pos)'
  <2>1. CASE op' = IdleOp
    BY <2>1, IdleDoes
  <2>2. CASE op' # IdleOp
    <3>1. op.pc = "o_entry" => Emptied(o)'
      <4>1. ASSUME op.pc = "o_entry" PROVE SlotFree(op.h) /\ op'.h = op.h /\ op'.loc = l
        BY <1>6, <4>1 DEF Kept, Layout, Doing, Entering
      <4> QED
        BY <1>1, <1>2, <1>4, <1>5, <4>1 DEF Emptied, SlotFree, NotOpen, Handles
    <3>2. ASSUME x # 0 PROVE x \in Clusters /\ o[x] = NoLoc /\ \A c \in Clusters : fat'[c] # x
      <4>1. x \in Clusters /\ own[x] = l /\ pos[x] = 0
        BY <1>2, <3>2 DEF Kept, Layout, EntriesKept
      <4> QED
        BY <1>1, <1>4, <4>1 DEF Kept, Layout, Linked, Places
    <3>3. op.pc = "k_entry" => op.then = "idle"
      BY DEF Kept, Layout, Doing, Entering
    <3>4. Freeing(o)'
      BY <1>6, <2>2, <3>1, <3>2, <3>3 DEF Freeing
    <3>5. op'.pc \in {"free", "o_init"} /\ op'.then \in {"idle", "o_init"}
      BY <1>6, <2>2, <3>3
    <3> QED
      BY <3>4, <3>5 DEF Doing, Extending, Taking, Entering, Writing
  <2> QED
    BY <2>1, <2>2
<1> QED
  BY <1>7, <1>8, <1>9, <1>10, <1>13, <1>14, <1>15, <1>16, <1>17, <1>18 DEF Kept, Layout

\* FREE_CHAIN takes a cluster that nothing names.
LEMMA FreeKept ==
  ASSUME NEW own \in Labels, NEW pos \in Places, Kept(own, pos), setup' = setup, FREE_CHAIN
  PROVE  Kept(own, pos)'
<1>0. PICK x, n : x = op.clus /\ n = fat[x]
  OBVIOUS
<1>1. /\ fat' = [fat EXCEPT ![x] = FREE] /\ FATDIRTY' = Sec(x)
      /\ ALLOC_HINT' = (IF x < ALLOC_HINT THEN x ELSE ALLOC_HINT)
      /\ UNCHANGED <<fat1, stale, ents, junk, copy2, CWDCLUS, slot, setup>>
      /\ op.pc = "free" /\ copy2 = 0
      /\ \A c \in FatWanted : FATDIRTY = NONE \/ Sec(c) = FATDIRTY
      /\ op' = IF n \in Clusters THEN [op EXCEPT !.clus = n]
               ELSE [op EXCEPT !.pc = "f_done", !.clus = 0]
  BY <1>0, ReadyMeans DEF FREE_CHAIN, disk
<1>2. /\ op \in OpType /\ x \in Clusters /\ own[x] = NoLoc
      /\ \A c \in Clusters : fat[c] # x
      /\ op.then = "idle" \/ (op.then = "o_init" /\ Emptied(own))
  BY <1>0, <1>1 DEF Kept, Types, Layout, Doing, Freeing
<1>3. fat'[x] = FREE /\ \A c \in Clusters : c # x => fat'[c] = fat[c]
  BY <1>1, <1>2 DEF Kept, Types, TypeOK
<1>4. /\ op' \in OpType /\ op'.then = op.then /\ op'.h = op.h /\ op'.loc = op.loc
      /\ n \in Clusters => op'.pc = "free" /\ op'.clus = n
      /\ n \notin Clusters => op'.pc = "f_done"
  BY <1>1, <1>2, ZenonT(60) DEF OpType
<1>5. Types'
  <2>1. ALLOC_HINT' \in 2 .. MAXCLUS
    <3>1. x \in 2 .. MAXCLUS /\ ALLOC_HINT \in 2 .. MAXCLUS
      <4>1. MAXCLUS \in Nat
        BY ClusterFacts
      <4> QED
        BY <1>2, <4>1 DEF Clusters, Kept, Types, TypeOK
    <3> QED
      BY <1>1, <3>1
  <2>2. fat' \in [Clusters -> FatValue]
    BY <1>1, <1>2 DEF Kept, Types, TypeOK, FatValue
  <2> QED
    BY <1>1, <1>2, <1>4, <2>1, <2>2 DEF Kept, Types, TypeOK, Handles
<1>6. CwdLives'
  BY <1>1 DEF Kept, CwdLives, Dirs
<1>7. Linked(fat1, own, pos)' /\ EntriesKept(own, pos)' /\ SlotsKept(own, pos)'
  BY <1>1 DEF Kept, Layout, Linked, EntriesKept, InDir, SlotsKept, Handles
<1>8. Linked(fat, own, pos)'
  <2>1. Linked(fat, own, pos) /\ FREE \notin Clusters
    BY ClusterFacts DEF Kept, Layout
  <2>2. \A c \in Clusters : fat'[c] \in Clusters => fat'[c] = fat[c] /\ c # x /\ fat[c] # x
    BY <1>2, <1>3, <2>1
  <2> QED
    BY <1>3, <2>1, <2>2 DEF Linked
<1>9. CacheKept'
  <2>1. FATDIRTY = NONE \/ Sec(x) = FATDIRTY
    BY <1>0, <1>1 DEF FatWanted
  <2> QED
    BY <1>1, <1>2, <2>1, CacheSet DEF Kept, Types, Layout
<1>10. OwnedKept(own, pos)'
  <2>1. OwnedKept(own, pos) /\ Linked(fat, own, pos)
    BY DEF Kept, Layout
  <2>2. ASSUME NEW c \in Clusters, own[c] # NoLoc, pos[c] > 0
        PROVE  \E d \in Clusters : fat'[d] = c
    <3>1. PICK d \in Clusters : fat[d] = c
      BY <2>1, <2>2 DEF OwnedKept
    <3>2. d # x
      BY <1>2, <2>1, <2>2, <3>1 DEF Linked
    <3> QED
      BY <1>3, <3>1, <3>2
  <2> QED
    BY <1>1, <1>2, <1>3, <2>1, <2>2 DEF OwnedKept, IsHead, Handles
<1>11. OrderKept' /\ DirsKept(own, pos)'
  BY <1>1, <1>4 DEF Kept, Layout, OrderKept, DirsKept, InDir
<1>12. Doing(own, pos)'
  <2>1. ASSUME n \in Clusters PROVE own[n] = NoLoc /\ \A c \in Clusters : fat'[c] # n
    <3>1. own[n] = own[x] /\ \A d \in Clusters : fat[d] = n => d = x
      BY <1>0, <1>2, <2>1 DEF Kept, Layout, Linked
    <3>2. n # FREE
      BY <2>1, ClusterFacts
    <3> QED
      BY <1>2, <1>3, <3>1, <3>2
  <2>2. Emptied(own) => Emptied(own)'
    BY <1>1, <1>4 DEF Emptied, SlotFree, NotOpen, Handles
  <2>3. Freeing(own)'
    BY <1>2, <1>4, <2>1, <2>2 DEF Freeing
  <2>4. op'.pc \in {"free", "f_done"} /\ op'.then \in {"idle", "o_init"}
    BY <1>2, <1>4
  <2> QED
    BY <2>3, <2>4 DEF Doing, Extending, Taking, Entering, Writing
<1>13. Leaks(own)'
  <2>1. ASSUME Untroubled, NEW c \in Clusters, fat'[c] # FREE, own[c] = NoLoc
        PROVE  c # x /\ fat[c] # FREE /\ \E d \in Clusters : fat[d] = c
    <3>1. c # x /\ fat[c] # FREE
      BY <1>3, <2>1
    <3> QED
      BY <1>0, <1>1, <2>1, <3>1 DEF Kept, Layout, Leaks
  <2> DEFINE Lost == {c \in Clusters : fat'[c] # FREE /\ own[c] = NoLoc}
             S == {pos[c] : c \in Lost}
  <2>2. ASSUME Untroubled, n \notin Clusters, Lost # {} PROVE FALSE
    <3>1. S \subseteq Nat /\ S # {}
      BY <2>2 DEF Places
    <3>2. PICK m \in S : \A k \in S : m <= k
      <4> HIDE DEF S
      <4> QED
        BY <3>1, Least
    <3>3. PICK c \in Lost : pos[c] = m
      BY <3>2
    <3>4. PICK d \in Clusters : fat[d] = c
      BY <2>1, <2>2, <3>3
    <3>5. own[d] = NoLoc /\ pos[c] = pos[d] + 1 /\ pos[d] \in Nat /\ d # x /\ c # FREE
      BY <1>0, <2>2, <3>3, <3>4, ClusterFacts DEF Kept, Layout, Linked, Places
    <3>6. d \in Lost
      BY <1>3, <3>4, <3>5
    <3>7. m <= pos[d]
      BY <3>2, <3>6
    <3> QED
      BY <3>3, <3>5, <3>7
  <2>3. ASSUME Untroubled, NEW c \in Clusters, fat'[c] # FREE, own[c] = NoLoc
        PROVE  op'.pc = "free" /\ (c = op'.clus \/ \E d \in Clusters : fat'[d] = c)
    <3>1. n \in Clusters
      BY <2>2, <2>3
    <3>2. PICK d \in Clusters : fat[d] = c
      BY <2>1, <2>3
    <3> QED
      BY <1>0, <1>3, <1>4, <3>1, <3>2
  <2> QED
    BY <1>1, <1>4, <2>3 DEF Leaks, Untroubled
<1> QED
  BY <1>5, <1>6, <1>7, <1>8, <1>9, <1>10, <1>11, <1>12, <1>13 DEF Kept, Layout

\* The emptied file is open.
LEMMA OpenInitKept ==
  ASSUME NEW own \in Labels, NEW pos \in Places, Kept(own, pos), setup' = setup, OpenInit
  PROVE  Kept(own, pos)'
<1>0. PICK h, l : h = op.h /\ l = op.loc
  OBVIOUS
<1> DEFINE e == [Closed EXCEPT !.inuse = TRUE, !.dirloc = l]
<1>1. /\ slot' = [slot EXCEPT ![h] = e] /\ UNCHANGED <<disk, cache, CWDCLUS, setup>>
      /\ op.pc = "o_init" /\ op' = IdleOp
  BY <1>0, ReadyMeans DEF OpenInit, Return
<1>2. /\ h \in Handles /\ ~slot[h].inuse /\ l \in Loc /\ NotOpen(l)
      /\ ents[l] = [kind |-> "file", clus |-> 0] /\ \A c \in Clusters : own[c] # l
  BY <1>0, <1>1 DEF Kept, Layout, Doing, Freeing, Emptied, SlotFree
<1>3. /\ e.inuse = TRUE /\ e.startclus = 0 /\ e.dirloc = l /\ e.dirty = 0
      /\ e \in [inuse : BOOLEAN, startclus : Clusters \union {0},
                dirloc : Loc \union {<<0, 0>>}, dirty : Clusters \union {0}]
  BY <1>2 DEF Closed
<1> HIDE DEF e
<1>4. slot'[h] = e /\ \A g \in Handles \ {h} : slot'[g] = slot[g]
  BY <1>1, <1>2 DEF Kept, Types, TypeOK
<1>5. Doing(own, pos)' /\ op' \in OpType /\ op'.pc = "idle"
  BY <1>1, IdleDoes DEF IdleOp
<1>6. Types'
  BY <1>1, <1>3, <1>5 DEF Kept, Types, TypeOK, disk, cache, Handles
<1>7. CwdLives'
  BY <1>1 DEF Kept, CwdLives, Dirs, disk
<1>8. Linked(fat, own, pos)' /\ Linked(fat1, own, pos)' /\ CacheKept' /\ EntriesKept(own, pos)'
  BY <1>1 DEF Kept, Layout, Linked, CacheKept, EntriesKept, InDir, disk, cache
<1>9. OwnedKept(own, pos)'
  BY <1>1, <1>2, <1>4 DEF Kept, Layout, OwnedKept, IsHead, Handles, disk, cache
<1>10. SlotsKept(own, pos)'
  <2>1. SlotsKept(own, pos) /\ Handles' = Handles /\ ents' = ents
    BY <1>1 DEF Kept, Layout, Handles, disk
  <2>2. ents[l].kind = "file" /\ ents[l].clus = 0
    BY <1>2
  <2> QED
    BY <1>2, <1>3, <1>4, <2>1, <2>2 DEF SlotsKept, NotOpen
<1>11. OrderKept' /\ DirsKept(own, pos)'
  BY <1>1, <1>5 DEF Kept, Layout, OrderKept, DirsKept, InDir, disk, cache
<1>12. Leaks(own)'
  BY <1>1, <1>2, <1>3, <1>4, <1>5 DEF Kept, Layout, Leaks, Untroubled, Handles, disk, cache
<1> QED
  BY <1>5, <1>6, <1>7, <1>8, <1>9, <1>10, <1>11, <1>12 DEF Kept, Layout

\* DOS_CLOSE leaves the other slots alone.
LEMMA SlotCloses ==
  ASSUME TypeOK, NEW h, slot' = slot \/ slot' = [slot EXCEPT ![h] = Closed]
  PROVE  /\ \A g \in Handles : g # h => slot'[g] = slot[g]
         /\ h \in Handles => slot'[h] = slot[h] \/ slot'[h] = Closed
         /\ Closed.inuse = FALSE
         /\ slot' \in [Handles -> [inuse : BOOLEAN, startclus : Clusters \union {0},
                                   dirloc : Loc \union {<<0, 0>>}, dirty : Clusters \union {0}]]
<1> DEFINE T == [inuse : BOOLEAN, startclus : Clusters \union {0},
                 dirloc : Loc \union {<<0, 0>>}, dirty : Clusters \union {0}]
<1>1. Closed \in T /\ Closed.inuse = FALSE
  BY DEF Closed
<1>2. slot \in [Handles -> T]
  BY DEF TypeOK
<1> HIDE DEF T
<1>3. slot' \in [Handles -> T] /\ (\A g \in Handles : g # h => slot'[g] = slot[g])
      /\ (h \in Handles => slot'[h] = slot[h] \/ slot'[h] = Closed)
  BY <1>1, <1>2
<1> QED
  BY <1>1, <1>3 DEF T

\* SYNC_SLOT's entry names the file's clusters, all of them on disk by then.
LEMMA SyncKept ==
  ASSUME NEW own \in Labels, NEW pos \in Places, Kept(own, pos), setup' = setup, SyncEntry
  PROVE  Kept(own, pos)'
<1>0. PICK h, l, s : h = op.h /\ l = slot[h].dirloc /\ s = slot[h].startclus
  OBVIOUS
<1>1. /\ ents' = [ents EXCEPT ![l].clus = s] /\ op' = IdleOp
      /\ slot' = slot \/ slot' = [slot EXCEPT ![h] = Closed]
      /\ UNCHANGED <<fat1, stale, junk, fat, FATDIRTY, copy2, ALLOC_HINT, CWDCLUS, setup>>
      /\ op.pc = "s_entry" /\ FATDIRTY = NONE
  BY <1>0, ReadyMeans DEF SyncEntry, Closing, Return, CommitPoints, cache
<1>2. /\ h \in Handles /\ slot[h].inuse /\ l \in Loc /\ l # NoLoc /\ ents[l].kind = "file"
      /\ ents[l].clus \in {0, s} /\ s \in Clusters \union {0}
      /\ s # 0 => own[s] = l /\ pos[s] = 0
      /\ \A g \in Handles : slot[g].inuse /\ slot[g].dirloc = l => g = h
      /\ fat1 = fat /\ Handles' = Handles
  <2>1. h \in Handles /\ slot[h].inuse
    BY <1>0, <1>1 DEF Kept, Layout, Doing, Writing
  <2> QED
    BY <1>0, <1>1, <2>1, ClusterFacts
    DEF Kept, Types, TypeOK, Layout, SlotsKept, CacheKept, Handles
<1>3. /\ ents'[l].kind = "file" /\ ents'[l].clus = s
      /\ \A m \in Loc : m # l => ents'[m] = ents[m]
      /\ \A m \in Loc : ents'[m].kind = ents[m].kind
      /\ ents' \in [Loc -> [kind : {"free", "file", "dir"}, clus : Clusters \union {0}]]
  BY <1>1, <1>2 DEF Kept, Types, TypeOK
<1>4. /\ \A g \in Handles : g # h => slot'[g] = slot[g]
      /\ slot'[h] = slot[h] \/ slot'[h] = Closed
      /\ Closed.inuse = FALSE
      /\ slot' \in [Handles -> [inuse : BOOLEAN, startclus : Clusters \union {0},
                                dirloc : Loc \union {<<0, 0>>}, dirty : Clusters \union {0}]]
  BY <1>1, <1>2, SlotCloses DEF Kept, Types
<1>5. Doing(own, pos)' /\ op' \in OpType /\ op'.pc = "idle"
  BY <1>1, IdleDoes DEF IdleOp
<1>6. Types'
  BY <1>1, <1>2, <1>3, <1>4, <1>5 DEF Kept, Types, TypeOK
<1>7. CwdLives'
  BY <1>1, <1>2, <1>3 DEF Kept, CwdLives, Dirs
<1>8. Linked(fat, own, pos)' /\ Linked(fat1, own, pos)' /\ CacheKept' /\ OrderKept'
  BY <1>1, <1>2 DEF Kept, Layout, Linked, CacheKept, OrderKept
<1>9. \A c \in Clusters : InDir(own, c)' <=> InDir(own, c)
  <2>1. \A c \in Clusters : own[c] # NoLoc => own[c] \in Loc
    BY DEF Labels
  <2> QED
    BY <1>3, <2>1 DEF InDir
<1>10. EntriesKept(own, pos)'
  <2>1. EntriesKept(own, pos) /\ OwnedKept(own, pos)
    BY DEF Kept, Layout
  <2>2. \A m \in Loc : m[1] # 0 => m[1] \in Clusters
    BY ClusterFacts
  <2>3. s # 0 => fat1[s] # FREE
    BY <1>2, <2>1 DEF OwnedKept
  <2>4. ASSUME NEW m \in Loc, m # l
        PROVE  /\ ents'[m].kind = "free" => ents'[m] = Blank
               /\ ents'[m].kind = "dir" => ents'[m].clus # 0
               /\ ents'[m].clus # 0 => /\ own[ents'[m].clus] = m /\ pos[ents'[m].clus] = 0
                                       /\ fat1'[ents'[m].clus] # FREE
    BY <1>1, <1>3, <2>1, <2>4 DEF EntriesKept
  <2>5. ASSUME NEW m \in Loc, ents'[m].kind # "free", m[1] # 0 PROVE InDir(own, m[1])'
    BY <1>3, <1>9, <2>1, <2>2, <2>5 DEF EntriesKept
  <2> QED
    BY <1>1, <1>2, <1>3, <2>3, <2>4, <2>5 DEF EntriesKept
<1>11. OwnedKept(own, pos)'
  <2>1. OwnedKept(own, pos)
    BY DEF Kept, Layout
  <2>2. \A c \in Clusters : own[c] # NoLoc => own[c] \in Loc /\ c # 0
    BY ClusterFacts DEF Labels
  <2>3. ASSUME NEW c \in Clusters, own[c] # NoLoc, pos[c] = 0 PROVE IsHead(own, c)'
    <3>1. IsHead(own, c)
      BY <2>1, <2>3 DEF OwnedKept
    <3>2. CASE own[c] = l
      BY <1>0, <1>2, <1>3, <2>2, <2>3, <3>1, <3>2 DEF IsHead
    <3>3. CASE own[c] # l
      BY <1>0, <1>2, <1>3, <1>4, <2>2, <2>3, <3>1, <3>3 DEF IsHead
    <3> QED
      BY <3>2, <3>3
  <2>4. ASSUME NEW c \in Clusters, own[c] # NoLoc
        PROVE  /\ fat'[c] # FREE /\ ents'[own[c]].kind # "free"
               /\ pos[c] > 0 => \E d \in Clusters : fat'[d] = c
               /\ pos[c] > 0 /\ fat1'[c] \in Clusters => \E d \in Clusters : fat1'[d] = c
               /\ ents'[own[c]].kind = "dir" => c \notin junk'
    BY <1>1, <1>3, <2>1, <2>2, <2>4 DEF OwnedKept
  <2> QED
    BY <2>3, <2>4 DEF OwnedKept
<1>12. SlotsKept(own, pos)'
  <2>1. SlotsKept(own, pos)
    BY DEF Kept, Layout
  <2> QED
    BY <1>0, <1>2, <1>3, <1>4, <2>1 DEF SlotsKept
<1>13. DirsKept(own, pos)'
  BY <1>1, <1>5, <1>9 DEF DirsKept, Kept, Layout
<1>14. Leaks(own)'
  BY <1>1, <1>5 DEF Kept, Layout, Leaks, Untroubled
<1> QED
  BY <1>5, <1>6, <1>7, <1>8, <1>10, <1>11, <1>12, <1>13, <1>14 DEF Kept, Layout

-----------------------------------------------------------------------------
(* The power and writes fail. *)

\* The write of an entry fails.
LEMMA EntryFailsKept ==
  ASSUME NEW own \in Labels, NEW pos \in Places, Kept(own, pos), setup' = setup, EntryFails
  PROVE  \E o \in Labels, p \in Places : Kept(o, p)'
<1>0. PICK h, l : h = op.h /\ l = slot[h].dirloc
  OBVIOUS
<1>1. /\ op' = IdleOp /\ UNCHANGED <<disk, cache, CWDCLUS, setup>> /\ ~Untroubled
      /\ slot' = slot \/ (slot' = [slot EXCEPT ![h] = Closed] /\ op.pc = "s_entry")
      /\ op.pc \in {"x_zero", "o_entry", "k_entry", "m_zero", "m_entry", "s_entry"}
  <2>1. \A p : Ready(p) => op.pc = p
    BY DEF Ready
  <2> QED
    BY <1>0, <2>1 DEF EntryFails, Untroubled, Return, Closing
<1>2. CASE slot' = slot
  <2>1. UNCHANGED <<disk, cache, slot, setup>> /\ CWDCLUS' \in Dirs
    BY <1>1, <1>2 DEF Kept, CwdLives
  <2> QED
    BY <1>1, <2>1, IdleDoes, OpOnly
<1>3. CASE slot' # slot
  <2>1. slot' = [slot EXCEPT ![h] = Closed] /\ op.pc = "s_entry"
    BY <1>1, <1>3
  <2>2. /\ h \in Handles /\ slot[h].inuse /\ l \in Loc /\ l # NoLoc /\ ents[l].kind = "file"
        /\ ents[l].clus \in {0, slot[h].startclus}
        /\ \A g \in Handles : slot[g].inuse /\ slot[g].dirloc = l => g = h
        /\ Handles' = Handles
    <3>1. h \in Handles /\ slot[h].inuse
      BY <1>0, <2>1 DEF Kept, Layout, Doing, Writing
    <3> QED
      BY <1>0, <1>1, <3>1, ClusterFacts DEF Kept, Layout, SlotsKept, Handles
  <2>3. PICK o \in Labels : o = [c \in Clusters |-> IF own[c] = l /\ ents[l].clus = 0
                                                    THEN NoLoc ELSE own[c]]
    BY DEF Labels
  <2>4. \A c \in Clusters : /\ own[c] = l /\ ents[l].clus = 0 => o[c] = NoLoc
                            /\ own[c] # l \/ ents[l].clus # 0 => o[c] = own[c]
                            /\ o[c] # NoLoc => o[c] = own[c]
    BY <2>2, <2>3
  <2>5. /\ \A g \in Handles : g # h => slot'[g] = slot[g]
        /\ slot'[h] = Closed /\ Closed.inuse = FALSE
        /\ slot' \in [Handles -> [inuse : BOOLEAN, startclus : Clusters \union {0},
                                  dirloc : Loc \union {<<0, 0>>}, dirty : Clusters \union {0}]]
    <3>1. slot'[h] = Closed
      BY <2>1, <2>2 DEF Kept, Types, TypeOK
    <3> QED
      BY <2>1, <2>2, <3>1, SlotCloses DEF Kept, Types
  <2>6. Doing(o, pos)' /\ op' \in OpType /\ op'.pc = "idle"
    BY <1>1, IdleDoes DEF IdleOp
  <2>7. Types'
    BY <1>1, <2>2, <2>5, <2>6 DEF Kept, Types, TypeOK, disk, cache
  <2>8. CwdLives'
    BY <1>1 DEF Kept, CwdLives, Dirs, disk
  <2>9. Linked(fat, o, pos)' /\ Linked(fat1, o, pos)'
    <3>1. Linked(fat, own, pos) /\ Linked(fat1, own, pos) /\ UNCHANGED <<fat, fat1>>
      BY <1>1 DEF Kept, Layout, disk, cache
    <3> QED
      BY <2>4, <3>1 DEF Linked
  <2>10. CacheKept' /\ OrderKept'
    BY <1>1, <2>6 DEF Kept, Layout, CacheKept, OrderKept, disk, cache
  <2>11. \A c \in Clusters : InDir(o, c)' <=> InDir(own, c)
    BY <1>1, <2>2, <2>4 DEF InDir, disk
  <2>12. EntriesKept(o, pos)'
    <3>1. EntriesKept(own, pos) /\ ents' = ents /\ fat1' = fat1
      BY <1>1 DEF Kept, Layout, disk
    <3>2. \A m \in Loc : ents[m].clus # 0 => ents[m].clus \in Clusters
      BY DEF Kept, Types, TypeOK
    <3>3. \A m \in Loc : m[1] # 0 => m[1] \in Clusters
      BY ClusterFacts
    <3> QED
      BY <2>4, <2>11, <3>1, <3>2, <3>3 DEF EntriesKept
  <2>13. OwnedKept(o, pos)'
    <3>1. OwnedKept(own, pos) /\ UNCHANGED <<fat, fat1, ents, junk>>
      BY <1>1 DEF Kept, Layout, disk, cache
    <3>2. ASSUME NEW c \in Clusters, o[c] # NoLoc, pos[c] = 0 PROVE IsHead(o, c)'
      <4>1. IsHead(own, c) /\ o[c] = own[c] /\ c # 0
        BY <2>4, <3>1, <3>2, ClusterFacts DEF OwnedKept
      <4>2. CASE own[c] = l
        BY <1>0, <2>2, <2>4, <3>1, <3>2, <4>1, <4>2 DEF IsHead
      <4>3. CASE own[c] # l
        BY <1>0, <2>2, <2>5, <3>1, <4>1, <4>3 DEF IsHead
      <4> QED
        BY <4>2, <4>3
    <3> QED
      BY <2>4, <3>1, <3>2 DEF OwnedKept
  <2>14. SlotsKept(o, pos)'
    <3>1. SlotsKept(own, pos) /\ ents' = ents
      BY <1>1 DEF Kept, Layout, disk
    <3>2. \A g \in Handles : slot[g].inuse =>
            /\ slot[g].startclus # 0 => slot[g].startclus \in Clusters
            /\ slot[g].dirty # 0 => slot[g].dirty \in Clusters
      BY DEF Kept, Types, TypeOK
    <3> QED
      BY <2>2, <2>4, <2>5, <3>1, <3>2 DEF SlotsKept
  <2>15. DirsKept(o, pos)'
    BY <1>1, <2>1, <2>6, <2>11 DEF DirsKept, Kept, Layout, disk
  <2>16. Leaks(o)'
    BY <1>1 DEF Leaks, Untroubled
  <2> QED
    BY <2>6, <2>7, <2>8, <2>9, <2>10, <2>12, <2>13, <2>14, <2>15, <2>16 DEF Kept, Layout
<1> QED
  BY <1>2, <1>3

\* What is only in memory is forgotten: DOS goes on from the disk, and the
\* clusters that no entry on disk leads to are lost.
LEMMA Forgotten ==
  ASSUME NEW own \in Labels, NEW pos \in Places, Kept(own, pos), setup' = setup, ~Untroubled,
         fat' = fat1, FATDIRTY' = NONE, copy2' = 0, ALLOC_HINT' \in 2 .. MAXCLUS,
         UNCHANGED disk, CWDCLUS' \in Dirs, op' = IdleOp,
         slot' \in [Handles -> {Closed}]
  PROVE  \E o \in Labels, p \in Places : Kept(o, p)'
<1> DEFINE Stays(c) == /\ own[c] # NoLoc /\ ents[own[c]].clus # 0
                       /\ pos[c] = 0 \/ \E d \in Clusters : fat1[d] = c
<1>1. PICK o \in Labels : o = [c \in Clusters |-> IF Stays(c) THEN own[c] ELSE NoLoc]
  BY DEF Labels
<1>2. \A c \in Clusters : /\ Stays(c) => o[c] = own[c]
                          /\ ~Stays(c) => o[c] = NoLoc
                          /\ o[c] # NoLoc => Stays(c)
  BY <1>1
<1> HIDE DEF Stays
<1>3. UNCHANGED <<fat1, stale, ents, junk>> /\ Handles' = Handles
  BY DEF disk, Handles
<1>4. Closed.inuse = FALSE /\ Closed \in [inuse : BOOLEAN, startclus : Clusters \union {0},
                                dirloc : Loc \union {<<0, 0>>}, dirty : Clusters \union {0}]
  BY DEF Closed
<1>5. \A h \in Handles : slot'[h] = Closed
  OBVIOUS
<1>6. Doing(o, pos)' /\ op' \in OpType /\ op'.pc = "idle"
  BY IdleDoes DEF IdleOp
<1>7. Types' /\ CwdLives'
  <2>1. Dirs \subseteq Clusters \union {0} /\ Dirs' = Dirs
    BY <1>3 DEF Kept, Types, TypeOK, Dirs
  <2>2. slot' \in [Handles -> [inuse : BOOLEAN, startclus : Clusters \union {0},
                               dirloc : Loc \union {<<0, 0>>}, dirty : Clusters \union {0}]]
    BY <1>4
  <2> QED
    BY <1>3, <1>6, <2>1, <2>2 DEF Kept, Types, TypeOK, CwdLives
<1>8. ASSUME NEW c \in Clusters, fat1[c] \in Clusters
      PROVE  o[fat1[c]] = o[c] /\ pos[fat1[c]] = pos[c] + 1 /\ fat1[fat1[c]] # FREE
             /\ \A d \in Clusters : fat1[d] = fat1[c] => d = c
  <2>1. /\ own[fat1[c]] = own[c] /\ pos[fat1[c]] = pos[c] + 1 /\ fat1[fat1[c]] # FREE
        /\ \A d \in Clusters : fat1[d] = fat1[c] => d = c
    BY <1>8 DEF Kept, Layout, Linked
  <2>2. own[c] # NoLoc /\ pos[c] > 0 => \E d \in Clusters : fat1[d] = c
    BY <1>8 DEF Kept, Layout, OwnedKept
  <2>3. pos[c] = 0 \/ pos[c] > 0
    BY DEF Places
  <2>4. Stays(fat1[c]) <=> Stays(c)
    BY <1>8, <2>1, <2>2, <2>3 DEF Stays
  <2> QED
    BY <1>2, <1>8, <2>1, <2>4
<1>9. Linked(fat, o, pos)' /\ Linked(fat1, o, pos)'
  BY <1>3, <1>8 DEF Linked
<1>10. CacheKept' /\ OrderKept'
  BY <1>3 DEF CacheKept, OrderKept
<1>11. EntriesKept(o, pos)'
  <2>1. EntriesKept(own, pos)
    BY DEF Kept, Layout
  <2>2. \A m \in Loc : ents[m].clus # 0 => ents[m].clus \in Clusters /\ m # NoLoc
    BY ClusterFacts DEF Kept, Types, TypeOK
  <2>3. \A m \in Loc : ents[m].clus # 0 => o[ents[m].clus] = m
    BY <1>2, <2>1, <2>2 DEF EntriesKept, Stays
  <2>4. ASSUME NEW m \in Loc, ents[m].kind # "free", m[1] # 0 PROVE InDir(o, m[1])'
    <3>1. m[1] \in Clusters /\ InDir(own, m[1])
      BY <2>1, <2>4, ClusterFacts DEF EntriesKept
    <3>2. ents[own[m[1]]].clus # 0
      BY <2>1, <3>1 DEF EntriesKept, InDir, Labels
    <3>3. ~(op.pc = "x_done" /\ m[1] = op.clus)
      BY <2>4 DEF Kept, Layout, Doing, Extending
    <3>4. pos[m[1]] = 0 \/ \E d \in Clusters : fat1[d] = m[1]
      BY <3>1, <3>3 DEF Kept, Layout, DirsKept, Places
    <3>5. Stays(m[1])
      BY <3>1, <3>2, <3>4 DEF Stays, InDir
    <3> QED
      BY <1>2, <1>3, <3>1, <3>5 DEF InDir
  <2> QED
    BY <1>3, <2>1, <2>3, <2>4 DEF EntriesKept
<1>12. OwnedKept(o, pos)'
  <2>1. ASSUME NEW c \in Clusters, o[c] # NoLoc
        PROVE  /\ o[c] = own[c] /\ own[c] # NoLoc /\ ents[own[c]].clus # 0
               /\ pos[c] = 0 \/ \E d \in Clusters : fat1[d] = c
    BY <1>2, <2>1 DEF Stays
  <2>2. OwnedKept(own, pos) /\ EntriesKept(own, pos) /\ SlotsKept(own, pos) /\ Linked(fat1, own, pos)
    BY DEF Kept, Layout
  <2>3. ASSUME NEW c \in Clusters, o[c] # NoLoc, pos[c] = 0
        PROVE  c = ents[own[c]].clus
    <3>1. IsHead(own, c)
      BY <2>1, <2>2, <2>3 DEF OwnedKept
    <3> QED
      BY <2>1, <2>2, <2>3, <3>1 DEF IsHead, SlotsKept
  <2>4. ASSUME NEW c \in Clusters, o[c] # NoLoc PROVE fat1[c] # FREE
    <3>1. CASE pos[c] = 0
      BY <2>1, <2>2, <2>3, <2>4, <3>1 DEF EntriesKept, Labels
    <3>2. CASE pos[c] # 0
      BY <2>1, <2>2, <2>4, <3>2 DEF Linked
    <3> QED
      BY <3>1, <3>2
  <2>5. ASSUME NEW c \in Clusters, o[c] # NoLoc
        PROVE  ents[o[c]].kind # "free" /\ (ents[o[c]].kind = "dir" => c \notin junk)
    BY <2>1, <2>2, <2>5 DEF OwnedKept
  <2>6. ASSUME NEW c \in Clusters, o[c] # NoLoc, pos[c] = 0 PROVE IsHead(o, c)'
    BY <1>3, <2>1, <2>3, <2>6 DEF IsHead
  <2>7. ASSUME NEW c \in Clusters, o[c] # NoLoc, pos[c] > 0
        PROVE  \E d \in Clusters : fat1[d] = c
    BY <2>1, <2>7
  <2> QED
    BY <1>3, <2>4, <2>5, <2>6, <2>7 DEF OwnedKept
<1>13. SlotsKept(o, pos)'
  BY <1>3, <1>4, <1>5 DEF SlotsKept
<1>14. DirsKept(o, pos)'
  BY <1>2, <1>3 DEF DirsKept, InDir, Stays
<1>15. Leaks(o)'
  BY DEF Leaks, Untroubled
<1> QED
  BY <1>6, <1>7, <1>9, <1>10, <1>11, <1>12, <1>13, <1>14, <1>15 DEF Kept, Layout

\* The power fails.
LEMMA CrashKept ==
  ASSUME NEW own \in Labels, NEW pos \in Places, Kept(own, pos), setup' = setup, Crash
  PROVE  \E o \in Labels, p \in Places : Kept(o, p)'
<1>1. /\ fat' = fat1 /\ FATDIRTY' = NONE /\ copy2' = 0 /\ UNCHANGED disk /\ op' = IdleOp
      /\ ~Untroubled /\ slot' \in [Handles -> {Closed}]
  BY DEF Crash, Untroubled
<1>2. ALLOC_HINT' \in 2 .. MAXCLUS
  <2>1. MAXCLUS \in Nat /\ MAXCLUS >= 3
    BY ClusterFacts
  <2> QED
    BY <2>1 DEF Crash
<1>3. CWDCLUS' \in Dirs
  BY DEF Crash, Dirs
<1> QED
  BY <1>1, <1>2, <1>3, Forgotten

\* A FAT write fails, on a volume without open files.
LEMMA CommitFailsKept ==
  ASSUME FatSafe, NEW own \in Labels, NEW pos \in Places, Kept(own, pos), setup' = setup,
         CommitFails
  PROVE  \E o \in Labels, p \in Places : Kept(o, p)'
<1>1. /\ fat' = fat1 /\ FATDIRTY' = NONE /\ copy2' = 0 /\ UNCHANGED disk /\ op' = IdleOp
      /\ ~Untroubled /\ CWDCLUS' \in Dirs
  BY DEF CommitFails, Untroubled, Return, Kept, CwdLives
<1>2. Handles = {}
  BY DEF CommitFails, FatSafe, Handles
<1>3. slot' \in [Handles -> {Closed}]
  <2>1. \E h : slot' = slot \/ slot' = [slot EXCEPT ![h] = Closed]
    BY DEF CommitFails, Closing
  <2>2. slot' \in [Handles -> [inuse : BOOLEAN, startclus : Clusters \union {0},
                               dirloc : Loc \union {<<0, 0>>}, dirty : Clusters \union {0}]]
    BY <2>1, SlotCloses DEF Kept, Types
  <2> QED
    BY <1>2, <2>2
<1>4. ALLOC_HINT' \in 2 .. MAXCLUS
  <2>1. ALLOC_HINT \in 2 .. MAXCLUS /\ MAXCLUS \in Nat
    BY ClusterFacts DEF Kept, Types, TypeOK
  <2>2. op.pc = "free" => op.clus \in 2 .. MAXCLUS
    BY <2>1 DEF Kept, Layout, Doing, Freeing, Clusters
  <2> QED
    BY <2>1, <2>2 DEF CommitFails
<1> QED
  BY <1>1, <1>3, <1>4, Forgotten

-----------------------------------------------------------------------------
(* The volume at the start. *)

\* The clusters of the file on the volume, in rising order, are one chain.
LEMMA BootChain ==
  ASSUME NEW B, B \subseteq Clusters, NEW f \in Fats,
         \A c \in Clusters : c \notin B => f[c] = FREE,
         \A c \in B : \/ f[c] = EOC /\ \A e \in B : ~(e > c)
                      \/ f[c] \in B /\ f[c] > c /\ \A e \in B : e > c => f[c] <= e
  PROVE  \E pos \in Places :
           /\ \A c \in Clusters : f[c] \in Clusters =>
                /\ c \in B /\ f[c] \in B /\ pos[f[c]] = pos[c] + 1
                /\ \A d \in Clusters : f[d] = f[c] => d = c
           /\ \A c \in B : pos[c] > 0 => \E d \in Clusters : f[d] = c
           /\ \A c \in B : pos[c] = 0 <=> \A d \in B : c <= d
<1> DEFINE Below(c) == {d \in B : d < c}
           pos == [c \in Clusters |-> Cardinality(Below(c))]
<1>0. Clusters \subseteq Nat /\ B \subseteq Nat /\ FREE \notin Clusters /\ EOC \notin Clusters
  BY ClusterFacts
<1>1. ASSUME NEW c \in Clusters
      PROVE  IsFiniteSet(Below(c)) /\ Cardinality(Below(c)) \in Nat /\ pos[c] = Cardinality(Below(c))
  <2>1. Below(c) \subseteq Clusters
    OBVIOUS
  <2>2. pos[c] = Cardinality(Below(c))
    OBVIOUS
  <2> HIDE DEF Below, pos
  <2> QED
    BY <2>1, <2>2, ClusterCount, FS_Subset, FS_CardinalityType
<1>2. pos \in Places
  BY <1>1 DEF Places
<1> HIDE DEF pos
<1>3. ASSUME NEW c \in Clusters, f[c] \in Clusters
      PROVE  c \in B /\ f[c] \in B /\ f[c] > c /\ \A e \in B : e > c => f[c] <= e
  BY <1>0, <1>3
<1>4. ASSUME NEW c \in Clusters, f[c] \in Clusters
      PROVE  pos[f[c]] = pos[c] + 1
  <2>1. c \in Nat /\ f[c] \in Nat /\ c \in B
    BY <1>0, <1>3, <1>4
  <2>2. \A e \in B : e < f[c] <=> e < c \/ e = c
    BY <1>0, <1>3, <1>4, <2>1
  <2>3. Below(f[c]) = Below(c) \union {c}
    BY <2>1, <2>2
  <2>4. c \notin Below(c)
    BY <2>1
  <2> HIDE DEF Below
  <2>5. Cardinality(Below(c) \union {c}) = Cardinality(Below(c)) + 1
    BY <1>1, <2>4, FS_AddElement
  <2> QED
    BY <1>1, <1>4, <2>3, <2>5
<1>5. ASSUME NEW c \in Clusters, f[c] \in Clusters, NEW d \in Clusters, f[d] = f[c]
      PROVE  d = c
  <2>1. c \in B /\ d \in B /\ f[c] > c /\ f[c] > d
        /\ (d > c => f[c] <= d) /\ (c > d => f[c] <= c)
    BY <1>3, <1>5
  <2>2. c \in Nat /\ d \in Nat /\ f[c] \in Nat
    BY <1>0, <1>5
  <2> QED
    BY <2>1, <2>2
<1>6. ASSUME NEW c \in B PROVE Below(c) = {} <=> pos[c] = 0
  <2>1. IsFiniteSet(Below(c)) /\ pos[c] = Cardinality(Below(c))
    BY <1>1
  <2> HIDE DEF Below
  <2> QED
    BY <2>1, FS_EmptySet
<1>7. ASSUME NEW c \in B, pos[c] > 0 PROVE \E d \in Clusters : f[d] = c
  <2> DEFINE S == {c - d : d \in Below(c)}
  <2>1. Below(c) # {} /\ c \in Nat
    BY <1>0, <1>6, <1>7
  <2>2. S \subseteq Nat /\ S # {}
    <3>1. \A d \in Below(c) : c - d \in Nat
      BY <1>0, <2>1
    <3> HIDE DEF Below
    <3> QED
      BY <2>1, <3>1
  <2>3. PICK m \in S : \A k \in S : m <= k
    <3> HIDE DEF S
    <3> QED
      BY <2>2, Least
  <2>4. PICK d \in B : d < c /\ m = c - d
    BY <2>3
  <2>5. \A e \in B : e < c => c - d <= c - e
    BY <2>3, <2>4
  <2>6. f[d] \in B /\ f[d] > d /\ f[d] <= c
    BY <2>4
  <2>7. f[d] \in Nat /\ d \in Nat
    BY <1>0, <2>6
  <2>8. f[d] < c => c - d <= c - f[d]
    BY <2>5, <2>6
  <2>9. f[d] = c
    BY <2>1, <2>6, <2>7, <2>8
  <2> QED
    BY <2>4, <2>9
<1>8. ASSUME NEW c \in B PROVE pos[c] = 0 <=> \A d \in B : c <= d
  <2>1. \A d \in B : c <= d <=> ~(d < c)
    BY <1>0
  <2>2. Below(c) = {} <=> \A d \in B : c <= d
    BY <2>1
  <2> QED
    BY <1>6, <2>2
<1> QED
  BY <1>2, <1>3, <1>4, <1>5, <1>7, <1>8

\* What is known of a setup.
LEMMA SetupFacts ==
  ASSUME NEW s \in Setups
  PROVE  s.handles \subseteq Nat /\ s.boot \subseteq Clusters /\ (s.boot # {} => ROOTN > 0)
<1>1. s.handles \subseteq Nat
  BY SetupAssumption
<1>2. s.boot \subseteq Clusters
  BY SetupAssumption, SMTT(60)
<1>3. s.boot # {} => ROOTN > 0
  <2>1. ROOTN \in Nat
    BY VolumeAssumption
  <2>2. ROOTN = 0 => s.boot = {}
    BY BootAssumption
  <2> QED
    BY <2>1, <2>2
<1> QED
  BY <1>1, <1>2, <1>3

\* The invariant holds at the start.
LEMMA InitKept ==
  ASSUME Init
  PROVE  DosInv
<1>1. PICK B : B = setup.boot
  OBVIOUS
<1>2. setup \in Setups /\ B \subseteq Clusters /\ (B # {} => ROOTN > 0) /\ Handles \subseteq Nat
  <2>1. setup \in Setups
    BY DEF Init
  <2> QED
    BY <1>1, <2>1, SetupFacts DEF Handles
<1>3. /\ fat1 \in Fats /\ (\A c \in Clusters : fat1[c] # FREE <=> c \in B)
      /\ \A c \in B : \/ fat1[c] = EOC /\ \A e \in B : ~(e > c)
                      \/ fat1[c] \in B /\ fat1[c] > c /\ \A e \in B : e > c => fat1[c] <= e
  <2> DEFINE Later(c) == {d \in B : d > c}
             First(c) == CHOOSE d \in Later(c) : \A e \in Later(c) : d <= e
  <2>1. fat1 = [c \in Clusters |-> IF c \notin B THEN FREE
                                   ELSE IF Later(c) = {} THEN EOC ELSE First(c)]
    BY <1>1 DEF Init
  <2>2. ASSUME NEW c \in B, Later(c) # {}
        PROVE  First(c) \in B /\ First(c) > c /\ \A e \in B : e > c => First(c) <= e
    <3>1. Later(c) \subseteq Nat
      BY <1>2, ClusterFacts
    <3>2. \E d \in Later(c) : \A e \in Later(c) : d <= e
      <4> HIDE DEF Later
      <4> QED
        BY <2>2, <3>1, Least
    <3>3. First(c) \in Later(c) /\ \A e \in Later(c) : First(c) <= e
      BY <3>2
    <3> HIDE DEF First
    <3> QED
      BY <3>3
  <2> HIDE DEF First
  <2>3. \A c \in Clusters : fat1[c] = IF c \notin B THEN FREE
                                      ELSE IF Later(c) = {} THEN EOC ELSE First(c)
    BY <2>1
  <2>4. \A c \in Clusters : (fat1[c] # FREE <=> c \in B) /\ fat1[c] \in FatValue
    BY <1>2, <2>2, <2>3, ClusterFacts DEF FatValue
  <2>5. fat1 \in Fats
    BY <2>1, <2>4 DEF Fats
  <2> QED
    BY <1>2, <2>2, <2>3, <2>4, <2>5
<1>4. PICK pos \in Places :
        /\ \A c \in Clusters : fat1[c] \in Clusters =>
             /\ c \in B /\ fat1[c] \in B /\ pos[fat1[c]] = pos[c] + 1
             /\ \A d \in Clusters : fat1[d] = fat1[c] => d = c
        /\ \A c \in B : pos[c] > 0 => \E d \in Clusters : fat1[d] = c
        /\ \A c \in B : pos[c] = 0 <=> \A d \in B : c <= d
  <2>1. \A c \in Clusters : c \notin B => fat1[c] = FREE
    BY <1>3
  <2> QED
    BY <1>2, <1>3, <2>1, BootChain, ZenonT(60)
<1>5. PICK l : l = <<0, 1>>
  OBVIOUS
<1>6. l # NoLoc /\ l[1] = 0 /\ (B # {} => l \in Loc)
  <2>1. ROOTN \in Nat
    BY VolumeAssumption
  <2>2. B # {} => 1 \in 1 .. ROOTN
    BY <1>2, <2>1
  <2> QED
    BY <1>5, <2>2 DEF NoLoc, Loc
<1>7. PICK h : h = CHOOSE c \in B : \A d \in B : c <= d
  OBVIOUS
<1>8. B # {} => h \in B /\ \A d \in B : h <= d
  <2>1. ASSUME B # {} PROVE \E c \in B : \A d \in B : c <= d
    <3>1. B \subseteq Nat
      BY <1>2, ClusterFacts
    <3> QED
      BY <2>1, <3>1, Least
  <2> QED
    BY <1>7, <2>1
<1>9. PICK own \in Labels : own = [c \in Clusters |-> IF c \in B THEN l ELSE NoLoc]
  BY <1>6 DEF Labels
<1>10. \A c \in Clusters : own[c] = IF c \in B THEN l ELSE NoLoc
  BY <1>9
<1>11. ents = [m \in Loc |-> IF m # l \/ B = {} THEN Blank ELSE [kind |-> "file", clus |-> h]]
  BY <1>1, <1>5, <1>7 DEF Init
<1>12. \A m \in Loc : /\ m # l \/ B = {} => ents[m] = Blank
                      /\ m = l /\ B # {} => ents[m].kind = "file" /\ ents[m].clus = h
  BY <1>11
<1>13. Blank.kind = "free" /\ Blank.clus = 0
  BY DEF Blank
<1>14. /\ fat = fat1 /\ stale = {} /\ junk = Clusters /\ FATDIRTY = NONE /\ copy2 = 0
       /\ ALLOC_HINT = 2 /\ CWDCLUS = 0 /\ slot = [g \in Handles |-> Closed] /\ op = IdleOp
  BY DEF Init
<1>15. /\ op.pc = "idle" /\ op.then = "idle" /\ op \in OpType
  BY <1>14, ClusterFacts DEF IdleOp, OpType, NoLoc
<1>16. Types
  <2>1. fat1 \in [Clusters -> FatValue]
    BY <1>3 DEF Fats
  <2>2. ents \in [Loc -> [kind : {"free", "file", "dir"}, clus : Clusters \union {0}]]
    BY <1>2, <1>8, <1>11 DEF Blank
  <2>3. ALLOC_HINT \in 2 .. MAXCLUS
    BY <1>14, ClusterFacts
  <2>4. slot \in [Handles -> [inuse : BOOLEAN, startclus : Clusters \union {0},
                              dirloc : Loc \union {<<0, 0>>}, dirty : Clusters \union {0}]]
    BY <1>14 DEF Closed
  <2> QED
    BY <1>2, <1>14, <1>15, <2>1, <2>2, <2>3, <2>4 DEF Types, TypeOK
<1>17. CwdLives
  BY <1>14 DEF CwdLives, Dirs
<1>18. Linked(fat, own, pos) /\ Linked(fat1, own, pos)
  BY <1>3, <1>4, <1>10, <1>14 DEF Linked
<1>19. EntriesKept(own, pos)
  <2>1. B # {} => h \in Clusters /\ own[h] = l /\ pos[h] = 0 /\ fat1[h] # FREE
    BY <1>2, <1>3, <1>4, <1>8, <1>10
  <2> QED
    BY <1>6, <1>12, <1>13, <2>1 DEF EntriesKept
<1>20. OwnedKept(own, pos)
  <2>1. ASSUME NEW c \in Clusters, own[c] # NoLoc
        PROVE  c \in B /\ own[c] = l /\ ents[l].kind = "file" /\ ents[l].clus = h
    BY <1>6, <1>10, <1>12, <2>1
  <2>2. ASSUME NEW c \in B, pos[c] = 0 PROVE c = h
    <3>1. c <= h /\ h <= c
      BY <1>4, <1>8, <2>2
    <3>2. c \in Nat /\ h \in Nat
      BY <1>2, <1>8, ClusterFacts
    <3> QED
      BY <3>1, <3>2
  <2> QED
    BY <1>3, <1>4, <1>14, <2>1, <2>2 DEF OwnedKept, IsHead
<1>21. \A g \in Handles : slot[g] = Closed /\ ~slot[g].inuse
  BY <1>14 DEF Closed
<1>22. SlotsKept(own, pos)
  BY <1>21 DEF SlotsKept
<1>23. CacheKept /\ OrderKept
  BY <1>14 DEF CacheKept, OrderKept
<1>24. DirsKept(own, pos)
  BY <1>4, <1>6, <1>10, <1>14 DEF DirsKept, InDir
<1>25. Doing(own, pos)
  BY <1>15 DEF Doing, Extending, Taking, Entering, Freeing, Writing
<1>26. Leaks(own)
  BY <1>3, <1>6, <1>10, <1>14 DEF Leaks
<1>27. Kept(own, pos)
  BY <1>16, <1>17, <1>18, <1>19, <1>20, <1>22, <1>23, <1>24, <1>25, <1>26 DEF Kept, Layout
<1> QED
  BY <1>4, <1>27 DEF DosInv

\* Every step keeps the invariant.
LEMMA StepKept ==
  ASSUME FatSafe, DosInv, [Next]_vars
  PROVE  DosInv'
<1>1. PICK own \in Labels, pos \in Places : Kept(own, pos)
  BY DEF DosInv
<1>2. ASSUME UNCHANGED vars PROVE DosInv'
  <2>1. UNCHANGED <<disk, cache, slot, setup>> /\ op' = op /\ CWDCLUS' \in Dirs /\ op' \in OpType
    BY <1>1, <1>2 DEF vars, Kept, CwdLives, Types
  <2>2. OrderKept' /\ DirsKept(own, pos)' /\ Leaks(own)'
    BY <1>1, <2>1 DEF Kept, Layout, OrderKept, DirsKept, InDir, Leaks, Untroubled, Handles, disk, cache
  <2>3. Extending(own, pos)' /\ Taking(own)'
    BY <1>1, <2>1 DEF Kept, Layout, Doing, Extending, Taking, Fresh, LastIs, InDir, SlotFree,
       Handles, Dirs, disk, cache
  <2>4. Entering(own)'
    BY <1>1, <1>2 DEF Kept, Layout, Doing, Entering, SlotFree, Place, InDir, NotOpen, Handles,
       vars, disk
  <2>5. Freeing(own)' /\ Writing(own)'
    BY <1>1, <2>1 DEF Kept, Layout, Doing, Freeing, Writing, Emptied, SlotFree, NotOpen, LastIs,
       Handles, disk, cache
  <2>6. Doing(own, pos)'
    BY <2>3, <2>4, <2>5 DEF Doing
  <2>7. Kept(own, pos)'
    BY <1>1, <2>1, <2>2, <2>6, OpMoves
  <2> QED
    BY <2>7 DEF DosInv
<1>3. ASSUME Next PROVE DosInv'
  <2>1. setup' = setup
    BY <1>3 DEF Next
  <2>2. CASE Call
    BY <1>1, <2>1, <2>2, CallKept DEF DosInv
  <2>3. CASE FatCommit1 \/ FatCommit2
    BY <1>1, <2>1, <2>3, Commit1Kept, Commit2Kept DEF DosInv
  <2>4. CASE Look \/ FlushFails \/ FIND_FREE_DIRENT \/ ExtendDone \/ FreeDone
    BY <1>1, <2>1, <2>4, LookKept, FindKept, ExtendDoneKept, FreeDoneKept DEF DosInv
  <2>5. CASE ExtendAlloc \/ MkdirAlloc \/ LocateAlloc \/ ExtendZero \/ MkdirZero \/ FLUSH_SLOT
    BY <1>1, <2>1, <2>5, AllocKept, ZeroKept, FlushKept DEF DosInv
  <2>6. CASE LocateWalk \/ FREE_CHAIN \/ OpenInit \/ SyncEntry
    BY <1>1, <2>1, <2>6, WalkKept, FreeKept, OpenInitKept, SyncKept DEF DosInv
  <2>7. CASE LocateFirst \/ ExtendLink \/ LocateLink
    BY <1>1, <2>1, <2>7, FirstKept, LinkKept DEF DosInv
  <2>8. CASE MkdirEntry \/ KillEntry \/ OpenEntry
    BY <1>1, <2>1, <2>8, MkdirKept, ReleaseKept DEF DosInv
  <2>9. CASE EntryFails \/ Crash \/ CommitFails
    BY <1>1, <2>1, <2>9, EntryFailsKept, CrashKept, CommitFailsKept DEF DosInv
  <2> QED
    BY <1>3, <2>2, <2>3, <2>4, <2>5, <2>6, <2>7, <2>8, <2>9 DEF Next, Step
<1> QED
  BY <1>2, <1>3

-----------------------------------------------------------------------------
(* What the invariant says. *)

\* The invariant holds in every state of a volume on which FAT writes fail only
\* while no file can be open.
LEMMA SafeKept == Spec => [](FatSafe => DosInv)
<1>1. Init => (FatSafe => DosInv)
  BY InitKept
<1>2. (FatSafe => DosInv) /\ [Next]_vars => (FatSafe => DosInv)'
  <2>1. [Next]_vars => (FatSafe' <=> FatSafe)
    BY DEF FatSafe, Next, vars
  <2> QED
    BY <2>1, StepKept
<1> QED
  BY <1>1, <1>2, PTL DEF Spec

\* If all volumes are such, it holds in every state.
LEMMA SpecKept ==
  ASSUME Guarded
  PROVE  Spec => []DosInv
<1>1. Init => setup \in Setups
  BY DEF Init
<1>2. setup \in Setups /\ [Next]_vars => (setup \in Setups)'
  BY DEF Next, vars
<1>3. setup \in Setups => FatSafe
  BY DEF Guarded, FatSafe
<1> QED
  BY <1>1, <1>2, <1>3, SafeKept, PTL DEF Spec

(***************************************************************************)
(* The variables keep their types: FAT entries, directory entries, slots   *)
(* and the cached numbers stay in range, whatever fails.                   *)
(***************************************************************************)
THEOREM DosTypes ==
  ASSUME Guarded
  PROVE  Spec => []TypeOK
<1>1. DosInv => TypeOK
  BY DEF DosInv, Kept, Types
<1> QED
  BY <1>1, SpecKept, PTL

\* In the labelled volume the disk is sound.
LEMMA KeptIsSound ==
  ASSUME NEW own \in Labels, NEW pos \in Places, Kept(own, pos)
  PROVE  DiskSound
<1>1. EntriesKept(own, pos) /\ Linked(fat1, own, pos) /\ OwnedKept(own, pos)
  BY DEF Kept, Layout
<1>2. /\ \A l \in Loc : ents[l].clus # 0 => ents[l].clus \in Clusters
      /\ \A c \in Clusters : pos[c] + 1 # 0
  BY DEF Kept, Types, TypeOK, Places
<1>3. OneOwner
  <2>1. ASSUME NEW l \in Loc, ents[l].clus # 0
        PROVE  /\ \A m \in Loc \ {l} : ents[m].clus # ents[l].clus
               /\ \A c \in Clusters : fat1[c] # ents[l].clus
    BY <1>1, <1>2, <2>1 DEF EntriesKept, Linked
  <2>2. ASSUME NEW c \in Clusters, fat1[c] \in Clusters
        PROVE  \A d \in Clusters \ {c} : fat1[d] # fat1[c]
    BY <1>1, <2>2 DEF Linked
  <2> QED
    BY <2>1, <2>2 DEF OneOwner
<1>4. NamedAllocated
  BY <1>1 DEF NamedAllocated, EntriesKept, Linked
<1>5. DirReadable
  <2>1. ASSUME NEW l \in Loc, ents[l].kind = "dir"
        PROVE  Chain(fat1, ents[l].clus) \intersect junk = {}
    <3> DEFINE x == ents[l].clus
    <3>1. x # 0 /\ x \in Dirs
      BY <1>1, <2>1 DEF EntriesKept, Dirs
    <3>2. \E m \in Loc : /\ ents[m].kind = "dir" /\ ents[m].clus = x
                         /\ \A c \in Chain(fat1, x) : own[c] = m
      BY <3>1, DirWithin
    <3>3. Chain(fat1, x) \subseteq Clusters
      BY DEF Chain
    <3> QED
      BY <1>1, <3>2, <3>3, ClusterFacts, ZenonT(90) DEF OwnedKept
  <2> QED
    BY <2>1 DEF DirReadable
<1>6. CwdLives
  BY DEF Kept
<1> QED
  BY <1>3, <1>4, <1>5, <1>6 DEF DiskSound

(***************************************************************************)
(* On disk at every moment, so wherever the power fails: no cluster is     *)
(* shared, what an entry or a link names is in use, every cluster of a     *)
(* directory holds entries, and the current directory exists.              *)
(***************************************************************************)
THEOREM DosDiskSound ==
  ASSUME Guarded
  PROVE  Spec => []DiskSound
<1>1. DosInv => DiskSound
  BY KeptIsSound DEF DosInv
<1> QED
  BY <1>1, SpecKept, PTL

\* The chain of an open file is the clusters of its entry.
LEMMA SlotChain ==
  ASSUME NEW own \in Labels, NEW pos \in Places, Kept(own, pos),
         NEW h \in Handles, slot[h].inuse
  PROVE  Chain(fat, slot[h].startclus) =
           IF slot[h].startclus = 0 THEN {} ELSE {c \in Clusters : own[c] = slot[h].dirloc}
<1>1. fat \in Fats /\ Linked(fat, own, pos)
  BY DEF Kept, Types, TypeOK, Layout, Fats
<1>2. CASE slot[h].startclus = 0
  BY <1>1, <1>2, ChainEmpty
<1>3. CASE slot[h].startclus # 0
  <2>1. Headed(fat, own, pos, slot[h].dirloc, slot[h].startclus)
    BY <1>3, SlotHead
  <2> QED
    BY <1>1, <1>3, <2>1, ChainIs
<1> QED
  BY <1>2, <1>3

\* In the labelled volume open files are apart.
LEMMA KeptIsApart ==
  ASSUME NEW own \in Labels, NEW pos \in Places, Kept(own, pos)
  PROVE  OpenFilesApart
<1>1. SUFFICES ASSUME NEW h \in Handles, slot[h].inuse
               PROVE  /\ \A c \in Chain(fat, slot[h].startclus) : fat[c] # FREE
                      /\ \A g \in Handles \ {h} : slot[g].inuse =>
                           Chain(fat, slot[h].startclus) \intersect Chain(fat, slot[g].startclus) = {}
                      /\ slot[h].dirty # 0 => slot[h].dirty \in Chain(fat, slot[h].startclus)
  BY DEF OpenFilesApart
<1>2. /\ SlotsKept(own, pos) /\ OwnedKept(own, pos) /\ Linked(fat, own, pos)
      /\ slot[h].dirloc # NoLoc /\ slot[h].dirty \in Clusters \union {0}
  BY <1>1, ClusterFacts DEF Kept, Types, TypeOK, Layout, SlotsKept
<1>3. Chain(fat, slot[h].startclus) \subseteq {c \in Clusters : own[c] = slot[h].dirloc}
  BY <1>1, SlotChain
<1>4. \A c \in Chain(fat, slot[h].startclus) : fat[c] # FREE
  BY <1>2, <1>3 DEF OwnedKept
<1>5. ASSUME NEW g \in Handles \ {h}, slot[g].inuse
      PROVE  Chain(fat, slot[h].startclus) \intersect Chain(fat, slot[g].startclus) = {}
  <2>1. Chain(fat, slot[g].startclus) \subseteq {c \in Clusters : own[c] = slot[g].dirloc}
    BY <1>5, SlotChain
  <2>2. slot[g].dirloc # slot[h].dirloc
    BY <1>1, <1>2, <1>5 DEF SlotsKept
  <2> QED
    BY <1>3, <2>1, <2>2
<1>6. ASSUME slot[h].dirty # 0 PROVE slot[h].dirty \in Chain(fat, slot[h].startclus)
  <2> DEFINE x == slot[h].dirty
             l == slot[h].dirloc
  <2>1. x \in Clusters /\ own[x] = l
    BY <1>1, <1>2, <1>6 DEF SlotsKept
  <2>2. PICK c \in Clusters : own[c] = l /\ pos[c] = 0
    BY <1>2, <2>1, OwnerHasHead
  <2>3. IsHead(own, c) /\ c # 0
    BY <1>2, <2>2, ClusterFacts DEF OwnedKept
  <2>4. slot[h].startclus # 0
    BY <1>1, <1>2, <2>2, <2>3 DEF IsHead, SlotsKept
  <2>5. Chain(fat, slot[h].startclus) = {d \in Clusters : own[d] = l}
    BY <1>1, <2>4, SlotChain
  <2> QED
    BY <2>1, <2>5
<1> QED
  BY <1>4, <1>5, <1>6

(***************************************************************************)
(* Two open files never have a cluster in common, no cluster of an open    *)
(* file can be handed out again, and the buffered sector of a slot belongs *)
(* to its file.                                                            *)
(***************************************************************************)
THEOREM DosOpenFilesApart ==
  ASSUME Guarded
  PROVE  Spec => []OpenFilesApart
<1>1. DosInv => OpenFilesApart
  BY KeptIsApart DEF DosInv
<1> QED
  BY <1>1, SpecKept, PTL

\* In the labelled volume nothing leaks.
LEMMA KeptHasNoLeak ==
  ASSUME NEW own \in Labels, NEW pos \in Places, Kept(own, pos)
  PROVE  NoLeak
<1>1. SUFFICES ASSUME AllClosed, Untroubled, NEW c \in Clusters, fat1[c] # FREE
               PROVE  \E l \in Loc : c \in Chain(fat1, ents[l].clus)
  BY DEF NoLeak
<1>2. /\ op.pc = "idle" /\ \A h \in Handles : ~slot[h].inuse
      /\ Leaks(own) /\ OwnedKept(own, pos) /\ Linked(fat, own, pos) /\ fat \in Fats
  BY <1>1 DEF AllClosed, Kept, Types, TypeOK, Layout, Fats
<1>3. fat1 = fat
  BY <1>1, <1>2 DEF Leaks, Kept, Layout, CacheKept
<1>4. own[c] # NoLoc /\ own[c] \in Loc
  BY <1>1, <1>2, <1>3 DEF Leaks, Labels
<1>5. PICK h \in Clusters : own[h] = own[c] /\ pos[h] = 0
  BY <1>2, <1>4, OwnerHasHead
<1>6. h = ents[own[c]].clus /\ h # 0
  BY <1>2, <1>4, <1>5, ClusterFacts DEF OwnedKept, IsHead
<1>7. Headed(fat, own, pos, own[c], ents[own[c]].clus)
  BY <1>4, <1>6, EntryHead
<1>8. Chain(fat, ents[own[c]].clus) = {d \in Clusters : own[d] = own[c]}
  BY <1>2, <1>7, ChainIs
<1> QED
  BY <1>3, <1>4, <1>8

(***************************************************************************)
(* Without crashes and errors, when every file is closed, each used        *)
(* cluster belongs to a live file or directory on disk: no call leaks one. *)
(***************************************************************************)
THEOREM DosNoLeak == Spec => []NoLeak
<1>1. DosInv => NoLeak
  BY KeptHasNoLeak DEF DosInv
<1>2. ~FatSafe => NoLeak
  BY DEF FatSafe, NoLeak, Untroubled
<1> QED
  BY <1>1, <1>2, SafeKept, PTL

-----------------------------------------------------------------------------
(* What is on disk stays. *)

\* Only a commit writes the FAT, and only four steps change an entry.
LEMMA DiskChanges ==
  ASSUME NEW own \in Labels, NEW pos \in Places, Kept(own, pos), Next
  PROVE  \/ fat1' = fat1 /\ ents' = ents
         \/ FatCommit1 \/ MkdirEntry \/ KillEntry \/ OpenEntry \/ SyncEntry
<1>1. CASE Call
  BY <1>1, Zenon DEF Call, DOS_STAT, DOS_CHDIR, DOS_MKDIR, OpenCreate, DOS_KILL, DOS_RMDIR,
     OpenTruncate, OpenKeep, FILE_WRITE, SYNC_SLOT, DOS_EXIT, disk
<1>2. CASE FatCommit2 \/ Look \/ FIND_FREE_DIRENT \/ ExtendAlloc \/ ExtendLink \/ ExtendDone
  BY <1>2 DEF FatCommit2, Look, FIND_FREE_DIRENT, ExtendAlloc, ExtendLink, ExtendDone, disk
<1>3. CASE OpenInit \/ FREE_CHAIN \/ FreeDone \/ MkdirAlloc
  BY <1>3 DEF OpenInit, FREE_CHAIN, FreeDone, MkdirAlloc, disk
<1>4. CASE LocateWalk \/ LocateFirst \/ LocateAlloc \/ LocateLink
  BY <1>4 DEF LocateWalk, LocateFirst, LocateAlloc, LocateLink, disk
<1>5. CASE Crash \/ CommitFails \/ EntryFails \/ FlushFails
  BY <1>5 DEF Crash, CommitFails, EntryFails, FlushFails, disk
<1>6. CASE ExtendZero \/ MkdirZero
  <2>1. /\ ents' = [l \in Loc |-> IF l[1] = op.clus THEN Blank ELSE ents[l]] /\ fat1' = fat1
        /\ op.pc \in {"x_zero", "m_zero"}
    BY <1>6, ReadyMeans DEF ExtendZero, MkdirZero, ZERO_CLUSTER
  <2>2. op.clus \in Clusters /\ ~InDir(own, op.clus)
    BY <2>1 DEF Kept, Layout, Doing, Taking, Fresh, InDir
  <2> QED
    BY <2>1, <2>2, NoEntriesThere
<1>7. CASE FLUSH_SLOT
  <2> DEFINE x == slot[op.h].dirty
  <2>1. /\ ents' = [l \in Loc |-> IF l[1] = x THEN Blank ELSE ents[l]] /\ fat1' = fat1
        /\ op.pc = "flush"
    BY <1>7, ReadyMeans DEF FLUSH_SLOT, WriteData
  <2>2. op.h \in Handles /\ slot[op.h].inuse /\ x # 0 /\ x \in Clusters
    BY <2>1 DEF Kept, Types, TypeOK, Layout, Doing, Writing
  <2>3. ~InDir(own, x)
    BY <2>2 DEF Kept, Layout, SlotsKept, InDir
  <2> HIDE DEF x
  <2> QED
    BY <2>1, <2>2, <2>3, NoEntriesThere
<1> QED
  BY <1>1, <1>2, <1>3, <1>4, <1>5, <1>6, <1>7, Zenon DEF Next, Step

\* What the FAT on disk puts in the chain of an entry, DOS's FAT does too.
LEMMA DiskChainWithin ==
  ASSUME NEW own \in Labels, NEW pos \in Places, Kept(own, pos), NEW l \in Loc
  PROVE  Chain(fat1, ents[l].clus) \subseteq Chain(fat, ents[l].clus)
<1>1. /\ fat \in Fats /\ fat1 \in Fats /\ Linked(fat, own, pos) /\ Linked(fat1, own, pos)
      /\ ents[l].clus \in Clusters \union {0}
  BY DEF Kept, Types, TypeOK, Layout, Fats
<1>2. CASE ents[l].clus = 0
  BY <1>1, <1>2, ChainEmpty
<1>3. CASE ents[l].clus # 0
  <2> DEFINE S == {c \in Clusters : own[c] = l}
             x == ents[l].clus
  <2>1. Chain(fat, x) = S
    <3>1. Headed(fat, own, pos, l, x)
      BY <1>3, EntryHead
    <3> QED
      BY <1>1, <3>1, ChainIs
  <2>2. x \in FatValue /\ x \in S
    BY <1>1, <1>3 DEF Kept, Layout, EntriesKept, FatValue
  <2>3. \A y \in Clusters : y \in S /\ fat1[y] \in Clusters => fat1[y] \in S
    BY <1>1 DEF Linked
  <2>4. Chain(fat1, x) \subseteq S
    <3> HIDE DEF S, x
    <3> QED
      BY <1>1, <2>2, <2>3, ChainWithin
  <2> QED
    BY <2>1, <2>4
<1> QED
  BY <1>2, <1>3

\* A flush that succeeds has every link of the file on disk; its entry keeps what it had.
LEMMA SyncKeepsAll ==
  ASSUME NEW own \in Labels, NEW pos \in Places, Kept(own, pos), SyncEntry
  PROVE  LET m == slot[op.h].dirloc
             s == slot[op.h].startclus
         IN  /\ m \in Loc /\ ents[m].kind = "file" /\ ents[m].clus \in {0, s}
             /\ fat1' = fat1 /\ fat1' = fat /\ ents'[m] = [ents[m] EXCEPT !.clus = s]
             /\ \A l \in Loc : l # m => ents'[l] = ents[l]
<1> DEFINE m == slot[op.h].dirloc
           s == slot[op.h].startclus
<1>0. ents \in [Loc -> [kind : {"free", "file", "dir"}, clus : Clusters \union {0}]]
  BY DEF Kept, Types, TypeOK
<1>1. /\ fat1' = fat1 /\ op.pc = "s_entry" /\ FATDIRTY = NONE
      /\ ents' = [ents EXCEPT ![m].clus = s]
  BY ReadyMeans DEF SyncEntry, CommitPoints
<1>2. fat1' = fat
  BY <1>1 DEF Kept, Layout, CacheKept
<1>3. op.h \in Handles /\ slot[op.h].inuse
  BY <1>1 DEF Kept, Layout, Doing, Writing
<1>4. m \in Loc /\ ents[m].kind = "file" /\ ents[m].clus \in {0, s}
  BY <1>3 DEF Kept, Layout, SlotsKept
<1>5. ents'[m] = [ents[m] EXCEPT !.clus = s] /\ \A l \in Loc : l # m => ents'[l] = ents[l]
  <2> HIDE DEF m, s
  <2> QED
    BY <1>0, <1>1, <1>4
<1> QED
  BY <1>1, <1>2, <1>4, <1>5

\* So it leaves the entry with the chain the open file had.
LEMMA SyncNamesAll ==
  ASSUME NEW own \in Labels, NEW pos \in Places, Kept(own, pos), SyncEntry
  PROVE  Chain(fat1', ents'[slot[op.h].dirloc].clus) = Chain(fat, slot[op.h].startclus)
<1> DEFINE m == slot[op.h].dirloc
           s == slot[op.h].startclus
<1>1. /\ m \in Loc /\ fat1' = fat /\ ents'[m] = [ents[m] EXCEPT !.clus = s]
  BY SyncKeepsAll
<1>2. ents[m] \in [kind : {"free", "file", "dir"}, clus : Clusters \union {0}]
  BY <1>1 DEF Kept, Types, TypeOK
<1> HIDE DEF m, s
<1>3. ents'[m].clus = s
  BY <1>1, <1>2
<1> QED
  BY <1>1, <1>3 DEF m, s

\* A step takes no cluster away from a file on disk.
LEMMA StepIsDurable ==
  ASSUME NEW own \in Labels, NEW pos \in Places, Kept(own, pos), Next
  PROVE  \A l \in Loc :
           ents[l].kind = "file" /\ ~(op.loc = l /\ op.pc \in {"o_entry", "k_entry"}) =>
             /\ ents'[l].kind = "file"
             /\ Chain(fat1, ents[l].clus) \subseteq Chain(fat1', ents'[l].clus)
<1>0. ents \in [Loc -> [kind : {"free", "file", "dir"}, clus : Clusters \union {0}]]
  BY DEF Kept, Types, TypeOK
<1>1. CASE fat1' = fat1 /\ ents' = ents
  BY <1>1
<1>2. CASE FatCommit1
  <2>1. fat1' = fat /\ ents' = ents
    <3>1. /\ fat1' = [c \in Clusters |-> IF Sec(c) = FATDIRTY THEN fat[c] ELSE fat1[c]]
          /\ ents' = ents
      BY <1>2 DEF FatCommit1
    <3>2. fat \in [Clusters -> FatValue]
      BY DEF Kept, Types, TypeOK
    <3>3. \A c \in Clusters : (IF Sec(c) = FATDIRTY THEN fat[c] ELSE fat1[c]) = fat[c]
      BY DEF Kept, Layout, CacheKept
    <3> QED
      BY <3>1, <3>2, <3>3
  <2> QED
    BY <2>1, DiskChainWithin
<1>3. CASE MkdirEntry
  <2>1. /\ fat1' = fat1 /\ ents' = [ents EXCEPT ![op.loc] = [kind |-> "dir", clus |-> op.clus]]
        /\ op.pc = "m_entry"
    BY <1>3, ReadyMeans DEF MkdirEntry
  <2>2. op.loc \in Loc /\ ents[op.loc].kind = "free"
    BY <2>1 DEF Kept, Layout, Doing, Entering, Place, Blank
  <2>3. \A l \in Loc : l # op.loc => ents'[l] = ents[l]
    BY <1>0, <2>1
  <2> QED
    BY <2>1, <2>2, <2>3
<1>4. CASE KillEntry \/ OpenEntry
  <2>1. /\ fat1' = fat1 /\ op.pc \in {"k_entry", "o_entry"}
        /\ \A l \in Loc : l # op.loc => ents'[l] = ents[l]
    BY <1>0, <1>4, ReadyMeans DEF KillEntry, OpenEntry
  <2> QED
    BY <2>1
<1>5. CASE SyncEntry
  <2> DEFINE m == slot[op.h].dirloc
             s == slot[op.h].startclus
  <2>1. /\ m \in Loc /\ ents[m].clus \in {0, s} /\ ents[m].kind = "file"
        /\ fat1' = fat1 /\ ents'[m] = [ents[m] EXCEPT !.clus = s]
        /\ \A l \in Loc : l # m => ents'[l] = ents[l]
    BY <1>5, SyncKeepsAll
  <2>2. Chain(fat1, 0) = {}
    <3>1. fat1 \in Fats
      BY DEF Kept, Types, TypeOK, Fats
    <3> QED
      BY <3>1, ChainEmpty
  <2>3. ents[m] \in [kind : {"free", "file", "dir"}, clus : Clusters \union {0}]
    BY <1>0, <2>1
  <2> HIDE DEF m, s
  <2>4. ents'[m].kind = "file" /\ ents'[m].clus = s
    BY <2>1, <2>3
  <2>5. Chain(fat1, ents[m].clus) \subseteq Chain(fat1', ents'[m].clus)
    BY <2>1, <2>2, <2>4
  <2> QED
    BY <2>1, <2>4, <2>5
<1> QED
  BY <1>1, <1>2, <1>3, <1>4, <1>5, DiskChanges

(***************************************************************************)
(* What DOS_FFLUSH or DOS_CLOSE has put in a file stays in it until the    *)
(* file itself is deleted or truncated, across later calls, crashes and    *)
(* reboots: a SYNC_SLOT that succeeds leaves the file's entry, on disk,    *)
(* with all the clusters of the open file, also where the entry itself     *)
(* stays as it was, and no other step takes one away.                      *)
(***************************************************************************)
THEOREM DosDurable ==
  ASSUME Guarded
  PROVE  Spec => Durable
<1> DEFINE Stays ==
      /\ SyncEntry =>
           Chain(fat1', ents'[slot[op.h].dirloc].clus) = Chain(fat, slot[op.h].startclus)
      /\ \A l \in Loc :
           ents[l].kind = "file" /\ ~(op.loc = l /\ op.pc \in {"o_entry", "k_entry"}) =>
             /\ ents'[l].kind = "file"
             /\ Chain(fat1, ents[l].clus) \subseteq Chain(fat1', ents'[l].clus)
<1>1. DosInv /\ Next => Stays
  BY StepIsDurable, SyncNamesAll DEF DosInv
<1>2. DosInv /\ [Next]_vars => [Stays]_vars
  <2> HIDE DEF Stays
  <2> QED
    BY <1>1
<1>3. Spec => [][Stays]_vars
  <2> HIDE DEF Stays
  <2> QED
    BY <1>2, SpecKept, PTL DEF Spec
<1> QED
  BY <1>3 DEF Durable
=============================================================================
