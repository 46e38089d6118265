----------------------------- MODULE L2CacheProofs -----------------------------
(***************************************************************************)
(* A slice of the L2 data cache answers no request twice, leaves no MSHR   *)
(* that nothing wakes, tries no request again that it has sent, and (with  *)
(* whole lines) makes no line valid with the data of another block, in any *)
(* configuration, for any requests and any order of the answers of memory. *)
(***************************************************************************)
EXTENDS L2Cache, FiniteSetTheorems, SequenceTheorems, WellFoundedInduction, TLAPS

(* A request that joins a queue.                                           *)
LEMMA AppendOnce ==
  ASSUME NEW S, NEW T, NEW q \in Seq(S), NEW x \in S
  PROVE  /\ Append(q, x) \in Seq(S) /\ Append(q, x) # <<>>
         /\ ToSet(Append(q, x)) = ToSet(q) \cup {x}
         /\ Once(q, T) /\ (x \in T => x \notin ToSet(q)) => Once(Append(q, x), T)
<1> DEFINE a == Append(q, x)
<1>1. /\ a \in Seq(S) /\ a # <<>> /\ Len(q) \in Nat /\ Len(a) = Len(q) + 1
      /\ DOMAIN a = 1 .. Len(q) + 1 /\ DOMAIN q = 1 .. Len(q)
      /\ a[Len(q) + 1] = x /\ \A i \in 1 .. Len(q) : a[i] = q[i]
  OBVIOUS
<1> HIDE DEF a
<1>2. ToSet(a) = ToSet(q) \cup {x}
  BY <1>1 DEF ToSet
<1>3. Once(q, T) /\ (x \in T => x \notin ToSet(q)) => Once(a, T)
  BY <1>1 DEF ToSet, Once
<1>4. QED
  BY <1>1, <1>2, <1>3 DEF a

(* The head that leaves a queue.                                           *)
LEMMA TailOnce ==
  ASSUME NEW S, NEW T, NEW q \in Seq(S), q # <<>>
  PROVE  /\ Tail(q) \in Seq(S) /\ Head(q) \in S /\ Head(q) \in ToSet(q)
         /\ ToSet(q) = {Head(q)} \cup ToSet(Tail(q))
         /\ Once(q, T) => /\ Once(Tail(q), T)
                          /\ Head(q) \in T => Head(q) \notin ToSet(Tail(q))
<1> DEFINE a == Tail(q)
           h == Head(q)
<1>1. /\ a \in Seq(S) /\ h \in S /\ Len(q) \in Nat /\ Len(q) > 0 /\ Len(a) = Len(q) - 1
      /\ DOMAIN a = 1 .. Len(q) - 1 /\ DOMAIN q = 1 .. Len(q)
      /\ h = q[1] /\ \A i \in 1 .. Len(q) - 1 : a[i] = q[i + 1]
  OBVIOUS
<1> HIDE DEF a, h
<1>2. \A i \in 1 .. Len(q) : i = 1 \/ (i - 1 \in DOMAIN a /\ q[i] = a[i - 1])
  BY <1>1
<1>3. ToSet(q) = {h} \cup ToSet(a) /\ h \in ToSet(q)
  <2>1. \A i \in DOMAIN a : i + 1 \in DOMAIN q /\ a[i] = q[i + 1]
    BY <1>1
  <2>2. 1 \in DOMAIN q /\ h = q[1]
    BY <1>1
  <2>3. \A i \in DOMAIN q : q[i] = h \/ \E j \in DOMAIN a : q[i] = a[j]
    BY <1>1, <1>2
  <2>4. QED
    BY <2>1, <2>2, <2>3 DEF ToSet
<1>4. ASSUME Once(q, T) PROVE Once(a, T) /\ (h \in T => h \notin ToSet(a))
  <2>1. \A i, j \in DOMAIN a : /\ i + 1 \in DOMAIN q /\ j + 1 \in DOMAIN q
                               /\ a[i] = q[i + 1] /\ a[j] = q[j + 1]
                               /\ (i + 1 = j + 1 => i = j) /\ i + 1 # 1 /\ 1 \in DOMAIN q
    BY <1>1
  <2>2. QED
    BY <1>1, <1>4, <2>1 DEF Once, ToSet
<1>5. QED
  BY <1>1, <1>3, <1>4 DEF a, h

(* Requests of another kind that join a queue together.                    *)
LEMMA ConcatOnce ==
  ASSUME NEW S, NEW T, NEW q \in Seq(S), NEW b \in Seq(S), ToSet(b) \cap T = {}
  PROVE  /\ q \o b \in Seq(S) /\ ToSet(q \o b) = ToSet(q) \cup ToSet(b)
         /\ Once(q, T) => Once(q \o b, T)
<1> DEFINE a == q \o b
<1>1. /\ a \in Seq(S) /\ Len(q) \in Nat /\ Len(b) \in Nat
      /\ DOMAIN a = 1 .. Len(q) + Len(b) /\ DOMAIN q = 1 .. Len(q) /\ DOMAIN b = 1 .. Len(b)
      /\ \A i \in DOMAIN a : a[i] = IF i <= Len(q) THEN q[i] ELSE b[i - Len(q)]
  OBVIOUS
<1> HIDE DEF a
<1>2. \A i \in DOMAIN a : \/ i \in DOMAIN q /\ a[i] = q[i]
                          \/ i - Len(q) \in DOMAIN b /\ a[i] = b[i - Len(q)]
  BY <1>1
<1>3. /\ \A i \in DOMAIN q : i \in DOMAIN a /\ a[i] = q[i]
      /\ \A i \in DOMAIN b : i + Len(q) \in DOMAIN a /\ a[i + Len(q)] = b[i]
  <2>1. ASSUME NEW i \in DOMAIN q PROVE i \in DOMAIN a /\ a[i] = q[i]
    BY <1>1
  <2>2. ASSUME NEW i \in DOMAIN b
        PROVE  i + Len(q) \in DOMAIN a /\ a[i + Len(q)] = b[i]
    <3>1. /\ i + Len(q) \in DOMAIN a /\ ~(i + Len(q) <= Len(q)) /\ i + Len(q) - Len(q) = i
      BY <1>1
    <3>2. QED
      BY <1>1, <3>1
  <2>3. QED
    BY <2>1, <2>2
<1>4. ToSet(a) = ToSet(q) \cup ToSet(b)
  BY <1>2, <1>3 DEF ToSet
<1>5. Once(q, T) => Once(a, T)
  BY <1>2 DEF Once, ToSet
<1>6. QED
  BY <1>1, <1>4, <1>5 DEF a

(* The answer of memory that leaves a queue from anywhere.                 *)
LEMMA RemoveOnce ==
  ASSUME NEW S, NEW T, NEW q \in Seq(S), NEW i \in DOMAIN q
  PROVE  /\ RemoveAt(q, i) \in Seq(S) /\ q[i] \in S /\ q[i] \in ToSet(q)
         /\ ToSet(q) = {q[i]} \cup ToSet(RemoveAt(q, i))
         /\ Once(q, T) => /\ Once(RemoveAt(q, i), T)
                          /\ q[i] \in T => q[i] \notin ToSet(RemoveAt(q, i))
<1> DEFINE b == SubSeq(q, 1, i - 1)
           c == SubSeq(q, i + 1, Len(q))
           a == b \o c
<1>1. /\ Len(q) \in Nat /\ i \in 1 .. Len(q) /\ DOMAIN q = 1 .. Len(q)
      /\ \A j \in DOMAIN q : q[j] \in S
  OBVIOUS
<1>2. /\ b \in Seq(S) /\ Len(b) = i - 1 /\ \A j \in 1 .. i - 1 : b[j] = q[j]
  BY <1>1
<1>3. /\ c \in Seq(S) /\ Len(c) = Len(q) - i /\ \A j \in 1 .. Len(q) - i : c[j] = q[i + j]
  BY <1>1
<1> HIDE DEF b, c
<1>4. /\ a \in Seq(S) /\ Len(a) = Len(b) + Len(c) /\ DOMAIN a = 1 .. Len(b) + Len(c)
      /\ \A j \in DOMAIN a : a[j] = IF j <= Len(b) THEN b[j] ELSE c[j - Len(b)]
  <2>1. b \in Seq(S) /\ c \in Seq(S)
    BY <1>2, <1>3
  <2>2. QED
    BY <2>1, ConcatProperties
<1> HIDE DEF a
<1>5. ASSUME NEW j \in DOMAIN a
      PROVE  a[j] = IF j < i THEN q[j] ELSE q[j + 1]
  <2>1. CASE j < i
    BY <1>1, <1>2, <1>3, <1>4, <2>1
  <2>2. CASE ~(j < i)
    <3>1. ~(j <= Len(b)) /\ j - Len(b) \in 1 .. Len(q) - i /\ i + (j - Len(b)) = j + 1
      BY <1>1, <1>2, <1>3, <1>4, <2>2
    <3>2. QED
      BY <1>3, <1>4, <2>2, <3>1
  <2>3. QED
    BY <2>1, <2>2
<1>6. DOMAIN a = 1 .. Len(q) - 1
  BY <1>1, <1>2, <1>3, <1>4
<1>7. \A j \in DOMAIN q : \/ j = i
                          \/ j \in DOMAIN a /\ a[j] = q[j]
                          \/ j - 1 \in DOMAIN a /\ a[j - 1] = q[j]
  BY <1>1, <1>5, <1>6
<1>8. \A j \in DOMAIN a : \E n \in DOMAIN q : n # i /\ a[j] = q[n]
  <2> TAKE j \in DOMAIN a
  <2>1. /\ j \in DOMAIN q /\ j + 1 \in DOMAIN q
        /\ \/ j # i /\ a[j] = q[j]
           \/ j + 1 # i /\ a[j] = q[j + 1]
    BY <1>1, <1>5, <1>6
  <2>2. QED
    BY <2>1
<1>9. ToSet(q) = {q[i]} \cup ToSet(a)
  BY <1>1, <1>7, <1>8 DEF ToSet
<1>10. ASSUME Once(q, T) PROVE Once(a, T) /\ (q[i] \in T => q[i] \notin ToSet(a))
  <2>1. q[i] \in T => q[i] \notin ToSet(a)
    BY <1>8, <1>10 DEF Once, ToSet
  <2>2. ASSUME NEW j \in DOMAIN a, NEW m \in DOMAIN a, a[j] = a[m], a[j] \in T
        PROVE  j = m
    BY <1>1, <1>5, <1>6, <1>10, <2>2 DEF Once
  <2>3. QED
    BY <2>1, <2>2 DEF Once
<1>11. RemoveAt(q, i) = a
  BY DEF RemoveAt, a, b, c
<1>12. q[i] \in ToSet(q)
  BY DEF ToSet
<1>13. QED
  BY <1>1, <1>4, <1>9, <1>10, <1>11, <1>12
-----------------------------------------------------------------------------
(* MshrTable::add: the access is the last of its entry, and of no other.   *)
LEMMA MergeTable ==
  ASSUME TypeOK, NoneHeldTwice(mshr),
         NEW k \in Keys, NEW f \in Fetches, f \notin Held(mshr)
  PROVE  /\ DOMAIN Merge(k, f) = DOMAIN mshr \cup {k}
         /\ \A l \in DOMAIN Merge(k, f) :
              Merge(k, f)[l] \in Seq(Fetches) /\ Merge(k, f)[l] # <<>>
         /\ Held(Merge(k, f)) = Held(mshr) \cup {f}
         /\ NoneHeldTwice(Merge(k, f))
<1> DEFINE g == Merge(k, f)
           q == IF k \in DOMAIN mshr THEN mshr[k] ELSE <<>>
<1>1. \A l \in DOMAIN mshr : mshr[l] \in Seq(Fetches) /\ mshr[l] # <<>>
  BY DEF TypeOK
<1>2. q \in Seq(Fetches)
  BY <1>1
<1>3. /\ DOMAIN g = DOMAIN mshr \cup {k} /\ g[k] = Append(q, f)
      /\ \A l \in DOMAIN mshr : l # k => g[l] = mshr[l]
  <2>1. CASE k \in DOMAIN mshr
    BY <2>1 DEF Merge
  <2>2. CASE k \notin DOMAIN mshr
    <3>1. g = [j \in DOMAIN mshr \cup {k} |-> IF j = k THEN <<f>> ELSE mshr[j]]
      BY <2>2 DEF Merge
    <3>2. Append(q, f) = <<f>>
      BY <2>2
    <3>3. QED
      BY <2>2, <3>1, <3>2
  <2>3. QED
    BY <2>1, <2>2
<1> HIDE DEF g
<1>4. /\ g[k] \in Seq(Fetches) /\ g[k] # <<>>
      /\ DOMAIN g[k] = 1 .. Len(q) + 1 /\ g[k][Len(q) + 1] = f
      /\ DOMAIN q = 1 .. Len(q) /\ Len(q) \in Nat
      /\ \A i \in 1 .. Len(q) : g[k][i] = q[i]
  BY <1>2, <1>3
<1>5. \A i \in DOMAIN g[k] :
        \/ i = Len(q) + 1 /\ g[k][i] = f
        \/ k \in DOMAIN mshr /\ i \in DOMAIN mshr[k] /\ g[k][i] = mshr[k][i]
  <2>1. \A i \in DOMAIN g[k] : i = Len(q) + 1 \/ i \in DOMAIN q
    BY <1>4
  <2>2. \A i \in DOMAIN q : k \in DOMAIN mshr /\ q = mshr[k] /\ g[k][i] = q[i]
    BY <1>4
  <2>3. QED
    BY <1>4, <2>1, <2>2
<1>6. k \in DOMAIN mshr => \A i \in DOMAIN mshr[k] : i \in DOMAIN g[k] /\ g[k][i] = mshr[k][i]
  BY <1>4
<1>7. \A l \in DOMAIN g : g[l] \in Seq(Fetches) /\ g[l] # <<>>
  BY <1>1, <1>3, <1>4
<1> HIDE DEF q
<1>8. \A x : x \in Held(mshr) <=> \E l \in DOMAIN mshr : \E i \in DOMAIN mshr[l] : x = mshr[l][i]
  BY DEF Held, ToSet
<1>9. \A x : x \in Held(g) <=> \E l \in DOMAIN g : \E i \in DOMAIN g[l] : x = g[l][i]
  BY DEF Held, ToSet
<1>10. Held(g) = Held(mshr) \cup {f}
  <2>1. ASSUME NEW x \in Held(g) PROVE x \in Held(mshr) \cup {f}
    BY <1>3, <1>5, <1>8, <1>9
  <2>2. ASSUME NEW x \in Held(mshr) PROVE x \in Held(g)
    BY <1>3, <1>6, <1>8, <1>9
  <2>3. f \in Held(g)
    <3>1. Len(q) + 1 \in DOMAIN g[k] /\ k \in DOMAIN g
      BY <1>3, <1>4
    <3>2. QED
      BY <1>4, <1>9, <3>1
  <2>4. QED
    BY <2>1, <2>2, <2>3
<1>11. NoneHeldTwice(g)
  <2> SUFFICES ASSUME NEW l \in DOMAIN g, NEW m \in DOMAIN g,
                      NEW i \in DOMAIN g[l], NEW j \in DOMAIN g[m], g[l][i] = g[m][j]
               PROVE  l = m /\ i = j
    BY DEF NoneHeldTwice
  <2>1. \/ l = k /\ i = Len(q) + 1 /\ g[l][i] = f
        \/ l \in DOMAIN mshr /\ i \in DOMAIN mshr[l] /\ g[l][i] = mshr[l][i]
    BY <1>3, <1>5
  <2>2. \/ m = k /\ j = Len(q) + 1 /\ g[m][j] = f
        \/ m \in DOMAIN mshr /\ j \in DOMAIN mshr[m] /\ g[m][j] = mshr[m][j]
    BY <1>3, <1>5
  <2>3. QED
    BY <1>8, <2>1, <2>2 DEF NoneHeldTwice
<1>12. QED
  BY <1>3, <1>7, <1>10, <1>11 DEF g

(* MshrTable::pop_next_access: the oldest access of an entry leaves it, and *)
(* an entry without accesses leaves the table.                             *)
LEMMA PoppedTable ==
  ASSUME TypeOK, NoneHeldTwice(mshr), NEW k \in DOMAIN mshr
  PROVE  /\ DOMAIN Popped(k) = IF Len(mshr[k]) > 1 THEN DOMAIN mshr ELSE DOMAIN mshr \ {k}
         /\ \A l \in DOMAIN Popped(k) : Popped(k)[l] \in Seq(Fetches) /\ Popped(k)[l] # <<>>
         /\ TopNextAccess(k) \in Fetches /\ TopNextAccess(k) \in Held(mshr)
         /\ Held(Popped(k)) = Held(mshr) \ {TopNextAccess(k)}
         /\ NoneHeldTwice(Popped(k))
<1> DEFINE g == Popped(k)
           q == mshr[k]
           h == TopNextAccess(k)
<1>1. \A l \in DOMAIN mshr : mshr[l] \in Seq(Fetches) /\ mshr[l] # <<>>
  BY DEF TypeOK
<1>2. /\ q \in Seq(Fetches) /\ q # <<>> /\ Len(q) \in Nat /\ Len(q) > 0 /\ DOMAIN q = 1 .. Len(q)
      /\ h = q[1] /\ h \in Fetches
  <2>1. q \in Seq(Fetches) /\ q # <<>>
    BY <1>1
  <2> HIDE DEF q
  <2>2. h = Head(q)
    BY DEF q, TopNextAccess
  <2>3. QED
    BY <2>1, <2>2
<1>3. /\ DOMAIN g = IF Len(q) > 1 THEN DOMAIN mshr ELSE DOMAIN mshr \ {k}
      /\ Len(q) > 1 => g[k] = Tail(q)
      /\ \A l \in DOMAIN g : l # k => g[l] = mshr[l]
  BY DEF Popped
<1> HIDE DEF g, h
<1>4. Len(q) > 1 => /\ g[k] \in Seq(Fetches) /\ g[k] # <<>>
                    /\ DOMAIN g[k] = 1 .. Len(q) - 1
                    /\ \A i \in DOMAIN g[k] : g[k][i] = q[i + 1]
  <2> HIDE DEF q
  <2>1. QED
    BY <1>2, <1>3
<1>5. \A l \in DOMAIN g : g[l] \in Seq(Fetches) /\ g[l] # <<>>
  BY <1>1, <1>3, <1>4
<1>6. \A l \in DOMAIN g : \A i \in DOMAIN g[l] :
        /\ l \in DOMAIN mshr
        /\ \E n \in DOMAIN mshr[l] : /\ g[l][i] = mshr[l][n] /\ (l = k => n # 1)
                                     /\ n = IF l = k THEN i + 1 ELSE i
  <2> SUFFICES ASSUME NEW l \in DOMAIN g, NEW i \in DOMAIN g[l]
               PROVE  /\ l \in DOMAIN mshr
                      /\ \E n \in DOMAIN mshr[l] : /\ g[l][i] = mshr[l][n] /\ (l = k => n # 1)
                                                   /\ n = IF l = k THEN i + 1 ELSE i
    OBVIOUS
  <2>1. CASE l # k
    BY <1>3, <2>1
  <2>2. CASE l = k
    <3>1. Len(q) > 1
      BY <1>3, <2>2
    <3>2. i + 1 \in DOMAIN q /\ i + 1 # 1 /\ g[k][i] = q[i + 1]
      BY <1>2, <1>4, <2>2, <3>1
    <3>3. QED
      BY <2>2, <3>2
  <2>3. QED
    BY <2>1, <2>2
<1>7. \A l \in DOMAIN mshr : \A n \in DOMAIN mshr[l] :
        \/ l = k /\ n = 1
        \/ l \in DOMAIN g /\ \E i \in DOMAIN g[l] : g[l][i] = mshr[l][n]
  <2> SUFFICES ASSUME NEW l \in DOMAIN mshr, NEW n \in DOMAIN mshr[l], ~(l = k /\ n = 1)
               PROVE  l \in DOMAIN g /\ \E i \in DOMAIN g[l] : g[l][i] = mshr[l][n]
    OBVIOUS
  <2>1. CASE l # k
    BY <1>3, <2>1
  <2>2. CASE l = k
    <3>1. n \in 1 .. Len(q) /\ n # 1
      BY <1>2, <2>2
    <3>2. Len(q) > 1
      BY <1>2, <3>1
    <3>3. n - 1 \in DOMAIN g[k] /\ (n - 1) + 1 = n
      BY <1>2, <1>4, <3>1, <3>2
    <3>4. g[k][n - 1] = q[n]
      BY <1>4, <3>2, <3>3
    <3>5. QED
      BY <1>3, <2>2, <3>2, <3>3, <3>4
  <2>3. QED
    BY <2>1, <2>2
<1>8. \A x : x \in Held(mshr) <=> \E l \in DOMAIN mshr : \E i \in DOMAIN mshr[l] : x = mshr[l][i]
  BY DEF Held, ToSet
<1>9. \A x : x \in Held(g) <=> \E l \in DOMAIN g : \E i \in DOMAIN g[l] : x = g[l][i]
  BY DEF Held, ToSet
<1>10. 1 \in DOMAIN mshr[k] /\ h = mshr[k][1]
  BY <1>2
<1> HIDE DEF q
<1>11. Held(g) = Held(mshr) \ {h}
  <2>1. ASSUME NEW x \in Held(g) PROVE x \in Held(mshr) /\ x # h
    <3>1. PICK l \in DOMAIN g : \E i \in DOMAIN g[l] : x = g[l][i]
      BY <1>9
    <3>2. PICK i \in DOMAIN g[l] : x = g[l][i]
      BY <3>1
    <3>3. PICK n \in DOMAIN mshr[l] : x = mshr[l][n] /\ (l = k => n # 1)
      BY <1>6, <3>2
    <3>4. l \in DOMAIN mshr
      BY <1>6, <3>2
    <3>5. QED
      BY <1>8, <1>10, <3>3, <3>4 DEF NoneHeldTwice
  <2>2. ASSUME NEW x \in Held(mshr), x # h PROVE x \in Held(g)
    BY <1>7, <1>8, <1>9, <1>10, <2>2
  <2>3. QED
    BY <2>1, <2>2
<1>12. NoneHeldTwice(g)
  <2> SUFFICES ASSUME NEW l \in DOMAIN g, NEW m \in DOMAIN g,
                      NEW i \in DOMAIN g[l], NEW j \in DOMAIN g[m], g[l][i] = g[m][j]
               PROVE  l = m /\ i = j
    BY DEF NoneHeldTwice
  <2>1. PICK n \in DOMAIN mshr[l] : g[l][i] = mshr[l][n] /\ n = IF l = k THEN i + 1 ELSE i
    BY <1>6
  <2>2. PICK p \in DOMAIN mshr[m] : g[m][j] = mshr[m][p] /\ p = IF m = k THEN j + 1 ELSE j
    BY <1>6
  <2>3. l = m /\ n = p
    <3>1. l \in DOMAIN mshr /\ m \in DOMAIN mshr /\ mshr[l][n] = mshr[m][p]
      BY <1>6, <2>1, <2>2
    <3>2. QED
      BY <3>1 DEF NoneHeldTwice
  <2>4. i \in Nat /\ j \in Nat
    BY <1>5
  <2>5. QED
    BY <2>1, <2>2, <2>3, <2>4
<1>13. h \in Held(mshr)
  BY <1>8, <1>10
<1>14. QED
  BY <1>2, <1>3, <1>5, <1>11, <1>12, <1>13 DEF g, h, q
-----------------------------------------------------------------------------
(* The least and the greatest of a set of ways are among them.             *)
LEMMA LeastOne ==
  ASSUME NEW S \in SUBSET Nat, S # {}
  PROVE  Min(S) \in S
<1> DEFINE Less == OpToRel(<, Nat)
<1>1. PICK n \in S : \A m \in S : <<m, n>> \notin Less
  BY NatLessThanWellFounded, WFMin
<1> HIDE DEF Less
<1>2. \A m \in S : n <= m
  <2> TAKE m \in S
  <2>1. n \in Nat /\ m \in Nat /\ <<m, n>> \notin Less
    BY <1>1
  <2>2. ~(m < n)
    BY <2>1 DEF OpToRel, Less
  <2>3. QED
    BY <2>1, <2>2
<1>3. QED
  BY <1>2 DEF Min

LEMMA GreatestOne ==
  ASSUME NEW n \in Nat, NEW S \in SUBSET (0 .. n), S # {}
  PROVE  Max(S) \in S
<1> DEFINE T == {n - m : m \in S}
           Less == OpToRel(<, Nat)
<1> HIDE DEF Less
<1>1. T \subseteq Nat /\ T # {}
  <2>1. \A m \in S : n - m \in Nat
    OBVIOUS
  <2>2. QED
    BY <2>1
<1>2. PICK t \in T : \A u \in T : <<u, t>> \notin Less
  BY <1>1, NatLessThanWellFounded, WFMin DEF Less
<1>3. PICK m \in S : t = n - m
  BY <1>2
<1>4. \A l \in S : m >= l
  <2> TAKE l \in S
  <2>1. /\ t \in Nat /\ n - l \in Nat /\ n - l \in T /\ <<n - l, t>> \notin Less
        /\ m \in Nat /\ l \in Nat
    BY <1>1, <1>2
  <2>2. ~(n - l < t)
    <3> HIDE DEF T
    <3>1. QED
      BY <2>1 DEF OpToRel, Less
  <2>3. QED
    BY <1>3, <2>1, <2>2
<1>5. QED
  BY <1>4 DEF Max

(* TagArray::probe: a hit is on a line with the tag, and what a miss takes *)
(* is not reserved.                                                        *)
LEMMA ProbeFinds ==
  ASSUME TypeOK, NEW k \in Keys, NEW p \in Probes(k)
  PROVE  /\ p.way \in 1 .. Ways
         /\ p.status \in {"HIT", "HIT_RESERVED", "SECTOR_MISS", "MISS", "RESERVATION_FAIL"}
         /\ p.status \in {"HIT", "HIT_RESERVED", "SECTOR_MISS"} =>
              line[p.way].tag = k[1] /\ p.status = StatusOf(line[p.way].status[k[2]])
         /\ p.status = "MISS" => ~IsReservedLine(p.way)
<1> DEFINE matching == {w \in 1 .. Ways : line[w].tag = k[1] /\ ~IsInvalidLine(w)}
           free == {w \in 1 .. Ways : line[w].tag # k[1] /\ ~IsReservedLine(w)}
           invalid == {w \in free : IsInvalidLine(w)}
<1>1. Ways \in Nat /\ Ways > 0 /\ 1 \in 1 .. Ways
  BY CacheAssumption
<1>2. CASE matching # {}
  <2>1. Min(matching) \in matching
    <3> HIDE DEF matching
    <3>1. matching \in SUBSET Nat
      BY <1>1 DEF matching
    <3>2. QED
      BY <1>2, <3>1, LeastOne
  <2>2. p = [status |-> StatusOf(line[Min(matching)].status[k[2]]), way |-> Min(matching)]
    BY <1>2 DEF Probes
  <2>3. p.way \in matching /\ p.status = StatusOf(line[p.way].status[k[2]])
    BY <2>1, <2>2
  <2>4. p.status \in {"HIT", "HIT_RESERVED", "SECTOR_MISS"}
    BY <2>3 DEF StatusOf
  <2>5. QED
    BY <2>3, <2>4
<1>3. CASE matching = {} /\ free = {}
  <2>1. p = [status |-> "RESERVATION_FAIL", way |-> 1]
    BY <1>3 DEF Probes
  <2>2. QED
    BY <1>1, <2>1
<1>4. CASE matching = {} /\ free # {}
  <2> DEFINE chosen == IF invalid # {} THEN {Max(invalid)} ELSE free
  <2>1. chosen \subseteq free
    <3> HIDE DEF free
    <3>1. invalid \in SUBSET (0 .. Ways)
      BY <1>1 DEF free
    <3>2. invalid # {} => Max(invalid) \in invalid
      <4> HIDE DEF invalid
      <4>1. QED
        BY <1>1, <3>1, GreatestOne
    <3>3. QED
      BY <3>2
  <2>2. PICK w \in chosen : p = [status |-> "MISS", way |-> w]
    BY <1>4 DEF Probes
  <2>3. p.status = "MISS" /\ p.way \in free
    BY <2>1, <2>2
  <2>4. QED
    BY <2>3
<1>5. QED
  BY <1>2, <1>3, <1>4

(* Requests have keys.                                                     *)
LEMMA KeyOfRequest ==
  ASSUME NEW r \in Requests
  PROVE  Key(r) \in Keys
<1>1. Min(Sectors) \in Sectors
  BY CacheAssumption, LeastOne
<1>2. QED
  BY <1>1, CacheAssumption DEF Key, Keys

(* DataCache::write_back queues write-backs and nothing else.              *)
LEMMA WriteBackRequests ==
  ASSUME TypeOK, NEW p, p.way \in 1 .. Ways
  PROVE  /\ WriteBacks(p) \in Seq(Fetches \cup Backs)
         /\ ToSet(WriteBacks(p)) \subseteq Backs
<1>1. line[p.way].tag \in Blocks \cup {None}
  BY DEF TypeOK, Lines
<1>2. Back(line[p.way].tag) \in Backs
  BY <1>1 DEF Back, Backs
<1>3. ModifiedSize(p.way) \in Nat
  <2>1. DirtyMask(p.way) \subseteq Sectors
    BY DEF DirtyMask
  <2>2. IsFiniteSet(DirtyMask(p.way))
    BY <2>1, CacheAssumption, FS_Subset
  <2>3. QED
    BY <2>2, FS_CardinalityType DEF ModifiedSize
<1>4. CASE WriteBacks(p) = <<>>
  BY <1>4 DEF ToSet
<1>5. CASE WriteBacks(p) # <<>>
  <2> DEFINE n == ModifiedSize(p.way)
             b == Back(line[p.way].tag)
             s == [i \in 1 .. n |-> b]
  <2>1. WriteBacks(p) = s
    BY <1>5 DEF WriteBacks
  <2> HIDE DEF n, b
  <2>2. n \in Nat /\ b \in Backs
    BY <1>2, <1>3 DEF n, b
  <2>3. s \in Seq(Fetches \cup Backs) /\ DOMAIN s = 1 .. n /\ \A i \in 1 .. n : s[i] = b
    BY <2>2
  <2>4. ToSet(s) \subseteq Backs
    BY <2>2, <2>3 DEF ToSet
  <2>5. QED
    BY <2>1, <2>3, <2>4
<1>6. QED
  BY <1>4, <1>5

(* No access is a write-back.                                              *)
LEMMA Kinds ==
  /\ Backs \cap Fetches = {}
  /\ \A r \in Requests : /\ Core(r) \in Fetches /\ Alloc(r) \in Fetches
                         /\ Core(r) \notin Backs /\ Alloc(r) \notin Backs
                         /\ Core(r).of = r /\ Alloc(r).of = r /\ Core(r) # Alloc(r)
                         /\ Core(r).kind = "core" /\ Alloc(r).kind = "alloc"
  /\ \A f \in Fetches : f.of \in Requests /\ (f.kind = "core" => f = Core(f.of))
BY DEF Backs, Fetches, Core, Alloc
-----------------------------------------------------------------------------
(* How the steps of the cache move an access from one place to another.    *)
(* A request arrives, the head of the miss queue is passed on.             *)
LEMMA ArriveApart ==
  ASSUME NEW A, NEW X, NEW L, NEW H, NEW M, NEW D, NEW F, NEW R,
         Apart(A, X, L, H, M, D, F, R), NEW r, r \notin A
  PROVE  Apart(A \cup {r}, X \cup {r}, L, H, M, D, F, R)
BY DEF Apart

LEMMA PassOnApart ==
  ASSUME NEW A, NEW X, NEW L, NEW H, NEW M, NEW D, NEW F, NEW R, NEW N, NEW f,
         Apart(A, X, L, H, M, D, F, R),
         M = {f} \cup N, f \in Fetches => f \notin N
  PROVE  Apart(A, X, L, H, N, D \cup {f}, F, R) /\ (f \in Fetches => f \notin D)
BY DEF Apart

(* What has not been taken from the crossbar's queue is nowhere else.      *)
LEMMA HeadIsApart ==
  ASSUME NEW A, NEW X, NEW L, NEW H, NEW M, NEW D, NEW F, NEW R,
         Apart(A, X, L, H, M, D, F, R), NEW r \in Requests, r \in X
  PROVE  /\ Core(r) \notin L \cup H \cup M \cup D \cup F \cup R
         /\ Alloc(r) \notin L \cup H \cup M \cup D \cup F \cup R
BY Kinds DEF Apart

(* A request that leaves that queue is a hit, or sent to memory (with or   *)
(* without passing the miss queue), ...                                    *)
LEMMA HitApart ==
  ASSUME NEW A, NEW X, NEW L, NEW H, NEW M, NEW D, NEW F, NEW R, NEW Y, NEW r \in Requests,
         Apart(A, X, L, H, M, D, F, R), X = {r} \cup Y, r \notin Y
  PROVE  Apart(A, Y, L \cup {Core(r)}, H, M, D, F, R)
BY Kinds DEF Apart

LEMMA SendApart ==
  ASSUME NEW A, NEW X, NEW L, NEW H, NEW M, NEW D, NEW F, NEW R, NEW Y, NEW r \in Requests,
         Apart(A, X, L, H, M, D, F, R), X = {r} \cup Y, r \notin Y
  PROVE  /\ Apart(A, Y, L, H, M \cup {Core(r)}, D, F, R)
         /\ Apart(A, Y, L, H, M, D \cup {Core(r)}, F, R)
BY Kinds DEF Apart

(* ... or waits in an MSHR, for a fetch f that is sent now, or one that    *)
(* was sent before, write-backs W along with it.                           *)
LEMMA ReadApart ==
  ASSUME NEW A, NEW X, NEW L, NEW H, NEW M, NEW D, NEW F, NEW R, NEW Y, NEW r \in Requests,
         Apart(A, X, L, H, M, D, F, R), X = {r} \cup Y, r \notin Y,
         NEW W, W \subseteq Backs, L \cup H \cup F \cup R \subseteq Fetches
  PROVE  /\ Apart(A, Y, L, H \cup {Core(r)}, M \cup W, D, F, R)
         /\ Apart(A, Y, L, H \cup {Core(r)}, (M \cup {Core(r)}) \cup W, D, F \cup {Core(r)}, R)
<1>1. /\ W \cap Fetches = {} /\ Core(r) \in Fetches /\ Core(r).of = r
      /\ \A f \in L \cup H \cup F \cup R : f \in Fetches
  BY Kinds
<1>2. /\ Core(r) \notin L \cup H \cup M \cup D \cup F \cup R /\ r \in A
  <2>1. r \in X /\ X \subseteq A
    BY DEF Apart
  <2>2. /\ Core(r) \notin L \cup H \cup M \cup D \cup F \cup R
        /\ Alloc(r) \notin L \cup H \cup M \cup D \cup F \cup R
    BY <2>1, HeadIsApart
  <2>3. QED
    BY <2>1, <2>2
<1>3. \A f \in L \cup H \cup F \cup R \cup {Core(r)} : f \notin W
  BY <1>1
<1>4. QED
  BY <1>1, <1>2, <1>3 DEF Apart

(* The same of a write that is sent on and allocates: its own fetch waits. *)
LEMMA AllocateApart ==
  ASSUME NEW A, NEW X, NEW L, NEW H, NEW M, NEW D, NEW F, NEW R, NEW Y, NEW r \in Requests,
         Apart(A, X, L, H, M, D, F, R), X = {r} \cup Y, r \notin Y,
         NEW W, W \subseteq Backs, L \cup H \cup F \cup R \subseteq Fetches
  PROVE  /\ Apart(A, Y, L, H \cup {Alloc(r)}, (M \cup {Core(r)}) \cup W, D, F, R)
         /\ Apart(A, Y, L, H \cup {Alloc(r)}, ((M \cup {Core(r)}) \cup {Alloc(r)}) \cup W, D,
                  F \cup {Alloc(r)}, R)
<1>1. /\ W \cap Fetches = {} /\ Core(r) \in Fetches /\ Core(r).of = r
      /\ Alloc(r) \in Fetches /\ Alloc(r).of = r /\ Core(r) # Alloc(r)
      /\ \A f \in L \cup H \cup F \cup R : f \in Fetches
  BY Kinds
<1>2. /\ Core(r) \notin L \cup H \cup M \cup D \cup F \cup R
      /\ Alloc(r) \notin L \cup H \cup M \cup D \cup F \cup R /\ r \in A
  <2>1. r \in X /\ X \subseteq A
    BY DEF Apart
  <2>2. /\ Core(r) \notin L \cup H \cup M \cup D \cup F \cup R
        /\ Alloc(r) \notin L \cup H \cup M \cup D \cup F \cup R
    BY <2>1, HeadIsApart
  <2>3. QED
    BY <2>1, <2>2
<1>3. \A f \in L \cup H \cup F \cup R \cup {Core(r), Alloc(r)} : f \notin W
  BY <1>1
<1>4. QED
  BY <1>1, <1>2, <1>3 DEF Apart

(* An access drained from an MSHR, and one that leaves the latency queue.  *)
LEMMA DrainApart ==
  ASSUME NEW A, NEW X, NEW L, NEW H, NEW M, NEW D, NEW F, NEW R, NEW f \in H,
         Apart(A, X, L, H, M, D, F, R)
  PROVE  Apart(A, X, L \cup {f}, H \ {f}, M, D, F, R) /\ f \notin L
BY DEF Apart

LEMMA DeliverApart ==
  ASSUME NEW A, NEW X, NEW L, NEW H, NEW M, NEW D, NEW F, NEW R, NEW N, NEW f,
         Apart(A, X, L, H, M, D, F, R), L = {f} \cup N, f \notin N
  PROVE  /\ Apart(A, X, N, H, M, D, F, R \cup {f}) /\ f \notin R
         /\ Apart(A, X, N, H, M, D, F, R)
BY DEF Apart

(* The answer to a fetch, and to a request that was sent to memory.        *)
LEMMA FillApart ==
  ASSUME NEW A, NEW X, NEW L, NEW H, NEW M, NEW D, NEW F, NEW R, NEW N, NEW f \in F,
         Apart(A, X, L, H, M, D, F, R), D = {f} \cup N, f \notin N, f \in Fetches
  PROVE  Apart(A, X, L, H, M, N, F \ {f}, R)
BY DEF Apart

LEMMA AnswerApart ==
  ASSUME NEW A, NEW X, NEW L, NEW H, NEW M, NEW D, NEW F, NEW R, NEW N, NEW f,
         Apart(A, X, L, H, M, D, F, R), D = {f} \cup N, f \notin F,
         f \in Fetches => f \notin N
  PROVE  /\ Apart(A, X, L, H, M, N, F, R)
         /\ f \in Fetches => Apart(A, X, L, H, M, N, F, R \cup {f}) /\ f \notin R
BY DEF Apart

-----------------------------------------------------------------------------
(* One fetch or one mark behind every MSHR: a new entry is sent a fetch,   *)
LEMMA SendBacked ==
  ASSUME NEW K, NEW W, NEW m, Backed(K, W, m),
         NEW k, k \notin K, NEW f, f \notin DOMAIN W,
         NEW V, DOMAIN V = DOMAIN W \cup {f}, V[f].key = k,
         \A g \in DOMAIN W : V[g] = W[g]
  PROVE  Backed(K \cup {k}, V, m)
<1> USE DEF Backed
<1>1. \A g \in DOMAIN V : g = f \/ (g \in DOMAIN W /\ V[g] = W[g])
  OBVIOUS
<1>2. \A g \in DOMAIN V : V[g].key \in K \cup {k}
  BY <1>1
<1>3. \A g, h \in DOMAIN V : V[g].key = V[h].key => g = h
  BY <1>1
<1>4. \A g \in DOMAIN V, i \in DOMAIN m : V[g].key # m[i]
  BY <1>1
<1>5. \A l \in K \cup {k} : (\E g \in DOMAIN V : V[g].key = l) \/ (\E i \in DOMAIN m : m[i] = l)
  OBVIOUS
<1>6. QED
  BY <1>2, <1>3, <1>4, <1>5

(* the answer to the fetch marks it ready,                                 *)
LEMMA FillBacked ==
  ASSUME NEW S, NEW K, NEW W, NEW m \in Seq(S), Backed(K, W, m),
         NEW f \in DOMAIN W, W[f].key \in S,
         NEW V, DOMAIN V = DOMAIN W \ {f}, \A g \in DOMAIN V : V[g] = W[g]
  PROVE  Backed(K, V, Append(m, W[f].key))
<1> DEFINE n == Append(m, W[f].key)
           k == W[f].key
<1>1. /\ DOMAIN m = 1 .. Len(m) /\ Len(m) \in Nat /\ DOMAIN n = 1 .. Len(m) + 1
      /\ \A i \in DOMAIN m : n[i] = m[i]
      /\ n[Len(m) + 1] = k
  OBVIOUS
<1>2. /\ \A i \in DOMAIN n : i = Len(m) + 1 \/ i \in DOMAIN m
      /\ \A i \in DOMAIN m : i \in DOMAIN n
      /\ Len(m) + 1 \in DOMAIN n
  BY <1>1
<1> HIDE DEF n, k
<1>3. /\ \A g \in DOMAIN V : g \in DOMAIN W /\ g # f /\ V[g] = W[g]
      /\ \A g \in DOMAIN W : g = f \/ g \in DOMAIN V
  OBVIOUS
<1>4. W[f].key = k
  BY DEF k
<1>5. \A i \in DOMAIN n : n[i] \in K
  BY <1>1, <1>2, <1>4 DEF Backed
<1>6. \A i, j \in DOMAIN n : n[i] = n[j] => i = j
  BY <1>1, <1>2, <1>4 DEF Backed
<1>7. \A g \in DOMAIN V, i \in DOMAIN n : V[g].key # n[i]
  BY <1>1, <1>2, <1>3, <1>4 DEF Backed
<1>8. \A l \in K : (\E g \in DOMAIN V : V[g].key = l) \/ (\E i \in DOMAIN n : n[i] = l)
  BY <1>1, <1>2, <1>3, <1>4 DEF Backed
<1>9. Backed(K, V, n)
  BY <1>3, <1>5, <1>6, <1>7, <1>8 DEF Backed
<1>10. QED
  BY <1>9 DEF n

(* and the entry goes with its last access, and the mark with it.          *)
LEMMA PopBacked ==
  ASSUME NEW S, NEW K, NEW W, NEW m \in Seq(S), Backed(K, W, m), m # <<>>
  PROVE  Head(m) \in K /\ Backed(K \ {Head(m)}, W, Tail(m))
<1> DEFINE n == Tail(m)
           k == Head(m)
<1>1. /\ DOMAIN m = 1 .. Len(m) /\ Len(m) \in Nat /\ Len(m) > 0 /\ DOMAIN n = 1 .. Len(m) - 1
      /\ \A i \in DOMAIN n : n[i] = m[i + 1]
      /\ k = m[1]
  OBVIOUS
<1> HIDE DEF n, k
<1>2. /\ 1 \in DOMAIN m
      /\ \A i \in DOMAIN n : i + 1 \in DOMAIN m /\ i + 1 # 1
      /\ \A i, j \in DOMAIN n : i + 1 = j + 1 => i = j
      /\ \A i \in DOMAIN m : i = 1 \/ (i - 1 \in DOMAIN n /\ n[i - 1] = m[i])
  BY <1>1
<1>3. k \in K
  BY <1>1, <1>2 DEF Backed
<1>4. \A g \in DOMAIN W : W[g].key \in K \ {k}
  BY <1>1, <1>2 DEF Backed
<1>5. \A i \in DOMAIN n : n[i] \in K \ {k}
  BY <1>1, <1>2 DEF Backed
<1>6. \A i, j \in DOMAIN n : n[i] = n[j] => i = j
  BY <1>1, <1>2 DEF Backed
<1>7. \A g \in DOMAIN W, i \in DOMAIN n : W[g].key # n[i]
  BY <1>1, <1>2 DEF Backed
<1>8. \A l \in K \ {k} : (\E g \in DOMAIN W : W[g].key = l) \/ (\E i \in DOMAIN n : n[i] = l)
  <2> SUFFICES ASSUME NEW l \in K \ {k}, NEW i \in DOMAIN m, m[i] = l
               PROVE  \E j \in DOMAIN n : n[j] = l
    BY DEF Backed
  <2>1. i # 1
    BY <1>1
  <2>2. QED
    BY <1>2, <2>1
<1>9. Backed(K \ {k}, W, n)
  BY <1>4, <1>5, <1>6, <1>7, <1>8 DEF Backed
<1>10. QED
  BY <1>3, <1>9 DEF n, k
-----------------------------------------------------------------------------
(* The lines.  In a cache of whole lines the line of a fetch stays         *)
(* reserved for it, so that a valid line holds the data of its block.      *)
LinesInv ==
  /\ line \in [1 .. Ways -> Lines]
  /\ source \in [1 .. Ways -> [Sectors -> Blocks \cup {None}]]
  /\ LineInv /\ LineFilledByOwnData

(* Changing the state of one sector of a line changes nothing else.        *)
SetsSector(lines, w, s, state, new) ==
  /\ lines \in [1 .. Ways -> Lines] /\ w \in 1 .. Ways /\ s \in Sectors /\ state \in States
  /\ new = [lines EXCEPT ![w].status[s] = state]
LEMMA OneSector ==
  ASSUME NEW lines, NEW new, NEW w, NEW s, NEW state, SetsSector(lines, w, s, state, new)
  PROVE  /\ new \in [1 .. Ways -> Lines]
         /\ \A x \in 1 .. Ways : new[x].tag = lines[x].tag /\ (x # w => new[x] = lines[x])
         /\ \A x \in 1 .. Ways, z \in Sectors :
              new[x].status[z] = IF x = w /\ z = s THEN state ELSE lines[x].status[z]
<1> lines \in [1 .. Ways -> Lines] /\ w \in 1 .. Ways /\ s \in Sectors /\ state \in States
  BY DEF SetsSector
<1>1. \A x \in 1 .. Ways : lines[x] \in [tag : Blocks \cup {None}, status : [Sectors -> States]]
  BY DEF Lines
<1>2. ASSUME NEW x \in 1 .. Ways
      PROVE  /\ new[x] \in Lines /\ new[x].tag = lines[x].tag /\ (x # w => new[x] = lines[x])
             /\ \A z \in Sectors :
                  new[x].status[z] = IF x = w /\ z = s THEN state ELSE lines[x].status[z]
  <2>1. CASE x # w
    BY <2>1 DEF SetsSector
  <2>2. CASE x = w
    <3>1. new[x] = [lines[x] EXCEPT !.status = [lines[x].status EXCEPT ![s] = state]]
      BY <2>2 DEF SetsSector
    <3>2. [lines[x].status EXCEPT ![s] = state] \in [Sectors -> States]
      BY <1>1
    <3>3. /\ new[x].tag = lines[x].tag
          /\ new[x].status = [lines[x].status EXCEPT ![s] = state]
          /\ new[x] \in Lines
      BY <1>1, <3>1, <3>2 DEF Lines
    <3>4. QED
      BY <1>1, <2>2, <3>3
  <2>3. QED
    BY <2>1, <2>2
<1>3. new = [x \in 1 .. Ways |-> new[x]]
  BY DEF SetsSector
<1>4. new \in [1 .. Ways -> Lines]
  BY <1>2, <1>3
<1>5. QED
  BY <1>2, <1>4

(* What is not reserved may be written or invalidated.                     *)
LEMMA SetStatusLines ==
  ASSUME TypeOK, LinesInv, NEW k \in Keys, NEW p, p.way \in 1 .. Ways,
         line[p.way].status[k[2]] # "RESERVED", NEW state \in {"MODIFIED", "INVALID"},
         SetStatus(p, k, state), source' = source \/ SetSource(p, k),
         UNCHANGED <<setup, extra>>
  PROVE  LinesInv'
<1> DEFINE w == p.way
           s == k[2]
<1>1. /\ w \in 1 .. Ways /\ s \in Sectors /\ k[1] \in Blocks /\ state \in States
  BY DEF Keys, States
<1>2. line \in [1 .. Ways -> Lines] /\ source \in [1 .. Ways -> [Sectors -> Blocks \cup {None}]]
  BY DEF TypeOK
<1>3. \A x \in 1 .. Ways : line[x].tag \in Blocks \cup {None} /\ line[x].status \in [Sectors -> States]
  BY <1>2 DEF Lines
<1>4. SetsSector(line, w, s, state, line')
  BY <1>1, <1>2 DEF SetStatus, SetsSector, w, s
<1> HIDE DEF w, s
<1>5. /\ line' \in [1 .. Ways -> Lines]
      /\ \A x \in 1 .. Ways : line'[x].tag = line[x].tag
      /\ \A x \in 1 .. Ways, z \in Sectors :
           line'[x].status[z] = IF x = w /\ z = s THEN state ELSE line[x].status[z]
  <2>1. line' \in [1 .. Ways -> Lines]
    BY <1>4, OneSector
  <2>2. \A x \in 1 .. Ways : line'[x].tag = line[x].tag
    BY <1>4, OneSector
  <2>3. \A x \in 1 .. Ways, z \in Sectors :
           line'[x].status[z] = IF x = w /\ z = s THEN state ELSE line[x].status[z]
    BY <1>4, OneSector
  <2>4. QED
    BY <2>1, <2>2, <2>3
<1>6. /\ source' \in [1 .. Ways -> [Sectors -> Blocks \cup {None}]]
      /\ \A x \in 1 .. Ways, z \in Sectors : source'[x][z] = source[x][z] \/ (x = w /\ z = s)
  <2>1. CASE source' = source
    BY <1>2, <2>1
  <2>2. CASE source' = [source EXCEPT ![w][s] = k[1]]
    BY <1>1, <1>2, <2>2
  <2>3. QED
    BY <2>1, <2>2 DEF SetSource, w, s
<1>7. state # "VALID" /\ state # "RESERVED"
  OBVIOUS
<1>8. LineFilledByOwnData'
  <2>1. setup' = setup
    OBVIOUS
  <2>2. QED
    BY <1>5, <1>6, <1>7, <2>1 DEF LineFilledByOwnData, LinesInv
<1>9. LineInv'
  <2> SUFFICES ASSUME ~setup.sectored, NEW f \in DOMAIN extra
               PROVE  /\ line'[extra[f].way].tag = extra[f].key[1]
                      /\ line'[extra[f].way].status[extra[f].key[2]] = "RESERVED"
    BY DEF LineInv, Reserves
  <2>1. extra[f].way \in 1 .. Ways /\ extra[f].key[2] \in Sectors
    BY DEF TypeOK, Keys
  <2>2. /\ line[extra[f].way].tag = extra[f].key[1]
        /\ line[extra[f].way].status[extra[f].key[2]] = "RESERVED"
    BY DEF LinesInv, LineInv, Reserves
  <2>3. line[w].status[s] # "RESERVED"
    BY DEF w, s
  <2>4. QED
    BY <1>5, <2>1, <2>2, <2>3
<1>10. QED
  BY <1>5, <1>6, <1>8, <1>9 DEF LinesInv

(* A read reserves the line it has found for its fetch, if it sends one,   *)
(* and takes no line from another fetch.                                   *)
LEMMA SendReadLines ==
  ASSUME TypeOK, LinesInv, NEW k \in Keys, NEW p \in Probes(k),
         p.status \in {"HIT_RESERVED", "SECTOR_MISS", "MISS"},
         Access(p, k), UNCHANGED <<setup, source>>,
         NEW f,
         \A g \in DOMAIN extra' : \/ g \in DOMAIN extra /\ extra'[g] = extra[g]
                                  \/ g = f /\ extra'[g] = [key |-> k, way |-> p.way]
  PROVE  LinesInv'
<1> DEFINE w == p.way
           s == k[2]
<1>1. /\ w \in 1 .. Ways
      /\ p.status \in {"HIT_RESERVED", "SECTOR_MISS"} =>
           line[w].tag = k[1] /\ p.status = StatusOf(line[w].status[s])
      /\ p.status = "MISS" => ~IsReservedLine(w)
  BY ProbeFinds
<1>2. s \in Sectors /\ k[1] \in Blocks /\ "RESERVED" \in States /\ "INVALID" \in States
  BY DEF Keys, States
<1>3. line \in [1 .. Ways -> Lines] /\ source \in [1 .. Ways -> [Sectors -> Blocks \cup {None}]]
  BY DEF TypeOK
<1>4. \A x \in 1 .. Ways : line[x].tag \in Blocks \cup {None} /\ line[x].status \in [Sectors -> States]
  BY <1>3 DEF Lines
<1>5. line' = CASE p.status = "MISS" ->
                     [line EXCEPT ![w] = IF setup.sectored THEN SectorAllocated(k)
                                                           ELSE LineAllocated(k)]
                [] p.status = "SECTOR_MISS" -> AllocateSector(w, s)
                [] OTHER -> line
  BY DEF Access
<1> HIDE DEF w, s
<1>6. Invalid \in [Sectors -> States] /\ \A z \in Sectors : Invalid[z] = "INVALID"
  BY <1>2 DEF Invalid
<1>7. /\ line' \in [1 .. Ways -> Lines]
      /\ \A x \in 1 .. Ways : x # w => line'[x] = line[x]
      /\ ~setup.sectored => /\ line'[w].tag = k[1]
                            /\ line'[w].status[s] = "RESERVED"
                            /\ \A z \in Sectors : line'[w].status[z] = "VALID" =>
                                 line[w].status[z] = "VALID" /\ line'[w].tag = line[w].tag
                            /\ \A z \in Sectors : line[w].status[z] = "RESERVED" =>
                                 line'[w].status[z] = "RESERVED" /\ line'[w].tag = line[w].tag
  <2>1. CASE p.status = "MISS"
    <3> DEFINE new == IF setup.sectored THEN SectorAllocated(k) ELSE LineAllocated(k)
    <3>1. line' = [line EXCEPT ![w] = new]
      BY <1>5, <2>1
    <3>2. [Invalid EXCEPT ![s] = "RESERVED"] \in [Sectors -> States]
      BY <1>2, <1>6
    <3>3. /\ new \in Lines
          /\ ~setup.sectored => /\ new.tag = k[1]
                                /\ new.status = [Invalid EXCEPT ![s] = "RESERVED"]
      BY <1>2, <1>6, <3>2 DEF SectorAllocated, LineAllocated, Lines, s
    <3> HIDE DEF new
    <3>4. /\ line' \in [1 .. Ways -> Lines] /\ line'[w] = new
          /\ \A x \in 1 .. Ways : x # w => line'[x] = line[x]
      BY <1>1, <1>3, <3>1, <3>3
    <3>5. \A z \in Sectors : [Invalid EXCEPT ![s] = "RESERVED"][z]
                               = IF z = s THEN "RESERVED" ELSE "INVALID"
      BY <1>2, <1>6
    <3>6. \A z \in Sectors : line[w].status[z] # "RESERVED"
      BY <1>1, <2>1 DEF IsReservedLine
    <3>7. ~setup.sectored => \A z \in Sectors :
            line'[w].status[z] = IF z = s THEN "RESERVED" ELSE "INVALID"
      BY <3>3, <3>4, <3>5
    <3>8. QED
      BY <1>2, <3>3, <3>4, <3>6, <3>7
  <2>2. CASE p.status = "SECTOR_MISS"
    <3>1. SetsSector(line, w, s, "RESERVED", line')
      BY <1>1, <1>2, <1>3, <1>5, <2>2 DEF AllocateSector, SetsSector
    <3>2. line' \in [1 .. Ways -> Lines]
      BY <3>1, OneSector
    <3>3. \A x \in 1 .. Ways : line'[x].tag = line[x].tag /\ (x # w => line'[x] = line[x])
      BY <3>1, OneSector
    <3>4. \A x \in 1 .. Ways, z \in Sectors :
            line'[x].status[z] = IF x = w /\ z = s THEN "RESERVED" ELSE line[x].status[z]
      BY <3>1, OneSector
    <3>5. line[w].tag = k[1]
      BY <1>1, <2>2
    <3>6. QED
      BY <1>1, <1>2, <3>2, <3>3, <3>4, <3>5
  <2>3. CASE p.status = "HIT_RESERVED"
    <3>1. line' = line
      BY <1>5, <2>3
    <3>2. line[w].tag = k[1] /\ line[w].status[s] = "RESERVED"
      BY <1>1, <2>3 DEF StatusOf
    <3>3. QED
      BY <1>1, <1>3, <3>1, <3>2
  <2>4. QED
    BY <2>1, <2>2, <2>3
<1>8. LineFilledByOwnData'
  <2> SUFFICES ASSUME ~setup.sectored, NEW x \in 1 .. Ways, NEW z \in Sectors,
                      line'[x].status[z] = "VALID"
               PROVE  source[x][z] = line'[x].tag
    BY DEF LineFilledByOwnData
  <2>1. line[x].status[z] = "VALID" /\ line'[x].tag = line[x].tag
    BY <1>7
  <2>2. QED
    BY <2>1 DEF LinesInv, LineFilledByOwnData
<1>9. LineInv'
  <2> SUFFICES ASSUME ~setup.sectored, NEW g \in DOMAIN extra'
               PROVE  /\ line'[extra'[g].way].tag = extra'[g].key[1]
                      /\ line'[extra'[g].way].status[extra'[g].key[2]] = "RESERVED"
    BY DEF LineInv, Reserves
  <2>1. CASE extra'[g] = [key |-> k, way |-> p.way]
    BY <1>7, <2>1 DEF w, s
  <2>2. CASE g \in DOMAIN extra /\ extra'[g] = extra[g]
    <3>1. extra[g].way \in 1 .. Ways /\ extra[g].key[2] \in Sectors
      BY <2>2 DEF TypeOK, Keys
    <3>2. /\ line[extra[g].way].tag = extra[g].key[1]
          /\ line[extra[g].way].status[extra[g].key[2]] = "RESERVED"
      BY <2>2 DEF LinesInv, LineInv, Reserves
    <3>3. QED
      BY <1>7, <2>2, <3>1, <3>2
  <2>3. QED
    BY <2>1, <2>2
<1>10. QED
  BY <1>3, <1>7, <1>8, <1>9 DEF LinesInv

(* Cache::fill makes the line valid that was reserved for the fetch, and   *)
(* for no other.                                                           *)
LEMMA FillLines ==
  ASSUME TypeOK, LinesInv, MshrInv, NEW f \in DOMAIN extra,
         TagFill(extra[f]), extra' = Erased(f), UNCHANGED setup
  PROVE  LinesInv'
<1> DEFINE w == extra[f].way
           k == extra[f].key
           s == k[2]
<1>1. w \in 1 .. Ways /\ s \in Sectors /\ k[1] \in Blocks /\ "VALID" \in States
  BY DEF TypeOK, Keys, States
<1>2. line \in [1 .. Ways -> Lines] /\ source \in [1 .. Ways -> [Sectors -> Blocks \cup {None}]]
  BY DEF TypeOK
<1>3. \A x \in 1 .. Ways : line[x].tag \in Blocks \cup {None} /\ line[x].status \in [Sectors -> States]
  BY <1>2 DEF Lines
<1>4. /\ SetsSector(line, w, s, "VALID", line')
      /\ source' = [source EXCEPT ![w][s] = k[1]]
  BY <1>1, <1>2 DEF TagFill, Filled, SetsSector
<1>5. \A g \in DOMAIN extra' : g \in DOMAIN extra /\ extra'[g] = extra[g] /\ extra[g].key # k
  BY DEF Erased, MshrInv, Backed
<1>6. ~setup.sectored => line[w].tag = k[1]
  BY DEF LinesInv, LineInv, Reserves
<1> HIDE DEF w, s, k
<1>7. /\ line' \in [1 .. Ways -> Lines]
      /\ \A x \in 1 .. Ways : line'[x].tag = line[x].tag
      /\ \A x \in 1 .. Ways, z \in Sectors :
           line'[x].status[z] = IF x = w /\ z = s THEN "VALID" ELSE line[x].status[z]
  <2>1. line' \in [1 .. Ways -> Lines]
    BY <1>4, OneSector
  <2>2. \A x \in 1 .. Ways : line'[x].tag = line[x].tag
    BY <1>4, OneSector
  <2>3. \A x \in 1 .. Ways, z \in Sectors :
           line'[x].status[z] = IF x = w /\ z = s THEN "VALID" ELSE line[x].status[z]
    BY <1>4, OneSector
  <2>4. QED
    BY <2>1, <2>2, <2>3
<1>8. /\ source' \in [1 .. Ways -> [Sectors -> Blocks \cup {None}]]
      /\ \A x \in 1 .. Ways, z \in Sectors :
           source'[x][z] = IF x = w /\ z = s THEN k[1] ELSE source[x][z]
  BY <1>1, <1>2, <1>4
<1>9. LineFilledByOwnData'
  <2> SUFFICES ASSUME ~setup.sectored, NEW x \in 1 .. Ways, NEW z \in Sectors,
                      line'[x].status[z] = "VALID"
               PROVE  source'[x][z] = line'[x].tag
    BY DEF LineFilledByOwnData
  <2>1. CASE x = w /\ z = s
    BY <1>1, <1>6, <1>7, <1>8, <2>1
  <2>2. CASE ~(x = w /\ z = s)
    BY <1>7, <1>8, <2>2 DEF LinesInv, LineFilledByOwnData
  <2>3. QED
    BY <2>1, <2>2
<1>10. LineInv'
  <2> SUFFICES ASSUME ~setup.sectored, NEW g \in DOMAIN extra'
               PROVE  /\ line'[extra'[g].way].tag = extra'[g].key[1]
                      /\ line'[extra'[g].way].status[extra'[g].key[2]] = "RESERVED"
    BY DEF LineInv, Reserves
  <2>1. g \in DOMAIN extra /\ extra'[g] = extra[g] /\ extra[g].key # k
    BY <1>5
  <2>2. /\ extra[g].way \in 1 .. Ways /\ extra[g].key \in Keys /\ k \in Keys
    BY <2>1 DEF TypeOK, k
  <2>3. /\ line[extra[g].way].tag = extra[g].key[1]
        /\ line[extra[g].way].status[extra[g].key[2]] = "RESERVED"
    BY <2>1 DEF LinesInv, LineInv, Reserves
  <2>4. ~(extra[g].way = w /\ extra[g].key[2] = s)
    <3> SUFFICES ASSUME extra[g].way = w, extra[g].key[2] = s PROVE FALSE
      OBVIOUS
    <3>1. extra[g].key[1] = k[1] /\ extra[g].key[2] = k[2]
      BY <1>6, <2>3 DEF s
    <3>2. QED
      BY <2>1, <2>2, <3>1 DEF Keys
  <2>5. extra[g].key[2] \in Sectors
    BY <2>2 DEF Keys
  <2>6. QED
    BY <1>7, <2>1, <2>2, <2>3, <2>4, <2>5
<1>11. QED
  BY <1>7, <1>8, <1>9, <1>10 DEF LinesInv

(* A step that touches no line and no fetch.                               *)
LEMMA SameLines ==
  ASSUME LinesInv, UNCHANGED <<setup, line, source, extra>>
  PROVE  LinesInv'
BY DEF LinesInv, LineInv, Reserves, LineFilledByOwnData

-----------------------------------------------------------------------------
(* A reply is given to the core that waits for it.                         *)
LEMMA ReplyCounted ==
  ASSUME NEW f \in Fetches, TypeOK, OneReply, f \notin Answered(replies)
  PROVE  /\ Reply(f) \in [Requests -> Nat] /\ \A r \in Requests : Reply(f)[r] <= 1
         /\ Answered(Reply(f)) = Answered(replies) \cup (IF f.kind = "core" THEN {f} ELSE {})
<1>1. replies \in [Requests -> Nat] /\ \A r \in Requests : replies[r] <= 1
  BY DEF TypeOK, OneReply
<1>2. f.of \in Requests /\ f.kind \in {"core", "alloc"}
  BY DEF Fetches
<1>3. CASE f.kind = "core"
  <2>1. Reply(f) = [replies EXCEPT ![f.of] = @ + 1]
    BY <1>3 DEF Reply
  <2>2. replies[f.of] = 0
    <3>1. ~(replies[f.of] > 0)
      BY <1>3 DEF Answered
    <3>2. QED
      BY <1>1, <1>2, <3>1
  <2>3. \A r \in Requests : Reply(f)[r] = IF r = f.of THEN 1 ELSE replies[r]
    BY <1>1, <1>2, <2>1, <2>2
  <2>4. Reply(f) \in [Requests -> Nat]
    BY <1>1, <1>2, <2>1, <2>2
  <2>5. \A g \in Fetches : g.of \in Requests /\ (g.kind = "core" /\ g.of = f.of => g = f)
    BY <1>3, Kinds
  <2>6. \A g \in Fetches : g.kind = "core" =>
          (Reply(f)[g.of] > 0 <=> g = f \/ replies[g.of] > 0)
    BY <1>1, <2>3, <2>5
  <2>7. Answered(Reply(f)) = Answered(replies) \cup {f}
    BY <1>3, <2>6 DEF Answered
  <2>8. QED
    BY <1>1, <1>3, <2>3, <2>4, <2>7
<1>4. CASE f.kind # "core"
  BY <1>1, <1>4 DEF Reply
<1>5. QED
  BY <1>3, <1>4

(* L2DataCache::push gives a write-back to nobody.                         *)
LEMMA NoReplyToBack ==
  ASSUME NEW f \in Backs
  PROVE  Reply(f) = replies
BY DEF Reply, Backs

(* The sets that PlaceInv is about, of kinds that cannot be mixed up.      *)
LEMMA PlaceKinds ==
  ASSUME TypeOK
  PROVE  /\ ToSet(latencyQ) \cup Held(mshr) \cup DOMAIN extra \cup Answered(replies) \subseteq Fetches
         /\ ToSet(missQ) \cup ToSet(mem) \subseteq Fetches \cup Backs
         /\ ToSet(fromXbar) \subseteq Requests
<1>1. \A k \in DOMAIN mshr : ToSet(mshr[k]) \subseteq Fetches
  BY DEF TypeOK, ToSet
<1>2. ToSet(latencyQ) \subseteq Fetches /\ ToSet(fromXbar) \subseteq Requests
  BY DEF TypeOK, ToSet
<1>3. ToSet(missQ) \subseteq Fetches \cup Backs /\ ToSet(mem) \subseteq Fetches \cup Backs
  BY DEF TypeOK, ToSet
<1>4. QED
  BY <1>1, <1>2, <1>3 DEF Held, Answered, TypeOK

(* The cache is empty.                                                     *)
LEMMA InitInvariant == Init => IInv
<1> SUFFICES ASSUME Init PROVE IInv
  OBVIOUS
<1> USE CacheAssumption DEF Init
<1>1. setup.fresh \subseteq Blocks \cup {None}
  OBVIOUS
<1>2. Invalid \in [Sectors -> States] /\ \A s \in Sectors : Invalid[s] = "INVALID"
  BY DEF Invalid, States
<1>3. line \in [1 .. Ways -> Lines]
      /\ \A w \in 1 .. Ways, s \in Sectors : line[w].status[s] = "INVALID"
  <2>1. [tag : setup.fresh, status : {Invalid}] \subseteq Lines
    BY <1>1, <1>2 DEF Lines
  <2>2. line \in [1 .. Ways -> [tag : setup.fresh, status : {Invalid}]]
    OBVIOUS
  <2>3. QED
    BY <1>2, <2>1, <2>2
<1>4. TypeOK
  <2>1. DOMAIN mshr = {} /\ DOMAIN extra = {}
    OBVIOUS
  <2>2. ports \in [Cores -> [read : Nat, write : Nat]]
    BY DEF NoPorts
  <2>3. source \in [1 .. Ways -> [Sectors -> Blocks \cup {None}]]
    OBVIOUS
  <2>4. QED
    BY <1>3, <2>1, <2>2, <2>3 DEF TypeOK
<1>5. QueueInv
  BY DEF QueueInv, Once, NoneHeldTwice
<1>6. PlaceInv
  <2>1. /\ ToSet(fromXbar) = {} /\ ToSet(latencyQ) = {} /\ ToSet(missQ) = {} /\ ToSet(mem) = {}
        /\ Held(mshr) = {} /\ DOMAIN extra = {}
    BY DEF ToSet, Held
  <2>2. Answered(replies) = {}
    BY Kinds DEF Answered
  <2>3. QED
    BY <2>1, <2>2 DEF PlaceInv, Apart
<1>7. MshrInv
  <2>1. DOMAIN mshr = {} /\ DOMAIN extra = {} /\ DOMAIN ready = {}
    OBVIOUS
  <2>2. QED
    BY <2>1 DEF MshrInv, Backed
<1>8. LineInv /\ OneReply /\ RetrySentNothing /\ LineFilledByOwnData
  <2>1. LineInv
    <3>1. DOMAIN extra = {}
      OBVIOUS
    <3>2. QED
      BY <3>1 DEF LineInv
  <2>2. LineFilledByOwnData
    BY <1>3 DEF LineFilledByOwnData
  <2>3. QED
    BY <2>1, <2>2 DEF OneReply, RetrySentNothing
<1>9. QED
  BY <1>4, <1>5, <1>6, <1>7, <1>8 DEF IInv

-----------------------------------------------------------------------------
(* The parts of the invariant, step by step.  What a step that touches     *)
(* neither the MSHRs nor the lines leaves alone.                           *)
LEMMA SameMshrs ==
  ASSUME IInv, UNCHANGED <<setup, tagVars, mshrVars>>
  PROVE  MshrInv' /\ LinesInv' /\ NoneHeldTwice(mshr)'
BY SameLines DEF IInv, TypeOK, LinesInv, MshrInv, QueueInv, tagVars, mshrVars

(* L2DataCache gets a request from the crossbar.                           *)
LEMMA ArriveStep ==
  ASSUME IInv, NEW r \in Requests, Arrive(r)
  PROVE  IInv'
<1>1. /\ arrived' = arrived \cup {r} /\ fromXbar' = Append(fromXbar, r) /\ r \notin arrived
      /\ UNCHANGED <<setup, pc, slot, ports, tagVars, mshrVars, missQ, mem, latencyQ, replies, fault>>
  BY DEF Arrive
<1>2. MshrInv' /\ LinesInv' /\ NoneHeldTwice(mshr)'
  BY <1>1, SameMshrs
<1>3. fromXbar \in Seq(Requests) /\ Once(fromXbar, Requests)
  BY DEF IInv, TypeOK, QueueInv
<1>4. r \notin ToSet(fromXbar)
  BY <1>1 DEF IInv, PlaceInv, Apart
<1>5. /\ fromXbar' \in Seq(Requests) /\ Once(fromXbar, Requests)'
      /\ ToSet(fromXbar') = ToSet(fromXbar) \cup {r}
  BY <1>1, <1>3, <1>4, AppendOnce
<1>6. PlaceInv'
  <2>1. Apart(arrived \cup {r}, ToSet(fromXbar) \cup {r}, ToSet(latencyQ), Held(mshr),
              ToSet(missQ), ToSet(mem), DOMAIN extra, Answered(replies))
    BY <1>1, ArriveApart DEF IInv, PlaceInv
  <2>2. QED
    BY <1>1, <1>5, <2>1 DEF PlaceInv, mshrVars
<1>7. TypeOK'
  BY <1>1, <1>5, <1>2 DEF IInv, TypeOK, LinesInv, mshrVars
<1>8. QED
  BY <1>1, <1>2, <1>5, <1>6, <1>7
     DEF IInv, LinesInv, QueueInv, OneReply, RetrySentNothing

(* port_free counts.                                                       *)
LEMMA CountedPorts ==
  ASSUME TypeOK, NEW r \in Requests
  PROVE  Counted(r) \in [Cores -> [read : Nat, write : Nat]]
<1>1. CoreOf[r] \in Cores /\ ports \in [Cores -> [read : Nat, write : Nat]]
  BY CacheAssumption DEF TypeOK
<1>2. QED
  BY <1>1 DEF Counted

(* The steps of the loop that leave requests where they are, save for the  *)
(* one that Cache::cycle passes from the miss queue on.                    *)
LEMMA ControlSteps ==
  ASSUME IInv, StartCycle \/ NothingToAccess \/ PortBusy
  PROVE  IInv'
<1>1. /\ pc' \in {"idle", "access", "drain"} /\ slot' \in Nat
      /\ ports' \in [Cores -> [read : Nat, write : Nat]]
      /\ UNCHANGED <<setup, arrived, fromXbar, tagVars, mshrVars, latencyQ, replies, fault>>
      /\ PassMissOn \/ UNCHANGED <<missQ, mem>>
  <2>1. slot \in Nat /\ ports \in [Cores -> [read : Nat, write : Nat]]
    BY DEF IInv, TypeOK
  <2>2. CASE StartCycle
    BY <2>1, <2>2 DEF StartCycle, NoPorts
  <2>3. CASE NothingToAccess
    BY <2>1, <2>3 DEF NothingToAccess
  <2>4. CASE PortBusy
    <3>1. pc' \in {"idle", "access"} /\ slot' \in Nat
      BY <2>1, <2>4 DEF PortBusy, NextSlot
    <3>2. Counted(Head(fromXbar)) \in [Cores -> [read : Nat, write : Nat]]
      <4>1. fromXbar \in Seq(Requests) /\ fromXbar # <<>>
        BY <2>4 DEF PortBusy, IInv, TypeOK
      <4>2. Head(fromXbar) \in Requests
        BY <4>1
      <4>3. QED
        BY <4>2, CountedPorts DEF IInv
    <3>3. QED
      BY <2>4, <3>1, <3>2 DEF PortBusy
  <2>5. QED
    BY <2>2, <2>3, <2>4
<1>2. MshrInv' /\ LinesInv' /\ NoneHeldTwice(mshr)'
  BY <1>1, SameMshrs
<1>3. /\ missQ' \in Seq(Fetches \cup Backs) /\ mem' \in Seq(Fetches \cup Backs)
      /\ Once(missQ, Fetches)' /\ Once(mem, Fetches)'
      /\ Apart(arrived, ToSet(fromXbar), ToSet(latencyQ), Held(mshr), ToSet(missQ'),
               ToSet(mem'), DOMAIN extra, Answered(replies))
  <2>1. /\ missQ \in Seq(Fetches \cup Backs) /\ mem \in Seq(Fetches \cup Backs)
        /\ Once(missQ, Fetches) /\ Once(mem, Fetches) /\ PlaceInv
    BY DEF IInv, TypeOK, QueueInv
  <2>2. CASE UNCHANGED <<missQ, mem>>
    BY <2>1, <2>2 DEF PlaceInv
  <2>3. CASE missQ # <<>> /\ missQ' = Tail(missQ) /\ mem' = Append(mem, Head(missQ))
    <3> DEFINE f == Head(missQ)
    <3>1. /\ missQ' \in Seq(Fetches \cup Backs) /\ f \in Fetches \cup Backs
          /\ ToSet(missQ) = {f} \cup ToSet(missQ') /\ Once(missQ', Fetches)
          /\ f \in Fetches => f \notin ToSet(missQ')
      BY <2>1, <2>3, TailOnce
    <3> HIDE DEF f
    <3>2. /\ Apart(arrived, ToSet(fromXbar), ToSet(latencyQ), Held(mshr), ToSet(missQ'),
                   ToSet(mem) \cup {f}, DOMAIN extra, Answered(replies))
          /\ f \in Fetches => f \notin ToSet(mem)
      BY <2>1, <3>1, PassOnApart DEF PlaceInv
    <3>3. mem' = Append(mem, f)
      BY <2>3 DEF f
    <3>4. /\ mem' \in Seq(Fetches \cup Backs) /\ ToSet(mem') = ToSet(mem) \cup {f}
          /\ Once(mem', Fetches)
      BY <2>1, <3>1, <3>2, <3>3, AppendOnce
    <3>5. QED
      BY <3>1, <3>2, <3>4
  <2>4. QED
    BY <1>1, <2>2, <2>3 DEF PassMissOn
<1>4. PlaceInv'
  BY <1>1, <1>3 DEF PlaceInv, mshrVars
<1>5. TypeOK'
  BY <1>1, <1>2, <1>3 DEF IInv, TypeOK, LinesInv, mshrVars
<1>6. QED
  BY <1>1, <1>2, <1>3, <1>4, <1>5
     DEF IInv, LinesInv, QueueInv, OneReply, RetrySentNothing

(* The request at the head of the crossbar's queue leaves it.              *)
LEMMA HeadLeaves ==
  ASSUME IInv, fromXbar # <<>>, fromXbar' = Tail(fromXbar)
  PROVE  /\ Head(fromXbar) \in Requests
         /\ fromXbar' \in Seq(Requests) /\ Once(fromXbar, Requests)'
         /\ ToSet(fromXbar) = {Head(fromXbar)} \cup ToSet(fromXbar')
         /\ Head(fromXbar) \notin ToSet(fromXbar')
<1>1. fromXbar \in Seq(Requests) /\ Once(fromXbar, Requests)
  BY DEF IInv, TypeOK, QueueInv
<1>2. QED
  BY <1>1, TailOnce

(* Until then it is nowhere else, and no fetch has been made for it.       *)
LEMMA HeadStays ==
  ASSUME IInv, fromXbar # <<>>
  PROVE  /\ Head(fromXbar) \in Requests
         /\ Core(Head(fromXbar)) \notin ToSet(latencyQ) \cup Held(mshr) \cup ToSet(missQ)
                                         \cup ToSet(mem) \cup DOMAIN extra \cup Answered(replies)
         /\ Alloc(Head(fromXbar)) \notin ToSet(latencyQ) \cup Held(mshr) \cup ToSet(missQ)
                                         \cup ToSet(mem) \cup DOMAIN extra \cup Answered(replies)
<1>1. fromXbar \in Seq(Requests)
  BY DEF IInv, TypeOK
<1>2. Head(fromXbar) \in Requests /\ Head(fromXbar) \in ToSet(fromXbar)
  BY <1>1, TailOnce
<1>3. QED
  BY <1>2, HeadIsApart DEF IInv, PlaceInv

(* A request that is not cached goes straight to memory.                   *)
LEMMA UncacheableStep ==
  ASSUME IInv, Uncacheable
  PROVE  IInv'
<1> DEFINE r == Head(fromXbar)
<1>1. /\ pc' = "drain" /\ fromXbar # <<>> /\ fromXbar' = Tail(fromXbar)
      /\ mem' = Append(mem, Core(r))
      /\ UNCHANGED <<setup, slot, arrived, ports, tagVars, mshrVars, missQ, latencyQ, replies,
                     fault>>
  BY DEF Uncacheable
<1>2. MshrInv' /\ LinesInv' /\ NoneHeldTwice(mshr)'
  BY <1>1, SameMshrs
<1>3. /\ r \in Requests /\ fromXbar' \in Seq(Requests) /\ Once(fromXbar, Requests)'
      /\ ToSet(fromXbar) = {r} \cup ToSet(fromXbar') /\ r \notin ToSet(fromXbar')
  BY <1>1, HeadLeaves
<1>4. Core(r) \notin ToSet(mem) /\ Core(r) \in Fetches \cup Backs
  BY <1>1, <1>3, HeadStays, Kinds
<1> HIDE DEF r
<1>5. mem \in Seq(Fetches \cup Backs) /\ Once(mem, Fetches)
  BY DEF IInv, TypeOK, QueueInv
<1>6. /\ mem' \in Seq(Fetches \cup Backs) /\ ToSet(mem') = ToSet(mem) \cup {Core(r)}
      /\ Once(mem', Fetches)
  BY <1>1, <1>4, <1>5, AppendOnce
<1>7. PlaceInv'
  <2>1. Apart(arrived, ToSet(fromXbar'), ToSet(latencyQ), Held(mshr), ToSet(missQ),
              ToSet(mem) \cup {Core(r)}, DOMAIN extra, Answered(replies))
    BY <1>3, SendApart DEF IInv, PlaceInv
  <2>2. QED
    BY <1>1, <1>6, <2>1 DEF PlaceInv, mshrVars
<1>8. TypeOK'
  BY <1>1, <1>2, <1>3, <1>6 DEF IInv, TypeOK, LinesInv, mshrVars
<1>9. QED
  BY <1>1, <1>2, <1>3, <1>6, <1>7, <1>8
     DEF IInv, LinesInv, QueueInv, OneReply, RetrySentNothing

-----------------------------------------------------------------------------
(* What every access to the cache does besides its outcome.                *)
LEMMA AccessFrame ==
  ASSUME IInv, NEW r, Accessing(r)
  PROVE  /\ r \in Requests /\ r = Head(fromXbar) /\ fromXbar # <<>>
         /\ pc' \in {"idle", "access", "drain"} /\ slot' \in Nat
         /\ ports' \in [Cores -> [read : Nat, write : Nat]]
         /\ UNCHANGED <<setup, slot, arrived, mem, ready, replies>>
<1>1. /\ r = Head(fromXbar) /\ fromXbar # <<>> /\ pc' = "drain" /\ ports' = Counted(r)
      /\ UNCHANGED <<setup, slot, arrived, mem, ready, replies>>
  BY DEF Accessing
<1>2. r \in Requests
  BY <1>1, HeadStays
<1>3. TypeOK
  BY DEF IInv
<1>4. ports' \in [Cores -> [read : Nat, write : Nat]]
  BY <1>1, <1>2, <1>3, CountedPorts
<1>5. slot' \in Nat
  BY <1>1, <1>3 DEF TypeOK
<1>6. QED
  BY <1>1, <1>2, <1>4, <1>5

(* RESERVATION_FAIL: the request stays where it is.                        *)
LEMMA RetryStep ==
  ASSUME IInv, NEW r, Accessing(r), Retry
  PROVE  IInv'
<1>1. /\ pc' \in {"idle", "access", "drain"} /\ slot' \in Nat
      /\ ports' \in [Cores -> [read : Nat, write : Nat]]
      /\ UNCHANGED <<setup, slot, arrived, mem, ready, replies>>
  BY AccessFrame
<1>2. UNCHANGED <<fromXbar, tagVars, mshrVars, missQ, latencyQ, fault>>
  BY <1>1 DEF Retry, mshrVars
<1>3. MshrInv' /\ LinesInv' /\ NoneHeldTwice(mshr)'
  BY <1>1, <1>2, SameMshrs
<1>4. PlaceInv'
  BY <1>1, <1>2 DEF IInv, PlaceInv, mshrVars
<1>5. TypeOK'
  BY <1>1, <1>2, <1>3 DEF IInv, TypeOK, LinesInv, mshrVars
<1>6. QED
  BY <1>1, <1>2, <1>3, <1>4, <1>5
     DEF IInv, LinesInv, QueueInv, OneReply, RetrySentNothing

(* A hit goes to the latency queue.                                        *)
LEMMA HitStep ==
  ASSUME IInv, NEW r, Accessing(r), Takes(r), AnswerHit(r), LinesInv',
         UNCHANGED <<mshr, extra, missQ>>
  PROVE  IInv'
<1>1. /\ r \in Requests /\ r = Head(fromXbar) /\ fromXbar # <<>>
      /\ pc' \in {"idle", "access", "drain"} /\ slot' \in Nat
      /\ ports' \in [Cores -> [read : Nat, write : Nat]]
      /\ UNCHANGED <<setup, slot, arrived, mem, ready, replies>>
  BY AccessFrame
<1>2. fromXbar' = Tail(fromXbar) /\ fault' = fault /\ latencyQ' = Append(latencyQ, Core(r))
  BY DEF Takes, AnswerHit
<1>3. /\ fromXbar' \in Seq(Requests) /\ Once(fromXbar, Requests)'
      /\ ToSet(fromXbar) = {r} \cup ToSet(fromXbar') /\ r \notin ToSet(fromXbar')
  BY <1>1, <1>2, HeadLeaves
<1>4. Core(r) \notin ToSet(latencyQ) /\ Core(r) \in Fetches
  BY <1>1, HeadStays, Kinds
<1>5. latencyQ \in Seq(Fetches) /\ Once(latencyQ, Fetches)
  BY DEF IInv, TypeOK, QueueInv
<1>6. /\ latencyQ' \in Seq(Fetches) /\ ToSet(latencyQ') = ToSet(latencyQ) \cup {Core(r)}
      /\ Once(latencyQ', Fetches)
  BY <1>2, <1>4, <1>5, AppendOnce
<1>7. PlaceInv'
  <2>1. Apart(arrived, ToSet(fromXbar'), ToSet(latencyQ) \cup {Core(r)}, Held(mshr),
              ToSet(missQ), ToSet(mem), DOMAIN extra, Answered(replies))
    BY <1>1, <1>3, HitApart DEF IInv, PlaceInv
  <2>2. QED
    BY <1>1, <1>6, <2>1 DEF PlaceInv
<1>8. TypeOK'
  BY <1>1, <1>3, <1>6 DEF IInv, TypeOK, LinesInv
<1>9. MshrInv' /\ QueueInv'
  BY <1>1, <1>3, <1>6 DEF IInv, MshrInv, QueueInv
<1>10. QED
  BY <1>1, <1>2, <1>7, <1>8, <1>9 DEF IInv, LinesInv, OneReply, RetrySentNothing

(* A write that is sent on and allocates nothing.                          *)
LEMMA WriteOnStep ==
  ASSUME IInv, NEW r, Accessing(r), Takes(r), AnswerOfMemory(r),
         send_write_request(Core(r)), LinesInv', UNCHANGED <<mshr, extra>>
  PROVE  IInv'
<1>1. /\ r \in Requests /\ r = Head(fromXbar) /\ fromXbar # <<>>
      /\ pc' \in {"idle", "access", "drain"} /\ slot' \in Nat
      /\ ports' \in [Cores -> [read : Nat, write : Nat]]
      /\ UNCHANGED <<setup, slot, arrived, mem, ready, replies>>
  BY AccessFrame
<1>2. /\ fromXbar' = Tail(fromXbar) /\ fault' = fault /\ latencyQ' = latencyQ
      /\ missQ' = Append(missQ, Core(r))
  BY DEF Takes, AnswerOfMemory, send_write_request
<1>3. /\ fromXbar' \in Seq(Requests) /\ Once(fromXbar, Requests)'
      /\ ToSet(fromXbar) = {r} \cup ToSet(fromXbar') /\ r \notin ToSet(fromXbar')
  BY <1>1, <1>2, HeadLeaves
<1>4. Core(r) \notin ToSet(missQ) /\ Core(r) \in Fetches \cup Backs
  BY <1>1, HeadStays, Kinds
<1>5. missQ \in Seq(Fetches \cup Backs) /\ Once(missQ, Fetches)
  BY DEF IInv, TypeOK, QueueInv
<1>6. /\ missQ' \in Seq(Fetches \cup Backs) /\ ToSet(missQ') = ToSet(missQ) \cup {Core(r)}
      /\ Once(missQ', Fetches)
  BY <1>2, <1>4, <1>5, AppendOnce
<1>7. PlaceInv'
  <2>1. Apart(arrived, ToSet(fromXbar'), ToSet(latencyQ), Held(mshr),
              ToSet(missQ) \cup {Core(r)}, ToSet(mem), DOMAIN extra, Answered(replies))
    BY <1>1, <1>3, SendApart DEF IInv, PlaceInv
  <2>2. QED
    BY <1>1, <1>2, <1>6, <2>1 DEF PlaceInv
<1>8. TypeOK'
  BY <1>1, <1>2, <1>3, <1>6 DEF IInv, TypeOK, LinesInv
<1>9. MshrInv' /\ QueueInv'
  BY <1>1, <1>2, <1>3, <1>6 DEF IInv, MshrInv, QueueInv
<1>10. QED
  BY <1>1, <1>2, <1>7, <1>8, <1>9 DEF IInv, LinesInv, OneReply, RetrySentNothing

(* A miss that is read joins its MSHR.  Only the access that makes the     *)
(* entry is sent to memory; write-backs may follow.                        *)
LEMMA SendReadStep ==
  ASSUME IInv, NEW k \in Keys, NEW p \in Probes(k),
         p.status \in {"HIT_RESERVED", "SECTOR_MISS", "MISS"},
         NEW f \in Fetches, f \notin Held(mshr) \cup DOMAIN extra,
         NEW q \in Seq(Fetches \cup Backs), Once(q, Fetches), f \notin ToSet(q),
         SendRead(f, k, p, q), UNCHANGED <<setup, source, ready>>
  PROVE  /\ LinesInv' /\ MshrInv' /\ NoneHeldTwice(mshr)'
         /\ DOMAIN mshr' \subseteq Keys
         /\ \A l \in DOMAIN mshr' : mshr'[l] \in Seq(Fetches) /\ mshr'[l] # <<>>
         /\ DOMAIN extra' \subseteq Fetches
         /\ \A g \in DOMAIN extra' : extra'[g] \in [key : Keys, way : 1 .. Ways]
         /\ missQ' \in Seq(Fetches \cup Backs) /\ Once(missQ, Fetches)'
         /\ Held(mshr') = Held(mshr) \cup {f}
         /\ \E W \in SUBSET Backs :
              \/ DOMAIN extra' = DOMAIN extra /\ ToSet(missQ') = ToSet(q) \cup W
              \/ /\ DOMAIN extra' = DOMAIN extra \cup {f}
                 /\ ToSet(missQ') = (ToSet(q) \cup {f}) \cup W
<1> DEFINE b == WriteBacks(p)
           W == ToSet(b)
           x == [key |-> k, way |-> p.way]
<1>1. /\ TypeOK /\ LinesInv /\ MshrInv /\ NoneHeldTwice(mshr)
  BY DEF IInv, TypeOK, LinesInv, QueueInv
<1>2. /\ p.way \in 1 .. Ways /\ x \in [key : Keys, way : 1 .. Ways] /\ x.key = k
  BY <1>1, ProbeFinds
<1>3. b \in Seq(Fetches \cup Backs) /\ W \subseteq Backs
  BY <1>1, <1>2, WriteBackRequests
<1>4. W \cap Fetches = {}
  BY <1>3, Kinds
<1>5. /\ Access(p, k) /\ mshr' = Merge(k, f)
      /\ \/ k \in DOMAIN mshr /\ extra' = extra /\ missQ' = q \o b
         \/ /\ k \notin DOMAIN mshr
            /\ extra' = [g \in DOMAIN extra \cup {f} |-> IF g = f THEN x ELSE extra[g]]
            /\ missQ' = Append(q, f) \o b
  BY DEF SendRead
<1> HIDE DEF b, W
<1>6. f \notin Held(mshr)
  OBVIOUS
<1>7. /\ DOMAIN mshr' = DOMAIN mshr \cup {k}
      /\ \A l \in DOMAIN mshr' : mshr'[l] \in Seq(Fetches) /\ mshr'[l] # <<>>
      /\ Held(mshr') = Held(mshr) \cup {f} /\ NoneHeldTwice(mshr')
  <2>1. /\ DOMAIN Merge(k, f) = DOMAIN mshr \cup {k}
        /\ \A l \in DOMAIN Merge(k, f) :
             Merge(k, f)[l] \in Seq(Fetches) /\ Merge(k, f)[l] # <<>>
        /\ Held(Merge(k, f)) = Held(mshr) \cup {f}
        /\ NoneHeldTwice(Merge(k, f))
    BY <1>1, <1>6, MergeTable
  <2>2. QED
    BY <1>5, <2>1
<1>8. /\ \A g \in DOMAIN extra : extra[g] \in [key : Keys, way : 1 .. Ways]
      /\ DOMAIN extra \subseteq Fetches /\ DOMAIN mshr \subseteq Keys
  BY <1>1 DEF TypeOK
<1>9. \A g \in DOMAIN extra' : \/ g \in DOMAIN extra /\ extra'[g] = extra[g]
                               \/ g = f /\ extra'[g] = x
  BY <1>5
<1>10. LinesInv'
  BY <1>1, <1>5, <1>9, SendReadLines
<1>11. /\ DOMAIN extra' \subseteq Fetches
       /\ \A g \in DOMAIN extra' : extra'[g] \in [key : Keys, way : 1 .. Ways]
  BY <1>2, <1>8, <1>9
<1>12. MshrInv'
  <2>1. Backed(DOMAIN mshr, extra, ready)
    BY <1>1 DEF MshrInv
  <2>2. CASE k \in DOMAIN mshr
    BY <1>5, <1>7, <2>1, <2>2 DEF MshrInv
  <2>3. CASE k \notin DOMAIN mshr
    <3>1. /\ DOMAIN extra' = DOMAIN extra \cup {f} /\ f \notin DOMAIN extra
          /\ extra'[f].key = k /\ \A g \in DOMAIN extra : extra'[g] = extra[g]
      BY <1>2, <1>5, <2>3
    <3>2. Backed(DOMAIN mshr \cup {k}, extra', ready)
      BY <2>1, <2>3, <3>1, SendBacked
    <3>3. QED
      BY <1>7, <3>2 DEF MshrInv
  <2>4. QED
    BY <2>2, <2>3
<1>13. /\ missQ' \in Seq(Fetches \cup Backs) /\ Once(missQ', Fetches)
       /\ \E V \in SUBSET Backs :
            \/ DOMAIN extra' = DOMAIN extra /\ ToSet(missQ') = ToSet(q) \cup V
            \/ /\ DOMAIN extra' = DOMAIN extra \cup {f}
               /\ ToSet(missQ') = (ToSet(q) \cup {f}) \cup V
  <2>1. CASE k \in DOMAIN mshr
    <3>1. missQ' = q \o b /\ DOMAIN extra' = DOMAIN extra
      BY <1>5, <2>1
    <3>2. /\ missQ' \in Seq(Fetches \cup Backs) /\ Once(missQ', Fetches)
          /\ ToSet(missQ') = ToSet(q) \cup W
      BY <1>3, <1>4, <3>1, ConcatOnce DEF W
    <3>3. QED
      BY <1>3, <3>1, <3>2
  <2>2. CASE k \notin DOMAIN mshr
    <3> DEFINE s == Append(q, f)
    <3>1. missQ' = s \o b /\ DOMAIN extra' = DOMAIN extra \cup {f}
      BY <1>5, <2>2
    <3>2. /\ s \in Seq(Fetches \cup Backs) /\ ToSet(s) = ToSet(q) \cup {f} /\ Once(s, Fetches)
      BY AppendOnce
    <3> HIDE DEF s
    <3>3. /\ missQ' \in Seq(Fetches \cup Backs) /\ Once(missQ', Fetches)
          /\ ToSet(missQ') = ToSet(s) \cup W
      BY <1>3, <1>4, <3>1, <3>2, ConcatOnce DEF W
    <3>4. QED
      BY <1>3, <3>1, <3>2, <3>3
  <2>3. QED
    BY <2>1, <2>2
<1>14. QED
  BY <1>7, <1>8, <1>10, <1>11, <1>12, <1>13

(* A read miss that finds room waits in an MSHR, and nowhere else.         *)
LEMMA ReadStep ==
  ASSUME IInv, NEW r, Accessing(r), NEW p \in Probes(Key(r)),
         p.status \in {"HIT_RESERVED", "SECTOR_MISS", "MISS"},
         SendRead(Core(r), Key(r), p, missQ), Takes(r), UNCHANGED <<latencyQ, source>>
  PROVE  IInv'
<1> DEFINE f == Core(r)
<1>1. /\ r \in Requests /\ r = Head(fromXbar) /\ fromXbar # <<>>
      /\ pc' \in {"idle", "access", "drain"} /\ slot' \in Nat
      /\ ports' \in [Cores -> [read : Nat, write : Nat]]
      /\ UNCHANGED <<setup, slot, arrived, mem, ready, replies>>
  BY AccessFrame
<1>2. fromXbar' = Tail(fromXbar) /\ fault' = fault
  BY DEF Takes
<1>3. /\ fromXbar' \in Seq(Requests) /\ Once(fromXbar, Requests)'
      /\ ToSet(fromXbar) = {r} \cup ToSet(fromXbar') /\ r \notin ToSet(fromXbar')
  BY <1>1, <1>2, HeadLeaves
<1>4. /\ f \notin ToSet(missQ) /\ f \notin Held(mshr) \cup DOMAIN extra /\ f \in Fetches
  BY <1>1, HeadStays, Kinds
<1>5. /\ missQ \in Seq(Fetches \cup Backs) /\ Once(missQ, Fetches) /\ Key(r) \in Keys
      /\ UNCHANGED <<setup, source, ready>> /\ TypeOK
  BY <1>1, KeyOfRequest DEF IInv, TypeOK, QueueInv
<1> HIDE DEF f
<1>6. SendRead(f, Key(r), p, missQ)
  BY DEF f
<1>7. /\ LinesInv' /\ MshrInv' /\ NoneHeldTwice(mshr)'
      /\ DOMAIN mshr' \subseteq Keys
      /\ \A l \in DOMAIN mshr' : mshr'[l] \in Seq(Fetches) /\ mshr'[l] # <<>>
      /\ DOMAIN extra' \subseteq Fetches
      /\ \A g \in DOMAIN extra' : extra'[g] \in [key : Keys, way : 1 .. Ways]
      /\ missQ' \in Seq(Fetches \cup Backs) /\ Once(missQ, Fetches)'
      /\ Held(mshr') = Held(mshr) \cup {f}
      /\ \E W \in SUBSET Backs :
           \/ DOMAIN extra' = DOMAIN extra /\ ToSet(missQ') = ToSet(missQ) \cup W
           \/ /\ DOMAIN extra' = DOMAIN extra \cup {f}
              /\ ToSet(missQ') = (ToSet(missQ) \cup {f}) \cup W
  BY <1>4, <1>5, <1>6, SendReadStep
<1>8. PICK W \in SUBSET Backs :
        \/ DOMAIN extra' = DOMAIN extra /\ ToSet(missQ') = ToSet(missQ) \cup W
        \/ /\ DOMAIN extra' = DOMAIN extra \cup {f}
           /\ ToSet(missQ') = (ToSet(missQ) \cup {f}) \cup W
  BY <1>7
<1>9. PlaceInv'
  <2>1. /\ Apart(arrived, ToSet(fromXbar), ToSet(latencyQ), Held(mshr), ToSet(missQ),
                 ToSet(mem), DOMAIN extra, Answered(replies))
        /\ ToSet(latencyQ) \cup Held(mshr) \cup DOMAIN extra \cup Answered(replies) \subseteq Fetches
    BY <1>5, PlaceKinds DEF IInv, PlaceInv
  <2>2. /\ Apart(arrived, ToSet(fromXbar'), ToSet(latencyQ), Held(mshr) \cup {f},
                 ToSet(missQ) \cup W, ToSet(mem), DOMAIN extra, Answered(replies))
        /\ Apart(arrived, ToSet(fromXbar'), ToSet(latencyQ), Held(mshr) \cup {f},
                 (ToSet(missQ) \cup {f}) \cup W, ToSet(mem), DOMAIN extra \cup {f},
                 Answered(replies))
    BY <1>1, <1>3, <2>1, ReadApart DEF f
  <2>3. Apart(arrived, ToSet(fromXbar'), ToSet(latencyQ), Held(mshr'), ToSet(missQ'),
              ToSet(mem), DOMAIN extra', Answered(replies))
    BY <1>7, <1>8, <2>2
  <2>4. QED
    BY <1>1, <2>3 DEF PlaceInv
<1>10. TypeOK'
  BY <1>1, <1>3, <1>5, <1>7 DEF TypeOK, LinesInv
<1>11. QueueInv'
  BY <1>1, <1>3, <1>7 DEF IInv, QueueInv
<1>12. QED
  BY <1>1, <1>2, <1>7, <1>9, <1>10, <1>11 DEF IInv, LinesInv, OneReply, RetrySentNothing

(* A write miss that allocates is sent to memory as well, ahead of its     *)
(* fetch.                                                                  *)
LEMMA AllocateStep ==
  ASSUME IInv, NEW r, Accessing(r), NEW p \in Probes(Key(r)),
         p.status \in {"HIT_RESERVED", "SECTOR_MISS", "MISS"},
         SendRead(Alloc(r), Key(r), p, Append(missQ, Core(r))), Takes(r),
         UNCHANGED <<latencyQ, source>>
  PROVE  IInv'
<1> DEFINE c == Core(r)
           f == Alloc(r)
           q == Append(missQ, c)
<1>1. /\ r \in Requests /\ r = Head(fromXbar) /\ fromXbar # <<>>
      /\ pc' \in {"idle", "access", "drain"} /\ slot' \in Nat
      /\ ports' \in [Cores -> [read : Nat, write : Nat]]
      /\ UNCHANGED <<setup, slot, arrived, mem, ready, replies>>
  BY AccessFrame
<1>2. fromXbar' = Tail(fromXbar) /\ fault' = fault
  BY DEF Takes
<1>3. /\ fromXbar' \in Seq(Requests) /\ Once(fromXbar, Requests)'
      /\ ToSet(fromXbar) = {r} \cup ToSet(fromXbar') /\ r \notin ToSet(fromXbar')
  BY <1>1, <1>2, HeadLeaves
<1>4. /\ c \notin ToSet(missQ) /\ f \notin ToSet(missQ) /\ c \in Fetches /\ c # f
      /\ f \notin Held(mshr) \cup DOMAIN extra /\ f \in Fetches
  BY <1>1, HeadStays, Kinds
<1>5. /\ missQ \in Seq(Fetches \cup Backs) /\ Once(missQ, Fetches) /\ Key(r) \in Keys
      /\ UNCHANGED <<setup, source, ready>> /\ TypeOK
  BY <1>1, KeyOfRequest DEF IInv, TypeOK, QueueInv
<1> HIDE DEF c, f
<1>6. /\ q \in Seq(Fetches \cup Backs) /\ ToSet(q) = ToSet(missQ) \cup {c} /\ Once(q, Fetches)
  BY <1>4, <1>5, AppendOnce
<1>7. SendRead(f, Key(r), p, q)
  BY DEF c, f
<1> HIDE DEF q
<1>8. f \notin ToSet(q)
  BY <1>4, <1>6
<1>9. /\ LinesInv' /\ MshrInv' /\ NoneHeldTwice(mshr)'
      /\ DOMAIN mshr' \subseteq Keys
      /\ \A l \in DOMAIN mshr' : mshr'[l] \in Seq(Fetches) /\ mshr'[l] # <<>>
      /\ DOMAIN extra' \subseteq Fetches
      /\ \A g \in DOMAIN extra' : extra'[g] \in [key : Keys, way : 1 .. Ways]
      /\ missQ' \in Seq(Fetches \cup Backs) /\ Once(missQ, Fetches)'
      /\ Held(mshr') = Held(mshr) \cup {f}
      /\ \E W \in SUBSET Backs :
           \/ DOMAIN extra' = DOMAIN extra /\ ToSet(missQ') = ToSet(q) \cup W
           \/ /\ DOMAIN extra' = DOMAIN extra \cup {f}
              /\ ToSet(missQ') = (ToSet(q) \cup {f}) \cup W
  BY <1>4, <1>5, <1>6, <1>7, <1>8, SendReadStep
<1>10. PICK W \in SUBSET Backs :
         \/ DOMAIN extra' = DOMAIN extra /\ ToSet(missQ') = ToSet(q) \cup W
         \/ /\ DOMAIN extra' = DOMAIN extra \cup {f}
            /\ ToSet(missQ') = (ToSet(q) \cup {f}) \cup W
  BY <1>9
<1>11. PlaceInv'
  <2>1. /\ Apart(arrived, ToSet(fromXbar), ToSet(latencyQ), Held(mshr), ToSet(missQ),
                 ToSet(mem), DOMAIN extra, Answered(replies))
        /\ ToSet(latencyQ) \cup Held(mshr) \cup DOMAIN extra \cup Answered(replies) \subseteq Fetches
    BY <1>5, PlaceKinds DEF IInv, PlaceInv
  <2>2. /\ Apart(arrived, ToSet(fromXbar'), ToSet(latencyQ), Held(mshr) \cup {f},
                 (ToSet(missQ) \cup {c}) \cup W, ToSet(mem), DOMAIN extra, Answered(replies))
        /\ Apart(arrived, ToSet(fromXbar'), ToSet(latencyQ), Held(mshr) \cup {f},
                 ((ToSet(missQ) \cup {c}) \cup {f}) \cup W, ToSet(mem), DOMAIN extra \cup {f},
                 Answered(replies))
    BY <1>1, <1>3, <2>1, AllocateApart DEF c, f
  <2>3. Apart(arrived, ToSet(fromXbar'), ToSet(latencyQ), Held(mshr'), ToSet(missQ'),
              ToSet(mem), DOMAIN extra', Answered(replies))
    BY <1>6, <1>9, <1>10, <2>2
  <2>4. QED
    BY <1>1, <2>3 DEF PlaceInv
<1>12. TypeOK'
  BY <1>1, <1>3, <1>5, <1>9 DEF TypeOK, LinesInv
<1>13. QueueInv'
  BY <1>1, <1>3, <1>9 DEF IInv, QueueInv
<1>14. QED
  BY <1>1, <1>2, <1>9, <1>11, <1>12, <1>13 DEF IInv, LinesInv, OneReply, RetrySentNothing

(* L2DataCache::cycle, the access of a slot: each outcome of the probe and *)
(* each write policy.  A write that allocates never finds the miss queue   *)
(* too full for its read once there was room for two.                      *)
LEMMA AccessStep ==
  ASSUME IInv, NEW r \in Requests, NEW p \in Probes(Key(r)), CacheAccess(r, p)
  PROVE  IInv'
<1> DEFINE k == Key(r)
<1>1. /\ Accessing(r) /\ process_tag_probe(r, p) /\ k \in Keys /\ TypeOK /\ LinesInv
      /\ UNCHANGED setup
  BY KeyOfRequest DEF CacheAccess, IInv, TypeOK, LinesInv, Accessing
<1>2. CASE Retry
  BY <1>1, <1>2, RetryStep
<1>3. p.way \in 1 .. Ways
  BY <1>1, ProbeFinds
<1>4. /\ p.status \in {"HIT", "HIT_RESERVED", "SECTOR_MISS", "MISS", "RESERVATION_FAIL"}
      /\ p.status = "HIT" => line[p.way].status[k[2]] # "RESERVED"
  BY <1>1, ProbeFinds DEF StatusOf
<1> HIDE DEF k
<1>5. CASE p.status = "HIT" /\ rd_hit_base(r, p)
  <2>1. /\ Takes(r) /\ AnswerHit(r) /\ UNCHANGED <<mshr, extra, missQ>>
        /\ UNCHANGED <<line, source>>
    BY <1>5 DEF rd_hit_base, tagVars
  <2>2. LinesInv'
    BY <1>1, <2>1, SameLines
  <2>3. QED
    BY <1>1, <2>1, <2>2, HitStep
<1>6. CASE p.status = "HIT" /\ wr_hit_wb(r, p)
  <2>1. /\ Takes(r) /\ AnswerHit(r) /\ UNCHANGED <<mshr, extra, missQ>>
        /\ SetStatus(p, k, "MODIFIED") /\ SetSource(p, k)
    BY <1>6 DEF wr_hit_wb, k
  <2>2. LinesInv'
    BY <1>1, <1>3, <1>4, <1>6, <2>1, SetStatusLines
  <2>3. QED
    BY <1>1, <2>1, <2>2, HitStep
<1>7. CASE p.status = "HIT" /\ wr_hit_wt(r, p) /\ ~Retry
  <2>1. /\ Takes(r) /\ AnswerOfMemory(r) /\ send_write_request(Core(r))
        /\ UNCHANGED <<mshr, extra>> /\ SetStatus(p, k, "MODIFIED") /\ SetSource(p, k)
    BY <1>7 DEF wr_hit_wt, k
  <2>2. LinesInv'
    BY <1>1, <1>3, <1>4, <1>7, <2>1, SetStatusLines
  <2>3. QED
    BY <1>1, <2>1, <2>2, WriteOnStep
<1>8. CASE p.status = "HIT" /\ wr_hit_we(r, p) /\ ~Retry
  <2>1. /\ Takes(r) /\ AnswerOfMemory(r) /\ send_write_request(Core(r))
        /\ UNCHANGED <<mshr, extra, source>> /\ SetStatus(p, k, "INVALID")
    BY <1>8 DEF wr_hit_we, k
  <2>2. LinesInv'
    BY <1>1, <1>3, <1>4, <1>8, <2>1, SetStatusLines
  <2>3. QED
    BY <1>1, <2>1, <2>2, WriteOnStep
<1>9. CASE wr_miss_no_wa(r, p) /\ ~Retry
  <2>1. /\ Takes(r) /\ AnswerOfMemory(r) /\ send_write_request(Core(r))
        /\ UNCHANGED <<mshr, extra>> /\ UNCHANGED <<line, source>>
    BY <1>9 DEF wr_miss_no_wa, tagVars
  <2>2. LinesInv'
    BY <1>1, <2>1, SameLines
  <2>3. QED
    BY <1>1, <2>1, <2>2, WriteOnStep
<1>10. CASE /\ p.status \in {"HIT_RESERVED", "SECTOR_MISS", "MISS"}
            /\ rd_miss_base(r, p) /\ ~Retry
  <2>1. SendRead(Core(r), k, p, missQ) /\ Takes(r) /\ UNCHANGED <<latencyQ, source>>
    BY <1>10 DEF rd_miss_base, k
  <2>2. QED
    BY <1>1, <1>10, <2>1, ReadStep DEF k
<1>11. CASE /\ p.status \in {"HIT_RESERVED", "SECTOR_MISS", "MISS"}
            /\ wr_miss_wa_naive(r, p) /\ ~Retry
  <2> DEFINE sent == Append(missQ, Core(r))
  <2>1. /\ ~MissQueueFull(missQ, 2) /\ ~Full(k)
        /\ CanRead(k, sent) => SendRead(Alloc(r), k, p, sent) /\ Takes(r)
        /\ UNCHANGED <<latencyQ, source>>
    BY <1>11 DEF wr_miss_wa_naive, k
  <2>2. ~MissQueueFull(sent, 0)
    <3>1. missQ \in Seq(Fetches \cup Backs) /\ Core(r) \in Fetches \cup Backs
      BY <1>1, Kinds DEF TypeOK
    <3>2. Len(sent) = Len(missQ) + 1 /\ Len(missQ) \in Nat /\ MissQueueSize \in Nat
      BY <3>1, CacheAssumption
    <3> HIDE DEF sent
    <3>3. QED
      BY <2>1, <3>2 DEF MissQueueFull
  <2>3. CanRead(k, sent)
    BY <2>1, <2>2 DEF CanRead
  <2>4. SendRead(Alloc(r), k, p, Append(missQ, Core(r))) /\ Takes(r)
    BY <2>1, <2>3
  <2>5. QED
    BY <1>1, <1>11, <2>1, <2>4, AllocateStep DEF k
<1>12. QED
  <2>1. process_tag_probe(r, p)
    BY <1>1
  <2>2. CASE p.status = "HIT"
    BY <1>2, <1>5, <1>6, <1>7, <1>8, <2>1, <2>2 DEF process_tag_probe, m_wr_hit
  <2>3. CASE p.status # "HIT" /\ p.status # "RESERVATION_FAIL"
    BY <1>2, <1>4, <1>9, <1>10, <1>11, <2>1, <2>3 DEF process_tag_probe, m_wr_miss
  <2>4. CASE p.status = "RESERVATION_FAIL"
    BY <1>2, <1>9, <2>1, <2>4 DEF process_tag_probe, m_wr_miss
  <2>5. QED
    BY <2>2, <2>3, <2>4

-----------------------------------------------------------------------------
(* The second half of a slot: one access leaves the MSHRs, if one of them  *)
(* is ready, ...                                                           *)
LEMMA DrainStep ==
  ASSUME IInv, NEW k, k = Head(ready), NEW queue,
         queue = IF ready = <<>> THEN latencyQ ELSE Append(latencyQ, TopNextAccess(k)),
         IF ready = <<>> THEN UNCHANGED <<mshr, ready>>
         ELSE /\ mshr' = Popped(k)
              /\ ready' = IF Len(mshr[k]) > 1 THEN ready ELSE Tail(ready)
  PROVE  /\ queue \in Seq(Fetches) /\ Once(queue, Fetches)
         /\ DOMAIN mshr' \subseteq Keys
         /\ \A l \in DOMAIN mshr' : mshr'[l] \in Seq(Fetches) /\ mshr'[l] # <<>>
         /\ NoneHeldTwice(mshr')
         /\ ready' \in Seq(Keys) /\ Backed(DOMAIN mshr', extra, ready')
         /\ Apart(arrived, ToSet(fromXbar), ToSet(queue), Held(mshr'), ToSet(missQ),
                  ToSet(mem), DOMAIN extra, Answered(replies))
<1>1. /\ TypeOK /\ NoneHeldTwice(mshr) /\ Backed(DOMAIN mshr, extra, ready)
      /\ Apart(arrived, ToSet(fromXbar), ToSet(latencyQ), Held(mshr), ToSet(missQ),
               ToSet(mem), DOMAIN extra, Answered(replies))
      /\ Once(latencyQ, Fetches)
  BY DEF IInv, QueueInv, MshrInv, PlaceInv
<1>2. /\ latencyQ \in Seq(Fetches) /\ ready \in Seq(Keys) /\ DOMAIN mshr \subseteq Keys
      /\ \A l \in DOMAIN mshr : mshr[l] \in Seq(Fetches) /\ mshr[l] # <<>>
  BY <1>1 DEF TypeOK
<1>3. CASE ready = <<>>
  BY <1>1, <1>2, <1>3
<1>4. CASE ready # <<>>
  <2> DEFINE f == TopNextAccess(k)
  <2>1. /\ queue = Append(latencyQ, f) /\ mshr' = Popped(k)
        /\ ready' = IF Len(mshr[k]) > 1 THEN ready ELSE Tail(ready)
    BY <1>4
  <2>2. k \in DOMAIN mshr /\ Backed(DOMAIN mshr \ {k}, extra, Tail(ready))
    BY <1>1, <1>2, <1>4, PopBacked
  <2>3. /\ DOMAIN mshr' = IF Len(mshr[k]) > 1 THEN DOMAIN mshr ELSE DOMAIN mshr \ {k}
        /\ \A l \in DOMAIN mshr' : mshr'[l] \in Seq(Fetches) /\ mshr'[l] # <<>>
        /\ f \in Fetches /\ f \in Held(mshr)
        /\ Held(mshr') = Held(mshr) \ {f}
        /\ NoneHeldTwice(mshr')
    <3>1. /\ DOMAIN Popped(k) = IF Len(mshr[k]) > 1 THEN DOMAIN mshr ELSE DOMAIN mshr \ {k}
          /\ \A l \in DOMAIN Popped(k) : Popped(k)[l] \in Seq(Fetches) /\ Popped(k)[l] # <<>>
          /\ f \in Fetches /\ f \in Held(mshr)
          /\ Held(Popped(k)) = Held(mshr) \ {f}
          /\ NoneHeldTwice(Popped(k))
      BY <1>1, <2>2, PoppedTable
    <3>2. QED
      BY <2>1, <3>1
  <2> HIDE DEF f
  <2>4. Tail(ready) \in Seq(Keys)
    BY <1>2, <1>4
  <2>5. ready' \in Seq(Keys) /\ Backed(DOMAIN mshr', extra, ready')
    BY <1>1, <1>2, <2>1, <2>2, <2>3, <2>4
  <2>6. /\ Apart(arrived, ToSet(fromXbar), ToSet(latencyQ) \cup {f}, Held(mshr) \ {f},
                 ToSet(missQ), ToSet(mem), DOMAIN extra, Answered(replies))
        /\ f \notin ToSet(latencyQ)
    BY <1>1, <2>3, DrainApart
  <2>7. /\ queue \in Seq(Fetches) /\ ToSet(queue) = ToSet(latencyQ) \cup {f}
        /\ Once(queue, Fetches)
    BY <1>1, <1>2, <2>1, <2>3, <2>6, AppendOnce
  <2>8. QED
    BY <1>2, <2>3, <2>5, <2>6, <2>7
<1>5. QED
  BY <1>3, <1>4

(* ... and the head of the latency queue is given to its core.             *)
LEMMA DeliverStep ==
  ASSUME IInv, NEW queue \in Seq(Fetches), Once(queue, Fetches), NEW H,
         Apart(arrived, ToSet(fromXbar), ToSet(queue), H, ToSet(missQ),
               ToSet(mem), DOMAIN extra, Answered(replies)),
         \/ latencyQ' = queue /\ replies' = replies
         \/ queue # <<>> /\ latencyQ' = Tail(queue) /\ replies' = Reply(Head(queue))
  PROVE  /\ latencyQ' \in Seq(Fetches) /\ Once(latencyQ', Fetches)
         /\ replies' \in [Requests -> Nat] /\ OneReply'
         /\ Apart(arrived, ToSet(fromXbar), ToSet(latencyQ'), H, ToSet(missQ),
                  ToSet(mem), DOMAIN extra, Answered(replies'))
<1>1. TypeOK /\ OneReply /\ replies \in [Requests -> Nat]
  BY DEF IInv, TypeOK
<1>2. CASE latencyQ' = queue /\ replies' = replies
  BY <1>1, <1>2 DEF OneReply
<1>3. CASE queue # <<>> /\ latencyQ' = Tail(queue) /\ replies' = Reply(Head(queue))
  <2> DEFINE f == Head(queue)
  <2>1. /\ latencyQ' \in Seq(Fetches) /\ f \in Fetches /\ Once(latencyQ', Fetches)
        /\ ToSet(queue) = {f} \cup ToSet(latencyQ') /\ f \notin ToSet(latencyQ')
    BY <1>3, TailOnce
  <2>2. replies' = Reply(f)
    BY <1>3
  <2> HIDE DEF f
  <2>3. /\ Apart(arrived, ToSet(fromXbar), ToSet(latencyQ'), H, ToSet(missQ),
                 ToSet(mem), DOMAIN extra, Answered(replies) \cup {f})
        /\ f \notin Answered(replies)
        /\ Apart(arrived, ToSet(fromXbar), ToSet(latencyQ'), H, ToSet(missQ),
                 ToSet(mem), DOMAIN extra, Answered(replies))
    BY <2>1, DeliverApart
  <2>4. /\ Reply(f) \in [Requests -> Nat] /\ \A r \in Requests : Reply(f)[r] <= 1
        /\ Answered(Reply(f)) = Answered(replies) \cup (IF f.kind = "core" THEN {f} ELSE {})
    BY <1>1, <2>1, <2>3, ReplyCounted
  <2>5. /\ Answered(replies') = Answered(replies) \cup {f} \/ Answered(replies') = Answered(replies)
        /\ replies' \in [Requests -> Nat] /\ OneReply'
    BY <2>2, <2>4 DEF OneReply
  <2>6. QED
    BY <2>1, <2>3, <2>5
<1>4. QED
  BY <1>2, <1>3

(* Together they are the rest of a slot.                                   *)
LEMMA DrainAndDeliverStep ==
  ASSUME IInv, NEW out \in BOOLEAN, DrainAndDeliver(out)
  PROVE  IInv'
<1> DEFINE k == Head(ready)
           queue == IF ready = <<>> THEN latencyQ ELSE Append(latencyQ, TopNextAccess(k))
<1>1. /\ NextSlot
      /\ IF ready = <<>> THEN UNCHANGED <<mshr, ready>>
         ELSE /\ mshr' = Popped(k)
              /\ ready' = IF Len(mshr[k]) > 1 THEN ready ELSE Tail(ready)
      /\ UNCHANGED <<setup, arrived, fromXbar, ports, tagVars, extra, missQ, mem, fault>>
  BY DEF DrainAndDeliver
<1>2. \/ latencyQ' = queue /\ replies' = replies
      \/ queue # <<>> /\ latencyQ' = Tail(queue) /\ replies' = Reply(Head(queue))
  BY DEF DrainAndDeliver
<1> HIDE DEF queue
<1>3. /\ queue \in Seq(Fetches) /\ Once(queue, Fetches)
      /\ DOMAIN mshr' \subseteq Keys
      /\ \A l \in DOMAIN mshr' : mshr'[l] \in Seq(Fetches) /\ mshr'[l] # <<>>
      /\ NoneHeldTwice(mshr')
      /\ ready' \in Seq(Keys) /\ Backed(DOMAIN mshr', extra, ready')
      /\ Apart(arrived, ToSet(fromXbar), ToSet(queue), Held(mshr'), ToSet(missQ),
               ToSet(mem), DOMAIN extra, Answered(replies))
  BY <1>1, DrainStep DEF queue
<1>4. /\ latencyQ' \in Seq(Fetches) /\ Once(latencyQ', Fetches)
      /\ replies' \in [Requests -> Nat] /\ OneReply'
      /\ Apart(arrived, ToSet(fromXbar), ToSet(latencyQ'), Held(mshr'), ToSet(missQ),
               ToSet(mem), DOMAIN extra, Answered(replies'))
  BY <1>2, <1>3, DeliverStep
<1>5. TypeOK /\ LinesInv
  BY DEF IInv, TypeOK, LinesInv
<1>6. pc' \in {"idle", "access"} /\ slot' \in Nat
  BY <1>1, <1>5 DEF NextSlot, TypeOK
<1>7. LinesInv'
  BY <1>1, <1>5, SameLines DEF tagVars
<1>8. PlaceInv' /\ MshrInv'
  BY <1>1, <1>3, <1>4 DEF PlaceInv, MshrInv
<1>9. TypeOK'
  BY <1>1, <1>3, <1>4, <1>5, <1>6, <1>7 DEF TypeOK, LinesInv
<1>10. QueueInv'
  BY <1>1, <1>3, <1>4 DEF IInv, QueueInv
<1>11. QED
  BY <1>1, <1>4, <1>7, <1>8, <1>9, <1>10 DEF IInv, LinesInv, RetrySentNothing

-----------------------------------------------------------------------------
(* L2DataCache::push: the answer to a fetch fills its line and marks its   *)
(* MSHR, any other is given to the core that waits for it, if one does.    *)
LEMMA PushStep ==
  ASSUME IInv, NEW i \in DOMAIN mem, Push(i)
  PROVE  IInv'
<1> DEFINE f == mem[i]
<1>1. /\ mem' = RemoveAt(mem, i)
      /\ \/ f \in DOMAIN extra /\ Fill(f) /\ UNCHANGED replies
         \/ f \notin DOMAIN extra /\ replies' = Reply(f) /\ UNCHANGED <<tagVars, ready, extra>>
      /\ UNCHANGED <<setup, pc, slot, arrived, fromXbar, ports, mshr, missQ, latencyQ, fault>>
  BY DEF Push, WaitingForFill
<1>2. /\ TypeOK /\ LinesInv /\ MshrInv /\ Backed(DOMAIN mshr, extra, ready)
      /\ Apart(arrived, ToSet(fromXbar), ToSet(latencyQ), Held(mshr), ToSet(missQ),
               ToSet(mem), DOMAIN extra, Answered(replies))
      /\ Once(mem, Fetches) /\ OneReply
  BY DEF IInv, TypeOK, LinesInv, QueueInv, PlaceInv, MshrInv
<1>3. /\ mem \in Seq(Fetches \cup Backs) /\ DOMAIN extra \subseteq Fetches
      /\ \A g \in DOMAIN extra : extra[g] \in [key : Keys, way : 1 .. Ways]
      /\ ready \in Seq(Keys) /\ replies \in [Requests -> Nat]
  BY <1>2 DEF TypeOK
<1>4. /\ mem' \in Seq(Fetches \cup Backs) /\ f \in Fetches \cup Backs
      /\ ToSet(mem) = {f} \cup ToSet(mem') /\ Once(mem', Fetches)
      /\ f \in Fetches => f \notin ToSet(mem')
  BY <1>1, <1>2, <1>3, RemoveOnce
<1> HIDE DEF f
<1>5. /\ LinesInv' /\ Backed(DOMAIN mshr, extra', ready') /\ ready' \in Seq(Keys)
      /\ DOMAIN extra' \subseteq Fetches
      /\ \A g \in DOMAIN extra' : extra'[g] \in [key : Keys, way : 1 .. Ways]
      /\ replies' \in [Requests -> Nat] /\ OneReply'
      /\ Apart(arrived, ToSet(fromXbar), ToSet(latencyQ), Held(mshr), ToSet(missQ),
               ToSet(mem'), DOMAIN extra', Answered(replies'))
  <2>1. CASE f \in DOMAIN extra /\ Fill(f) /\ UNCHANGED replies
    <3>1. /\ TagFill(extra[f]) /\ ready' = Append(ready, extra[f].key) /\ extra' = Erased(f)
          /\ UNCHANGED setup
      BY <1>1, <2>1 DEF Fill, Marked
    <3>2. /\ DOMAIN extra' = DOMAIN extra \ {f}
          /\ \A g \in DOMAIN extra' : extra'[g] = extra[g]
      BY <3>1 DEF Erased
    <3>3. LinesInv'
      BY <1>2, <2>1, <3>1, FillLines
    <3>4. extra[f].key \in Keys /\ f \in Fetches
      BY <1>3, <2>1
    <3>5. Backed(DOMAIN mshr, extra', Append(ready, extra[f].key))
      BY <1>2, <1>3, <2>1, <3>2, <3>4, FillBacked
    <3>6. Append(ready, extra[f].key) \in Seq(Keys)
      BY <1>3, <3>4
    <3>7. Apart(arrived, ToSet(fromXbar), ToSet(latencyQ), Held(mshr), ToSet(missQ),
                ToSet(mem'), DOMAIN extra \ {f}, Answered(replies))
      BY <1>2, <1>4, <2>1, <3>4, FillApart
    <3>8. QED
      BY <1>2, <1>3, <2>1, <3>1, <3>2, <3>3, <3>5, <3>6, <3>7 DEF OneReply
  <2>2. CASE f \notin DOMAIN extra /\ replies' = Reply(f) /\ UNCHANGED <<tagVars, ready, extra>>
    <3>1. LinesInv'
      BY <1>1, <1>2, <2>2, SameLines DEF tagVars
    <3>2. /\ Apart(arrived, ToSet(fromXbar), ToSet(latencyQ), Held(mshr), ToSet(missQ),
                   ToSet(mem'), DOMAIN extra, Answered(replies))
          /\ f \in Fetches =>
               /\ Apart(arrived, ToSet(fromXbar), ToSet(latencyQ), Held(mshr), ToSet(missQ),
                        ToSet(mem'), DOMAIN extra, Answered(replies) \cup {f})
               /\ f \notin Answered(replies)
      BY <1>2, <1>4, <2>2, AnswerApart
    <3>3. /\ replies' \in [Requests -> Nat] /\ OneReply'
          /\ \/ Answered(replies') = Answered(replies)
             \/ f \in Fetches /\ Answered(replies') = Answered(replies) \cup {f}
      <4>1. CASE f \in Fetches
        <5>1. /\ Reply(f) \in [Requests -> Nat] /\ \A r \in Requests : Reply(f)[r] <= 1
              /\ Answered(Reply(f))
                   = Answered(replies) \cup (IF f.kind = "core" THEN {f} ELSE {})
          BY <1>2, <3>2, <4>1, ReplyCounted
        <5>2. QED
          BY <2>2, <4>1, <5>1 DEF OneReply
      <4>2. CASE f \in Backs
        <5>1. replies' = replies
          BY <2>2, <4>2, NoReplyToBack
        <5>2. QED
          BY <1>2, <1>3, <5>1 DEF OneReply
      <4>3. QED
        BY <1>4, <4>1, <4>2
    <3>4. QED
      BY <1>2, <1>3, <2>2, <3>1, <3>2, <3>3
  <2>3. QED
    BY <1>1, <2>1, <2>2
<1>6. PlaceInv' /\ MshrInv'
  BY <1>1, <1>5 DEF PlaceInv, MshrInv
<1>7. TypeOK'
  BY <1>1, <1>2, <1>4, <1>5 DEF TypeOK, LinesInv
<1>8. QueueInv'
  BY <1>1, <1>4 DEF IInv, QueueInv
<1>9. QED
  BY <1>1, <1>5, <1>6, <1>7, <1>8 DEF IInv, LinesInv, RetrySentNothing

-----------------------------------------------------------------------------
(* Every step of the slice keeps the invariant.                            *)
LEMMA NextInvariant == IInv /\ [Next]_vars => IInv'
<1> SUFFICES ASSUME IInv, [Next]_vars PROVE IInv'
  OBVIOUS
<1>1. CASE \E r \in Requests : Arrive(r)
  BY <1>1, ArriveStep
<1>2. CASE StartCycle \/ NothingToAccess \/ PortBusy
  BY <1>2, ControlSteps
<1>3. CASE Uncacheable
  BY <1>3, UncacheableStep
<1>4. CASE \E r \in Requests : \E p \in Probes(Key(r)) : CacheAccess(r, p)
  BY <1>4, AccessStep
<1>5. CASE \E out \in BOOLEAN : DrainAndDeliver(out)
  BY <1>5, DrainAndDeliverStep
<1>6. CASE \E i \in Answering : Push(i)
  <2>1. PICK i \in DOMAIN mem : Push(i)
    BY <1>6 DEF Answering
  <2>2. QED
    BY <2>1, PushStep
<1>7. CASE UNCHANGED vars
  <2>1. /\ UNCHANGED <<setup, tagVars, mshrVars>>
        /\ UNCHANGED <<pc, slot, arrived, fromXbar, ports, missQ, mem, latencyQ, replies, fault>>
    BY <1>7 DEF vars
  <2>2. MshrInv' /\ LinesInv' /\ NoneHeldTwice(mshr)'
    BY <2>1, SameMshrs
  <2>3. TypeOK'
    BY <2>1, <2>2 DEF IInv, TypeOK, LinesInv, mshrVars
  <2>4. PlaceInv'
    BY <2>1 DEF IInv, PlaceInv, mshrVars
  <2>5. QED
    BY <2>1, <2>2, <2>3, <2>4 DEF IInv, LinesInv, QueueInv, OneReply, RetrySentNothing
<1>8. QED
  BY <1>1, <1>2, <1>3, <1>4, <1>5, <1>6, <1>7 DEF Next, Cycle

(* At every step of L2DataCache::cycle and push an access waits in one     *)
(* place at most, an MSHR is behind one fetch or one mark, and a line that *)
(* is reserved waits for its own block.                                    *)
THEOREM InductiveInvariant == Spec => []IInv
<1>1. Init => IInv
  BY InitInvariant
<1>2. IInv /\ [Next]_vars => IInv'
  BY NextInvariant
<1>3. QED
  BY <1>1, <1>2, PTL DEF Spec

(* L2DataCache::cycle and push give a request of a core to the crossbar    *)
(* once: as a hit, from its MSHR, or as the answer of memory to a write    *)
(* that was sent on.                                                       *)
THEOREM AnsweredOnce == Spec => []OneReply
<1>1. IInv => OneReply
  BY DEF IInv
<1>2. QED
  BY <1>1, InductiveInvariant, PTL

(* A fetch or a mark stands for the entry it is about, and for nothing if  *)
(* there is none.                                                          *)
LEMMA BackedMeansOne ==
  ASSUME IInv
  PROVE  MshrBacked
<1> SUFFICES ASSUME NEW k \in Keys
             PROVE  Cardinality(Outstanding(k)) + Cardinality({i \in DOMAIN ready : ready[i] = k})
                      = IF k \in DOMAIN mshr THEN 1 ELSE 0
  BY DEF MshrBacked
<1> DEFINE O == Outstanding(k)
           M == {i \in DOMAIN ready : ready[i] = k}
<1>1. Backed(DOMAIN mshr, extra, ready)
  BY DEF IInv, MshrInv
<1>2. /\ \A f, g \in O : f = g
      /\ \A i, j \in M : i = j
      /\ O # {} => M = {}
      /\ k \in DOMAIN mshr <=> O # {} \/ M # {}
  BY <1>1 DEF Backed, Outstanding
<1> HIDE DEF O, M
<1>3. ASSUME NEW S, \A x, y \in S : x = y, S # {} PROVE Cardinality(S) = 1
  <2>1. PICK x \in S : S = {x}
    BY <1>3
  <2>2. QED
    BY <2>1, FS_Singleton
<1>4. Cardinality({}) = 0
  BY FS_EmptySet
<1>5. O # {} => Cardinality(O) = 1
  BY <1>2, <1>3
<1>6. M # {} => Cardinality(M) = 1
  BY <1>2, <1>3
<1>7. Cardinality(O) + Cardinality(M) = IF k \in DOMAIN mshr THEN 1 ELSE 0
  BY <1>2, <1>4, <1>5, <1>6
<1>8. QED
  BY <1>7 DEF O, M

(* MshrTable: an entry that holds requests is woken by one fetch that is   *)
(* on its way (m_extra_mf_fields) or stands once among the responses that  *)
(* are ready (m_current_response), so that no request waits for ever in an *)
(* MSHR nor is woken twice.                                                *)
THEOREM EveryMshrIsWoken == Spec => []MshrBacked
<1>1. QED
  BY BackedMeansOne, InductiveInvariant, PTL

(* The asserts of L2DataCache::cycle hold: a request whose reservation     *)
(* failed has sent nothing.  The check of wr_miss_wa_naive for room for    *)
(* two requests is what it takes.                                          *)
THEOREM RetriesAreHarmless == Spec => []RetrySentNothing
<1>1. IInv => RetrySentNothing
  BY DEF IInv
<1>2. QED
  BY <1>1, InductiveInvariant, PTL

(* A line cache's line is VALID with the data of the block of its tag:     *)
(* what LineCacheBlock::allocate reserves no other block takes before      *)
(* Cache::fill.                                                            *)
THEOREM LinesHoldTheirData == Spec => []LineFilledByOwnData
<1>1. IInv => LineFilledByOwnData
  BY DEF IInv
<1>2. QED
  BY <1>1, InductiveInvariant, PTL
=============================================================================
