--------------------------- MODULE MemoryPathProofs ---------------------------
(* Proofs about MemoryPath, for any number of cores, ports and channels,   *)
(* any set of requests and any clocks.  IInv is inductive: a request is in *)
(* one queue of its round trip, in the queue of its own core, channel or   *)
(* destination, and it is a reply exactly on the way back.  The last part  *)
(* is about IcntTraffic: the interconnect alone, under any traffic.        *)
EXTENDS MemoryPath, IcntTraffic, FiniteSetTheorems, SequenceTheorems,
        WellFoundedInduction, TLAPS

(* What push and pop do to the contents of one queue.                      *)
LEMMA AppendQueue ==
  ASSUME NEW S, NEW q \in Seq(S), NEW x \in S
  PROVE  /\ Append(q, x) \in Seq(S) /\ Append(q, x) # <<>>
         /\ Elems(q) \subseteq S
         /\ Elems(Append(q, x)) = Elems(q) \cup {x}
         /\ x \notin Elems(q) /\ NoRepeat(q) => NoRepeat(Append(q, x))
         /\ Head(Append(q, x)) = IF q = <<>> THEN x ELSE Head(q)
<1> DEFINE r == Append(q, x)
<1>1. /\ r \in Seq(S) /\ Len(r) = Len(q) + 1 /\ Len(q) \in Nat
      /\ r[Len(q) + 1] = x /\ \A k \in 1 .. Len(q) : r[k] = q[k] /\ q[k] \in S
  OBVIOUS
<1>2. \A k \in 1 .. Len(r) : k \in 1 .. Len(q) \/ k = Len(q) + 1
  BY <1>1
<1>3. /\ \A k \in 1 .. Len(q) : k \in 1 .. Len(r)
      /\ Len(q) + 1 \in 1 .. Len(r)
  BY <1>1
<1>4. r # <<>> /\ Head(r) = r[1] /\ (q = <<>> <=> Len(q) = 0)
      /\ (q # <<>> => Head(q) = q[1] /\ 1 \in 1 .. Len(q))
  OBVIOUS
<1> HIDE DEF r
<1>5. Elems(r) = Elems(q) \cup {x}
  <2>1. ASSUME NEW y \in Elems(r) PROVE y \in Elems(q) \cup {x}
    BY <1>1, <1>2 DEF Elems
  <2>2. ASSUME NEW y \in Elems(q) PROVE y \in Elems(r)
    BY <1>1, <1>3 DEF Elems
  <2>3. x \in Elems(r)
    BY <1>1, <1>3 DEF Elems
  <2>4. QED
    BY <2>1, <2>2, <2>3
<1>6. x \notin Elems(q) /\ NoRepeat(q) => NoRepeat(r)
  BY <1>1, <1>2 DEF Elems, NoRepeat
<1>7. Elems(q) \subseteq S
  BY <1>1 DEF Elems
<1>8. Head(r) = IF q = <<>> THEN x ELSE Head(q)
  BY <1>1, <1>4
<1>9. QED
  BY <1>1, <1>4, <1>5, <1>6, <1>7, <1>8 DEF r

LEMMA TailQueue ==
  ASSUME NEW S, NEW q \in Seq(S), q # <<>>
  PROVE  /\ Tail(q) \in Seq(S) /\ Head(q) \in S /\ Head(q) \in Elems(q)
         /\ Elems(q) = {Head(q)} \cup Elems(Tail(q))
         /\ NoRepeat(q) => NoRepeat(Tail(q)) /\ Head(q) \notin Elems(Tail(q))
<1>1. /\ Len(q) \in Nat /\ Len(q) > 0 /\ Tail(q) \in Seq(S)
      /\ Len(Tail(q)) = Len(q) - 1
      /\ \A k \in 1 .. Len(Tail(q)) : Tail(q)[k] = q[k + 1]
      /\ Head(q) = q[1] /\ q[1] \in S
  OBVIOUS
<1>2. /\ 1 \in 1 .. Len(q)
      /\ \A k \in 1 .. Len(Tail(q)) : k + 1 \in 1 .. Len(q) /\ k + 1 # 1
      /\ \A k \in 1 .. Len(q) : k # 1 => k - 1 \in 1 .. Len(Tail(q)) /\ (k - 1) + 1 = k
  BY <1>1
<1>3. Elems(q) = {Head(q)} \cup Elems(Tail(q))
  <2>1. ASSUME NEW y \in Elems(q) PROVE y \in {Head(q)} \cup Elems(Tail(q))
    <3>1. PICK k \in 1 .. Len(q) : y = q[k]
      BY DEF Elems
    <3>2. k # 1 => Tail(q)[k - 1] = y /\ k - 1 \in 1 .. Len(Tail(q))
      BY <1>1, <1>2, <3>1
    <3>3. QED
      BY <1>1, <3>1, <3>2 DEF Elems
  <2>2. ASSUME NEW y \in Elems(Tail(q)) PROVE y \in Elems(q)
    BY <1>1, <1>2 DEF Elems
  <2>3. Head(q) \in Elems(q)
    BY <1>1, <1>2 DEF Elems
  <2>4. QED
    BY <2>1, <2>2, <2>3
<1>4. ASSUME NoRepeat(q) PROVE NoRepeat(Tail(q)) /\ Head(q) \notin Elems(Tail(q))
  <2>1. ASSUME NEW m \in 1 .. Len(Tail(q)), NEW n \in 1 .. Len(Tail(q)),
               Tail(q)[m] = Tail(q)[n]
        PROVE  m = n
    <3>1. m + 1 = n + 1
      BY <1>1, <1>2, <1>4, <2>1 DEF NoRepeat
    <3>2. QED
      BY <3>1
  <2>2. Head(q) \notin Elems(Tail(q))
    BY <1>1, <1>2, <1>4 DEF Elems, NoRepeat
  <2>3. QED
    BY <2>1, <2>2 DEF NoRepeat
<1>5. QED
  BY <1>1, <1>2, <1>3, <1>4 DEF Elems
-----------------------------------------------------------------------------------------------------------------------------------------------------
HeadsOf(f, M) == {Head(f[i]) : i \in M}
Values(x, M) == {x[i] : i \in M}

Pops(S, f, M, g) ==
  /\ M \subseteq S /\ g \in [S -> Seq(Packets)]
  /\ \A i \in M : f[i] # <<>> /\ g[i] = Tail(f[i])
  /\ \A i \in S \ M : g[i] = f[i]

Pushes(S, f, M, x, g) ==
  /\ M \subseteq S /\ g \in [S -> Seq(Packets)] /\ x \in [M -> Packets]
  /\ \A i \in M : g[i] = Append(f[i], x[i]) /\ x[i] \notin Contents(f)
  /\ \A i, j \in M : x[i] = x[j] => i = j
  /\ \A i \in S \ M : g[i] = f[i]

PopsAt(S, f, k, g) == k \in S /\ f[k] # <<>> /\ g = [f EXCEPT ![k] = Tail(@)]

PushesAt(S, f, k, r, g) ==
  /\ k \in S /\ r \in Packets /\ r \notin Contents(f)
  /\ g = [f EXCEPT ![k] = Append(@, r)]

(* A family of queues of which those in M give up their heads.             *)
LEMMA PopAll ==
  ASSUME NEW S, NEW f, NEW M, NEW g, Neat(S, f), Pops(S, f, M, g)
  PROVE  /\ Neat(S, g)
         /\ Contents(g) = Contents(f) \ HeadsOf(f, M)
         /\ HeadsOf(f, M) \subseteq Contents(f)
         /\ \A i \in S : Elems(g[i]) \subseteq Elems(f[i])
         /\ \A i \in M : Head(f[i]) \in Elems(f[i]) /\ Head(f[i]) \in Packets
<1> M \subseteq S /\ g \in [S -> Seq(Packets)]
  BY DEF Pops
<1>0. /\ \A i \in M : f[i] # <<>> /\ g[i] = Tail(f[i])
      /\ \A i \in S \ M : g[i] = f[i]
  BY DEF Pops
<1>1. /\ f \in [S -> Seq(Packets)] /\ \A i \in S : NoRepeat(f[i])
      /\ \A i, j \in S : i # j => Elems(f[i]) \cap Elems(f[j]) = {}
      /\ DOMAIN f = S /\ DOMAIN g = S
  BY DEF Neat
<1>2. ASSUME NEW i \in M
      PROVE  /\ g[i] = Tail(f[i]) /\ g[i] \in Seq(Packets) /\ NoRepeat(g[i])
             /\ Head(f[i]) \in Packets
             /\ Elems(f[i]) = {Head(f[i])} \cup Elems(g[i])
             /\ Head(f[i]) \notin Elems(g[i])
  <2>1. f[i] \in Seq(Packets) /\ f[i] # <<>> /\ g[i] = Tail(f[i]) /\ NoRepeat(f[i])
    BY <1>0, <1>1
  <2>2. QED
    BY <2>1, TailQueue
<1>3. ASSUME NEW i \in S \ M PROVE g[i] = f[i]
  BY <1>0
<1>4. ASSUME NEW i \in S
      PROVE  g[i] \in Seq(Packets) /\ NoRepeat(g[i]) /\ Elems(g[i]) \subseteq Elems(f[i])
  <2>1. CASE i \in M
    BY <1>2, <2>1
  <2>2. CASE i \notin M
    <3>1. g[i] = f[i]
      BY <1>3, <2>2
    <3>2. QED
      BY <1>1, <3>1
  <2>3. QED
    BY <2>1, <2>2
<1>5. Neat(S, g)
  <2>1. g \in [S -> Seq(Packets)]
    BY <1>4
  <2>2. \A i, j \in S : i # j => Elems(g[i]) \cap Elems(g[j]) = {}
    BY <1>1, <1>4
  <2>3. QED
    BY <1>4, <2>1, <2>2 DEF Neat
<1>6. ASSUME NEW i \in M PROVE Head(f[i]) \in Elems(f[i])
  BY <1>2
<1>7. \A x : x \in Contents(f) <=> \E i \in S : x \in Elems(f[i])
  BY <1>1 DEF Contents
<1>8. \A x : x \in Contents(g) <=> \E i \in S : x \in Elems(g[i])
  BY <1>1 DEF Contents
<1>9. ASSUME NEW x
      PROVE  x \in Contents(g) <=> x \in Contents(f) \ HeadsOf(f, M)
  <2>1. ASSUME NEW i \in S, x \in Elems(g[i]), NEW k \in M, x = Head(f[k]) PROVE FALSE
    <3>1. x \in Elems(f[i]) /\ x \in Elems(f[k])
      BY <1>4, <1>6, <2>1
    <3>2. i = k
      BY <1>1, <3>1
    <3>3. QED
      BY <1>2, <2>1, <3>2
  <2>2. ASSUME NEW i \in S, x \in Elems(f[i]), x \notin HeadsOf(f, M)
        PROVE  x \in Elems(g[i])
    BY <1>2, <1>3, <2>2 DEF HeadsOf
  <2>3. QED
    BY <1>4, <1>7, <1>8, <2>1, <2>2 DEF HeadsOf
<1>10. Contents(g) = Contents(f) \ HeadsOf(f, M)
  BY <1>9
<1>11. HeadsOf(f, M) \subseteq Contents(f)
  BY <1>6, <1>7 DEF HeadsOf
<1>12. QED
  BY <1>2, <1>4, <1>5, <1>6, <1>10, <1>11

(* A family of queues of which those in M each receive a new request.      *)
LEMMA PushAll ==
  ASSUME NEW S, NEW f, NEW M, NEW x, NEW g, Neat(S, f), Pushes(S, f, M, x, g)
  PROVE  /\ Neat(S, g)
         /\ Contents(g) = Contents(f) \cup Values(x, M)
         /\ \A i \in M : Elems(g[i]) = Elems(f[i]) \cup {x[i]}
         /\ \A i \in S \ M : Elems(g[i]) = Elems(f[i])
<1> M \subseteq S /\ g \in [S -> Seq(Packets)]
  BY DEF Pushes
<1>0. /\ \A i \in M : g[i] = Append(f[i], x[i]) /\ x[i] \notin Contents(f) /\ x[i] \in Packets
      /\ \A i, j \in M : x[i] = x[j] => i = j
      /\ \A i \in S \ M : g[i] = f[i]
  BY DEF Pushes
<1>1. /\ f \in [S -> Seq(Packets)] /\ \A i \in S : NoRepeat(f[i])
      /\ \A i, j \in S : i # j => Elems(f[i]) \cap Elems(f[j]) = {}
      /\ DOMAIN f = S /\ DOMAIN g = S
  BY DEF Neat
<1>2. \A y : y \in Contents(f) <=> \E i \in S : y \in Elems(f[i])
  BY <1>1 DEF Contents
<1>3. ASSUME NEW i \in M
      PROVE  /\ g[i] \in Seq(Packets) /\ NoRepeat(g[i])
             /\ Elems(g[i]) = Elems(f[i]) \cup {x[i]}
  <2>1. /\ f[i] \in Seq(Packets) /\ x[i] \in Packets /\ g[i] = Append(f[i], x[i])
        /\ NoRepeat(f[i])
    BY <1>0, <1>1
  <2>2. x[i] \notin Elems(f[i])
    BY <1>0, <1>2
  <2>3. QED
    BY <2>1, <2>2, AppendQueue
<1>4. ASSUME NEW i \in S \ M PROVE g[i] = f[i]
  BY <1>0
<1>5. \A y : y \in Contents(g) <=> \E i \in S : y \in Elems(g[i])
  BY <1>1 DEF Contents
<1>6. g \in [S -> Seq(Packets)] /\ \A i \in S : NoRepeat(g[i])
  BY <1>1, <1>3, <1>4
<1>7. ASSUME NEW i \in S, NEW j \in S, i # j, NEW y \in Elems(g[i]), y \in Elems(g[j])
      PROVE  FALSE
  <2>1. y \in Elems(f[i]) \/ (i \in M /\ y = x[i])
    BY <1>3, <1>4
  <2>2. y \in Elems(f[j]) \/ (j \in M /\ y = x[j])
    BY <1>3, <1>4, <1>7
  <2>3. QED
    BY <1>0, <1>1, <1>2, <1>7, <2>1, <2>2
<1>8. Neat(S, g)
  BY <1>6, <1>7 DEF Neat
<1>9. Contents(g) = Contents(f) \cup Values(x, M)
  <2>1. ASSUME NEW i \in S, NEW y \in Elems(g[i])
        PROVE  y \in Contents(f) \cup Values(x, M)
    <3>1. y \in Elems(f[i]) \/ (i \in M /\ y = x[i])
      BY <1>3, <1>4
    <3>2. QED
      BY <1>2, <3>1 DEF Values
  <2>2. ASSUME NEW i \in S, NEW y \in Elems(f[i])
        PROVE  y \in Elems(g[i])
    BY <1>3, <1>4
  <2>3. ASSUME NEW i \in M
        PROVE  x[i] \in Elems(g[i])
    BY <1>3
  <2>4. Values(x, M) \subseteq Contents(g)
    BY <1>5, <2>3 DEF Values
  <2>5. Contents(f) \subseteq Contents(g)
    BY <1>2, <1>5, <2>2
  <2>6. Contents(g) \subseteq Contents(f) \cup Values(x, M)
    BY <1>5, <2>1
  <2>7. QED
    BY <2>4, <2>5, <2>6
<1>10. QED
  BY <1>3, <1>4, <1>8, <1>9

(* The same of one queue.                                                  *)
LEMMA PopOne ==
  ASSUME NEW S, NEW f, NEW k, NEW g, Neat(S, f), PopsAt(S, f, k, g)
  PROVE  /\ Neat(S, g)
         /\ Contents(g) = Contents(f) \ {Head(f[k])}
         /\ Head(f[k]) \in Contents(f) /\ Head(f[k]) \in Elems(f[k]) /\ Head(f[k]) \in Packets
         /\ \A i \in S : Elems(g[i]) \subseteq Elems(f[i])
<1> DEFINE M == {k}
<1>1. f \in [S -> Seq(Packets)]
  BY DEF Neat
<1>2. /\ g \in [S -> Seq(Packets)] /\ \A i \in M : g[i] = Tail(f[i])
      /\ \A i \in S \ M : g[i] = f[i]
  BY <1>1 DEF PopsAt
<1>3. M \in SUBSET S /\ \A i \in M : f[i] # <<>>
  BY DEF PopsAt
<1>4. HeadsOf(f, M) = {Head(f[k])} /\ k \in M
  BY DEF HeadsOf
<1> HIDE DEF M
<1> Pops(S, f, M, g)
  BY <1>2, <1>3 DEF Pops
<1>5. /\ Neat(S, g)
      /\ Contents(g) = Contents(f) \ HeadsOf(f, M)
      /\ HeadsOf(f, M) \subseteq Contents(f)
      /\ \A i \in S : Elems(g[i]) \subseteq Elems(f[i])
      /\ \A i \in M : Head(f[i]) \in Elems(f[i]) /\ Head(f[i]) \in Packets
  BY PopAll
<1>6. QED
  BY <1>4, <1>5

LEMMA PushOne ==
  ASSUME NEW S, NEW f, NEW k, NEW r, NEW g, Neat(S, f), PushesAt(S, f, k, r, g)
  PROVE  /\ Neat(S, g)
         /\ Contents(g) = Contents(f) \cup {r}
         /\ Elems(g[k]) = Elems(f[k]) \cup {r}
         /\ \A i \in S : i # k => Elems(g[i]) = Elems(f[i])
<1> DEFINE M == {k}
           x == [i \in M |-> r]
<1>1. f \in [S -> Seq(Packets)]
  BY DEF Neat
<1>2. /\ g \in [S -> Seq(Packets)] /\ \A i \in M : g[i] = Append(f[i], x[i])
      /\ \A i \in S \ M : g[i] = f[i]
  BY <1>1 DEF PushesAt
<1>3. /\ M \in SUBSET S /\ x \in [M -> Packets] /\ \A i \in M : x[i] \notin Contents(f)
      /\ \A i, j \in M : x[i] = x[j] => i = j
  BY DEF PushesAt
<1>4. Values(x, M) = {r} /\ k \in M /\ x[k] = r /\ \A i \in S : i # k => i \in S \ M
  BY DEF Values
<1> HIDE DEF M, x
<1> Pushes(S, f, M, x, g)
  BY <1>2, <1>3 DEF Pushes
<1>5. /\ Neat(S, g)
      /\ Contents(g) = Contents(f) \cup Values(x, M)
      /\ \A i \in M : Elems(g[i]) = Elems(f[i]) \cup {x[i]}
      /\ \A i \in S \ M : Elems(g[i]) = Elems(f[i])
  BY PushAll
<1>6. QED
  BY <1>4, <1>5

(* Nodes: the ports of core c are c * NPorts on, then come the channels.   *)
LEMMA NodeNumbers ==
  /\ Offset \in Nat \ {0} /\ NCores \in Nat \ {0} /\ NPorts \in Nat \ {0}
  /\ NChans \in Nat \ {0} /\ NNodes = Offset + NChans /\ PortNodes \subseteq Nodes
  /\ \A n \in Nodes \ PortNodes : Chan(n) \in Chans /\ n = Offset + Chan(n)
  /\ \A m \in Chans : /\ Offset + m \in Nodes \ PortNodes
                      /\ Chan(Offset + m) = m
  /\ \A n \in PortNodes : Core(n) \in Cores
  /\ \A c \in Cores, k \in Nat : /\ c * NPorts + (k % NPorts) \in PortNodes
                                 /\ Core(c * NPorts + (k % NPorts)) = c
<1>1. /\ NCores \in Nat \ {0} /\ NPorts \in Nat \ {0} /\ NChans \in Nat \ {0}
      /\ NNodes = Offset + NChans
  BY PathAssumption
<1>2. Offset \in Nat \ {0}
  BY <1>1 DEF Offset
<1>3. ASSUME NEW a \in Nat, NEW b \in Nat, a < b
      PROVE  /\ a * NPorts + NPorts <= b * NPorts /\ a * NPorts \in Nat /\ b * NPorts \in Nat
  <2>1. b - a \in Nat /\ b - a >= 1
    BY <1>3
  <2>2. (b - a) * NPorts >= NPorts
    BY <1>1, <2>1
  <2>3. (b - a) * NPorts = b * NPorts - a * NPorts
    BY <1>1
  <2>4. a * NPorts \in Nat /\ b * NPorts \in Nat
    BY <1>1
  <2>5. QED
    BY <1>1, <2>2, <2>3, <2>4
<1>4. ASSUME NEW n \in PortNodes PROVE Core(n) \in Cores
  <2>1. n \in Nat /\ n < NCores * NPorts
    BY <1>1, <1>2 DEF PortNodes, Offset
  <2>2. /\ n \div NPorts \in Nat /\ n = NPorts * (n \div NPorts) + (n % NPorts)
        /\ n % NPorts \in 0 .. NPorts - 1
    BY <1>1, <2>1
  <2>3. ~(NCores < n \div NPorts) /\ NCores # n \div NPorts
    <3>1. CASE NCores < n \div NPorts
      <4>1. NCores * NPorts + NPorts <= (n \div NPorts) * NPorts
        BY <1>1, <1>3, <2>2, <3>1
      <4>2. QED
        BY <1>1, <2>1, <2>2, <4>1
    <3>2. CASE NCores = n \div NPorts
      BY <1>1, <2>1, <2>2, <3>2
    <3>3. QED
      BY <3>1, <3>2
  <2>4. QED
    BY <1>1, <2>2, <2>3 DEF Core, Cores
<1>5. ASSUME NEW c \in Cores, NEW k \in Nat
      PROVE  /\ c * NPorts + (k % NPorts) \in PortNodes
             /\ Core(c * NPorts + (k % NPorts)) = c
  <2> DEFINE j == k % NPorts
             n == c * NPorts + j
             d == n \div NPorts
  <2>1. c \in Nat /\ c < NCores /\ j \in Nat /\ j < NPorts
    BY <1>1 DEF Cores
  <2>2. c * NPorts + NPorts <= NCores * NPorts /\ c * NPorts \in Nat
    BY <1>1, <1>3, <2>1
  <2>3. n \in Nat /\ n < NCores * NPorts
    <3> HIDE DEF j
    <3>1. QED
      BY <1>1, <2>1, <2>2
  <2>4. n \in PortNodes
    BY <1>1, <1>2, <2>3 DEF PortNodes, Offset
  <2>5. d \in Nat /\ n = NPorts * d + (n % NPorts) /\ n % NPorts \in 0 .. NPorts - 1
    <3> HIDE DEF n
    <3>1. QED
      BY <1>1, <2>3
  <2>6. n = c * NPorts + j
    OBVIOUS
  <2> HIDE DEF j, n, d
  <2>7. d * NPorts = NPorts * d /\ d * NPorts \in Nat
    BY <1>1, <2>5
  <2>8. CASE d < c
    <3>1. d * NPorts + NPorts <= c * NPorts
      BY <1>3, <2>1, <2>5, <2>8
    <3>2. FALSE
      BY <1>1, <2>1, <2>2, <2>5, <2>6, <2>7, <3>1
    <3>3. QED
      BY <3>2
  <2>9. CASE c < d
    <3>1. c * NPorts + NPorts <= d * NPorts
      BY <1>3, <2>1, <2>5, <2>9
    <3>2. FALSE
      BY <1>1, <2>1, <2>2, <2>5, <2>6, <2>7, <3>1
    <3>3. QED
      BY <3>2
  <2>10. CASE d = c
    BY <2>4, <2>10 DEF Core, n, j, d
  <2>11. QED
    BY <2>1, <2>5, <2>8, <2>9, <2>10
<1>6. PortNodes \subseteq Nodes
  BY <1>1, <1>2 DEF PortNodes, Nodes
<1>7. \A n \in Nodes \ PortNodes : Chan(n) \in Chans /\ n = Offset + Chan(n)
  BY <1>1, <1>2 DEF PortNodes, Nodes, Chans, Chan
<1>8. \A m \in Chans : Offset + m \in Nodes \ PortNodes /\ Chan(Offset + m) = m
  BY <1>1, <1>2 DEF PortNodes, Nodes, Chans, Chan
<1>9. QED
  BY <1>1, <1>2, <1>4, <1>5, <1>6, <1>7, <1>8
-----------------------------------------------------------------------------
(* What a node of icnt_cycle does to a queue: take its head if it has one, *)
(* and put the head of another queue behind it.                            *)
FirstOf(q) == IF q = <<>> THEN {} ELSE {Head(q)}

TakesAt(S, f, k, g) == k \in S /\ g = [f EXCEPT ![k] = Rest(@)]

PutsAt(S, f, k, q, g) ==
  /\ k \in S /\ q \in Seq(Packets) /\ FirstOf(q) \cap Contents(f) = {}
  /\ g = IF q = <<>> THEN f ELSE [f EXCEPT ![k] = Append(@, Head(q))]

LEMMA TakeFirst ==
  ASSUME NEW S, NEW f, NEW k, NEW g, Neat(S, f), TakesAt(S, f, k, g)
  PROVE  /\ Neat(S, g)
         /\ Contents(g) = Contents(f) \ FirstOf(f[k])
         /\ FirstOf(f[k]) \subseteq Elems(f[k]) /\ FirstOf(f[k]) \subseteq Contents(f)
         /\ FirstOf(f[k]) \subseteq Packets
         /\ \A i \in S : Elems(g[i]) \subseteq Elems(f[i])
<1>1. CASE f[k] = <<>>
  <2>1. g = f
    BY <1>1 DEF TakesAt, Rest, Neat
  <2>2. FirstOf(f[k]) = {}
    BY <1>1 DEF FirstOf
  <2>3. QED
    BY <2>1, <2>2
<1>2. CASE f[k] # <<>>
  <2>1. PopsAt(S, f, k, g)
    BY <1>2 DEF TakesAt, PopsAt, Rest
  <2>2. FirstOf(f[k]) = {Head(f[k])}
    BY <1>2 DEF FirstOf
  <2>3. QED
    BY <2>1, <2>2, PopOne
<1>3. QED
  BY <1>1, <1>2

LEMMA PutFirst ==
  ASSUME NEW S, NEW f, NEW k, NEW q, NEW g, Neat(S, f), PutsAt(S, f, k, q, g)
  PROVE  /\ Neat(S, g)
         /\ Contents(g) = Contents(f) \cup FirstOf(q)
         /\ \A i \in S : \A r \in Elems(g[i]) :
              r \in Elems(f[i]) \/ (i = k /\ r \in FirstOf(q))
<1>1. CASE q = <<>>
  <2>1. g = f /\ FirstOf(q) = {}
    BY <1>1 DEF PutsAt, FirstOf
  <2>2. QED
    BY <2>1
<1>2. CASE q # <<>>
  <2>1. FirstOf(q) = {Head(q)} /\ Head(q) \in Packets
    BY <1>2 DEF FirstOf, PutsAt
  <2>2. PushesAt(S, f, k, Head(q), g)
    BY <1>2, <2>1 DEF PutsAt, PushesAt
  <2>3. /\ Neat(S, g)
        /\ Contents(g) = Contents(f) \cup {Head(q)}
        /\ Elems(g[k]) = Elems(f[k]) \cup {Head(q)}
        /\ \A i \in S : i # k => Elems(g[i]) = Elems(f[i])
    BY <2>2, PushOne
  <2>4. QED
    BY <2>1, <2>3
<1>3. QED
  BY <1>1, <1>2

(* SimpleInterconnect::push of the head of a queue, if it has one.         *)
LEMMA SendFirst ==
  ASSUME TypeOK, NEW n \in Nodes, NEW q \in Seq(Packets),
         FirstOf(q) \cap Contents(Wires) = {},
         \A r \in FirstOf(q) : get_dest_node(r) \in Nodes,
         inBuf' = Send(q, n)
  PROVE  /\ inBuf' \in [Nodes -> [Nodes -> Seq(Packets)]]
         /\ Neat(Nodes \X Nodes, Wires')
         /\ Contents(Wires') = Contents(Wires) \cup FirstOf(q)
         /\ \A s, d \in Nodes : \A r \in Elems(inBuf'[s][d]) :
              r \in Elems(inBuf[s][d]) \/ (d = get_dest_node(r) /\ r \in FirstOf(q))
<1> DEFINE d0 == get_dest_node(Head(q))
           k == <<n, d0>>
<1>1. inBuf \in [Nodes -> [Nodes -> Seq(Packets)]] /\ Neat(Nodes \X Nodes, Wires)
  BY DEF TypeOK
<1>2. CASE q = <<>>
  <2>1. inBuf' = inBuf /\ Wires' = Wires /\ FirstOf(q) = {}
    BY <1>2 DEF Send, FirstOf, Wires
  <2>2. QED
    BY <1>1, <2>1
<1>3. CASE q # <<>>
  <2>1. /\ d0 \in Nodes /\ Head(q) \in Packets /\ Head(q) \notin Contents(Wires)
        /\ FirstOf(q) = {Head(q)} /\ inBuf' = [inBuf EXCEPT ![n][d0] = Append(@, Head(q))]
    BY <1>3 DEF FirstOf, Send, Pushed
  <2> HIDE DEF d0
  <2>2. /\ inBuf'[n][d0] = Append(inBuf[n][d0], Head(q))
        /\ \A s, d \in Nodes : <<s, d>> # k => inBuf'[s][d] = inBuf[s][d]
        /\ inBuf' \in [Nodes -> [Nodes -> Seq(Packets)]]
    BY <1>1, <2>1
  <2>3. /\ Wires \in [Nodes \X Nodes -> Seq(Packets)]
        /\ \A s, d \in Nodes : Wires[<<s, d>>] = inBuf[s][d]
        /\ DOMAIN Wires' = Nodes \X Nodes
        /\ \A s, d \in Nodes : Wires'[<<s, d>>] = inBuf'[s][d]
    BY <1>1 DEF Wires
  <2>4. /\ k \in Nodes \X Nodes /\ Wires'[k] = Append(Wires[k], Head(q))
        /\ \A x \in Nodes \X Nodes : x # k => Wires'[x] = Wires[x]
    <3>1. k \in Nodes \X Nodes /\ k = <<n, d0>>
      BY <2>1
    <3>2. Wires'[k] = Append(Wires[k], Head(q))
      BY <2>1, <2>2, <2>3
    <3>3. \A x \in Nodes \X Nodes : x = <<x[1], x[2]>> /\ x[1] \in Nodes /\ x[2] \in Nodes
      OBVIOUS
    <3> HIDE DEF k
    <3>4. ASSUME NEW x \in Nodes \X Nodes, x # k PROVE Wires'[x] = Wires[x]
      <4>1. PICK s \in Nodes, d \in Nodes : x = <<s, d>>
        BY <3>3
      <4>2. inBuf'[s][d] = inBuf[s][d]
        BY <2>2, <3>4, <4>1
      <4>3. Wires'[<<s, d>>] = inBuf'[s][d] /\ Wires[<<s, d>>] = inBuf[s][d]
        BY <2>3
      <4>4. QED
        BY <4>1, <4>2, <4>3
    <3>5. QED
      BY <3>1, <3>2, <3>4
  <2>5. Wires' = [Wires EXCEPT ![k] = Append(@, Head(q))]
    <3>1. Wires' = [x \in Nodes \X Nodes |-> Wires'[x]]
      BY <2>3 DEF Wires
    <3> HIDE DEF k
    <3>2. QED
      BY <2>3, <2>4, <3>1
  <2>6. PushesAt(Nodes \X Nodes, Wires, k, Head(q), Wires')
    BY <2>1, <2>4, <2>5 DEF PushesAt
  <2> DEFINE P == Nodes \X Nodes
  <2>7. /\ Neat(P, Wires')
        /\ Contents(Wires') = Contents(Wires) \cup {Head(q)}
        /\ Elems(Wires'[k]) = Elems(Wires[k]) \cup {Head(q)}
    <3>1. Neat(P, Wires) /\ PushesAt(P, Wires, k, Head(q), Wires')
      BY <1>1, <2>6
    <3> HIDE DEF P, k
    <3>2. QED
      BY <3>1, PushOne
  <2>8. ASSUME NEW s \in Nodes, NEW d \in Nodes, NEW r \in Elems(inBuf'[s][d])
        PROVE  r \in Elems(inBuf[s][d]) \/ (d = get_dest_node(r) /\ r \in FirstOf(q))
    <3>1. CASE <<s, d>> = k
      <4>1. s = n /\ d = d0
        BY <3>1
      <4>2. r \in Elems(Wires[k]) \cup {Head(q)}
        <5>1. inBuf'[s][d] = Wires'[k]
          BY <2>3, <4>1
        <5> HIDE DEF k
        <5>2. QED
          BY <2>7, <2>8, <5>1
      <4>3. CASE r = Head(q)
        BY <2>1, <4>1, <4>3 DEF d0
      <4>4. CASE r \in Elems(Wires[k])
        BY <2>3, <3>1, <4>4
      <4>5. QED
        BY <4>2, <4>3, <4>4
    <3>2. CASE <<s, d>> # k
      BY <2>2, <2>8, <3>2
    <3>3. QED
      BY <3>1, <3>2
  <2>9. QED
    BY <2>1, <2>2, <2>7, <2>8
<1>4. QED
  BY <1>2, <1>3
-----------------------------------------------------------------------------
(* get_dest_node: a request goes to its channel, a reply to its core.      *)
LEMMA DestNode ==
  ASSUME NEW r \in Packets
  PROVE  /\ get_dest_node(r) \in Nodes
         /\ r \in replied => get_dest_node(r) \in PortNodes /\ Core(get_dest_node(r)) = CoreOf[r]
         /\ r \notin replied => get_dest_node(r) \notin PortNodes
                                /\ Chan(get_dest_node(r)) = ChanOf[r]
<1>1. CoreOf[r] \in Cores /\ ChanOf[r] \in Chans /\ ChanOf[r] \in Nat
  BY PathAssumption DEF Chans
<1>2. CASE r \in replied
  <2>1. get_dest_node(r) = CoreOf[r] * NPorts + (ChanOf[r] % NPorts)
    BY <1>2 DEF get_dest_node
  <2>2. get_dest_node(r) \in PortNodes /\ Core(get_dest_node(r)) = CoreOf[r]
    BY <1>1, <2>1, NodeNumbers
  <2>3. QED
    BY <1>2, <2>2, NodeNumbers
<1>3. CASE r \notin replied
  <2>1. get_dest_node(r) = Offset + ChanOf[r]
    BY <1>3 DEF get_dest_node
  <2>2. QED
    BY <1>1, <1>3, <2>1, NodeNumbers
<1>4. QED
  BY <1>2, <1>3

(* The stage of a request in terms of the queues' contents.                *)
InMem == Contents(toMem) \cup Contents(dram) \cup Contents(toXbar)

StageOf(r) ==
  IF r \notin issued THEN "new" ELSE IF r \in Contents(reqQ) THEN "core"
  ELSE IF r \in Done THEN "answered"
  ELSE IF r \in InMem \/ r \in replied THEN "memory" ELSE "net"

LEMMA Whereabouts ==
  IInv => \A r : /\ Queued(r) <=> r \in Contents(reqQ)
                 /\ InNet(r) <=> r \in Contents(Wires) \cup Contents(outBuf)
                 /\ AtPort(r) <=> r \in Contents(fromXbar)
                 /\ InMemory(r) <=> r \in InMem
                 /\ Answered(r) <=> r \in Done
<1> SUFFICES ASSUME IInv, NEW r
             PROVE  /\ Queued(r) <=> r \in Contents(reqQ)
                    /\ InNet(r) <=> r \in Contents(Wires) \cup Contents(outBuf)
                    /\ AtPort(r) <=> r \in Contents(fromXbar)
                    /\ InMemory(r) <=> r \in InMem
                    /\ Answered(r) <=> r \in Done
  OBVIOUS
<1>1. /\ DOMAIN reqQ = Cores /\ DOMAIN outBuf = Nodes /\ DOMAIN fromXbar = Chans
      /\ DOMAIN toMem = Chans /\ DOMAIN dram = Chans /\ DOMAIN toXbar = Chans
      /\ DOMAIN Wires = Nodes \X Nodes
  BY DEF IInv, TypeOK, Neat
<1>2. Queued(r) <=> r \in Contents(reqQ)
  BY <1>1 DEF Queued, Contents
<1>3. AtPort(r) <=> r \in Contents(fromXbar)
  BY <1>1 DEF AtPort, Contents
<1>4. InMemory(r) <=> r \in InMem
  BY <1>1 DEF InMemory, InMem, Contents
<1>5. Answered(r) <=> r \in Done
  BY DEF Answered, Done
<1>6. (\E d \in Nodes : r \in Elems(outBuf[d])) <=> r \in Contents(outBuf)
  BY <1>1 DEF Contents
<1>7. (\E s, d \in Nodes : r \in Elems(inBuf[s][d])) <=> r \in Contents(Wires)
  <2>1. \A x \in Nodes \X Nodes : Wires[x] = inBuf[x[1]][x[2]]
    BY DEF Wires
  <2>2. r \in Contents(Wires) <=> \E x \in Nodes \X Nodes : r \in Elems(Wires[x])
    BY <1>1 DEF Contents
  <2>3. ASSUME NEW s \in Nodes, NEW d \in Nodes PROVE Wires[<<s, d>>] = inBuf[s][d]
    BY <2>1
  <2>4. ASSUME NEW x \in Nodes \X Nodes
        PROVE  x[1] \in Nodes /\ x[2] \in Nodes
    OBVIOUS
  <2>5. (\E s, d \in Nodes : r \in Elems(inBuf[s][d])) => r \in Contents(Wires)
    <3>1. ASSUME NEW s \in Nodes, NEW d \in Nodes, r \in Elems(inBuf[s][d])
          PROVE  r \in Contents(Wires)
      <4>1. <<s, d>> \in Nodes \X Nodes /\ r \in Elems(Wires[<<s, d>>])
        BY <2>3, <3>1
      <4>2. QED
        BY <2>2, <4>1
    <3>2. QED
      BY <3>1
  <2>6. r \in Contents(Wires) => \E s, d \in Nodes : r \in Elems(inBuf[s][d])
    BY <2>1, <2>2, <2>4
  <2>7. QED
    BY <2>5, <2>6
<1>8. QED
  BY <1>2, <1>3, <1>4, <1>5, <1>6, <1>7 DEF InNet

LEMMA StageIs == IInv => stage = [r \in Packets |-> StageOf(r)]
BY Whereabouts DEF stage, StageOf

(* All queues are empty.                                                   *)
LEMMA EmptyQueues ==
  ASSUME NEW S
  PROVE  Neat(S, [i \in S |-> <<>>]) /\ Contents([i \in S |-> <<>>]) = {}
<1> DEFINE f == [i \in S |-> <<>>]
<1>1. \A i \in S : f[i] \in Seq(Packets) /\ Elems(f[i]) = {} /\ NoRepeat(f[i])
  BY DEF Elems, NoRepeat
<1>2. DOMAIN f = S /\ f \in [S -> Seq(Packets)]
  OBVIOUS
<1> HIDE DEF f
<1>3. Neat(S, f) /\ Contents(f) = {}
  BY <1>1, <1>2 DEF Neat, Contents
<1>4. QED
  BY <1>3 DEF f

LEMMA InitInvariant == Init => IInv
<1> SUFFICES ASSUME Init PROVE IInv
  OBVIOUS
<1>1. /\ pc = "mask" /\ due = {} /\ node = 0 /\ replied = {} /\ issued = {}
      /\ reqQ = [c \in Cores |-> <<>>] /\ fromXbar = [m \in Chans |-> <<>>]
      /\ toMem = fromXbar /\ dram = fromXbar /\ toXbar = fromXbar
      /\ answers = [c \in Cores |-> {}]
      /\ inBuf = [s \in Nodes |-> [d \in Nodes |-> <<>>]]
      /\ outBuf = [d \in Nodes |-> <<>>] /\ rr = [d \in Nodes |-> 0]
  BY DEF Init, IcntInit
<1>2. Wires = [x \in Nodes \X Nodes |-> <<>>]
  BY <1>1 DEF Wires
<1>3. /\ Neat(Cores, reqQ) /\ Neat(Nodes \X Nodes, Wires) /\ Neat(Nodes, outBuf)
      /\ Neat(Chans, fromXbar)
      /\ Contents(reqQ) = {} /\ Contents(Wires) = {} /\ Contents(outBuf) = {}
      /\ Contents(fromXbar) = {}
  BY <1>1, <1>2, EmptyQueues
<1>4. Done = {}
  BY <1>1 DEF Done
<1>5. 0 \in Nodes
  BY NodeAssumption DEF Nodes
<1>6. inBuf \in [Nodes -> [Nodes -> Seq(Packets)]]
  BY <1>1
<1>7. TypeOK
  BY <1>1, <1>3, <1>5, <1>6 DEF TypeOK
<1>8. PlaceInv
  BY <1>1, <1>3, <1>4 DEF PlaceInv, Apart
<1>9. RouteInv
  <2>1. /\ \A c \in Cores : reqQ[c] = <<>> /\ answers[c] = {}
        /\ \A s, d \in Nodes : inBuf[s][d] = <<>> /\ outBuf[d] = <<>>
        /\ \A m \in Chans : fromXbar[m] = <<>> /\ toMem[m] = <<>> /\ dram[m] = <<>>
                            /\ toXbar[m] = <<>>
    BY <1>1
  <2>2. Elems(<<>>) = {}
    BY DEF Elems
  <2>3. QED
    BY <2>1, <2>2 DEF RouteInv
<1>10. QED
  BY <1>7, <1>8, <1>9 DEF IInv
-----------------------------------------------------------------------------
LEMMA StageWillBe == IInv' => (stage = [r \in Packets |-> StageOf(r)])'
BY StageIs, PTL

LEMMA AdvanceBy ==
  ASSUME IInv, IInv',
         \A r \in Packets : \/ StageOf(r)' = StageOf(r)
                            \/ <<StageOf(r), StageOf(r)'>> \in Path!Move[clock]
  PROVE  Path!Advance
<1>1. \A r \in Packets : stage[r] = StageOf(r) /\ stage'[r] = StageOf(r)'
  BY StageIs, StageWillBe
<1>2. QED
  BY <1>1 DEF Path!Advance

(* Steps of the loop that move no request.                                 *)
LEMMA ControlSteps ==
  ASSUME IInv,
         (\E D \in SUBSET Domains : SetCycleMask(D)) \/ CoresDone \/ NoIcntCycle
           \/ UNCHANGED vars
  PROVE  IInv' /\ Path!Advance
<1>1. /\ pc' \in {"mask", "core", "cache", "dram", "icnt", "route"} /\ due' \subseteq Domains
      /\ UNCHANGED <<icntVars, node, chanVars, replied, coreVars>>
  BY DEF SetCycleMask, CoresDone, NoIcntCycle, vars, IInv, TypeOK
<1>2. /\ UNCHANGED <<inBuf, outBuf, rr, node, replied, reqQ, issued, answers>>
      /\ UNCHANGED <<fromXbar, toMem, dram, toXbar>>
  BY <1>1 DEF icntVars, chanVars, coreVars
<1>3. Wires' = Wires /\ Done' = Done
  BY <1>2 DEF Wires, Done
<1>4. TypeOK'
  BY <1>1, <1>2, <1>3 DEF IInv, TypeOK
<1>5. RouteInv'
  BY <1>2 DEF IInv, RouteInv, get_dest_node
<1>6. PlaceInv'
  BY <1>2, <1>3 DEF IInv, PlaceInv, Apart
<1>7. IInv'
  BY <1>4, <1>5, <1>6 DEF IInv
<1>8. \A r \in Packets : StageOf(r)' = StageOf(r)
  BY <1>2, <1>3 DEF StageOf, InMem
<1>9. QED
  BY <1>7, <1>8, AdvanceBy

-----------------------------------------------------------------------------
(* The requests that change places leave them apart.                       *)
LEMMA GenerateApart ==
  ASSUME NEW Q, NEW W, NEW O, NEW F, NEW T, NEW D, NEW X, NEW A, NEW I, NEW R,
         Apart(Q, W, O, F, T, D, X, A, I, R),
         NEW r, r \notin I, r \notin R
  PROVE  Apart(Q \cup {r}, W, O, F, T, D, X, A, I \cup {r}, R)
BY DEF Apart

LEMMA CacheApart ==
  ASSUME NEW Q, NEW W, NEW O, NEW F, NEW T, NEW D, NEW X, NEW A, NEW I, NEW R,
         Apart(Q, W, O, F, T, D, X, A, I, R),
         NEW M, M \subseteq F
  PROVE  Apart(Q, W, O, F \ M, T \cup M, D, X, A, I, R)
BY DEF Apart

LEMMA DramApart ==
  ASSUME NEW Q, NEW W, NEW O, NEW F, NEW T, NEW D, NEW X, NEW A, NEW I, NEW R,
         Apart(Q, W, O, F, T, D, X, A, I, R),
         NEW K, K \subseteq T, NEW B, B \subseteq D \cup K
  PROVE  Apart(Q, W, O, F, T \ K, (D \cup K) \ B, X \cup B, A, I, R \cup B)
BY DEF Apart

LEMMA PortApart ==
  ASSUME NEW Q, NEW W, NEW O, NEW F, NEW T, NEW D, NEW X, NEW A, NEW I, NEW R,
         Apart(Q, W, O, F, T, D, X, A, I, R),
         NEW S, S \subseteq Q, NEW P, P \subseteq O, P \subseteq R
  PROVE  Apart(Q \ S, W \cup S, O \ P, F, T, D, X, A \cup P, I, R)
BY DEF Apart

LEMMA ChannelApart ==
  ASSUME NEW Q, NEW W, NEW O, NEW F, NEW T, NEW D, NEW X, NEW A, NEW I, NEW R,
         Apart(Q, W, O, F, T, D, X, A, I, R),
         NEW P, P \subseteq O, P \cap R = {}, NEW S, S \subseteq X
  PROVE  Apart(Q, W \cup S, O \ P, F \cup P, T, D, X \ S, A, I, R)
BY DEF Apart

LEMMA RouterApart ==
  ASSUME NEW Q, NEW W, NEW O, NEW F, NEW T, NEW D, NEW X, NEW A, NEW I, NEW R,
         Apart(Q, W, O, F, T, D, X, A, I, R),
         NEW E, E \subseteq W
  PROVE  Apart(Q, W \ E, O \cup E, F, T, D, X, A, I, R)
BY DEF Apart

(* DMA::get_memory_access puts a new request in the queue of its core.     *)
LEMMA GenerateStep ==
  ASSUME IInv, NEW r \in Packets, Generate(r)
  PROVE  IInv' /\ Path!Advance
<1>1. /\ pc = "core" /\ "core" \in due /\ r \notin issued
      /\ issued' = issued \cup {r} /\ reqQ' = [reqQ EXCEPT ![CoreOf[r]] = Append(@, r)]
      /\ UNCHANGED <<inBuf, outBuf, rr, pc, due, node, replied, answers>>
      /\ UNCHANGED <<fromXbar, toMem, dram, toXbar>>
  BY DEF Generate, icntVars, chanVars
<1>2. r \notin Contents(reqQ) /\ CoreOf[r] \in Cores /\ r \notin replied
  BY <1>1, PathAssumption DEF IInv, PlaceInv, Apart, TypeOK
<1>3. PushesAt(Cores, reqQ, CoreOf[r], r, reqQ') /\ Neat(Cores, reqQ)
  BY <1>1, <1>2 DEF PushesAt, IInv, TypeOK
<1>4. /\ Neat(Cores, reqQ') /\ Contents(reqQ') = Contents(reqQ) \cup {r}
      /\ Elems(reqQ'[CoreOf[r]]) = Elems(reqQ[CoreOf[r]]) \cup {r}
      /\ \A c \in Cores : c # CoreOf[r] => Elems(reqQ'[c]) = Elems(reqQ[c])
  BY <1>3, PushOne
<1>5. Wires' = Wires /\ Done' = Done
  BY <1>1 DEF Wires, Done
<1>6. TypeOK'
  BY <1>1, <1>4, <1>5 DEF IInv, TypeOK
<1>7. RouteInv'
  <2>1. \A c \in Cores : \A x \in Elems(reqQ'[c]) : x \in Elems(reqQ[c]) \/ (x = r /\ c = CoreOf[r])
    BY <1>4
  <2>2. \A c \in Cores : \A x \in Elems(reqQ'[c]) \cup answers'[c] : c = CoreOf[x]
    BY <1>1, <2>1 DEF IInv, RouteInv
  <2>3. QED
    BY <1>1, <2>2 DEF IInv, RouteInv, get_dest_node
<1>8. PlaceInv'
  <2>1. PlaceInv
    BY DEF IInv
  <2>2. Apart(Contents(reqQ) \cup {r}, Contents(Wires), Contents(outBuf), Contents(fromXbar),
              Contents(toMem), Contents(dram), Contents(toXbar), Done, issued \cup {r}, replied)
    BY <1>1, <1>2, <2>1, GenerateApart DEF PlaceInv
  <2>3. QED
    BY <1>1, <1>4, <1>5, <2>2 DEF PlaceInv
<1>9. IInv'
  BY <1>6, <1>7, <1>8 DEF IInv
<1>10. clock = "core" /\ <<"new", "core">> \in Path!Move["core"]
  BY <1>1 DEF clock, Path!Move
<1>11. StageOf(r) = "new" /\ StageOf(r)' = "core"
  BY <1>1, <1>4 DEF StageOf
<1>12. \A x \in Packets : x # r => StageOf(x)' = StageOf(x)
  BY <1>1, <1>4, <1>5 DEF StageOf, InMem
<1>13. QED
  BY <1>9, <1>10, <1>11, <1>12, AdvanceBy

(* The cache port: the heads of the queues from the interconnect pass.     *)
LEMMA CacheStep ==
  ASSUME IInv, CacheCycle
  PROVE  IInv' /\ Path!Advance
<1> DEFINE M == {m \in Chans : CacheDue /\ fromXbar[m] # <<>>}
           x == [m \in M |-> Head(fromXbar[m])]
<1>1. /\ pc = "cache" /\ pc' = "dram"
      /\ fromXbar' = [m \in Chans |-> IF m \in M THEN Tail(fromXbar[m]) ELSE fromXbar[m]]
      /\ toMem' = [m \in Chans |-> IF m \in M THEN Append(toMem[m], Head(fromXbar[m]))
                                              ELSE toMem[m]]
      /\ UNCHANGED <<inBuf, outBuf, rr, due, node, replied, reqQ, issued, answers>>
      /\ UNCHANGED <<dram, toXbar>>
  BY DEF CacheCycle, icntVars, coreVars
<1>2. /\ Neat(Chans, fromXbar) /\ Neat(Chans, toMem)
      /\ fromXbar \in [Chans -> Seq(Packets)] /\ toMem \in [Chans -> Seq(Packets)]
      /\ \A m \in M : m \in Chans /\ fromXbar[m] # <<>>
  BY DEF IInv, TypeOK, Neat
<1>3. \A m \in M : Head(fromXbar[m]) \in Packets /\ Tail(fromXbar[m]) \in Seq(Packets)
  BY <1>2
<1>4. x \in [M -> Packets] /\ \A m \in M : x[m] = Head(fromXbar[m])
  BY <1>3
<1> HIDE DEF M, x
<1>5. Pops(Chans, fromXbar, M, fromXbar')
  BY <1>1, <1>2, <1>3 DEF Pops
<1>6. /\ Neat(Chans, fromXbar')
      /\ Contents(fromXbar') = Contents(fromXbar) \ HeadsOf(fromXbar, M)
      /\ HeadsOf(fromXbar, M) \subseteq Contents(fromXbar)
      /\ \A m \in Chans : Elems(fromXbar'[m]) \subseteq Elems(fromXbar[m])
      /\ \A m \in M : Head(fromXbar[m]) \in Elems(fromXbar[m])
  <2>1. Neat(Chans, fromXbar)
    BY <1>2
  <2>2. QED
    BY <1>5, <2>1, PopAll
<1>7. Values(x, M) = HeadsOf(fromXbar, M)
  BY <1>4 DEF Values, HeadsOf
<1>8. Pushes(Chans, toMem, M, x, toMem')
  <2>1. \A m \in M : x[m] \notin Contents(toMem)
    BY <1>4, <1>6 DEF IInv, PlaceInv, Apart, HeadsOf
  <2>2. \A m, n \in M : x[m] = x[n] => m = n
    BY <1>2, <1>4, <1>6 DEF Neat
  <2>3. \A m \in M : toMem'[m] = Append(toMem[m], x[m]) /\ toMem'[m] \in Seq(Packets)
    BY <1>1, <1>2, <1>3, <1>4
  <2>4. \A m \in Chans \ M : toMem'[m] = toMem[m]
    BY <1>1
  <2>5. M \subseteq Chans
    BY <1>2
  <2>6. toMem' \in [Chans -> Seq(Packets)]
    BY <1>1, <1>2, <2>3, <2>4, <2>5
  <2>7. QED
    BY <1>4, <2>1, <2>2, <2>3, <2>4, <2>5, <2>6 DEF Pushes
<1>9. /\ Neat(Chans, toMem')
      /\ Contents(toMem') = Contents(toMem) \cup Values(x, M)
      /\ \A m \in M : Elems(toMem'[m]) = Elems(toMem[m]) \cup {x[m]}
      /\ \A m \in Chans \ M : Elems(toMem'[m]) = Elems(toMem[m])
  <2>1. Neat(Chans, toMem)
    BY <1>2
  <2>2. QED
    BY <1>8, <2>1, PushAll
<1>10. Wires' = Wires /\ Done' = Done
  BY <1>1 DEF Wires, Done
<1>11. TypeOK'
  BY <1>1, <1>6, <1>9, <1>10 DEF IInv, TypeOK
<1>12. RouteInv'
  <2>1. ASSUME NEW m \in Chans, NEW r \in Elems(toMem'[m]) PROVE m = ChanOf[r]
    <3>1. r \in Elems(toMem[m]) \/ (m \in M /\ r = x[m])
      BY <1>9
    <3>2. r \in Elems(toMem[m]) \/ r \in Elems(fromXbar[m])
      BY <1>4, <1>6, <3>1
    <3>3. QED
      BY <3>2 DEF IInv, RouteInv
  <2>2. \A m \in Chans : \A r \in Elems(fromXbar'[m]) \cup Elems(dram'[m]) \cup Elems(toXbar'[m]) :
          m = ChanOf[r]
    BY <1>1, <1>6 DEF IInv, RouteInv
  <2>3. QED
    BY <1>1, <2>1, <2>2 DEF IInv, RouteInv, get_dest_node
<1>13. PlaceInv'
  <2>1. PlaceInv /\ HeadsOf(fromXbar, M) \subseteq Contents(fromXbar)
    BY <1>6 DEF IInv
  <2>2. /\ Contents(fromXbar') = Contents(fromXbar) \ HeadsOf(fromXbar, M)
        /\ Contents(toMem') = Contents(toMem) \cup HeadsOf(fromXbar, M)
    BY <1>6, <1>7, <1>9
  <2>3. Apart(Contents(reqQ), Contents(Wires), Contents(outBuf),
              Contents(fromXbar) \ HeadsOf(fromXbar, M), Contents(toMem) \cup HeadsOf(fromXbar, M),
              Contents(dram), Contents(toXbar), Done, issued, replied)
    BY <2>1, CacheApart DEF PlaceInv
  <2>4. UNCHANGED <<reqQ, outBuf, dram, toXbar, issued, replied>>
    BY <1>1
  <2>5. QED
    BY <1>10, <2>2, <2>3, <2>4 DEF PlaceInv
<1>14. IInv'
  BY <1>11, <1>12, <1>13 DEF IInv
<1>15. ASSUME NEW r \in Packets
       PROVE  StageOf(r)' = StageOf(r) \/ <<StageOf(r), StageOf(r)'>> \in Path!Move[clock]
  <2>1. CASE r \in HeadsOf(fromXbar, M)
    <3>1. "core" \in due
      BY <2>1 DEF HeadsOf, M, CacheDue
    <3>2. clock = "core" /\ <<"net", "memory">> \in Path!Move["core"]
      BY <1>1, <3>1 DEF clock, Path!Move
    <3>3. StageOf(r) = "net"
      BY <1>6, <2>1 DEF StageOf, InMem, IInv, PlaceInv, Apart
    <3>4. StageOf(r)' = "memory"
      BY <1>1, <1>6, <1>7, <1>9, <1>10, <2>1 DEF StageOf, InMem, IInv, PlaceInv, Apart
    <3>5. QED
      BY <3>2, <3>3, <3>4
  <2>2. CASE r \notin HeadsOf(fromXbar, M)
    BY <1>1, <1>7, <1>9, <1>10, <2>2 DEF StageOf, InMem
  <2>3. QED
    BY <2>1, <2>2
<1>16. QED
  BY <1>14, <1>15, AdvanceBy

(* Dram::cycle: the channels in A admit a request, those in B turn theirs  *)
(* round.                                                                  *)
LEMMA DramStep ==
  ASSUME IInv, NEW A \in SUBSET Chans, NEW B \in SUBSET Chans, DramCycle(A, B)
  PROVE  IInv' /\ Path!Advance
<1> DEFINE a == [m \in Chans |-> Admitted(A, m)]
           x == [m \in A |-> Head(toMem[m])]
           y == [m \in B |-> Head(a[m])]
           K == HeadsOf(toMem, A)
           H == HeadsOf(a, B)
<1>1. /\ pc = "dram" /\ pc' = "icnt"
      /\ \A m \in A : toMem[m] # <<>>
      /\ \A m \in B : a[m] # <<>>
      /\ toMem' = [m \in Chans |-> IF m \in A THEN Tail(toMem[m]) ELSE toMem[m]]
      /\ dram' = [m \in Chans |-> IF m \in B THEN Tail(a[m]) ELSE a[m]]
      /\ toXbar' = [m \in Chans |-> IF m \in B THEN Append(toXbar[m], Head(a[m]))
                                               ELSE toXbar[m]]
      /\ UNCHANGED <<inBuf, outBuf, rr, due, node, fromXbar, reqQ, issued, answers>>
  BY DEF DramCycle, icntVars, coreVars
<1>2. replied' = replied \cup H
  <2>1. replied' = replied \cup {Head(Admitted(A, m)) : m \in B}
    BY DEF DramCycle
  <2>2. \A m \in B : a[m] = Admitted(A, m)
    OBVIOUS
  <2> HIDE DEF a
  <2>3. QED
    BY <2>1, <2>2 DEF HeadsOf
<1>3. /\ Neat(Chans, toMem) /\ Neat(Chans, dram) /\ Neat(Chans, toXbar)
      /\ toMem \in [Chans -> Seq(Packets)] /\ dram \in [Chans -> Seq(Packets)]
      /\ toXbar \in [Chans -> Seq(Packets)]
  BY DEF IInv, TypeOK, Neat
<1>4. \A m \in A : Head(toMem[m]) \in Packets /\ Tail(toMem[m]) \in Seq(Packets)
  BY <1>1, <1>3
<1>5. Pops(Chans, toMem, A, toMem')
  BY <1>1, <1>3, <1>4 DEF Pops
<1>6. /\ Neat(Chans, toMem')
      /\ Contents(toMem') = Contents(toMem) \ K
      /\ K \subseteq Contents(toMem)
      /\ \A m \in Chans : Elems(toMem'[m]) \subseteq Elems(toMem[m])
      /\ \A m \in A : Head(toMem[m]) \in Elems(toMem[m])
  <2>1. Neat(Chans, toMem)
    BY <1>3
  <2>2. QED
    BY <1>5, <2>1, PopAll
<1>7. /\ x \in [A -> Packets] /\ \A m \in A : x[m] = Head(toMem[m])
      /\ \A m \in A : a[m] = Append(dram[m], x[m]) /\ a[m] \in Seq(Packets)
      /\ \A m \in Chans \ A : a[m] = dram[m] /\ a[m] \in Seq(Packets)
      /\ a = [m \in Chans |-> a[m]]
  BY <1>3, <1>4 DEF Admitted
<1> HIDE DEF a, x
<1>8. Values(x, A) = K
  BY <1>7 DEF Values, HeadsOf
<1>9. Pushes(Chans, dram, A, x, a)
  <2>1. \A m \in A : x[m] \notin Contents(dram)
    BY <1>6, <1>7 DEF IInv, PlaceInv, Apart, HeadsOf
  <2>2. \A m, n \in A : x[m] = x[n] => m = n
    <3>1. \A m \in A : x[m] \in Elems(toMem[m])
      BY <1>6, <1>7
    <3>2. \A m, n \in Chans : m # n => Elems(toMem[m]) \cap Elems(toMem[n]) = {}
      BY <1>3 DEF Neat
    <3>3. QED
      BY <3>1, <3>2
  <2>3. a \in [Chans -> Seq(Packets)]
    BY <1>7
  <2>4. QED
    BY <1>7, <2>1, <2>2, <2>3 DEF Pushes
<1>10. /\ Neat(Chans, a)
       /\ Contents(a) = Contents(dram) \cup K
       /\ \A m \in A : Elems(a[m]) = Elems(dram[m]) \cup {x[m]}
       /\ \A m \in Chans \ A : Elems(a[m]) = Elems(dram[m])
  <2>1. Neat(Chans, dram)
    BY <1>3
  <2>2. QED
    BY <1>8, <1>9, <2>1, PushAll
<1>11. a \in [Chans -> Seq(Packets)] /\ \A m \in B : Tail(a[m]) \in Seq(Packets)
                                                     /\ Head(a[m]) \in Packets
  BY <1>1, <1>10 DEF Neat
<1>12. Pops(Chans, a, B, dram')
  BY <1>1, <1>11 DEF Pops
<1>13. /\ Neat(Chans, dram')
       /\ Contents(dram') = Contents(a) \ H
       /\ H \subseteq Contents(a)
       /\ \A m \in Chans : Elems(dram'[m]) \subseteq Elems(a[m])
       /\ \A m \in B : Head(a[m]) \in Elems(a[m])
  <2>1. Neat(Chans, a)
    BY <1>10
  <2>2. QED
    BY <1>12, <2>1, PopAll
<1>14. y \in [B -> Packets] /\ \A m \in B : y[m] = Head(a[m])
  BY <1>11
<1> HIDE DEF y
<1>15. Values(y, B) = H
  BY <1>14 DEF Values, HeadsOf
<1>16. H \subseteq Contents(dram) \cup K /\ H \cap Contents(toXbar) = {}
       /\ H \subseteq Contents(toMem) \cup Contents(dram)
  BY <1>6, <1>10, <1>13 DEF IInv, PlaceInv, Apart
<1>17. Pushes(Chans, toXbar, B, y, toXbar')
  <2>1. \A m \in B : y[m] \notin Contents(toXbar)
    BY <1>14, <1>16 DEF HeadsOf
  <2>2. \A m, n \in B : y[m] = y[n] => m = n
    BY <1>10, <1>13, <1>14 DEF Neat
  <2>3. \A m \in B : toXbar'[m] = Append(toXbar[m], y[m]) /\ toXbar'[m] \in Seq(Packets)
    BY <1>1, <1>3, <1>11, <1>14
  <2>4. \A m \in Chans \ B : toXbar'[m] = toXbar[m]
    BY <1>1
  <2>5. toXbar' \in [Chans -> Seq(Packets)]
    BY <1>1, <1>3, <2>3, <2>4
  <2>6. QED
    BY <1>14, <2>1, <2>2, <2>3, <2>4, <2>5 DEF Pushes
<1>18. /\ Neat(Chans, toXbar')
       /\ Contents(toXbar') = Contents(toXbar) \cup H
       /\ \A m \in B : Elems(toXbar'[m]) = Elems(toXbar[m]) \cup {y[m]}
       /\ \A m \in Chans \ B : Elems(toXbar'[m]) = Elems(toXbar[m])
  <2>1. Neat(Chans, toXbar)
    BY <1>3
  <2>2. QED
    BY <1>15, <1>17, <2>1, PushAll
<1>19. Wires' = Wires /\ Done' = Done
  BY <1>1 DEF Wires, Done
<1> HIDE DEF K, H
<1>20. TypeOK'
  <2>1. H \subseteq issued
    BY <1>16 DEF IInv, PlaceInv, Apart
  <2>2. QED
    BY <1>1, <1>2, <1>6, <1>13, <1>18, <1>19, <2>1 DEF IInv, TypeOK
<1>21. ASSUME NEW r \in Contents(Wires) \cup Contents(outBuf)
       PROVE  get_dest_node(r)' = get_dest_node(r)
  <2>1. r \notin H
    BY <1>16 DEF IInv, PlaceInv, Apart
  <2>2. QED
    BY <1>2, <2>1 DEF get_dest_node
<1>22. RouteInv'
  <2>1. ASSUME NEW m \in Chans, NEW r \in Elems(a[m]) PROVE m = ChanOf[r]
    <3>1. r \in Elems(dram[m]) \/ (m \in A /\ r = x[m])
      BY <1>10
    <3>2. r \in Elems(dram[m]) \/ r \in Elems(toMem[m])
      BY <1>6, <1>7, <3>1
    <3>3. QED
      BY <3>2 DEF IInv, RouteInv
  <2>2. ASSUME NEW m \in Chans, NEW r \in Elems(toXbar'[m]) PROVE m = ChanOf[r]
    <3>1. r \in Elems(toXbar[m]) \/ (m \in B /\ r = y[m])
      BY <1>18
    <3>2. r \in Elems(toXbar[m]) \/ r \in Elems(a[m])
      BY <1>13, <1>14, <3>1
    <3>3. QED
      BY <2>1, <3>2 DEF IInv, RouteInv
  <2>3. \A m \in Chans :
          \A r \in Elems(fromXbar'[m]) \cup Elems(toMem'[m]) \cup Elems(dram'[m])
                   \cup Elems(toXbar'[m]) : m = ChanOf[r]
    <3>1. fromXbar' = fromXbar
      BY <1>1
    <3>2. ASSUME NEW m \in Chans, NEW r \in Elems(fromXbar[m]) PROVE m = ChanOf[r]
      BY DEF IInv, RouteInv
    <3>3. ASSUME NEW m \in Chans, NEW r \in Elems(toMem'[m]) PROVE m = ChanOf[r]
      <4>1. r \in Elems(toMem[m])
        BY <1>6
      <4>2. QED
        BY <4>1 DEF IInv, RouteInv
    <3>4. ASSUME NEW m \in Chans, NEW r \in Elems(dram'[m]) PROVE m = ChanOf[r]
      <4>1. r \in Elems(a[m])
        BY <1>13
      <4>2. QED
        BY <2>1, <4>1
    <3>5. QED
      BY <2>2, <3>1, <3>2, <3>3, <3>4
  <2>4. ASSUME NEW s \in Nodes, NEW d \in Nodes, NEW r \in Elems(inBuf[s][d])
        PROVE  d = get_dest_node(r)'
    <3>1. d = get_dest_node(r)
      BY <2>4 DEF IInv, RouteInv
    <3>2. InNet(r)
      BY <2>4 DEF InNet
    <3>3. QED
      BY <1>21, <3>1, <3>2, Whereabouts
  <2>5. ASSUME NEW d \in Nodes, NEW r \in Elems(outBuf[d])
        PROVE  d = get_dest_node(r)'
    <3>1. d = get_dest_node(r)
      BY <2>5 DEF IInv, RouteInv
    <3>2. InNet(r)
      BY <2>5 DEF InNet
    <3>3. QED
      BY <1>21, <3>1, <3>2, Whereabouts
  <2>6. \A c \in Cores : \A r \in Elems(reqQ'[c]) \cup answers'[c] : c = CoreOf[r]
    BY <1>1 DEF IInv, RouteInv
  <2>7. inBuf' = inBuf /\ outBuf' = outBuf
    BY <1>1
  <2>8. QED
    BY <2>3, <2>4, <2>5, <2>6, <2>7 DEF RouteInv
<1>23. PlaceInv'
  <2>1. PlaceInv /\ K \subseteq Contents(toMem) /\ H \subseteq Contents(dram) \cup K
    BY <1>6, <1>16 DEF IInv, K, H
  <2>2. Apart(Contents(reqQ), Contents(Wires), Contents(outBuf), Contents(fromXbar),
              Contents(toMem) \ K, (Contents(dram) \cup K) \ H, Contents(toXbar) \cup H,
              Done, issued, replied \cup H)
    BY <2>1, DramApart DEF PlaceInv
  <2>3. UNCHANGED <<reqQ, outBuf, fromXbar, issued>>
    BY <1>1
  <2>4. /\ Contents(toMem') = Contents(toMem) \ K
        /\ Contents(dram') = (Contents(dram) \cup K) \ H
        /\ Contents(toXbar') = Contents(toXbar) \cup H
    BY <1>6, <1>10, <1>13, <1>18
  <2>5. QED
    BY <1>2, <1>19, <2>2, <2>3, <2>4 DEF PlaceInv
<1>24. IInv'
  BY <1>20, <1>22, <1>23 DEF IInv
<1>25. ASSUME NEW r \in Packets PROVE StageOf(r)' = StageOf(r)
  <2>1. r \in InMem' <=> r \in InMem
    BY <1>6, <1>10, <1>13, <1>16, <1>18 DEF InMem
  <2>2. r \in H => r \in InMem
    BY <1>16 DEF InMem
  <2>3. QED
    BY <1>1, <1>2, <1>19, <2>1, <2>2 DEF StageOf
<1>26. QED
  BY <1>24, <1>25, AdvanceBy

(* icnt_cycle at a port of a core: the first request of the core leaves,   *)
(* the first response of the port is given to the core.                    *)
LEMMA PortStep ==
  ASSUME IInv, PortCycle
  PROVE  IInv' /\ Path!Advance
<1> DEFINE c == Core(node)
           q == reqQ[c]
           S == FirstOf(q)
           P == FirstOf(outBuf[node])
<1>1. /\ pc = "icnt" /\ node \in PortNodes /\ NextNode
      /\ inBuf' = Send(q, node)
      /\ reqQ' = [reqQ EXCEPT ![c] = Rest(@)]
      /\ outBuf' = Receive(node)
      /\ answers' = IF outBuf[node] = <<>> THEN answers
                    ELSE [answers EXCEPT ![c] = @ \cup {Head(outBuf[node])}]
      /\ UNCHANGED <<rr, due, fromXbar, toMem, dram, toXbar, replied, issued>>
  BY DEF PortCycle, chanVars
<1>2. c \in Cores /\ node \in Nodes
  BY <1>1, NodeNumbers
<1>3. /\ Neat(Cores, reqQ) /\ Neat(Nodes, outBuf) /\ q \in Seq(Packets)
      /\ outBuf \in [Nodes -> Seq(Packets)] /\ answers \in [Cores -> SUBSET Packets]
  BY <1>2 DEF IInv, TypeOK, Neat
<1>4. TakesAt(Cores, reqQ, c, reqQ')
  BY <1>1, <1>2 DEF TakesAt
<1>5. TakesAt(Nodes, outBuf, node, outBuf')
  <2>1. [outBuf EXCEPT ![node] = Rest(@)] = Receive(node)
    BY <1>2, <1>3 DEF Rest, Receive, Popped
  <2>2. QED
    BY <1>1, <1>2, <2>1 DEF TakesAt
<1> HIDE DEF c
<1>6. /\ Neat(Cores, reqQ') /\ Contents(reqQ') = Contents(reqQ) \ S
      /\ S \subseteq Elems(reqQ[c]) /\ S \subseteq Contents(reqQ) /\ S \subseteq Packets
      /\ \A i \in Cores : Elems(reqQ'[i]) \subseteq Elems(reqQ[i])
  <2>1. Neat(Cores, reqQ)
    BY <1>3
  <2>2. QED
    BY <1>4, <2>1, TakeFirst
<1>7. /\ Neat(Nodes, outBuf') /\ Contents(outBuf') = Contents(outBuf) \ P
      /\ P \subseteq Elems(outBuf[node]) /\ P \subseteq Contents(outBuf) /\ P \subseteq Packets
      /\ \A i \in Nodes : Elems(outBuf'[i]) \subseteq Elems(outBuf[i])
  <2>1. Neat(Nodes, outBuf)
    BY <1>3
  <2>2. QED
    BY <1>5, <2>1, TakeFirst
<1>8. \A r \in P : r \in replied /\ CoreOf[r] = c
  <2>1. \A r \in P : r \in Packets /\ node = get_dest_node(r)
    BY <1>2, <1>7 DEF IInv, RouteInv
  <2>2. QED
    BY <1>1, <2>1, DestNode DEF c
<1>9. /\ inBuf' \in [Nodes -> [Nodes -> Seq(Packets)]]
      /\ Neat(Nodes \X Nodes, Wires')
      /\ Contents(Wires') = Contents(Wires) \cup S
      /\ \A s, d \in Nodes : \A r \in Elems(inBuf'[s][d]) :
           r \in Elems(inBuf[s][d]) \/ (d = get_dest_node(r) /\ r \in S)
  <2>1. S \cap Contents(Wires) = {}
    BY <1>6 DEF IInv, PlaceInv, Apart
  <2>2. \A r \in S : get_dest_node(r) \in Nodes
    BY <1>6, DestNode
  <2>3. TypeOK /\ node \in Nodes /\ q \in Seq(Packets) /\ inBuf' = Send(q, node)
    BY <1>1, <1>2, <1>3 DEF IInv
  <2> HIDE DEF q
  <2>4. QED
    BY <2>1, <2>2, <2>3, SendFirst
<1>10. /\ answers' \in [Cores -> SUBSET Packets]
       /\ answers'[c] = answers[c] \cup P
       /\ \A i \in Cores : i # c => answers'[i] = answers[i]
  <2>1. CASE outBuf[node] = <<>>
    BY <1>1, <1>2, <1>3, <2>1 DEF FirstOf
  <2>2. CASE outBuf[node] # <<>>
    <3>1. P = {Head(outBuf[node])} /\ Head(outBuf[node]) \in Packets
      BY <1>7, <2>2 DEF FirstOf
    <3>2. answers' = [answers EXCEPT ![c] = @ \cup {Head(outBuf[node])}]
      BY <1>1, <2>2
    <3> HIDE DEF P
    <3>3. QED
      BY <1>2, <1>3, <3>1, <3>2
  <2>3. QED
    BY <2>1, <2>2
<1> HIDE DEF S, P
<1>11. Done' = Done \cup P
  <2>1. \A i \in Cores : answers'[i] \subseteq answers[i] \cup P /\ answers[i] \subseteq answers'[i]
    BY <1>10
  <2>2. QED
    BY <1>2, <1>10, <2>1 DEF Done
<1>12. node' \in Nodes /\ pc' \in {"icnt", "route"}
  BY <1>1, <1>2, NodeAssumption DEF NextNode, Nodes
<1>13. TypeOK'
  BY <1>1, <1>6, <1>7, <1>9, <1>10, <1>12 DEF IInv, TypeOK
<1>14. RouteInv'
  <2>1. \A i \in Cores : \A r \in Elems(reqQ'[i]) \cup answers'[i] : i = CoreOf[r]
    <3>1. \A i \in Cores : \A r \in answers'[i] : r \in answers[i] \/ (i = c /\ r \in P)
      BY <1>10
    <3>2. QED
      BY <1>6, <1>8, <3>1 DEF IInv, RouteInv
  <2>2. \A r : get_dest_node(r)' = get_dest_node(r)
    BY <1>1 DEF get_dest_node
  <2>3. \A s, d \in Nodes : \A r \in Elems(inBuf'[s][d]) : d = get_dest_node(r)'
    BY <1>9, <2>2 DEF IInv, RouteInv
  <2>4. \A d \in Nodes : \A r \in Elems(outBuf'[d]) : d = get_dest_node(r)'
    BY <1>7, <2>2 DEF IInv, RouteInv
  <2>5. UNCHANGED <<fromXbar, toMem, dram, toXbar>>
    BY <1>1
  <2>6. QED
    BY <2>1, <2>3, <2>4, <2>5 DEF IInv, RouteInv
<1>15. PlaceInv'
  <2>1. PlaceInv /\ S \subseteq Contents(reqQ) /\ P \subseteq Contents(outBuf) /\ P \subseteq replied
    BY <1>6, <1>7, <1>8 DEF IInv
  <2>2. Apart(Contents(reqQ) \ S, Contents(Wires) \cup S, Contents(outBuf) \ P,
              Contents(fromXbar), Contents(toMem), Contents(dram), Contents(toXbar),
              Done \cup P, issued, replied)
    BY <2>1, PortApart DEF PlaceInv
  <2>3. UNCHANGED <<fromXbar, toMem, dram, toXbar, issued, replied>>
    BY <1>1
  <2>4. /\ Contents(reqQ') = Contents(reqQ) \ S /\ Contents(Wires') = Contents(Wires) \cup S
        /\ Contents(outBuf') = Contents(outBuf) \ P
    BY <1>6, <1>7, <1>9
  <2>5. QED
    BY <1>11, <2>2, <2>3, <2>4 DEF PlaceInv
<1>16. IInv'
  BY <1>13, <1>14, <1>15 DEF IInv
<1>17. clock = "icnt" /\ {<<"core", "net">>, <<"memory", "answered">>} \subseteq Path!Move[clock]
  BY <1>1 DEF clock, Path!Move
<1>18. ASSUME NEW r \in Packets
       PROVE  StageOf(r)' = StageOf(r) \/ <<StageOf(r), StageOf(r)'>> \in Path!Move[clock]
  <2>1. /\ issued' = issued /\ replied' = replied /\ InMem' = InMem
    BY <1>1 DEF InMem
  <2>2. CASE r \in S
    <3>1. r \in Contents(reqQ) /\ r \notin Done /\ r \notin P /\ r \notin InMem /\ r \notin replied
          /\ r \in issued
      BY <1>6, <1>7, <2>2 DEF IInv, PlaceInv, Apart, InMem
    <3>2. StageOf(r) = "core"
      BY <3>1 DEF StageOf
    <3>3. StageOf(r)' = "net"
      BY <1>6, <1>11, <2>1, <2>2, <3>1 DEF StageOf
    <3>4. QED
      BY <1>17, <3>2, <3>3
  <2>3. CASE r \in P
    <3>1. r \notin Contents(reqQ) /\ r \notin Done /\ r \in replied /\ r \in issued
      BY <1>7, <1>8, <2>3 DEF IInv, PlaceInv, Apart
    <3>2. StageOf(r) = "memory"
      BY <3>1 DEF StageOf
    <3>3. StageOf(r)' = "answered"
      BY <1>6, <1>11, <2>1, <2>3, <3>1 DEF StageOf
    <3>4. QED
      BY <1>17, <3>2, <3>3
  <2>4. CASE r \notin S \cup P
    BY <1>6, <1>11, <2>1, <2>4 DEF StageOf
  <2>5. QED
    BY <2>2, <2>3, <2>4
<1>19. QED
  BY <1>16, <1>18, AdvanceBy

(* icnt_cycle at a channel: the first request of the node goes to the      *)
(* cache port, the first reply of the channel leaves.                      *)
LEMMA ChannelStep ==
  ASSUME IInv, ChannelCycle
  PROVE  IInv' /\ Path!Advance
<1> DEFINE m == Chan(node)
           q == toXbar[m]
           S == FirstOf(q)
           P == FirstOf(outBuf[node])
<1>1. /\ pc = "icnt" /\ node \notin PortNodes /\ node \in Nodes /\ NextNode
      /\ outBuf' = Receive(node)
      /\ fromXbar' = IF outBuf[node] = <<>> THEN fromXbar
                     ELSE [fromXbar EXCEPT ![m] = Append(@, Head(outBuf[node]))]
      /\ inBuf' = Send(q, node)
      /\ toXbar' = [toXbar EXCEPT ![m] = Rest(@)]
      /\ UNCHANGED <<rr, due, toMem, dram, replied, reqQ, issued, answers>>
  BY DEF ChannelCycle, coreVars, IInv, TypeOK
<1>2. m \in Chans
  BY <1>1, NodeNumbers
<1>3. /\ Neat(Chans, toXbar) /\ Neat(Chans, fromXbar) /\ Neat(Nodes, outBuf)
      /\ q \in Seq(Packets) /\ outBuf[node] \in Seq(Packets)
      /\ outBuf \in [Nodes -> Seq(Packets)]
  BY <1>1, <1>2 DEF IInv, TypeOK, Neat
<1>4. TakesAt(Chans, toXbar, m, toXbar')
  BY <1>1, <1>2 DEF TakesAt
<1>5. TakesAt(Nodes, outBuf, node, outBuf')
  <2>1. [outBuf EXCEPT ![node] = Rest(@)] = Receive(node)
    BY <1>1, <1>3 DEF Rest, Receive, Popped
  <2>2. QED
    BY <1>1, <2>1 DEF TakesAt
<1> HIDE DEF m
<1>6. /\ Neat(Chans, toXbar') /\ Contents(toXbar') = Contents(toXbar) \ S
      /\ S \subseteq Elems(toXbar[m]) /\ S \subseteq Contents(toXbar) /\ S \subseteq Packets
      /\ \A i \in Chans : Elems(toXbar'[i]) \subseteq Elems(toXbar[i])
  <2>1. Neat(Chans, toXbar)
    BY <1>3
  <2>2. QED
    BY <1>4, <2>1, TakeFirst
<1>7. /\ Neat(Nodes, outBuf') /\ Contents(outBuf') = Contents(outBuf) \ P
      /\ P \subseteq Elems(outBuf[node]) /\ P \subseteq Contents(outBuf) /\ P \subseteq Packets
      /\ \A i \in Nodes : Elems(outBuf'[i]) \subseteq Elems(outBuf[i])
  <2>1. Neat(Nodes, outBuf)
    BY <1>3
  <2>2. QED
    BY <1>5, <2>1, TakeFirst
<1>8. \A r \in P : r \notin replied /\ ChanOf[r] = m
  <2>1. \A r \in P : r \in Packets /\ node = get_dest_node(r)
    BY <1>1, <1>7 DEF IInv, RouteInv
  <2>2. QED
    BY <1>1, <2>1, DestNode DEF m
<1>9. /\ inBuf' \in [Nodes -> [Nodes -> Seq(Packets)]]
      /\ Neat(Nodes \X Nodes, Wires')
      /\ Contents(Wires') = Contents(Wires) \cup S
      /\ \A s, d \in Nodes : \A r \in Elems(inBuf'[s][d]) :
           r \in Elems(inBuf[s][d]) \/ (d = get_dest_node(r) /\ r \in S)
  <2>1. S \cap Contents(Wires) = {}
    BY <1>6 DEF IInv, PlaceInv, Apart
  <2>2. \A r \in S : get_dest_node(r) \in Nodes
    BY <1>6, DestNode
  <2>3. TypeOK /\ node \in Nodes /\ q \in Seq(Packets) /\ inBuf' = Send(q, node)
    BY <1>1, <1>3 DEF IInv
  <2> HIDE DEF q
  <2>4. QED
    BY <2>1, <2>2, <2>3, SendFirst
<1>10. /\ Neat(Chans, fromXbar') /\ Contents(fromXbar') = Contents(fromXbar) \cup P
       /\ \A i \in Chans : \A r \in Elems(fromXbar'[i]) :
            r \in Elems(fromXbar[i]) \/ (i = m /\ r \in P)
  <2>1. P \cap Contents(fromXbar) = {}
    BY <1>7 DEF IInv, PlaceInv, Apart
  <2>2. PutsAt(Chans, fromXbar, m, outBuf[node], fromXbar') /\ Neat(Chans, fromXbar)
    BY <1>1, <1>2, <1>3, <2>1 DEF PutsAt
  <2>3. QED
    BY <2>2, PutFirst
<1> HIDE DEF S, P
<1>11. Done' = Done
  BY <1>1 DEF Done
<1>12. node' \in Nodes /\ pc' \in {"icnt", "route"}
  BY <1>1, NodeAssumption DEF NextNode, Nodes
<1>13. TypeOK'
  BY <1>1, <1>6, <1>7, <1>9, <1>10, <1>12 DEF IInv, TypeOK
<1>14. RouteInv'
  <2>1. \A i \in Chans : \A r \in Elems(fromXbar'[i]) : i = ChanOf[r]
    BY <1>8, <1>10 DEF IInv, RouteInv
  <2>2. \A r : get_dest_node(r)' = get_dest_node(r)
    BY <1>1 DEF get_dest_node
  <2>3. \A s, d \in Nodes : \A r \in Elems(inBuf'[s][d]) : d = get_dest_node(r)'
    BY <1>9, <2>2 DEF IInv, RouteInv
  <2>4. \A d \in Nodes : \A r \in Elems(outBuf'[d]) : d = get_dest_node(r)'
    BY <1>7, <2>2 DEF IInv, RouteInv
  <2>5. \A i \in Chans : \A r \in Elems(fromXbar'[i]) \cup Elems(toMem'[i]) \cup Elems(dram'[i])
                                   \cup Elems(toXbar'[i]) : i = ChanOf[r]
    BY <1>1, <1>6, <2>1 DEF IInv, RouteInv
  <2>6. UNCHANGED <<reqQ, answers>>
    BY <1>1
  <2>7. QED
    BY <2>3, <2>4, <2>5, <2>6 DEF IInv, RouteInv
<1>15. PlaceInv'
  <2>1. /\ PlaceInv /\ S \subseteq Contents(toXbar) /\ P \subseteq Contents(outBuf)
        /\ P \cap replied = {}
    BY <1>6, <1>7, <1>8 DEF IInv
  <2>2. Apart(Contents(reqQ), Contents(Wires) \cup S, Contents(outBuf) \ P,
              Contents(fromXbar) \cup P, Contents(toMem), Contents(dram),
              Contents(toXbar) \ S, Done, issued, replied)
    BY <2>1, ChannelApart DEF PlaceInv
  <2>3. UNCHANGED <<reqQ, toMem, dram, issued, replied>>
    BY <1>1
  <2>4. /\ Contents(toXbar') = Contents(toXbar) \ S /\ Contents(Wires') = Contents(Wires) \cup S
        /\ Contents(outBuf') = Contents(outBuf) \ P
        /\ Contents(fromXbar') = Contents(fromXbar) \cup P
    BY <1>6, <1>7, <1>9, <1>10
  <2>5. QED
    BY <1>11, <2>2, <2>3, <2>4 DEF PlaceInv
<1>16. IInv'
  BY <1>13, <1>14, <1>15 DEF IInv
<1>17. ASSUME NEW r \in Packets PROVE StageOf(r)' = StageOf(r)
  <2>1. UNCHANGED <<issued, replied, reqQ, toMem, dram>>
    BY <1>1
  <2>2. r \in Contents(toXbar) => r \in replied
    BY DEF IInv, PlaceInv, Apart
  <2>3. (r \in InMem' \/ r \in replied') <=> (r \in InMem \/ r \in replied)
    BY <1>6, <2>1, <2>2 DEF InMem
  <2>4. QED
    BY <1>11, <2>1, <2>3 DEF StageOf
<1>18. QED
  BY <1>16, <1>17, AdvanceBy
-----------------------------------------------------------------------------
(* The arbiter of a destination serves one source.                         *)
LEMMA ServedUnique ==
  ASSUME NEW E, rr \in [Nodes -> Nodes], NEW s \in Nodes, NEW t \in Nodes, NEW d \in Nodes,
         <<s, d>> \in Served(E), <<t, d>> \in Served(E)
  PROVE  s = t
<1>1. rr[d] \in Nodes /\ <<s, d>> \in E /\ <<t, d>> \in E
  BY DEF Served
<1>2. Dist(rr[d], s) <= Dist(rr[d], t) /\ Dist(rr[d], t) <= Dist(rr[d], s)
  BY <1>1 DEF Served
<1>3. /\ rr[d] \in Nat /\ s \in Nat /\ t \in Nat /\ NNodes \in Nat
      /\ rr[d] < NNodes /\ s < NNodes /\ t < NNodes
  BY <1>1, NodeAssumption DEF Nodes
<1>4. QED
  BY <1>2, <1>3 DEF Dist

(* SimpleInterconnect::cycle: what the arbiters serve moves to the output  *)
(* buffers.                                                                *)
LEMMA RouterStep ==
  ASSUME IInv, NEW E \in SUBSET Heads, RouterCycle(E)
  PROVE  IInv' /\ Path!Advance
<1> DEFINE M == Served(E)
           G == {d \in Nodes : Serves(E, d)}
           src(d) == Source(E, d)
           z == [d \in G |-> Head(inBuf[src(d)][d])]
           U == HeadsOf(Wires, M)
           N2 == Nodes \X Nodes
<1>1. /\ pc' = "mask"
      /\ \A x \in E : inBuf[x[1]][x[2]] # <<>>
      /\ inBuf' = [s \in Nodes |-> [d \in Nodes |->
                     IF <<s, d>> \in M THEN Tail(inBuf[s][d]) ELSE inBuf[s][d]]]
      /\ outBuf' = [d \in Nodes |->
                      IF Serves(E, d) THEN Append(outBuf[d], Head(inBuf[src(d)][d]))
                                      ELSE outBuf[d]]
      /\ rr' = [d \in Nodes |-> IF Serves(E, d) THEN NextSource(src(d)) ELSE rr[d]]
      /\ UNCHANGED <<due, node, fromXbar, toMem, dram, toXbar, replied, reqQ, issued, answers>>
  BY DEF RouterCycle, CycleWith, chanVars, coreVars
<1>2. /\ inBuf \in [Nodes -> [Nodes -> Seq(Packets)]] /\ outBuf \in [Nodes -> Seq(Packets)]
      /\ rr \in [Nodes -> Nodes]
  BY DEF IInv, TypeOK, Neat
<1>3. M \subseteq E /\ E \subseteq N2
  BY DEF Served, Heads
<1>4. \A d \in G : d \in Nodes /\ src(d) \in Nodes /\ <<src(d), d>> \in M
  BY DEF Serves, Source
<1>5. \A s, d \in Nodes : <<s, d>> \in M => d \in G /\ src(d) = s
  <2>1. ASSUME NEW s \in Nodes, NEW d \in Nodes, <<s, d>> \in M PROVE d \in G /\ src(d) = s
    <3>1. d \in G
      BY <2>1 DEF Serves
    <3>2. src(d) \in Nodes /\ <<src(d), d>> \in M
      BY <1>4, <3>1
    <3>3. QED
      BY <1>2, <2>1, <3>1, <3>2, ServedUnique
  <2>2. QED
    BY <2>1
<1> HIDE DEF M, src
<1>6. \A s, d \in Nodes : <<s, d>> \in M => inBuf[s][d] # <<>>
  <2>1. ASSUME NEW s \in Nodes, NEW d \in Nodes, <<s, d>> \in M PROVE inBuf[s][d] # <<>>
    <3>1. <<s, d>> \in E
      BY <1>3, <2>1
    <3>2. inBuf[<<s, d>>[1]][<<s, d>>[2]] # <<>>
      BY <1>1, <3>1
    <3>3. QED
      BY <3>2
  <2>2. QED
    BY <2>1
<1>7. \A s, d \in Nodes :
        /\ inBuf'[s][d] = IF <<s, d>> \in M THEN Tail(inBuf[s][d]) ELSE inBuf[s][d]
        /\ inBuf[s][d] \in Seq(Packets) /\ inBuf'[s][d] \in Seq(Packets)
        /\ <<s, d>> \in M => Head(inBuf[s][d]) \in Packets
  <2>1. ASSUME NEW s \in Nodes, NEW d \in Nodes
        PROVE  /\ inBuf'[s][d] = IF <<s, d>> \in M THEN Tail(inBuf[s][d]) ELSE inBuf[s][d]
               /\ inBuf[s][d] \in Seq(Packets) /\ inBuf'[s][d] \in Seq(Packets)
               /\ <<s, d>> \in M => Head(inBuf[s][d]) \in Packets
    <3>1. inBuf'[s][d] = IF <<s, d>> \in M THEN Tail(inBuf[s][d]) ELSE inBuf[s][d]
      BY <1>1
    <3>2. inBuf[s][d] \in Seq(Packets) /\ (<<s, d>> \in M => inBuf[s][d] # <<>>)
      BY <1>2, <1>6
    <3>3. CASE <<s, d>> \in M
      BY <3>1, <3>2, <3>3
    <3>4. CASE <<s, d>> \notin M
      BY <3>1, <3>2, <3>4
    <3>5. QED
      BY <3>3, <3>4
  <2>2. QED
    BY <2>1
<1>8. inBuf' \in [Nodes -> [Nodes -> Seq(Packets)]]
  <2>1. ASSUME NEW s \in Nodes PROVE inBuf'[s] \in [Nodes -> Seq(Packets)]
    <3>1. inBuf'[s] = [d \in Nodes |->
                         IF <<s, d>> \in M THEN Tail(inBuf[s][d]) ELSE inBuf[s][d]]
      BY <1>1
    <3>2. \A d \in Nodes :
            (IF <<s, d>> \in M THEN Tail(inBuf[s][d]) ELSE inBuf[s][d]) \in Seq(Packets)
      BY <1>7
    <3>3. QED
      BY <3>1, <3>2
  <2>2. inBuf' = [s \in Nodes |-> inBuf'[s]]
    BY <1>1
  <2>3. QED
    BY <2>1, <2>2
<1>9. /\ \A s, d \in Nodes : Wires[<<s, d>>] = inBuf[s][d] /\ Wires'[<<s, d>>] = inBuf'[s][d]
      /\ Wires' = [x \in N2 |-> Wires'[x]]
  BY DEF Wires
<1>10. \A x \in N2 : \E s, d \in Nodes : x = <<s, d>>
  OBVIOUS
<1>11. Neat(N2, Wires)
  BY DEF IInv, TypeOK
<1> HIDE DEF N2
<1>12. ASSUME NEW x \in N2
       PROVE  /\ x \in M => Wires[x] # <<>> /\ Wires'[x] = Tail(Wires[x])
              /\ x \notin M => Wires'[x] = Wires[x]
              /\ Wires'[x] \in Seq(Packets)
  <2>1. PICK s \in Nodes, d \in Nodes : x = <<s, d>>
    BY <1>10
  <2>2. Wires[x] = inBuf[s][d] /\ Wires'[x] = inBuf'[s][d]
    BY <1>9, <2>1
  <2>3. QED
    BY <1>6, <1>7, <2>1, <2>2
<1>13. Pops(N2, Wires, M, Wires')
  <2>1. Wires' \in [N2 -> Seq(Packets)]
    BY <1>9, <1>12
  <2>2. M \subseteq N2
    BY <1>3
  <2>3. QED
    BY <1>12, <2>1, <2>2 DEF Pops
<1>14. /\ Neat(N2, Wires') /\ Contents(Wires') = Contents(Wires) \ U
       /\ U \subseteq Contents(Wires)
       /\ \A x \in N2 : Elems(Wires'[x]) \subseteq Elems(Wires[x])
       /\ \A x \in M : Head(Wires[x]) \in Elems(Wires[x]) /\ Head(Wires[x]) \in Packets
  BY <1>11, <1>13, PopAll
<1>15. \A d \in G : /\ z[d] = Head(Wires[<<src(d), d>>]) /\ z[d] \in Elems(inBuf[src(d)][d])
                    /\ z[d] \in Elems(Wires[<<src(d), d>>]) /\ z[d] \in Packets
  BY <1>4, <1>9, <1>14
<1>16. z \in [G -> Packets] /\ \A d \in G : z[d] = Head(inBuf[src(d)][d])
  BY <1>15
<1> HIDE DEF z, U
<1>17. Values(z, G) = U
  <2>1. ASSUME NEW d \in G PROVE z[d] \in U
    BY <1>4, <1>15 DEF U, HeadsOf
  <2>2. ASSUME NEW x \in M PROVE Head(Wires[x]) \in Values(z, G)
    <3>1. PICK s \in Nodes, d \in Nodes : x = <<s, d>>
      BY <1>3, <1>10
    <3>2. d \in G /\ src(d) = s
      BY <1>5, <2>2, <3>1
    <3>3. z[d] = Head(Wires[x])
      BY <1>15, <3>1, <3>2
    <3>4. QED
      BY <3>2, <3>3 DEF Values
  <2>3. QED
    BY <2>1, <2>2 DEF Values, U, HeadsOf
<1>18. Pushes(Nodes, outBuf, G, z, outBuf')
  <2>1. \A d \in G : z[d] \notin Contents(outBuf)
    <3>1. U \cap Contents(outBuf) = {}
      BY <1>14 DEF IInv, PlaceInv, Apart
    <3>2. QED
      BY <1>17, <3>1 DEF Values
  <2>2. ASSUME NEW d \in G, NEW e \in G, z[d] = z[e] PROVE d = e
    <3>1. <<src(d), d>> \in N2 /\ <<src(e), e>> \in N2
      BY <1>3, <1>4
    <3>2. z[d] \in Elems(Wires[<<src(d), d>>]) /\ z[d] \in Elems(Wires[<<src(e), e>>])
      BY <1>15, <2>2
    <3>3. <<src(d), d>> = <<src(e), e>>
      BY <1>11, <3>1, <3>2 DEF Neat
    <3>4. QED
      BY <3>3
  <2>3. \A d \in G : outBuf'[d] = Append(outBuf[d], z[d])
    BY <1>1, <1>16
  <2>4. \A d \in Nodes \ G : outBuf'[d] = outBuf[d]
    BY <1>1
  <2>5. G \subseteq Nodes
    OBVIOUS
  <2>6. outBuf' \in [Nodes -> Seq(Packets)]
    <3>1. \A d \in Nodes : outBuf'[d] \in Seq(Packets)
      <4>1. \A d \in G : d \in Nodes /\ outBuf[d] \in Seq(Packets) /\ z[d] \in Packets
        BY <1>2, <1>16
      <4>2. \A d \in Nodes \ G : outBuf[d] \in Seq(Packets)
        BY <1>2
      <4> HIDE DEF G
      <4>3. \A d \in G : outBuf'[d] \in Seq(Packets)
        <5>1. SUFFICES ASSUME NEW d \in G PROVE outBuf'[d] \in Seq(Packets)
          OBVIOUS
        <5>2. Append(outBuf[d], z[d]) \in Seq(Packets)
          BY <4>1, AppendProperties
        <5>3. QED
          BY <2>3, <5>2
      <4>4. \A d \in Nodes \ G : outBuf'[d] \in Seq(Packets)
        BY <2>4, <4>2
      <4>5. QED
        BY <4>3, <4>4
    <3>2. outBuf' = [d \in Nodes |-> outBuf'[d]]
      BY <1>1
    <3>3. QED
      BY <3>1, <3>2
  <2> HIDE DEF G
  <2>7. QED
    BY <1>16, <2>1, <2>2, <2>3, <2>4, <2>5, <2>6 DEF Pushes
<1>19. /\ Neat(Nodes, outBuf') /\ Contents(outBuf') = Contents(outBuf) \cup U
       /\ \A d \in G : Elems(outBuf'[d]) = Elems(outBuf[d]) \cup {z[d]}
       /\ \A d \in Nodes \ G : Elems(outBuf'[d]) = Elems(outBuf[d])
  <2>1. Neat(Nodes, outBuf)
    BY DEF IInv, TypeOK
  <2> HIDE DEF G
  <2>2. QED
    BY <1>17, <1>18, <2>1, PushAll
<1>20. rr' \in [Nodes -> Nodes]
  <2>1. ASSUME NEW s \in Nodes PROVE NextSource(s) \in Nodes
    BY NodeAssumption DEF NextSource, Nodes
  <2>2. \A d \in Nodes : Serves(E, d) => NextSource(src(d)) \in Nodes
    BY <1>4, <2>1
  <2>3. QED
    BY <1>1, <1>2, <2>2
<1>21. Done' = Done
  BY <1>1 DEF Done
<1>22. TypeOK'
  <2>1. Neat(Nodes \X Nodes, Wires')
    BY <1>14 DEF N2
  <2>2. QED
    BY <1>1, <1>8, <1>19, <1>20, <2>1 DEF IInv, TypeOK
<1>23. RouteInv'
  <2>1. \A r : get_dest_node(r)' = get_dest_node(r)
    BY <1>1 DEF get_dest_node
  <2>2. ASSUME NEW s \in Nodes, NEW d \in Nodes, NEW r \in Elems(inBuf'[s][d])
        PROVE  d = get_dest_node(r)
    <3>1. <<s, d>> \in N2
      BY DEF N2
    <3>2. r \in Elems(inBuf[s][d])
      BY <1>9, <1>14, <3>1
    <3>3. QED
      BY <3>2 DEF IInv, RouteInv
  <2>3. ASSUME NEW d \in Nodes, NEW r \in Elems(outBuf'[d])
        PROVE  d = get_dest_node(r)
    <3>1. r \in Elems(outBuf[d]) \/ (d \in G /\ r = z[d])
      BY <1>19
    <3>2. CASE r \in Elems(outBuf[d])
      BY <3>2 DEF IInv, RouteInv
    <3>3. CASE d \in G /\ r = z[d]
      <4>1. r \in Elems(inBuf[src(d)][d]) /\ src(d) \in Nodes
        BY <1>4, <1>15, <3>3
      <4>2. QED
        BY <4>1 DEF IInv, RouteInv
    <3>4. QED
      BY <3>1, <3>2, <3>3
  <2>4. UNCHANGED <<reqQ, answers, fromXbar, toMem, dram, toXbar>>
    BY <1>1
  <2>5. QED
    BY <2>1, <2>2, <2>3, <2>4 DEF IInv, RouteInv
<1>24. PlaceInv'
  <2>1. PlaceInv /\ U \subseteq Contents(Wires)
    BY <1>14 DEF IInv
  <2>2. Apart(Contents(reqQ), Contents(Wires) \ U, Contents(outBuf) \cup U, Contents(fromXbar),
              Contents(toMem), Contents(dram), Contents(toXbar), Done, issued, replied)
    BY <2>1, RouterApart DEF PlaceInv
  <2>3. UNCHANGED <<reqQ, fromXbar, toMem, dram, toXbar, issued, replied>>
    BY <1>1
  <2>4. Contents(Wires') = Contents(Wires) \ U /\ Contents(outBuf') = Contents(outBuf) \cup U
    BY <1>14, <1>19
  <2>5. QED
    BY <1>21, <2>2, <2>3, <2>4 DEF PlaceInv
<1>25. IInv'
  BY <1>22, <1>23, <1>24 DEF IInv
<1>26. \A r \in Packets : StageOf(r)' = StageOf(r)
  BY <1>1, <1>21 DEF StageOf, InMem
<1>27. QED
  BY <1>25, <1>26, AdvanceBy
-----------------------------------------------------------------------------
LEMMA NextStep ==
  ASSUME IInv, [Next]_vars
  PROVE  IInv' /\ Path!Advance
<1>1. CASE \/ \E D \in SUBSET Domains : SetCycleMask(D)
           \/ CoresDone \/ NoIcntCycle \/ UNCHANGED vars
  BY <1>1, ControlSteps
<1>2. CASE \E r \in Packets : Generate(r)
  BY <1>2, GenerateStep
<1>3. CASE CacheCycle \/ PortCycle \/ ChannelCycle
  BY <1>3, CacheStep, PortStep, ChannelStep
<1>4. CASE \E A, B \in SUBSET Chans : DramCycle(A, B)
  BY <1>4, DramStep
<1>5. CASE \E E \in SUBSET Heads : RouterCycle(E)
  BY <1>5, RouterStep
<1>6. QED
  BY <1>1, <1>2, <1>3, <1>4, <1>5 DEF Next

(* Core, SimpleInterconnect, NoL2Cache and SimpleDRAM hand requests on     *)
(* without losing, doubling or misrouting one, whatever domains a round    *)
(* cycles and however long the network and the memory take.                *)
THEOREM InductiveInvariant == Spec => []IInv
<1>1. IInv /\ [Next]_vars => IInv'
  BY NextStep
<1>2. QED
  BY <1>1, InitInvariant, PTL DEF Spec

(* A memory request is in one place of its round trip, once; the response  *)
(* given to Core::push_memory_response is one the memory has turned round, *)
(* and goes to the core that made the request.                             *)
THEOREM RoundTrips == Spec => []OneRoundTrip
<1>1. ASSUME IInv, NEW r \in Packets
      PROVE  /\ Cardinality({q \in {"core", "net", "port", "memory", "answered"} :
                  CASE q = "core" -> Queued(r) [] q = "net" -> InNet(r)
                    [] q = "port" -> AtPort(r) [] q = "memory" -> InMemory(r)
                    [] OTHER -> Answered(r)}) = IF r \in issued THEN 1 ELSE 0
             /\ Queued(r) \/ AtPort(r) => r \notin replied
             /\ Answered(r) => r \in replied
             /\ \A c \in Cores : r \in answers[c] => c = CoreOf[r]
  <2> DEFINE In(q) == CASE q = "core" -> Queued(r) [] q = "net" -> InNet(r)
                        [] q = "port" -> AtPort(r) [] q = "memory" -> InMemory(r)
                        [] OTHER -> Answered(r)
             P == {q \in {"core", "net", "port", "memory", "answered"} : In(q)}
  <2>1. /\ Queued(r) <=> r \in Contents(reqQ)
        /\ InNet(r) <=> r \in Contents(Wires) \cup Contents(outBuf)
        /\ AtPort(r) <=> r \in Contents(fromXbar)
        /\ InMemory(r) <=> r \in Contents(toMem) \cup Contents(dram) \cup Contents(toXbar)
        /\ Answered(r) <=> r \in Done
    BY <1>1, Whereabouts DEF InMem
  <2>2. /\ r \in issued <=> Queued(r) \/ InNet(r) \/ AtPort(r) \/ InMemory(r) \/ Answered(r)
        /\ Queued(r) => ~InNet(r) /\ ~AtPort(r) /\ ~InMemory(r) /\ ~Answered(r)
        /\ InNet(r) => ~AtPort(r) /\ ~InMemory(r) /\ ~Answered(r)
        /\ AtPort(r) => ~InMemory(r) /\ ~Answered(r)
        /\ InMemory(r) => ~Answered(r)
        /\ Queued(r) \/ AtPort(r) => r \notin replied
        /\ Answered(r) => r \in replied
    BY <1>1, <2>1 DEF IInv, PlaceInv, Apart
  <2>3. /\ In("core") <=> Queued(r)
        /\ In("net") <=> InNet(r)
        /\ In("port") <=> AtPort(r)
        /\ In("memory") <=> InMemory(r)
        /\ In("answered") <=> Answered(r)
    OBVIOUS
  <2> HIDE DEF In
  <2>4. Cardinality(P) = IF r \in issued THEN 1 ELSE 0
    <3>1. CASE r \notin issued
      <4>1. P = {}
        BY <2>2, <2>3, <3>1
      <4>2. QED
        BY <3>1, <4>1, FS_EmptySet
    <3>2. CASE r \in issued
      <4>1. PICK q \in {"core", "net", "port", "memory", "answered"} : P = {q}
        <5>1. CASE Queued(r)
          <6>1. P = {"core"}
            BY <2>2, <2>3, <5>1
          <6>2. QED
            BY <6>1
        <5>2. CASE InNet(r)
          <6>1. P = {"net"}
            BY <2>2, <2>3, <5>2
          <6>2. QED
            BY <6>1
        <5>3. CASE AtPort(r)
          <6>1. P = {"port"}
            BY <2>2, <2>3, <5>3
          <6>2. QED
            BY <6>1
        <5>4. CASE InMemory(r)
          <6>1. P = {"memory"}
            BY <2>2, <2>3, <5>4
          <6>2. QED
            BY <6>1
        <5>5. CASE Answered(r)
          <6>1. P = {"answered"}
            BY <2>2, <2>3, <5>5
          <6>2. QED
            BY <6>1
        <5>6. QED
          BY <2>2, <3>2, <5>1, <5>2, <5>3, <5>4, <5>5
      <4> HIDE DEF P
      <4>2. Cardinality(P) = 1
        BY <4>1, FS_Singleton
      <4>3. QED
        BY <3>2, <4>2
    <3>3. QED
      BY <3>1, <3>2
  <2>5. \A c \in Cores : r \in answers[c] => c = CoreOf[r]
    BY <1>1 DEF IInv, RouteInv
  <2>6. QED
    BY <2>2, <2>4, <2>5 DEF In, P
<1>2. IInv => OneRoundTrip
  BY <1>1 DEF OneRoundTrip
<1>3. QED
  BY <1>2, InductiveInvariant, PTL

(* The memory path is the one NpuCore assumes: a request is accepted by    *)
(* the cache port in a core cycle, after an interconnect cycle took it and *)
(* before another brings its answer.                                       *)
THEOREM PathIsImplemented == Spec => ImplementsRequestPath
<1>1. ASSUME Init PROVE Path!PathInit
  <2>1. \A r \in Packets : stage[r] = "new"
    BY <1>1 DEF Init, stage
  <2>2. stage = [r \in Packets |-> "new"]
    BY <2>1 DEF stage
  <2>3. clock \in DOMAIN Path!Move
    BY DEF clock, Path!Move
  <2>4. QED
    BY <2>2, <2>3 DEF Path!PathInit
<1>2. ASSUME IInv, [Next]_vars
      PROVE  [/\ Path!Advance /\ DOMAIN stage' = Packets
              /\ clock' \in DOMAIN Path!Move]_<<stage, clock>>
  <2>1. Path!Advance
    BY <1>2, NextStep
  <2>2. DOMAIN stage' = Packets /\ clock' \in DOMAIN Path!Move
    BY DEF stage, clock, Path!Move
  <2>3. QED
    BY <2>1, <2>2
<1>3. QED
  BY <1>1, <1>2, InductiveInvariant, PTL DEF Spec, ImplementsRequestPath, Path!PathSpec

-----------------------------------------------------------------------------
(* IcntTraffic: round-robin arbitration never starves a source, for any    *)
(* number of nodes and any traffic.  The potential is the distance from    *)
(* the arbiter to the source: it serves the nearest source that has a      *)
(* packet, and then stands right behind it, so the distance to every       *)
(* source passed over shrinks.                                             *)

(* A distance round the ring is less than the ring. *)
LEMMA DistBound ==
  ASSUME NEW a \in Nodes, NEW b \in Nodes
  PROVE  Dist(a, b) \in 0 .. NNodes - 1
  BY NodeAssumption DEF Dist, Nodes

(* Two sources at the same distance from the arbiter are the same. *)
LEMMA DistInjective ==
  ASSUME NEW a \in Nodes, NEW b \in Nodes, NEW c \in Nodes, Dist(a, b) = Dist(a, c)
  PROVE  b = c
  BY NodeAssumption DEF Dist, Nodes

(* The next source is the following node, or node 0 after the last. *)
LEMMA NextSourceValue ==
  ASSUME NEW s \in Nodes
  PROVE  NextSource(s) = IF s = NNodes - 1 THEN 0 ELSE s + 1
  BY NodeAssumption, Z3 DEF NextSource, Nodes

(* Behind the source it served, the arbiter is closer to those beyond it. *)
LEMMA ApproachesBeyond ==
  ASSUME NEW a \in Nodes, NEW b \in Nodes, NEW c \in Nodes, Dist(a, b) < Dist(a, c)
  PROVE  Dist(NextSource(b), c) < Dist(a, c)
<1>1. NextSource(b) = IF b = NNodes - 1 THEN 0 ELSE b + 1
      BY NextSourceValue
<1>2. QED
      BY <1>1, NodeAssumption DEF Dist, Nodes

(* A packet that arrived and is not served is beyond the one that is. *)
LEMMA PassedOverIsBeyond ==
  ASSUME NEW E \in SUBSET (Nodes \X Nodes), rr \in [Nodes -> Nodes],
         NEW d \in Nodes, NEW s \in Nodes, NEW t \in Nodes,
         <<s, d>> \in Served(E), <<t, d>> \in E \ Served(E)
  PROVE  Dist(rr[d], s) < Dist(rr[d], t)
<1>1. rr[d] \in Nodes /\ s # t
      OBVIOUS
<1>2. Dist(rr[d], s) <= Dist(rr[d], t)
      BY DEF Served
<1>3. Dist(rr[d], s) # Dist(rr[d], t)
      BY <1>1, DistInjective
<1>4. QED
      BY <1>1, <1>2, <1>3, DistBound

(* Where a packet has arrived some source is served: the arbiter's scan    *)
(* goes all the way round.                                                 *)
LEMMA SomeSourceServed ==
  ASSUME NEW E \in SUBSET (Nodes \X Nodes), rr \in [Nodes -> Nodes],
         NEW d \in Nodes, NEW u \in Nodes, <<u, d>> \in E
  PROVE  Serves(E, d)
<1> DEFINE T == {n \in Nat : \E s \in Nodes : <<s, d>> \in E /\ Dist(rr[d], s) = n}
           Less == OpToRel(<, Nat)
<1>1. \A s \in Nodes : Dist(rr[d], s) \in Nat
      BY DistBound, NodeAssumption
<1>2. T \subseteq Nat /\ T # {}
      BY <1>1
<1>3. PICK n \in T : \A m \in T : <<m, n>> \notin Less
      BY <1>2, NatLessThanWellFounded, WFMin
<1>4. \A m \in T : n <= m
  <2> TAKE m \in T
  <2>1. n \in Nat /\ m \in Nat /\ <<m, n>> \notin Less
        BY <1>3
  <2>2. ~(m < n)
        BY <2>1 DEF OpToRel
  <2>3. \A a, b \in Nat : ~(b < a) => a <= b
        OBVIOUS
  <2>4. QED
        BY <2>1, <2>2, <2>3
<1>5. PICK s \in Nodes : <<s, d>> \in E /\ Dist(rr[d], s) = n
      OBVIOUS
<1>6. \A t \in Nodes : <<t, d>> \in E => Dist(rr[d], s) <= Dist(rr[d], t)
      BY <1>1, <1>4, <1>5
<1>7. QED
      BY <1>5, <1>6 DEF Serves, Served

-----------------------------------------------------------------------------
(* At the start no packet has arrived and nothing was passed over. *)
LEMMA TrafficInitInvariant == TrafficInit => TrafficInv
  BY NodeAssumption DEF TrafficInit, IcntInit, TrafficInv, TrafficTypeOK, ArbiterApproaches, Nodes

(* A cycle of the arbiter keeps the types. *)
LEMMA CycleType ==
  ASSUME TrafficTypeOK, NEW E \in SUBSET (Nodes \X Nodes), CycleWith(E)
  PROVE  /\ inBuf' \in [Nodes -> [Nodes -> Seq(Packets)]]
         /\ arrived' \subseteq Nodes \X Nodes
         /\ outBuf' \in [Nodes -> Seq(Packets)]
         /\ rr' \in [Nodes -> Nodes]
<1>1. \A s, d \in Nodes : <<s, d>> \in Served(E) => inBuf[s][d] # <<>>
      BY DEF CycleWith, Served
<1>2. ASSUME NEW s \in Nodes, NEW d \in Nodes
      PROVE  inBuf'[s][d] \in Seq(Packets)
      BY <1>1 DEF CycleWith, TrafficTypeOK
<1>3. \A d \in Nodes : Serves(E, d) =>
        Source(E, d) \in Nodes /\ <<Source(E, d), d>> \in Served(E)
      BY DEF Serves, Source
<1>4. ASSUME NEW d \in Nodes
      PROVE  outBuf'[d] \in Seq(Packets) /\ rr'[d] \in Nodes
  <2>1. CASE Serves(E, d)
    <3>1. Source(E, d) \in Nodes /\ inBuf[Source(E, d)][d] # <<>>
          BY <1>1, <1>3, <2>1
    <3>2. Head(inBuf[Source(E, d)][d]) \in Packets
          BY <3>1 DEF TrafficTypeOK
    <3>3. outBuf'[d] = Append(outBuf[d], Head(inBuf[Source(E, d)][d]))
          BY <2>1 DEF CycleWith
    <3>4. rr'[d] = NextSource(Source(E, d))
          BY <2>1 DEF CycleWith
    <3>5. NextSource(Source(E, d)) \in Nodes
          BY <3>1, NextSourceValue, NodeAssumption DEF Nodes
    <3>6. QED
          BY <3>2, <3>3, <3>4, <3>5 DEF TrafficTypeOK
  <2>2. CASE ~Serves(E, d)
        BY <2>2 DEF CycleWith, TrafficTypeOK
  <2>3. QED
        BY <2>1, <2>2
<1>5. inBuf' \in [Nodes -> [Nodes -> Seq(Packets)]]
      BY <1>2 DEF CycleWith
<1>6. outBuf' \in [Nodes -> Seq(Packets)] /\ rr' \in [Nodes -> Nodes]
      BY <1>4 DEF CycleWith
<1>7. QED
      BY <1>5, <1>6 DEF CycleWith

(* A cycle brings the arbiter closer to every source it passes over. *)
LEMMA CycleApproaches == TrafficInv /\ Cycle => TrafficInv'
<1> SUFFICES ASSUME TrafficInv, Cycle PROVE TrafficInv'
    OBVIOUS
<1>1. PICK E \in SUBSET (Nodes \X Nodes) :
        /\ CycleWith(E)
        /\ passed' = [s \in Nodes |-> [d \in Nodes |->
                        IF <<s, d>> \in E \ Served(E) THEN passed[s][d] + 1
                        ELSE IF <<s, d>> \in Served(E) THEN 0 ELSE passed[s][d]]]
      BY DEF Cycle
<1>2. TrafficTypeOK /\ rr \in [Nodes -> Nodes] /\ rr' \in [Nodes -> Nodes]
      BY <1>1, CycleType DEF TrafficInv, TrafficTypeOK
<1>3. \A s, d \in Nodes : passed[s][d] \in Nat
      BY <1>2 DEF TrafficTypeOK
<1>4. passed' \in [Nodes -> [Nodes -> Nat]]
      BY <1>1, <1>3
<1>5. TrafficTypeOK'
      BY <1>1, <1>2, <1>4, CycleType DEF TrafficTypeOK
<1>6. ASSUME NEW s \in Nodes, NEW d \in Nodes, <<s, d>> \in arrived'
      PROVE  passed'[s][d] + Dist(rr'[d], s) < NNodes
  <2>1. <<s, d>> \in E \ Served(E)
        BY <1>1, <1>6 DEF CycleWith
  <2>2. passed'[s][d] = passed[s][d] + 1
        BY <1>1, <2>1
  <2>3. passed[s][d] + Dist(rr[d], s) < NNodes
    <3>1. CASE <<s, d>> \in arrived
          BY <3>1 DEF TrafficInv, ArbiterApproaches
    <3>2. CASE <<s, d>> \notin arrived
      <4>1. passed[s][d] = 0
            BY <3>2 DEF TrafficInv, ArbiterApproaches
      <4>2. Dist(rr[d], s) \in 0 .. NNodes - 1
            BY <1>2, DistBound
      <4>3. QED
            BY <4>1, <4>2, NodeAssumption
    <3>3. QED
          BY <3>1, <3>2
  <2>4. Dist(rr'[d], s) < Dist(rr[d], s)
    <3>1. Serves(E, d)
          BY <1>2, <2>1, SomeSourceServed
    <3>2. Source(E, d) \in Nodes /\ <<Source(E, d), d>> \in Served(E)
          BY <3>1 DEF Serves, Source
    <3>3. Dist(rr[d], Source(E, d)) < Dist(rr[d], s)
          BY <1>2, <2>1, <3>2, PassedOverIsBeyond
    <3>4. rr'[d] = NextSource(Source(E, d))
          BY <1>1, <3>1 DEF CycleWith
    <3>5. QED
          BY <1>2, <3>2, <3>3, <3>4, ApproachesBeyond
  <2>5. Dist(rr'[d], s) \in 0 .. NNodes - 1 /\ Dist(rr[d], s) \in 0 .. NNodes - 1
        BY <1>2, DistBound
  <2>6. QED
        BY <1>3, <2>2, <2>3, <2>4, <2>5, NodeAssumption
<1>7. ASSUME NEW s \in Nodes, NEW d \in Nodes, <<s, d>> \notin arrived'
      PROVE  passed'[s][d] = 0
  <2>1. CASE <<s, d>> \in Served(E)
        BY <1>1, <2>1
  <2>2. CASE <<s, d>> \notin E
    <3>1. <<s, d>> \notin arrived /\ <<s, d>> \notin Served(E)
          BY <1>1, <2>2 DEF CycleWith, Served
    <3>2. passed[s][d] = 0
          BY <3>1 DEF TrafficInv, ArbiterApproaches
    <3>3. QED
          BY <1>1, <2>2, <3>1, <3>2
  <2>3. QED
        BY <1>1, <1>7, <2>1, <2>2 DEF CycleWith
<1>8. QED
      BY <1>5, <1>6, <1>7 DEF TrafficInv, ArbiterApproaches

(* Pushing and popping do not move the arbiter. *)
LEMMA TrafficNextInvariant == TrafficInv /\ [TrafficNext]_trafficVars => TrafficInv'
<1> SUFFICES ASSUME TrafficInv, [TrafficNext]_trafficVars PROVE TrafficInv'
    OBVIOUS
<1>1. CASE UNCHANGED trafficVars
      BY <1>1 DEF trafficVars, icntVars, TrafficInv, TrafficTypeOK, ArbiterApproaches
<1>2. CASE SomePush
  <2>1. PICK s \in Nodes, d \in Nodes, p \in Packets : Push(s, d, p)
        BY <1>2 DEF SomePush
  <2>2. inBuf' \in [Nodes -> [Nodes -> Seq(Packets)]]
        BY <2>1 DEF Push, Pushed, TrafficInv, TrafficTypeOK
  <2>3. UNCHANGED <<arrived, outBuf, rr, passed>>
        BY <2>1 DEF Push
  <2>4. QED
        BY <2>2, <2>3 DEF TrafficInv, TrafficTypeOK, ArbiterApproaches
<1>3. CASE SomePop
  <2>1. PICK n \in Nodes : Pop(n)
        BY <1>3 DEF SomePop
  <2>2. outBuf' \in [Nodes -> Seq(Packets)]
        BY <2>1 DEF Pop, Popped, TrafficInv, TrafficTypeOK
  <2>3. UNCHANGED <<inBuf, arrived, rr, passed>>
        BY <2>1 DEF Pop
  <2>4. QED
        BY <2>2, <2>3 DEF TrafficInv, TrafficTypeOK, ArbiterApproaches
<1>4. CASE Cycle
      BY <1>4, CycleApproaches
<1>5. QED
      BY <1>1, <1>2, <1>3, <1>4 DEF TrafficNext

(* The inductive invariant holds of every reachable state. *)
THEOREM ArbiterInvariant == TrafficSpec => []TrafficInv
  BY TrafficInitInvariant, TrafficNextInvariant, PTL DEF TrafficSpec

(* Whatever the number of nodes and the traffic, a packet of               *)
(* SimpleInterconnect that has arrived is passed over less than NNodes     *)
(* times.                                                                  *)
THEOREM NoSourceStarves == TrafficSpec => []BoundedBypass
<1>1. TrafficInv => BoundedBypass
  <2> SUFFICES ASSUME TrafficInv, NEW s \in Nodes, NEW d \in Nodes
               PROVE  passed[s][d] < NNodes
      BY DEF BoundedBypass
  <2>1. passed[s][d] \in Nat /\ Dist(rr[d], s) \in 0 .. NNodes - 1
        BY DistBound DEF TrafficInv, TrafficTypeOK
  <2>2. CASE <<s, d>> \in arrived
        BY <2>1, <2>2, NodeAssumption DEF TrafficInv, ArbiterApproaches
  <2>3. CASE <<s, d>> \notin arrived
        BY <2>3, NodeAssumption DEF TrafficInv, ArbiterApproaches
  <2>4. QED
        BY <2>2, <2>3
<1>2. QED
      BY <1>1, ArbiterInvariant, PTL
=============================================================================
