--------------------------- MODULE DramChannelProofs ---------------------------
(***************************************************************************)
(* SimpleDRAM holds its bandwidth for any clocks, channels, rate and       *)
(* traffic: the credit of a channel is an exact ledger of what it has      *)
(* earned and what it has admitted, and the ledger is never overdrawn.     *)
(***************************************************************************)
EXTENDS DramChannel, TLAPS

-----------------------------------------------------------------------------
(* The clocks of Simulator::cycle, which the channels are driven by, keep  *)
(* their frequency ratio for ever, for any number of domains and any       *)
(* periods.  Only NoDrift needs an argument: a domain that ticks was       *)
(* earliest, so one period later it is at most one period past every       *)
(* other.                                                                  *)

(* One more tick takes a clock one period on. *)
LEMMA OneMoreTick == \A n, p \in Nat : (n + 1) * p = n * p + p
  OBVIOUS

(* The clocks start together. *)
LEMMA ClockInit == Init => IInv
  BY PeriodAssumption DEF Init, IInv, TypeOK, NoDrift, TimeIsTicks

(* A round of the loop keeps every clock within one of its periods of the  *)
(* others, because only the earliest are moved.                            *)
LEMMA ClockNext == IInv /\ [set_cycle_mask]_vars => IInv'
<1> SUFFICES ASSUME IInv, [set_cycle_mask]_vars PROVE IInv'
    OBVIOUS
<1> USE PeriodAssumption
<1>1. CASE UNCHANGED vars
      BY <1>1 DEF IInv, TypeOK, NoDrift, TimeIsTicks, vars
<1>2. CASE set_cycle_mask
  <2>1. TypeOK'
        BY <1>2 DEF set_cycle_mask, IInv, TypeOK
  <2>2. ASSUME NEW d \in Domains, NEW e \in Domains
        PROVE  time'[d] <= time'[e] + Period[d]
    <3>1. time[d] \in Nat /\ time[e] \in Nat /\ Period[d] \in Nat /\ Period[e] \in Nat
          BY DEF IInv, TypeOK
    <3>2. time[d] <= time[e] + Period[d]
          BY DEF IInv, NoDrift
    <3>3. time'[e] >= time[e]
          BY <1>2, <3>1 DEF set_cycle_mask
    <3>4. CASE Due(d)
      <4>1. time[d] <= time[e]
            BY <3>4 DEF Due, Earliest
      <4>2. time'[d] = time[d] + Period[d] /\ time'[e] \in Nat
            BY <1>2, <3>1, <3>4 DEF set_cycle_mask
      <4>3. QED
            BY <4>1, <4>2, <3>1, <3>3
    <3>5. CASE ~Due(d)
      <4>1. time'[d] = time[d] /\ time'[e] \in Nat
            BY <1>2, <3>1, <3>5 DEF set_cycle_mask
      <4>2. QED
            BY <4>1, <3>1, <3>2, <3>3
    <3>6. QED
          BY <3>4, <3>5
  <2>3. ASSUME NEW d \in Domains
        PROVE  time'[d] = ticks'[d] * Period[d]
    <3>1. ticks[d] \in Nat /\ Period[d] \in Nat /\ time[d] = ticks[d] * Period[d]
          BY DEF IInv, TypeOK, TimeIsTicks
    <3>2. CASE Due(d)
      <4>1. time'[d] = ticks[d] * Period[d] + Period[d] /\ ticks'[d] = ticks[d] + 1
            BY <1>2, <3>1, <3>2 DEF set_cycle_mask
      <4>2. (ticks[d] + 1) * Period[d] = ticks[d] * Period[d] + Period[d]
            BY <3>1, OneMoreTick
      <4>3. QED
            BY <4>1, <4>2
    <3>3. CASE ~Due(d)
          BY <1>2, <3>1, <3>3 DEF set_cycle_mask
    <3>4. QED
          BY <3>2, <3>3
  <2>4. QED
        BY <2>1, <2>2, <2>3 DEF IInv, NoDrift, TimeIsTicks
<1>3. QED
      BY <1>1, <1>2

(* The inductive invariant holds of every reachable state. *)
THEOREM ClockInvariant == Spec => []IInv
  BY ClockInit, ClockNext, PTL DEF Spec

(* No clock domain of set_cycle_mask ever runs more than one of its own    *)
(* periods ahead of another.                                               *)
THEOREM ClocksStayTogether == Spec => []NoDrift
<1>1. IInv => NoDrift
      BY DEF IInv
<1>2. QED
      BY <1>1, ClockInvariant, PTL

(* Whatever the periods, the cores, the memory and the interconnect tick   *)
(* in proportion, to within one tick, however long the simulation is.      *)
THEOREM FrequencyRatioKept == Spec => []TicksInProportion
<1>1. IInv => TicksInProportion
      BY DEF IInv, NoDrift, TimeIsTicks, TicksInProportion
<1>2. QED
      BY <1>1, ClockInvariant, PTL

-----------------------------------------------------------------------------
(* The channels.                                                           *)

(* One more request, or one more cycle, adds its bytes once. *)
LEMMA OneMore == \A k, n \in Nat : k * (n + 1) = k * n + k
  OBVIOUS

(* The ledger after a cycle that admits nothing, and after one that does. *)
LEMMA Earned ==
  ASSUME NEW used \in Int, NEW left \in Int, NEW earned \in Int,
         NEW start \in Int, NEW rate \in Int, used + left = start + earned
  PROVE  used + (left + rate) = start + (earned + rate)
  OBVIOUS

LEMMA EarnedAndSpent ==
  ASSUME NEW used \in Int, NEW left \in Int, NEW earned \in Int, NEW start \in Int,
         NEW rate \in Int, NEW size \in Int, used + left = start + earned
  PROVE  (used + size) + (left + rate - size) = start + (earned + rate)
  OBVIOUS

(* A queue that one element is appended to is one longer. *)
LEMMA LenOfAppend ==
  ASSUME NEW S, NEW q \in Seq(S), NEW e \in S
  PROVE  Append(q, e) \in Seq(S) /\ Len(q) \in Nat /\ Len(Append(q, e)) = Len(q) + 1
  OBVIOUS

(* What is left of a queue when its head is taken. *)
LEMMA HeadAndTail ==
  ASSUME NEW S, NEW q \in Seq(S), q # <<>>
  PROVE  Head(q) \in S /\ Tail(q) \in Seq(S)
  OBVIOUS

(* The channels start with the credit of two requests and no cycle. *)
LEMMA LedgerInit == ChanInit => LedgerInv
<1> SUFFICES ASSUME ChanInit PROVE LedgerInv
    OBVIOUS
<1> USE PeriodAssumption, ChannelAssumption
<1>1. TypeOK_Chan
      BY DEF ChanInit, Init, TypeOK_Chan
<1>2. InStep
      BY DEF ChanInit, Init, InStep
<1>3. ASSUME NEW c \in Chans
      PROVE  ReqSize * Len(admitted[c]) + credit[c] = 2 * ReqSize + Rate * m_cycle
  <2>1. Len(admitted[c]) = 0 /\ credit[c] = 2 * ReqSize /\ m_cycle = 0
        BY DEF ChanInit
  <2>2. ReqSize * 0 = 0 /\ Rate * 0 = 0
        OBVIOUS
  <2>3. QED
        BY <2>1, <2>2
<1>4. QED
      BY <1>1, <1>2, <1>3 DEF LedgerInv, Ledger

(* A round of the clocks counts a tick of the memory that DramCycle, later *)
(* in the same round, will answer with a cycle.                            *)
LEMMA RoundKeepsLedger == LedgerInv /\ Round => LedgerInv'
<1> SUFFICES ASSUME LedgerInv, Round PROVE LedgerInv'
    OBVIOUS
<1> USE PeriodAssumption, ChannelAssumption
<1>1. ticks' \in [Domains -> Nat] /\ mask' \subseteq Domains
      BY DEF Round, set_cycle_mask, LedgerInv, TypeOK_Chan
<1>2. TypeOK_Chan'
      BY <1>1 DEF Round, chanVars, LedgerInv, TypeOK_Chan
<1>3. m_cycle = ticks["dram"] /\ ticks["dram"] \in Nat
      BY DEF LedgerInv, InStep, Round, TypeOK_Chan
<1>4. ticks'["dram"] = ticks["dram"] + (IF "dram" \in mask' THEN 1 ELSE 0)
      BY <1>3 DEF Round, set_cycle_mask
<1>5. InStep'
      BY <1>3, <1>4 DEF Round, chanVars, InStep
<1>6. Ledger'
      BY DEF Round, chanVars, LedgerInv, Ledger
<1>7. QED
      BY <1>2, <1>5, <1>6 DEF LedgerInv

(* Requests that the cache passes on cost nothing until they are admitted. *)
LEMMA CacheKeepsLedger == LedgerInv /\ CacheCycle => LedgerInv'
<1> SUFFICES ASSUME LedgerInv, CacheCycle PROVE LedgerInv'
    OBVIOUS
<1> USE ChannelAssumption
<1>1. PICK A \in SUBSET (Txs \ sent) :
        toMem' = [c \in Chans |->
          IF \E t \in A : ChanOf[t] = c
          THEN Append(toMem[c], CHOOSE t \in A : ChanOf[t] = c) ELSE toMem[c]]
      BY DEF CacheCycle
<1>2. ASSUME NEW c \in Chans
      PROVE  toMem'[c] \in Seq(Txs)
  <2>1. toMem[c] \in Seq(Txs)
        BY DEF LedgerInv, TypeOK_Chan
  <2>2. CASE \E t \in A : ChanOf[t] = c
    <3> DEFINE t == CHOOSE t \in A : ChanOf[t] = c
    <3>1. t \in Txs
          BY <2>2
    <3>2. Append(toMem[c], t) \in Seq(Txs)
          BY <2>1, <3>1, LenOfAppend
    <3>3. QED
          BY <1>1, <2>2, <3>2
  <2>3. CASE ~ \E t \in A : ChanOf[t] = c
        BY <1>1, <2>1, <2>3
  <2>4. QED
        BY <2>2, <2>3
<1>3. TypeOK_Chan'
      BY <1>1, <1>2 DEF CacheCycle, vars, LedgerInv, TypeOK_Chan
<1>4. InStep' /\ Ledger'
      BY DEF CacheCycle, vars, LedgerInv, InStep, Ledger
<1>5. QED
      BY <1>3, <1>4 DEF LedgerInv

(* A cycle of the memory earns the rate and spends what it admits. *)
LEMMA DramKeepsLedger ==
  ASSUME NEW R \in SUBSET Chans, LedgerInv, DramCycle(R)
  PROVE  LedgerInv'
<1> USE ChannelAssumption
<1> DEFINE refilled == [c \in Chans |-> credit[c] + Rate]
           adm == {c \in Chans : toMem[c] # <<>> /\ Admits(refilled[c])}
           now == m_cycle + 1
<1>a. /\ m_cycle \in Nat
      /\ credit \in [Chans -> Nat]
      /\ toMem \in [Chans -> Seq(Txs)]
      /\ admitted \in [Chans -> Seq([tx : Txs, at : Nat])]
      BY DEF LedgerInv, TypeOK_Chan
<1>b. m_cycle' = now
      BY DEF DramCycle
<1>1. now \in Nat
      BY <1>a
<1>2. credit' = [c \in Chans |-> IF c \in adm THEN Spent(refilled[c]) ELSE refilled[c]]
      BY DEF DramCycle
<1>3. toMem' = [c \in Chans |-> IF c \in adm THEN Tail(toMem[c]) ELSE toMem[c]]
      BY DEF DramCycle
<1>4. admitted' = [c \in Chans |->
        IF c \in adm THEN Append(admitted[c], [tx |-> Head(toMem[c]), at |-> now])
        ELSE admitted[c]]
      BY DEF DramCycle
<1>5. ASSUME NEW c \in Chans
      PROVE  /\ credit'[c] \in Nat
             /\ toMem'[c] \in Seq(Txs)
             /\ admitted'[c] \in Seq([tx : Txs, at : Nat])
             /\ Len(admitted[c]) \in Nat
             /\ Rate > 0 =>
                  \/ credit'[c] = credit[c] + Rate /\ Len(admitted'[c]) = Len(admitted[c])
                  \/ /\ credit'[c] = credit[c] + Rate - ReqSize
                     /\ Len(admitted'[c]) = Len(admitted[c]) + 1
  <2>1. credit[c] \in Nat /\ toMem[c] \in Seq(Txs)
        /\ admitted[c] \in Seq([tx : Txs, at : Nat])
        BY <1>a
  <2>a. Len(admitted[c]) \in Nat
        BY <2>1
  <2>2. CASE c \in adm
    <3> DEFINE e == [tx |-> Head(toMem[c]), at |-> now]
    <3>1. Head(toMem[c]) \in Txs /\ Tail(toMem[c]) \in Seq(Txs)
          BY <2>1, <2>2, HeadAndTail
    <3>2. e \in [tx : Txs, at : Nat]
          BY <1>1, <3>1
    <3>3. Append(admitted[c], e) \in Seq([tx : Txs, at : Nat])
          /\ Len(Append(admitted[c], e)) = Len(admitted[c]) + 1
          BY <2>1, <3>2, LenOfAppend
    <3>4. admitted'[c] = Append(admitted[c], e) /\ toMem'[c] = Tail(toMem[c])
          BY <1>3, <1>4, <2>2
    <3>5. credit'[c] = Spent(credit[c] + Rate) /\ Admits(credit[c] + Rate)
          BY <1>2, <2>2
    <3>6. credit'[c] \in Nat /\ (Rate > 0 => credit'[c] = credit[c] + Rate - ReqSize)
          BY <2>1, <3>5 DEF Spent, Admits
    <3> HIDE DEF e
    <3>7. QED
          BY <2>1, <2>a, <3>1, <3>3, <3>4, <3>6
  <2>3. CASE c \notin adm
    <3>1. credit'[c] = credit[c] + Rate /\ toMem'[c] = toMem[c] /\ admitted'[c] = admitted[c]
          BY <1>2, <1>3, <1>4, <2>3
    <3>2. QED
          BY <2>1, <2>a, <3>1
  <2>4. QED
        BY <2>2, <2>3
<1>6. TypeOK_Chan'
  <2>1. credit' \in [Chans -> Nat] /\ toMem' \in [Chans -> Seq(Txs)]
        /\ admitted' \in [Chans -> Seq([tx : Txs, at : Nat])]
        BY <1>2, <1>3, <1>4, <1>5
  <2>2. pc' = "mask" /\ mask' = mask /\ ticks' = ticks
        BY DEF DramCycle, vars
  <2>3. QED
        BY <1>1, <1>b, <2>1, <2>2 DEF LedgerInv, TypeOK_Chan
<1>7. InStep'
  <2>1. pc = "dram" /\ "dram" \in mask /\ pc' = "mask" /\ ticks' = ticks
        BY DEF DramCycle, vars
  <2>2. m_cycle = ticks["dram"] - 1 /\ ticks["dram"] \in Nat
        BY <2>1 DEF LedgerInv, InStep, TypeOK_Chan
  <2>3. QED
        BY <1>b, <2>1, <2>2 DEF InStep
<1>8. ASSUME Rate > 0, NEW c \in Chans
      PROVE  ReqSize * Len(admitted'[c]) + credit'[c] = 2 * ReqSize + Rate * m_cycle'
  <2>1. ReqSize * Len(admitted[c]) + credit[c] = 2 * ReqSize + Rate * m_cycle
        BY <1>8 DEF LedgerInv, Ledger
  <2>2. Rate * m_cycle' = Rate * m_cycle + Rate
        BY <1>a, <1>b, OneMore
  <2>3. ReqSize * (Len(admitted[c]) + 1) = ReqSize * Len(admitted[c]) + ReqSize
        BY <1>5, OneMore
  <2>4. /\ ReqSize * Len(admitted[c]) \in Int /\ Rate * m_cycle \in Int
        /\ credit[c] \in Nat
        BY <1>a, <1>5
  <2>5. CASE credit'[c] = credit[c] + Rate /\ Len(admitted'[c]) = Len(admitted[c])
    <3>1. ReqSize * Len(admitted'[c]) = ReqSize * Len(admitted[c])
          BY <2>5
    <3>2. ReqSize * Len(admitted[c]) + (credit[c] + Rate) = 2 * ReqSize + (Rate * m_cycle + Rate)
      <4> DEFINE used == ReqSize * Len(admitted[c])
                 earned == Rate * m_cycle
      <4>1. used \in Int /\ earned \in Int /\ credit[c] \in Int
            /\ used + credit[c] = 2 * ReqSize + earned
            BY <2>1, <2>4
      <4>2. Rate \in Int /\ 2 * ReqSize \in Int
            OBVIOUS
      <4> HIDE DEF used, earned
      <4>3. used + (credit[c] + Rate) = 2 * ReqSize + (earned + Rate)
            BY <4>1, <4>2, Earned
      <4>4. QED
            BY <4>3 DEF used, earned
    <3>3. credit'[c] = credit[c] + Rate
          BY <2>5
    <3>4. QED
          BY <2>2, <3>1, <3>2, <3>3, Zenon
  <2>6. CASE /\ credit'[c] = credit[c] + Rate - ReqSize
             /\ Len(admitted'[c]) = Len(admitted[c]) + 1
    <3>1. ReqSize * Len(admitted'[c]) = ReqSize * Len(admitted[c]) + ReqSize
          BY <2>3, <2>6
    <3>2. (ReqSize * Len(admitted[c]) + ReqSize) + (credit[c] + Rate - ReqSize)
            = 2 * ReqSize + (Rate * m_cycle + Rate)
      <4> DEFINE used == ReqSize * Len(admitted[c])
                 earned == Rate * m_cycle
      <4>1. used \in Int /\ earned \in Int /\ credit[c] \in Int
            /\ used + credit[c] = 2 * ReqSize + earned
            BY <2>1, <2>4
      <4> HIDE DEF used, earned
      <4>2. (used + ReqSize) + (credit[c] + Rate - ReqSize) = 2 * ReqSize + (earned + Rate)
            BY <4>1, EarnedAndSpent
      <4>3. QED
            BY <4>2 DEF used, earned
    <3>3. credit'[c] = credit[c] + Rate - ReqSize
          BY <2>6
    <3>4. QED
          BY <2>2, <3>1, <3>2, <3>3, Zenon
  <2>7. QED
        BY <1>5, <1>8, <2>5, <2>6
<1>9. QED
      BY <1>6, <1>7, <1>8 DEF LedgerInv, Ledger

(* Every step keeps the ledger. *)
LEMMA LedgerNext == LedgerInv /\ [ChanNext]_allVars => LedgerInv'
<1> SUFFICES ASSUME LedgerInv, [ChanNext]_allVars PROVE LedgerInv'
    OBVIOUS
<1>1. CASE Round
      BY <1>1, RoundKeepsLedger
<1>2. CASE CacheCycle
      BY <1>2, CacheKeepsLedger
<1>3. ASSUME NEW R \in SUBSET Chans, DramCycle(R) PROVE LedgerInv'
      BY <1>3, DramKeepsLedger
<1>4. CASE NoDramCycle
      BY <1>4 DEF NoDramCycle, vars, chanVars, LedgerInv, TypeOK_Chan, InStep, Ledger
<1>5. CASE UNCHANGED allVars
      BY <1>5 DEF allVars, vars, chanVars, LedgerInv, TypeOK_Chan, InStep, Ledger
<1>6. QED
      BY <1>1, <1>2, <1>3, <1>4, <1>5 DEF ChanNext

(* The ledger of SimpleDRAM::cycle balances in every reachable state. *)
THEOREM LedgerBalances == ChanSpec => []LedgerInv
  BY LedgerInit, LedgerNext, PTL DEF ChanSpec

(* The configured bandwidth is never exceeded beyond two requests, however *)
(* long a channel was idle before and whatever the clocks are.             *)
THEOREM BandwidthIsHeld == ChanSpec => []BandwidthHeld
<1>1. LedgerInv => BandwidthHeld
  <2> SUFFICES ASSUME LedgerInv PROVE BandwidthHeld
      OBVIOUS
  <2>1. ASSUME Rate > 0, NEW c \in Chans
        PROVE  ReqSize * Len(admitted[c]) <= 2 * ReqSize + Rate * m_cycle
    <3>1. ReqSize * Len(admitted[c]) + credit[c] = 2 * ReqSize + Rate * m_cycle
          BY <2>1 DEF LedgerInv, Ledger
    <3>2. credit[c] \in Nat /\ Len(admitted[c]) \in Nat
          BY DEF LedgerInv, TypeOK_Chan
    <3>3. ReqSize * Len(admitted[c]) \in Int
          BY <3>2, ChannelAssumption
    <3>4. QED
          BY <3>1, <3>2, <3>3
  <2>2. QED
        BY <2>1 DEF LedgerInv, InStep, BandwidthHeld
<1>2. QED
      BY <1>1, LedgerBalances, PTL
-----------------------------------------------------------------------------
(* A queue seen by its places: what is appended is last, what is taken is  *)
(* first and moves the rest up.                                            *)
LEMMA AppendPlaces ==
  ASSUME NEW S, NEW q \in Seq(S), NEW e \in S
  PROVE  /\ Len(q) \in Nat
         /\ Append(q, e) \in Seq(S) /\ Len(Append(q, e)) = Len(q) + 1
         /\ Append(q, e) # <<>>
         /\ Append(q, e)[Len(q) + 1] = e
         /\ \A i \in 1 .. Len(q) : Append(q, e)[i] = q[i]
  OBVIOUS

LEMMA TailPlaces ==
  ASSUME NEW S, NEW q \in Seq(S), q # <<>>
  PROVE  /\ Len(q) \in Nat \ {0} /\ Head(q) = q[1] /\ q[1] \in S
         /\ Tail(q) \in Seq(S) /\ Len(Tail(q)) = Len(q) - 1
         /\ \A i \in 1 .. Len(Tail(q)) : Tail(q)[i] = q[i + 1]
  OBVIOUS

LEMMA AtCycle ==
  ASSUME NEW q \in Seq(TxAt)
  PROVE  \A i \in 1 .. Len(q) : q[i].at \in Nat
<1>1. \A i \in 1 .. Len(q) : q[i] \in TxAt
  OBVIOUS
<1>2. QED
  BY <1>1 DEF TxAt

(* A request that DelayQueue::push takes in this cycle is the latest of    *)
(* all and due its latency from now.                                       *)
LEMMA PushInTime ==
  ASSUME NEW a \in Seq(TxAt), NEW r \in Seq(TxAt), NEW q \in Seq(TxAt),
         NEW late \in Nat, NEW now \in Nat, NEW t \in Txs,
         InTime(a, r, q, late, now, now + 1)
  PROVE  InTime(Append(a, [tx |-> t, at |-> now + 1]), r,
                Append(q, Entry(t, now + 1)), late, now + 1, now + 1)
<1> DEFINE x == [tx |-> t, at |-> now + 1]
           e == Entry(t, now + 1)
           a2 == Append(a, x)
           q2 == Append(q, e)
<1>1. x \in TxAt /\ e \in TxAt /\ e.tx = x.tx /\ e.at = x.at + Latency
      /\ x.at = now + 1 /\ x.tx = t
  BY ChannelAssumption DEF TxAt, Entry
<1>2. /\ Len(a2) = Len(a) + 1 /\ a2[Len(a) + 1] = x
      /\ \A i \in 1 .. Len(a) : a2[i] = a[i]
      /\ Len(q2) = Len(q) + 1 /\ q2[Len(q) + 1] = e
      /\ \A i \in 1 .. Len(q) : q2[i] = q[i]
      /\ q2 \in Seq(TxAt) /\ q2 # <<>>
      /\ Len(a) \in Nat /\ Len(q) \in Nat /\ Len(r) \in Nat
  BY <1>1, AppendPlaces
<1>3. \A i \in 1 .. Len(a) : a[i].at \in Nat /\ a[i].at <= now
  BY AtCycle DEF InTime
<1> HIDE DEF x, e, a2, q2
<1>4. Len(a2) = Len(r) + Len(q2)
  BY <1>2 DEF InTime
<1>5. ASSUME NEW i \in 1 .. Len(q2)
      PROVE  q2[i].tx = a2[Len(r) + i].tx /\ q2[i].at = a2[Len(r) + i].at + Latency
  <2>1. CASE i = Len(q) + 1
    <3>1. Len(r) + i = Len(a) + 1
      BY <1>2, <2>1 DEF InTime
    <3>2. QED
      BY <1>1, <1>2, <2>1, <3>1
  <2>2. CASE i # Len(q) + 1
    <3>1. i \in 1 .. Len(q) /\ Len(r) + i \in 1 .. Len(a)
      BY <1>2, <2>2 DEF InTime
    <3>2. QED
      BY <1>2, <3>1 DEF InTime
  <2>3. QED
    BY <2>1, <2>2
<1>6. ASSUME NEW i \in 1 .. Len(a2) PROVE a2[i].at <= now + 1
  <2>1. i = Len(a) + 1 \/ i \in 1 .. Len(a)
    BY <1>2
  <2>2. CASE i = Len(a) + 1
    BY <1>1, <1>2, <2>2
  <2>3. CASE i \in 1 .. Len(a)
    <3>1. a2[i] = a[i] /\ a[i].at \in Nat /\ a[i].at <= now
      BY <1>2, <1>3, <2>3
    <3>2. QED
      BY <3>1
  <2>4. QED
    BY <2>1, <2>2, <2>3
<1>7. ASSUME NEW i \in 1 .. Len(a2), NEW j \in 1 .. Len(a2), i < j
      PROVE  a2[i].at < a2[j].at
  <2>1. i \in 1 .. Len(a)
    BY <1>2, <1>7
  <2>2. CASE j = Len(a) + 1
    BY <1>1, <1>2, <1>3, <2>1, <2>2
  <2>3. CASE j # Len(a) + 1
    <3>1. j \in 1 .. Len(a)
      BY <1>2, <2>3
    <3>2. a[i].at < a[j].at
      BY <1>7, <2>1, <3>1 DEF InTime
    <3>3. QED
      BY <1>2, <2>1, <3>1, <3>2
  <2>4. QED
    BY <2>2, <2>3
<1>8. Head(q2).at + late >= now + 1
  <2>1. Head(q2) = q2[1]
    BY <1>2, TailPlaces
  <2>2. CASE q = <<>>
    BY <1>1, <1>2, <2>1, <2>2, ChannelAssumption
  <2>3. CASE q # <<>>
    <3>1. Head(q) = q[1] /\ 1 \in 1 .. Len(q)
      BY <2>3, TailPlaces
    <3>2. QED
      BY <1>2, <2>1, <2>3, <3>1 DEF InTime
  <2>4. QED
    BY <2>2, <2>3
<1>9. ASSUME NEW i \in 1 .. Len(r)
      PROVE  /\ r[i].tx = a2[i].tx
             /\ a2[i].at + Latency <= r[i].at
             /\ r[i].at <= a2[i].at + Latency + late
  <2>1. i \in 1 .. Len(a)
    BY <1>2 DEF InTime
  <2>2. QED
    BY <1>2, <2>1 DEF InTime
<1>10. InTime(a2, r, q2, late, now + 1, now + 1)
  BY <1>4, <1>5, <1>6, <1>7, <1>8, <1>9 DEF InTime
<1>11. QED
  BY <1>10 DEF a2, q2, x, e

(* A cycle in which nothing is pushed. *)
LEMMA LaterInTime ==
  ASSUME NEW a \in Seq(TxAt), NEW r \in Seq(TxAt), NEW q \in Seq(TxAt),
         NEW late \in Nat, NEW now \in Nat, InTime(a, r, q, late, now, now + 1)
  PROVE  InTime(a, r, q, late, now + 1, now + 1)
<1>1. ASSUME NEW i \in 1 .. Len(a) PROVE a[i].at <= now + 1
  <2>1. a[i].at \in Nat /\ a[i].at <= now
    BY AtCycle DEF InTime
  <2>2. QED
    BY <2>1
<1>2. QED
  BY <1>1 DEF InTime

(* What DelayQueue::arrived does not yet report stays in time, and so does *)
(* an answer that is refused, a cycle later than it was.                   *)
LEMMA WaitInTime ==
  ASSUME NEW a \in Seq(TxAt), NEW r \in Seq(TxAt), NEW q \in Seq(TxAt),
         NEW late \in Nat, NEW now \in Nat, InTime(a, r, q, late, now, now)
  PROVE  /\ ~Arrived(q, now) => InTime(a, r, q, late, now, now + 1)
         /\ InTime(a, r, q, late + 1, now, now + 1)
<1>1. q # <<>> => Head(q).at \in Nat
  BY TailPlaces, AtCycle
<1>2. /\ \A i \in 1 .. Len(a) : a[i].at \in Nat
      /\ \A i \in 1 .. Len(r) : r[i].at \in Nat /\ i \in 1 .. Len(a)
  <2>1. Len(r) \in Nat /\ Len(q) \in Nat /\ Len(a) = Len(r) + Len(q)
    BY DEF InTime
  <2>2. \A i \in 1 .. Len(r) : i \in 1 .. Len(a)
    BY <2>1
  <2>3. QED
    BY <2>2, AtCycle
<1>3. ~Arrived(q, now) => (q # <<>> => Head(q).at + late >= now + 1)
  BY <1>1 DEF Arrived
<1>4. q # <<>> => Head(q).at + (late + 1) >= now + 1
  BY <1>1 DEF InTime
<1>5. ASSUME NEW i \in 1 .. Len(r) PROVE r[i].at <= a[i].at + Latency + (late + 1)
  <2> DEFINE x == a[i].at
             y == r[i].at
  <2>1. x \in Nat /\ y \in Nat /\ Latency \in Nat
    BY <1>2, ChannelAssumption
  <2>2. y <= x + Latency + late
    BY DEF InTime
  <2> HIDE DEF x, y
  <2>3. y <= x + Latency + (late + 1)
    BY <2>1, <2>2
  <2>4. QED
    BY <2>3 DEF x, y
<1>6. QED
  BY <1>3, <1>4, <1>5 DEF InTime

(* The head of the queue is answered in time, and what was behind it is    *)
(* due a cycle later at the earliest.                                      *)
LEMMA AnswerInTime ==
  ASSUME NEW a \in Seq(TxAt), NEW r \in Seq(TxAt), NEW q \in Seq(TxAt),
         NEW late \in Nat, NEW now \in Nat, Arrived(q, now),
         InTime(a, r, q, late, now, now)
  PROVE  InTime(a, Append(r, [tx |-> Head(q).tx, at |-> now]), Tail(q), late, now, now + 1)
<1> DEFINE y == [tx |-> Head(q).tx, at |-> now]
           r2 == Append(r, y)
           q2 == Tail(q)
<1>1. /\ Len(q) \in Nat \ {0} /\ Head(q) = q[1] /\ q[1] \in TxAt
      /\ q2 \in Seq(TxAt) /\ Len(q2) = Len(q) - 1
      /\ \A i \in 1 .. Len(q2) : q2[i] = q[i + 1]
  BY TailPlaces DEF Arrived
<1>2. y \in TxAt /\ y.tx = q[1].tx /\ y.at = now
  BY <1>1 DEF TxAt
<1>3. /\ Len(r) \in Nat /\ Len(r2) = Len(r) + 1 /\ r2[Len(r) + 1] = y
      /\ \A i \in 1 .. Len(r) : r2[i] = r[i]
  BY <1>2, AppendPlaces
<1> HIDE DEF y, r2, q2
<1>4. Len(a) = Len(r) + Len(q) /\ Len(a) = Len(r2) + Len(q2)
  BY <1>1, <1>3 DEF InTime
<1>5. \A i \in 1 .. Len(q) :
        /\ Len(r) + i \in 1 .. Len(a)
        /\ q[i].tx = a[Len(r) + i].tx /\ q[i].at = a[Len(r) + i].at + Latency
        /\ a[Len(r) + i].at \in Nat
  <2>1. \A i \in 1 .. Len(q) : Len(r) + i \in 1 .. Len(a)
    BY <1>1, <1>3, <1>4
  <2>2. QED
    BY <2>1, AtCycle DEF InTime
<1>6. ASSUME NEW i \in 1 .. Len(q2)
      PROVE  q2[i].tx = a[Len(r2) + i].tx /\ q2[i].at = a[Len(r2) + i].at + Latency
  <2>1. /\ Len(q) \in Nat /\ Len(q2) = Len(q) - 1
        /\ Len(r) \in Nat /\ Len(r2) = Len(r) + 1
    BY <1>1, <1>3
  <2>2. i + 1 \in 1 .. Len(q) /\ Len(r2) + i = Len(r) + (i + 1)
    BY <2>1
  <2>3. QED
    BY <1>1, <1>5, <2>2
<1>7. q2 # <<>> => Head(q2).at + late >= now + 1
  <2>1. SUFFICES ASSUME q2 # <<>> PROVE Head(q2).at + late >= now + 1
    OBVIOUS
  <2>2. Head(q2) = q2[1] /\ Len(q2) \in Nat \ {0}
    BY <1>1, <2>1, TailPlaces
  <2>3. 1 \in 1 .. Len(q) /\ 2 \in 1 .. Len(q) /\ q2[1] = q[2]
    BY <1>1, <2>2
  <2>4. a[Len(r) + 1].at < a[Len(r) + 2].at
    BY <1>3, <1>5, <2>3 DEF InTime
  <2>5. /\ q[1].at = a[Len(r) + 1].at + Latency /\ a[Len(r) + 1].at \in Nat
        /\ q[2].at = a[Len(r) + 2].at + Latency /\ a[Len(r) + 2].at \in Nat
    BY <1>5, <2>3
  <2>6. q[1].at + late >= now
    BY <1>1 DEF InTime
  <2>7. Latency \in Nat
    BY ChannelAssumption
  <2>8. q[2].at >= q[1].at + 1 /\ q[1].at \in Nat /\ q[2].at \in Nat
    <3> DEFINE x == a[Len(r) + 1].at
               z == a[Len(r) + 2].at
    <3>1. x \in Nat /\ z \in Nat /\ x < z /\ q[1].at = x + Latency /\ q[2].at = z + Latency
      BY <2>4, <2>5
    <3> HIDE DEF x, z
    <3>2. QED
      BY <2>7, <3>1
  <2>9. q2[1].at + late >= now + 1
    <3> DEFINE x == q[1].at
               z == q[2].at
    <3>1. x \in Nat /\ z \in Nat /\ z >= x + 1 /\ x + late >= now
      BY <2>6, <2>8
    <3> HIDE DEF x, z
    <3>2. z + late >= now + 1
      BY <3>1
    <3>3. QED
      BY <2>3, <3>2 DEF z
  <2>10. QED
    BY <2>2, <2>9
<1>8. ASSUME NEW i \in 1 .. Len(r2)
      PROVE  /\ r2[i].tx = a[i].tx
             /\ a[i].at + Latency <= r2[i].at
             /\ r2[i].at <= a[i].at + Latency + late
  <2>1. CASE i = Len(r) + 1
    <3>1. q[1].at <= now /\ now <= q[1].at + late
      BY <1>1 DEF Arrived, InTime, TxAt
    <3>2. 1 \in 1 .. Len(q) /\ q[1].tx = a[i].tx /\ q[1].at = a[i].at + Latency
      BY <1>1, <1>5, <2>1
    <3>3. QED
      BY <1>2, <1>3, <2>1, <3>1, <3>2
  <2>2. CASE i # Len(r) + 1
    <3>1. i \in 1 .. Len(r) /\ r2[i] = r[i]
      BY <1>3, <2>2
    <3>2. QED
      BY <3>1 DEF InTime
  <2>3. QED
    BY <2>1, <2>2
<1>9. InTime(a, r2, q2, late, now, now + 1)
  BY <1>4, <1>6, <1>7, <1>8 DEF InTime
<1>10. QED
  BY <1>9 DEF y, r2, q2

(* What a cycle of the memory does to one channel: the cache's request is  *)
(* pushed if there is credit for it, and the head of the queue is answered *)
(* when its time has come, unless the cache refuses it.                    *)
LEMMA ChannelInTime ==
  ASSUME LedgerInv, LatencyInv, NEW R \in SUBSET Chans, DramCycle(R), NEW c \in Chans
  PROVE  /\ mem'[c] \in Seq(TxAt) /\ answered'[c] \in Seq(TxAt)
         /\ refusals'[c] \in Nat
         /\ InTime(admitted[c], answered[c], mem[c], refusals[c], m_cycle, m_cycle + 1)'
<1> DEFINE now == m_cycle + 1
           adm == toMem[c] # <<>> /\ Admits(credit[c] + Rate)
           q == IF adm THEN Append(mem[c], Entry(Head(toMem[c]), now)) ELSE mem[c]
           done == Arrived(q, now)
<1>1. /\ m_cycle \in Nat /\ now \in Nat
      /\ toMem[c] \in Seq(Txs) /\ admitted[c] \in Seq(TxAt)
      /\ mem[c] \in Seq(TxAt) /\ answered[c] \in Seq(TxAt) /\ refusals[c] \in Nat
      /\ InTime(admitted[c], answered[c], mem[c], refusals[c], m_cycle, now)
  <2>1. m_cycle \in Nat /\ toMem \in [Chans -> Seq(Txs)]
        /\ admitted \in [Chans -> Seq([tx : Txs, at : Nat])]
    BY DEF LedgerInv, TypeOK_Chan
  <2>2. TxAt = [tx : Txs, at : Nat]
    BY DEF TxAt
  <2>3. admitted \in [Chans -> Seq(TxAt)]
    BY <2>1, <2>2, Zenon
  <2>4. QED
    BY <2>1, <2>3 DEF LatencyInv
<1>2. /\ m_cycle' = now
      /\ admitted'[c] = IF adm THEN Append(admitted[c], [tx |-> Head(toMem[c]), at |-> now])
                        ELSE admitted[c]
      /\ mem'[c] = IF done /\ c \notin R THEN Tail(q) ELSE q
      /\ answered'[c] = IF done /\ c \notin R
                        THEN Append(answered[c], [tx |-> Head(q).tx, at |-> now])
                        ELSE answered[c]
      /\ refusals'[c] = IF c \in R THEN refusals[c] + 1 ELSE refusals[c]
      /\ c \in R => done
  BY DEF DramCycle
<1>3. /\ q \in Seq(TxAt) /\ admitted'[c] \in Seq(TxAt)
      /\ InTime(admitted'[c], answered[c], q, refusals[c], now, now)
  <2>1. CASE adm
    <3>1. Head(toMem[c]) \in Txs
      BY <1>1, <2>1, HeadAndTail
    <3>2. Entry(Head(toMem[c]), now) \in TxAt /\ [tx |-> Head(toMem[c]), at |-> now] \in TxAt
      BY <1>1, <3>1, ChannelAssumption DEF Entry, TxAt
    <3>3. q = Append(mem[c], Entry(Head(toMem[c]), now)) /\ q \in Seq(TxAt)
      BY <1>1, <2>1, <3>2, AppendPlaces
    <3>4. admitted'[c] = Append(admitted[c], [tx |-> Head(toMem[c]), at |-> now])
          /\ admitted'[c] \in Seq(TxAt)
      BY <1>1, <1>2, <2>1, <3>2, AppendPlaces
    <3>5. InTime(Append(admitted[c], [tx |-> Head(toMem[c]), at |-> now]), answered[c],
                 Append(mem[c], Entry(Head(toMem[c]), now)), refusals[c], now, now)
      BY <1>1, <3>1, PushInTime
    <3>6. QED
      BY <3>3, <3>4, <3>5
  <2>2. CASE ~adm
    <3>1. q = mem[c] /\ admitted'[c] = admitted[c]
      BY <1>2, <2>2
    <3>2. InTime(admitted[c], answered[c], mem[c], refusals[c], now, now)
      BY <1>1, LaterInTime
    <3>3. QED
      BY <1>1, <3>1, <3>2
  <2>3. QED
    BY <2>1, <2>2
<1> HIDE DEF adm, q, now
<1>4. CASE done /\ c \notin R
  <2>1. /\ mem'[c] = Tail(q) /\ refusals'[c] = refusals[c]
        /\ answered'[c] = Append(answered[c], [tx |-> Head(q).tx, at |-> now])
    BY <1>2, <1>4
  <2>2. q # <<>>
    BY <1>4 DEF Arrived
  <2>3. Head(q) \in TxAt /\ Tail(q) \in Seq(TxAt)
    BY <1>3, <2>2, HeadAndTail
  <2>4. [tx |-> Head(q).tx, at |-> now] \in TxAt
    BY <1>1, <2>3 DEF TxAt
  <2>5. answered'[c] \in Seq(TxAt)
    BY <1>1, <2>1, <2>4, AppendPlaces
  <2>6. InTime(admitted'[c], answered'[c], mem'[c], refusals'[c], now, now + 1)
    BY <1>1, <1>3, <1>4, <2>1, AnswerInTime
  <2>7. QED
    BY <1>1, <1>2, <2>1, <2>3, <2>5, <2>6
<1>5. CASE ~done \/ c \in R
  <2>1. mem'[c] = q /\ answered'[c] = answered[c] /\ refusals'[c] \in Nat
    BY <1>1, <1>2, <1>5
  <2>2. InTime(admitted'[c], answered[c], q, refusals'[c], now, now + 1)
    BY <1>1, <1>2, <1>3, <1>5, WaitInTime
  <2>3. QED
    BY <1>1, <1>2, <1>3, <2>1, <2>2
<1>6. QED
  BY <1>4, <1>5

(* Every step keeps the channels in time. *)
LEMMA LatencyNext == LedgerInv /\ LatencyInv /\ [ChanNext]_allVars => LatencyInv'
<1> SUFFICES ASSUME LedgerInv, LatencyInv, [ChanNext]_allVars PROVE LatencyInv'
  OBVIOUS
<1>1. ASSUME NEW R \in SUBSET Chans, DramCycle(R) PROVE LatencyInv'
  <2>1. /\ mem' = [d \in Chans |-> mem'[d]]
        /\ answered' = [d \in Chans |-> answered'[d]]
        /\ refusals' = [d \in Chans |-> refusals'[d]]
    BY <1>1 DEF DramCycle
  <2>2. /\ mem' \in [Chans -> Seq(TxAt)] /\ answered' \in [Chans -> Seq(TxAt)]
        /\ refusals' \in [Chans -> Nat]
    BY <1>1, <2>1, ChannelInTime
  <2>3. QED
    BY <1>1, <2>2, ChannelInTime DEF LatencyInv
<1>2. CASE Round \/ CacheCycle \/ NoDramCycle \/ UNCHANGED allVars
  <2>1. UNCHANGED <<mem, answered, refusals, admitted, m_cycle>>
    BY <1>2 DEF Round, CacheCycle, NoDramCycle, allVars, chanVars
  <2>2. QED
    BY <2>1 DEF LatencyInv
<1>3. QED
  BY <1>1, <1>2 DEF ChanNext

(* SimpleDRAM answers in the order of the requests, and exactly dram_latency *)
(* memory cycles after DelayQueue::push but for the refused cycles, however  *)
(* many requests a channel holds at a time.                                  *)
THEOREM LatencyIsKept == ChanSpec => []LatencyKept
<1>1. ChanInit => LatencyInv
  <2> SUFFICES ASSUME ChanInit, NEW c \in Chans
               PROVE  InTime(<<>>, <<>>, <<>>, 0, 0, 1)
    BY DEF ChanInit, LatencyInv
  <2>1. Len(<<>>) = 0
    OBVIOUS
  <2>2. QED
    BY <2>1 DEF InTime
<1>2. LatencyInv => LatencyKept
  <2> SUFFICES ASSUME LatencyInv PROVE LatencyKept
    OBVIOUS
  <2>1. \A c \in Chans :
          /\ refusals[c] \in Nat
          /\ InTime(admitted[c], answered[c], mem[c], refusals[c], m_cycle, m_cycle + 1)
    BY DEF LatencyInv
  <2>2. QED
    BY <2>1 DEF InTime, LatencyKept
<1>3. QED
  BY <1>1, <1>2, LatencyNext, LedgerBalances, PTL DEF ChanSpec
-----------------------------------------------------------------------------
(* Counting a cycle leaves a record of its kind. *)
LEMMA CountedCycle ==
  ASSUME NEW b \in [cycles : Nat, count : Nat, start : Nat], NEW n \in Nat
  PROVE  Counted(b, n) \in [cycles : Nat, count : Nat, start : Nat]
  BY DEF Counted

(* A cycle that finds requests waiting: the credit it leaves is what the   *)
(* ledger says, and less than a request unless one was admitted in every   *)
(* cycle.                                                                  *)
LEMMA CycleQueueing ==
  ASSUME NEW b \in [cycles : Nat, count : Nat, start : Nat], NEW cr \in Nat,
         Queueing(b, cr)
  PROVE  /\ Admits(cr + Rate) =>
              Queueing(Counted(b, 1), Spent(cr + Rate))
         /\ ~Admits(cr + Rate) =>
              Queueing(Counted(b, 0), cr + Rate)
<1> USE ChannelAssumption
<1> DEFINE used == ReqSize * b.count
           earned == Rate * b.cycles
           admits == Counted(b, 1)
           waits == Counted(b, 0)
<1>1. /\ b.count \in Nat /\ b.cycles \in Nat /\ b.start \in Nat
      /\ ReqSize \in Nat /\ ReqSize > 0 /\ Rate \in Nat
  OBVIOUS
<1>2. used \in Int /\ earned \in Int
  BY <1>1
<1>3. ReqSize * (b.count + 1) = used + ReqSize /\ Rate * (b.cycles + 1) = earned + Rate
  BY <1>1, OneMore
<1>4. /\ admits.cycles = b.cycles + 1 /\ admits.count = b.count + 1 /\ admits.start = b.start
      /\ waits.cycles = b.cycles + 1 /\ waits.count = b.count /\ waits.start = b.start
  BY DEF Counted
<1>5. Rate > 0 => used + cr = b.start + earned
  BY DEF Queueing
<1>6. b.count = b.cycles \/ (0 < Rate /\ Rate < ReqSize /\ cr < ReqSize)
  BY DEF Queueing
<1> HIDE DEF used, earned, admits, waits
<1>7. ASSUME Admits(cr + Rate)
      PROVE  Queueing(admits, Spent(cr + Rate))
  <2>1. Rate > 0 => (used + ReqSize) + (cr + Rate - ReqSize) = b.start + (earned + Rate)
    BY <1>1, <1>2, <1>5
  <2>2. Rate > 0 => Spent(cr + Rate) = cr + Rate - ReqSize
    BY DEF Spent
  <2>3. ReqSize * admits.count = used + ReqSize /\ Rate * admits.cycles = earned + Rate
    BY <1>3, <1>4
  <2>4. \/ admits.count = admits.cycles
        \/ 0 < Rate /\ Rate < ReqSize /\ Spent(cr + Rate) < ReqSize
    BY <1>1, <1>4, <1>6, <2>2
  <2>5. QED
    BY <1>4, <2>1, <2>2, <2>3, <2>4 DEF Queueing
<1>8. ASSUME ~Admits(cr + Rate)
      PROVE  Queueing(waits, cr + Rate)
  <2>1. 0 < Rate /\ cr + Rate < ReqSize
    BY <1>1, <1>8 DEF Admits
  <2>2. used + (cr + Rate) = b.start + (earned + Rate)
    BY <1>1, <1>2, <1>5, <2>1
  <2>3. ReqSize * waits.count = used /\ Rate * waits.cycles = earned + Rate
    BY <1>3, <1>4 DEF used
  <2>4. QED
    BY <1>1, <1>4, <2>1, <2>2, <2>3 DEF Queueing
<1>9. QED
  BY <1>7, <1>8 DEF admits, waits

(* Nothing has been waiting. *)
LEMMA StartQueueing ==
  ASSUME NEW cr \in Nat
  PROVE  Queueing([cycles |-> 0, count |-> 0, start |-> cr], cr)
  BY ChannelAssumption DEF Queueing

(* Every step keeps the ledger of what is queueing. *)
LEMMA RateNext == LedgerInv /\ RateInv /\ [ChanNext]_allVars => RateInv'
<1> SUFFICES ASSUME LedgerInv, RateInv, [ChanNext]_allVars PROVE RateInv'
  OBVIOUS
<1> DEFINE Busy == [cycles : Nat, count : Nat, start : Nat]
<1>1. ASSUME NEW R \in SUBSET Chans, DramCycle(R) PROVE RateInv'
  <2>1. ASSUME NEW c \in Chans
        PROVE  busy'[c] \in Busy /\ Queueing(busy'[c], credit'[c])
    <3> DEFINE refilled == credit[c] + Rate
               adm == toMem[c] # <<>> /\ Admits(refilled)
    <3>1. credit[c] \in Nat /\ refilled \in Nat /\ busy[c] \in Busy
          /\ Queueing(busy[c], credit[c])
      BY ChannelAssumption DEF LedgerInv, TypeOK_Chan, RateInv
    <3>2. /\ credit'[c] = IF adm THEN Spent(refilled) ELSE refilled
          /\ busy'[c] = IF toMem[c] = <<>> THEN [cycles |-> 0, count |-> 0, start |-> refilled]
                        ELSE Counted(busy[c], IF adm THEN 1 ELSE 0)
      BY <1>1 DEF DramCycle
    <3>3. CASE toMem[c] = <<>>
      BY <3>1, <3>2, <3>3, StartQueueing
    <3>4. CASE toMem[c] # <<>> /\ Admits(refilled)
      <4>1. /\ credit'[c] = Spent(refilled)
            /\ busy'[c] = Counted(busy[c], 1)
        BY <3>2, <3>4
      <4>2. Queueing(Counted(busy[c], 1), Spent(refilled))
        BY <3>1, <3>4, CycleQueueing
      <4>3. busy'[c] \in Busy
        BY <3>1, <4>1, CountedCycle
      <4>4. QED
        BY <4>1, <4>2, <4>3
    <3>5. CASE toMem[c] # <<>> /\ ~Admits(refilled)
      <4>1. /\ credit'[c] = refilled
            /\ busy'[c] = Counted(busy[c], 0)
        BY <3>2, <3>5
      <4>2. Queueing(Counted(busy[c], 0), refilled)
        BY <3>1, <3>5, CycleQueueing
      <4>3. busy'[c] \in Busy
        BY <3>1, <4>1, CountedCycle
      <4>4. QED
        BY <4>1, <4>2, <4>3
    <3>6. QED
      BY <3>3, <3>4, <3>5
  <2>2. busy' = [c \in Chans |-> busy'[c]]
    BY <1>1 DEF DramCycle
  <2>3. busy' \in [Chans -> Busy]
    BY <2>1, <2>2
  <2>4. QED
    BY <2>1, <2>3 DEF RateInv
<1>2. CASE Round \/ CacheCycle \/ NoDramCycle \/ UNCHANGED allVars
  <2>1. UNCHANGED <<busy, credit>>
    BY <1>2 DEF Round, CacheCycle, NoDramCycle, allVars, chanVars
  <2>2. QED
    BY <2>1 DEF RateInv
<1>3. QED
  BY <1>1, <1>2 DEF ChanNext

(* While requests wait, a channel admits one in every cycle or all that    *)
(* its credit pays for: no byte of the configured bandwidth is lost, for   *)
(* any rate, below or above one request per cycle.                         *)
THEOREM FullRateGiven == ChanSpec => []FullRate
<1>1. ChanInit => RateInv
  <2> SUFFICES ASSUME ChanInit PROVE RateInv
    OBVIOUS
  <2>1. /\ busy = [c \in Chans |-> [cycles |-> 0, count |-> 0, start |-> 2 * ReqSize]]
        /\ credit = [c \in Chans |-> 2 * ReqSize]
    BY DEF ChanInit
  <2>2. 2 * ReqSize \in Nat
    BY ChannelAssumption
  <2>3. QED
    BY <2>1, <2>2, StartQueueing DEF RateInv
<1>2. LedgerInv /\ RateInv => FullRate
  <2> SUFFICES ASSUME LedgerInv, RateInv, NEW c \in Chans, busy[c].count # busy[c].cycles
               PROVE  Rate > 0 /\ (busy[c].count + 1) * ReqSize
                                    > busy[c].start + Rate * busy[c].cycles
    BY DEF FullRate
  <2>1. /\ busy[c] \in [cycles : Nat, count : Nat, start : Nat]
        /\ credit[c] \in Nat /\ Queueing(busy[c], credit[c])
    BY DEF LedgerInv, TypeOK_Chan, RateInv
  <2>2. /\ busy[c].count \in Nat /\ busy[c].cycles \in Nat /\ busy[c].start \in Nat
        /\ ReqSize \in Nat /\ Rate \in Nat
    BY <2>1, ChannelAssumption
  <2>3. /\ Rate > 0 /\ credit[c] < ReqSize
        /\ ReqSize * busy[c].count + credit[c] = busy[c].start + Rate * busy[c].cycles
    BY <2>1 DEF Queueing
  <2>4. (busy[c].count + 1) * ReqSize = ReqSize * busy[c].count + ReqSize
    BY <2>2, OneMore
  <2>5. ReqSize * busy[c].count \in Int /\ Rate * busy[c].cycles \in Int
    BY <2>2
  <2>6. QED
    <3> DEFINE used == ReqSize * busy[c].count
               earned == Rate * busy[c].cycles
    <3>1. /\ used \in Int /\ earned \in Int /\ credit[c] \in Nat /\ credit[c] < ReqSize
          /\ used + credit[c] = busy[c].start + earned
          /\ (busy[c].count + 1) * ReqSize = used + ReqSize
      BY <2>1, <2>3, <2>4, <2>5
    <3> HIDE DEF used, earned
    <3>2. used + ReqSize > busy[c].start + earned
      BY <2>2, <3>1
    <3>3. QED
      BY <2>3, <3>1, <3>2 DEF earned
<1>3. QED
  BY <1>1, <1>2, RateNext, LedgerBalances, PTL DEF ChanSpec
=============================================================================
