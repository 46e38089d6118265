------------------------------ MODULE DramChannel ------------------------------
(***************************************************************************)
(* SimpleDRAM: the channels of the fixed-latency memory with their byte    *)
(* credit, each a DelayQueue, cycled by the clock of the memory while the  *)
(* cache in front of them is cycled by the clock of the cores.             *)
(***************************************************************************)
EXTENDS ClockDomains, Sequences, FiniteSets

CONSTANTS
  Txs,      (* the transactions of a run                                   *)
  Chans,    (* channels                                                    *)
  ChanOf,   (* get_channel_id of a transaction, see DramAddress            *)
  ReqSize,  (* _req_size                                                   *)
  Rate,     (* _bytes_per_dram_cycle; 0 when no bandwidth is configured    *)
  Latency,  (* _latency                                                    *)
  MaxRefusals (* bound for model checking: refused answers                 *)

ASSUME ChannelAssumption ==
  /\ {"core", "dram"} \subseteq Domains
  /\ ChanOf \in [Txs -> Chans]
  /\ ReqSize \in Nat \ {0}
  /\ {Rate, Latency, MaxRefusals} \subseteq Nat

VARIABLES
  pc,       (* where the round of Simulator::cycle is                      *)
  toMem,    (* l_to_mem_queue of the cache in front of each channel        *)
  mem,      (* the DelayQueue of each channel: m_queue                     *)
  m_cycle,  (* DelayQueue::m_cycle, the same in every channel              *)
  credit,   (* _bw_credit_bytes                                            *)
  sent,     (* transactions that have reached the memory, a history        *)
  admitted, (* what each channel has admitted, in order: a history of      *)
            (* records of the transaction and its cycle                    *)
  answered, (* what it has answered, likewise                              *)
  busy,     (* since the queue of a channel was last empty: the cycles,    *)
            (* the requests admitted and the credit before, a history      *)
  refusals  (* cycles in which the cache did not take an answer, a history *)

chanVars == <<toMem, mem, m_cycle, credit, sent, admitted, answered, busy, refusals>>
allVars == <<vars, pc, chanVars>>

ChanInit ==
  /\ Init
  /\ pc = "mask"
  /\ toMem = [c \in Chans |-> <<>>]
  /\ mem = toMem /\ admitted = toMem /\ answered = toMem
  /\ m_cycle = 0
  /\ credit = [c \in Chans |-> 2 * ReqSize]
  /\ sent = {}
  /\ busy = [c \in Chans |-> [cycles |-> 0, count |-> 0, start |-> 2 * ReqSize]]
  /\ refusals = [c \in Chans |-> 0]

Round ==
  /\ pc = "mask"
  /\ set_cycle_mask
  /\ pc' = "core"
  /\ UNCHANGED chanVars

(* core_cycle ends with cache_cycle: NoL2Cache moves a request per channel. *)
CacheCycle ==
  /\ pc = "core"
  /\ pc' = "dram"
  /\ \E A \in SUBSET (Txs \ sent) :
       /\ "core" \in mask \/ A = {}
       /\ \A s, t \in A : ChanOf[s] = ChanOf[t] => s = t
       /\ sent' = sent \cup A
       /\ toMem' = [c \in Chans |->
            IF \E t \in A : ChanOf[t] = c
            THEN Append(toMem[c], CHOOSE t \in A : ChanOf[t] = c) ELSE toMem[c]]
  /\ UNCHANGED <<vars, mem, m_cycle, credit, admitted, answered, busy, refusals>>

(* A faulty channel that admits whatever the credit is. *)
Admits_Uncapped(cr) == TRUE

(* if (_bw_credit_bytes[ch] < need) admit = false *)
Admits(cr) == Rate > 0 => cr >= ReqSize

(* A faulty channel that spends all it has on one request. *)
Spent_All(cr) == 0

Spent(cr) == IF Rate > 0 THEN cr - ReqSize ELSE cr

(* A faulty entry that is ready a cycle early. *)
Entry_Early(t, now) == [tx |-> t, at |-> now + Latency - 1]

(* DelayQueue::push *)
Entry(t, now) == [tx |-> t, at |-> now + Latency]

(* DelayQueue::arrived *)
Arrived(q, now) == q # <<>> /\ Head(q).at <= now

(* The history counts a cycle with n requests admitted. *)
Counted(b, n) == [cycles |-> b.cycles + 1, count |-> b.count + n, start |-> b.start]

(* SimpleDRAM::cycle; the caches of the channels in R take no answer, which *)
(* happens when the fill port of the cache is busy.                        *)
DramCycle(R) ==
  LET now == m_cycle + 1
      refilled == [c \in Chans |-> credit[c] + Rate]
      adm == {c \in Chans : toMem[c] # <<>> /\ Admits(refilled[c])}
      queued == [c \in Chans |->
        IF c \in adm THEN Append(mem[c], Entry(Head(toMem[c]), now)) ELSE mem[c]]
      done == {c \in Chans : Arrived(queued[c], now)}
  IN /\ pc = "dram" /\ "dram" \in mask
     /\ pc' = "mask"
     /\ m_cycle' = now
     /\ credit' = [c \in Chans |->
          IF c \in adm THEN Spent(refilled[c]) ELSE refilled[c]]
     /\ toMem' = [c \in Chans |-> IF c \in adm THEN Tail(toMem[c]) ELSE toMem[c]]
     /\ R \subseteq done
     /\ \A c \in R : refusals[c] < MaxRefusals
     /\ mem' = [c \in Chans |-> IF c \in done \ R THEN Tail(queued[c]) ELSE queued[c]]
     /\ admitted' = [c \in Chans |->
          IF c \in adm THEN Append(admitted[c], [tx |-> Head(toMem[c]), at |-> now])
          ELSE admitted[c]]
     /\ answered' = [c \in Chans |->
          IF c \in done \ R THEN Append(answered[c], [tx |-> Head(queued[c]).tx, at |-> now])
          ELSE answered[c]]
     /\ busy' = [c \in Chans |->
          IF toMem[c] = <<>> THEN [cycles |-> 0, count |-> 0, start |-> refilled[c]]
          ELSE Counted(busy[c], IF c \in adm THEN 1 ELSE 0)]
     /\ refusals' = [c \in Chans |-> IF c \in R THEN refusals[c] + 1 ELSE refusals[c]]
     /\ UNCHANGED <<vars, sent>>

NoDramCycle ==
  /\ pc = "dram" /\ "dram" \notin mask
  /\ pc' = "mask"
  /\ UNCHANGED <<vars, chanVars>>

ChanNext ==
  \/ Round
  \/ CacheCycle
  \/ \E R \in SUBSET Chans : DramCycle(R)
  \/ NoDramCycle

ChanSpec == ChanInit /\ [][ChanNext]_allVars
-----------------------------------------------------------------------------
(* A channel with a configured bandwidth never passes more bytes than two  *)
(* requests and what its cycles have earned, and its cycles are those the  *)
(* clock of the memory has given it: what SimpleDRAM::cycle admits is held *)
(* to the configured rate whatever the clocks of the cores do.             *)
BandwidthHeld ==
  /\ m_cycle = ticks["dram"] - (IF pc # "mask" /\ "dram" \in mask THEN 1 ELSE 0)
  /\ Rate > 0 => \A c \in Chans :
       ReqSize * Len(admitted[c]) <= 2 * ReqSize + Rate * m_cycle

(* The rate is also given: while requests wait without a gap, a channel    *)
(* admits one per cycle or as many as the credit it had when they began to *)
(* queue and what it has earned since pay for, less than one request short.*)
FullRate ==
  \A c \in Chans :
    LET b == busy[c] IN
    \/ b.count = b.cycles
    \/ Rate > 0 /\ (b.count + 1) * ReqSize > b.start + Rate * b.cycles

(* The answers of a channel come in the order of its requests, each        *)
(* exactly the latency after its admission but for the cycles in which the *)
(* cache refused an answer.                                                *)
LatencyKept ==
  \A c \in Chans : \A i \in 1 .. Len(answered[c]) :
    LET a == admitted[c][i]
        r == answered[c][i]
    IN /\ r.tx = a.tx
       /\ r.at >= a.at + Latency
       /\ r.at <= a.at + Latency + refusals[c]

(* The inductive invariant behind BandwidthHeld: the credit of a channel   *)
(* is a ledger of its start, its cycles and its requests.                  *)
TypeOK_Chan ==
  /\ pc \in {"mask", "core", "dram"}
  /\ mask \subseteq Domains
  /\ ticks \in [Domains -> Nat]
  /\ m_cycle \in Nat
  /\ credit \in [Chans -> Nat]
  /\ toMem \in [Chans -> Seq(Txs)]
  /\ admitted \in [Chans -> Seq([tx : Txs, at : Nat])]

InStep == m_cycle = ticks["dram"] - (IF pc # "mask" /\ "dram" \in mask THEN 1 ELSE 0)

Ledger ==
  Rate > 0 => \A c \in Chans :
    ReqSize * Len(admitted[c]) + credit[c] = 2 * ReqSize + Rate * m_cycle

LedgerInv == TypeOK_Chan /\ InStep /\ Ledger

(* The invariant behind LatencyKept, of one channel: a is what it has      *)
(* admitted up to now, r what it has answered, q the DelayQueue, which     *)
(* holds the rest in order, and late the answers refused.  The head of the *)
(* queue would be on time if it were answered in cycle due.                *)
TxAt == [tx : Txs, at : Nat]
InTime(a, r, q, late, now, due) ==
  /\ Len(a) = Len(r) + Len(q)
  /\ \A i \in 1 .. Len(q) :
       /\ q[i].tx = a[Len(r) + i].tx
       /\ q[i].at = a[Len(r) + i].at + Latency
  /\ \A i \in 1 .. Len(a) : a[i].at <= now
  /\ \A i, j \in 1 .. Len(a) : i < j => a[i].at < a[j].at
  /\ q # <<>> => Head(q).at + late >= due
  /\ \A i \in 1 .. Len(r) :
       /\ r[i].tx = a[i].tx
       /\ a[i].at + Latency <= r[i].at
       /\ r[i].at <= a[i].at + Latency + late

LatencyInv ==
  /\ mem \in [Chans -> Seq(TxAt)] /\ answered \in [Chans -> Seq(TxAt)]
  /\ refusals \in [Chans -> Nat]
  /\ \A c \in Chans :
       InTime(admitted[c], answered[c], mem[c], refusals[c], m_cycle, m_cycle + 1)

(* The invariant behind FullRate: the credit since the queue began to form *)
(* is a ledger too, and a rate of a request or more never waits.           *)
Queueing(b, cr) ==
  /\ Rate > 0 => ReqSize * b.count + cr = b.start + Rate * b.cycles
  /\ b.count = b.cycles \/ (0 < Rate /\ Rate < ReqSize /\ cr < ReqSize)

RateInv ==
  /\ busy \in [Chans -> [cycles : Nat, count : Nat, start : Nat]]
  /\ \A c \in Chans : Queueing(busy[c], credit[c])
=============================================================================
