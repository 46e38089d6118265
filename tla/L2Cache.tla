-------------------------------- MODULE L2Cache --------------------------------
(***************************************************************************)
(* One slice of the L2 data cache (L2DataCache over DataCache): a set of a *)
(* sector or line cache that allocates on a miss, its MSHRs and its miss   *)
(* queue, between the crossbar and a memory that answers in any order.     *)
(* One cycle is a loop of port slots; a slot accesses, then drains one     *)
(* MSHR response and delivers one reply.  Between the cycles requests      *)
(* arrive and memory responses are pushed.  The write policies, the kind   *)
(* of cache and its sizes are those of the configuration string.           *)
(***************************************************************************)
EXTENDS Naturals, Sequences, SequencesExt, FiniteSetsExt

CONSTANTS
  Requests,      (* mem_fetch objects of the cores, GLOBAL_ACC_R or _W     *)
  Cores,
  BlockOf, SectorOf, CoreOf, Writes, Cacheable,      (* of a request       *)
  Blocks,        (* line addresses that map to this set                    *)
  Sectors,       (* SECTOR_CHUNCK_SIZE                                     *)
  Ways,          (* m_assoc                                                *)
  Setups,        (* configurations, see CacheAssumption                    *)
  MissQueueSize,
  ReadPorts, WritePorts,
  None

Slots == (ReadPorts + WritePorts) * Cardinality(Cores)
Keys == Blocks \X Sectors

(* A configuration: write back, through or evict; whether a write miss     *)
(* allocates; sectored or not; the MSHRs and how many requests one holds;  *)
(* whether the memory reorders; the requests of the run; and what the tag  *)
(* of a line never allocated, which is not initialised, may hold.          *)
ASSUME CacheAssumption ==
  /\ {Ways, MissQueueSize, ReadPorts, WritePorts} \subseteq Nat \ {0}
  /\ Setups \subseteq [write : {"B", "T", "E"}, allocate : BOOLEAN, sectored : BOOLEAN,
                       entries : Nat \ {0}, merge : Nat \ {0}, reorders : BOOLEAN,
                       load : SUBSET Requests, fresh : SUBSET (Blocks \cup {None})]
  /\ Writes \subseteq Requests /\ Cacheable \subseteq Requests
  /\ BlockOf \in [Requests -> Blocks] /\ CoreOf \in [Requests -> Cores]
  /\ SectorOf \in [Requests -> Sectors]
  /\ Sectors \subseteq Nat /\ Sectors # {} /\ IsFiniteSet(Sectors)

(* A mem_fetch is a core's request, the read of a write-allocate           *)
(* (L2_CACHE_WA) or a write-back of an evicted line (L2_CACHE_WB).         *)
Core(r) == [kind |-> "core", of |-> r]
Alloc(r) == [kind |-> "alloc", of |-> r]
Back(b) == [kind |-> "back", of |-> b]

VARIABLES
  setup,       (* m_config, which nothing changes                          *)
  pc, slot,    (* where L2DataCache::cycle is: step and iteration          *)
  arrived,     (* requests that have come out of the interconnect          *)
  fromXbar,    (* l_from_xbar_queue                                        *)
  ports,       (* read_port and write_port                                 *)
  line,        (* m_lines: tag and m_status of each sector                 *)
  mshr,        (* m_table                                                  *)
  ready,       (* m_current_response                                       *)
  extra,       (* m_extra_mf_fields: m_block_addr and m_cache_index        *)
  missQ,       (* m_miss_queue                                             *)
  mem,         (* l_to_mem_queue and the memory behind it                  *)
  latencyQ,    (* l_from_cache_queue                                       *)
  replies,     (* how often a request was given to l_to_xbar_queue         *)
  fault,       (* an assert has failed                                     *)
  source       (* history: the block whose data a sector was last given    *)

tagVars == <<line, source>>
mshrVars == <<mshr, ready, extra>>
vars == <<setup, pc, slot, arrived, fromXbar, ports, tagVars, mshrVars, missQ, mem,
          latencyQ, replies, fault>>

(* get_mshr_addr: a line is one sector when the cache is not sectored. *)
Key(r) == <<BlockOf[r], IF setup.sectored THEN SectorOf[r] ELSE Min(Sectors)>>

Invalid == [s \in Sectors |-> "INVALID"]
NoPorts == [c \in Cores |-> [read |-> 0, write |-> 0]]

Init ==
  /\ setup \in Setups
  /\ pc = "idle" /\ slot = 0
  /\ arrived = {} /\ fromXbar = <<>> /\ ports = NoPorts
  /\ line \in [1 .. Ways -> [tag : setup.fresh, status : {Invalid}]]
  /\ mshr = <<>> /\ ready = <<>> /\ extra = <<>>
  /\ missQ = <<>> /\ mem = <<>> /\ latencyQ = <<>>
  /\ replies = [r \in Requests |-> 0]
  /\ fault = FALSE
  /\ source = [w \in 1 .. Ways |-> [s \in Sectors |-> None]]

-----------------------------------------------------------------------------
(* TagArray *)

IsInvalidLine(w) == line[w].status = Invalid
IsReservedLine(w) == \E s \in Sectors : line[w].status[s] = "RESERVED"
IsModifiedLine(w) == \E s \in Sectors : line[w].status[s] = "MODIFIED"
DirtyMask(w) == {s \in Sectors : line[w].status[s] = "MODIFIED"}
ModifiedSize(w) == Cardinality(DirtyMask(w))                 (* in sectors *)

(* TagArray::probe.  A line with the tag answers unless all its sectors    *)
(* are invalid; otherwise a line is chosen to hold the block: an invalid   *)
(* one if there is any, else the LRU one (any here), never a reserved one  *)
(* nor one with the tag.                                                   *)
StatusOf(state) == CASE state = "RESERVED" -> "HIT_RESERVED"
                     [] state = "INVALID"  -> "SECTOR_MISS"
                     [] OTHER              -> "HIT"

Probes(k) ==
  LET matching == {w \in 1 .. Ways : line[w].tag = k[1] /\ ~IsInvalidLine(w)}
      free == {w \in 1 .. Ways : line[w].tag # k[1] /\ ~IsReservedLine(w)}
      invalid == {w \in free : IsInvalidLine(w)}
  IN CASE matching # {} -> LET w == Min(matching)
                           IN {[status |-> StatusOf(line[w].status[k[2]]), way |-> w]}
       [] matching = {} /\ free = {} -> {[status |-> "RESERVATION_FAIL", way |-> 1]}
       [] OTHER -> {[status |-> "MISS", way |-> w] :
                       w \in IF invalid # {} THEN {Max(invalid)} ELSE free}

(* SectorCacheBlock::allocate leaves every sector invalid; allocate_sector *)
(* reserves one; LineCacheBlock::allocate reserves the line.  A faulty one *)
(* leaves the line as the sector cache does.                               *)
SectorAllocated(k) == [tag |-> k[1], status |-> Invalid]
AllocateSector(w, s) == [line EXCEPT ![w].status[s] = "RESERVED"]
LineAllocated_Invalid(k) == [tag |-> k[1], status |-> Invalid]
LineAllocated(k) == [tag |-> k[1], status |-> [Invalid EXCEPT ![k[2]] = "RESERVED"]]

(* TagArray::access *)
Access(p, k) ==
  line' = CASE p.status = "MISS" ->
                 [line EXCEPT ![p.way] = IF setup.sectored THEN SectorAllocated(k)
                                                           ELSE LineAllocated(k)]
            [] p.status = "SECTOR_MISS" -> AllocateSector(p.way, k[2])
            [] OTHER -> line

(* set_status of the sector an access is for *)
SetStatus(p, k, state) == line' = [line EXCEPT ![p.way].status[k[2]] = state]

-----------------------------------------------------------------------------
(* MshrTable and the miss path of DataCache *)

Full(k) == IF k \in DOMAIN mshr THEN Len(mshr[k]) >= setup.merge
                                ELSE Cardinality(DOMAIN mshr) >= setup.entries
Merge(k, f) ==
  IF k \in DOMAIN mshr THEN [mshr EXCEPT ![k] = Append(@, f)]
  ELSE [j \in DOMAIN mshr \cup {k} |-> IF j = k THEN <<f>> ELSE mshr[j]]

(* miss_queue_full compares with >; a faulty one ignores how many entries  *)
(* are asked for.                                                          *)
MissQueueFull_Once(q, n) == Len(q) > MissQueueSize
MissQueueFull(q, n) == Len(q) + n > MissQueueSize

CanRead(k, q) == ~Full(k) /\ (k \in DOMAIN mshr \/ ~MissQueueFull(q, 0))

(* write_back: one request for each modified sector, whatever room is left *)
WriteBacks(p) == IF p.status = "MISS" /\ IsModifiedLine(p.way) /\ setup.write # "T"
                 THEN [i \in 1 .. ModifiedSize(p.way) |-> Back(line[p.way].tag)]
                 ELSE <<>>

(* send_read_request of fetch f, the miss queue being q by now *)
SendRead(f, k, p, q) ==
  /\ Access(p, k)
  /\ mshr' = Merge(k, f)
  /\ IF k \in DOMAIN mshr
     THEN extra' = extra /\ missQ' = q \o WriteBacks(p)
     ELSE /\ extra' = [g \in DOMAIN extra \cup {f} |->
                         IF g = f THEN [key |-> k, way |-> p.way] ELSE extra[g]]
          /\ missQ' = Append(q, f) \o WriteBacks(p)

-----------------------------------------------------------------------------
(* L2DataCache *)

Arrive(r) ==
  /\ pc = "idle"
  /\ r \in setup.load \ arrived
  /\ arrived' = arrived \cup {r}
  /\ fromXbar' = Append(fromXbar, r)
  /\ UNCHANGED <<setup, pc, slot, ports, tagVars, mshrVars, missQ, mem, latencyQ, replies, fault>>

(* Cache::cycle passes one request on. *)
PassMissOn == IF missQ = <<>> THEN UNCHANGED <<missQ, mem>>
                              ELSE missQ' = Tail(missQ) /\ mem' = Append(mem, Head(missQ))

(* L2DataCache::cycle: Cache::cycle, then clear_port *)
StartCycle ==
  /\ pc = "idle"
  /\ pc' = "access" /\ slot' = 1
  /\ ports' = NoPorts
  /\ PassMissOn
  /\ UNCHANGED <<setup, arrived, fromXbar, tagVars, mshrVars, latencyQ, replies, fault>>

(* The next iteration of the loop. *)
NextSlot == IF slot = Slots THEN pc' = "idle" /\ slot' = 0
                            ELSE pc' = "access" /\ slot' = slot + 1

(* port_free counts the request even when it refuses it. *)
Counted(r) == IF r \in Writes THEN [ports EXCEPT ![CoreOf[r]].write = @ + 1]
                                ELSE [ports EXCEPT ![CoreOf[r]].read = @ + 1]
PortFree(r) == IF r \in Writes THEN ports[CoreOf[r]].write < WritePorts
                               ELSE ports[CoreOf[r]].read < ReadPorts

NothingToAccess ==
  /\ pc = "access" /\ fromXbar = <<>>
  /\ pc' = "drain"
  /\ UNCHANGED <<setup, slot, arrived, fromXbar, ports, tagVars, mshrVars, missQ, mem,
                 latencyQ, replies, fault>>

(* The continue: the slot drains and delivers nothing. *)
PortBusy ==
  /\ pc = "access" /\ fromXbar # <<>>
  /\ Head(fromXbar) \in Cacheable /\ ~PortFree(Head(fromXbar))
  /\ ports' = Counted(Head(fromXbar))
  /\ NextSlot
  /\ UNCHANGED <<setup, arrived, fromXbar, tagVars, mshrVars, missQ, mem, latencyQ, replies, fault>>

Uncacheable ==
  /\ pc = "access" /\ fromXbar # <<>>
  /\ Head(fromXbar) \notin Cacheable
  /\ pc' = "drain"
  /\ fromXbar' = Tail(fromXbar)
  /\ mem' = Append(mem, Core(Head(fromXbar)))
  /\ UNCHANGED <<setup, slot, arrived, ports, tagVars, mshrVars, missQ, latencyQ, replies, fault>>

(* What every access to the cache does besides its outcome. *)
Accessing(r) ==
  /\ pc = "access" /\ fromXbar # <<>>
  /\ r = Head(fromXbar)
  /\ r \in Cacheable /\ PortFree(r)
  /\ pc' = "drain"
  /\ ports' = Counted(r)
  /\ UNCHANGED <<setup, slot, arrived, mem, ready, replies>>

(* RESERVATION_FAIL: the request stays and is tried again. *)
Retry == UNCHANGED <<fromXbar, tagVars, mshr, extra, missQ, latencyQ, fault>>

(* Any other outcome takes the request from the queue. *)
Takes(r) == fromXbar' = Tail(fromXbar) /\ fault' = fault

(* A hit goes to the latency queue; a request that was sent to memory is   *)
(* answered by the memory.                                                 *)
AnswerHit(r) == latencyQ' = Append(latencyQ, Core(r))
AnswerOfMemory(r) == latencyQ' = latencyQ

send_write_request(f) == missQ' = Append(missQ, f)

SetSource(p, k) == source' = [source EXCEPT ![p.way][k[2]] = k[1]]

rd_hit_base(r, p) ==
  /\ Takes(r) /\ AnswerHit(r)
  /\ UNCHANGED <<tagVars, mshr, extra, missQ>>

wr_hit_wb(r, p) ==
  /\ Takes(r) /\ AnswerHit(r)
  /\ SetStatus(p, Key(r), "MODIFIED") /\ SetSource(p, Key(r))
  /\ UNCHANGED <<mshr, extra, missQ>>

wr_hit_wt(r, p) ==
  \/ MissQueueFull(missQ, 0) /\ Retry
  \/ /\ ~MissQueueFull(missQ, 0)
     /\ Takes(r) /\ AnswerOfMemory(r)
     /\ SetStatus(p, Key(r), "MODIFIED") /\ SetSource(p, Key(r))
     /\ send_write_request(Core(r))
     /\ UNCHANGED <<mshr, extra>>

wr_hit_we(r, p) ==
  \/ MissQueueFull(missQ, 0) /\ Retry
  \/ /\ ~MissQueueFull(missQ, 0)
     /\ Takes(r) /\ AnswerOfMemory(r)
     /\ send_write_request(Core(r))
     /\ SetStatus(p, Key(r), "INVALID")
     /\ UNCHANGED <<source, mshr, extra>>

rd_miss_base(r, p) ==
  LET room == ~MissQueueFull(missQ, 1) /\ CanRead(Key(r), missQ) IN
  \/ ~room /\ Retry
  \/ /\ room
     /\ SendRead(Core(r), Key(r), p, missQ)
     /\ Takes(r)
     /\ UNCHANGED <<latencyQ, source>>

(* The write goes to memory, then the sector is read.  Were the read       *)
(* refused, the write would be sent again: cycle asserts that a request to *)
(* be tried again has sent nothing.                                        *)
wr_miss_wa_naive(r, p) ==
  LET room == ~MissQueueFull(missQ, 2) /\ ~Full(Key(r))
      sent == Append(missQ, Core(r))
  IN \/ ~room /\ Retry
     \/ /\ room
        /\ IF CanRead(Key(r), sent)
           THEN SendRead(Alloc(r), Key(r), p, sent) /\ Takes(r)
           ELSE /\ missQ' = sent /\ fault' = TRUE
                /\ UNCHANGED <<fromXbar, line, mshr, extra>>
        /\ UNCHANGED <<latencyQ, source>>

wr_miss_no_wa(r, p) ==
  \/ MissQueueFull(missQ, 0) /\ Retry
  \/ /\ ~MissQueueFull(missQ, 0)
     /\ Takes(r) /\ AnswerOfMemory(r)
     /\ send_write_request(Core(r))
     /\ UNCHANGED <<tagVars, mshr, extra>>

(* DataCache::init chooses what a write does. *)
m_wr_hit(r, p) ==
  \/ setup.write = "B" /\ wr_hit_wb(r, p)
  \/ setup.write = "T" /\ wr_hit_wt(r, p)
  \/ setup.write = "E" /\ wr_hit_we(r, p)
m_wr_miss(r, p) ==
  \/ setup.allocate /\ wr_miss_wa_naive(r, p)
  \/ ~setup.allocate /\ wr_miss_no_wa(r, p)

(* A write that allocates nothing does not mind that no line is free. *)
process_tag_probe(r, p) ==
  LET writes == r \in Writes
      stuck == p.status = "RESERVATION_FAIL" /\ (writes => setup.allocate)
  IN \/ p.status = "HIT" /\ writes /\ m_wr_hit(r, p)
     \/ p.status = "HIT" /\ ~writes /\ rd_hit_base(r, p)
     \/ p.status # "HIT" /\ ~stuck /\ writes /\ m_wr_miss(r, p)
     \/ p.status # "HIT" /\ ~stuck /\ ~writes /\ rd_miss_base(r, p)
     \/ stuck /\ Retry

CacheAccess(r, p) == Accessing(r) /\ process_tag_probe(r, p)

TopNextAccess(k) == Head(mshr[k])

(* pop_next_access; a faulty one leaves a merged request in the list. *)
Popped_Stays(k) == IF Len(mshr[k]) > 1 THEN [mshr EXCEPT ![k] = <<@[1]>>]
                   ELSE [j \in DOMAIN mshr \ {k} |-> mshr[j]]
Popped(k) == IF Len(mshr[k]) > 1 THEN [mshr EXCEPT ![k] = Tail(@)]
             ELSE [j \in DOMAIN mshr \ {k} |-> mshr[j]]

(* What leaves the cache goes back to the crossbar if a core sent it. *)
Reply(f) == IF f.kind = "core" THEN [replies EXCEPT ![f.of] = @ + 1] ELSE replies

(* The rest of a slot: one response is drained from the MSHRs into the     *)
(* latency queue, and the head of that queue delivered if its latency is   *)
(* over (out).                                                             *)
DrainAndDeliver(out) ==
  /\ pc = "drain"
  /\ NextSlot
  /\ LET k == Head(ready)
         queue == IF ready = <<>> THEN latencyQ ELSE Append(latencyQ, TopNextAccess(k))
     IN /\ IF ready = <<>> THEN UNCHANGED <<mshr, ready>>
           ELSE /\ mshr' = Popped(k)
                /\ ready' = IF Len(mshr[k]) > 1 THEN ready ELSE Tail(ready)
        /\ IF out THEN /\ queue # <<>>
                       /\ latencyQ' = Tail(queue)
                       /\ replies' = Reply(Head(queue))
           ELSE latencyQ' = queue /\ replies' = replies
  /\ UNCHANGED <<setup, arrived, fromXbar, ports, tagVars, extra, missQ, mem, fault>>

(* MshrTable::mark_ready; a faulty one wakes nobody. *)
Marked_Nobody(k) == ready
Marked(k) == Append(ready, k)

(* m_extra_mf_fields.erase *)
Erased(f) == [g \in DOMAIN extra \ {f} |-> extra[g]]

WaitingForFill(f) == f \in DOMAIN extra

(* Cache::fill of the line that was allocated for the fetch.  The sector   *)
(* is never set to become modified on fill: it is invalid when reserved.   *)
Filled(w, s) == [line EXCEPT ![w].status[s] = "VALID"]
TagFill(x) ==
  /\ line' = Filled(x.way, x.key[2])
  /\ source' = [source EXCEPT ![x.way][x.key[2]] = x.key[1]]

Fill(f) ==
  LET x == extra[f] IN
  /\ TagFill(x)
  /\ ready' = Marked(x.key)
  /\ extra' = Erased(f)

(* L2DataCache::push of a response of memory *)
Push(i) ==
  /\ pc = "idle"
  /\ mem' = RemoveAt(mem, i)
  /\ IF WaitingForFill(mem[i]) THEN Fill(mem[i]) /\ UNCHANGED replies
     ELSE replies' = Reply(mem[i]) /\ UNCHANGED <<tagVars, ready, extra>>
  /\ UNCHANGED <<setup, pc, slot, arrived, fromXbar, ports, mshr, missQ, latencyQ, fault>>

(* Ramulator2 reorders requests, SimpleDRAM does not. *)
Answering == IF setup.reorders THEN DOMAIN mem ELSE DOMAIN mem \cap {1}

Cycle ==
  \/ StartCycle
  \/ NothingToAccess \/ PortBusy \/ Uncacheable
  \/ \E r \in Requests : \E p \in Probes(Key(r)) : CacheAccess(r, p)
  \/ \E out \in BOOLEAN : DrainAndDeliver(out)

Next ==
  \/ \E r \in Requests : Arrive(r)
  \/ Cycle
  \/ \E i \in Answering : Push(i)

Spec == Init /\ [][Next]_vars

(* The simulator keeps cycling the slice, DRAM answers its oldest request  *)
(* in the end, and a latency ends.                                         *)
FairSpec == /\ Spec
            /\ WF_vars(Cycle)
            /\ SF_vars(mem # <<>> /\ Push(1))
            /\ SF_vars(DrainAndDeliver(TRUE))

-----------------------------------------------------------------------------
(* A core gets one response for a request, be it a hit, a miss merged with *)
(* others, a write sent on or an uncached access.                          *)
OneReply == \A r \in Requests : replies[r] <= 1

(* No request waits in an MSHR that nothing will wake: the entry is either *)
(* about to be drained or the one fetch that fills it is on its way, and   *)
(* of neither are there two.                                               *)
Outstanding(k) == {f \in DOMAIN extra : extra[f].key = k}
MshrBacked ==
  \A k \in Keys :
    Cardinality(Outstanding(k)) + Cardinality({i \in DOMAIN ready : ready[i] = k})
      = IF k \in DOMAIN mshr THEN 1 ELSE 0

(* The asserts of L2DataCache::cycle hold: a request that is to be tried   *)
(* again has sent nothing.                                                 *)
RetrySentNothing == ~fault

(* Every request that comes out of the crossbar is answered, whatever the   *)
(* requests before and after it need: those ahead of it in the queue find   *)
(* a line, an MSHR and room in the miss queue in the end.  One state spoils *)
(* it: when every way carries the tag of one block and nothing of it is     *)
(* valid, the block is never given a line (fresh tags are not initialised,  *)
(* and a write evict leaves the tag behind).                                *)
Unplaceable(b) == \A w \in 1 .. Ways : line[w].tag = b /\ IsInvalidLine(w)
ArrivedIsAnswered ==
  \A r \in Requests :
    r \in arrived ~> (replies[r] = 1 \/ \E b \in Blocks : Unplaceable(b))

(* Cache_defs.h: a line is VALID because the data of its block has been     *)
(* filled into it.  A line cache reserves the line for the fetch, so that   *)
(* no other block takes it while the data is on its way; a sector cache     *)
(* does not.                                                                *)
LineFilledByOwnData ==
  ~setup.sectored =>
    \A w \in 1 .. Ways : \A s \in Sectors :
      line[w].status[s] = "VALID" => source[w][s] = line[w].tag

-----------------------------------------------------------------------------
(* The inductive invariant of L2CacheProofs.  Fetches: the mem_fetch       *)
(* objects that stand for an access; write-backs stand for none and may    *)
(* repeat.                                                                 *)
Fetches == [kind : {"core", "alloc"}, of : Requests]
Backs == [kind : {"back"}, of : Blocks \cup {None}]
States == {"INVALID", "RESERVED", "VALID", "MODIFIED"}
Lines == [tag : Blocks \cup {None}, status : [Sectors -> States]]

TypeOK ==
  /\ setup \in Setups
  /\ pc \in {"idle", "access", "drain"} /\ slot \in Nat
  /\ arrived \subseteq Requests /\ fromXbar \in Seq(Requests)
  /\ ports \in [Cores -> [read : Nat, write : Nat]]
  /\ line \in [1 .. Ways -> Lines]
  /\ source \in [1 .. Ways -> [Sectors -> Blocks \cup {None}]]
  /\ DOMAIN mshr \subseteq Keys
  /\ \A k \in DOMAIN mshr : mshr[k] \in Seq(Fetches) /\ mshr[k] # <<>>
  /\ ready \in Seq(Keys)
  /\ DOMAIN extra \subseteq Fetches
  /\ \A f \in DOMAIN extra : extra[f] \in [key : Keys, way : 1 .. Ways]
  /\ missQ \in Seq(Fetches \cup Backs) /\ mem \in Seq(Fetches \cup Backs)
  /\ latencyQ \in Seq(Fetches)
  /\ replies \in [Requests -> Nat]

(* No access is queued twice.                                              *)
Once(q, S) == \A i, j \in DOMAIN q : q[i] = q[j] /\ q[i] \in S => i = j
NoneHeldTwice(table) ==
  \A k, l \in DOMAIN table : \A i \in DOMAIN table[k], j \in DOMAIN table[l] :
    table[k][i] = table[l][j] => k = l /\ i = j
QueueInv ==
  /\ Once(fromXbar, Requests)
  /\ Once(latencyQ, Fetches) /\ Once(missQ, Fetches) /\ Once(mem, Fetches)
  /\ NoneHeldTwice(mshr)

(* An access waits in the crossbar's queue (X), in the latency queue (L),  *)
(* in an MSHR (H) or for the memory to answer it (in the miss queue M or   *)
(* beyond, in D, and not among the fetches F that fill a line), or it has  *)
(* been answered (R).                                                      *)
Apart(A, X, L, H, M, D, F, R) ==
  /\ X \subseteq A /\ F \subseteq M \cup D
  /\ \A f \in L \cup H \cup M \cup D \cup R : f \in Fetches => f.of \in A \ X
  /\ M \cap D \cap Fetches = {} /\ L \cap H = {}
  /\ (L \cup H) \cap ((M \cup D) \ F) = {}
  /\ (L \cup H \cup ((M \cup D) \ F)) \cap R = {}

Held(table) == UNION {ToSet(table[k]) : k \in DOMAIN table}
Answered(count) == {f \in Fetches : f.kind = "core" /\ count[f.of] > 0}
PlaceInv == Apart(arrived, ToSet(fromXbar), ToSet(latencyQ), Held(mshr), ToSet(missQ),
                  ToSet(mem), DOMAIN extra, Answered(replies))

(* An MSHR is behind one fetch or one response that is ready.              *)
Backed(K, waits, marks) ==
  /\ \A f \in DOMAIN waits : waits[f].key \in K
  /\ \A f, g \in DOMAIN waits : waits[f].key = waits[g].key => f = g
  /\ \A i \in DOMAIN marks : marks[i] \in K
  /\ \A i, j \in DOMAIN marks : marks[i] = marks[j] => i = j
  /\ \A f \in DOMAIN waits, i \in DOMAIN marks : waits[f].key # marks[i]
  /\ \A k \in K : \/ \E f \in DOMAIN waits : waits[f].key = k
                  \/ \E i \in DOMAIN marks : marks[i] = k
MshrInv == Backed(DOMAIN mshr, extra, ready)

(* A line cache keeps the line of a fetch reserved for it.                 *)
Reserves(w, k) == line[w].tag = k[1] /\ line[w].status[k[2]] = "RESERVED"
LineInv ==
  ~setup.sectored => \A f \in DOMAIN extra : Reserves(extra[f].way, extra[f].key)

IInv == /\ TypeOK /\ QueueInv /\ PlaceInv /\ MshrInv /\ LineInv
        /\ OneReply /\ RetrySentNothing /\ LineFilledByOwnData
=============================================================================
