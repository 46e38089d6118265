------------------------------ MODULE DramAddress ------------------------------
(***************************************************************************)
(* Which channel serves a transaction: Dram::get_channel_id and the        *)
(* polynomial hash of Hashing.cc.  A transaction is the address divided by *)
(* the request size (raw_addr >> _tx_log2).                                *)
(***************************************************************************)
EXTENDS Integers, FiniteSets, Sequences, FiniteSetsExt

Bit(x, i) == (x \div 2^i) % 2
Log2(n) == CHOOSE w \in 0 .. 31 : 2^w <= n /\ n < 2^(w + 1)   (* floor_log2_u32 *)
NextPowerOf2(n) == 2^(IF 2^Log2(n) = n THEN Log2(n) ELSE Log2(n) + 1)

(* The bits of the high part that each bit of the index is xored with.     *)
Taps16 == <<{11, 10, 9, 8, 6, 4, 3, 0}, {12, 8, 7, 6, 5, 3, 1, 0},
            {9, 8, 7, 6, 4, 2, 1}, {10, 9, 8, 7, 5, 3, 2}>>
Taps32 == <<{13, 12, 11, 10, 9, 6, 5, 3, 0}, {14, 13, 12, 11, 10, 7, 6, 4, 1},
            {14, 10, 9, 8, 7, 6, 3, 2, 0}, {11, 10, 9, 8, 7, 4, 3, 1},
            {12, 11, 10, 9, 8, 5, 4, 2}>>
Taps64 == <<{18, 17, 16, 15, 12, 10, 6, 5, 0}, {15, 13, 12, 11, 10, 7, 5, 1, 0},
            {16, 14, 13, 12, 11, 8, 6, 2, 1}, {17, 15, 14, 13, 12, 9, 7, 3, 2},
            {18, 16, 15, 14, 13, 10, 8, 4, 3}, {17, 16, 15, 14, 11, 9, 5, 4}>>

Taps(n) == CASE n = 16 -> Taps16 [] n = 32 -> Taps32 [] n = 64 -> Taps64

(* The xor of the tapped bits of high with one bit of the index. *)
HashBit(high, index, n, k) ==
  (Cardinality({t \in Taps(n)[k + 1] : Bit(high, t) = 1}) + Bit(index, k)) % 2

ipoly_hash_function(high, index, n) ==
  MapThenSumSet(LAMBDA k : 2^k * HashBit(high, index, n, k), 0 .. Log2(n) - 1)

(* The hash knows 16, 32 and 64 channels; other counts fold one of these.  *)
PolyOf(n) == Min({64, NextPowerOf2(Max({16, n}))})
ChannelInPartition(tx, n) ==
  IF n = 1 THEN 0 ELSE ipoly_hash_function(tx \div n, tx % n, PolyOf(n)) % n

(* get_channel_id of a transaction of a NUMA node *)
get_channel_id(tx, numa, n, partitions) ==
  ChannelInPartition(tx, n) + (numa % partitions) * n

(* partition_dram_address: the transaction inside its channel, which       *)
(* Ramulator sees instead of the address                                   *)
partition_dram_address(tx, n) == tx \div n
-----------------------------------------------------------------------------
(* Arithmetic of polynomials over GF(2), as sets of exponents.             *)
Modulus(n) == CASE n = 16 -> {4, 1, 0} [] n = 32 -> {5, 2, 0} [] n = 64 -> {6, 1, 0}

(* The remainder of x^e by the modulus. *)
Residue(n) ==
  LET r[e \in Nat] ==
        IF e = 0 THEN {0}
        ELSE LET shifted == {k + 1 : k \in r[e - 1]} IN
             IF Log2(n) \in shifted THEN SymDiff(shifted, Modulus(n)) ELSE shifted
  IN r

(* The remainder of a polynomial: the sum of those of its terms. *)
ResidueOf(S, n) ==
  {k \in 0 .. Log2(n) - 1 : Cardinality({e \in S : k \in Residue(n)[e]}) % 2 = 1}

BitsOf(x) == {i \in 0 .. 24 : Bit(x, i) = 1}

(* Transactions with up to three bits set, of those the equations reach.   *)
Samples(n) ==
  LET top == Log2(n) + (CASE n = 16 -> 12 [] n = 32 -> 14 [] n = 64 -> 18)
      power == {2^i : i \in 0 .. top}
  IN {a + b + c : a, b, c \in power} \cap 0 .. 2^(top + 1) - 1

(* The equations of the hash are the remainder of the transaction number   *)
(* by IPOLY(19), IPOLY(37) and IPOLY(67), which is what spreads every      *)
(* power-of-two stride over all channels: one wrong or missing tap would   *)
(* leave some stride with half of them and no test would notice.           *)
HashIsResidue ==
  \A n \in {16, 32, 64} : \A tx \in Samples(n) :
    BitsOf(ChannelInPartition(tx, n)) = ResidueOf(BitsOf(tx), n)

(* With a power of two of channels, folded hashes included, the channel    *)
(* and the address inside it still tell every two transactions apart.      *)
AddressKept ==
  \A n \in {1, 2, 4, 8, 16} : \A t, u \in 0 .. 4 * n :
    /\ ChannelInPartition(t, n) = ChannelInPartition(u, n)
    /\ partition_dram_address(t, n) = partition_dram_address(u, n)
    => t = u
=============================================================================
