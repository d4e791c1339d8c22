------------------------------ MODULE Histogram -----------------------------
(***************************************************************************)
(* The latency histogram of include/tradecore/telemetry: a histogram is a  *)
(* record, record() and percentile() are operators on it.                  *)
(*                                                                         *)
(* Counts do not reach 2^64.  The rank of a percentile is a product of     *)
(* doubles cut off to an integer: where the exact product is an integer,   *)
(* the double may be just below it (0.29 * 100 is), so that the rank is    *)
(* one of two.                                                             *)
(***************************************************************************)
EXTENDS Integers

CONSTANTS
    MaxValueNs,  \* values below it have a bucket each
    NoMinimum    \* 2^64 - 1 in the code, above every value

Buckets == 0..(MaxValueNs - 1)

Histogram == [buckets : [Buckets -> Nat], overflow_count : Nat, count : Nat,
              sum_ns : Nat, max_ns : Nat, min_ns : Nat]

\* What reset() leaves.
EmptyHistogram == [buckets |-> [v \in Buckets |-> 0], overflow_count |-> 0, count |-> 0,
                   sum_ns |-> 0, max_ns |-> 0, min_ns |-> NoMinimum]

Record(h, value) ==
    [buckets        |-> IF value \in Buckets THEN [h.buckets EXCEPT ![value] = @ + 1]
                        ELSE h.buckets,
     overflow_count |-> h.overflow_count + (IF value \in Buckets THEN 0 ELSE 1),
     count          |-> h.count + 1,
     sum_ns         |-> h.sum_ns + value,
     max_ns         |-> IF value > h.max_ns THEN value ELSE h.max_ns,
     min_ns         |-> IF value < h.min_ns THEN value ELSE h.min_ns]

Minimum(h) == IF h.count = 0 THEN 0 ELSE h.min_ns
Maximum(h) == IF h.count = 0 THEN 0 ELSE h.max_ns

\* The sum of the buckets up to v.
Cumulative(h, v) ==
    LET upto[w \in Buckets] == h.buckets[w] + (IF w = 0 THEN 0 ELSE upto[w - 1])
    IN  upto[v]

\* A rank of 0 is left at 0.
RanksUnraised(h, p) ==
    {(p * h.count) \div 100, (p * h.count - 1) \div 100}

\* target_count: the cut-off rank, at least 1.
Ranks(h, p) ==
    {IF rank <= 0 THEN 1 ELSE rank :
        rank \in {(p * h.count) \div 100, (p * h.count - 1) \div 100}}

\* percentile(p) of a whole p, with one of the ranks it may compute.
Percentile(h, p, rank) ==
    LET reached == {v \in Buckets : Cumulative(h, v) >= rank}
    IN  IF h.count = 0 THEN 0
        ELSE IF p <= 0 THEN Minimum(h)
        ELSE IF p >= 100 THEN Maximum(h)
        ELSE IF reached = {} THEN Maximum(h)
        ELSE CHOOSE v \in reached : \A w \in reached : v <= w
=============================================================================
