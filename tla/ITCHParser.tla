----------------------------- MODULE ITCHParser -----------------------------
(***************************************************************************)
(* The bytes of an add-order message, as the exchange lays them out and as *)
(* parse_add_order of include/tradecore/parser/itch_parser.hpp reads them. *)
(* Replay takes a message at what parse delivers.                          *)
(*                                                                         *)
(* Abstractions: a byte is a digit to the base ByteBase; the symbol and    *)
(* the statistics are left out; the bytes after the 36th, which only 'F'   *)
(* messages have, are not read.                                            *)
(***************************************************************************)
EXTENDS Integers, Sequences, SequencesExt

CONSTANTS
    ByteBase,    \* 256 in the code
    Timestamps,  \* the exchange's timestamps, below ByteBase^6
    OrderRefs,   \* its order references, below ByteBase^8
    Numbers      \* its prices and share counts, below ByteBase^4

VARIABLES
    sent,    \* the message the exchange sent
    update   \* what parse() delivered for it

NoUpdate == [timestamp_ns |-> 0, order_id |-> 0, price |-> 0, qty |-> 0, side |-> 0]
-----------------------------------------------------------------------------
(* The exchange.  "Stock Locate (2), Tracking (2), Timestamp (6), Ref (8), *)
(* Side (1), Shares (4), Stock (8), Price (4)", big-endian.                *)

Message == [type : {"A", "F"}, timestamp : Timestamps, ref : OrderRefs,
            buysell : {"B", "S"}, shares : Numbers, price : Numbers]

\* The width lowest digits of n, the highest first.
Digits(n, width) == [i \in 1..width |-> (n \div ByteBase ^ (width - i)) % ByteBase]

Encode(m) ==
    <<m.type>> \o Digits(0, 2) \o Digits(0, 2) \o Digits(m.timestamp, 6)
    \o Digits(m.ref, 8) \o <<m.buysell>> \o Digits(m.shares, 4) \o Digits(0, 8)
    \o Digits(m.price, 4)
-----------------------------------------------------------------------------
(* The parser.                                                             *)

kOffsetType == 0
kOffsetTimestamp == 7
kOffsetOrderRef == 11
kOffsetBuySell == 19
kOffsetShares == 20
kOffsetPrice == 32
kAddOrderLength == 36

ByteAt(bytes, offset) == bytes[offset + 1]

\* memcpy of width bytes and net_to_host.
ReadField(bytes, offset, width) ==
    FoldLeft(LAMBDA n, digit : n * ByteBase + digit, 0,
             SubSeq(bytes, offset + 1, offset + width))

\* Eight bytes are read; the last two are shifted out.
ReadTimestamp(bytes, offset) == ReadField(bytes, offset, 8) \div (ByteBase ^ 2)

AddOrderOf(bytes) ==
    [timestamp_ns |-> ReadTimestamp(bytes, kOffsetTimestamp),
     order_id |-> ReadField(bytes, kOffsetOrderRef, 8),
     price |-> ReadField(bytes, kOffsetPrice, 4),
     qty |-> ReadField(bytes, kOffsetShares, 4),
     side |-> IF ByteAt(bytes, kOffsetBuySell) = "B" THEN 0 ELSE 1]

\* BookUpdateValidator of an addition.
Validate(u) == u.price # 0 /\ u.qty # 0

Parse(bytes) ==
    IF /\ Len(bytes) >= kAddOrderLength
       /\ ByteAt(bytes, kOffsetType) \in {"A", "F"}
       /\ Validate(AddOrderOf(bytes))
    THEN AddOrderOf(bytes) ELSE NoUpdate
-----------------------------------------------------------------------------
\* The next message arrives, whole or without its last bytes, and is parsed.
Receive(m, length) ==
    /\ sent' = m
    /\ update' = Parse(SubSeq(Encode(m), 1, length))

Init == sent \in Message /\ update = NoUpdate
Next == \E m \in Message, length \in 0..kAddOrderLength : Receive(m, length)
Spec == Init /\ [][Next]_<<sent, update>>
-----------------------------------------------------------------------------
(* What comments and tests of the code say and the code does not do.       *)

\* "ITCH timestamp is 6 bytes": the update carries the timestamp the exchange
\* put into the message, by which the replay clock paces the replay.
TimestampExact == update # NoUpdate => update.timestamp_ns = sent.timestamp
=============================================================================
