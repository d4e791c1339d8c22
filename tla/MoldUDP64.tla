------------------------------ MODULE MoldUDP64 ------------------------------
(***************************************************************************)
(* The MoldUDP64Decoder of include/tradecore/network, fed by a network     *)
(* that loses, repeats, reorders and cuts off packets.                     *)
(*                                                                         *)
(* The publisher and the network are external.  A packet once sent may     *)
(* arrive at any later time, any number of times or never, whole, without  *)
(* its last messages, or without a whole header.                           *)
(*                                                                         *)
(* Abstractions: a message is named by the number the publisher gave it,   *)
(* which is what the receiver should call it; a packet cut inside a block  *)
(* (in its length or in its payload) is a packet without that block; the   *)
(* session name is left out; sequence numbers do not reach 2^64.           *)
(***************************************************************************)
EXTENDS Integers, Sequences

CONSTANTS
    MaxMessages,   \* bound: messages published
    MaxPerPacket,  \* most messages of one packet
    MaxDelivered   \* bound: messages delivered since expected_seq_ was set

ASSUME StreamAssumption ==
    MaxMessages \in Nat /\ MaxPerPacket \in Nat /\ MaxDelivered \in Nat

VARIABLES
    next_seq,      \* the publisher's next number
    network,       \* every packet sent
    expected_seq,  \* expected_seq_
    delivered,     \* history: the calls of on_message since expected_seq_ was set
    base,          \* history: what it was set to
    in_order,      \* history: every packet since came with the expected number
    cut            \* history: some decode since returned false

since == <<delivered, base, in_order, cut>>
vars == <<next_seq, network, expected_seq, delivered, base, in_order, cut>>

Packet == [sequence_number : Nat \ {0}, message_count : Nat, blocks : Seq(Nat)]
Call == [number : Nat, payload : Nat]

\* Numbers from .. from + n - 1.
Run(from, n) == [i \in 1..n |-> from + i - 1]
-----------------------------------------------------------------------------
\* A packet of the next n messages; a heartbeat has none.
Publish(n) ==
    /\ next_seq + n <= MaxMessages + 1
    /\ network' = network \cup {[sequence_number |-> next_seq, message_count |-> n,
                                 blocks |-> Run(next_seq, n)]}
    /\ next_seq' = next_seq + n
    /\ UNCHANGED <<expected_seq, since>>

Shorter(m, n) == IF m <= n THEN m ELSE n

\* The messages are numbered on from the one expected, and as they are: from
\* the one the header names.
CallsFromExpected(packet) ==
    [i \in 1..Shorter(packet.message_count, Len(packet.blocks)) |->
        [number |-> expected_seq + i - 1, payload |-> packet.blocks[i]]]

Calls(packet) ==
    [i \in 1..Shorter(packet.message_count, Len(packet.blocks)) |->
        [number |-> packet.sequence_number + i - 1, payload |-> packet.blocks[i]]]

Whole(packet) == packet.message_count <= Len(packet.blocks)

\* The expected number is set before the blocks are looked at.
DecodeMarksFirst(packet) ==
    /\ delivered' = delivered \o Calls(packet)
    /\ expected_seq' = packet.sequence_number + packet.message_count
    /\ cut' = (cut \/ ~Whole(packet))

\* decode() of a packet with a whole header: on_message for each block there
\* is; it returns false, and expects what it expected, when one is missing.
Decode(packet) ==
    /\ delivered' = delivered \o Calls(packet)
    /\ expected_seq' = IF Whole(packet)
                       THEN packet.sequence_number + packet.message_count
                       ELSE expected_seq
    /\ cut' = (cut \/ ~Whole(packet))

\* What arrives of a packet when only its first n blocks do.
Arrived(sent, n) ==
    [sequence_number |-> sent.sequence_number, message_count |-> sent.message_count,
     blocks |-> SubSeq(sent.blocks, 1, n)]

Receive(sent, n) ==
    /\ Len(delivered) + n <= MaxDelivered
    /\ Decode(Arrived(sent, n))
    /\ in_order' = (in_order /\ sent.sequence_number = expected_seq)
    /\ UNCHANGED <<next_seq, network, base>>

\* decode() of less than a header returns false at once.
ReceiveShort ==
    /\ network # {}
    /\ cut' = TRUE
    /\ UNCHANGED <<next_seq, network, expected_seq, delivered, base, in_order>>

\* set_expected_sequence().
SetExpected(seq) ==
    /\ expected_seq' = seq /\ base' = seq
    /\ delivered' = << >> /\ in_order' = TRUE /\ cut' = FALSE
    /\ UNCHANGED <<next_seq, network>>

Init ==
    /\ next_seq = 1 /\ network = {} /\ expected_seq = 1
    /\ delivered = << >> /\ base = 1 /\ in_order = TRUE /\ cut = FALSE

Next ==
    \/ \E n \in 0..MaxPerPacket : Publish(n)
    \/ \E sent \in network : \E n \in 0..Len(sent.blocks) : Receive(sent, n)
    \/ ReceiveShort
    \/ \E seq \in 1..(MaxMessages + 1) : SetExpected(seq)

Spec == Init /\ [][Next]_vars
-----------------------------------------------------------------------------
(* Correctness.                                                            *)

\* The history holds calls, and packets on the network are runs of the stream.
TypeOK ==
    /\ next_seq \in Nat \ {0} /\ expected_seq \in Nat \ {0} /\ base \in Nat \ {0}
    /\ network \subseteq Packet
    /\ \A sent \in network :
            sent.blocks = Run(sent.sequence_number, sent.message_count)
    /\ delivered \in Seq(Call)
    /\ in_order \in BOOLEAN /\ cut \in BOOLEAN

\* Whatever is lost, repeated, reordered or cut off, on_message gets every
\* message under the number its publisher gave it.
NumbersExact == \A n \in DOMAIN delivered : delivered[n].number = delivered[n].payload

\* A caller that compares each packet's number with expected_sequence() misses
\* nothing: as long as they agreed since the number was last set, every message
\* below expected_sequence() has been delivered, also when packets were cut off
\* and came again; and while none was cut off, each once and in order.
GapsShow ==
    in_order =>
        /\ base <= expected_seq
        /\ \A seq \in base..(expected_seq - 1) :
                \E n \in DOMAIN delivered : delivered[n].number = seq
        /\ ~cut => [n \in DOMAIN delivered |-> delivered[n].number] =
                        Run(base, expected_seq - base)
=============================================================================
