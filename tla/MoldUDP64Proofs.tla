--------------------------- MODULE MoldUDP64Proofs ---------------------------
(***************************************************************************)
(* Proofs about MoldUDP64, for streams, packets and histories of any       *)
(* length: every message is delivered under its own number, and a caller   *)
(* that compares numbers misses nothing.                                   *)
(***************************************************************************)
EXTENDS MoldUDP64, TLAPS

\* What arrives is numbered as it was sent, and its blocks are the first ones.
LEMMA ArrivedBlocks ==
    ASSUME TypeOK, NEW sent \in network, NEW n \in 0..Len(sent.blocks)
    PROVE  /\ sent.sequence_number \in Nat \ {0} /\ sent.message_count \in Nat
           /\ n <= sent.message_count
           /\ Arrived(sent, n).sequence_number = sent.sequence_number
           /\ Arrived(sent, n).message_count = sent.message_count
           /\ Len(Arrived(sent, n).blocks) = n
           /\ \A i \in 1..n : Arrived(sent, n).blocks[i] = sent.sequence_number + i - 1
<1>1. /\ sent \in Packet
      /\ sent.blocks = Run(sent.sequence_number, sent.message_count)
  BY DEF TypeOK
<1>2. sent.message_count \in Nat /\ sent.sequence_number \in Nat \ {0}
  BY <1>1 DEF Packet
<1>3. sent.blocks \in Seq(Nat) /\ Len(sent.blocks) = sent.message_count
  BY <1>1, <1>2 DEF Packet, Run
<1>5. /\ Len(SubSeq(sent.blocks, 1, n)) = n
      /\ \A i \in 1..n : SubSeq(sent.blocks, 1, n)[i] = sent.blocks[i]
  BY <1>3
<1>6. \A i \in 1..n : sent.blocks[i] = sent.sequence_number + i - 1
  BY <1>1, <1>2, <1>3 DEF Run
<1> QED  BY <1>2, <1>3, <1>5, <1>6 DEF Arrived

\* The calls of one decode(): consecutive, from the packet's number on, each
\* with the message of that number.
LEMMA CallsExact ==
    ASSUME TypeOK, NEW sent \in network, NEW n \in 0..Len(sent.blocks)
    PROVE  /\ Calls(Arrived(sent, n)) \in Seq(Call)
           /\ Len(Calls(Arrived(sent, n))) = n
           /\ \A i \in 1..n :
                /\ Calls(Arrived(sent, n))[i].number = sent.sequence_number + i - 1
                /\ Calls(Arrived(sent, n))[i].payload = sent.sequence_number + i - 1
<1> DEFINE p == Arrived(sent, n)
<1>1. /\ sent.sequence_number \in Nat \ {0} /\ n \in Nat
      /\ p.sequence_number = sent.sequence_number
      /\ \A i \in 1..n : p.blocks[i] = sent.sequence_number + i - 1
  BY ArrivedBlocks
<1>2. Shorter(p.message_count, Len(p.blocks)) = n
  BY ArrivedBlocks DEF Shorter
<1>3. Calls(p) = [i \in 1..n |-> [number |-> sent.sequence_number + i - 1,
                                  payload |-> p.blocks[i]]]
  BY <1>1, <1>2 DEF Calls
<1> HIDE DEF p
<1>4. \A i \in 1..n : Calls(p)[i] = [number |-> sent.sequence_number + i - 1,
                                     payload |-> sent.sequence_number + i - 1]
  BY <1>1, <1>3
<1>5. \A i \in 1..n : Calls(p)[i] \in Call
  <2> SUFFICES ASSUME NEW i \in 1..n PROVE Calls(p)[i] \in Call
    OBVIOUS
  <2>1. sent.sequence_number + i - 1 \in Nat
    BY <1>1
  <2>2. [number |-> sent.sequence_number + i - 1,
         payload |-> sent.sequence_number + i - 1] \in Call
    BY <2>1 DEF Call
  <2> QED  BY <1>4, <2>2
<1>6. Calls(p) \in Seq(Call) /\ Len(Calls(p)) = n
  BY <1>1, <1>3, <1>5
<1> QED  BY <1>4, <1>6 DEF p

\* The sequence s with t behind it, as far as the proofs below look into it.
LEMMA Joined ==
    ASSUME NEW s \in Seq(Call), NEW t \in Seq(Call)
    PROVE  /\ s \o t \in Seq(Call)
           /\ Len(s \o t) = Len(s) + Len(t)
           /\ \A k \in DOMAIN s : k \in DOMAIN (s \o t) /\ (s \o t)[k] = s[k]
           /\ \A k \in 1..Len(t) : /\ Len(s) + k \in DOMAIN (s \o t)
                                   /\ (s \o t)[Len(s) + k] = t[k]
           /\ \A k \in DOMAIN (s \o t) :
                k \in DOMAIN s \/ \E j \in 1..Len(t) : k = Len(s) + j
<1>1. Len(s) \in Nat /\ Len(t) \in Nat /\ DOMAIN s = 1..Len(s)
  OBVIOUS
<1>2. s \o t \in Seq(Call) /\ Len(s \o t) = Len(s) + Len(t)
  OBVIOUS
<1>3. DOMAIN (s \o t) = 1..(Len(s) + Len(t))
  BY <1>2
<1>4. \A k \in DOMAIN s : (s \o t)[k] = s[k]
  BY <1>1
<1>5. \A k \in 1..Len(t) : (s \o t)[Len(s) + k] = t[k]
  BY <1>1
<1>6. \A k \in DOMAIN (s \o t) :
        k \in DOMAIN s \/ (k - Len(s) \in 1..Len(t) /\ k = Len(s) + (k - Len(s)))
  BY <1>1, <1>3
<1> QED  BY <1>1, <1>2, <1>3, <1>4, <1>5, <1>6
-----------------------------------------------------------------------------
\* The fields keep their types, and everything on the network is a run of the
\* publisher's stream.
THEOREM TypeCorrect == Spec => []TypeOK
<1>1. Init => TypeOK
  <2>1. << >> \in Seq(Call)
    OBVIOUS
  <2>2. Init => in_order \in BOOLEAN /\ cut \in BOOLEAN
    BY Zenon DEF Init
  <2> QED  BY <2>1, <2>2 DEF Init, TypeOK
<1>2. TypeOK /\ [Next]_vars => TypeOK'
  <2> SUFFICES ASSUME TypeOK, [Next]_vars PROVE TypeOK'
    OBVIOUS
  <2>1. ASSUME NEW n \in 0..MaxPerPacket, Publish(n) PROVE TypeOK'
    <3> DEFINE new == [sequence_number |-> next_seq, message_count |-> n,
                       blocks |-> Run(next_seq, n)]
    <3>0. n \in Nat /\ next_seq \in Nat \ {0}
      BY <2>1, StreamAssumption DEF TypeOK
    <3>1. Run(next_seq, n) \in Seq(Nat)
      BY <3>0 DEF Run
    <3>2. new \in Packet
      BY <3>0, <3>1 DEF Packet
    <3>3. new.blocks = Run(new.sequence_number, new.message_count)
      OBVIOUS
    <3>4. network' = network \cup {new} /\ next_seq' = next_seq + n
      BY <2>1 DEF Publish
    <3>5. UNCHANGED <<expected_seq, delivered, base, in_order, cut>>
      BY <2>1 DEF Publish, since
    <3> HIDE DEF new
    <3> QED  BY <3>0, <3>2, <3>3, <3>4, <3>5 DEF TypeOK
  <2>2. ASSUME NEW sent \in network, NEW n \in 0..Len(sent.blocks), Receive(sent, n)
        PROVE TypeOK'
    <3> DEFINE p == Arrived(sent, n)
    <3>1. delivered' = delivered \o Calls(p) /\ delivered \in Seq(Call)
      BY <2>2 DEF Receive, Decode, TypeOK
    <3>2. delivered' \in Seq(Call)
      BY <3>1, CallsExact, Joined
    <3>3. expected_seq' \in Nat \ {0}
      BY <2>2, ArrivedBlocks DEF Receive, Decode, TypeOK
    <3>4. in_order' \in BOOLEAN /\ cut' \in BOOLEAN
      BY <2>2 DEF Receive, Decode, TypeOK
    <3> QED  BY <2>2, <3>2, <3>3, <3>4 DEF Receive, TypeOK
  <2>3. CASE ReceiveShort
    BY <2>3 DEF ReceiveShort, TypeOK
  <2>4. ASSUME NEW seq \in 1..(MaxMessages + 1), SetExpected(seq) PROVE TypeOK'
    <3>1. << >> \in Seq(Call)
      OBVIOUS
    <3>2. in_order' \in BOOLEAN /\ cut' \in BOOLEAN
      BY <2>4, Zenon DEF SetExpected
    <3> QED  BY <2>4, <3>1, <3>2, StreamAssumption DEF SetExpected, TypeOK
  <2>5. CASE UNCHANGED vars
    BY <2>5 DEF vars, TypeOK
  <2> QED  BY <2>1, <2>2, <2>3, <2>4, <2>5 DEF Next
<1> QED  BY <1>1, <1>2, PTL DEF Spec

\* Whatever the network does to the packets, each message is delivered under
\* the number its publisher gave it.
THEOREM NumbersAlwaysExact == Spec => []NumbersExact
<1>1. Init => NumbersExact
  BY DEF Init, NumbersExact
<1>2. TypeOK /\ NumbersExact /\ [Next]_vars => NumbersExact'
  <2> SUFFICES ASSUME TypeOK, NumbersExact, [Next]_vars PROVE NumbersExact'
    OBVIOUS
  <2>1. ASSUME NEW sent \in network, NEW n \in 0..Len(sent.blocks), Receive(sent, n)
        PROVE NumbersExact'
    <3> DEFINE t == Calls(Arrived(sent, n))
    <3>1. delivered' = delivered \o t /\ delivered \in Seq(Call)
      BY <2>1 DEF Receive, Decode, TypeOK
    <3>2. t \in Seq(Call) /\ Len(t) = n /\ \A i \in 1..n : t[i].number = t[i].payload
      BY CallsExact
    <3> HIDE DEF t
    <3>3. \A k \in DOMAIN (delivered \o t) :
            (delivered \o t)[k].number = (delivered \o t)[k].payload
      BY <3>1, <3>2, Joined DEF NumbersExact
    <3> QED  BY <3>1, <3>3 DEF NumbersExact
  <2>2. ASSUME NEW seq \in 1..(MaxMessages + 1), SetExpected(seq) PROVE NumbersExact'
    BY <2>2 DEF SetExpected, NumbersExact
  <2>3. CASE ReceiveShort \/ UNCHANGED vars \/ \E n \in 0..MaxPerPacket : Publish(n)
    BY <2>3 DEF ReceiveShort, Publish, since, vars, NumbersExact
  <2> QED  BY <2>1, <2>2, <2>3 DEF Next
<1> QED  BY <1>1, <1>2, TypeCorrect, PTL DEF Spec
-----------------------------------------------------------------------------
\* GapsShow with the last conjunct said of each call: nothing is missing below
\* the expected number, and without a cut the calls are exactly those numbers.
InStep ==
    in_order =>
        /\ base <= expected_seq
        /\ \A seq \in base..(expected_seq - 1) :
                \E n \in DOMAIN delivered : delivered[n].number = seq
        /\ ~cut => /\ Len(delivered) = expected_seq - base
                   /\ \A n \in 1..Len(delivered) : delivered[n].number = base + n - 1

LEMMA InStepShows == TypeOK /\ InStep => GapsShow
<1> SUFFICES ASSUME TypeOK, InStep, in_order, ~cut
             PROVE  [n \in DOMAIN delivered |-> delivered[n].number] =
                        Run(base, expected_seq - base)
  BY DEF InStep, GapsShow
<1>1. DOMAIN delivered = 1..(expected_seq - base)
  BY DEF InStep, TypeOK
<1>2. \A n \in 1..(expected_seq - base) : delivered[n].number = base + n - 1
  BY DEF InStep
<1> QED  BY <1>1, <1>2 DEF Run

\* A packet that came in its turn keeps the receiver in step with the stream.
LEMMA ReceiveInStep ==
    ASSUME TypeOK, InStep, NEW sent \in network, NEW n \in 0..Len(sent.blocks),
           Receive(sent, n)
    PROVE  InStep'
<1> SUFFICES ASSUME in_order' PROVE InStep'
  BY DEF InStep
<1> DEFINE p == Arrived(sent, n)
           t == Calls(p)
<1>1. in_order /\ sent.sequence_number = expected_seq /\ base' = base
  BY DEF Receive
<1>2. /\ expected_seq \in Nat \ {0} /\ base \in Nat \ {0} /\ delivered \in Seq(Call)
      /\ base <= expected_seq
  BY <1>1 DEF TypeOK, InStep
<1>3. /\ n \in Nat /\ n <= sent.message_count /\ sent.message_count \in Nat
      /\ p.sequence_number = sent.sequence_number
      /\ p.message_count = sent.message_count /\ Len(p.blocks) = n
  BY ArrivedBlocks
<1>4. t \in Seq(Call) /\ Len(t) = n /\ \A i \in 1..n : t[i].number = expected_seq + i - 1
  BY <1>1, CallsExact
<1>5. delivered' = delivered \o t
  BY DEF Receive, Decode
<1>6. /\ expected_seq' = IF Whole(p) THEN expected_seq + n ELSE expected_seq
      /\ cut' = (cut \/ ~Whole(p))
  BY <1>1, <1>3 DEF Receive, Decode, Whole
<1> HIDE DEF t, p
<1>10. /\ Len(delivered') = Len(delivered) + n /\ Len(delivered) \in Nat
       /\ \A k \in DOMAIN delivered : k \in DOMAIN delivered' /\ delivered'[k] = delivered[k]
       /\ \A k \in 1..n : /\ Len(delivered) + k \in DOMAIN delivered'
                         /\ delivered'[Len(delivered) + k] = t[k]
       /\ \A k \in DOMAIN delivered' :
            k \in DOMAIN delivered \/ \E j \in 1..n : k = Len(delivered) + j
  <2>1. t \in Seq(Call) /\ delivered \in Seq(Call) /\ Len(t) = n
    BY <1>2, <1>4
  <2>2. /\ Len(delivered \o t) = Len(delivered) + Len(t)
        /\ \A k \in DOMAIN delivered : /\ k \in DOMAIN (delivered \o t)
                                      /\ (delivered \o t)[k] = delivered[k]
        /\ \A k \in 1..Len(t) : /\ Len(delivered) + k \in DOMAIN (delivered \o t)
                                /\ (delivered \o t)[Len(delivered) + k] = t[k]
        /\ \A k \in DOMAIN (delivered \o t) :
                k \in DOMAIN delivered \/ \E j \in 1..Len(t) : k = Len(delivered) + j
    BY <2>1, Joined, Zenon
  <2>3. Len(delivered) \in Nat
    BY <2>1
  <2> QED  BY <2>1, <2>2, <2>3, <1>5, Zenon
<1>7. base' <= expected_seq'
  BY <1>1, <1>2, <1>3, <1>6
<1>8. ASSUME NEW seq \in base'..(expected_seq' - 1)
      PROVE  \E k \in DOMAIN delivered' : delivered'[k].number = seq
  <2>1. CASE seq < expected_seq
    <3>1. PICK k \in DOMAIN delivered : delivered[k].number = seq
      BY <1>1, <1>2, <1>8, <2>1 DEF InStep
    <3> QED  BY <1>10, <3>1
  <2>2. CASE ~(seq < expected_seq)
    <3>1. seq - expected_seq + 1 \in 1..n
      BY <1>1, <1>2, <1>3, <1>6, <1>8, <2>2
    <3>2. t[seq - expected_seq + 1].number = seq
      <4>1. t[seq - expected_seq + 1].number = expected_seq + (seq - expected_seq + 1) - 1
        BY <1>4, <3>1
      <4>2. seq \in Int
        BY <1>1, <1>2, <1>8
      <4> QED  BY <1>2, <4>1, <4>2
    <3>3. PICK j \in 1..n : t[j].number = seq
      BY <3>1, <3>2
    <3> QED  BY <1>10, <3>3
  <2> QED  BY <2>1, <2>2
<1>9. ASSUME ~cut'
      PROVE  /\ Len(delivered') = expected_seq' - base'
             /\ \A k \in 1..Len(delivered') : delivered'[k].number = base' + k - 1
  <2>1. /\ Len(delivered) = expected_seq - base
        /\ \A k \in 1..Len(delivered) : delivered[k].number = base + k - 1
        /\ expected_seq' = expected_seq + n
    BY <1>1, <1>6, <1>9 DEF InStep
  <2>2. Len(delivered') = expected_seq' - base'
    BY <1>1, <1>2, <1>3, <1>10, <2>1
  <2>3. ASSUME NEW k \in 1..Len(delivered')
        PROVE  delivered'[k].number = base' + k - 1
    <3>1. k \in DOMAIN (delivered \o t)
      BY <1>2, <1>4, <1>5, Joined
    <3>2. CASE k \in DOMAIN delivered
      <4>1. k \in 1..Len(delivered) /\ delivered'[k] = delivered[k]
        BY <1>2, <1>10, <3>2
      <4> QED  BY <1>1, <2>1, <4>1
    <3>3. CASE k \notin DOMAIN delivered
      <4>1. PICK j \in 1..n : k = Len(delivered) + j
        BY <1>5, <1>10, <3>1, <3>3
      <4>2. delivered'[k] = t[j]
        BY <1>10, <4>1
      <4>3. t[j].number = expected_seq + j - 1
        BY <1>4, <4>1
      <4> QED  BY <1>1, <1>2, <2>1, <4>1, <4>2, <4>3
    <3> QED  BY <3>2, <3>3
  <2> QED  BY <2>2, <2>3
<1> QED  BY <1>7, <1>8, <1>9 DEF InStep

\* A caller that compares every packet's number with expected_sequence() misses
\* no message, whatever was lost, repeated, reordered or cut off.
THEOREM GapsAlwaysShow == Spec => []GapsShow
<1>1. Init => InStep
  BY DEF Init, InStep
<1>2. TypeOK /\ InStep /\ [Next]_vars => InStep'
  <2> SUFFICES ASSUME TypeOK, InStep, [Next]_vars PROVE InStep'
    OBVIOUS
  <2>1. ASSUME NEW sent \in network, NEW n \in 0..Len(sent.blocks), Receive(sent, n)
        PROVE InStep'
    BY <2>1, ReceiveInStep
  <2>2. ASSUME NEW seq \in 1..(MaxMessages + 1), SetExpected(seq) PROVE InStep'
    BY <2>2, StreamAssumption DEF SetExpected, InStep
  <2>3. CASE ReceiveShort
    BY <2>3 DEF ReceiveShort, InStep
  <2>4. CASE UNCHANGED vars \/ \E n \in 0..MaxPerPacket : Publish(n)
    BY <2>4 DEF Publish, since, vars, InStep
  <2> QED  BY <2>1, <2>2, <2>3, <2>4 DEF Next
<1> QED  BY <1>1, <1>2, InStepShows, TypeCorrect, PTL DEF Spec
=============================================================================
