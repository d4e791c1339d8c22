---------------------------- MODULE ReplayProofs ----------------------------
(* Theorems about Replay, for every source, mode, factor and bound.        *)
EXTENDS Replay, FiniteSetTheorems, SequenceTheorems, TLAPS

Update == [side : {0, 1}, price : Nat, qty : Nat, ts : Nat]
Waits == pc \in {"wait", "spin"}

\* What every step preserves: beside the types, every message counted was taken
\* from the source first, and one that waits is not counted yet.
Invariant ==
    /\ TypeOK
    /\ update \in Update
    /\ submitted \in Seq([update : Update, paced : BOOLEAN, at : Nat])
    /\ messages_processed <= Len(fetched)
    /\ Waits => messages_processed < Len(fetched)

\* What the parser returns is an update.
LEMMA ParseResult ==
    ASSUME NEW p \in Payloads \cup {Empty}
    PROVE  Parse(p) \in Update
<1>1. p \in Payload
  BY ReplayAssumption DEF Payload, Empty
<1>2. AddOrderOf(p) \in Update /\ NoUpdate \in Update
  BY <1>1 DEF Payload, AddOrderOf, Update, NoUpdate
<1> QED
  BY <1>2 DEF Parse

\* Submitting an update keeps the list of submissions well typed.
LEMMA SubmitTyped ==
    ASSUME Invariant, NEW u \in Update, NEW paced \in BOOLEAN, Submit(u, paced)
    PROVE  /\ submitted' \in Seq([update : Update, paced : BOOLEAN, at : Nat])
           /\ messages_processed' = messages_processed + 1
<1> DEFINE entry == [update |-> u, paced |-> paced, at |-> now]
           Entry == [update : Update, paced : BOOLEAN, at : Nat]
<1>1. submitted \in Seq(Entry) /\ entry \in Entry
  BY ReplayAssumption DEF Invariant, TypeOK
<1>2. submitted' = Append(submitted, entry)
  BY DEF Submit
<1> QED
  BY <1>1, <1>2 DEF Submit

\* The source gives one payload, within its length, or the empty one.
LEMMA FetchOne ==
    ASSUME Invariant, NEW p \in Payloads \cup {Empty}, NextPayload(p)
    PROVE  /\ fetched' \in Seq(Payloads) /\ Len(fetched') <= MaxPayloads
           /\ Len(fetched') >= Len(fetched)
           /\ p.size # "empty" => Len(fetched') = Len(fetched) + 1
<1>1. fetched \in Seq(Payloads) /\ Len(fetched) <= MaxPayloads /\ MaxPayloads \in Nat
  BY ReplayAssumption DEF Invariant, TypeOK
<1>2. CASE Exhausted
  BY <1>1, <1>2 DEF NextPayload, Empty
<1>3. CASE ~Exhausted
  <2>1. p \in Payloads /\ fetched' = Append(fetched, p)
    BY <1>3 DEF NextPayload
  <2>2. Len(fetched) + 1 <= MaxPayloads
    BY <1>1, <1>3 DEF Exhausted
  <2> QED
    BY <1>1, <2>1, <2>2
<1> QED
  BY <1>2, <1>3

\* A histogram stays one when it is reset and when it takes a latency.
LEMMA HistogramKept ==
    /\ EmptyHistogram \in Histogram
    /\ \A h \in Histogram, value \in Nat : Record(h, value) \in Histogram
<1>1. EmptyHistogram \in Histogram
  BY ReplayAssumption DEF EmptyHistogram, Histogram, Buckets
<1>2. ASSUME NEW h \in Histogram, NEW value \in Nat
      PROVE  Record(h, value) \in Histogram
  <2>1. h.buckets \in [Buckets -> Nat]
    BY DEF Histogram
  <2>2. value \in Buckets => [h.buckets EXCEPT ![value] = @ + 1] \in [Buckets -> Nat]
    BY <2>1
  <2> QED
    BY <2>1, <2>2 DEF Record, Histogram
<1> QED
  BY <1>1, <1>2

\* What a recorded message leaves of the metrics.
LEMMA LatencyRecorded ==
    ASSUME Invariant, RecordLatency
    PROVE  end_to_end_latency' \in Histogram /\ start_e2e' = 0
<1>1. now - start_e2e \in Nat
  BY ReplayAssumption DEF Invariant, TypeOK
<1> QED
  BY <1>1, HistogramKept DEF RecordLatency, Invariant, TypeOK

\* A new replay engine has taken no payload and waits for none.
LEMMA InitInvariant == Init => Invariant
<1> SUFFICES ASSUME Init PROVE Invariant
  OBVIOUS
<1>1. NoUpdate \in Update
  BY DEF NoUpdate, Update
<1>2. clock \in [mode : Modes, first_message_ts : Nat, start_time : 0..MaxNow]
  BY ReplayAssumption DEF Init, NewClock
<1> QED
  BY <1>1, <1>2, HistogramKept, ReplayAssumption
  DEF Init, Invariant, TypeOK, Waits

\* run, step, the wait and the clock's ticks keep the invariant.
LEMMA StepInvariant == Invariant /\ [Next]_vars => Invariant'
<1> SUFFICES ASSUME Invariant, [Next]_vars PROVE Invariant'
  OBVIOUS
<1> USE ReplayAssumption
<1>1. ASSUME NEW max \in 0..MaxPayloads, Run(max) PROVE Invariant'
  BY <1>1 DEF Run, metrics, Invariant, TypeOK, Waits
<1>2. CASE Loop
  <2>1. CASE messages_processed >= max_messages
    BY <1>2, <2>1 DEF Loop, Invariant, TypeOK, Waits
  <2>2. CASE ~(messages_processed >= max_messages)
    <3>1. PICK p \in Payloads \cup {Empty} :
            /\ NextPayload(p) /\ update' = Parse(p)
            /\ start_e2e' = IF Parse(p) = NoUpdate THEN 0 ELSE now
            /\ pc' = CASE p.size = "empty" -> "idle"
                       [] p.size # "empty" /\ Parse(p) = NoUpdate -> "loop"
                       [] OTHER -> "wait"
      BY <1>2, <2>2 DEF Loop
    <3>2. /\ fetched' \in Seq(Payloads) /\ Len(fetched') <= MaxPayloads
          /\ Len(fetched') >= Len(fetched)
          /\ p.size # "empty" => Len(fetched') = Len(fetched) + 1
      BY <3>1, FetchOne
    <3>3. pc' \in {"idle", "loop", "wait"}
          /\ (pc' = "wait" => p.size # "empty" /\ Parse(p) # NoUpdate)
      BY <3>1
    <3>4. Parse(p) \in Update
      BY ParseResult
    <3>5. UNCHANGED <<max_messages, target_system_time, clock, messages_processed,
                      now, submitted, end_to_end_latency>>
      BY <1>2 DEF Loop
    <3>6. Len(fetched) \in Nat /\ Len(fetched') \in Nat
      BY <3>2 DEF Invariant, TypeOK
    <3>7. start_e2e' \in 0..now'
      BY <3>1, <3>5 DEF Invariant, TypeOK
    <3>8. TypeOK'
      BY <3>2, <3>3, <3>5, <3>7 DEF Invariant, TypeOK
    <3>9. update' \in Update
          /\ (pc' = "wait" => messages_processed' < Len(fetched'))
      <4>1. messages_processed <= Len(fetched) /\ messages_processed \in Nat
        BY DEF Invariant, TypeOK
      <4>2. p.size # "empty" => messages_processed' < Len(fetched')
        BY <3>2, <3>5, <3>6, <4>1
      <4> QED
        BY <3>1, <3>3, <3>4, <4>2
    <3>10. /\ submitted' \in Seq([update : Update, paced : BOOLEAN, at : Nat])
           /\ messages_processed' <= Len(fetched')
      BY <3>2, <3>5, <3>6 DEF Invariant, TypeOK
    <3> QED
      BY <3>3, <3>8, <3>9, <3>10 DEF Invariant, Waits
  <2> QED
    BY <2>1, <2>2
<1>3. CASE GoAhead
  <2>1. Submit(update, Paced) /\ Paced \in BOOLEAN
    BY <1>3 DEF GoAhead, Paced
  <2>6. end_to_end_latency' \in Histogram /\ start_e2e' = 0 /\ update' \in Update
    BY <1>3, LatencyRecorded DEF GoAhead, Update, NoUpdate
  <2>2. update \in Update
    BY DEF Invariant
  <2>3. /\ submitted' \in Seq([update : Update, paced : BOOLEAN, at : Nat])
        /\ messages_processed' = messages_processed + 1
    BY <2>1, <2>2, SubmitTyped
  <2>4. clock' \in [mode : Modes, first_message_ts : Nat, start_time : 0..MaxNow]
    BY <1>3, <2>2 DEF GoAhead, Invariant, TypeOK, Update
  <2>5. messages_processed < Len(fetched) /\ Len(fetched) \in Nat
    BY <1>3 DEF GoAhead, Invariant, TypeOK, Waits
  <2>7. pc' = "loop" /\ UNCHANGED <<max_messages, target_system_time, now, fetched>>
    BY <1>3 DEF GoAhead
  <2>8. messages_processed' \in 0..MaxPayloads /\ messages_processed' <= Len(fetched')
    BY <2>3, <2>5, <2>7 DEF Invariant, TypeOK
  <2>9. TypeOK'
    BY <2>4, <2>6, <2>7, <2>8 DEF Invariant, TypeOK
  <2> QED
    BY <2>3, <2>6, <2>7, <2>8, <2>9 DEF Invariant, Waits
<1>4. CASE StartSpinning
  <2>1. TargetTime(update.ts) \in 0..(U64 - 1)
    <3>1. update.ts \in Nat /\ clock.first_message_ts \in Nat /\ clock.start_time \in Nat
      BY DEF Invariant, TypeOK, Update
    <3> DEFINE elapsed == (update.ts - clock.first_message_ts) % U64
    <3>2. elapsed \in Nat
      BY <3>1
    <3>3. Scaled(elapsed) \in Nat
      BY <3>2 DEF Scaled
    <3> QED
      BY <3>1, <3>3 DEF TargetTime
  <2> QED
    BY <1>4, <2>1 DEF StartSpinning, metrics, Invariant, TypeOK, Waits
<1>5. CASE EndSpinning
  <2>1. Submit(update, Paced) /\ Paced \in BOOLEAN
    BY <1>5 DEF EndSpinning, Paced
  <2>6. end_to_end_latency' \in Histogram /\ start_e2e' = 0 /\ update' \in Update
    BY <1>5, LatencyRecorded DEF EndSpinning, Update, NoUpdate
  <2>2. update \in Update
    BY DEF Invariant
  <2>3. /\ submitted' \in Seq([update : Update, paced : BOOLEAN, at : Nat])
        /\ messages_processed' = messages_processed + 1
    BY <2>1, <2>2, SubmitTyped
  <2>4. messages_processed < Len(fetched) /\ Len(fetched) \in Nat
    BY <1>5 DEF EndSpinning, Invariant, TypeOK, Waits
  <2>7. /\ pc' = "loop" /\ target_system_time' = 0
        /\ UNCHANGED <<max_messages, clock, now, fetched>>
    BY <1>5 DEF EndSpinning
  <2>8. messages_processed' \in 0..MaxPayloads /\ messages_processed' <= Len(fetched')
    BY <2>3, <2>4, <2>7 DEF Invariant, TypeOK
  <2>9. TypeOK'
    BY <2>6, <2>7, <2>8 DEF Invariant, TypeOK
  <2> QED
    BY <2>3, <2>6, <2>7, <2>8, <2>9 DEF Invariant, Waits
<1>6. CASE Step
  <2>1. PICK p \in Payloads \cup {Empty} :
          /\ NextPayload(p)
          /\ CASE p.size = "empty" -> UNCHANGED <<messages_processed, submitted>>
               [] p.size # "empty" /\ Parse(p) = NoUpdate ->
                      /\ messages_processed' = messages_processed + 1
                      /\ UNCHANGED submitted
               [] OTHER -> Submit(Parse(p), FALSE)
    BY <1>6 DEF Step
  <2>2. /\ fetched' \in Seq(Payloads) /\ Len(fetched') <= MaxPayloads
        /\ Len(fetched') >= Len(fetched)
        /\ p.size # "empty" => Len(fetched') = Len(fetched) + 1
    BY <2>1, FetchOne
  <2>3. clock' \in [mode : Modes, first_message_ts : Nat, start_time : 0..MaxNow]
    BY <1>6 DEF Step, Invariant, TypeOK, NewClock, Modes
  <2>4. /\ UNCHANGED <<pc, max_messages, update, target_system_time, now, start_e2e,
                       end_to_end_latency>>
        /\ pc = "idle"
    BY <1>6 DEF Step, metrics
  <2>5. /\ submitted' \in Seq([update : Update, paced : BOOLEAN, at : Nat])
        /\ messages_processed' \in Nat
        /\ messages_processed' <= Len(fetched')
    <3>1. CASE p.size = "empty"
      BY <2>1, <2>2, <3>1 DEF Invariant, TypeOK
    <3>2. CASE p.size # "empty" /\ Parse(p) = NoUpdate
      <4>1. messages_processed' = messages_processed + 1 /\ UNCHANGED submitted
        BY <2>1, <3>2
      <4>2. /\ messages_processed \in Nat /\ messages_processed <= Len(fetched)
            /\ Len(fetched) \in Nat /\ Len(fetched') = Len(fetched) + 1
        BY <2>2, <3>2 DEF Invariant, TypeOK
      <4> QED
        BY <4>1, <4>2 DEF Invariant
    <3>3. CASE p.size # "empty" /\ Parse(p) # NoUpdate
      <4>1. Submit(Parse(p), FALSE)
        BY <2>1, <3>3
      <4>2. Parse(p) \in Update
        BY ParseResult
      <4>3. /\ submitted' \in Seq([update : Update, paced : BOOLEAN, at : Nat])
            /\ messages_processed' = messages_processed + 1
        BY <4>1, <4>2, SubmitTyped
      <4> QED
        BY <2>2, <3>3, <4>3 DEF Invariant, TypeOK
    <3> QED
      BY <3>1, <3>2, <3>3
  <2>6. Len(fetched') \in Nat
    BY <2>2
  <2> QED
    BY <2>2, <2>3, <2>4, <2>5, <2>6 DEF Invariant, TypeOK, Waits
<1>7. CASE Tick
  BY <1>7 DEF Tick, metrics, Invariant, TypeOK, Waits
<1>8. CASE UNCHANGED vars
  BY <1>8 DEF vars, metrics, Invariant, TypeOK, Waits
<1>9. CASE ResetMetrics
  BY <1>9, HistogramKept DEF ResetMetrics, Invariant, TypeOK, Waits
<1> QED
  BY <1>1, <1>2, <1>3, <1>4, <1>5, <1>6, <1>7, <1>8, <1>9 DEF Next, Running

\* The replay engine's fields keep their types: no message is counted that the
\* source did not give, and no wait is for a time beyond 64 bits.
THEOREM ReplayTypeCorrect == Spec => []TypeOK
<1>1. Invariant => TypeOK
  BY DEF Invariant
<1> QED
  BY <1>1, InitInvariant, StepInvariant, PTL DEF Spec
-----------------------------------------------------------------------------
(* Every order once.                                                       *)

\* g[1..N] are the updates the parser makes of f[1..L], each once and in order.
InOrder(N, g, L, f) ==
    \E place \in [1..N -> {k \in 1..L : Parse(f[k]) # NoUpdate}] :
        /\ \A m, n \in 1..N : m < n => place[m] < place[n]
        /\ \A k \in 1..L : Parse(f[k]) # NoUpdate => \E n \in 1..N : place[n] = k
        /\ \A n \in 1..N : g[n] = Parse(f[place[n]])

\* g and h agree up to N; none of e[L + 1..M] is an addition.
Agree(N, g, h) == \A n \in 1..N : h[n] = g[n]
NoneBetween(L, M, e) == \A k \in (L + 1)..M : Parse(e[k]) = NoUpdate

\* A payload that is no addition, or none at all, changes nothing.
LEMMA InOrderSame ==
    ASSUME NEW N \in Nat, NEW g, NEW L \in Nat, NEW f, InOrder(N, g, L, f),
           NEW h, Agree(N, g, h),
           NEW M \in Nat, L <= M, NEW e, Agree(L, f, e), NoneBetween(L, M, e)
    PROVE  InOrder(N, h, M, e)
<1>0. /\ \A n \in 1..N : h[n] = g[n]
      /\ \A k \in 1..L : e[k] = f[k]
      /\ \A k \in (L + 1)..M : Parse(e[k]) = NoUpdate
  BY DEF Agree, NoneBetween
<1> DEFINE Old == {k \in 1..L : Parse(f[k]) # NoUpdate}
           New == {k \in 1..M : Parse(e[k]) # NoUpdate}
<1>1. New = Old
  <2>1. ASSUME NEW k \in New PROVE k \in Old
    <3>1. k \in 1..M /\ k \notin (L + 1)..M
      BY <1>0, <2>1
    <3>2. k \in 1..L
      BY <1>0, <3>1
    <3>3. Parse(f[k]) # NoUpdate
      BY <1>0, <2>1, <3>2
    <3> QED
      BY <1>0, <3>2, <3>3
  <2>2. ASSUME NEW k \in Old PROVE k \in New
    <3>1. k \in 1..L /\ k \in 1..M /\ Parse(f[k]) # NoUpdate
      BY <1>0, <2>2
    <3>2. e[k] = f[k]
      BY <1>0, <3>1
    <3> QED
      BY <1>0, <3>1, <3>2
  <2> QED
    BY <1>0, <2>1, <2>2
<1>2. PICK place \in [1..N -> Old] :
        /\ \A m, n \in 1..N : m < n => place[m] < place[n]
        /\ \A k \in 1..L : Parse(f[k]) # NoUpdate => \E n \in 1..N : place[n] = k
        /\ \A n \in 1..N : g[n] = Parse(f[place[n]])
  BY DEF InOrder
<1>3. place \in [1..N -> New]
  BY <1>0, <1>1, <1>2
<1>4. ASSUME NEW k \in 1..M, Parse(e[k]) # NoUpdate
      PROVE  \E n \in 1..N : place[n] = k
  <2>1. k \in 1..L /\ Parse(f[k]) # NoUpdate
    BY <1>0, <1>1, <1>4
  <2> QED
    BY <1>0, <1>2, <2>1
<1>5. ASSUME NEW n \in 1..N
      PROVE  h[n] = Parse(e[place[n]])
  <2>1. place[n] \in 1..L
    BY <1>0, <1>2
  <2> QED
    BY <1>0, <1>2, <2>1
<1> QED
  BY <1>2, <1>3, <1>4, <1>5 DEF InOrder

\* An addition comes last, in the source as among the orders.
LEMMA InOrderMore ==
    ASSUME NEW N \in Nat, NEW g, NEW L \in Nat, NEW f, InOrder(N, g, L, f),
           NEW h, Agree(N, g, h), NEW e, Agree(L, f, e),
           Parse(e[L + 1]) # NoUpdate, h[N + 1] = Parse(e[L + 1])
    PROVE  InOrder(N + 1, h, L + 1, e)
<1>0. /\ \A n \in 1..N : h[n] = g[n]
      /\ \A k \in 1..L : e[k] = f[k]
  BY DEF Agree
<1> DEFINE Old == {k \in 1..L : Parse(f[k]) # NoUpdate}
           New == {k \in 1..(L + 1) : Parse(e[k]) # NoUpdate}
<1>1. PICK place \in [1..N -> Old] :
        /\ \A m, n \in 1..N : m < n => place[m] < place[n]
        /\ \A k \in 1..L : Parse(f[k]) # NoUpdate => \E n \in 1..N : place[n] = k
        /\ \A n \in 1..N : g[n] = Parse(f[place[n]])
  BY DEF InOrder
<1> DEFINE more == [n \in 1..(N + 1) |-> IF n = N + 1 THEN L + 1 ELSE place[n]]
<1>2. \A n \in 1..N : /\ n \in 1..(N + 1) /\ n # N + 1 /\ more[n] = place[n]
                      /\ place[n] \in 1..L /\ Parse(f[place[n]]) # NoUpdate
  BY <1>0, <1>1
<1>3. N + 1 \in 1..(N + 1) /\ more[N + 1] = L + 1
  OBVIOUS
<1>4. \A n \in 1..(N + 1) : n \in 1..N \/ n = N + 1
  OBVIOUS
<1>5. more \in [1..(N + 1) -> New]
  <2>1. ASSUME NEW n \in 1..(N + 1) PROVE more[n] \in New
    <3>1. CASE n \in 1..N
      <4>1. more[n] \in 1..(L + 1) /\ more[n] \in 1..L
        BY <1>0, <1>2, <3>1
      <4>2. Parse(e[more[n]]) # NoUpdate
        BY <1>0, <1>2, <3>1, <4>1
      <4> QED
        BY <1>0, <4>1, <4>2
    <3>2. CASE n = N + 1
      BY <1>0, <1>3, <3>2
    <3> QED
      BY <1>0, <1>4, <3>1, <3>2
  <2> QED
    BY <1>0, <2>1
<1> HIDE DEF more
<1>6. ASSUME NEW m \in 1..(N + 1), NEW n \in 1..(N + 1), m < n
      PROVE  more[m] < more[n]
  <2>1. m \in 1..N
    BY <1>0, <1>6
  <2>2. CASE n \in 1..N
    BY <1>0, <1>1, <1>2, <1>6, <2>1, <2>2
  <2>3. CASE n = N + 1
    BY <1>0, <1>2, <1>3, <2>1, <2>3
  <2> QED
    BY <1>0, <1>4, <2>2, <2>3
<1>7. ASSUME NEW k \in 1..(L + 1), Parse(e[k]) # NoUpdate
      PROVE  \E n \in 1..(N + 1) : more[n] = k
  <2>1. CASE k \in 1..L
    <3>1. PICK n \in 1..N : place[n] = k
      BY <1>0, <1>1, <1>7, <2>1
    <3> QED
      BY <1>0, <1>2, <3>1
  <2>2. CASE k = L + 1
    BY <1>0, <1>3, <2>2
  <2> QED
    BY <1>0, <2>1, <2>2
<1>8. ASSUME NEW n \in 1..(N + 1)
      PROVE  h[n] = Parse(e[more[n]])
  <2>1. CASE n \in 1..N
    BY <1>0, <1>1, <1>2, <2>1
  <2>2. CASE n = N + 1
    BY <1>0, <1>3, <2>2
  <2> QED
    BY <1>0, <1>4, <2>1, <2>2
<1> QED
  BY <1>5, <1>6, <1>7, <1>8 DEF InOrder

\* How many orders have been given to the matcher, the one waiting included.
GivenCount == Len(submitted) + (IF Waits THEN 1 ELSE 0)

\* Given, entry by entry, and EveryOrderOnce in its terms.
GivenFacts ==
    /\ Len(submitted) \in Nat /\ Len(fetched) \in Nat /\ GivenCount \in Nat
    /\ \A n \in 1..Len(submitted) : Given[n] = submitted[n].update
    /\ Waits => Given[Len(submitted) + 1] = update
    /\ EveryOrderOnce <=> InOrder(GivenCount, Given, Len(fetched), fetched)

\* They hold in every state the engine can be in.
LEMMA GivenIs == Invariant => GivenFacts
<1> SUFFICES ASSUME Invariant
             PROVE  GivenFacts
  OBVIOUS
<1> DEFINE Entry == [update : Update, paced : BOOLEAN, at : Nat]
           given == [n \in DOMAIN submitted |-> submitted[n].update]
<1>1. /\ submitted \in Seq(Entry) /\ fetched \in Seq(Payloads) /\ update \in Update
      /\ Len(submitted) \in Nat /\ DOMAIN submitted = 1..Len(submitted)
      /\ Len(fetched) \in Nat /\ DOMAIN fetched = 1..Len(fetched)
  BY LenProperties DEF Invariant, TypeOK
<1>2. given \in [1..Len(submitted) -> Update]
  <2>1. \A n \in 1..Len(submitted) : submitted[n] \in Entry
    <3> HIDE DEF Entry
    <3> QED
      BY <1>1, ElementOfSeq
  <2> QED
    BY <1>1, <2>1
<1>3. given \in Seq(Update) /\ Len(given) = Len(submitted)
  BY <1>1, <1>2
<1>4. \A n \in 1..Len(submitted) : given[n] = submitted[n].update
  BY <1>1
<1> HIDE DEF given
<1>5. Given = IF Waits THEN Append(given, update) ELSE given
  BY DEF Given, given, Waits
<1>6. /\ DOMAIN Append(given, update) = 1..(Len(submitted) + 1)
      /\ \A n \in 1..Len(submitted) : Append(given, update)[n] = given[n]
      /\ Append(given, update)[Len(submitted) + 1] = update
  BY <1>1, <1>3
<1>7. GivenCount \in Nat /\ DOMAIN Given = 1..GivenCount
  BY <1>1, <1>2, <1>5, <1>6 DEF GivenCount
<1>8. \A n \in 1..Len(submitted) : Given[n] = submitted[n].update
  BY <1>4, <1>5, <1>6
<1>9. Waits => Given[Len(submitted) + 1] = update
  BY <1>5, <1>6
<1>10. Additions = {k \in 1..Len(fetched) : Parse(fetched[k]) # NoUpdate}
  BY <1>1 DEF Additions
<1> DEFINE N == GivenCount
           g == Given
           Places == {k \in 1..Len(fetched) : Parse(fetched[k]) # NoUpdate}
           Fits(place) == /\ \A m, n \in 1..N : m < n => place[m] < place[n]
                          /\ \A k \in Places : \E n \in 1..N : place[n] = k
                          /\ \A n \in 1..N : g[n] = Parse(fetched[place[n]])
<1>11. EveryOrderOnce <=> InOrder(GivenCount, Given, Len(fetched), fetched)
  <2>1. EveryOrderOnce <=> \E place \in [1..N -> Places] : Fits(place)
    BY <1>7, <1>10 DEF EveryOrderOnce
  <2>2. InOrder(N, g, Len(fetched), fetched) <=> \E place \in [1..N -> Places] : Fits(place)
    BY DEF InOrder
  <2> QED
    BY <2>1, <2>2
<1> QED
  BY <1>1, <1>7, <1>8, <1>9, <1>11 DEF GivenFacts

\* And so in the next one.
LEMMA GivenIsNext == Invariant' => GivenFacts'
BY GivenIs, PTL

\* A payload is taken; if it is an addition, it is given to the matcher or waits.
LEMMA FetchInOrder ==
    ASSUME Invariant, Invariant', EveryOrderOnce, ~Waits,
           NEW p \in Payloads \cup {Empty}, NextPayload(p), UNCHANGED submitted,
           IF Parse(p) = NoUpdate THEN ~Waits' ELSE Waits' /\ update' = Parse(p)
    PROVE  EveryOrderOnce'
<1> DEFINE L == Len(fetched)
           S == Len(submitted)
<1>1. /\ S \in Nat /\ L \in Nat /\ InOrder(S, Given, L, fetched) /\ GivenCount = S
      /\ \A n \in 1..S : Given[n] = submitted[n].update
  BY GivenIs DEF GivenFacts, GivenCount
<1>2. /\ \A n \in 1..S : Given'[n] = submitted[n].update
      /\ Waits' => Given'[S + 1] = update'
      /\ GivenCount' = S + (IF Waits' THEN 1 ELSE 0)
      /\ InOrder(GivenCount', Given', Len(fetched'), fetched') => EveryOrderOnce'
  <2>1. Len(submitted') = S /\ submitted' = submitted
    OBVIOUS
  <2> QED
    BY <2>1, GivenIsNext DEF GivenFacts, GivenCount
<1>3. Agree(S, Given, Given')
  BY <1>1, <1>2 DEF Agree
<1>4. CASE fetched' = fetched /\ Parse(p) = NoUpdate
  <2>1. GivenCount' = S /\ Len(fetched') = L
    BY <1>1, <1>2, <1>4
  <2>2. InOrder(S, Given', L, fetched')
    <3>1. Agree(L, fetched, fetched') /\ NoneBetween(L, L, fetched') /\ L <= L
      BY <1>1, <1>4 DEF Agree, NoneBetween
    <3> HIDE DEF L, S
    <3> QED
      BY <1>1, <1>3, <3>1, InOrderSame
  <2> QED
    BY <1>2, <2>1, <2>2
<1>5. CASE fetched' = Append(fetched, p)
  <2>1. /\ Len(fetched') = L + 1 /\ fetched'[L + 1] = p
        /\ Agree(L, fetched, fetched')
    <3> DEFINE V == Payloads \cup {Empty}
    <3>1. fetched \in Seq(V)
      BY SeqMonotonic DEF Invariant, TypeOK
    <3> HIDE DEF V
    <3>2. /\ Len(fetched') = L + 1 /\ fetched'[L + 1] = p
          /\ \A k \in 1..L : fetched'[k] = fetched[k]
      BY <1>5, <3>1, AppendProperties DEF V
    <3> QED
      BY <3>2 DEF Agree
  <2>2. CASE Parse(p) = NoUpdate
    <3>1. GivenCount' = S
      BY <1>1, <1>2, <2>2
    <3>2. L + 1 \in Nat /\ L <= L + 1 /\ NoneBetween(L, L + 1, fetched')
      BY <1>1, <2>1, <2>2 DEF NoneBetween
    <3>3. InOrder(S, Given', L + 1, fetched')
      <4> DEFINE M == L + 1
      <4>1. M \in Nat /\ L <= M /\ NoneBetween(L, M, fetched')
        BY <3>2
      <4> HIDE DEF L, S, M
      <4>2. InOrder(S, Given', M, fetched')
        BY <1>1, <1>3, <2>1, <4>1, InOrderSame
      <4> QED
        BY <4>2 DEF M
    <3> QED
      BY <1>2, <2>1, <3>1, <3>3
  <2>3. CASE Parse(p) # NoUpdate
    <3>1. GivenCount' = S + 1 /\ Given'[S + 1] = Parse(p)
      BY <1>1, <1>2, <2>3
    <3>2. InOrder(S + 1, Given', L + 1, fetched')
      <4>1. Parse(fetched'[L + 1]) # NoUpdate /\ Given'[S + 1] = Parse(fetched'[L + 1])
        BY <2>1, <2>3, <3>1
      <4> HIDE DEF L, S
      <4> QED
        BY <1>1, <1>3, <2>1, <4>1, InOrderMore
    <3> QED
      BY <1>2, <2>1, <3>1, <3>2
  <2> QED
    BY <2>2, <2>3
<1> QED
  BY <1>4, <1>5 DEF NextPayload, Empty, Parse

\* The waiting order is submitted: it was among those given already.
LEMMA WaitInOrder ==
    ASSUME Invariant, Invariant', EveryOrderOnce, Waits, ~Waits',
           NEW paced, Submit(update, paced), UNCHANGED fetched
    PROVE  EveryOrderOnce'
<1> DEFINE L == Len(fetched)
           S == Len(submitted)
           Entry == [update : Update, paced : BOOLEAN, at : Nat]
           entry == [update |-> update, paced |-> paced, at |-> now]
<1>1. /\ S \in Nat /\ L \in Nat /\ InOrder(S + 1, Given, L, fetched)
      /\ \A n \in 1..S : Given[n] = submitted[n].update
      /\ Given[S + 1] = update
  BY GivenIs DEF GivenFacts, GivenCount
<1>2. /\ submitted' = Append(submitted, entry) /\ entry.update = update
      /\ submitted \in Seq(Entry)
  BY DEF Submit, Invariant
<1>3. /\ Len(submitted') = S + 1 /\ submitted'[S + 1].update = update
      /\ \A n \in 1..S : submitted'[n] = submitted[n]
  <2> DEFINE V == Entry \cup {entry}
  <2>1. submitted \in Seq(V) /\ entry \in V
    BY <1>2, SeqMonotonic
  <2> HIDE DEF V, entry, Entry
  <2> QED
    BY <1>2, <2>1, AppendProperties
<1>4. /\ GivenCount' = S + 1 /\ fetched' = fetched
      /\ \A n \in 1..(S + 1) : Given'[n] = submitted'[n].update
      /\ InOrder(GivenCount', Given', Len(fetched'), fetched') => EveryOrderOnce'
  BY <1>1, <1>3, GivenIsNext DEF GivenFacts, GivenCount
<1>5. \A n \in 1..(S + 1) : Given'[n] = Given[n]
  <2>1. \A n \in 1..(S + 1) : n \in 1..S \/ n = S + 1
    BY <1>1
  <2> HIDE DEF S
  <2> QED
    BY <1>1, <1>3, <1>4, <2>1
<1>6. InOrder(S + 1, Given', L, fetched)
  <2> DEFINE N == S + 1
  <2> HIDE DEF S, L
  <2>1. /\ N \in Nat /\ L <= L /\ InOrder(N, Given, L, fetched)
        /\ Agree(N, Given, Given')
        /\ Agree(L, fetched, fetched) /\ NoneBetween(L, L, fetched)
    BY <1>1, <1>5 DEF Agree, NoneBetween
  <2> HIDE DEF N
  <2>2. InOrder(N, Given', L, fetched)
    BY <1>1, <2>1, InOrderSame
  <2> QED
    BY <2>2 DEF N
<1> QED
  BY <1>4, <1>6

\* step() submits the addition it takes.
LEMMA StepInOrder ==
    ASSUME Invariant, Invariant', EveryOrderOnce, ~Waits, ~Waits',
           NEW p \in Payloads, Parse(p) # NoUpdate, fetched' = Append(fetched, p),
           Submit(Parse(p), FALSE)
    PROVE  EveryOrderOnce'
<1> DEFINE L == Len(fetched)
           S == Len(submitted)
           Entry == [update : Update, paced : BOOLEAN, at : Nat]
           entry == [update |-> Parse(p), paced |-> FALSE, at |-> now]
<1>1. /\ S \in Nat /\ L \in Nat /\ InOrder(S, Given, L, fetched)
      /\ \A n \in 1..S : Given[n] = submitted[n].update
  BY GivenIs DEF GivenFacts, GivenCount
<1>2. /\ submitted' = Append(submitted, entry) /\ entry.update = Parse(p)
      /\ submitted \in Seq(Entry) /\ fetched \in Seq(Payloads)
  BY DEF Submit, Invariant, TypeOK
<1>3. /\ Len(submitted') = S + 1 /\ submitted'[S + 1].update = Parse(p)
      /\ \A n \in 1..S : submitted'[n] = submitted[n]
  <2> DEFINE V == Entry \cup {entry}
  <2>1. submitted \in Seq(V) /\ entry \in V
    BY <1>2, SeqMonotonic
  <2> HIDE DEF V, entry, Entry
  <2> QED
    BY <1>2, <2>1, AppendProperties
<1>4. /\ Len(fetched') = L + 1 /\ fetched'[L + 1] = p
      /\ Agree(L, fetched, fetched')
  BY <1>2, AppendProperties DEF Agree
<1>5. /\ GivenCount' = S + 1
      /\ \A n \in 1..(S + 1) : Given'[n] = submitted'[n].update
      /\ InOrder(GivenCount', Given', Len(fetched'), fetched') => EveryOrderOnce'
  BY <1>1, <1>3, GivenIsNext DEF GivenFacts, GivenCount
<1>6. Given'[S + 1] = Parse(p) /\ Agree(S, Given, Given')
  <2>1. S + 1 \in 1..(S + 1) /\ \A n \in 1..S : n \in 1..(S + 1)
    BY <1>1
  <2> HIDE DEF S
  <2> QED
    BY <1>1, <1>3, <1>5, <2>1 DEF Agree
<1>7. InOrder(S + 1, Given', L + 1, fetched')
  <2>1. Parse(fetched'[L + 1]) # NoUpdate /\ Given'[S + 1] = Parse(fetched'[L + 1])
    BY <1>4, <1>6
  <2> HIDE DEF S, L
  <2> QED
    BY <1>1, <1>4, <1>6, <2>1, InOrderMore
<1> QED
  BY <1>4, <1>5, <1>7

\* Every step of the replay engine.
LEMMA StepOnce ==
    ASSUME Invariant, Invariant', EveryOrderOnce, [Next]_vars
    PROVE  EveryOrderOnce'
<1>1. CASE \/ \E max \in 0..MaxPayloads : Run(max)
           \/ StartSpinning \/ Tick \/ ResetMetrics \/ UNCHANGED vars
  <2>1. UNCHANGED <<fetched, submitted, update>> /\ (Waits <=> Waits')
    BY <1>1 DEF Run, StartSpinning, Tick, ResetMetrics, vars, Waits
  <2>2. Given' = Given /\ Additions' = Additions
    BY <2>1 DEF Given, Additions, Waits
  <2> QED
    BY <2>1, <2>2 DEF EveryOrderOnce
<1>2. CASE GoAhead \/ EndSpinning
  <2>1. Submit(update, Paced) /\ UNCHANGED fetched /\ Waits /\ ~Waits'
    BY <1>2 DEF GoAhead, EndSpinning, Waits
  <2> QED
    BY <2>1, WaitInOrder
<1>3. CASE Loop
  <2>1. CASE messages_processed >= max_messages
    <3>1. UNCHANGED <<fetched, submitted>> /\ ~Waits /\ ~Waits'
      BY <1>3, <2>1 DEF Loop, Waits
    <3> QED
      BY <3>1 DEF EveryOrderOnce, Given, Additions, Waits
  <2>2. CASE ~(messages_processed >= max_messages)
    <3>1. PICK p \in Payloads \cup {Empty} :
            /\ NextPayload(p) /\ update' = Parse(p)
            /\ pc' = CASE p.size = "empty" -> "idle"
                       [] p.size # "empty" /\ Parse(p) = NoUpdate -> "loop"
                       [] OTHER -> "wait"
      BY <1>3, <2>2 DEF Loop
    <3>2. p.size = "empty" => Parse(p) = NoUpdate
      BY DEF Parse
    <3>3. IF Parse(p) = NoUpdate THEN ~Waits' ELSE Waits' /\ update' = Parse(p)
      BY <3>1, <3>2 DEF Waits
    <3>4. ~Waits /\ UNCHANGED submitted
      BY <1>3 DEF Loop, Waits
    <3> QED
      BY <3>1, <3>3, <3>4, FetchInOrder
  <2> QED
    BY <2>1, <2>2
<1>4. CASE Step
  <2>1. PICK p \in Payloads \cup {Empty} :
          /\ NextPayload(p)
          /\ CASE p.size = "empty" -> UNCHANGED <<messages_processed, submitted>>
               [] p.size # "empty" /\ Parse(p) = NoUpdate ->
                      /\ messages_processed' = messages_processed + 1
                      /\ UNCHANGED submitted
               [] OTHER -> Submit(Parse(p), FALSE)
    BY <1>4 DEF Step
  <2>2. p.size = "empty" => Parse(p) = NoUpdate
    BY DEF Parse
  <2>3. ~Waits /\ ~Waits'
    BY <1>4 DEF Step, Waits
  <2>4. CASE Parse(p) = NoUpdate
    <3>1. UNCHANGED submitted
      BY <2>1, <2>4
    <3> QED
      BY <2>1, <2>3, <2>4, <3>1, FetchInOrder
  <2>5. CASE Parse(p) # NoUpdate
    <3>1. Submit(Parse(p), FALSE)
      BY <2>1, <2>2, <2>5
    <3>2. p \in Payloads /\ fetched' = Append(fetched, p)
      BY <2>1, <2>2, <2>5 DEF NextPayload, Empty
    <3> QED
      BY <2>3, <2>5, <3>1, <3>2, StepInOrder
  <2> QED
    BY <2>4, <2>5
<1> QED
  BY <1>1, <1>2, <1>3, <1>4 DEF Next, Running

\* Whatever the mode, the pace and the slicing into calls of run() and step(), the
\* matcher is given exactly the additions taken from the source, each once and in
\* their order, but for the one run() waits with.
THEOREM DeterministicReplay == Spec => []EveryOrderOnce
<1>1. Init => EveryOrderOnce
  <2> SUFFICES ASSUME Init PROVE EveryOrderOnce
    OBVIOUS
  <2>1. Len(submitted) = 0 /\ Len(fetched) = 0 /\ ~Waits
    BY DEF Init, Waits
  <2>2. Invariant
    BY InitInvariant
  <2>3. GivenCount = 0
    BY <2>1 DEF GivenCount
  <2>4. InOrder(0, Given, 0, fetched)
    <3> DEFINE Places == {k \in 1..0 : Parse(fetched[k]) # NoUpdate}
               place == [n \in 1..0 |-> n]
    <3>1. 1..0 = {}
      OBVIOUS
    <3>2. place \in [1..0 -> Places]
      BY <3>1
    <3> HIDE DEF place
    <3> QED
      BY <3>1, <3>2 DEF InOrder
  <2> QED
    BY <2>1, <2>2, <2>3, <2>4, GivenIs DEF GivenFacts
<1> QED
  BY <1>1, InitInvariant, StepInvariant, StepOnce, PTL DEF Spec
-----------------------------------------------------------------------------
(* Never early.                                                            *)

\* Timestamps are 48 bits of the day's nanoseconds: added to a time the clock can
\* show they stay within 64 bits.
NoWrap == \A p \in Payloads : p.ts + MaxNow < U64

\* What a wait is computed from.  Before the clock is anchored no order with a
\* timestamp was paced; it is anchored at the first, which nothing moves but a
\* step() before every submission.
Anchored ==
    IF clock.first_message_ts = 0 THEN Timed = {}
    ELSE \E m \in Timed :
            /\ \A k \in Timed : m <= k
            /\ submitted[m].update.ts = clock.first_message_ts
            /\ submitted[m].at = clock.start_time

\* The time an order of timestamp ts is due.
Due(ts) == clock.start_time + Scaled(ts - clock.first_message_ts)

\* A spin is for the time its order is due, and every order kept to it.
SpinsUntilDue ==
    pc = "spin" => /\ Paced /\ clock.first_message_ts > 0
                   /\ update.ts > clock.first_message_ts
                   /\ target_system_time = Due(update.ts)
KeptToDue ==
    \A n \in Timed : submitted[n].update.ts > clock.first_message_ts =>
                        submitted[n].at >= Due(submitted[n].update.ts)

\* What every step preserves of them.
PaceInvariant ==
    /\ Len(submitted) <= messages_processed
    /\ Waits => update.ts + MaxNow < U64
    /\ Anchored
    /\ SpinsUntilDue
    /\ KeptToDue

\* Scaling shortens a distance in time.
LEMMA ScaledShortens ==
    ASSUME NEW elapsed \in Nat
    PROVE  Scaled(elapsed) \in Nat /\ Scaled(elapsed) <= elapsed
<1>1. Factor \in Nat \ {0}
  BY ReplayAssumption
<1>2. elapsed \div Factor \in Nat /\ elapsed \div Factor <= elapsed
  BY <1>1
<1> QED
  BY <1>2 DEF Scaled

\* What is computed as the target is the time the order is due.
LEMMA TargetIsDue ==
    ASSUME Invariant, NEW ts \in Nat, ts + MaxNow < U64, ts > clock.first_message_ts
    PROVE  TargetTime(ts) = Due(ts)
<1> DEFINE first == clock.first_message_ts
           elapsed == ts - first
<1>1. first \in Nat /\ clock.start_time \in 0..MaxNow /\ MaxNow \in Nat /\ U64 \in Nat \ {0}
  BY ReplayAssumption DEF Invariant, TypeOK
<1>2. elapsed \in Nat /\ elapsed <= ts /\ elapsed < U64
  BY <1>1
<1>3. (elapsed % U64) = elapsed
  BY <1>1, <1>2
<1>4. Scaled(elapsed) \in Nat /\ Scaled(elapsed) <= elapsed
  BY <1>2, ScaledShortens
<1> DEFINE due == clock.start_time + Scaled(elapsed)
<1>5. due \in Nat /\ due < U64
  BY <1>1, <1>2, <1>4
<1>6. (due % U64) = due
  <2> HIDE DEF due
  <2> QED
    BY <1>1, <1>5
<1> QED
  BY <1>3, <1>6 DEF TargetTime, Due

\* A submission comes last and keeps those before it.
LEMMA SubmitEntry ==
    ASSUME Invariant, NEW u, NEW paced, Submit(u, paced)
    PROVE  /\ Len(submitted) \in Nat /\ Len(submitted') = Len(submitted) + 1
           /\ DOMAIN submitted = 1..Len(submitted)
           /\ DOMAIN submitted' = 1..(Len(submitted) + 1)
           /\ \A n \in DOMAIN submitted : submitted'[n] = submitted[n]
           /\ submitted'[Len(submitted) + 1] = [update |-> u, paced |-> paced, at |-> now]
<1> DEFINE Entry == [update : Update, paced : BOOLEAN, at : Nat]
           entry == [update |-> u, paced |-> paced, at |-> now]
           V == Entry \cup {entry}
<1>1. submitted \in Seq(V) /\ entry \in V /\ submitted' = Append(submitted, entry)
  BY SeqMonotonic DEF Invariant, Submit
<1> HIDE DEF V, entry
<1>2. /\ Len(submitted) \in Nat /\ DOMAIN submitted = 1..Len(submitted)
      /\ submitted' \in Seq(V) /\ Len(submitted') = Len(submitted) + 1
      /\ \A n \in 1..Len(submitted) : submitted'[n] = submitted[n]
      /\ submitted'[Len(submitted) + 1] = entry
  BY <1>1, AppendProperties, LenProperties
<1>3. DOMAIN submitted' = 1..(Len(submitted) + 1)
  BY <1>2, LenProperties
<1> QED
  BY <1>2, <1>3 DEF entry

\* The paced orders with a timestamp are those before and, if it is one, the last.
LEMMA TimedMore ==
    ASSUME Invariant, NEW u, NEW paced \in BOOLEAN, Submit(u, paced)
    PROVE  /\ \A n \in Timed : /\ n \in DOMAIN submitted /\ n \in 1..Len(submitted)
                               /\ submitted'[n] = submitted[n]
           /\ Timed' = Timed \cup
                         (IF paced /\ u.ts > 0 THEN {Len(submitted) + 1} ELSE {})
<1> DEFINE last == Len(submitted) + 1
<1>1. /\ Len(submitted) \in Nat /\ DOMAIN submitted = 1..Len(submitted)
      /\ DOMAIN submitted' = 1..last
      /\ \A n \in DOMAIN submitted : submitted'[n] = submitted[n]
      /\ submitted'[last] = [update |-> u, paced |-> paced, at |-> now]
  BY SubmitEntry
<1>2. DOMAIN submitted' = DOMAIN submitted \cup {last} /\ last \notin DOMAIN submitted
  BY <1>1
<1>3. submitted'[last].paced = paced /\ submitted'[last].update.ts = u.ts
  BY <1>1
<1> HIDE DEF last
<1>4. Timed' = Timed \cup (IF paced /\ u.ts > 0 THEN {last} ELSE {})
  BY <1>1, <1>2, <1>3 DEF Timed
<1> QED
  BY <1>1, <1>4 DEF Timed, last

\* A step that submits nothing and leaves the clock keeps what is not of the wait.
LEMMA PaceKept ==
    ASSUME PaceInvariant, UNCHANGED <<submitted, clock, messages_processed>>
    PROVE  /\ Len(submitted') <= messages_processed'
           /\ Anchored' /\ KeptToDue'
           /\ \A ts \in Nat : Due(ts)' = Due(ts)
           /\ Paced' = Paced
<1>1. Timed' = Timed
  BY DEF Timed
<1>2. \A elapsed \in Int : Scaled(elapsed)' = Scaled(elapsed)
  BY DEF Scaled
<1>3. /\ Anchored' = Anchored /\ KeptToDue' = KeptToDue
      /\ \A ts : Due(ts)' = Due(ts)
  BY <1>1 DEF Anchored, KeptToDue, Due, Scaled
<1> QED
  BY <1>3 DEF PaceInvariant, Paced

\* run() takes an addition: its timestamp is one of the source's.
LEMMA LoopPaced ==
    ASSUME NoWrap, Invariant, PaceInvariant, Loop
    PROVE  PaceInvariant'
<1>1. UNCHANGED <<submitted, clock, messages_processed>>
  BY DEF Loop
<1>2. CASE messages_processed >= max_messages
  <2>1. pc' = "idle"
    BY <1>2 DEF Loop
  <2> QED
    BY <1>1, <2>1, PaceKept DEF PaceInvariant, SpinsUntilDue, Waits
<1>3. CASE ~(messages_processed >= max_messages)
  <2>1. PICK p \in Payloads \cup {Empty} :
          /\ NextPayload(p) /\ update' = Parse(p)
          /\ pc' = CASE p.size = "empty" -> "idle"
                     [] p.size # "empty" /\ Parse(p) = NoUpdate -> "loop"
                     [] OTHER -> "wait"
    BY <1>3 DEF Loop
  <2>2. pc' \in {"idle", "loop", "wait"}
        /\ (pc' = "wait" => p.size # "empty" /\ Parse(p) # NoUpdate)
    BY <2>1
  <2>3. pc' = "wait" => update'.ts + MaxNow < U64
    <3>1. p.size # "empty" => p \in Payloads
      BY DEF Empty
    <3>2. Parse(p) # NoUpdate => Parse(p).ts = p.ts
      BY DEF Parse, AddOrderOf
    <3> QED
      BY <2>1, <2>2, <3>1, <3>2 DEF NoWrap
  <2> QED
    BY <1>1, <2>2, <2>3, PaceKept DEF PaceInvariant, SpinsUntilDue, Waits
<1> QED
  BY <1>2, <1>3

\* The order that wait_until() lets through at once is the one the clock is
\* anchored at, or is not due after it.
LEMMA GoAheadPaced ==
    ASSUME Invariant, PaceInvariant, GoAhead
    PROVE  PaceInvariant'
<1> DEFINE S == Len(submitted)
           first == clock.first_message_ts
<1>1. /\ Submit(update, Paced) /\ pc' = "loop" /\ pc = "wait" /\ ReturnsAtOnce
      /\ clock' = IF Anchoring
                  THEN [clock EXCEPT !.first_message_ts = update.ts, !.start_time = now]
                  ELSE clock
      /\ Paced \in BOOLEAN
  BY DEF GoAhead, Paced
<1>2. /\ update.ts \in Nat /\ first \in Nat /\ messages_processed \in Nat
      /\ clock \in [mode : Modes, first_message_ts : Nat, start_time : 0..MaxNow]
  BY DEF Invariant, TypeOK, Update
<1>3. /\ S \in Nat /\ Len(submitted') = S + 1
      /\ submitted'[S + 1] = [update |-> update, paced |-> Paced, at |-> now]
  BY <1>1, SubmitEntry
<1>4. /\ \A n \in Timed : n \in 1..S /\ submitted'[n] = submitted[n]
      /\ Timed' = Timed \cup (IF Paced /\ update.ts > 0 THEN {S + 1} ELSE {})
  BY <1>1, TimedMore
<1>5. Len(submitted') <= messages_processed' /\ ~Waits' /\ SpinsUntilDue'
  BY <1>1, <1>2, <1>3 DEF PaceInvariant, Submit, Waits, SpinsUntilDue
<1>6. CASE Anchoring
  <2>1. /\ Paced /\ first = 0 /\ Timed = {}
        /\ clock'.first_message_ts = update.ts /\ clock'.start_time = now
    BY <1>1, <1>2, <1>6 DEF Anchoring, PaceInvariant, Anchored
  <2>2. CASE update.ts = 0
    <3>1. Timed' = {}
      BY <1>4, <2>1, <2>2
    <3> QED
      BY <1>5, <2>1, <2>2, <3>1 DEF PaceInvariant, Anchored, KeptToDue
  <2>3. CASE update.ts > 0
    <3>1. Timed' = {S + 1}
      BY <1>4, <2>1, <2>3
    <3>2. submitted'[S + 1].update.ts = update.ts /\ submitted'[S + 1].at = now
      BY <1>3
    <3>3. Anchored'
      <4> DEFINE last == S + 1
      <4>1. /\ last \in Timed' /\ \A k \in Timed' : last <= k
            /\ submitted'[last].update.ts = clock'.first_message_ts
            /\ submitted'[last].at = clock'.start_time
        BY <1>3, <2>1, <3>1, <3>2
      <4>2. clock'.first_message_ts # 0
        BY <1>2, <2>1, <2>3
      <4> HIDE DEF last
      <4> QED
        BY <4>1, <4>2 DEF Anchored
    <3>4. KeptToDue'
      BY <1>2, <2>1, <3>1, <3>2 DEF KeptToDue
    <3> QED
      BY <1>5, <3>3, <3>4 DEF PaceInvariant
  <2> QED
    BY <1>2, <2>2, <2>3
<1>7. CASE ~Anchoring
  <2>1. clock' = clock
    BY <1>1, <1>7
  <2>2. Paced => first > 0 /\ update.ts <= first
    BY <1>1, <1>2, <1>7 DEF ReturnsAtOnce, Anchoring, OutOfOrder
  <2>3. Anchored'
    <3>1. CASE first = 0
      BY <1>4, <2>1, <2>2, <3>1 DEF PaceInvariant, Anchored
    <3>2. CASE first # 0
      <4>1. PICK m \in Timed : /\ \A k \in Timed : m <= k
                               /\ submitted[m].update.ts = first
                               /\ submitted[m].at = clock.start_time
        BY <3>2 DEF PaceInvariant, Anchored
      <4>2. m \in Timed' /\ m <= S + 1 /\ \A k \in Timed' : m <= k
        BY <1>3, <1>4, <4>1
      <4> QED
        BY <1>4, <2>1, <3>2, <4>1, <4>2 DEF Anchored
    <3> QED
      BY <3>1, <3>2
  <2>4. KeptToDue'
    <3>1. ASSUME NEW n \in Timed', submitted'[n].update.ts > first
          PROVE  submitted'[n].at >= Due(submitted'[n].update.ts)
      <4>1. n \in Timed
        BY <1>2, <1>3, <1>4, <2>2, <3>1
      <4> QED
        BY <1>4, <3>1, <4>1 DEF PaceInvariant, KeptToDue
    <3>2. \A ts : Due(ts)' = Due(ts)
      BY <2>1 DEF Due, Scaled
    <3> QED
      BY <2>1, <3>1, <3>2 DEF KeptToDue
  <2> QED
    BY <1>5, <2>3, <2>4 DEF PaceInvariant
<1> QED
  BY <1>6, <1>7

\* The order a spin was for is submitted when it is due, or later.
LEMMA EndSpinningPaced ==
    ASSUME Invariant, PaceInvariant, EndSpinning
    PROVE  PaceInvariant'
<1> DEFINE S == Len(submitted)
           first == clock.first_message_ts
<1>1. /\ Submit(update, Paced) /\ pc' = "loop" /\ pc = "spin" /\ clock' = clock
      /\ now >= target_system_time /\ Paced \in BOOLEAN
  BY DEF EndSpinning, Paced
<1>2. update.ts \in Nat /\ first \in Nat /\ messages_processed \in Nat
  BY DEF Invariant, TypeOK, Update
<1>3. first > 0 /\ now >= Due(update.ts)
  BY <1>1 DEF PaceInvariant, SpinsUntilDue
<1>4. /\ S \in Nat /\ Len(submitted') = S + 1
      /\ submitted'[S + 1] = [update |-> update, paced |-> Paced, at |-> now]
  BY <1>1, SubmitEntry
<1>5. /\ \A n \in Timed : n \in 1..S /\ submitted'[n] = submitted[n]
      /\ Timed' = Timed \cup (IF Paced /\ update.ts > 0 THEN {S + 1} ELSE {})
  BY <1>1, TimedMore
<1>6. Len(submitted') <= messages_processed' /\ ~Waits' /\ SpinsUntilDue'
  BY <1>1, <1>2, <1>4 DEF PaceInvariant, Submit, Waits, SpinsUntilDue
<1>7. Anchored'
  <2>1. PICK m \in Timed : /\ \A k \in Timed : m <= k
                           /\ submitted[m].update.ts = first
                           /\ submitted[m].at = clock.start_time
    BY <1>2, <1>3 DEF PaceInvariant, Anchored
  <2>2. m \in Timed' /\ \A k \in Timed' : m <= k
    BY <1>4, <1>5, <2>1
  <2> QED
    BY <1>1, <1>2, <1>3, <1>5, <2>1, <2>2 DEF Anchored
<1>8. KeptToDue'
  <2>1. ASSUME NEW n \in Timed', submitted'[n].update.ts > first
        PROVE  submitted'[n].at >= Due(submitted'[n].update.ts)
    <3>1. CASE n \in Timed
      BY <1>5, <2>1, <3>1 DEF PaceInvariant, KeptToDue
    <3>2. CASE n = S + 1
      BY <1>3, <1>4, <3>2
    <3> QED
      BY <1>5, <2>1, <3>1, <3>2
  <2>2. \A ts : Due(ts)' = Due(ts)
    BY <1>1 DEF Due, Scaled
  <2> QED
    BY <1>1, <2>1, <2>2 DEF KeptToDue
<1> QED
  BY <1>6, <1>7, <1>8 DEF PaceInvariant

\* step() resets the clock only when nothing was submitted, and paces nothing.
LEMMA StepPaced ==
    ASSUME Invariant, PaceInvariant, Step
    PROVE  PaceInvariant'
<1>1. PICK p \in Payloads \cup {Empty} :
        CASE p.size = "empty" -> UNCHANGED <<messages_processed, submitted>>
          [] p.size # "empty" /\ Parse(p) = NoUpdate ->
                 /\ messages_processed' = messages_processed + 1
                 /\ UNCHANGED submitted
          [] OTHER -> Submit(Parse(p), FALSE)
  BY DEF Step
<1>2. pc = "idle" /\ pc' = "idle"
  BY DEF Step
<1>3. messages_processed \in Nat /\ Len(submitted) \in Nat
      /\ DOMAIN submitted = 1..Len(submitted)
  BY LenProperties DEF Invariant, TypeOK
<1>4. /\ Len(submitted') <= messages_processed'
      /\ \A n \in Timed : submitted'[n] = submitted[n]
      /\ Timed' = Timed
  <2>1. CASE UNCHANGED submitted /\ messages_processed' \in
                {messages_processed, messages_processed + 1}
    BY <1>3, <2>1 DEF PaceInvariant, Timed
  <2>2. CASE Submit(Parse(p), FALSE)
    <3>1. Len(submitted') = Len(submitted) + 1
          /\ messages_processed' = messages_processed + 1
      BY <2>2, SubmitEntry DEF Submit
    <3>2. /\ \A n \in Timed : submitted'[n] = submitted[n]
          /\ Timed' = Timed
      BY <2>2, TimedMore
    <3> QED
      BY <1>3, <3>1, <3>2 DEF PaceInvariant
  <2> QED
    BY <1>1, <2>1, <2>2
<1>5. CASE messages_processed = 0
  <2>1. clock' = NewClock("SingleStep")
    BY <1>5 DEF Step
  <2>2. Timed = {}
    BY <1>3, <1>5 DEF PaceInvariant, Timed
  <2> QED
    BY <1>2, <1>4, <2>1, <2>2
    DEF PaceInvariant, Anchored, KeptToDue, SpinsUntilDue, Waits, NewClock
<1>6. CASE messages_processed # 0
  <2>1. clock' = clock
    BY <1>6 DEF Step
  <2>2. Anchored'
    BY <1>4, <2>1 DEF PaceInvariant, Anchored
  <2>3. \A ts : Due(ts)' = Due(ts)
    BY <2>1 DEF Due, Scaled
  <2>4. KeptToDue'
    BY <1>4, <2>1, <2>3 DEF PaceInvariant, KeptToDue
  <2> QED
    BY <1>2, <1>4, <2>2, <2>4 DEF PaceInvariant, SpinsUntilDue, Waits
<1> QED
  BY <1>5, <1>6

\* Every step of the replay engine keeps its pace.
LEMMA StepPace ==
    ASSUME NoWrap, Invariant, PaceInvariant, [Next]_vars
    PROVE  PaceInvariant'
<1>1. CASE \/ \E max \in 0..MaxPayloads : Run(max)
           \/ Tick \/ ResetMetrics \/ UNCHANGED vars
  <2>1. /\ UNCHANGED <<submitted, clock, messages_processed, update, target_system_time>>
        /\ (Waits' <=> Waits) /\ (pc' = "spin" => pc = "spin")
    BY <1>1 DEF Run, Tick, ResetMetrics, vars, Waits
  <2>2. SpinsUntilDue'
    BY <2>1 DEF PaceInvariant, SpinsUntilDue, Paced, Due, Scaled
  <2> QED
    BY <2>1, <2>2, PaceKept DEF PaceInvariant
<1>2. CASE StartSpinning
  <2>1. /\ UNCHANGED <<submitted, clock, messages_processed, update>>
        /\ pc = "wait" /\ ~ReturnsAtOnce /\ target_system_time' = TargetTime(update.ts)
    BY <1>2 DEF StartSpinning
  <2>2. /\ update.ts \in Nat /\ clock.first_message_ts \in Nat
        /\ update.ts + MaxNow < U64
    BY <2>1 DEF Invariant, TypeOK, Update, PaceInvariant, Waits
  <2>3. /\ Paced /\ clock.first_message_ts > 0
        /\ update.ts > clock.first_message_ts
    BY <2>1, <2>2 DEF ReturnsAtOnce, Anchoring, OutOfOrder
  <2>4. target_system_time' = Due(update.ts)
    BY <2>1, <2>2, <2>3, TargetIsDue
  <2>5. SpinsUntilDue'
    BY <2>1, <2>3, <2>4 DEF SpinsUntilDue, Paced, Due, Scaled
  <2>6. Waits' => update'.ts + MaxNow < U64
    BY <2>1, <2>2
  <2> QED
    BY <2>1, <2>5, <2>6, PaceKept DEF PaceInvariant
<1> QED
  BY <1>1, <1>2, LoopPaced, GoAheadPaced, EndSpinningPaced, StepPaced DEF Next, Running

\* No order is given earlier than its distance from the first paced one allows, the
\* timestamps in any order and step() called anywhere, while sums of a timestamp
\* and a time stay within 64 bits.
THEOREM PacedNeverEarly == ASSUME NoWrap PROVE Spec => []NeverEarly
<1>1. Init => PaceInvariant
  <2>1. Init => Timed = {}
    BY DEF Init, Timed
  <2> QED
    BY <2>1 DEF Init, PaceInvariant, Anchored, KeptToDue, SpinsUntilDue, Waits, NewClock
<1>2. Invariant /\ PaceInvariant => NeverEarly
  <2> SUFFICES ASSUME Invariant, PaceInvariant, NEW m \in Timed, NEW n \in Timed,
                      \A k \in Timed : m <= k,
                      submitted[n].update.ts - submitted[m].update.ts > 0
               PROVE  submitted[n].at - submitted[m].at >=
                        Scaled(submitted[n].update.ts - submitted[m].update.ts)
    BY DEF NeverEarly, Scaled
  <2> DEFINE Entry == [update : Update, paced : BOOLEAN, at : Nat]
  <2>1. submitted \in Seq(Entry) /\ clock.start_time \in Nat
    BY ReplayAssumption DEF Invariant, TypeOK
  <2>2. Timed \subseteq 1..Len(submitted)
    BY <2>1, LenProperties DEF Timed
  <2>3. submitted[m] \in Entry /\ submitted[n] \in Entry
    <3> HIDE DEF Entry
    <3> QED
      BY <2>1, <2>2, ElementOfSeq
  <2>4. /\ submitted[m].update.ts \in Nat /\ submitted[n].update.ts \in Nat
        /\ submitted[m].at \in Nat /\ submitted[n].at \in Nat
    BY <2>3 DEF Update
  <2>5. /\ submitted[m].update.ts = clock.first_message_ts
        /\ submitted[m].at = clock.start_time
    <3>1. Len(submitted) \in Nat
      BY <2>1, LenProperties
    <3>2. PICK k \in Timed : /\ \A j \in Timed : k <= j
                             /\ submitted[k].update.ts = clock.first_message_ts
                             /\ submitted[k].at = clock.start_time
      BY DEF PaceInvariant, Anchored
    <3>3. k = m
      BY <2>2, <3>1, <3>2
    <3> QED
      BY <3>2, <3>3
  <2> DEFINE distance == submitted[n].update.ts - submitted[m].update.ts
  <2>6. distance \in Nat /\ submitted[n].update.ts > clock.first_message_ts
    BY <2>4, <2>5
  <2>7. submitted[n].at >= clock.start_time + Scaled(distance)
    BY <2>5, <2>6 DEF PaceInvariant, KeptToDue, Due
  <2>8. Scaled(distance) \in Nat
    BY <2>6, ScaledShortens
  <2> HIDE DEF distance
  <2> QED
    BY <2>1, <2>4, <2>5, <2>7, <2>8 DEF distance
<1>3. Invariant /\ PaceInvariant /\ [Next]_vars => PaceInvariant'
  BY StepPace
<1> QED
  BY <1>1, <1>2, <1>3, InitInvariant, StepInvariant, PTL DEF Spec
-----------------------------------------------------------------------------
(* Exact percentiles.                                                      *)

\* Which of the latencies r are v, and which are at most v.
Equal(r, v) == {n \in 1..Len(r) : r[n] = v}
UpTo(r, v) == {n \in 1..Len(r) : r[n] <= v}

\* Histogram h has counted the latencies r: as many in each bucket as there are,
\* and the extremes of those there are.
Extremes(h, r) ==
    /\ \A n \in 1..Len(r) : h.min_ns <= r[n] /\ r[n] <= h.max_ns
    /\ Len(r) = 0 => h.min_ns = U64 - 1 /\ h.max_ns = 0
    /\ Len(r) > 0 => /\ \E n \in 1..Len(r) : r[n] = h.min_ns
                     /\ \E n \in 1..Len(r) : r[n] = h.max_ns
Bucketed(h, r) == \A v \in Buckets : h.buckets[v] = Cardinality(Equal(r, v))
Counted(h, r) == h.count = Len(r) /\ Bucketed(h, r) /\ Extremes(h, r)

CountInvariant ==
    /\ recorded \in Seq(0..MaxNow)
    /\ Counted(end_to_end_latency, recorded)

\* These sets are finite; the latencies up to w are those up to w - 1 and those of w.
LEMMA Splits ==
    ASSUME NEW r \in Seq(0..MaxNow), NEW w \in Nat
    PROVE  /\ IsFiniteSet(Equal(r, w)) /\ IsFiniteSet(UpTo(r, w))
           /\ IsFiniteSet(UpTo(r, w - 1))
           /\ Cardinality(UpTo(r, w)) \in Nat
           /\ Cardinality(UpTo(r, w - 1)) \in Nat
           /\ Cardinality(Equal(r, w)) \in Nat
           /\ Cardinality(UpTo(r, w)) =
                Cardinality(Equal(r, w)) + Cardinality(UpTo(r, w - 1))
           /\ w = 0 => Cardinality(UpTo(r, w - 1)) = 0
<1>1. Len(r) \in Nat /\ \A n \in 1..Len(r) : r[n] \in Nat
  <2>1. Len(r) \in Nat
    BY LenProperties
  <2>2. ASSUME NEW n \in 1..Len(r)
        PROVE  r[n] \in 0..MaxNow
    BY <2>2, ElementOfSeq
  <2> QED
    BY <2>1, <2>2, ReplayAssumption
<1>2. IsFiniteSet(1..Len(r))
  BY <1>1, FS_Interval
<1>3. IsFiniteSet(Equal(r, w)) /\ IsFiniteSet(UpTo(r, w)) /\ IsFiniteSet(UpTo(r, w - 1))
  BY <1>2, FS_Subset DEF Equal, UpTo
<1>4. UpTo(r, w) = Equal(r, w) \cup UpTo(r, w - 1) /\ Equal(r, w) \cap UpTo(r, w - 1) = {}
  BY <1>1 DEF Equal, UpTo
<1>5. /\ Cardinality(UpTo(r, w)) \in Nat
      /\ Cardinality(UpTo(r, w - 1)) \in Nat
      /\ Cardinality(Equal(r, w)) \in Nat
  BY <1>3, FS_CardinalityType
<1>6. Cardinality(UpTo(r, w)) = Cardinality(Equal(r, w)) + Cardinality(UpTo(r, w - 1))
  <2>1. Cardinality(UpTo(r, w)) =
            Cardinality(Equal(r, w)) + Cardinality(UpTo(r, w - 1)) - Cardinality({})
    BY <1>3, <1>4, FS_Union
  <2> QED
    BY <2>1, <1>5, FS_EmptySet
<1>7. w = 0 => UpTo(r, w - 1) = {}
  BY <1>1 DEF UpTo
<1> QED
  BY <1>3, <1>5, <1>6, <1>7, FS_EmptySet

\* Every set of naturals has a least element.
LEMMA LeastNatural ==
    ASSUME NEW S \in SUBSET Nat, S # {}
    PROVE  \E n \in S : \A m \in S : n <= m
<1>1. PICK x \in S : \A y \in S : ~ (<<y, x>> \in OpToRel(<, Nat))
  BY NatLessThanWellFounded, WFMin
<1>2. \A y \in S : ~(y < x)
  BY <1>1 DEF OpToRel
<1> QED
  BY <1>2

\* The recursion of the percentile's loop.
IsCumulative(h, f) ==
    f = [w \in Buckets |-> h.buckets[w] + (IF w = 0 THEN 0 ELSE f[w - 1])]

\* It is defined, and sums up to the number of latencies up to a bucket.
LEMMA CumulativeCounts ==
    ASSUME NEW h \in Histogram, NEW r \in Seq(0..MaxNow), Bucketed(h, r),
           NEW v \in Buckets
    PROVE  Cumulative(h, v) = Cardinality(UpTo(r, v))
<1> DEFINE g == [w \in Buckets |-> Cardinality(UpTo(r, w))]
           f == CHOOSE f : IsCumulative(h, f)
<1>1. Buckets \subseteq Nat /\ \A w \in Buckets : w # 0 => w - 1 \in Buckets
  BY ReplayAssumption DEF Buckets
<1>2. ASSUME NEW w \in Buckets
      PROVE  g[w] = h.buckets[w] + (IF w = 0 THEN 0 ELSE g[w - 1])
  <2>1. w \in Nat /\ (w # 0 => w - 1 \in Buckets)
    BY <1>1
  <2>2. g[w] = Cardinality(UpTo(r, w))
    OBVIOUS
  <2>3. w # 0 => g[w - 1] = Cardinality(UpTo(r, w - 1))
    BY <2>1
  <2>4. h.buckets[w] = Cardinality(Equal(r, w))
    BY DEF Bucketed
  <2> HIDE DEF g
  <2> QED
    BY <2>1, <2>2, <2>3, <2>4, Splits
<1>3. IsCumulative(h, g)
  <2> DEFINE k == [w \in Buckets |-> h.buckets[w] + (IF w = 0 THEN 0 ELSE g[w - 1])]
  <2>1. ASSUME NEW w \in Buckets
        PROVE  g[w] = k[w]
    <3>1. k[w] = h.buckets[w] + (IF w = 0 THEN 0 ELSE g[w - 1])
      OBVIOUS
    <3> HIDE DEF g, k
    <3> QED
      BY <1>2, <3>1
  <2>2. g = k
    BY <2>1
  <2> QED
    BY <2>2 DEF IsCumulative
<1> HIDE DEF g
<1>4. IsCumulative(h, f)
  BY <1>3
<1>5. Cumulative(h, v) = f[v]
  BY DEF Cumulative, IsCumulative
<1> HIDE DEF f
<1>6. ASSUME NEW w \in Buckets
      PROVE  f[w] = h.buckets[w] + (IF w = 0 THEN 0 ELSE f[w - 1])
  BY <1>4 DEF IsCumulative
<1>7. \A w \in Buckets : f[w] = g[w]
  <2> DEFINE bad == {w \in Buckets : f[w] # g[w]}
  <2> SUFFICES ASSUME bad # {}
               PROVE  FALSE
    OBVIOUS
  <2>1. bad \subseteq Nat
    BY <1>1
  <2>2. PICK w \in bad : \A k \in bad : w <= k
    BY <2>1, LeastNatural
  <2>3. w \in Buckets /\ w \in Nat /\ f[w] # g[w]
    BY <1>1, <2>2
  <2>4. w # 0 => f[w - 1] = g[w - 1]
    <3>1. w # 0 => w - 1 \in Buckets /\ w - 1 \notin bad
      BY <1>1, <2>2, <2>3
    <3> QED
      BY <3>1
  <2> QED
    BY <1>2, <1>6, <2>3, <2>4
<1> QED
  BY <1>5, <1>7 DEF g

\* record() counts a latency.
LEMMA RecordCounts ==
    ASSUME NEW h \in Histogram, NEW r \in Seq(0..MaxNow), Counted(h, r),
           NEW value \in 0..MaxNow
    PROVE  Counted(Record(h, value), Append(r, value))
<1> DEFINE s == Append(r, value)
           k == Record(h, value)
           N == Len(r)
<1>1. /\ N \in Nat /\ Len(s) = N + 1 /\ s[N + 1] = value /\ s \in Seq(0..MaxNow)
      /\ \A n \in 1..N : s[n] = r[n]
  BY LenProperties, AppendProperties
<1>2. value \in Nat /\ value <= U64 - 1 /\ U64 \in Nat
  BY ReplayAssumption
<1>3. /\ h.count \in Nat /\ h.min_ns \in Nat /\ h.max_ns \in Nat
      /\ h.buckets \in [Buckets -> Nat]
  BY DEF Histogram
<1>4. \A n \in 1..N : r[n] \in Nat
  BY ElementOfSeq, ReplayAssumption
<1>5. /\ k.count = h.count + 1
      /\ k.buckets = IF value \in Buckets THEN [h.buckets EXCEPT ![value] = @ + 1]
                     ELSE h.buckets
      /\ k.max_ns = IF value > h.max_ns THEN value ELSE h.max_ns
      /\ k.min_ns = IF value < h.min_ns THEN value ELSE h.min_ns
  BY DEF Record
<1> HIDE DEF s, k
<1>6. k.count = Len(s)
  BY <1>1, <1>5 DEF Counted
<1>7. ASSUME NEW v \in Buckets
      PROVE  k.buckets[v] = Cardinality(Equal(s, v))
  <2>1. h.buckets[v] = Cardinality(Equal(r, v))
    BY DEF Counted, Bucketed
  <2>2. k.buckets[v] = IF v = value THEN h.buckets[v] + 1 ELSE h.buckets[v]
    BY <1>3, <1>5
  <2>3. v \in Nat
    BY ReplayAssumption DEF Buckets
  <2>4. IsFiniteSet(Equal(r, v)) /\ N + 1 \notin Equal(r, v)
    BY <1>1, <2>3, Splits DEF Equal
  <2>5. CASE v = value
    <3>1. Equal(s, v) = Equal(r, v) \cup {N + 1}
      BY <1>1, <2>5 DEF Equal
    <3>2. Cardinality(Equal(s, v)) = Cardinality(Equal(r, v)) + 1
      BY <2>4, <3>1, FS_AddElement
    <3> QED
      BY <2>1, <2>2, <2>5, <3>2
  <2>6. CASE v # value
    <3>1. Equal(s, v) = Equal(r, v)
      BY <1>1, <2>6 DEF Equal
    <3> QED
      BY <2>1, <2>2, <2>6, <3>1
  <2> QED
    BY <2>5, <2>6
<1>8. Extremes(k, s)
  <2>1. Extremes(h, r)
    BY DEF Counted
  <2>2. \A n \in 1..Len(s) : k.min_ns <= s[n] /\ s[n] <= k.max_ns
    <3> SUFFICES ASSUME NEW n \in 1..Len(s)
                 PROVE  k.min_ns <= s[n] /\ s[n] <= k.max_ns
      OBVIOUS
    <3>1. CASE n = N + 1
      BY <1>1, <1>2, <1>3, <1>5, <3>1
    <3>2. CASE n # N + 1
      <4>1. n \in 1..N
        BY <1>1, <3>2
      <4>2. s[n] = r[n] /\ r[n] \in Nat /\ h.min_ns <= r[n] /\ r[n] <= h.max_ns
        BY <1>1, <1>4, <2>1, <4>1 DEF Extremes
      <4> QED
        BY <1>2, <1>3, <1>5, <4>2
    <3> QED
      BY <3>1, <3>2
  <2>3. \E n \in 1..Len(s) : s[n] = k.min_ns
    <3>1. CASE value < h.min_ns \/ N = 0
      <4>1. k.min_ns = value
        BY <1>2, <1>3, <1>5, <2>1, <3>1 DEF Extremes
      <4> QED
        BY <1>1, <4>1
    <3>2. CASE ~(value < h.min_ns) /\ N # 0
      <4>1. PICK n \in 1..N : r[n] = h.min_ns
        BY <1>1, <2>1, <3>2 DEF Extremes
      <4> QED
        BY <1>1, <1>5, <3>2, <4>1
    <3> QED
      BY <3>1, <3>2
  <2>4. \E n \in 1..Len(s) : s[n] = k.max_ns
    <3>1. CASE value > h.max_ns \/ N = 0
      <4>1. k.max_ns = value
        BY <1>2, <1>3, <1>5, <2>1, <3>1 DEF Extremes
      <4> QED
        BY <1>1, <4>1
    <3>2. CASE ~(value > h.max_ns) /\ N # 0
      <4>1. PICK n \in 1..N : r[n] = h.max_ns
        BY <1>1, <2>1, <3>2 DEF Extremes
      <4> QED
        BY <1>1, <1>5, <3>2, <4>1
    <3> QED
      BY <3>1, <3>2
  <2> QED
    BY <1>1, <2>2, <2>3, <2>4 DEF Extremes
<1>9. Bucketed(k, s)
  BY <1>7 DEF Bucketed
<1> QED
  BY <1>6, <1>8, <1>9 DEF Counted, s, k

\* reset() forgets every latency.
LEMMA NothingCounted == Counted(EmptyHistogram, << >>)
<1>1. Len(<< >>) = 0
  OBVIOUS
<1>2. ASSUME NEW v \in Buckets
      PROVE  EmptyHistogram.buckets[v] = Cardinality(Equal(<< >>, v))
  <2>1. Equal(<< >>, v) = {}
    BY DEF Equal
  <2> QED
    BY <2>1, FS_EmptySet DEF EmptyHistogram
<1>3. Bucketed(EmptyHistogram, << >>)
  BY <1>2 DEF Bucketed
<1>4. Extremes(EmptyHistogram, << >>)
  BY <1>1 DEF Extremes, EmptyHistogram
<1>5. EmptyHistogram.count = Len(<< >>)
  BY <1>1 DEF EmptyHistogram
<1> QED
  BY <1>3, <1>4, <1>5 DEF Counted

\* Only a submission that run() waited for and a reset touch the histogram.
LEMMA StepCounts == Invariant /\ CountInvariant /\ [Next]_vars => CountInvariant'
<1> SUFFICES ASSUME Invariant, CountInvariant, [Next]_vars
             PROVE  CountInvariant'
  OBVIOUS
<1>1. CASE RecordLatency
  <2>1. now - start_e2e \in 0..MaxNow /\ end_to_end_latency \in Histogram
    BY ReplayAssumption DEF Invariant, TypeOK
  <2> DEFINE value == now - start_e2e
  <2>2. /\ end_to_end_latency' = Record(end_to_end_latency, value)
        /\ recorded' = Append(recorded, value)
    BY <1>1 DEF RecordLatency
  <2> HIDE DEF value
  <2>3. value \in 0..MaxNow
    BY <2>1 DEF value
  <2>4. Counted(end_to_end_latency', recorded')
    BY <2>1, <2>2, <2>3, RecordCounts DEF CountInvariant
  <2>5. recorded' \in Seq(0..MaxNow)
    BY <2>2, <2>3, AppendProperties DEF CountInvariant
  <2> QED
    BY <2>4, <2>5 DEF CountInvariant
<1>2. CASE end_to_end_latency' = EmptyHistogram /\ recorded' = << >>
  <2>1. recorded' \in Seq(0..MaxNow)
    BY <1>2
  <2> QED
    BY <1>2, <2>1, NothingCounted DEF CountInvariant
<1>3. CASE UNCHANGED <<end_to_end_latency, recorded>>
  BY <1>3 DEF CountInvariant
<1>4. \/ RecordLatency
      \/ end_to_end_latency' = EmptyHistogram /\ recorded' = << >>
      \/ UNCHANGED <<end_to_end_latency, recorded>>
  BY DEF Next, Running, Run, Loop, GoAhead, StartSpinning, EndSpinning, Step, Tick,
         ResetMetrics, metrics, vars
<1> QED
  BY <1>1, <1>2, <1>3, <1>4

\* A percentile's rank is one of a latency.
LEMMA RankIn ==
    ASSUME NEW h \in Histogram, h.count > 0, NEW p \in Percents, NEW rank \in Ranks(h, p)
    PROVE  rank \in 1..h.count
<1> DEFINE c == h.count
           a == (p * c) \div 100
           b == (p * c - 1) \div 100
<1>1. c \in Nat /\ c >= 1 /\ p \in Int /\ p >= 1 /\ p <= 99
  BY ReplayAssumption DEF Histogram
<1>2. p * c \in Int /\ p * c <= 99 * c /\ p * c >= 1
  <2> HIDE DEF c
  <2> QED
    BY <1>1, SMTT(30)
<1> DEFINE x == p * c
<1>3. rank = (IF a <= 0 THEN 1 ELSE a) \/ rank = (IF b <= 0 THEN 1 ELSE b)
  BY DEF Ranks
<1>4. a = x \div 100 /\ b = (x - 1) \div 100 /\ x \in Int /\ x <= 99 * c /\ x >= 1
  BY <1>2
<1> HIDE DEF a, b, c, x
<1>5. a \in Int /\ b \in Int /\ a <= c /\ b <= c
  BY <1>1, <1>4
<1>6. rank \in 1..c
  BY <1>1, <1>3, <1>5
<1> QED
  BY <1>6 DEF c

\* What the histogram answers of the latencies it counted.
LEMMA PercentileAnswers ==
    ASSUME NEW h \in Histogram, NEW r \in Seq(0..MaxNow), Counted(h, r),
           NEW p \in Percents, NEW rank \in Ranks(h, p), Len(r) > 0
    PROVE  LET v == Percentile(h, p, rank)
           IN  /\ \E n \in 1..Len(r) : r[n] = v
               /\ Cardinality(UpTo(r, v)) >= rank
               /\ v < MaxValueNs => Cardinality(UpTo(r, v - 1)) < rank
<1> DEFINE v == Percentile(h, p, rank)
           reached == {w \in Buckets : Cumulative(h, w) >= rank}
           N == Len(r)
<1>1. /\ N \in Nat /\ N > 0 /\ h.count = N /\ Bucketed(h, r) /\ Extremes(h, r)
      /\ \A n \in 1..N : r[n] \in Nat
      /\ h.max_ns \in Nat /\ MaxValueNs \in Nat
  BY LenProperties, ElementOfSeq, ReplayAssumption DEF Counted, Histogram
<1>2. rank \in Nat /\ 1 <= rank /\ rank <= N
  BY <1>1, RankIn
<1>3. ASSUME NEW w \in Buckets
      PROVE  /\ w \in Nat /\ w < MaxValueNs /\ (w # 0 => w - 1 \in Buckets)
             /\ Cumulative(h, w) = Cardinality(UpTo(r, w))
  BY <1>1, CumulativeCounts DEF Buckets
<1>4. p \in Int /\ ~(p <= 0) /\ ~(p >= 100)
  BY ReplayAssumption
<1>5. v = IF reached = {} THEN h.max_ns ELSE CHOOSE w \in reached : \A k \in reached : w <= k
  BY <1>1, <1>4 DEF Percentile, Maximum
<1> HIDE DEF v
<1>6. CASE reached # {}
  <2>1. reached \subseteq Nat
    BY <1>3
  <2>2. \E w \in reached : \A k \in reached : w <= k
    BY <1>6, <2>1, LeastNatural
  <2>3. v \in reached /\ \A k \in reached : v <= k
    BY <1>5, <1>6, <2>2
  <2>4. /\ v \in Buckets /\ v \in Nat /\ (v # 0 => v - 1 \in Buckets)
        /\ Cardinality(UpTo(r, v)) >= rank
    BY <1>3, <2>3
  <2>5. /\ Cardinality(UpTo(r, v)) = Cardinality(Equal(r, v)) + Cardinality(UpTo(r, v - 1))
        /\ Cardinality(UpTo(r, v - 1)) \in Nat /\ Cardinality(Equal(r, v)) \in Nat
        /\ IsFiniteSet(Equal(r, v))
        /\ v = 0 => Cardinality(UpTo(r, v - 1)) = 0
    BY <2>4, Splits
  <2>6. Cardinality(UpTo(r, v - 1)) < rank
    <3>1. CASE v = 0
      BY <1>2, <2>5, <3>1
    <3>2. CASE v # 0
      <4>1. v - 1 \in Buckets /\ v - 1 \notin reached
        BY <2>3, <2>4, <3>2
      <4>2. ~(Cumulative(h, v - 1) >= rank)
        BY <4>1
      <4> QED
        BY <1>2, <1>3, <2>5, <4>1, <4>2
    <3> QED
      BY <3>1, <3>2
  <2>7. Equal(r, v) # {}
    BY <1>2, <2>4, <2>5, <2>6, FS_EmptySet
  <2>8. \E n \in 1..N : r[n] = v
    BY <2>7 DEF Equal
  <2> QED
    BY <2>4, <2>6, <2>8 DEF v
<1>7. CASE reached = {}
  <2>1. v = h.max_ns
    BY <1>5, <1>7
  <2>2. \E n \in 1..N : r[n] = v
    BY <1>1, <2>1 DEF Extremes
  <2>3. \A w \in Nat : v <= w => Cardinality(UpTo(r, w)) = N
    <3> SUFFICES ASSUME NEW w \in Nat, v <= w
                 PROVE  Cardinality(UpTo(r, w)) = N
      OBVIOUS
    <3>1. \A n \in 1..N : r[n] <= w
      BY <1>1, <2>1 DEF Extremes
    <3>2. UpTo(r, w) = 1..N
      BY <3>1 DEF UpTo
    <3>3. Cardinality(1..N) = N
      <4>1. N \in Nat /\ N > 0
        BY <1>1
      <4> HIDE DEF N
      <4> QED
        BY <4>1, FS_Interval
    <3> QED
      BY <3>2, <3>3
  <2>4. Cardinality(UpTo(r, v)) >= rank
    BY <1>1, <1>2, <2>1, <2>3
  <2>5. ~(v < MaxValueNs)
    <3> SUFFICES ASSUME v < MaxValueNs
                 PROVE  FALSE
      OBVIOUS
    <3>1. MaxValueNs - 1 \in Buckets /\ MaxValueNs - 1 \in Nat /\ v <= MaxValueNs - 1
      BY <1>1, <2>1 DEF Buckets
    <3>2. Cumulative(h, MaxValueNs - 1) = N
      BY <1>3, <2>3, <3>1
    <3> QED
      BY <1>1, <1>2, <1>7, <3>1, <3>2
  <2> QED
    BY <2>2, <2>4, <2>5 DEF v
<1> QED
  BY <1>6, <1>7

\* Resets included, the histogram's extremes are the least and the greatest latency
\* recorded since, and every percentile is a recorded one with its rank of latencies
\* up to it and, outside the overflow bucket, fewer below: for every number of
\* buckets, every percentage and every rank the doubles may lead to.
THEOREM LatencyReportExact == Spec => []PercentileExact
<1>1. Init => CountInvariant
  <2> SUFFICES ASSUME Init
               PROVE  CountInvariant
    OBVIOUS
  <2>1. recorded = << >> /\ end_to_end_latency = EmptyHistogram
    BY DEF Init
  <2>2. recorded \in Seq(0..MaxNow)
    BY <2>1
  <2> QED
    BY <2>1, <2>2, NothingCounted DEF CountInvariant
<1>2. Invariant /\ CountInvariant => PercentileExact
  <2> SUFFICES ASSUME Invariant, CountInvariant
               PROVE  PercentileExact
    OBVIOUS
  <2> DEFINE h == end_to_end_latency
             r == recorded
             latencies == {recorded[n] : n \in DOMAIN recorded}
  <2>1. h \in Histogram /\ r \in Seq(0..MaxNow) /\ Counted(h, r)
    BY DEF Invariant, TypeOK, CountInvariant
  <2>2. DOMAIN recorded = 1..Len(recorded) /\ Len(recorded) \in Nat
    BY <2>1, LenProperties
  <2>3. \A v : Cardinality({n \in DOMAIN recorded : recorded[n] <= v}) =
               Cardinality(UpTo(recorded, v))
    BY <2>2 DEF UpTo
  <2>4. \A v : v \in latencies <=> \E n \in 1..Len(recorded) : recorded[n] = v
    BY <2>2
  <2> SUFFICES ASSUME recorded # << >>
               PROVE  /\ \E least \in latencies :
                            /\ Percentile(end_to_end_latency, 0, 0) = least
                            /\ \A v \in latencies : least <= v
                      /\ \E most \in latencies :
                            /\ Percentile(end_to_end_latency, 100, 0) = most
                            /\ \A v \in latencies : v <= most
                      /\ \A p \in Percents : \A rank \in Ranks(end_to_end_latency, p) :
                            LET v == Percentile(end_to_end_latency, p, rank)
                            IN  /\ v \in latencies
                                /\ Cardinality({n \in DOMAIN recorded : recorded[n] <= v})
                                        >= rank
                                /\ v < MaxValueNs =>
                                    Cardinality({n \in DOMAIN recorded : recorded[n] <= v - 1})
                                        < rank
    BY DEF PercentileExact
  <2>5. Len(recorded) > 0
    BY <2>1, <2>2, EmptySeq
  <2>6. h.count > 0 /\ Extremes(h, r)
    BY <2>1, <2>5 DEF Counted
  <2>7. Percentile(h, 0, 0) = h.min_ns /\ Percentile(h, 100, 0) = h.max_ns
    BY <2>6 DEF Percentile, Minimum, Maximum
  <2>8. /\ h.min_ns \in latencies /\ h.max_ns \in latencies
        /\ \A v \in latencies : h.min_ns <= v /\ v <= h.max_ns
    <3> HIDE DEF latencies
    <3> QED
      BY <2>2, <2>4, <2>5, <2>6 DEF Extremes
  <2>9. ASSUME NEW p \in Percents, NEW rank \in Ranks(h, p)
        PROVE  LET v == Percentile(h, p, rank)
               IN  /\ v \in latencies
                   /\ Cardinality(UpTo(recorded, v)) >= rank
                   /\ v < MaxValueNs => Cardinality(UpTo(recorded, v - 1)) < rank
    BY <2>1, <2>4, <2>5, PercentileAnswers
  <2> HIDE DEF latencies
  <2> QED
    BY <2>3, <2>7, <2>8, <2>9
<1> QED
  BY <1>1, <1>2, InitInvariant, StepInvariant, StepCounts, PTL DEF Spec
=============================================================================
