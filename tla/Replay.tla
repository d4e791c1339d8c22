------------------------------- MODULE Replay -------------------------------
(***************************************************************************)
(* The replay loop of include/tradecore/replay with the ITCH parser it     *)
(* reads through and the clock it paces itself by.  One thread calls run() *)
(* and step() in any order; real time passes on its own.                   *)
(*                                                                         *)
(* Abstractions: a payload is the fields the parser reads from it, its     *)
(* timestamp what read_timestamp delivers (see ITCHParser); of the metrics *)
(* there is the end-to-end histogram; match() is the submission of its     *)
(* action, which MatchingEngine models.  run() compares the result with    *)
(* UpdateType::Unknown, which is its std::nullopt here.  The parser        *)
(* produces additions only, so run()'s dispatch of other updates into the  *)
(* book, modelled in MatchingEngine, never happens from here.              *)
(***************************************************************************)
EXTENDS Integers, Sequences, FiniteSets

CONSTANTS
    Payloads,     \* what the source may hold; some may be empty
    MaxPayloads,  \* bound: length of the source
    Factor,       \* acceleration_factor
    MaxStart,     \* bound: how far time runs on while nobody waits
    MaxNow,       \* bound: how far time runs on at all
    U64,          \* 2^64 in the code
    MaxValueNs,   \* buckets of the latency histogram
    Percents      \* whole percentages between 0 and 100 it is asked for

\* "other" stands for every message type without a parser.
Payload == [size : {"whole", "short", "empty"}, type : {"A", "F", "other"},
            buysell : {"B", "other"}, price : Nat, shares : Nat, ts : Nat]

ASSUME ReplayAssumption ==
    /\ Payloads \subseteq Payload
    /\ MaxPayloads \in Nat /\ MaxStart \in Nat /\ MaxNow \in Nat
    /\ Factor \in Nat \ {0} /\ U64 \in Nat \ {0} /\ MaxNow < U64
    /\ MaxValueNs \in Nat /\ Percents \subseteq 1..99

INSTANCE Histogram WITH NoMinimum <- U64 - 1

VARIABLES
    pc,                  \* "idle" between calls, "loop", "wait", "spin" inside run()
    max_messages,        \* run()'s argument
    update,              \* what run() is to submit next, else NoUpdate
    target_system_time,  \* what wait_until() spins for, else 0
    clock,               \* clock_
    messages_processed,
    now,                 \* current_system_ns(), get_time_ns()
    start_e2e,           \* when run() took the payload it waits with, else 0
    end_to_end_latency,  \* the registry's histogram
    recorded,            \* history: the latencies recorded since its reset
    fetched,             \* history: the payloads taken from the source
    submitted            \* history: the actions matched, with how they were paced

vars == <<pc, max_messages, update, target_system_time, clock, messages_processed,
          now, fetched, submitted, start_e2e, end_to_end_latency, recorded>>
metrics == <<start_e2e, end_to_end_latency, recorded>>

Modes == {"RealTime", "Accelerated", "MaxThroughput", "SingleStep"}
NewClock(mode) == [mode |-> mode, first_message_ts |-> 0, start_time |-> 0]

Empty == [size |-> "empty", type |-> "other", buysell |-> "other", price |-> 0,
          shares |-> 0, ts |-> 0]
NoUpdate == [side |-> 0, price |-> 0, qty |-> 0, ts |-> 0]
-----------------------------------------------------------------------------
(* The parser.                                                             *)

\* BookUpdateValidator on the updates parse_add_order builds.
Validate(u) == u.price # 0 /\ u.qty # 0

AddOrderOf(p) == [side |-> IF p.buysell = "B" THEN 0 ELSE 1, price |-> p.price,
                  qty |-> p.shares, ts |-> p.ts]

\* The dispatch table knows 'A' and 'F'; short and invalid messages are dropped.
Parse(p) ==
    IF p.type \in {"A", "F"} /\ p.size = "whole" /\ Validate(AddOrderOf(p))
    THEN AddOrderOf(p) ELSE NoUpdate
-----------------------------------------------------------------------------
(* The source: payloads_ and idx_.                                         *)

ExhaustedLate == Len(fetched) > MaxPayloads
Exhausted == Len(fetched) >= MaxPayloads

NextPayload(p) ==
    IF Exhausted THEN p = Empty /\ UNCHANGED fetched
    ELSE p \in Payloads /\ fetched' = Append(fetched, p)

Paced == clock.mode \in {"RealTime", "Accelerated"}

\* run() records how long its message took, the waiting included, and is done
\* with it.
RecordLatency ==
    /\ end_to_end_latency' = Record(end_to_end_latency, now - start_e2e)
    /\ recorded' = Append(recorded, now - start_e2e)
    /\ start_e2e' = 0

\* match() gets the action of update u.
Submit(u, paced) ==
    /\ submitted' = Append(submitted, [update |-> u, paced |-> paced, at |-> now])
    /\ messages_processed' = messages_processed + 1
-----------------------------------------------------------------------------
(* ReplayClock::wait_until.                                                *)

\* The factor is applied in every mode.
ScaledAlways(elapsed) == elapsed \div Factor
Scaled(elapsed) ==
    IF clock.mode = "Accelerated" THEN elapsed \div Factor ELSE elapsed

\* Only the anchor's own timestamp is looked for.
OutOfOrderIfEqual(ts) == ts = clock.first_message_ts
OutOfOrder(ts) == ts <= clock.first_message_ts

TargetTime(ts) ==
    (clock.start_time + Scaled((ts - clock.first_message_ts) % U64)) % U64

Anchoring == Paced /\ clock.first_message_ts = 0
ReturnsAtOnce == ~Paced \/ Anchoring \/ OutOfOrder(update.ts)

\* wait_until() returns without looking at the time again; run() submits.
GoAhead ==
    /\ pc = "wait" /\ ReturnsAtOnce
    /\ clock' = IF Anchoring
                THEN [clock EXCEPT !.first_message_ts = update.ts, !.start_time = now]
                ELSE clock
    /\ Submit(update, Paced) /\ RecordLatency
    /\ pc' = "loop" /\ update' = NoUpdate
    /\ UNCHANGED <<max_messages, target_system_time, now, fetched>>

\* wait_until() computes what it spins for.
StartSpinning ==
    /\ pc = "wait" /\ ~ReturnsAtOnce
    /\ target_system_time' = TargetTime(update.ts)
    /\ pc' = "spin"
    /\ UNCHANGED <<max_messages, update, clock, messages_processed, now, fetched,
                   submitted, metrics>>

\* The spin ends and run() submits.
EndSpinning ==
    /\ pc = "spin" /\ now >= target_system_time
    /\ Submit(update, Paced) /\ RecordLatency
    /\ pc' = "loop" /\ update' = NoUpdate /\ target_system_time' = 0
    /\ UNCHANGED <<max_messages, clock, now, fetched>>
-----------------------------------------------------------------------------
(* ReplayEngine.                                                           *)

Run(max) ==
    /\ pc = "idle"
    /\ pc' = "loop" /\ max_messages' = max
    /\ UNCHANGED <<update, target_system_time, clock, messages_processed, now,
                   fetched, submitted, metrics>>

\* The payload is taken before the limit is looked at.
LoopFetchFirst ==
    /\ pc = "loop"
    /\ \E p \in Payloads \cup {Empty} :
        /\ NextPayload(p)
        /\ update' = Parse(p) /\ start_e2e' = now
        /\ pc' = CASE messages_processed >= max_messages \/ p.size = "empty" -> "idle"
                   [] Parse(p) = NoUpdate -> "loop"
                   [] OTHER -> "wait"
    /\ UNCHANGED <<max_messages, target_system_time, clock, messages_processed, now,
                   submitted, end_to_end_latency, recorded>>

\* The loop's condition, in its order: the limit, then the next payload.  An
\* empty payload ends the run; one that is no book update is skipped, uncounted.
Loop ==
    /\ pc = "loop"
    /\ IF messages_processed >= max_messages
       THEN pc' = "idle" /\ UNCHANGED <<update, fetched, start_e2e>>
       ELSE \E p \in Payloads \cup {Empty} :
                /\ NextPayload(p)
                /\ update' = Parse(p)
                /\ start_e2e' = IF Parse(p) = NoUpdate THEN 0 ELSE now
                /\ pc' = CASE p.size = "empty" -> "idle"
                           [] p.size # "empty" /\ Parse(p) = NoUpdate -> "loop"
                           [] OTHER -> "wait"
    /\ UNCHANGED <<max_messages, target_system_time, clock, messages_processed, now,
                   submitted, end_to_end_latency, recorded>>

\* step(): nothing waits, and messages that are no book updates count too.
Step ==
    /\ pc = "idle"
    /\ clock' = IF messages_processed = 0 THEN NewClock("SingleStep") ELSE clock
    /\ \E p \in Payloads \cup {Empty} :
        /\ NextPayload(p)
        /\ CASE p.size = "empty" -> UNCHANGED <<messages_processed, submitted>>
             [] p.size # "empty" /\ Parse(p) = NoUpdate ->
                    /\ messages_processed' = messages_processed + 1
                    /\ UNCHANGED submitted
             [] OTHER -> Submit(Parse(p), FALSE)
    /\ UNCHANGED <<pc, max_messages, update, target_system_time, now, metrics>>

\* Time passes, with the bounds of a finite instance.
Tick ==
    /\ now < MaxNow /\ (pc = "spin" \/ now < MaxStart)
    /\ now' = now + 1
    /\ UNCHANGED <<pc, max_messages, update, target_system_time, clock,
                   messages_processed, fetched, submitted, metrics>>

\* MetricsRegistry::reset(), between two calls.
ResetMetrics ==
    /\ pc = "idle"
    /\ end_to_end_latency' = EmptyHistogram
    /\ recorded' = << >>
    /\ UNCHANGED <<pc, max_messages, update, target_system_time, clock,
                   messages_processed, now, fetched, submitted, start_e2e>>

Init ==
    /\ pc = "idle" /\ max_messages = 0 /\ update = NoUpdate /\ target_system_time = 0
    /\ clock \in {NewClock(mode) : mode \in Modes}
    /\ messages_processed = 0 /\ now = 0 /\ fetched = << >> /\ submitted = << >>
    /\ start_e2e = 0 /\ end_to_end_latency = EmptyHistogram /\ recorded = << >>

Running == Loop \/ GoAhead \/ StartSpinning \/ EndSpinning
Next ==
    (\E max \in 0..MaxPayloads : Run(max)) \/ Running \/ Step \/ Tick \/ ResetMetrics

\* The thread inside run() runs on, and time with it.
Spec == Init /\ [][Next]_vars /\ WF_vars(Running) /\ WF_vars(Tick)
-----------------------------------------------------------------------------
(* Correctness.                                                            *)

\* The engine's fields keep their types and the source is never read past its
\* end; an update is held only while it waits to be submitted.
TypeOK ==
    /\ pc \in {"idle", "loop", "wait", "spin"}
    /\ max_messages \in 0..MaxPayloads /\ messages_processed \in 0..MaxPayloads
    /\ clock \in [mode : Modes, first_message_ts : Nat, start_time : 0..MaxNow]
    /\ now \in 0..MaxNow /\ target_system_time \in 0..(U64 - 1)
    /\ fetched \in Seq(Payloads) /\ Len(fetched) <= MaxPayloads
    /\ end_to_end_latency \in Histogram /\ start_e2e \in 0..now

\* Deterministic replay: whatever the mode, the pace and the slicing into calls
\* of run() and step(), the matcher has been given exactly the additions among
\* the payloads taken from the source, each once and in their order, but for
\* the one run() is waiting with.  A limit of messages loses none.
Additions == {n \in DOMAIN fetched : Parse(fetched[n]) # NoUpdate}
Given == LET given == [n \in DOMAIN submitted |-> submitted[n].update]
         IN  IF pc \in {"wait", "spin"} THEN Append(given, update) ELSE given
EveryOrderOnce ==
    \E place \in [DOMAIN Given -> Additions] :
        /\ \A m, n \in DOMAIN Given : m < n => place[m] < place[n]
        /\ \A k \in Additions : \E n \in DOMAIN Given : place[n] = k
        /\ \A n \in DOMAIN Given : Given[n] = Parse(fetched[place[n]])

\* A paced run never gives an order early: each comes at least its distance in
\* time from the first paced order with a timestamp, divided by the factor in
\* accelerated mode, after that one, also when timestamps go back in between and
\* when step() was called in between.
Timed == {n \in DOMAIN submitted : submitted[n].paced /\ submitted[n].update.ts > 0}
NeverEarly ==
    \A m, n \in Timed :
        LET distance == submitted[n].update.ts - submitted[m].update.ts
        IN  (\A k \in Timed : m <= k) /\ distance > 0 =>
                submitted[n].at - submitted[m].at >=
                    IF clock.mode = "Accelerated" THEN distance \div Factor ELSE distance

\* The histogram reports latencies that were recorded, whatever ranks the
\* percentile's arithmetic in doubles leads to, resets included: the extremes are
\* exact, and a percentile is a recorded latency that at least its rank of
\* latencies do not exceed and, but for the overflow bucket, fewer are below.
PercentileExact ==
    LET latencies == {recorded[n] : n \in DOMAIN recorded}
        upto(v) == Cardinality({n \in DOMAIN recorded : recorded[n] <= v})
    IN  recorded # << >> =>
            /\ \E least \in latencies :
                /\ Percentile(end_to_end_latency, 0, 0) = least
                /\ \A v \in latencies : least <= v
            /\ \E most \in latencies :
                /\ Percentile(end_to_end_latency, 100, 0) = most
                /\ \A v \in latencies : v <= most
            /\ \A p \in Percents : \A rank \in Ranks(end_to_end_latency, p) :
                LET v == Percentile(end_to_end_latency, p, rank)
                IN  /\ v \in latencies /\ upto(v) >= rank
                    /\ v < MaxValueNs => upto(v - 1) < rank

\* Every call of run() comes to its end: no wait is for a time that never comes,
\* whatever the order of the timestamps, and skipped messages use up the source.
RunReturns == (pc # "idle") ~> (pc = "idle")
=============================================================================
