----------------------------- MODULE PingDisplay -----------------------------
(***************************************************************************)
(* The invented ping of a managed bot: samples drawn around a baseline,    *)
(* averaged over a window, and shown when the average has changed.  The    *)
(* slots do not depend on one another; the module follows one of them,     *)
(* from the configuration file on.                                         *)
(***************************************************************************)
EXTENDS Integers, Sequences

CONSTANTS kWindowTicks, kWriteEveryTicks,
          DefaultMin, DefaultMax,  \* the Settings' own range
          Highest,                 \* the largest ping a file may ask for
          Numbers,                 \* integers the file may hold
          Absent, NotANumber       \* a key that is missing, or of another type

ASSUME PingAssumption ==
  /\ kWindowTicks \in Nat \ {0} /\ kWriteEveryTicks \in Nat \ {0}
  /\ Highest \in Nat /\ DefaultMin \in 1 .. Highest /\ DefaultMax \in DefaultMin .. Highest
  /\ Numbers \subseteq Int
  /\ Absent \notin Numbers /\ NotANumber \notin Numbers

VARIABLES fakePing,   \* [enabled, min, max] as ConfigureFakePing was given it
          managed,    \* the slot is adopted
          baseline,   \* m_baseline of the slot's jitter
          ping,       \* ping of the slot's snapshot
          samples, idx, sum, filled, ticksSinceWrite, lastWritten,  \* PingDisplay
          recent      \* history: the samples of this bot, the latest last

display == << samples, idx, sum, filled, ticksSinceWrite, lastWritten >>
pingVars == << fakePing, managed, baseline, ping, display, recent >>

Window == 0 .. kWindowTicks - 1

PingTypeOK ==
  /\ fakePing \in [enabled : BOOLEAN, min : Nat, max : Nat]
  /\ managed \in BOOLEAN /\ baseline \in Nat /\ ping \in Nat
  /\ samples \in [Window -> Nat] /\ idx \in Window /\ sum \in Nat
  /\ filled \in 0 .. kWindowTicks /\ ticksSinceWrite \in 0 .. kWriteEveryTicks - 1
  /\ lastWritten \in Nat
  /\ recent \in Seq(Nat) /\ Len(recent) = filled

(***************************************************************************)
(* config::Load: a range is taken as a whole or not at all.                *)
(***************************************************************************)
Entry == Numbers \cup {Absent, NotANumber}
Readable(n) == n = Absent \/ (n \in Numbers /\ n >= 1 /\ n <= Highest)
Load_EachAlone(enabled, min, max) ==
  [enabled |-> enabled,
   min |-> IF min # Absent /\ Readable(min) THEN min ELSE DefaultMin,
   max |-> IF max # Absent /\ Readable(max) THEN max ELSE DefaultMax]
Load(enabled, min, max) ==
  LET low == IF min = Absent THEN DefaultMin ELSE min
      high == IF max = Absent THEN DefaultMax ELSE max
  IN  IF Readable(min) /\ Readable(max) /\ low <= high
        THEN [enabled |-> enabled, min |-> low, max |-> high]
        ELSE [enabled |-> enabled, min |-> DefaultMin, max |-> DefaultMax]

(***************************************************************************)
(* PingJitter and PingDisplay.                                             *)
(***************************************************************************)
Clamped(v) ==
  LET raised == IF v < fakePing.min THEN fakePing.min ELSE v
  IN  IF raised > fakePing.max THEN fakePing.max ELSE raised

\* NextSample: within a tenth of the baseline, rounded up, and in the range.
NextSamples ==
  LET span == (baseline + 9) \div 10
  IN  {Clamped(baseline + delta) : delta \in -span .. span}

\* RecordSample: the oldest sample leaves the sum as the new one enters it.
RecordSample_KeepOldest(v) ==
  /\ samples' = [samples EXCEPT ![idx] = v]
  /\ sum' = IF filled < kWindowTicks THEN sum + v ELSE sum
  /\ idx' = (idx + 1) % kWindowTicks
  /\ filled' = IF filled < kWindowTicks THEN filled + 1 ELSE filled
RecordSample(v) ==
  /\ samples' = [samples EXCEPT ![idx] = v]
  /\ sum' = sum + v - samples[idx]
  /\ idx' = (idx + 1) % kWindowTicks
  /\ filled' = IF filled < kWindowTicks THEN filled + 1 ELSE filled

\* MaybeProduce, after the sample was recorded: every kWriteEveryTicks ticks,
\* an average that differs from the last one.
MaybeProduce ==
  LET due == ticksSinceWrite + 1 >= kWriteEveryTicks
      average == sum' \div filled'
  IN  /\ ticksSinceWrite' = IF due THEN 0 ELSE ticksSinceWrite + 1
      /\ IF due /\ average # lastWritten
           THEN lastWritten' = average /\ ping' = average
           ELSE UNCHANGED << lastWritten, ping >>

Reset ==
  /\ samples' = [i \in Window |-> 0]
  /\ idx' = 0 /\ sum' = 0 /\ filled' = 0 /\ ticksSinceWrite' = 0
  /\ lastWritten' = 0

(***************************************************************************)
(* The manager.                                                            *)
(***************************************************************************)
\* AdoptSlot clears the slot first; b is drawn from the configured range.
AdoptSlot(b) ==
  /\ managed' = TRUE
  /\ baseline' = b
  /\ ping' = IF fakePing.enabled THEN b ELSE 0
  /\ Reset /\ recent' = << >>
  /\ UNCHANGED fakePing

ReleaseSlot ==
  /\ managed' = FALSE
  /\ ping' = 0
  /\ Reset /\ recent' = << >>
  /\ UNCHANGED << fakePing, baseline >>

OnTick(v) ==
  /\ managed /\ fakePing.enabled
  /\ RecordSample(v)
  /\ MaybeProduce
  /\ recent' = Append(IF Len(recent) = kWindowTicks THEN Tail(recent) ELSE recent, v)
  /\ UNCHANGED << fakePing, managed, baseline >>

PingInit ==
  /\ \E enabled \in BOOLEAN, min, max \in Entry : fakePing = Load(enabled, min, max)
  /\ managed = FALSE /\ baseline = 0 /\ ping = 0
  /\ samples = [i \in Window |-> 0]
  /\ idx = 0 /\ sum = 0 /\ filled = 0 /\ ticksSinceWrite = 0 /\ lastWritten = 0
  /\ recent = << >>

PingNext ==
  \/ \E b \in fakePing.min .. fakePing.max : AdoptSlot(b)
  \/ ReleaseSlot
  \/ \E v \in NextSamples : OnTick(v)

PingSpec == PingInit /\ [][PingNext]_pingVars

-------------------------------------------------------------------------------
\* The sum of the first n numbers of s, for every n; all of them.
PrefixSums(s) ==
  LET upTo[n \in 0 .. Len(s)] == IF n = 0 THEN 0 ELSE upTo[n - 1] + s[n]
  IN  upTo
Total(s) == PrefixSums(s)[Len(s)]

\* Whatever the configuration file holds, a bot shows a ping from a valid range
\* it or the defaults give, from its first tick to its last; none when disabled.
PingInRange ==
  /\ 1 <= fakePing.min /\ fakePing.min <= fakePing.max /\ fakePing.max <= Highest
  /\ managed =>
       IF fakePing.enabled THEN ping \in fakePing.min .. fakePing.max ELSE ping = 0

\* When the display was due, the ping shown is the average of the latest samples
\* of this bot, at most a window of them: none of the slot's last bot, also when
\* its last ping was the same, and none that has left the ring.
PingIsAverage ==
  managed /\ fakePing.enabled /\ recent # << >> /\ ticksSinceWrite = 0 =>
    ping = Total(recent) \div Len(recent)
===============================================================================
