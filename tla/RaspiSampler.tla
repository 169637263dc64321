---------------------------- MODULE RaspiSampler ----------------------------
(***************************************************************************)
(* RaspiStatus with what the sampler reads: the counters of /proc/stat and *)
(* the two sizes of /proc/meminfo, and what it makes of them.  It adds the *)
(* data to the steps of RaspiStatus and changes none of their control.     *)
(*                                                                         *)
(* The counters grow, except that the kernel may take iowait back; time is *)
(* never taken from the busy ones.  Memory is never available beyond its   *)
(* total, which is what keeps parseMemoryUsage from underflowing.          *)
(***************************************************************************)
EXTENDS RaspiStatus, Readings

CONSTANTS Tick,        \* bound: values of one counter of /proc/stat
          Size         \* bound: sizes of the memory

ASSUME TickAssumption == Tick \subseteq Nat /\ 0 \in Tick
ASSUME SizeAssumption == Size \subseteq Nat

VARIABLES times,       \* the counters as they were read last
          cpu,         \* the usage that was computed from them, until it is stored
          memory       \* the usage of the memory, likewise

readings    == <<times, cpu, memory>>
samplerVars == <<vars, readings>>

\* All busy time is a guest's, which the kernel counts twice, in user and in guest.
NoTicks  == [busy |-> 0, idle |-> 0, iowait |-> 0]
Counters == [busy : Tick, idle : Tick, iowait : Tick]
Line(c)  == <<c.busy, 0, 0, c.idle, c.iowait, 0, 0, 0, c.busy, 0>>
CpuTimes(c) == ParseCpuTimes(Line(c))

\* What /proc/stat may show after c.
Later(c, d) == d.busy >= c.busy /\ d.idle >= c.idle

Fractions == [part : Nat, whole : Nat]

SamplerTypeOK ==
    /\ TypeOK
    /\ times \in Counters
    /\ cpu \in Fractions
    /\ memory \in Fractions

SamplerInit == Init /\ times = NoTicks /\ cpu = Zero /\ memory = Zero

ReadFirst ==
    /\ FirstTimes
    /\ \E now \in Counters : Later(times, now) /\ times' = now
    /\ UNCHANGED <<cpu, memory>>

ReadAll ==
    /\ TakeSample
    /\ \E now \in Counters, total, available \in Size :
          /\ Later(times, now) /\ available <= total /\ total > 0
          /\ ~CpuUsagePanics(CpuTimes(times), CpuTimes(now))
          /\ times' = now
          /\ cpu' = CalcCpuUsage(CpuTimes(times), CpuTimes(now))
          /\ memory' = MemoryUsage(total, available)

Underflow ==
    /\ Panic
    /\ \E now \in Counters :
          /\ Later(times, now)
          /\ CpuUsagePanics(CpuTimes(times), CpuTimes(now))
          /\ times' = now
    /\ UNCHANGED <<cpu, memory>>

Store ==
    /\ StoreAll
    /\ cpu' = Zero /\ memory' = Zero
    /\ UNCHANGED times

NoReading == SampleFails \/ NotAvailable \/ GiveUp \/ \E f \in Fields : Visible(f)

SamplerStep ==
    \/ ReadFirst \/ ReadAll \/ Underflow \/ Store
    \/ NoReading /\ UNCHANGED readings

OtherStep == (Main \/ \E h \in Handler : Get(h)) /\ UNCHANGED readings

SamplerNext == SamplerStep \/ OtherStep

SamplerSpec == SamplerInit /\ [][SamplerNext]_samplerVars

\* The sampler is a thread of its own that waits for nobody.
FairSamplerSpec == SamplerSpec /\ WF_samplerVars(SamplerStep)

-----------------------------------------------------------------------------
(* Properties.                                                             *)

Busy(c, d)  == d.busy - c.busy
Spent(c, d) == Busy(c, d) + (d.idle + d.iowait) - (c.idle + c.iowait)

\* The usage of a round is a share of the whole, and the share that was busy since
\* the round before: neither waiting for a disk nor the guests' time, which the
\* kernel counts twice, distorts it.  Only in a second in which the kernel takes back
\* more waiting than was idle is it out of proportion.
UsageIsShare ==
    [][taken' # taken =>
          /\ cpu'.part \in 0 .. cpu'.whole /\ cpu'.whole > 0
          /\ memory'.part \in 0 .. memory'.whole /\ memory'.whole > 0
          /\ times'.idle + times'.iowait >= times.idle + times.iowait =>
                cpu'.part * Spent(times, times') = Busy(times, times') * cpu'.whole
      ]_samplerVars

\* The process is aborted by a reading only when the kernel took iowait back, and by
\* more than all other counters grew in that second.
PanicOnlyIfBack ==
    [][aborted' # aborted => times'.iowait < times.iowait /\ Spent(times, times') < 0]_samplerVars
=============================================================================
